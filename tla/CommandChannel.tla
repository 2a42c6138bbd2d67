--------------------------- MODULE CommandChannel ---------------------------
(***************************************************************************)
(* The command channel of the bridge agent: bridge/agent.py (polling,      *)
(* sender pool, _execute_command, result reporter) over the durable        *)
(* CommandJournal of bridge/command_journal.py.                            *)
(*                                                                         *)
(* Poller threads pull leased commands from the center and hand them to a  *)
(* bounded queue served by sender threads, or execute them inline.  Every  *)
(* execution claims the command, writes an "executing" record to the       *)
(* journal, calls the platform, stores the result in the journal and       *)
(* leaves the acknowledgement to one background reporter thread, which     *)
(* erases the record once the center has closed the command.  The process  *)
(* may die at any point and come back from the journal file.               *)
(*                                                                         *)
(* The center is outside this repository, and appears as the choices of    *)
(* Pull and Report; of the platform client only the outcome is kept, in    *)
(* Execute.                                                                *)
(***************************************************************************)
EXTENDS Naturals, Sequences, FiniteSets, SequencesExt

CONSTANTS
  Commands,     \* command ids the center hands out
  Pollers,      \* the main command loop and the _command_poll_worker threads
  Senders,      \* threads of the sender pool
  Results,      \* what an execution may come to: "ok", "failed", "indeterminate"...
  Pooled,       \* the commands whose shop goes through the pool
  Conversation, \* [Commands -> account|buyer]: the key of the sender lock
  PullLimit,    \* commands one poll returns at most (10)
  QueueCap,     \* maxsize of _sender_queue (64)
  ClaimCap,     \* bound of _command_claimed (2000)
  ClaimKeep,    \* ids kept when that bound is passed (1000)
  DoneCap,      \* bound of _commands_done (5000)
  DoneKeep,     \* ids kept when that bound is passed (2000)
  MaxRestarts,  \* bound of the model on process restarts
  None          \* no command, no record, nothing queued

\* Who may execute a command: the pollers, and the threads _start_sender_pool starts.
Threads == Pollers \cup Senders
Verdicts == Results \cup {"gone"}
Records == Results \cup {None, "executing"}

ASSUME ChannelAssumption ==
  /\ IsFiniteSet(Commands) /\ IsFiniteSet(Pollers)
  /\ Pollers \cap Senders = {}
  /\ Pooled \subseteq Commands
  /\ DOMAIN Conversation = Commands
  /\ PullLimit \in Nat /\ QueueCap \in Nat /\ MaxRestarts \in Nat
  /\ ClaimCap \in Nat /\ ClaimKeep \in 0..ClaimCap
  /\ DoneCap \in Nat /\ DoneKeep \in 0..DoneCap
  /\ "indeterminate" \in Results
  /\ Results \cap {"executing", "gone", "open"} = {}
  /\ None \notin Commands \cup Results \cup {"executing"}

VARIABLES
  center,    \* the center's view: "open" or the verdict that closed the command
  sent,      \* history: real messages the buyer got for a command (0, 1, many)
  attempts,  \* history: platform sends begun for a command in this process life
  told,      \* history: the results executions of a command have come to
  mem,       \* CommandJournal._records
  disk,      \* the journal file
  loadOk,    \* CommandJournal._load_ok
  claimed,   \* _command_claimed
  done,      \* _commands_done
  queue,     \* _sender_queue
  waiting,   \* senders in the order they reached the conversation lock
  pc, cmd,   \* where each thread is, and the command it works on
  outcome,   \* the result a thread is about to store
  batch,     \* commands a poller pulled and has not yet dispatched
  inline,    \* commands a poller keeps to execute itself
  snap,      \* what is left of a poller's snapshot of pending_results()
  report,    \* the reporter's queue: the result queued for each pending id
  reporter,  \* the reporter thread
  restarts   \* process restarts so far

journal == <<mem, disk, loadOk>>
threads == <<queue, waiting, pc, cmd, outcome, batch, inline, snap>>
history == <<sent, attempts, told>>
vars == <<center, history, journal, claimed, done, threads, report, reporter,
          restarts>>

\* Mutant of SkipResultRetry: even a single poller leaves the retry out.
AlwaysSkipRetry == TRUE

\* With several pollers _command_loop sets _skip_result_retry, and every poller,
\* the main loop included, runs the same _handle_commands.
SkipResultRetry == Cardinality(Pollers) > 1

\* A history counter that only tells 0, 1 and "more than once" apart.
Bump(f, c) == [f EXCEPT ![c] = IF @ = 0 THEN 1 ELSE 2]

\* What a bounded id set may become once x is added: above cap an arbitrary
\* part of it is kept, since set(list(ids)[-keep:]) has no defined order.
Bounded(ids, x, cap, keep) ==
  IF Cardinality(ids \cup {x}) > cap
  THEN {kept \in SUBSET (ids \cup {x}) : Cardinality(kept) = keep}
  ELSE {ids \cup {x}}

PendingResults == {[id |-> c, result |-> mem[c]] :
                     c \in {d \in Commands : mem[d] \in Results}}

\* _report_command_result: an id whose report is pending is not queued again.
Reported(c, r) == IF report[c] = None THEN [report EXCEPT ![c] = r] ELSE report

\* The file after an attempt to persist the records m: os.replace installs all
\* of them, an OSError leaves the previous file.
Persist(m) == disk' \in {m, disk}

NoReport == [pc |-> "idle", id |-> None, result |-> None]

Init ==
  /\ center = [c \in Commands |-> "open"]
  /\ sent = [c \in Commands |-> 0]
  /\ attempts = [c \in Commands |-> 0]
  /\ told = [c \in Commands |-> {}]
  /\ mem = [c \in Commands |-> None]
  /\ disk = [c \in Commands |-> None]
  /\ loadOk = TRUE
  /\ claimed = {} /\ done = {}
  /\ queue = <<>> /\ waiting = <<>>
  /\ pc = [t \in Threads |-> "idle"]
  /\ cmd = [t \in Threads |-> None]
  /\ outcome = [t \in Threads |-> None]
  /\ batch = [p \in Pollers |-> {}]
  /\ inline = [p \in Pollers |-> {}]
  /\ snap = [p \in Pollers |-> {}]
  /\ report = [c \in Commands |-> None]
  /\ reporter = NoReport
  /\ restarts = 0

-----------------------------------------------------------------------------
(* Polling: _handle_commands.                                              *)

\* The long poll returns commands the center still holds open.  A leased
\* command may come again: its lease ran out or two polls overlapped.
Pull(p, pulled) ==
  /\ pc[p] = "idle" /\ snap[p] = {}
  /\ Cardinality(pulled) <= PullLimit
  /\ \A c \in pulled : center[c] = "open"
  /\ batch' = [batch EXCEPT ![p] = pulled]
  /\ pc' = [pc EXCEPT ![p] = IF pulled = {} THEN "idle" ELSE "dispatch"]
  /\ snap' = [snap EXCEPT ![p] = IF SkipResultRetry THEN {} ELSE PendingResults]
  /\ UNCHANGED <<center, history, journal, claimed, done, queue, waiting, cmd,
                 outcome, inline, report, reporter, restarts>>

\* The long poll fails: the pending results are retried, nothing is dispatched.
PullFails(p) ==
  /\ pc[p] = "idle" /\ snap[p] = {}
  /\ snap' = [snap EXCEPT ![p] = PendingResults]
  /\ UNCHANGED <<center, history, journal, claimed, done, queue, waiting, pc,
                 cmd, outcome, batch, inline, report, reporter, restarts>>

\* One turn of the loop of _retry_command_results over its snapshot.
RetryResult(p) ==
  /\ \E row \in snap[p] :
       /\ snap' = [snap EXCEPT ![p] = @ \ {row}]
       /\ report' = Reported(row.id, row.result)
  /\ UNCHANGED <<center, history, journal, claimed, done, queue, waiting, pc,
                 cmd, outcome, batch, inline, reporter, restarts>>

\* One pulled command goes to the pool, or stays for inline execution when the
\* pool is off for its shop or put_nowait raises Full.
Dispatch(p) ==
  /\ pc[p] = "dispatch" /\ snap[p] = {}
  /\ \E c \in batch[p] :
       /\ batch' = [batch EXCEPT ![p] = @ \ {c}]
       /\ \/ /\ c \in Pooled /\ Len(queue) < QueueCap
             /\ queue' = Append(queue, c)
             /\ UNCHANGED inline
          \/ /\ c \notin Pooled \/ Len(queue) >= QueueCap
             /\ inline' = [inline EXCEPT ![p] = @ \cup {c}]
             /\ UNCHANGED queue
  /\ UNCHANGED <<center, history, journal, claimed, done, waiting, pc, cmd,
                 outcome, snap, report, reporter, restarts>>

\* The batch is dispatched: execute the next inline command, or poll again.
RunInline(p) ==
  /\ pc[p] = "dispatch" /\ snap[p] = {} /\ batch[p] = {}
  /\ \/ /\ inline[p] = {}
        /\ pc' = [pc EXCEPT ![p] = "idle"]
        /\ UNCHANGED <<inline, cmd>>
     \/ \E c \in inline[p] :
          /\ inline' = [inline EXCEPT ![p] = @ \ {c}]
          /\ cmd' = [cmd EXCEPT ![p] = c]
          /\ pc' = [pc EXCEPT ![p] = "claim"]
  /\ UNCHANGED <<center, history, journal, claimed, done, queue, waiting,
                 outcome, batch, snap, report, reporter, restarts>>

-----------------------------------------------------------------------------
(* The sender pool: _sender_worker_loop and _sender_conversation_lock.     *)

Take(s) ==
  /\ pc[s] = "idle" /\ queue # <<>>
  /\ cmd' = [cmd EXCEPT ![s] = Head(queue)]
  /\ queue' = Tail(queue)
  /\ pc' = [pc EXCEPT ![s] = "lock"]
  /\ waiting' = Append(waiting, s)
  /\ UNCHANGED <<center, history, journal, claimed, done, outcome, batch,
                 inline, snap, report, reporter, restarts>>

\* Holding a conversation lock is being a sender past it.
LockFree(conv) ==
  \A s \in Senders :
    pc[s] \notin {"idle", "lock"} => Conversation[cmd[s]] # conv

\* threading.Lock wakes any of its waiters.
Acquire(s) ==
  /\ pc[s] = "lock" /\ LockFree(Conversation[cmd[s]])
  /\ pc' = [pc EXCEPT ![s] = "claim"]
  /\ \E i \in DOMAIN waiting : waiting[i] = s /\ waiting' = RemoveAt(waiting, i)
  /\ UNCHANGED <<center, history, journal, claimed, done, queue, cmd, outcome,
                 batch, inline, snap, report, reporter, restarts>>

-----------------------------------------------------------------------------
(* Execution: _execute_command, run by senders and, inline, by pollers.    *)

\* The thread leaves _execute_command.
Finish(t) ==
  /\ pc' = [pc EXCEPT ![t] = IF t \in Senders THEN "idle" ELSE "dispatch"]
  /\ cmd' = [cmd EXCEPT ![t] = None]

Goto(t, label) == pc' = [pc EXCEPT ![t] = label] /\ UNCHANGED cmd

\* Mutant of Claim: only _commands_done is looked at.
ClaimIfNotDone(t) ==
  /\ pc[t] = "claim"
  /\ \/ /\ cmd[t] \in done
        /\ Finish(t) /\ UNCHANGED claimed
     \/ /\ cmd[t] \notin done
        /\ claimed' \in Bounded(claimed, cmd[t], ClaimCap, ClaimKeep)
        /\ Goto(t, "lookup")
  /\ UNCHANGED <<center, history, journal, done, queue, waiting, outcome,
                 batch, inline, snap, report, reporter, restarts>>

\* _claim_command, under its own lock.
Claim(t) ==
  /\ pc[t] = "claim"
  /\ \/ /\ cmd[t] \in claimed \cup done
        /\ Finish(t) /\ UNCHANGED claimed
     \/ /\ cmd[t] \notin claimed \cup done
        /\ claimed' \in Bounded(claimed, cmd[t], ClaimCap, ClaimKeep)
        /\ Goto(t, "lookup")
  /\ UNCHANGED <<center, history, journal, done, queue, waiting, outcome,
                 batch, inline, snap, report, reporter, restarts>>

\* command_journal.get: an existing record is reported again, never executed.
Lookup(t) ==
  /\ pc[t] = "lookup"
  /\ \/ mem[cmd[t]] = None /\ Goto(t, "check") /\ UNCHANGED report
     \/ mem[cmd[t]] = "executing" /\ Finish(t) /\ UNCHANGED report
     \/ /\ mem[cmd[t]] \in Results
        /\ report' = Reported(cmd[t], mem[cmd[t]])
        /\ Finish(t)
  /\ UNCHANGED <<center, history, journal, claimed, done, queue, waiting,
                 outcome, batch, inline, snap, reporter, restarts>>

CheckDone(t) ==
  /\ pc[t] = "check"
  /\ \/ cmd[t] \in done /\ Finish(t)
     \/ cmd[t] \notin done /\ Goto(t, "start")
  /\ UNCHANGED <<center, history, journal, claimed, done, queue, waiting,
                 outcome, batch, inline, snap, report, reporter, restarts>>

\* Mutant of Start: the answer of _persist_locked is ignored.
StartUnpersisted(t) ==
  /\ pc[t] = "start"
  /\ \/ /\ loadOk
        /\ mem' = [mem EXCEPT ![cmd[t]] = "executing"]
        /\ Persist(mem')
        /\ Goto(t, "execute")
     \/ Finish(t) /\ UNCHANGED <<mem, disk>>
  /\ UNCHANGED <<center, history, loadOk, claimed, done, queue, waiting,
                 outcome, batch, inline, snap, report, reporter, restarts>>

\* command_journal.start: the record is durable before anything is executed; an
\* unreadable or unwritable journal refuses the execution and rolls back.
Start(t) ==
  /\ pc[t] = "start"
  /\ \/ /\ loadOk
        /\ mem' = [mem EXCEPT ![cmd[t]] = "executing"]
        /\ disk' = mem'
        /\ Goto(t, "execute")
     \/ Finish(t) /\ UNCHANGED <<mem, disk>>
  /\ UNCHANGED <<center, history, loadOk, claimed, done, queue, waiting,
                 outcome, batch, inline, snap, report, reporter, restarts>>

\* The command is executed, and comes to some result.  What the buyer got is open
\* whatever the result says: a page call that fails may have gone out, a receipt may
\* be another message's (see SendReceipt).
Execute(t) ==
  /\ pc[t] = "execute"
  /\ \E r \in Results :
       /\ outcome' = [outcome EXCEPT ![t] = r]
       /\ told' = [told EXCEPT ![cmd[t]] = @ \cup {r}]
  /\ sent' \in {sent, Bump(sent, cmd[t])}
  /\ attempts' = Bump(attempts, cmd[t])
  /\ Goto(t, "store")
  /\ UNCHANGED <<center, journal, claimed, done, queue, waiting, batch, inline,
                 snap, report, reporter, restarts>>

\* command_journal.store_result: kept in memory even when the file is not.
Store(t) ==
  /\ pc[t] = "store"
  /\ mem' = [mem EXCEPT ![cmd[t]] = outcome[t]]
  /\ Persist(mem')
  /\ Goto(t, "reply")
  /\ UNCHANGED <<center, history, loadOk, claimed, done, queue, waiting,
                 outcome, batch, inline, snap, report, reporter, restarts>>

Reply(t) ==
  /\ pc[t] = "reply"
  /\ report' = Reported(cmd[t], outcome[t])
  /\ outcome' = [outcome EXCEPT ![t] = None]
  /\ Finish(t)
  /\ UNCHANGED <<center, history, journal, claimed, done, queue, waiting,
                 batch, inline, snap, reporter, restarts>>

-----------------------------------------------------------------------------
(* The result reporter: _ensure_result_reporter.run, _send_command_result. *)

ReportTake(c) ==
  /\ reporter.pc = "idle" /\ report[c] # None
  /\ reporter' = [pc |-> "call", id |-> c, result |-> report[c]]
  /\ UNCHANGED <<center, history, journal, claimed, done, threads, report,
                 restarts>>

\* The center closes a command once and answers repeats with the same verdict.
Close(c, verdict) ==
  center' = [center EXCEPT ![c] = IF @ = "open" THEN verdict ELSE @]

\* finally: the id is no longer pending.
Release(c) == reporter' = NoReport /\ report' = [report EXCEPT ![c] = None]

\* The answer says committed.
ReportCommitted(c) ==
  /\ reporter.pc = "call" /\ reporter.id = c
  /\ Close(c, reporter.result)
  /\ reporter' = [reporter EXCEPT !.pc = "erase"]
  /\ UNCHANGED <<history, journal, claimed, done, threads, report, restarts>>

\* 404, 410 or 409 with retryable = False: the center is through with the
\* command and the record is given up; only this path leaves done unbounded.
ReportTerminal(c) ==
  /\ reporter.pc = "call" /\ reporter.id = c
  /\ Close(c, "gone")
  /\ reporter' = [reporter EXCEPT !.pc = "erase", !.result = "gone"]
  /\ UNCHANGED <<history, journal, claimed, done, threads, report, restarts>>

\* Mutant of ReportFails: the record is erased without a commit.
ReportFailsErases(c) ==
  /\ reporter.pc = "call" /\ reporter.id = c
  /\ Close(c, reporter.result) \/ UNCHANGED center
  /\ reporter' = [reporter EXCEPT !.pc = "erase"]
  /\ UNCHANGED <<history, journal, claimed, done, threads, report, restarts>>

\* No commit reaches the agent: the request is lost, the answer is lost after
\* the center closed the command, or the answer is "not yet".
ReportFails(c) ==
  /\ reporter.pc = "call" /\ reporter.id = c
  /\ Close(c, reporter.result) \/ UNCHANGED center
  /\ Release(c)
  /\ UNCHANGED <<history, journal, claimed, done, threads, restarts>>

\* command_journal.remove: gone from memory even when the file keeps it.
Erase ==
  /\ reporter.pc = "erase"
  /\ mem' = [mem EXCEPT ![reporter.id] = None]
  /\ Persist(mem')
  /\ reporter' = [reporter EXCEPT !.pc = "mark"]
  /\ UNCHANGED <<center, history, loadOk, claimed, done, threads, report,
                 restarts>>

MarkDone ==
  /\ reporter.pc = "mark"
  /\ \/ reporter.result = "gone" /\ done' = done \cup {reporter.id}
     \/ /\ reporter.result # "gone"
        /\ done' \in Bounded(done, reporter.id, DoneCap, DoneKeep)
  /\ Release(reporter.id)
  /\ UNCHANGED <<center, history, journal, claimed, threads, restarts>>

-----------------------------------------------------------------------------
(* A crash and the next start: CommandJournal._load.                       *)

\* An execution the crash cut short comes back as an indeterminate result.
Recovered(file) ==
  [c \in Commands |-> IF file[c] = "executing" THEN "indeterminate" ELSE file[c]]

Restart ==
  /\ restarts < MaxRestarts
  /\ restarts' = restarts + 1
  /\ \/ /\ loadOk' = TRUE
        /\ mem' = Recovered(disk)
        /\ Persist(mem')
     \/ /\ loadOk' = FALSE
        /\ mem' = [c \in Commands |-> None]
        /\ UNCHANGED disk
  /\ claimed' = {} /\ done' = {}
  /\ queue' = <<>> /\ waiting' = <<>>
  /\ pc' = [t \in Threads |-> "idle"]
  /\ cmd' = [t \in Threads |-> None]
  /\ outcome' = [t \in Threads |-> None]
  /\ batch' = [p \in Pollers |-> {}]
  /\ inline' = [p \in Pollers |-> {}]
  /\ snap' = [p \in Pollers |-> {}]
  /\ report' = [c \in Commands |-> None]
  /\ reporter' = NoReport
  /\ attempts' = [c \in Commands |-> 0]
  /\ UNCHANGED <<center, sent, told>>

-----------------------------------------------------------------------------
Poll(p) ==
  \/ \E pulled \in SUBSET Commands : Pull(p, pulled)
  \/ PullFails(p) \/ RetryResult(p) \/ Dispatch(p) \/ RunInline(p)

Work(t) ==
  Claim(t) \/ Lookup(t) \/ CheckDone(t) \/ Start(t) \/ Execute(t) \/ Store(t)
    \/ Reply(t)

Report(c) ==
  ReportTake(c) \/ ReportCommitted(c) \/ ReportTerminal(c) \/ ReportFails(c)

Next ==
  \/ \E p \in Pollers : Poll(p)
  \/ \E s \in Senders : Take(s) \/ Acquire(s)
  \/ \E t \in Threads : Work(t)
  \/ \E c \in Commands : Report(c)
  \/ Erase \/ MarkDone
  \/ Restart

Spec == Init /\ [][Next]_vars

-----------------------------------------------------------------------------
(* Properties.                                                             *)

Labels == {"idle", "dispatch", "lock", "claim", "lookup", "check", "start",
           "execute", "store", "reply"}

\* Types: journal records are results or "executing", queues hold command ids.
TypeOK ==
  /\ center \in [Commands -> {"open"} \cup Verdicts]
  /\ sent \in [Commands -> 0..2]
  /\ attempts \in [Commands -> 0..2]
  /\ told \in [Commands -> SUBSET Results]
  /\ mem \in [Commands -> Records]
  /\ disk \in [Commands -> Records]
  /\ loadOk \in BOOLEAN
  /\ claimed \subseteq Commands
  /\ done \subseteq Commands
  /\ queue \in Seq(Commands)
  /\ waiting \in Seq(Senders)
  /\ pc \in [Threads -> Labels]
  /\ cmd \in [Threads -> Commands \cup {None}]
  /\ outcome \in [Threads -> Results \cup {None}]
  /\ batch \in [Pollers -> SUBSET Commands]
  /\ inline \in [Pollers -> SUBSET Commands]
  /\ snap \in [Pollers -> SUBSET [id : Commands, result : Results]]
  /\ report \in [Commands -> Results \cup {None}]
  /\ reporter \in [pc : {"idle", "call", "erase", "mark"},
                   id : Commands \cup {None}, result : Verdicts \cup {None}]
  /\ restarts \in Nat

\* Within one life of the process a command is executed at most once, however
\* many polls bring it: the claim of _claim_command.
AtMostOnceExecution == \A c \in Commands : attempts[c] <= 1

\* The buyer gets a command's message at most once, across restarts too: "a second
\* execution must never happen" (_execute_command).
AtMostOnceSend == \A c \in Commands : sent[c] <= 1

\* A message that reached the buyer is on file until the center has closed its
\* command, so that no crash forgets it: start() persists before the send.
SentIsJournaled ==
  \A c \in Commands : sent[c] > 0 /\ center[c] = "open" => disk[c] # None

\* The channel implements CommandPromise: nothing is executed or forgotten off the
\* file, and a verdict is the result of an execution, kept and relayed unchanged.
Promise == INSTANCE CommandPromise WITH
  logged <- {c \in Commands : disk[c] # None},
  delivered <- {c \in Commands : sent[c] > 0}

KeepsPromise == Promise!Spec

\* No sender that took a command from the queue earlier is still waiting for s's
\* conversation.
OrderOfArrival(s) ==
  \A i, j \in DOMAIN waiting :
    i < j /\ waiting[j] = s => Conversation[cmd[waiting[i]]] # Conversation[cmd[s]]

\* The pool serves one conversation in the order of the queue: "one buyer strictly
\* in order" (test_sender_pool_keeps_per_conversation_order).
\* This does not hold; see the README.
ConversationOrder ==
  [][\A s \in Senders : pc[s] = "lock" /\ pc'[s] = "claim" => OrderOfArrival(s)]_vars

-----------------------------------------------------------------------------
(* Liveness.                                                               *)

\* Threads keep running; the center keeps handing out an open command; the
\* FIFO report queue reaches every id; a report does not fail for ever.
Fairness ==
  /\ \A p \in Pollers :
       /\ WF_vars(RetryResult(p)) /\ WF_vars(Dispatch(p)) /\ WF_vars(RunInline(p))
       /\ WF_vars(\E pulled \in SUBSET Commands : Pull(p, pulled))
  /\ \A s \in Senders : SF_vars(Take(s)) /\ SF_vars(Acquire(s))
  /\ \A t \in Threads : WF_vars(Work(t))
  /\ \A c \in Commands :
       /\ SF_vars(\E p \in Pollers : Pull(p, {c}))
       /\ SF_vars(ReportTake(c))
       /\ SF_vars(ReportCommitted(c) \/ ReportTerminal(c))
  /\ WF_vars(Erase) /\ WF_vars(MarkDone)

FairSpec == Spec /\ Fairness

\* A result the journal holds is reported until the center has closed its command
\* (unless a restart finds the journal file unreadable).
ResultSettles ==
  \A c \in Commands : mem[c] \in Results ~> (center[c] # "open" \/ ~loadOk)
=============================================================================
