------------------------ MODULE CommandChannelProofs ------------------------
(***************************************************************************)
(* Theorems about CommandChannel, for every finite set of commands, every  *)
(* number of pollers and senders, every queue capacity and any number of   *)
(* restarts:                                                               *)
(*   - TypeCorrect: every variable keeps its type;                         *)
(*   - Journaled: a message that reached the buyer is on file until the    *)
(*     center has closed its command;                                      *)
(*   - ExecutedOnce: one life of the process executes a command at most    *)
(*     once, provided the claim set is never cut;                          *)
(*   - PromiseKept: the channel implements CommandPromise.                 *)
(***************************************************************************)
EXTENDS CommandChannel, FiniteSetTheorems, TLAPS

Past == {"lookup", "check", "start", "execute", "store", "reply"}
Holding == {"lock", "claim"} \cup Past
Running == {"execute", "store", "reply"}

\* A thread that has left the queue works on a command.
Busy == \A t \in Threads : pc[t] \in Holding => cmd[t] \in Commands

\* The reporter, once it has taken an id, has a command and a result.
ReporterBusy == reporter.pc # "idle" =>
  reporter.id \in Commands /\ reporter.result \in Verdicts

\* Types, with the command of each busy thread and of the reporter.
TypeInv == TypeOK /\ Busy /\ ReporterBusy

-----------------------------------------------------------------------------
(* Journaled: memory and file agree on every open command.                 *)

\* A thread about to store or report its result has one.
HasOutcome == \A t \in Threads : pc[t] \in {"store", "reply"} => outcome[t] \in Results

Agree == \A c \in Commands :
  center[c] = "open" /\ loadOk => (mem[c] = None <=> disk[c] = None)

\* A thread from execute on has its record on file, unless the center has
\* closed the command meanwhile.
OnFile == \A t \in Threads :
  pc[t] \in Running /\ center[cmd[t]] = "open"
    => disk[cmd[t]] # None

\* Only a closed command's record is erased.
EraseClosed == reporter.pc \in {"erase", "mark"} => center[reporter.id] # "open"

\* With an unreadable journal nothing is executed or reported.
Quiet == ~loadOk =>
  /\ \A c \in Commands : mem[c] = None /\ report[c] = None
  /\ \A p \in Pollers : snap[p] = {}
  /\ \A t \in Threads : pc[t] \notin Running
  /\ reporter.pc = "idle"

JournalInv ==
  /\ TypeInv /\ HasOutcome
  /\ Agree /\ OnFile /\ EraseClosed /\ Quiet /\ SentIsJournaled

-----------------------------------------------------------------------------
(* ExecutedOnce: claims exclude each other.                                *)

ClaimHeld == \A t \in Threads : pc[t] \in Past => cmd[t] \in claimed

ClaimAlone == \A t, u \in Threads :
  t # u /\ pc[t] \in Past /\ pc[u] \in Past => cmd[t] # cmd[u]

AttemptsClaimed == \A c \in Commands : attempts[c] > 0 => c \in claimed

NotYetAttempted == \A t \in Threads :
  pc[t] \in {"lookup", "check", "start", "execute"} => attempts[cmd[t]] = 0

ClaimInv ==
  /\ TypeInv /\ ClaimHeld /\ ClaimAlone /\ AttemptsClaimed /\ NotYetAttempted
  /\ AtMostOnceExecution

-----------------------------------------------------------------------------
LEMMA InitType == Init => TypeInv
BY ChannelAssumption DEF Init, TypeInv, TypeOK, Busy, ReporterBusy, Threads,
   Records, Verdicts, Labels, Holding, Past, NoReport

LEMMA TypeStep == TypeInv /\ [Next]_vars => TypeInv'
<1> SUFFICES ASSUME TypeInv, [Next]_vars PROVE TypeInv'
  OBVIOUS
<1> USE ChannelAssumption
    DEF TypeInv, TypeOK, Busy, ReporterBusy, Holding, Past, Labels, Records,
        Verdicts, Threads, history, journal, threads
<1>a. ASSUME NEW t \in Threads, Finish(t)
      PROVE  /\ pc' \in [Threads -> Labels] /\ Busy'
             /\ cmd' \in [Threads -> Commands \cup {None}]
  BY <1>a DEF Finish
<1>b. ASSUME NEW t \in Threads, NEW label \in Past, Goto(t, label),
             cmd[t] \in Commands
      PROVE  /\ pc' \in [Threads -> Labels] /\ Busy'
             /\ cmd' \in [Threads -> Commands \cup {None}]
  BY <1>b DEF Goto
<1>1. ASSUME NEW p \in Pollers, NEW pulled \in SUBSET Commands, Pull(p, pulled)
      PROVE  TypeInv'
  BY <1>1 DEF Pull, PendingResults
<1>2. ASSUME NEW p \in Pollers, PullFails(p) PROVE TypeInv'
  BY <1>2 DEF PullFails, PendingResults
<1>3. ASSUME NEW p \in Pollers, RetryResult(p) PROVE TypeInv'
  BY <1>3 DEF RetryResult, Reported
<1>4. ASSUME NEW p \in Pollers, Dispatch(p) PROVE TypeInv'
  <2>1. PICK c \in batch[p] :
          /\ batch' = [batch EXCEPT ![p] = @ \ {c}]
          /\ \/ queue' = Append(queue, c) /\ UNCHANGED inline
             \/ inline' = [inline EXCEPT ![p] = @ \cup {c}] /\ UNCHANGED queue
    BY <1>4 DEF Dispatch
  <2>2. c \in Commands /\ batch' \in [Pollers -> SUBSET Commands]
    BY <1>4, <2>1
  <2>3. queue' \in Seq(Commands)
    <3>1. queue \in Seq(Commands)
      OBVIOUS
    <3> HIDE DEF TypeInv
    <3> QED
      BY <2>1, <2>2, <3>1
  <2>4. inline' \in [Pollers -> SUBSET Commands]
    <3>1. inline \in [Pollers -> SUBSET Commands]
      OBVIOUS
    <3> HIDE DEF TypeInv
    <3> QED
      BY <2>1, <2>2, <3>1
  <2> QED
    BY <1>4, <2>2, <2>3, <2>4 DEF Dispatch
<1>5. ASSUME NEW p \in Pollers, RunInline(p) PROVE TypeInv'
  <2>1. CASE inline[p] = {}
    <3>1. pc' = [pc EXCEPT ![p] = "idle"] /\ cmd' = cmd /\ inline' = inline
      BY <1>5, <2>1 DEF RunInline
    <3>2. pc' \in [Threads -> Labels] /\ Busy'
      BY <3>1
    <3> QED
      BY <1>5, <3>1, <3>2 DEF RunInline
  <2>2. CASE inline[p] # {}
    <3>1. PICK c \in inline[p] :
            /\ inline' = [inline EXCEPT ![p] = @ \ {c}]
            /\ cmd' = [cmd EXCEPT ![p] = c]
            /\ pc' = [pc EXCEPT ![p] = "claim"]
      BY <1>5, <2>2 DEF RunInline
    <3>2. c \in Commands /\ inline' \in [Pollers -> SUBSET Commands]
      BY <1>5, <3>1
    <3>3. /\ cmd' \in [Threads -> Commands \cup {None}]
          /\ pc' \in [Threads -> Labels]
          /\ Busy'
      BY <1>5, <3>1, <3>2
    <3> QED
      BY <1>5, <3>2, <3>3 DEF RunInline
  <2> HIDE DEF TypeInv
  <2> QED
    BY <2>1, <2>2
<1>6. ASSUME NEW s \in Senders, Take(s) PROVE TypeInv'
  BY <1>6 DEF Take
<1>7. ASSUME NEW s \in Senders, Acquire(s) PROVE TypeInv'
  BY <1>7 DEF Acquire, RemoveAt
<1>8. ASSUME NEW t \in Threads, Claim(t) PROVE TypeInv'
  <2>1. /\ pc' \in [Threads -> Labels] /\ Busy'
        /\ cmd' \in [Threads -> Commands \cup {None}]
    BY <1>8, <1>a, <1>b DEF Claim
  <2>2. claimed' \subseteq Commands
    BY <1>8 DEF Claim, Bounded
  <2> QED
    BY <1>8, <2>1, <2>2 DEF Claim
<1>9. ASSUME NEW t \in Threads, Lookup(t) PROVE TypeInv'
  <2>1. /\ pc' \in [Threads -> Labels] /\ Busy'
        /\ cmd' \in [Threads -> Commands \cup {None}]
    BY <1>9, <1>a, <1>b DEF Lookup
  <2>2. report' \in [Commands -> Results \cup {None}]
    BY <1>9 DEF Lookup, Reported
  <2> QED
    BY <1>9, <2>1, <2>2 DEF Lookup
<1>10. ASSUME NEW t \in Threads, CheckDone(t) PROVE TypeInv'
  <2>1. /\ pc' \in [Threads -> Labels] /\ Busy'
        /\ cmd' \in [Threads -> Commands \cup {None}]
    BY <1>10, <1>a, <1>b DEF CheckDone
  <2> QED
    BY <1>10, <2>1 DEF CheckDone
<1>11. ASSUME NEW t \in Threads, Start(t) PROVE TypeInv'
  <2>1. cmd[t] \in Commands
    BY <1>11 DEF Start
  <2>2. mem' \in [Commands -> Records] /\ disk' \in [Commands -> Records]
    <3>1. CASE mem' = [mem EXCEPT ![cmd[t]] = "executing"] /\ disk' = mem'
      BY <3>1, <2>1
    <3>2. CASE UNCHANGED <<mem, disk>>
      BY <3>2
    <3> QED
      BY <1>11, <3>1, <3>2 DEF Start
  <2>3. /\ cmd' \in [Threads -> Commands \cup {None}]
        /\ pc' \in [Threads -> Labels]
        /\ Busy'
    <3>1. CASE Goto(t, "execute")
      BY <1>11, <2>1, <3>1 DEF Goto
    <3>2. CASE Finish(t)
      BY <1>11, <2>1, <3>2 DEF Finish
    <3> QED
      BY <1>11, <3>1, <3>2 DEF Start
  <2> QED
    BY <1>11, <2>2, <2>3 DEF Start
<1>12. ASSUME NEW t \in Threads, Execute(t) PROVE TypeInv'
  BY <1>12 DEF Execute, Goto, Bump
<1>13. ASSUME NEW t \in Threads, Store(t) PROVE TypeInv'
  <2>1. cmd[t] \in Commands
    BY <1>13 DEF Store
  <2>2. mem' \in [Commands -> Records]
    BY <1>13, <2>1 DEF Store
  <2>3. disk' \in [Commands -> Records]
    BY <1>13, <2>2 DEF Store, Persist
  <2>4. /\ cmd' \in [Threads -> Commands \cup {None}]
        /\ pc' \in [Threads -> Labels]
        /\ Busy'
    BY <1>13, <2>1 DEF Store, Goto
  <2> QED
    BY <1>13, <2>2, <2>3, <2>4 DEF Store
<1>14. ASSUME NEW t \in Threads, Reply(t) PROVE TypeInv'
  BY <1>14 DEF Reply, Finish, Reported
<1>15. ASSUME NEW c \in Commands, ReportTake(c) PROVE TypeInv'
  BY <1>15 DEF ReportTake
<1>16. ASSUME NEW c \in Commands, ReportCommitted(c) PROVE TypeInv'
  <2>1. reporter.result \in Verdicts
    BY <1>16 DEF ReportCommitted
  <2>2. center' \in [Commands -> {"open"} \cup Verdicts]
    BY <1>16, <2>1 DEF ReportCommitted, Close
  <2>3. reporter' \in [pc : {"idle", "call", "erase", "mark"},
                      id : Commands \cup {None}, result : Verdicts \cup {None}]
    BY <1>16 DEF ReportCommitted
  <2>4. ReporterBusy'
    BY <1>16 DEF ReportCommitted
  <2> QED
    BY <1>16, <2>2, <2>3, <2>4 DEF ReportCommitted
<1>17. ASSUME NEW c \in Commands, ReportTerminal(c) PROVE TypeInv'
  BY <1>17 DEF ReportTerminal, Close
<1>18. ASSUME NEW c \in Commands, ReportFails(c) PROVE TypeInv'
  <2>1. reporter.result \in Verdicts
    BY <1>18 DEF ReportFails
  <2>2. center' \in [Commands -> {"open"} \cup Verdicts]
    BY <1>18, <2>1 DEF ReportFails, Close
  <2> QED
    BY <1>18, <2>2 DEF ReportFails, Release, NoReport
<1>19. ASSUME Erase PROVE TypeInv'
  BY <1>19 DEF Erase, Persist
<1>20. ASSUME MarkDone PROVE TypeInv'
  BY <1>20 DEF MarkDone, Release, NoReport, Bounded
<1>21. ASSUME Restart PROVE TypeInv'
  <2>1. Recovered(disk) \in [Commands -> Records]
    BY DEF Recovered
  <2>2. mem' \in [Commands -> Records]
    BY <1>21, <2>1 DEF Restart
  <2>3. disk' \in [Commands -> Records]
    BY <1>21, <2>2 DEF Restart, Persist
  <2>4. Busy' /\ ReporterBusy'
    BY <1>21 DEF Restart, NoReport
  <2>5. queue' \in Seq(Commands) /\ waiting' \in Seq(Senders)
    BY <1>21 DEF Restart
  <2>6. /\ attempts' \in [Commands -> 0..2]
        /\ report' \in [Commands -> Results \cup {None}]
        /\ claimed' \subseteq Commands /\ done' \subseteq Commands
        /\ loadOk' \in BOOLEAN /\ restarts' \in Nat
    <3>1. attempts' \in [Commands -> 0..2]
      BY <1>21 DEF Restart
    <3>2. report' \in [Commands -> Results \cup {None}]
      BY <1>21 DEF Restart
    <3>3. claimed' \subseteq Commands /\ done' \subseteq Commands
      BY <1>21 DEF Restart
    <3>4. loadOk' \in BOOLEAN
      BY <1>21 DEF Restart
    <3>5. restarts \in Nat /\ restarts' = restarts + 1
      BY <1>21 DEF Restart
    <3> QED
      BY <3>1, <3>2, <3>3, <3>4, <3>5
  <2>7. /\ pc' \in [Threads -> Labels] /\ cmd' \in [Threads -> Commands \cup {None}]
        /\ outcome' \in [Threads -> Results \cup {None}]
        /\ batch' \in [Pollers -> SUBSET Commands]
        /\ inline' \in [Pollers -> SUBSET Commands]
        /\ snap' \in [Pollers -> SUBSET [id : Commands, result : Results]]
    BY <1>21 DEF Restart
  <2>8. reporter' \in [pc : {"idle", "call", "erase", "mark"},
                      id : Commands \cup {None}, result : Verdicts \cup {None}]
    BY <1>21 DEF Restart, NoReport
  <2>9. UNCHANGED <<center, sent, told>>
    BY <1>21 DEF Restart
  <2> QED
    BY <2>2, <2>3, <2>4, <2>5, <2>6, <2>7, <2>8, <2>9
<1>22. CASE UNCHANGED vars
  BY <1>22 DEF vars
<1> QED
  BY <1>1, <1>2, <1>3, <1>4, <1>5, <1>6, <1>7, <1>8, <1>9, <1>10, <1>11, <1>12,
     <1>13, <1>14, <1>15, <1>16, <1>17, <1>18, <1>19, <1>20, <1>21, <1>22
     DEF Next, Poll, Work, Report

\* Every variable of the channel keeps its type, whatever crashes, lost reports
\* and failed writes happen.
THEOREM TypeCorrect == Spec => []TypeOK
<1>1. TypeInv => TypeOK
  BY DEF TypeInv
<1> QED
  BY InitType, TypeStep, <1>1, PTL DEF Spec

-----------------------------------------------------------------------------
LEMMA InitJournal == Init => JournalInv
<1> SUFFICES ASSUME Init PROVE JournalInv
  OBVIOUS
<1>1. TypeInv
  BY InitType
<1> QED
  BY <1>1 DEF Init, JournalInv, HasOutcome, Agree, OnFile, EraseClosed, Quiet, Running,
     SentIsJournaled, NoReport

\* A step that neither touches journal, center and deliveries nor brings a thread
\* into execution or the reporter to erasing keeps the invariant.
LEMMA Bystander ==
  ASSUME JournalInv, TypeInv', HasOutcome', Quiet',
         UNCHANGED <<center, sent, mem, disk, loadOk>>,
         \A t \in Threads : pc'[t] \in Running => pc[t] \in Running /\ cmd'[t] = cmd[t],
         reporter'.pc \in {"erase", "mark"} =>
           reporter.pc \in {"erase", "mark"} /\ reporter'.id = reporter.id
  PROVE  JournalInv'
<1>1. Agree' /\ SentIsJournaled'
  BY DEF JournalInv, Agree, SentIsJournaled
<1>2. OnFile'
  BY DEF JournalInv, OnFile
<1>3. EraseClosed'
  BY DEF JournalInv, EraseClosed
<1> QED
  BY <1>1, <1>2, <1>3 DEF JournalInv

\* Only an execution brings a thread to its store.
LEMMA OutcomeStep == TypeInv /\ HasOutcome /\ [Next]_vars => HasOutcome'
<1> SUFFICES ASSUME TypeInv, HasOutcome, [Next]_vars PROVE HasOutcome'
  OBVIOUS
<1>a. /\ pc \in [Threads -> Labels]
      /\ outcome \in [Threads -> Results \cup {None}]
      /\ Pollers \subseteq Threads /\ Senders \subseteq Threads
  BY DEF TypeInv, TypeOK, Threads
<1> DEFINE Ready(t) == pc[t] \in {"store", "reply"}
<1>b. ASSUME \A t \in Threads : Ready(t)' => Ready(t) /\ outcome'[t] = outcome[t]
      PROVE  HasOutcome'
  BY <1>b DEF HasOutcome
<1> USE DEF history, journal, threads, Finish, Goto
<1>1. ASSUME NEW p \in Pollers, Poll(p) PROVE HasOutcome'
  BY <1>1, <1>a, <1>b DEF Poll, Pull, PullFails, RetryResult, Dispatch, RunInline
<1>2. ASSUME NEW s \in Senders, Take(s) \/ Acquire(s) PROVE HasOutcome'
  BY <1>2, <1>a, <1>b DEF Take, Acquire
<1>3. ASSUME NEW t \in Threads, Claim(t) \/ Lookup(t) \/ CheckDone(t) \/ Start(t)
      PROVE  HasOutcome'
  BY <1>3, <1>a, <1>b DEF Claim, Lookup, CheckDone, Start
<1>4. ASSUME NEW t \in Threads, Execute(t) PROVE HasOutcome'
  <2>1. outcome'[t] \in Results
    BY <1>4, <1>a DEF Execute
  <2>2. \A u \in Threads : u # t => pc'[u] = pc[u] /\ outcome'[u] = outcome[u]
    BY <1>4, <1>a DEF Execute
  <2> QED
    BY <2>1, <2>2 DEF HasOutcome
<1>5. ASSUME NEW t \in Threads, Store(t) PROVE HasOutcome'
  BY <1>5, <1>a, <1>b DEF Store
<1>6. ASSUME NEW t \in Threads, Reply(t) PROVE HasOutcome'
  <2>1. \A u \in Threads : u # t => pc'[u] = pc[u] /\ outcome'[u] = outcome[u]
    BY <1>6, <1>a DEF Reply
  <2>2. pc'[t] \in {"idle", "dispatch"}
    BY <1>6, <1>a DEF Reply
  <2> QED
    BY <2>1, <2>2 DEF HasOutcome
<1>7. ASSUME NEW c \in Commands, Report(c) PROVE HasOutcome'
  BY <1>7, <1>b DEF Report, ReportTake, ReportCommitted, ReportTerminal, ReportFails
<1>8. CASE Erase \/ MarkDone
  BY <1>8, <1>b DEF Erase, MarkDone
<1>9. CASE Restart
  BY <1>9, <1>b DEF Restart
<1>10. CASE UNCHANGED vars
  BY <1>10, <1>b DEF vars
<1> QED
  BY <1>1, <1>2, <1>3, <1>4, <1>5, <1>6, <1>7, <1>8, <1>9, <1>10 DEF Next, Work

LEMMA JournalStep == JournalInv /\ [Next]_vars => JournalInv'
<1> SUFFICES ASSUME JournalInv, [Next]_vars PROVE JournalInv'
  OBVIOUS
<1>a. TypeInv /\ TypeInv' /\ HasOutcome /\ HasOutcome'
  BY TypeStep, OutcomeStep DEF JournalInv
<1>b. /\ pc \in [Threads -> Labels] /\ cmd \in [Threads -> Commands \cup {None}]
      /\ mem \in [Commands -> Records] /\ disk \in [Commands -> Records]
      /\ center \in [Commands -> {"open"} \cup Verdicts]
      /\ snap \in [Pollers -> SUBSET [id : Commands, result : Results]]
      /\ report \in [Commands -> Results \cup {None}]
      /\ sent \in [Commands -> 0..2]
      /\ outcome \in [Threads -> Results \cup {None}]
      /\ \A t \in Threads : pc[t] \in Holding => cmd[t] \in Commands
      /\ \A t \in Threads : pc[t] = "store" => outcome[t] \in Results
      /\ Pollers \subseteq Threads /\ Senders \subseteq Threads
  BY <1>a DEF TypeInv, TypeOK, Busy, HasOutcome, Threads
<1>c. None \notin Results \cup {"executing", "indeterminate"}
  BY ChannelAssumption
<1>d. Agree /\ OnFile /\ EraseClosed /\ Quiet /\ SentIsJournaled
  BY DEF JournalInv
<1>e. ~loadOk => PendingResults = {}
  BY <1>b, <1>c, <1>d DEF Quiet, PendingResults
<1> USE DEF history, journal, threads, Running, Holding, Past
<1>1. ASSUME NEW p \in Pollers, NEW pulled \in SUBSET Commands, Pull(p, pulled)
      PROVE  JournalInv'
  <2>1. Quiet'
    BY <1>1, <1>b, <1>d, <1>e DEF Pull, Quiet
  <2>2. \A t \in Threads : pc'[t] \in Running => pc[t] \in Running /\ cmd'[t] = cmd[t]
    BY <1>1, <1>b DEF Pull
  <2> QED
    BY <1>1, <1>a, <2>1, <2>2, Bystander DEF Pull
<1>2. ASSUME NEW p \in Pollers, PullFails(p) PROVE JournalInv'
  <2>1. Quiet'
    BY <1>2, <1>b, <1>d, <1>e DEF PullFails, Quiet
  <2> QED
    BY <1>2, <1>a, <2>1, Bystander DEF PullFails
<1>3. ASSUME NEW p \in Pollers, RetryResult(p) PROVE JournalInv'
  <2>1. loadOk
    BY <1>3, <1>d DEF RetryResult, Quiet
  <2>2. Quiet'
    BY <1>3, <2>1 DEF RetryResult, Quiet
  <2> QED
    BY <1>3, <1>a, <2>2, Bystander DEF RetryResult
<1>4. ASSUME NEW p \in Pollers, Dispatch(p) PROVE JournalInv'
  <2>1. Quiet'
    BY <1>4, <1>d DEF Dispatch, Quiet
  <2> QED
    BY <1>4, <1>a, <2>1, Bystander DEF Dispatch
<1>5. ASSUME NEW p \in Pollers, RunInline(p) PROVE JournalInv'
  <2>1. \A t \in Threads : pc'[t] \in Running => pc[t] \in Running /\ cmd'[t] = cmd[t]
    BY <1>5, <1>b DEF RunInline
  <2>2. Quiet'
    BY <1>5, <1>d, <2>1 DEF RunInline, Quiet
  <2> QED
    BY <1>5, <1>a, <2>1, <2>2, Bystander DEF RunInline
<1>6. ASSUME NEW s \in Senders, Take(s) PROVE JournalInv'
  <2>1. \A t \in Threads : pc'[t] \in Running => pc[t] \in Running /\ cmd'[t] = cmd[t]
    BY <1>6, <1>b DEF Take
  <2>2. Quiet'
    BY <1>6, <1>d, <2>1 DEF Take, Quiet
  <2> QED
    BY <1>6, <1>a, <2>1, <2>2, Bystander DEF Take
<1>7. ASSUME NEW s \in Senders, Acquire(s) PROVE JournalInv'
  <2>1. \A t \in Threads : pc'[t] \in Running => pc[t] \in Running /\ cmd'[t] = cmd[t]
    BY <1>7, <1>b DEF Acquire
  <2>2. Quiet'
    BY <1>7, <1>d, <2>1 DEF Acquire, Quiet
  <2> QED
    BY <1>7, <1>a, <2>1, <2>2, Bystander DEF Acquire
<1>8. ASSUME NEW t \in Threads, Claim(t) PROVE JournalInv'
  <2>1. \A u \in Threads : pc'[u] \in Running => pc[u] \in Running /\ cmd'[u] = cmd[u]
    BY <1>8, <1>b DEF Claim, Finish, Goto
  <2>2. Quiet'
    BY <1>8, <1>d, <2>1 DEF Claim, Quiet
  <2> QED
    BY <1>8, <1>a, <2>1, <2>2, Bystander DEF Claim
<1>9. ASSUME NEW t \in Threads, Lookup(t) PROVE JournalInv'
  <2>1. \A u \in Threads : pc'[u] \in Running => pc[u] \in Running /\ cmd'[u] = cmd[u]
    BY <1>9, <1>b DEF Lookup, Finish, Goto
  <2>2. cmd[t] \in Commands
    BY <1>9, <1>b DEF Lookup
  <2>3. ~loadOk => UNCHANGED report
    BY <1>9, <1>c, <1>d, <2>2 DEF Lookup, Quiet
  <2>4. Quiet'
    BY <1>9, <1>d, <2>1, <2>3 DEF Lookup, Quiet
  <2> QED
    BY <1>9, <1>a, <2>1, <2>4, Bystander DEF Lookup
<1>10. ASSUME NEW t \in Threads, CheckDone(t) PROVE JournalInv'
  <2>1. \A u \in Threads : pc'[u] \in Running => pc[u] \in Running /\ cmd'[u] = cmd[u]
    BY <1>10, <1>b DEF CheckDone, Finish, Goto
  <2>2. Quiet'
    BY <1>10, <1>d, <2>1 DEF CheckDone, Quiet
  <2> QED
    BY <1>10, <1>a, <2>1, <2>2, Bystander DEF CheckDone
<1>14. ASSUME NEW t \in Threads, Reply(t) PROVE JournalInv'
  <2>1. \A u \in Threads : pc'[u] \in Running => pc[u] \in Running /\ cmd'[u] = cmd[u]
    BY <1>14, <1>b DEF Reply, Finish
  <2>2. loadOk
    BY <1>14, <1>d DEF Reply, Quiet
  <2>3. Quiet'
    BY <1>14, <2>2 DEF Reply, Quiet
  <2> QED
    BY <1>14, <1>a, <2>1, <2>3, Bystander DEF Reply
<1>15. ASSUME NEW c \in Commands, ReportTake(c) PROVE JournalInv'
  <2>1. loadOk
    BY <1>15, <1>d DEF ReportTake, Quiet
  <2>2. Quiet'
    BY <1>15, <2>1 DEF ReportTake, Quiet
  <2> QED
    BY <1>15, <1>a, <2>2, Bystander DEF ReportTake
<1>11. ASSUME NEW t \in Threads, Start(t) PROVE JournalInv'
  <2>1. cmd[t] \in Commands
    BY <1>11, <1>b DEF Start
  <2>2. CASE Finish(t) /\ UNCHANGED <<mem, disk>>
    <3>1. \A u \in Threads : pc'[u] \in Running => pc[u] \in Running /\ cmd'[u] = cmd[u]
      BY <2>2, <1>b DEF Finish
    <3>2. Quiet'
      BY <1>11, <1>d, <2>2, <3>1 DEF Start, Quiet
    <3> QED
      BY <1>11, <1>a, <2>2, <3>1, <3>2, Bystander DEF Start
  <2>3. CASE /\ loadOk /\ Goto(t, "execute")
             /\ mem' = [mem EXCEPT ![cmd[t]] = "executing"] /\ disk' = mem'
    <3>1. /\ \A c \in Commands : disk'[c] = mem'[c]
          /\ \A c \in Commands : mem[c] # None => mem'[c] # None
          /\ mem'[cmd[t]] # None
      BY <2>1, <2>3, <1>b, <1>c
    <3>2. UNCHANGED <<center, sent, loadOk, reporter, cmd>>
      BY <1>11, <2>3 DEF Start, Goto
    <3>3. Agree' /\ EraseClosed' /\ Quiet'
      BY <1>d, <2>3, <3>1, <3>2 DEF Agree, EraseClosed, Quiet
    <3>4. \A c \in Commands : center[c] = "open" /\ disk[c] # None => disk'[c] # None
      BY <1>d, <2>3, <3>1 DEF Agree
    <3>5. SentIsJournaled'
      BY <1>d, <3>2, <3>4 DEF SentIsJournaled
    <3>6. \A u \in Threads : u # t => pc'[u] = pc[u]
      BY <2>3, <1>b DEF Goto
    <3>7. ASSUME NEW u \in Threads, pc'[u] \in Running, center'[cmd'[u]] = "open"
          PROVE  disk'[cmd'[u]] # None
      <4>1. CASE u = t
        BY <4>1, <2>1, <3>1, <3>2
      <4>2. CASE u # t
        <5>1. pc[u] \in Running /\ cmd[u] \in Commands /\ center[cmd[u]] = "open"
          BY <3>7, <4>2, <1>b, <3>2, <3>6
        <5> QED
          BY <5>1, <1>d, <3>2, <3>4 DEF OnFile
      <4> QED
        BY <4>1, <4>2
    <3>8. OnFile'
      BY <3>7 DEF OnFile
    <3> QED
      BY <1>a, <3>3, <3>5, <3>8 DEF JournalInv
  <2> QED
    BY <1>11, <2>2, <2>3 DEF Start
<1>12. ASSUME NEW t \in Threads, Execute(t) PROVE JournalInv'
  <2>1. cmd[t] \in Commands /\ pc[t] \in Running
    BY <1>12, <1>b DEF Execute
  <2>2. UNCHANGED <<center, mem, disk, loadOk, reporter, report, snap, cmd>>
    BY <1>12 DEF Execute, Goto
  <2>3. \A u \in Threads : pc'[u] \in Running => pc[u] \in Running
    BY <1>12, <1>b DEF Execute, Goto
  <2>4. Agree' /\ EraseClosed' /\ OnFile' /\ Quiet'
    BY <1>d, <2>2, <2>3 DEF Agree, EraseClosed, OnFile, Quiet
  <2>5. \A c \in Commands : c # cmd[t] => sent'[c] = sent[c]
    BY <1>12, <1>b DEF Execute, Bump
  <2>6. SentIsJournaled'
    BY <1>d, <2>1, <2>2, <2>5 DEF SentIsJournaled, OnFile
  <2> QED
    BY <1>a, <2>4, <2>6 DEF JournalInv
<1>13. ASSUME NEW t \in Threads, Store(t) PROVE JournalInv'
  <2>1. cmd[t] \in Commands /\ pc[t] \in Running /\ loadOk
    BY <1>13, <1>b, <1>d DEF Store, Quiet
  <2>2. UNCHANGED <<center, sent, loadOk, reporter, report, snap, cmd>>
    BY <1>13 DEF Store, Goto
  <2>3. \A u \in Threads : pc'[u] \in Running => pc[u] \in Running
    BY <1>13, <1>b, <2>1 DEF Store, Goto
  <2>4. \A c \in Commands : c # cmd[t] => mem'[c] = mem[c]
    BY <1>13, <1>b DEF Store
  <2>5. mem'[cmd[t]] # None
    BY <1>13, <1>b, <1>c, <2>1 DEF Store
  <2>6. \A c \in Commands : center[c] = "open" =>
          (mem'[c] = None <=> disk[c] = None)
    BY <1>d, <2>1, <2>4, <2>5 DEF Agree, OnFile
  <2>7. \A c \in Commands : center[c] = "open" =>
          /\ mem'[c] = None <=> disk'[c] = None
          /\ disk[c] # None => disk'[c] # None
    BY <1>13, <2>6 DEF Store, Persist
  <2>8. Agree' /\ EraseClosed' /\ Quiet' /\ SentIsJournaled'
    BY <1>d, <2>1, <2>2, <2>7 DEF Agree, EraseClosed, Quiet, SentIsJournaled
  <2>9. OnFile'
    BY <1>b, <1>d, <2>2, <2>3, <2>7 DEF OnFile
  <2> QED
    BY <1>a, <2>8, <2>9 DEF JournalInv
<1>16. ASSUME NEW c \in Commands, NEW verdict, Close(c, verdict),
              verdict # "open", loadOk,
              UNCHANGED <<history, journal, threads>>,
              reporter'.pc \in {"erase", "mark"} => reporter'.id = c
       PROVE  JournalInv'
  <2>1. UNCHANGED <<sent, mem, disk, loadOk, pc, cmd>>
    BY <1>16
  <2>2. /\ \A d \in Commands : center'[d] = "open" => center[d] = "open"
        /\ center'[c] # "open"
    BY <1>16, <1>b DEF Close
  <2>3. Agree' /\ SentIsJournaled' /\ EraseClosed' /\ Quiet'
    BY <1>d, <1>16, <2>1, <2>2 DEF Agree, SentIsJournaled, EraseClosed, Quiet
  <2>4. OnFile'
    BY <1>b, <1>d, <2>1, <2>2 DEF OnFile
  <2> QED
    BY <1>a, <2>3, <2>4 DEF JournalInv
<1>f. reporter.pc = "call" => loadOk /\ reporter.result # "open"
  BY <1>a, <1>d, ChannelAssumption DEF TypeInv, ReporterBusy, Quiet, Verdicts
<1>17. ASSUME NEW c \in Commands, ReportCommitted(c) PROVE JournalInv'
  BY <1>17, <1>16, <1>f DEF ReportCommitted
<1>18. ASSUME NEW c \in Commands, ReportTerminal(c) PROVE JournalInv'
  BY <1>18, <1>16, <1>f DEF ReportTerminal
<1>19. ASSUME NEW c \in Commands, ReportFails(c) PROVE JournalInv'
  <2>1. CASE Close(c, reporter.result)
    BY <1>19, <2>1, <1>16, <1>f DEF ReportFails, Release, NoReport
  <2>2. CASE UNCHANGED center
    <3>1. Quiet'
      BY <1>19, <1>f, <1>d DEF ReportFails, Quiet
    <3> QED
      BY <1>19, <1>a, <2>2, <3>1, Bystander DEF ReportFails, Release, NoReport
  <2> QED
    BY <1>19, <2>1, <2>2 DEF ReportFails
<1>20. ASSUME Erase PROVE JournalInv'
  <2>1. reporter.id \in Commands /\ center[reporter.id] # "open" /\ loadOk
    BY <1>20, <1>a, <1>d DEF Erase, TypeInv, ReporterBusy, EraseClosed, Quiet
  <2>2. UNCHANGED <<center, sent, loadOk, report, snap, pc, cmd>>
    BY <1>20 DEF Erase
  <2>3. \A c \in Commands : center[c] = "open" => mem'[c] = mem[c]
    BY <1>20, <1>b, <2>1 DEF Erase
  <2>4. \A c \in Commands : center[c] = "open" =>
          /\ mem'[c] = None <=> disk'[c] = None
          /\ disk[c] # None => disk'[c] # None
    BY <1>20, <1>d, <2>1, <2>3 DEF Erase, Persist, Agree
  <2>5. EraseClosed'
    BY <1>20, <1>a, <2>1, <2>2 DEF Erase, EraseClosed, TypeInv, TypeOK
  <2>6. Agree' /\ Quiet' /\ SentIsJournaled'
    BY <1>d, <2>1, <2>2, <2>4 DEF Agree, Quiet, SentIsJournaled
  <2>7. OnFile'
    BY <1>b, <1>d, <2>2, <2>4 DEF OnFile
  <2> QED
    BY <1>a, <2>5, <2>6, <2>7 DEF JournalInv
<1>21. ASSUME MarkDone PROVE JournalInv'
  <2>1. loadOk
    BY <1>21, <1>d DEF MarkDone, Quiet
  <2>2. Quiet'
    BY <1>21, <2>1 DEF MarkDone, Quiet
  <2> QED
    BY <1>21, <1>a, <2>2, Bystander DEF MarkDone, Release, NoReport
<1>22. ASSUME Restart PROVE JournalInv'
  <2>1. UNCHANGED <<center, sent>> /\ (\A t \in Threads : pc'[t] = "idle")
    BY <1>22 DEF Restart
  <2>2. \A c \in Commands :
          /\ disk'[c] = None <=> disk[c] = None
          /\ loadOk' => (mem'[c] = None <=> disk[c] = None)
    <3>1. \A c \in Commands : Recovered(disk)[c] = None <=> disk[c] = None
      BY <1>c DEF Recovered
    <3>2. CASE loadOk' = TRUE /\ mem' = Recovered(disk) /\ Persist(mem')
      BY <3>1, <3>2 DEF Persist
    <3>3. CASE loadOk' = FALSE /\ UNCHANGED disk
      BY <3>3
    <3> QED
      BY <1>22, <3>2, <3>3 DEF Restart
  <2>3. Agree' /\ SentIsJournaled' /\ OnFile'
    BY <1>d, <2>1, <2>2 DEF Agree, SentIsJournaled, OnFile
  <2>4. EraseClosed' /\ reporter'.pc = "idle"
    BY <1>22 DEF Restart, EraseClosed, NoReport
  <2>5. Quiet'
    BY <1>22, <2>1, <2>4 DEF Restart, Quiet
  <2> QED
    BY <1>a, <2>3, <2>4, <2>5 DEF JournalInv
<1>23. CASE UNCHANGED vars
  <2>1. Quiet'
    BY <1>23, <1>d DEF vars, Quiet
  <2> QED
    BY <1>23, <1>a, <2>1, Bystander DEF vars
<1> QED
  BY <1>1, <1>2, <1>3, <1>4, <1>5, <1>6, <1>7, <1>8, <1>9, <1>10, <1>11, <1>12,
     <1>13, <1>14, <1>15, <1>17, <1>18, <1>19, <1>20, <1>21, <1>22, <1>23
     DEF Next, Poll, Work, Report

\* Write-ahead: whatever crashes, failed writes and redeliveries happen, a message
\* that reached the buyer is on file until the center has closed its command.
THEOREM Journaled == Spec => []SentIsJournaled
<1>1. JournalInv => SentIsJournaled
  BY DEF JournalInv
<1> QED
  BY InitJournal, JournalStep, <1>1, PTL DEF Spec

-----------------------------------------------------------------------------
\* A claim set that is never full only grows.
LEMMA ClaimAdds ==
  ASSUME Cardinality(Commands) <= ClaimCap, claimed \subseteq Commands,
         NEW c \in Commands
  PROVE  Bounded(claimed, c, ClaimCap, ClaimKeep) = {claimed \cup {c}}
<1>1. claimed \cup {c} \subseteq Commands
  OBVIOUS
<1>2. IsFiniteSet(Commands) /\ ClaimCap \in Nat
  BY ChannelAssumption
<1>3. /\ IsFiniteSet(claimed \cup {c})
      /\ Cardinality(claimed \cup {c}) <= Cardinality(Commands)
  BY <1>1, <1>2, FS_Subset
<1>4. Cardinality(claimed \cup {c}) \in Nat /\ Cardinality(Commands) \in Nat
  BY <1>2, <1>3, FS_CardinalityType
<1>5. ~(Cardinality(claimed \cup {c}) > ClaimCap)
  BY <1>2, <1>3, <1>4
<1> QED
  BY <1>5 DEF Bounded

LEMMA InitClaim == Init => ClaimInv
<1> SUFFICES ASSUME Init PROVE ClaimInv
  OBVIOUS
<1>1. TypeInv
  BY InitType
<1> QED
  BY <1>1 DEF Init, ClaimInv, ClaimHeld, ClaimAlone, AttemptsClaimed,
     NotYetAttempted, AtMostOnceExecution, Past

\* A step after which no thread holds a claim it did not hold before, and that
\* begins no platform send, keeps the invariant.
LEMMA NoNewClaim ==
  ASSUME ClaimInv, TypeInv', UNCHANGED attempts, claimed \subseteq claimed',
         \A t \in Threads : pc'[t] \in Past =>
           /\ pc[t] \in Past /\ cmd'[t] = cmd[t]
           /\ pc'[t] \in {"lookup", "check", "start", "execute"} =>
                pc[t] \in {"lookup", "check", "start", "execute"}
  PROVE  ClaimInv'
<1> USE DEF Past
<1>1. ClaimHeld'
  BY DEF ClaimInv, ClaimHeld
<1>2. ClaimAlone'
  BY DEF ClaimInv, ClaimAlone
<1>3. AttemptsClaimed' /\ AtMostOnceExecution'
  BY DEF ClaimInv, AttemptsClaimed, AtMostOnceExecution
<1>4. NotYetAttempted'
  BY DEF ClaimInv, NotYetAttempted
<1> QED
  BY <1>1, <1>2, <1>3, <1>4 DEF ClaimInv

LEMMA ClaimStep ==
  ASSUME Cardinality(Commands) <= ClaimCap
  PROVE  ClaimInv /\ [Next]_vars => ClaimInv'
<1> SUFFICES ASSUME ClaimInv, [Next]_vars PROVE ClaimInv'
  OBVIOUS
<1>a. TypeInv /\ TypeInv'
  BY TypeStep DEF ClaimInv
<1>b. /\ pc \in [Threads -> Labels] /\ cmd \in [Threads -> Commands \cup {None}]
      /\ claimed \subseteq Commands /\ attempts \in [Commands -> 0..2]
      /\ \A t \in Threads : pc[t] \in Holding => cmd[t] \in Commands
      /\ Pollers \subseteq Threads /\ Senders \subseteq Threads
  BY <1>a DEF TypeInv, TypeOK, Busy, Threads
<1>c. /\ ClaimHeld /\ ClaimAlone /\ AttemptsClaimed /\ NotYetAttempted
      /\ AtMostOnceExecution
  BY DEF ClaimInv
<1> USE DEF history, threads, Finish, Goto
<1>1. ASSUME NEW p \in Pollers, Poll(p) PROVE ClaimInv'
  BY <1>1, <1>a, <1>b, NoNewClaim
     DEF Past, Poll, Pull, PullFails, RetryResult, Dispatch, RunInline
<1>2. ASSUME NEW s \in Senders, Take(s) \/ Acquire(s) PROVE ClaimInv'
  BY <1>2, <1>a, <1>b, NoNewClaim DEF Past, Take, Acquire
<1>3. ASSUME NEW t \in Threads, Claim(t) PROVE ClaimInv'
  <2>1. cmd[t] \in Commands
    BY <1>3, <1>b DEF Claim, Holding
  <2>2. CASE Finish(t) /\ UNCHANGED claimed
    BY <1>3, <2>2, <1>a, <1>b, NoNewClaim DEF Past, Claim
  <2>3. CASE /\ cmd[t] \notin claimed \cup done
             /\ claimed' \in Bounded(claimed, cmd[t], ClaimCap, ClaimKeep)
             /\ Goto(t, "lookup")
    <3>1. claimed' = claimed \cup {cmd[t]}
      BY <2>1, <2>3, <1>b, ClaimAdds
    <3>2. /\ UNCHANGED <<cmd, attempts>> /\ pc'[t] = "lookup"
          /\ \A u \in Threads : u # t => pc'[u] = pc[u]
      BY <1>3, <2>3, <1>b DEF Claim
    <3>3. attempts[cmd[t]] = 0
      BY <2>1, <2>3, <1>b, <1>c DEF AttemptsClaimed
    <3>4. \A u \in Threads : u # t /\ pc[u] \in Past => cmd[u] # cmd[t]
      BY <2>3, <1>c DEF ClaimHeld
    <3>5. ClaimHeld'
      BY <3>1, <3>2, <1>c DEF ClaimHeld
    <3>6. ClaimAlone'
      BY <3>2, <3>4, <1>c DEF ClaimAlone
    <3>7. AttemptsClaimed' /\ AtMostOnceExecution'
      BY <3>1, <3>2, <1>c DEF AttemptsClaimed, AtMostOnceExecution
    <3>8. NotYetAttempted'
      BY <3>2, <3>3, <1>c DEF NotYetAttempted
    <3> QED
      BY <1>a, <3>5, <3>6, <3>7, <3>8 DEF ClaimInv
  <2> QED
    BY <1>3, <2>2, <2>3 DEF Claim
<1>4. ASSUME NEW t \in Threads, Lookup(t) \/ CheckDone(t) PROVE ClaimInv'
  BY <1>4, <1>a, <1>b, NoNewClaim DEF Past, Lookup, CheckDone
<1>5. ASSUME NEW t \in Threads, Start(t) PROVE ClaimInv'
  BY <1>5, <1>a, <1>b, NoNewClaim DEF Past, Start
<1>6. ASSUME NEW t \in Threads, Execute(t) PROVE ClaimInv'
  <2>1. cmd[t] \in Commands /\ pc[t] = "execute"
    BY <1>6, <1>b DEF Execute, Holding, Past
  <2>2. /\ UNCHANGED <<cmd, claimed>> /\ pc'[t] = "store"
        /\ \A u \in Threads : u # t => pc'[u] = pc[u]
    BY <1>6, <1>b DEF Execute
  <2>3. attempts[cmd[t]] = 0 /\ cmd[t] \in claimed
    BY <2>1, <1>c DEF NotYetAttempted, ClaimHeld, Past
  <2>4. /\ attempts'[cmd[t]] = 1
        /\ \A c \in Commands : c # cmd[t] => attempts'[c] = attempts[c]
    BY <1>6, <1>b, <2>1, <2>3 DEF Execute, Bump
  <2>5. \A u \in Threads : u # t /\ pc[u] \in Past => cmd[u] # cmd[t]
    BY <2>1, <1>c DEF ClaimAlone, Past
  <2>6. ClaimHeld' /\ ClaimAlone'
    BY <2>1, <2>2, <1>c DEF ClaimHeld, ClaimAlone, Past
  <2>7. AttemptsClaimed' /\ AtMostOnceExecution'
    BY <2>2, <2>3, <2>4, <1>c DEF AttemptsClaimed, AtMostOnceExecution
  <2>8. ASSUME NEW u \in Threads,
               pc'[u] \in {"lookup", "check", "start", "execute"}
        PROVE  attempts'[cmd'[u]] = 0
    <3>1. u # t /\ pc'[u] = pc[u] /\ cmd'[u] = cmd[u]
      BY <2>2, <2>8
    <3>2. cmd[u] # cmd[t] /\ cmd[u] \in Commands
      BY <2>5, <2>8, <3>1, <1>b DEF Past, Holding
    <3> QED
      BY <2>4, <2>8, <3>1, <3>2, <1>c DEF NotYetAttempted
  <2>9. NotYetAttempted'
    BY <2>8 DEF NotYetAttempted
  <2> QED
    BY <1>a, <2>6, <2>7, <2>9 DEF ClaimInv
<1>7. ASSUME NEW t \in Threads, Store(t) \/ Reply(t) PROVE ClaimInv'
  BY <1>7, <1>a, <1>b, NoNewClaim DEF Past, Store, Reply
<1>8. ASSUME NEW c \in Commands, Report(c) PROVE ClaimInv'
  BY <1>8, <1>a, NoNewClaim
     DEF Report, ReportTake, ReportCommitted, ReportTerminal, ReportFails
<1>9. CASE Erase \/ MarkDone
  BY <1>9, <1>a, NoNewClaim DEF Erase, MarkDone
<1>10. CASE Restart
  <2>1. /\ \A t \in Threads : pc'[t] = "idle"
        /\ \A c \in Commands : attempts'[c] = 0
    BY <1>10 DEF Restart
  <2>2. ClaimHeld' /\ ClaimAlone' /\ NotYetAttempted'
    BY <2>1 DEF ClaimHeld, ClaimAlone, NotYetAttempted, Past
  <2>3. AttemptsClaimed' /\ AtMostOnceExecution'
    BY <2>1 DEF AttemptsClaimed, AtMostOnceExecution
  <2> QED
    BY <1>a, <2>2, <2>3 DEF ClaimInv
<1>11. CASE UNCHANGED vars
  BY <1>11, <1>a, NoNewClaim DEF vars
<1> QED
  BY <1>1, <1>2, <1>3, <1>4, <1>5, <1>6, <1>7, <1>8, <1>9, <1>10, <1>11
     DEF Next, Work

\* As long as the claim set has room for every command, no redelivery, no race of
\* pollers and senders and no lost report makes one life of the process execute
\* a command twice.
THEOREM ExecutedOnce ==
  ASSUME Cardinality(Commands) <= ClaimCap
  PROVE  Spec => []AtMostOnceExecution
<1>1. ClaimInv /\ [Next]_vars => ClaimInv'
  BY ClaimStep
<1>2. ClaimInv => AtMostOnceExecution
  BY DEF ClaimInv
<1> QED
  BY InitClaim, <1>1, <1>2, PTL DEF Spec

-----------------------------------------------------------------------------
(* PromiseKept: every result under way is one an execution came to, and    *)
(* its command is on file until the center has closed it.                  *)

Known(c, r) ==
  /\ r \in told[c] \cup {"indeterminate"}
  /\ center[c] = "open" => disk[c] # None

MemKnown == \A c \in Commands : mem[c] \in Results => Known(c, mem[c])
DiskKnown == \A c \in Commands : disk[c] \in Results => Known(c, disk[c])
OutcomeKnown == \A t \in Threads :
  pc[t] \in {"store", "reply"} => Known(cmd[t], outcome[t])
SnapKnown == \A p \in Pollers : \A row \in snap[p] : Known(row.id, row.result)
ReportKnown == \A c \in Commands : report[c] # None => Known(c, report[c])
ReporterKnown == reporter.pc = "call" => Known(reporter.id, reporter.result)

Carried ==
  /\ MemKnown /\ DiskKnown /\ OutcomeKnown
  /\ SnapKnown /\ ReportKnown /\ ReporterKnown

PromiseInv == JournalInv /\ Carried

\* What is known of a command stays known: results are only added, a record of an
\* open command is never dropped.
LEMMA KnownStays ==
  ASSUME JournalInv, [Next]_vars, NEW c \in Commands
  PROVE  /\ told[c] \subseteq told'[c]
         /\ center'[c] = "open" =>
              center[c] = "open" /\ (disk[c] # None => disk'[c] # None)
<1> DEFINE Stays == /\ told[c] \subseteq told'[c]
                    /\ center'[c] = "open" =>
                         center[c] = "open" /\ (disk[c] # None => disk'[c] # None)
<1> SUFFICES Stays
  OBVIOUS
<1>a. /\ TypeInv /\ TypeOK
      /\ \A t \in Threads : pc[t] \in Holding => cmd[t] \in Commands
      /\ center \in [Commands -> {"open"} \cup Verdicts]
      /\ mem \in [Commands -> Records] /\ disk \in [Commands -> Records]
      /\ told \in [Commands -> SUBSET Results]
  BY DEF JournalInv, TypeInv, TypeOK, Busy
<1>b. None \notin Results \cup {"executing"}
  BY ChannelAssumption
<1>d. HasOutcome /\ Agree /\ OnFile /\ EraseClosed /\ Quiet
  BY DEF JournalInv
<1> USE DEF history, journal, threads
<1>u. ASSUME UNCHANGED <<center, told, disk>> PROVE Stays
  BY <1>u
<1>1. ASSUME NEW p \in Pollers, Poll(p) PROVE Stays
  BY <1>1, <1>u DEF Poll, Pull, PullFails, RetryResult, Dispatch, RunInline
<1>2. ASSUME NEW s \in Senders, Take(s) \/ Acquire(s) PROVE Stays
  BY <1>2, <1>u DEF Take, Acquire
<1>3. ASSUME NEW t \in Threads, Claim(t) \/ Lookup(t) \/ CheckDone(t) \/ Reply(t) PROVE Stays
  BY <1>3, <1>u DEF Claim, Lookup, CheckDone, Reply
<1>4. ASSUME NEW t \in Threads, Start(t) PROVE Stays
  <2>1. UNCHANGED <<center, told>>
    BY <1>4 DEF Start
  <2>2. UNCHANGED disk \/ (loadOk /\ disk' = [mem EXCEPT ![cmd[t]] = "executing"])
    BY <1>4 DEF Start
  <2> QED
    BY <2>1, <2>2, <1>a, <1>b, <1>d DEF Agree
<1>5. ASSUME NEW t \in Threads, Execute(t) PROVE Stays
  BY <1>5, <1>a DEF Execute
<1>6. ASSUME NEW t \in Threads, Store(t) PROVE Stays
  <2>1. UNCHANGED <<center, told>> /\ loadOk /\ outcome[t] # None
    BY <1>6, <1>b, <1>d DEF Store, Quiet, Running, HasOutcome
  <2>2. UNCHANGED disk \/ disk' = [mem EXCEPT ![cmd[t]] = outcome[t]]
    BY <1>6 DEF Store, Persist
  <2> QED
    BY <2>1, <2>2, <1>a, <1>d DEF Agree
<1>7. ASSUME NEW d \in Commands, Report(d) PROVE Stays
  <2>1. UNCHANGED <<told, disk>>
    BY <1>7 DEF Report, ReportTake, ReportCommitted, ReportTerminal, ReportFails
  <2>2. UNCHANGED center \/ Close(d, reporter.result) \/ Close(d, "gone")
    BY <1>7 DEF Report, ReportTake, ReportCommitted, ReportTerminal, ReportFails
  <2> QED
    BY <2>1, <2>2, <1>a DEF Close
<1>8. CASE Erase
  <2>1. UNCHANGED <<center, told>> /\ loadOk /\ center[reporter.id] # "open"
    BY <1>8, <1>d DEF Erase, Quiet, EraseClosed
  <2>2. UNCHANGED disk \/ disk' = [mem EXCEPT ![reporter.id] = None]
    BY <1>8 DEF Erase, Persist
  <2> QED
    BY <2>1, <2>2, <1>a, <1>d DEF Agree
<1>9. CASE MarkDone
  BY <1>9, <1>u DEF MarkDone
<1>10. CASE Restart
  <2>1. UNCHANGED <<center, told>>
    BY <1>10 DEF Restart
  <2>2. UNCHANGED disk \/ disk' = Recovered(disk)
    BY <1>10 DEF Restart, Persist
  <2>3. Recovered(disk)[c] = None => disk[c] = None
    BY <1>b, ChannelAssumption DEF Recovered
  <2> QED
    BY <2>1, <2>2, <2>3
<1>11. CASE UNCHANGED vars
  BY <1>11, <1>u DEF vars
<1> QED
  BY <1>1, <1>2, <1>3, <1>4, <1>5, <1>6, <1>7, <1>8, <1>9, <1>10, <1>11 DEF Next, Work

\* Results come from executions only, and every place a result rests in takes it
\* from another such place, or from a record the restart recovers.
LEMMA CarriedStep ==
  ASSUME JournalInv, JournalInv', Carried, [Next]_vars
  PROVE  Carried'
<1> DEFINE K(c, r) == /\ r \in told'[c] \cup {"indeterminate"}
                      /\ center'[c] = "open" => disk'[c] # None
<1>t. /\ \A t \in Threads : pc[t] \in Holding => cmd[t] \in Commands
      /\ reporter.pc # "idle" => reporter.id \in Commands
      /\ center \in [Commands -> {"open"} \cup Verdicts]
      /\ mem \in [Commands -> Records] /\ disk \in [Commands -> Records]
      /\ told \in [Commands -> SUBSET Results]
      /\ pc \in [Threads -> Labels]
      /\ cmd \in [Threads -> Commands \cup {None}]
      /\ outcome \in [Threads -> Results \cup {None}]
      /\ snap \in [Pollers -> SUBSET [id : Commands, result : Results]]
      /\ report \in [Commands -> Results \cup {None}]
  BY DEF JournalInv, TypeInv, TypeOK, Busy, ReporterBusy
<1>p. /\ \A t \in Threads : pc'[t] \in Holding => cmd'[t] \in Commands
      /\ mem' \in [Commands -> Records] /\ disk' \in [Commands -> Records]
  BY DEF JournalInv, TypeInv, TypeOK, Busy
<1>u. \A f \in [pc : {"idle", "call", "erase", "mark"},
                 id : Commands \cup {None}, result : Verdicts \cup {None}] :
        /\ [f EXCEPT !.pc = "erase"].pc = "erase"
        /\ [f EXCEPT !.pc = "mark"].pc = "mark"
        /\ [f EXCEPT !.pc = "erase", !.result = "gone"].pc = "erase"
  OBVIOUS
<1>v. reporter \in [pc : {"idle", "call", "erase", "mark"},
                    id : Commands \cup {None}, result : Verdicts \cup {None}]
  BY DEF JournalInv, TypeInv, TypeOK
<1>n. /\ None \notin Results \cup {"executing"} /\ "executing" \notin Results
      /\ Pollers \subseteq Threads /\ Senders \subseteq Threads
  BY ChannelAssumption DEF Threads
<1>d. /\ HasOutcome /\ OnFile /\ Quiet /\ Agree' /\ Quiet' /\ Agree
  BY DEF JournalInv
<1>c. MemKnown /\ DiskKnown /\ OutcomeKnown /\ SnapKnown /\ ReportKnown /\ ReporterKnown
  BY DEF Carried
<1>k. ASSUME NEW c \in Commands, NEW r, Known(c, r) PROVE K(c, r)
  BY <1>k, KnownStays DEF Known
<1>m. ASSUME \A c \in Commands :
               mem'[c] \in Results => mem'[c] = mem[c] \/ K(c, mem'[c])
      PROVE  MemKnown'
  BY <1>m, <1>c, <1>k DEF MemKnown, Known
<1>f. ASSUME \A c \in Commands :
               disk'[c] \in Results =>
                 disk'[c] \in {disk[c], mem[c]} \/ K(c, disk'[c])
      PROVE  DiskKnown'
  BY <1>f, <1>c, <1>k DEF DiskKnown, MemKnown, Known
<1>o. ASSUME \A t \in Threads : pc'[t] \in {"store", "reply"} =>
               \/ /\ pc[t] \in {"store", "reply"}
                  /\ cmd'[t] = cmd[t] /\ outcome'[t] = outcome[t]
               \/ K(cmd'[t], outcome'[t])
      PROVE  OutcomeKnown'
  <2>1. ASSUME NEW t \in Threads, pc[t] \in {"store", "reply"}
        PROVE  cmd[t] \in Commands /\ K(cmd[t], outcome[t])
    BY <2>1, <1>c, <1>k, <1>t DEF OutcomeKnown, Holding, Past
  <2> QED
    BY <1>o, <2>1 DEF OutcomeKnown, Known
<1>s. ASSUME \A p \in Pollers : \A row \in snap'[p] :
               row \in snap[p] \/ K(row.id, row.result)
      PROVE  SnapKnown'
  <2>1. ASSUME NEW p \in Pollers, NEW row \in snap[p]
        PROVE  K(row.id, row.result)
    BY <1>c, <1>k, <1>t DEF SnapKnown
  <2> QED
    BY <1>s, <2>1 DEF SnapKnown, Known
<1>r. ASSUME \A c \in Commands : report'[c] # None =>
               report'[c] = report[c] \/ K(c, report'[c])
      PROVE  ReportKnown'
  BY <1>r, <1>c, <1>k DEF ReportKnown, Known
<1>q. ASSUME reporter'.pc = "call" =>
               reporter' = reporter \/ K(reporter'.id, reporter'.result)
      PROVE  ReporterKnown'
  <2>1. reporter.pc = "call" => K(reporter.id, reporter.result)
    BY <1>c, <1>k, <1>t DEF ReporterKnown
  <2> QED
    BY <1>q, <2>1 DEF ReporterKnown, Known
<1>h. ASSUME NEW c \in Commands, mem[c] \in Results PROVE K(c, mem[c])
  BY <1>h, <1>c, <1>k DEF MemKnown
<1>i. ASSUME NEW c \in Commands, NEW r \in Results, K(c, r),
             report' = Reported(c, r)
      PROVE  ReportKnown'
  BY <1>i, <1>r, <1>t DEF Reported
<1> HIDE DEF K
<1>j. UNCHANGED <<mem, disk>> => MemKnown' /\ DiskKnown'
  BY <1>m, <1>f
<1>l. /\ UNCHANGED <<pc, cmd, outcome>> => OutcomeKnown'
      /\ UNCHANGED snap => SnapKnown'
      /\ UNCHANGED report => ReportKnown'
      /\ UNCHANGED reporter => ReporterKnown'
  BY <1>o, <1>s, <1>r, <1>q
<1> USE DEF history, journal, threads
<1>1. ASSUME NEW p \in Pollers,
             snap' \in {[snap EXCEPT ![p] = {}], [snap EXCEPT ![p] = PendingResults]}
      PROVE  SnapKnown'
  <2>1. ASSUME NEW row \in PendingResults PROVE K(row.id, row.result)
    BY <1>h DEF PendingResults
  <2> QED
    BY <1>1, <2>1, <1>s, <1>t
<1>2. ASSUME NEW p \in Pollers, NEW pulled \in SUBSET Commands, Pull(p, pulled)
      PROVE  Carried'
  <2>1. SnapKnown'
    BY <1>2, <1>1 DEF Pull
  <2>2. OutcomeKnown'
    BY <1>2, <1>o, <1>n, <1>t DEF Pull
  <2> QED
    BY <1>2, <2>1, <2>2, <1>j, <1>l DEF Pull, Carried
<1>3. ASSUME NEW p \in Pollers, PullFails(p) PROVE Carried'
  BY <1>3, <1>1, <1>j, <1>l DEF PullFails, Carried
<1>4. ASSUME NEW p \in Pollers, RetryResult(p) PROVE Carried'
  <2>1. PICK row \in snap[p] :
          /\ snap' = [snap EXCEPT ![p] = @ \ {row}]
          /\ report' = Reported(row.id, row.result)
    BY <1>4 DEF RetryResult
  <2>2. row.id \in Commands /\ row.result \in Results /\ K(row.id, row.result)
    BY <1>c, <1>k, <1>t DEF SnapKnown
  <2>3. ReportKnown' /\ SnapKnown'
    BY <2>1, <2>2, <1>i, <1>s, <1>t
  <2> QED
    BY <1>4, <2>3, <1>j, <1>l DEF RetryResult, Carried
<1>5. ASSUME NEW p \in Pollers, Dispatch(p) \/ RunInline(p) PROVE Carried'
  <2>1. OutcomeKnown'
    BY <1>5, <1>o, <1>n, <1>t DEF Dispatch, RunInline
  <2> QED
    BY <1>5, <2>1, <1>j, <1>l DEF Dispatch, RunInline, Carried
<1>6. ASSUME NEW s \in Senders, Take(s) \/ Acquire(s) PROVE Carried'
  <2>1. OutcomeKnown'
    BY <1>6, <1>o, <1>n, <1>t DEF Take, Acquire
  <2> QED
    BY <1>6, <2>1, <1>j, <1>l DEF Take, Acquire, Carried
<1>7. ASSUME NEW t \in Threads, Claim(t) \/ CheckDone(t) PROVE Carried'
  <2>1. OutcomeKnown'
    BY <1>7, <1>o, <1>t DEF Claim, CheckDone, Finish, Goto
  <2> QED
    BY <1>7, <2>1, <1>j, <1>l DEF Claim, CheckDone, Carried
<1>8. ASSUME NEW t \in Threads, Lookup(t) PROVE Carried'
  <2>1. cmd[t] \in Commands
    BY <1>8, <1>t DEF Lookup, Holding, Past
  <2>2. OutcomeKnown'
    BY <1>8, <1>o, <1>t DEF Lookup, Finish, Goto
  <2>3. ReportKnown'
    BY <1>8, <2>1, <1>h, <1>i, <1>l DEF Lookup
  <2> QED
    BY <1>8, <2>2, <2>3, <1>j, <1>l DEF Lookup, Carried
<1>9. ASSUME NEW t \in Threads, Start(t) PROVE Carried'
  <2>1. OutcomeKnown'
    BY <1>9, <1>o, <1>t DEF Start, Finish, Goto
  <2>2. MemKnown' /\ DiskKnown'
    <3>1. CASE UNCHANGED <<mem, disk>>
      BY <3>1, <1>j
    <3>2. CASE mem' = [mem EXCEPT ![cmd[t]] = "executing"] /\ disk' = mem'
      BY <3>2, <1>m, <1>f, <1>n, <1>t
    <3> QED
      BY <1>9, <3>1, <3>2 DEF Start
  <2> QED
    BY <1>9, <2>1, <2>2, <1>l DEF Start, Carried
<1>10. ASSUME NEW t \in Threads, Execute(t) PROVE Carried'
  <2>1. cmd[t] \in Commands /\ pc[t] = "execute"
    BY <1>10, <1>t DEF Execute, Holding, Past
  <2>2. /\ outcome'[t] \in told'[cmd[t]]
        /\ \A u \in Threads : u # t => outcome'[u] = outcome[u]
    BY <1>10, <2>1, <1>t DEF Execute
  <2>3. UNCHANGED <<center, disk, cmd>>
    BY <1>10 DEF Execute, Goto
  <2>4. K(cmd[t], outcome'[t])
    BY <2>1, <2>2, <2>3, <1>d DEF K, OnFile, Running
  <2>5. OutcomeKnown'
    BY <1>10, <2>2, <2>3, <2>4, <1>o, <1>t DEF Execute, Goto
  <2> QED
    BY <1>10, <2>5, <1>j, <1>l DEF Execute, Carried
<1>11. ASSUME NEW t \in Threads, Store(t) PROVE Carried'
  <2>1. /\ cmd[t] \in Commands /\ pc[t] = "store" /\ K(cmd[t], outcome[t])
    BY <1>11, <1>c, <1>k, <1>t DEF Store, Holding, Past, OutcomeKnown
  <2>2. mem' = [mem EXCEPT ![cmd[t]] = outcome[t]] /\ disk' \in {mem', disk}
    BY <1>11 DEF Store, Persist
  <2>3. MemKnown'
    BY <2>1, <2>2, <1>m, <1>t
  <2>4. DiskKnown'
    BY <2>1, <2>2, <1>f, <1>t
  <2>5. OutcomeKnown'
    BY <1>11, <1>o, <1>t DEF Store, Goto
  <2> QED
    BY <1>11, <2>3, <2>4, <2>5, <1>l DEF Store, Carried
<1>12. ASSUME NEW t \in Threads, Reply(t) PROVE Carried'
  <2>1. /\ cmd[t] \in Commands /\ K(cmd[t], outcome[t]) /\ outcome[t] \in Results
    BY <1>12, <1>c, <1>d, <1>k, <1>t DEF Reply, Holding, Past, OutcomeKnown, HasOutcome
  <2>2. ReportKnown'
    BY <1>12, <2>1, <1>i DEF Reply
  <2>3. OutcomeKnown'
    BY <1>12, <1>o, <1>t DEF Reply, Finish
  <2> QED
    BY <1>12, <2>2, <2>3, <1>j, <1>l DEF Reply, Carried
<1>13. ASSUME NEW c \in Commands, ReportTake(c) PROVE Carried'
  <2>1. K(c, report[c])
    BY <1>13, <1>c, <1>k DEF ReportTake, ReportKnown
  <2>2. ReporterKnown'
    BY <1>13, <2>1, <1>q DEF ReportTake
  <2> QED
    BY <1>13, <2>2, <1>j, <1>l DEF ReportTake, Carried
<1>14. ASSUME NEW c \in Commands, Release(c) PROVE ReportKnown' /\ ReporterKnown'
  <2>1. ReportKnown'
    BY <1>14, <1>r, <1>t DEF Release
  <2>2. ReporterKnown'
    BY <1>14, <1>q DEF Release, NoReport
  <2> QED
    BY <2>1, <2>2
<1>15. ASSUME NEW c \in Commands, ReportCommitted(c) \/ ReportTerminal(c) PROVE Carried'
  <2>1. reporter'.pc = "erase" \/ reporter' = reporter
    BY <1>15, <1>u, <1>v DEF ReportCommitted, ReportTerminal
  <2>2. ReporterKnown'
    BY <2>1, <1>q
  <2> QED
    BY <1>15, <2>2, <1>j, <1>l DEF ReportCommitted, ReportTerminal, Carried
<1>16. ASSUME NEW c \in Commands, ReportFails(c) PROVE Carried'
  BY <1>16, <1>14, <1>j, <1>l DEF ReportFails, Carried
<1>17. ASSUME Erase PROVE Carried'
  <2>1. reporter.id \in Commands
    BY <1>17, <1>t DEF Erase
  <2>2. mem' = [mem EXCEPT ![reporter.id] = None] /\ disk' \in {mem', disk}
    BY <1>17 DEF Erase, Persist
  <2>3. MemKnown' /\ DiskKnown'
    BY <2>1, <2>2, <1>m, <1>f, <1>n, <1>t
  <2>4. ReporterKnown'
    BY <1>17, <1>u, <1>v, <1>q DEF Erase
  <2> QED
    BY <1>17, <2>3, <2>4, <1>l DEF Erase, Carried
<1>18. ASSUME MarkDone PROVE Carried'
  <2>1. reporter.id \in Commands /\ Release(reporter.id)
    BY <1>18, <1>t DEF MarkDone
  <2>2. ReportKnown' /\ ReporterKnown'
    BY <2>1, <1>14
  <2> QED
    BY <1>18, <2>2, <1>j, <1>l DEF MarkDone, Carried
<1>19. ASSUME Restart PROVE Carried'
  <2>1. ASSUME NEW c \in Commands, Recovered(disk)[c] \in Results
        PROVE  K(c, Recovered(disk)[c])
    <3>1. UNCHANGED <<center, told>>
      BY <1>19 DEF Restart
    <3>2. CASE disk[c] = "executing"
      <4>1. center'[c] = "open" => disk'[c] # None
        BY <3>2, <1>n, KnownStays
      <4> QED
        BY <3>2, <4>1 DEF K, Recovered
    <3>3. CASE disk[c] # "executing"
      BY <2>1, <3>3, <1>c, <1>k DEF DiskKnown, Recovered
    <3> QED
      BY <3>2, <3>3
  <2>2. MemKnown'
    BY <1>19, <2>1, <1>m, <1>n DEF Restart
  <2>3. DiskKnown'
    BY <1>19, <2>1, <1>f, <1>n DEF Restart, Persist
  <2>4. OutcomeKnown' /\ SnapKnown'
    BY <1>19, <1>o, <1>s DEF Restart
  <2>5. ReportKnown' /\ ReporterKnown'
    BY <1>19, <1>r, <1>q DEF Restart, NoReport
  <2> QED
    BY <2>2, <2>3, <2>4, <2>5 DEF Carried
<1>20. CASE UNCHANGED vars
  BY <1>20, <1>j, <1>l DEF vars, Carried
<1> QED
  BY <1>2, <1>3, <1>4, <1>5, <1>6, <1>7, <1>8, <1>9, <1>10, <1>11, <1>12, <1>13,
     <1>15, <1>16, <1>17, <1>18, <1>19, <1>20 DEF Next, Poll, Work, Report

\* What holds initially: nothing is known, nothing is under way.
LEMMA InitPromise == Init => PromiseInv /\ Promise!Init
<1> SUFFICES ASSUME Init PROVE PromiseInv /\ Promise!Init
  OBVIOUS
<1>1. None \notin Results /\ Pollers \subseteq Threads
  BY ChannelAssumption DEF Threads
<1>2. Carried
  BY <1>1 DEF Init, Carried, MemKnown, DiskKnown, OutcomeKnown, SnapKnown, ReportKnown,
     ReporterKnown, NoReport
<1>3. Promise!Init
  BY DEF Init, Promise!Init
<1> QED
  BY <1>2, <1>3, InitJournal DEF PromiseInv

\* Every step of the channel is a step of the promise or leaves it alone: a change
\* of the file rewrites it, an execution performs, a report of an open command
\* closes it.
LEMMA PromiseStep ==
  ASSUME PromiseInv, [Next]_vars
  PROVE  [Promise!Next]_(Promise!vars)
<1> DEFINE logged == {c \in Commands : disk[c] # None}
           delivered == {c \in Commands : sent[c] > 0}
<1>t. /\ \A t \in Threads : pc[t] \in Holding => cmd[t] \in Commands
      /\ reporter.pc # "idle" =>
           reporter.id \in Commands /\ reporter.result \in Verdicts
      /\ center \in [Commands -> {"open"} \cup Verdicts]
      /\ sent \in [Commands -> 0..2]
      /\ told \in [Commands -> SUBSET Results]
  BY DEF PromiseInv, JournalInv, TypeInv, TypeOK, Busy, ReporterBusy
<1>n. "indeterminate" \in Results
  BY ChannelAssumption
<1>d. JournalInv /\ OnFile /\ ReporterKnown
  BY DEF PromiseInv, JournalInv, Carried
<1> USE DEF history, journal, threads
<1>s. ASSUME UNCHANGED <<center, sent, told, disk>>
      PROVE  [Promise!Next]_(Promise!vars)
  BY <1>s DEF Promise!vars
<1>w. ASSUME UNCHANGED <<center, sent, told>> PROVE [Promise!Next]_(Promise!vars)
  <2>1. \A c \in logged \ logged' : center[c] # "open"
    BY <1>w, <1>d, KnownStays
  <2>2. UNCHANGED delivered
    BY <1>w
  <2>3. PICK records \in SUBSET Commands : records = logged'
    OBVIOUS
  <2>4. Promise!Rewrite(records)
    BY <1>w, <2>1, <2>2, <2>3 DEF Promise!Rewrite
  <2> QED
    BY <2>4 DEF Promise!Next
<1>1. ASSUME NEW t \in Threads, Execute(t) PROVE [Promise!Next]_(Promise!vars)
  <2>1. cmd[t] \in Commands /\ pc[t] = "execute"
    BY <1>1, <1>t DEF Execute, Holding, Past
  <2>2. PICK r \in Results : told' = [told EXCEPT ![cmd[t]] = @ \cup {r}]
    BY <1>1 DEF Execute
  <2>3. cmd[t] \in logged \/ center[cmd[t]] # "open"
    BY <2>1, <1>d DEF OnFile, Running
  <2>4. UNCHANGED <<center, disk>>
    BY <1>1 DEF Execute
  <2>5. delivered' \in {delivered, delivered \cup {cmd[t]}}
    <3>1. CASE UNCHANGED sent
      BY <3>1
    <3>2. CASE sent' = Bump(sent, cmd[t])
      BY <3>2, <2>1, <1>t DEF Bump
    <3> QED
      BY <1>1, <3>1, <3>2 DEF Execute
  <2>6. Promise!Perform(cmd[t], r)
    BY <2>2, <2>3, <2>4, <2>5 DEF Promise!Perform
  <2> QED
    BY <2>1, <2>6 DEF Promise!Next
<1>2. ASSUME NEW c \in Commands, NEW verdict \in Verdicts, Close(c, verdict),
             UNCHANGED <<sent, told, disk>>, center[c] = "open" => c \in logged,
             verdict \in told[c] \cup {"indeterminate", "gone"}
      PROVE  [Promise!Next]_(Promise!vars)
  <2>1. CASE center[c] = "open"
    <3>1. center' = [center EXCEPT ![c] = verdict]
      BY <1>2, <2>1, <1>t DEF Close
    <3>2. UNCHANGED <<logged, delivered>>
      BY <1>2
    <3>3. Promise!Close(c, verdict)
      BY <1>2, <2>1, <3>1, <3>2 DEF Promise!Close
    <3> QED
      BY <3>3 DEF Promise!Next, Verdicts
  <2>2. CASE center[c] # "open"
    <3>1. UNCHANGED center
      BY <1>2, <2>2, <1>t DEF Close
    <3> QED
      BY <1>2, <3>1, <1>s
  <2> QED
    BY <2>1, <2>2
<1>3. ASSUME NEW c \in Commands, Report(c) PROVE [Promise!Next]_(Promise!vars)
  <2>1. UNCHANGED <<sent, told, disk>>
    BY <1>3 DEF Report, ReportTake, ReportCommitted, ReportTerminal, ReportFails
  <2>2. CASE UNCHANGED center
    BY <2>1, <2>2, <1>s
  <2>3. CASE /\ reporter.pc = "call" /\ reporter.id = c
             /\ Close(c, reporter.result) \/ Close(c, "gone")
    <3>1. /\ reporter.result \in told[c] \cup {"indeterminate"}
          /\ center[c] = "open" => c \in logged
      BY <2>3, <1>d DEF ReporterKnown, Known
    <3>2. reporter.result \in Verdicts /\ "gone" \in Verdicts
      BY <2>3, <1>t DEF Verdicts
    <3> QED
      BY <2>1, <2>3, <3>1, <3>2, <1>2
  <2> QED
    BY <1>3, <2>2, <2>3
       DEF Report, ReportTake, ReportCommitted, ReportTerminal, ReportFails
<1>4. ASSUME NEW p \in Pollers, Poll(p) PROVE [Promise!Next]_(Promise!vars)
  BY <1>4, <1>s DEF Poll, Pull, PullFails, RetryResult, Dispatch, RunInline
<1>5. ASSUME NEW s \in Senders, Take(s) \/ Acquire(s)
      PROVE  [Promise!Next]_(Promise!vars)
  BY <1>5, <1>s DEF Take, Acquire
<1>6. ASSUME NEW t \in Threads,
             Claim(t) \/ Lookup(t) \/ CheckDone(t) \/ Start(t) \/ Store(t) \/ Reply(t)
      PROVE  [Promise!Next]_(Promise!vars)
  BY <1>6, <1>w DEF Claim, Lookup, CheckDone, Start, Store, Reply
<1>7. CASE Erase \/ MarkDone \/ Restart
  BY <1>7, <1>w DEF Erase, MarkDone, Restart
<1>8. CASE UNCHANGED vars
  BY <1>8, <1>s DEF vars
<1> QED
  BY <1>1, <1>3, <1>4, <1>5, <1>6, <1>7, <1>8 DEF Next, Work

\* The channel implements CommandPromise for any number of pollers, senders and
\* restarts: executed only on file, kept on file until closed, closed only with what
\* an execution came to.
THEOREM PromiseKept == Spec => KeepsPromise
<1>1. PromiseInv /\ [Next]_vars => PromiseInv'
  BY JournalStep, CarriedStep DEF PromiseInv
<1> QED
  BY InitPromise, PromiseStep, <1>1, PTL DEF Spec, KeepsPromise, Promise!Spec
=============================================================================
