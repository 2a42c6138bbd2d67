------------------------------ MODULE PddSend ------------------------------
(***************************************************************************)
(* Sending through the Pinduoduo workbench's native library, and jumping   *)
(* to a conversation in it (bridge/channel.py: send_text, open_chat_pdd).  *)
(* Its HTTP answer proves nothing, since it is known to answer 200 without *)
(* doing anything: a call notes how long the plugin's log files are, posts *)
(* its request, and waits for a new line about its buyer and its text.     *)
(*                                                                         *)
(* The sender pool runs the calls of one conversation one after another,   *)
(* but a poller that finds its queue full runs a call outside the lock     *)
(* (agent.py, _dispatch_command).  People work in the same workbench.      *)
(***************************************************************************)
EXTENDS Naturals, FiniteSets

CONSTANTS
  Sends,   \* calls of send_text
  Jumps,   \* calls of open_chat_pdd
  Others,  \* messages and conversations of a person at the workbench
  Buyer,   \* [all of these -> buyers]
  Text,    \* [all of these -> what the log line tells apart, the jump included]
  None     \* no result yet

Calls == Sends \cup Jumps
Deeds == Calls \cup Others

ASSUME PddAssumption ==
  /\ Sends \cap Jumps = {} /\ Calls \cap Others = {}
  /\ DOMAIN Buyer = Deeds /\ DOMAIN Text = Deeds
  /\ None \notin {"blocked", "expired", "failed", "indeterminate", "confirmed"}

VARIABLES
  unlocked, \* calls run by a poller, outside the conversation's lock
  pc,       \* where each call is
  cursor,   \* what each call found in the log files before it posted
  log,      \* the lines of the log files, by what they are about
  deeds,    \* what the workbench has done
  result,   \* what each call returned
  taken,    \* history: calls whose request was answered without an error
  receipt   \* history: the lines that confirmed each call

history == <<taken, receipt>>
vars == <<unlocked, pc, cursor, log, deeds, result, history>>

Init ==
  /\ unlocked \in SUBSET Calls
  /\ pc = [c \in Calls |-> "start"]
  /\ cursor = [c \in Calls |-> {}] /\ log = {} /\ deeds = {}
  /\ result = [c \in Calls |-> None]
  /\ taken = {} /\ receipt = [c \in Calls |-> {}]

Return(c, status) ==
  /\ pc' = [pc EXCEPT ![c] = "done"]
  /\ result' = [result EXCEPT ![c] = status]

\* _sender_conversation_lock, held from start to end by the threads of the pool.
LockFree(c) ==
  c \in unlocked \/ \A d \in Calls \ unlocked : Buyer[d] = Buyer[c] => pc[d] \in {"start", "done"}

\* Mutant of LogCursor: the log is read from its beginning.
LogStart == {}

\* _pdd_log_cursor: the sizes of the log files.
LogCursor == log

\* The call is refused, a dry run, or finds no port; or the log's length is noted.
Begin(c) ==
  /\ pc[c] = "start" /\ LockFree(c)
  /\ \/ \E status \in {"blocked", "failed"} : Return(c, status) /\ UNCHANGED cursor
     \/ /\ pc' = [pc EXCEPT ![c] = "post"]
        /\ cursor' = [cursor EXCEPT ![c] = LogCursor]
        /\ UNCHANGED result
  /\ UNCHANGED <<unlocked, log, deeds, history>>

\* The command has expired meanwhile: nothing is posted.
Expire(c) ==
  /\ pc[c] = "post" /\ c \in Sends
  /\ Return(c, "expired")
  /\ UNCHANGED <<unlocked, cursor, log, deeds, history>>

\* The request is posted.  The workbench does it or not; it is answered without an
\* error, or there is an error or no answer at all.
Post(c) ==
  /\ pc[c] = "post"
  /\ deeds' \in {deeds, deeds \cup {c}}
  /\ \/ /\ pc' = [pc EXCEPT ![c] = "wait"]
        /\ taken' = taken \cup {c}
        /\ UNCHANGED result
     \/ Return(c, "failed") /\ UNCHANGED taken
  /\ UNCHANGED <<unlocked, cursor, log, receipt>>

\* A person sends a message, or turns to a conversation.
Person(o) ==
  /\ o \in Others \ deeds
  /\ deeds' = deeds \cup {o}
  /\ UNCHANGED <<unlocked, pc, cursor, log, result, history>>

\* The plugin gets round to writing its line.
LogLine(d) ==
  /\ d \in deeds \ log
  /\ log' = log \cup {d}
  /\ UNCHANGED <<unlocked, pc, cursor, deeds, result, history>>

\* Mutant of Receipts: whoever the line is about.
ReceiptsOfAnybody(c) == {d \in log \ cursor[c] : Text[d] = Text[c]}

\* _pdd_parse_send_confirmation, _pdd_parse_open_confirmation over _pdd_log_delta: new
\* lines about the buyer, and the text as far as the line shows it.
Receipts(c) == {d \in log \ cursor[c] : Buyer[d] = Buyer[c] /\ Text[d] = Text[c]}

Confirm(c) ==
  /\ pc[c] = "wait" /\ Receipts(c) # {}
  /\ Return(c, "confirmed")
  /\ receipt' = [receipt EXCEPT ![c] = Receipts(c)]
  /\ UNCHANGED <<unlocked, cursor, log, deeds, taken>>

\* Mutant of Doubt: an error while waiting is a failed send.
DoubtFails(c) == "failed"

\* What a request without a receipt comes to: a text may have gone out all the same.
Doubt(c) == IF c \in Sends THEN "indeterminate" ELSE "failed"

\* The wait is over, or reading the log failed.
Unconfirmed(c) ==
  /\ pc[c] = "wait"
  /\ Return(c, Doubt(c))
  /\ UNCHANGED <<unlocked, cursor, log, deeds, history>>

Step(c) == Begin(c) \/ Expire(c) \/ Post(c) \/ Confirm(c) \/ Unconfirmed(c)

Next ==
  \/ \E c \in Calls : Step(c)
  \/ \E o \in Others : Person(o)
  \/ \E d \in Deeds : LogLine(d)

Spec == Init /\ [][Next]_vars

-----------------------------------------------------------------------------
(* Properties.                                                             *)

TypeOK ==
  /\ unlocked \subseteq Calls
  /\ pc \in [Calls -> {"start", "post", "wait", "done"}]
  /\ cursor \in [Calls -> SUBSET Deeds]
  /\ deeds \subseteq Deeds /\ log \subseteq deeds
  /\ \A c \in Calls : cursor[c] \subseteq log
  /\ result \in [Calls -> {None, "blocked", "expired", "failed", "indeterminate", "confirmed"}]
  /\ \A c \in Calls : pc[c] = "done" <=> result[c] # None
  /\ taken \subseteq Calls
  /\ receipt \in [Calls -> SUBSET log]

OwnText(c) == \A d \in Deeds : Text[d] = Text[c] /\ Buyer[d] = Buyer[c] => d = c

\* "Never acknowledge an unverified send": what is confirmed has been done, by this
\* call if nothing else says the same to the same buyer.
ConfirmedIsDone ==
  \A c \in Calls : result[c] = "confirmed" =>
    /\ \E d \in deeds : Buyer[d] = Buyer[c] /\ Text[d] = Text[c]
    /\ OwnText(c) => c \in deeds

\* One line of the log confirms two calls only if one of them ran outside the lock:
\* the log's length is noted before the request, and the lock keeps the other call's
\* line out of the wait (send_text, _sender_conversation_lock).
NoSharedReceipt ==
  \A c, d \in Calls : c # d /\ receipt[c] \cap receipt[d] # {} => {c, d} \cap unlocked # {}

\* A text the workbench has taken is never reported as failed, for which the center
\* would send it again (channel.py, the comment before accepted).
TakenIsNotFailed ==
  \A c \in Sends \cap taken : result[c] \in {None, "confirmed", "indeterminate"}

\* "Only a request the library did not take may be reported as failed, for the center
\* to send again; else the buyer gets it twice" (the same comment).
\* This does not hold; see the README.
FailedIsUnsent == \A c \in Sends : result[c] = "failed" => c \notin deeds
=============================================================================
