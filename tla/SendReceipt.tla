---------------------------- MODULE SendReceipt ----------------------------
(***************************************************************************)
(* How the CDP source sends a message and learns that it arrived           *)
(* (bridge/pddbridge_source.py: send_and_wait, _handle_actions, _do_send,  *)
(* _handle_send_receipt, _normalize_send_message).                         *)
(*                                                                         *)
(* Command threads post a send and wait.  One CDP thread takes the posted  *)
(* sends, asks the page to send each, registers it as pending, and drains  *)
(* the page's frames: a send_message frame is the receipt of some message, *)
(* perhaps one a person typed, and is matched to a pending send by buyer   *)
(* and text, or by the text alone.  A wait that ends without a result      *)
(* withdraws its send.                                                     *)
(*                                                                         *)
(* The page and the platform are outside the model: what a page call does, *)
(* which message arrives and whom its receipt names are choices.  The      *)
(* optional direct path through the native library is left out.            *)
(***************************************************************************)
EXTENDS Naturals, Sequences, FiniteSets, SequencesExt

CONSTANTS
  Sends,   \* calls of send_and_wait
  Others,  \* messages a person sends from the same workbench
  Buyer,   \* [messages -> buyers]: whom a message is for
  Text,    \* [messages -> texts]: its first 48 characters
  Seat,    \* the seat's own uid, which a receipt may name instead of the buyer
  None     \* no result yet

Messages == Sends \cup Others
Statuses == {"blocked", "expired", "failed", "confirmed"}

ASSUME ReceiptAssumption ==
  /\ Sends \cap Others = {}
  /\ DOMAIN Buyer = Messages /\ DOMAIN Text = Messages
  /\ Seat \notin {Buyer[m] : m \in Messages}
  /\ None \notin Sends \cup Statuses

VARIABLES
  act,       \* _act: the sends posted
  taken,     \* what is left of the list _handle_actions took
  cdp,       \* the CDP thread, and the send it works on
  caller,    \* the threads in send_and_wait
  late,      \* sends whose deadline has passed
  result,    \* _SendWaiter.result
  pending,   \* _pending_sends, one send for each buyer and text
  posted,    \* messages the page has handed to the platform
  frames,    \* receipts the page has buffered, one for each message that arrived
  echoed,    \* history: outgoing messages reported, with the buyer they are filed under
  heard,     \* history: sends whose receipt was drained while the caller waited for it
  abandoned  \* history: sends withdrawn before the page was about to be called

actions == <<act, taken, cdp>>
waiters == <<caller, late, result>>
page == <<posted, frames>>
history == <<echoed, heard, abandoned>>
vars == <<actions, waiters, pending, page, history>>

Resting == [pc |-> "idle", send |-> None]

Init ==
  /\ act = <<>> /\ taken = <<>> /\ cdp = Resting
  /\ caller = [s \in Sends |-> "new"]
  /\ late = {}
  /\ result = [s \in Sends |-> None]
  /\ pending = {}
  /\ posted = {} /\ frames = {}
  /\ echoed = {} /\ heard = {} /\ abandoned = {}

\* The sends of the dictionary key "uid|content[:48]".
SameKey(s) == {d \in Sends : Buyer[d] = Buyer[s] /\ Text[d] = Text[s]}

-----------------------------------------------------------------------------
(* The caller: send_and_wait.                                              *)

Post(s) ==
  /\ caller[s] = "new"
  /\ caller' = [caller EXCEPT ![s] = "waiting"]
  /\ act' = Append(act, s)
  /\ UNCHANGED <<taken, cdp, late, result, pending, page, history>>

Deadline(s) ==
  /\ caller[s] = "waiting" /\ s \notin late
  /\ late' = late \cup {s}
  /\ UNCHANGED <<actions, caller, result, pending, page, history>>

\* The caller is told the result.
Return(s) ==
  /\ caller[s] = "waiting" /\ result[s] # None
  /\ caller' = [caller EXCEPT ![s] = "done"]
  /\ UNCHANGED <<actions, late, result, pending, page, history>>

\* The wait is over and there is no result: decided before the lock is taken.
GiveUp(s) ==
  /\ caller[s] = "waiting" /\ s \in late /\ result[s] = None
  /\ caller' = [caller EXCEPT ![s] = "leaving"]
  /\ UNCHANGED <<actions, late, result, pending, page, history>>

\* The CDP thread has not come to the page call of s, nor to the check before it.
Unstarted(s) ==
  \/ s \in Range(act) \cup Range(taken)
  \/ cdp.send = s /\ cdp.pc = "info"

\* Under the lock: the send is cancelled, and the entry of its key removed,
\* whichever send it stands for.  The caller is told "indeterminate", whatever result
\* came meanwhile; a caller past its deadline counts as cancelled throughout.  The
\* filter over _act drops one entry at most: a send is posted once.
Withdraw(s) ==
  /\ caller[s] = "leaving"
  /\ caller' = [caller EXCEPT ![s] = "done"]
  /\ \/ s \notin Range(act) /\ UNCHANGED act
     \/ \E i \in DOMAIN act : act[i] = s /\ act' = RemoveAt(act, i)
  /\ pending' = pending \ SameKey(s)
  /\ abandoned' = IF Unstarted(s) THEN abandoned \cup {s} ELSE abandoned
  /\ UNCHANGED <<taken, cdp, late, result, page, echoed, heard>>

-----------------------------------------------------------------------------
(* The CDP thread: _handle_actions and _do_send.                           *)

TakeActions ==
  /\ cdp.pc = "idle" /\ act # <<>>
  /\ taken' = act /\ act' = <<>>
  /\ cdp' = [pc |-> "next", send |-> None]
  /\ UNCHANGED <<waiters, pending, page, history>>

\* The CDP thread is through with s, which is answered status.
Answer(s, status) ==
  /\ result' = [result EXCEPT ![s] = status]
  /\ cdp' = [pc |-> "next", send |-> None]

\* The list is worked off, or its next send begins: no session for its shop,
\* expired already (its own deadline or the command's), the channel not listening, or
\* the page is asked which shop it belongs to.
StartSend ==
  /\ cdp.pc = "next"
  /\ \/ /\ taken = <<>>
        /\ cdp' = Resting
        /\ UNCHANGED <<taken, result>>
     \/ /\ taken # <<>>
        /\ taken' = Tail(taken)
        /\ \/ \E status \in {"blocked", "expired", "failed"} : Answer(Head(taken), status)
           \/ /\ Head(taken) \notin late
              /\ cdp' = [pc |-> "info", send |-> Head(taken)]
              /\ UNCHANGED result
  /\ UNCHANGED <<act, caller, late, pending, page, history>>

\* Mutant of CheckTarget: expiry is not checked again.
CheckShopOnly ==
  /\ cdp.pc = "info"
  /\ \/ Answer(cdp.send, "blocked")
     \/ cdp' = [cdp EXCEPT !.pc = "call"] /\ UNCHANGED result
  /\ UNCHANGED <<act, taken, caller, late, pending, page, history>>

\* The page has answered: another shop, expired meanwhile, or go ahead.
CheckTarget ==
  /\ cdp.pc = "info"
  /\ \/ \E status \in {"blocked", "expired"} : Answer(cdp.send, status)
     \/ /\ cdp.send \notin late
        /\ cdp' = [cdp EXCEPT !.pc = "call"]
        /\ UNCHANGED result
  /\ UNCHANGED <<act, taken, caller, late, pending, page, history>>

\* __pddBridge_sendText: the page accepts the message, refuses it, or the evaluation
\* fails with nobody knowing whether the page ran it.
CallPage ==
  /\ cdp.pc = "call"
  /\ \/ /\ posted' = posted \cup {cdp.send}
        /\ cdp' = [cdp EXCEPT !.pc = "register"]
        /\ UNCHANGED result
     \/ /\ posted' \in {posted, posted \cup {cdp.send}}
        /\ Answer(cdp.send, "failed")
  /\ UNCHANGED <<act, taken, caller, late, pending, frames, history>>

Register ==
  /\ cdp.pc = "register"
  /\ pending' = (pending \ SameKey(cdp.send)) \cup {cdp.send}
  /\ cdp' = [pc |-> "next", send |-> None]
  /\ UNCHANGED <<act, taken, waiters, page, history>>

-----------------------------------------------------------------------------
(* The page and the platform.                                              *)

\* A person sends a message from the workbench.
Type(m) ==
  /\ m \in Others \ posted
  /\ posted' = posted \cup {m}
  /\ UNCHANGED <<actions, waiters, pending, frames, history>>

Delivered == {f.of : f \in frames}

\* The message arrives, and its receipt names the buyer or the seat.
Deliver(m) ==
  /\ m \in posted \ Delivered
  /\ \E to \in {Buyer[m], Seat} : frames' = frames \cup {[of |-> m, to |-> to]}
  /\ UNCHANGED <<actions, waiters, pending, posted, history>>

-----------------------------------------------------------------------------
(* Draining: _handle_frame on a send_message frame.                        *)

SameText(f) == {s \in pending : Text[s] = Text[f.of]}
Exact(f) == {s \in SameText(f) : Buyer[s] = f.to}

\* Mutant of Confirmed: the only pending send is confirmed by any receipt.
ConfirmedLone(f) ==
  IF Exact(f) # {} THEN Exact(f)
  ELSE IF Cardinality(pending) = 1 THEN pending ELSE {}

\* Mutant of Confirmed: no fallback on the text.
ConfirmedExact(f) == Exact(f)

\* _handle_send_receipt: the send a receipt confirms, if any.
Confirmed(f) ==
  IF Exact(f) # {} THEN Exact(f)
  ELSE IF Cardinality(SameText(f)) = 1 THEN SameText(f) ELSE {}

\* _normalize_send_message, after the confirmed sends have left the table: the
\* buyers the message may be filed under; none means that it is dropped.
FiledUnder(f, left) ==
  LET matches == {s \in left : Text[s] = Text[f.of]}
  IN IF f.to # Seat THEN {f.to}
     ELSE IF Cardinality(matches) = 1 THEN {Buyer[s] : s \in matches} ELSE {}

\* A frame may be handled again (its acknowledgement failed, or it was spilled and
\* replayed), or never (the buffer overflowed, the page reloaded).
Drain(f) ==
  /\ cdp.pc = "idle" /\ f \in frames
  /\ LET confirmed == Confirmed(f)
     IN /\ pending' = pending \ confirmed
        /\ result' = [s \in Sends |-> IF s \in confirmed THEN "confirmed" ELSE result[s]]
        /\ echoed' = echoed \cup
             {[of |-> f.of, buyer |-> b] : b \in FiledUnder(f, pending \ confirmed)}
  /\ heard' = heard \cup
       {s \in Sends : s = f.of /\ caller[s] = "waiting" /\ result[s] = None}
  /\ UNCHANGED <<actions, caller, late, page, abandoned>>

-----------------------------------------------------------------------------
Call(s) == Post(s) \/ Deadline(s) \/ Return(s) \/ GiveUp(s) \/ Withdraw(s)

Next ==
  \/ \E s \in Sends : Call(s)
  \/ TakeActions \/ StartSend \/ CheckTarget \/ CallPage \/ Register
  \/ \E m \in Messages : Type(m) \/ Deliver(m)
  \/ \E f \in frames : Drain(f)

Spec == Init /\ [][Next]_vars

-----------------------------------------------------------------------------
(* Properties.                                                             *)

\* Types, _pending_sends being a table: one entry for a key.
TypeOK ==
  /\ act \in Seq(Sends) /\ taken \in Seq(Sends)
  /\ cdp \in [pc : {"idle", "next", "info", "call", "register"}, send : Sends \cup {None}]
  /\ caller \in [Sends -> {"new", "waiting", "leaving", "done"}]
  /\ late \subseteq Sends
  /\ result \in [Sends -> Statuses \cup {None}]
  /\ pending \subseteq Sends /\ \A s \in pending : SameKey(s) \cap pending = {s}
  /\ posted \subseteq Messages
  /\ frames \subseteq [of : posted, to : {Buyer[m] : m \in Messages} \cup {Seat}]
  /\ echoed \subseteq [of : Messages, buyer : {Buyer[m] : m \in Messages}]
  /\ heard \subseteq Sends /\ abandoned \subseteq Sends

\* No other message has the first 48 characters of s.
OwnText(s) == \A m \in Messages : Text[m] = Text[s] => m = s

\* "Never acknowledge an unverified send as a successful command": a confirmed send
\* was delivered, or a message with its text was (the receipt cannot tell).
ConfirmedIsReal ==
  \A s \in Sends : result[s] = "confirmed" =>
    \E m \in Delivered : Text[m] = Text[s]

\* A receipt that comes while its caller waits is not missed, even if it names the
\* seat, comes at once, or follows withdrawals of other sends.
HeardIsConfirmed == \A s \in heard : OwnText(s) => result[s] = "confirmed"

\* A send given up before the page was about to be called is never sent
\* (test_cdp_timeout_cancels_unexecuted_action).
AbandonedIsUnsent == abandoned \cap posted = {}

\* An outgoing message whose receipt confirmed its send is reported under its buyer,
\* also when the receipt names the seat (test_pddbridge_source.py, case 11).
\* This does not hold; see the README.
ConfirmedIsEchoed ==
  \A s \in heard : OwnText(s) => [of |-> s, buyer |-> Buyer[s]] \in echoed
=============================================================================
