---------------------------- MODULE SendingProofs ----------------------------
(***************************************************************************)
(* Theorems about Sending, for any calls, buyers and texts:                *)
(*   - the native library of the Pinduoduo workbench (PddSend): what is    *)
(*     confirmed was done, a line of the log confirms one call of those    *)
(*     under the conversation's lock, what was taken is not failed;        *)
(*   - the ladder of the Taobao workbench (QnSend): a call that pressed a  *)
(*     key is final.                                                       *)
(***************************************************************************)
EXTENDS Sending, TLAPS

Statuses == {None, "blocked", "expired", "failed", "indeterminate", "confirmed"}

\* The log knows what was done, and each call's receipts are lines of its buyer
\* and its text.
ReceiptFits ==
  \A c \in Calls : \A d \in receipt[c] : Buyer[d] = Buyer[c] /\ Text[d] = Text[c]

ConfirmedHasReceipt == \A c \in Calls : result[c] = "confirmed" => receipt[c] # {}

\* A request that was taken is waited for, or the call is over.
TakenWaits == \A c \in taken : pc[c] \in {"wait", "done"}

\* Two calls of one buyer that hold the lock.
Rivals(c, d) == c # d /\ Buyer[c] = Buyer[d] /\ {c, d} \cap unlocked = {}

Posted(c) == pc[c] \in {"post", "wait"}

\* The lock excludes them from each other's requests, ...
LockExcludes == \A c, d \in Calls : Rivals(c, d) /\ Posted(c) => ~Posted(d)

\* ... and the length of the log that one notes is past the receipts of the other.
CursorIsPast == \A c, d \in Calls : Rivals(c, d) /\ Posted(d) => receipt[c] \subseteq cursor[d]

PddInv ==
  /\ TypeOK /\ ReceiptFits /\ ConfirmedHasReceipt /\ TakenWaits
  /\ LockExcludes /\ CursorIsPast
  /\ TakenIsNotFailed /\ NoSharedReceipt

-----------------------------------------------------------------------------
LEMMA PddInit == Init => PddInv
<1> SUFFICES ASSUME Init PROVE PddInv
  OBVIOUS
<1>1. TypeOK
  BY PddAssumption DEF Init, TypeOK, history
<1>2. ReceiptFits /\ ConfirmedHasReceipt /\ TakenWaits /\ LockExcludes /\ CursorIsPast
  BY PddAssumption DEF Init, ReceiptFits, ConfirmedHasReceipt, TakenWaits, LockExcludes, CursorIsPast,
         Posted
<1>3. TakenIsNotFailed /\ NoSharedReceipt
  BY DEF Init, TakenIsNotFailed, NoSharedReceipt
<1> QED
  BY <1>1, <1>2, <1>3 DEF PddInv

LEMMA PddTypeStep == TypeOK /\ [Next]_vars => TypeOK'
<1> SUFFICES ASSUME TypeOK, [Next]_vars PROVE TypeOK'
  OBVIOUS
<1> USE PddAssumption DEF TypeOK, history, Deeds
<1>1. ASSUME NEW c \in Calls, Begin(c) PROVE TypeOK'
  BY <1>1 DEF Begin, Return, LogCursor
<1>2. ASSUME NEW c \in Calls, Expire(c) PROVE TypeOK'
  BY <1>2 DEF Expire, Return
<1>3. ASSUME NEW c \in Calls, Post(c) PROVE TypeOK'
  BY <1>3 DEF Post, Return
<1>4. ASSUME NEW c \in Calls, Confirm(c) PROVE TypeOK'
  BY <1>4 DEF Confirm, Return, Receipts
<1>5. ASSUME NEW c \in Calls, Unconfirmed(c) PROVE TypeOK'
  BY <1>5 DEF Unconfirmed, Return, Doubt
<1>6. ASSUME NEW o \in Others, Person(o) PROVE TypeOK'
  BY <1>6 DEF Person
<1>7. ASSUME NEW d \in Deeds, LogLine(d) PROVE TypeOK'
  BY <1>7 DEF LogLine
<1>8. CASE UNCHANGED vars
  BY <1>8 DEF vars
<1> QED
  BY <1>1, <1>2, <1>3, <1>4, <1>5, <1>6, <1>7, <1>8 DEF Next, Step

LEMMA PddStep == PddInv /\ [Next]_vars => PddInv'
<1> SUFFICES ASSUME PddInv, [Next]_vars PROVE PddInv'
  OBVIOUS
<1>t. TypeOK /\ TypeOK'
  BY PddTypeStep DEF PddInv
<1> USE PddAssumption DEF PddInv, TypeOK, history
<1>a. ASSUME UNCHANGED <<unlocked, pc, cursor, result, taken, receipt>> PROVE PddInv'
  BY <1>a, <1>t DEF ReceiptFits, ConfirmedHasReceipt, TakenWaits, LockExcludes, CursorIsPast,
     Rivals, Posted, TakenIsNotFailed, NoSharedReceipt
<1>1. ASSUME NEW c \in Calls, Begin(c) PROVE PddInv'
  <2>1. ReceiptFits' /\ ConfirmedHasReceipt' /\ TakenWaits' /\ TakenIsNotFailed' /\ NoSharedReceipt'
    BY <1>1, <1>t DEF Begin, Return, ReceiptFits, ConfirmedHasReceipt, TakenWaits,
       TakenIsNotFailed, NoSharedReceipt
  <2>2. LockExcludes'
    BY <1>1 DEF Begin, Return, LockFree, LockExcludes, Rivals, Posted
  <2>3. CursorIsPast'
    BY <1>1 DEF Begin, Return, LogCursor, CursorIsPast, Rivals, Posted
  <2> QED
    BY <1>t, <2>1, <2>2, <2>3
<1>2. ASSUME NEW c \in Calls, NEW status \in Statuses \ {"confirmed"},
             Posted(c), Return(c, status), UNCHANGED <<unlocked, cursor, receipt>>,
             \/ taken' = taken /\ c \notin taken
             \/ taken' = taken /\ status \in {"confirmed", "indeterminate"}
             \/ taken' = taken /\ c \notin Sends
      PROVE  PddInv'
  <2>1. ReceiptFits' /\ ConfirmedHasReceipt' /\ TakenWaits' /\ NoSharedReceipt'
    BY <1>2, <1>t DEF Return, ReceiptFits, ConfirmedHasReceipt, TakenWaits, NoSharedReceipt
  <2>2. LockExcludes' /\ CursorIsPast'
    BY <1>2 DEF Return, LockExcludes, CursorIsPast, Rivals, Posted
  <2>3. TakenIsNotFailed'
    BY <1>2 DEF Return, TakenIsNotFailed
  <2> QED
    BY <1>t, <2>1, <2>2, <2>3
<1>3. ASSUME NEW c \in Calls, Expire(c) PROVE PddInv'
  <2>1. c \notin taken
    BY <1>3 DEF Expire, TakenWaits
  <2> QED
    BY <1>3, <2>1, <1>2 DEF Expire, Statuses, Posted
<1>4. ASSUME NEW c \in Calls, Post(c) PROVE PddInv'
  <2>1. CASE Return(c, "failed") /\ UNCHANGED taken
    <3>1. c \notin taken
      BY <1>4 DEF Post, TakenWaits
    <3> QED
      BY <1>4, <2>1, <3>1, <1>2 DEF Post, Statuses, Posted
  <2>2. CASE /\ pc' = [pc EXCEPT ![c] = "wait"]
             /\ taken' = taken \cup {c} /\ UNCHANGED result
    <3>1. ReceiptFits' /\ ConfirmedHasReceipt' /\ TakenWaits' /\ NoSharedReceipt'
      BY <1>4, <2>2, <1>t DEF Post, ReceiptFits, ConfirmedHasReceipt, TakenWaits, NoSharedReceipt
    <3>2. LockExcludes' /\ CursorIsPast'
      BY <1>4, <2>2 DEF Post, LockExcludes, CursorIsPast, Rivals, Posted
    <3>3. TakenIsNotFailed'
      BY <1>4, <2>2 DEF Post, TakenIsNotFailed
    <3> QED
      BY <1>t, <3>1, <3>2, <3>3
  <2> QED
    BY <1>4, <2>1, <2>2 DEF Post
<1>5. ASSUME NEW c \in Calls, Confirm(c) PROVE PddInv'
  <2>0. /\ pc' = [pc EXCEPT ![c] = "done"] /\ result' = [result EXCEPT ![c] = "confirmed"]
        /\ receipt' = [receipt EXCEPT ![c] = Receipts(c)] /\ Receipts(c) # {}
        /\ UNCHANGED <<unlocked, cursor, log, deeds, taken>> /\ pc[c] = "wait"
    BY <1>5 DEF Confirm, Return
  <2>1. ReceiptFits' /\ ConfirmedHasReceipt'
    BY <2>0, <1>t DEF ReceiptFits, ConfirmedHasReceipt, Receipts
  <2>2. TakenWaits' /\ TakenIsNotFailed'
    BY <2>0, <1>t DEF TakenWaits, TakenIsNotFailed
  <2>3. LockExcludes'
    BY <2>0 DEF LockExcludes, Rivals, Posted
  <2>4. CursorIsPast'
    <3> SUFFICES ASSUME NEW x \in Calls, NEW y \in Calls, Rivals(x, y)', Posted(y)'
                 PROVE  receipt'[x] \subseteq cursor'[y]
      BY DEF CursorIsPast
    <3>1. y # c /\ Posted(y) /\ Rivals(x, y)
      BY <2>0 DEF Posted, Rivals
    <3>2. x # c
      BY <2>0, <3>1 DEF LockExcludes, Posted, Rivals
    <3> QED
      BY <2>0, <3>1, <3>2 DEF CursorIsPast
  <2>5. NoSharedReceipt'
    <3> SUFFICES ASSUME NEW x \in Calls, NEW y \in Calls, x # y, {x, y} \cap unlocked' = {},
                        NEW l \in receipt'[x] \cap receipt'[y]
                 PROVE  FALSE
      BY DEF NoSharedReceipt
    <3>1. ASSUME NEW d \in Calls, d # c, {c, d} \cap unlocked = {}, l \in receipt[d],
                 l \in Receipts(c)
          PROVE  FALSE
      <4>1. Rivals(d, c)
        BY <3>1 DEF Rivals, ReceiptFits, Receipts
      <4>2. receipt[d] \subseteq cursor[c]
        BY <2>0, <4>1, <3>1 DEF CursorIsPast, Posted
      <4> QED
        BY <3>1, <4>2 DEF Receipts
    <3>2. CASE x = c
      BY <2>0, <3>1, <3>2
    <3>3. CASE y = c
      BY <2>0, <3>1, <3>3
    <3>4. CASE x # c /\ y # c
      BY <2>0, <3>4 DEF NoSharedReceipt
    <3> QED
      BY <3>2, <3>3, <3>4
  <2> QED
    BY <1>t, <2>1, <2>2, <2>3, <2>4, <2>5
<1>6. ASSUME NEW c \in Calls, Unconfirmed(c) PROVE PddInv'
  BY <1>6, <1>2 DEF Unconfirmed, Doubt, Statuses, Posted
<1>7. ASSUME NEW o \in Others, Person(o) PROVE PddInv'
  BY <1>7, <1>a DEF Person
<1>8. ASSUME NEW d \in Deeds, LogLine(d) PROVE PddInv'
  BY <1>8, <1>a DEF LogLine
<1>9. CASE UNCHANGED vars
  BY <1>9, <1>a DEF vars
<1> QED
  BY <1>1, <1>3, <1>4, <1>5, <1>6, <1>7, <1>8, <1>9 DEF Next, Step

LEMMA Confirmed == PddInv => ConfirmedIsDone
BY DEF PddInv, TypeOK, ReceiptFits, ConfirmedHasReceipt, ConfirmedIsDone, OwnText, Deeds

-----------------------------------------------------------------------------
(* The ladder of the Taobao workbench.                                     *)

\* A call that has pressed a key looks whether it was heard, presses again, or is over
\* and accepted; a call that is not over has no result.
PressInv ==
  /\ DOMAIN qnPc = QnCalls /\ DOMAIN qnResult = QnCalls
  /\ pressed \subseteq QnCalls
  /\ \A c \in pressed :
       /\ qnPc[c] \in {"sent", "press", "cdp sent", "done"}
       /\ qnResult[c] \in {None, "accepted"}
  /\ \A c \in QnCalls : qnPc[c] # "done" => qnResult[c] = None

LEMMA PressInit == Qn!Init => PressInv
BY DEF Qn!Init, PressInv

LEMMA PressStep == PressInv /\ [Qn!Next]_qnVars => PressInv'
<1> SUFFICES ASSUME PressInv, [Qn!Next]_qnVars PROVE PressInv'
  OBVIOUS
<1> USE DEF PressInv, Qn!history, Qn!window, Qn!library, Qn!bridge
<1>a. ASSUME NEW c \in QnCalls, NEW step, Qn!Goto(c, step), UNCHANGED <<qnResult, pressed>>,
             c \notin pressed \/ step \in {"sent", "press", "cdp sent"}, step # "done",
             qnPc[c] # "done"
      PROVE  PressInv'
  BY <1>a DEF Qn!Goto
<1>b. ASSUME NEW c \in QnCalls, NEW status, Qn!Return(c, status), UNCHANGED pressed,
             c \notin pressed \/ status = "accepted"
      PROVE  PressInv'
  BY <1>b DEF Qn!Return
<1>c. ASSUME UNCHANGED <<qnPc, qnResult, pressed>> PROVE PressInv'
  BY <1>c
<1>d. ASSUME NEW c \in QnCalls, NEW cleared, Qn!After(c, cleared), UNCHANGED pressed,
             qnPc[c] # "done"
      PROVE  PressInv'
  BY <1>a, <1>b, <1>d DEF Qn!After
<1>1. ASSUME NEW c \in QnCalls, Qn!Begin(c) PROVE PressInv'
  <2>1. qnPc[c] = "start" /\ c \notin pressed /\ UNCHANGED pressed
    BY <1>1 DEF Qn!Begin
  <2> QED
    BY <1>1, <2>1, <1>a, <1>b DEF Qn!Begin, Qn!Asking
<1>2. ASSUME NEW c \in QnCalls, Qn!TimeOut(c) PROVE PressInv'
  <2>1. qnPc[c] \in Qn!Waiting /\ UNCHANGED pressed /\ (qnPc[c] # "sent" => c \notin pressed)
    BY <1>2 DEF Qn!TimeOut, Qn!Waiting
  <2>2. CASE qnPc[c] = "sent"
    BY <1>2, <2>1, <2>2, <1>d DEF Qn!TimeOut
  <2>3. CASE qnPc[c] # "sent"
    BY <1>2, <2>1, <2>3, <1>a DEF Qn!TimeOut, Qn!NextRung, Qn!Waiting
  <2> QED
    BY <2>2, <2>3
<1>3. ASSUME NEW c \in QnCalls, Qn!WsPress(c) PROVE PressInv'
  BY <1>3 DEF Qn!WsPress, Qn!Press, Qn!Asking, Qn!Goto
<1>4. ASSUME NEW c \in QnCalls,
             Qn!CdpOpen(c) \/ Qn!CdpCheck(c) \/ Qn!CdpInsert(c) \/ Qn!CdpCheckAgain(c)
               \/ Qn!CdpFilled(c)
      PROVE  PressInv'
  <2>1. /\ qnPc[c] \in {"cdp", "cdp check", "cdp insert", "cdp check again", "cdp filled"}
        /\ c \notin pressed /\ UNCHANGED <<qnResult, pressed>>
        /\ \/ Qn!Goto(c, "dll") \/ Qn!Goto(c, "cdp check") \/ Qn!Goto(c, "cdp insert")
           \/ Qn!Goto(c, "cdp check again") \/ Qn!Goto(c, "cdp filled")
           \/ Qn!Goto(c, "cdp press")
    BY <1>4 DEF Qn!CdpOpen, Qn!CdpCheck, Qn!CdpInsert, Qn!CdpCheckAgain, Qn!CdpFilled,
       Qn!NextRung, Qn!Checked
  <2> QED
    BY <2>1, <1>a
<1>5. ASSUME NEW c \in QnCalls, Qn!CdpPress(c) PROVE PressInv'
  <2>1. qnPc[c] = "cdp press" /\ c \notin pressed
    BY <1>5 DEF Qn!CdpPress
  <2>2. CASE Qn!Press(c) /\ Qn!Goto(c, "cdp sent") /\ UNCHANGED qnResult
    BY <2>1, <2>2 DEF Qn!Press, Qn!Goto
  <2>3. CASE Qn!Return(c, "failed") /\ UNCHANGED pressed
    BY <2>1, <2>3, <1>b
  <2> QED
    BY <1>5, <2>2, <2>3 DEF Qn!CdpPress
<1>6. ASSUME NEW c \in QnCalls, Qn!CdpSent(c) PROVE PressInv'
  BY <1>6, <1>b DEF Qn!CdpSent
<1>7. ASSUME NEW c \in QnCalls, Qn!DllOpen(c) \/ Qn!DllPost(c) PROVE PressInv'
  <2>1. /\ qnPc[c] \in {"dll", "post"} /\ c \notin pressed /\ UNCHANGED <<qnResult, pressed>>
        /\ Qn!Goto(c, "paste?") \/ Qn!Goto(c, "post") \/ Qn!Goto(c, "log")
    BY <1>7 DEF Qn!DllOpen, Qn!DllPost
  <2> QED
    BY <2>1, <1>a
<1>8. ASSUME NEW c \in QnCalls, Qn!DllLog(c) \/ Qn!PasteGate(c) \/ Qn!Paste(c) PROVE PressInv'
  <2>1. qnPc[c] \in {"log", "paste?", "paste"} /\ c \notin pressed /\ UNCHANGED pressed
    BY <1>8 DEF Qn!DllLog, Qn!PasteGate, Qn!Paste
  <2> QED
    BY <1>8, <2>1, <1>a, <1>b DEF Qn!DllLog, Qn!PasteGate, Qn!Paste
<1>9. ASSUME NEW r \in asked, Qn!Answer(r) PROVE PressInv'
  <2>1. UNCHANGED pressed
    BY <1>9 DEF Qn!Answer, Qn!Run
  <2>2. CASE UNCHANGED <<qnPc, qnResult>>
    BY <2>1, <2>2, <1>c
  <2>3. ASSUME NEW t, NEW answer, Qn!Follow(t, answer) # None,
               Qn!Goto(t, Qn!Follow(t, answer)), UNCHANGED qnResult
        PROVE  PressInv'
    <3>1. CASE t \notin QnCalls
      BY <2>1, <2>3, <3>1, <1>c DEF Qn!Goto
    <3>2. CASE t \in QnCalls
      <4>1. /\ qnPc[t] \in {"open", "nick", "insert", "insert?"}
            /\ Qn!Follow(t, answer) \in {"nick", "insert", "insert?", "filled"}
        BY <2>3 DEF Qn!Follow
      <4> QED
        BY <2>1, <2>3, <3>2, <4>1, <1>a
    <3> QED
      BY <3>1, <3>2
  <2>4. ASSUME NEW t, NEW answer, Qn!Heard(t, answer) PROVE PressInv'
    <3>1. CASE t \notin QnCalls
      BY <2>1, <2>4, <3>1, <1>c DEF Qn!Heard, Qn!NextRung, Qn!Goto, Qn!After, Qn!Return
    <3>2. CASE t \in QnCalls
      <4>1. CASE qnPc[t] = "sent"
        BY <2>1, <2>4, <3>2, <4>1, <1>d DEF Qn!Heard
      <4>2. CASE qnPc[t] \in {"nick", "filled"}
        <5>1. t \notin pressed
          BY <4>2
        <5> QED
          BY <2>1, <2>4, <3>2, <4>2, <5>1, <1>a DEF Qn!Heard, Qn!NextRung
      <4> QED
        BY <2>4, <4>1, <4>2 DEF Qn!Heard
    <3> QED
      BY <3>1, <3>2
  <2> QED
    BY <1>9, <2>2, <2>3, <2>4 DEF Qn!Answer
<1>10. ASSUME NEW b, Qn!Person(b) PROVE PressInv'
  BY <1>10, <1>c DEF Qn!Person
<1>11. CASE UNCHANGED qnVars
  BY <1>11, <1>c DEF qnVars
<1> QED
  BY <1>1, <1>2, <1>3, <1>4, <1>5, <1>6, <1>7, <1>8, <1>9, <1>10, <1>11
     DEF Qn!Next, Qn!Step

\* A call about to act over the debugging port is in its buyer's conversation, or was
\* there when it checked and somebody turned to another one.
HomeInv ==
  /\ DOMAIN qnPc = QnCalls
  /\ \A c \in QnCalls : qnPc[c] \in Qn!Acting => cur = QnBuyer[c] \/ c \in moved
  /\ astray = {}

LEMMA HomeInit == Qn!Init => HomeInv
BY DEF Qn!Init, HomeInv, Qn!Acting

LEMMA HomeStep == HomeInv /\ [Qn!Next]_qnVars => HomeInv'
<1> SUFFICES ASSUME HomeInv, [Qn!Next]_qnVars PROVE HomeInv'
  OBVIOUS
<1> USE DEF HomeInv, Qn!Acting, Qn!history, Qn!window, Qn!library, Qn!bridge
<1>a. ASSUME NEW c, NEW step, qnPc' = [qnPc EXCEPT ![c] = step],
             step \notin Qn!Acting, UNCHANGED <<cur, moved, astray>>
      PROVE  HomeInv'
  BY <1>a
<1>b. ASSUME NEW b, Qn!Show(b), UNCHANGED <<qnPc, astray>> PROVE HomeInv'
  BY <1>b DEF Qn!Show
<1>c. ASSUME NEW b, Qn!Show(b), NEW c, NEW step, qnPc' = [qnPc EXCEPT ![c] = step], step \notin Qn!Acting,
             UNCHANGED astray
      PROVE  HomeInv'
  BY <1>c DEF Qn!Show
<1>d. ASSUME UNCHANGED <<qnPc, cur, moved, astray>> PROVE HomeInv'
  BY <1>d
<1>1. ASSUME NEW c \in QnCalls, Qn!Begin(c) PROVE HomeInv'
  BY <1>1 DEF Qn!Begin, Qn!Asking, Qn!Return, Qn!Goto
<1>2. ASSUME NEW c \in QnCalls, Qn!TimeOut(c) PROVE HomeInv'
  BY <1>2 DEF Qn!TimeOut, Qn!NextRung, Qn!After, Qn!Return, Qn!Goto
<1>3. ASSUME NEW c \in QnCalls, Qn!WsPress(c) PROVE HomeInv'
  BY <1>3 DEF Qn!WsPress, Qn!Asking, Qn!Goto
<1>4. ASSUME NEW c \in QnCalls, Qn!CdpOpen(c) PROVE HomeInv'
  BY <1>4 DEF Qn!CdpOpen, Qn!NextRung, Qn!Goto, Qn!Show
<1>5. ASSUME NEW c \in QnCalls, Qn!CdpCheck(c) \/ Qn!CdpCheckAgain(c) PROVE HomeInv'
  <2>1. UNCHANGED <<cur, moved, astray>>
    BY <1>5 DEF Qn!CdpCheck, Qn!CdpCheckAgain
  <2>2. CASE cur = QnBuyer[c] /\ (Qn!Goto(c, "cdp insert") \/ Qn!Goto(c, "cdp filled"))
    BY <2>1, <2>2 DEF Qn!Goto
  <2>3. CASE Qn!Goto(c, "dll")
    BY <2>1, <2>3 DEF Qn!Goto
  <2> QED
    BY <1>5, <2>2, <2>3 DEF Qn!CdpCheck, Qn!CdpCheckAgain, Qn!Checked, Qn!NextRung
<1>6. ASSUME NEW c \in QnCalls, Qn!CdpInsert(c) PROVE HomeInv'
  <2>1. astray' = {} /\ cur' = cur /\ moved' = moved \ {c}
    BY <1>6 DEF Qn!CdpInsert, Qn!Trusting
  <2>2. Qn!Goto(c, "dll") \/ Qn!Goto(c, "cdp check again")
    BY <1>6 DEF Qn!CdpInsert, Qn!NextRung
  <2> QED
    BY <2>1, <2>2 DEF Qn!Goto
<1>7. ASSUME NEW c \in QnCalls, Qn!CdpFilled(c) PROVE HomeInv'
  <2>1. UNCHANGED <<cur, moved, astray>> /\ qnPc[c] = "cdp filled"
    BY <1>7 DEF Qn!CdpFilled
  <2>2. Qn!Goto(c, "cdp press") \/ Qn!Goto(c, "dll")
    BY <1>7 DEF Qn!CdpFilled, Qn!NextRung
  <2> QED
    BY <2>1, <2>2 DEF Qn!Goto
<1>8. ASSUME NEW c \in QnCalls, Qn!CdpPress(c) PROVE HomeInv'
  <2>1. CASE Qn!Trusting(c) /\ Qn!Goto(c, "cdp sent")
    <3>1. astray' = {} /\ cur' = cur /\ moved' = moved \ {c}
      BY <1>8, <2>1 DEF Qn!CdpPress, Qn!Trusting
    <3> QED
      BY <2>1, <3>1 DEF Qn!Goto
  <2>2. CASE Qn!Return(c, "failed") /\ UNCHANGED <<moved, astray>>
    BY <1>8, <2>2 DEF Qn!CdpPress, Qn!Return
  <2> QED
    BY <1>8, <2>1, <2>2 DEF Qn!CdpPress
<1>9. ASSUME NEW c \in QnCalls, Qn!DllOpen(c) PROVE HomeInv'
  BY <1>9 DEF Qn!DllOpen, Qn!Goto, Qn!Show
<1>10. ASSUME NEW c \in QnCalls,
              Qn!CdpSent(c) \/ Qn!DllPost(c) \/ Qn!DllLog(c) \/ Qn!PasteGate(c) \/ Qn!Paste(c)
       PROVE  HomeInv'
  BY <1>10 DEF Qn!CdpSent, Qn!DllPost, Qn!DllLog, Qn!PasteGate, Qn!Paste, Qn!Return, Qn!Goto
<1>11. ASSUME NEW r \in asked, Qn!Answer(r) PROVE HomeInv'
  <2>1. /\ (\E b : Qn!Show(b)) \/ UNCHANGED <<cur, moved>>
        /\ UNCHANGED astray
    BY <1>11 DEF Qn!Answer, Qn!Run
  <2>2. \/ UNCHANGED qnPc
        \/ \E t, step : step \notin Qn!Acting /\ qnPc' = [qnPc EXCEPT ![t] = step]
    <3>1. ASSUME NEW t, NEW answer, Qn!Follow(t, answer) # None
          PROVE  Qn!Follow(t, answer) \notin Qn!Acting
      BY <3>1 DEF Qn!Follow
    <3>2. ASSUME NEW t, NEW answer, Qn!Heard(t, answer)
          PROVE  \E step : step \notin Qn!Acting /\ qnPc' = [qnPc EXCEPT ![t] = step]
      BY <3>2 DEF Qn!Heard, Qn!NextRung, Qn!Goto, Qn!After, Qn!Return
    <3> QED
      BY <1>11, <3>1, <3>2 DEF Qn!Answer, Qn!Goto
  <2>3. ASSUME NEW t, NEW step, step \notin Qn!Acting, qnPc' = [qnPc EXCEPT ![t] = step]
        PROVE  HomeInv'
    BY <2>1, <2>3, <1>a, <1>c
  <2> QED
    BY <2>1, <2>2, <2>3, <1>b, <1>d
<1>12. ASSUME NEW b, Qn!Person(b) PROVE HomeInv'
  BY <1>12, <1>b DEF Qn!Person
<1>13. CASE UNCHANGED qnVars
  BY <1>13, <1>d DEF qnVars
<1> QED
  BY <1>1, <1>2, <1>3, <1>4, <1>5, <1>6, <1>7, <1>8, <1>9, <1>10, <1>11, <1>12, <1>13
     DEF Qn!Next, Qn!Step

-----------------------------------------------------------------------------
\* The road not taken stands still.
LEMMA RoadStep ==
  [SendingNext]_sendingVars => [Next]_vars /\ [Qn!Next]_qnVars
BY DEF SendingNext, sendingVars, PddRoad, TaobaoRoad

\* "Never acknowledge an unverified send": a call of the Pinduoduo library that is
\* confirmed was done by the workbench, and by this call if nothing else says the same to
\* the same buyer.
THEOREM ConfirmedWasDone == SendingSpec => []ConfirmedIsDone
<1>1. SendingInit => PddInv
  BY PddInit DEF SendingInit
<1>2. PddInv /\ [SendingNext]_sendingVars => PddInv'
  BY PddStep, RoadStep
<1> QED
  BY <1>1, <1>2, Confirmed, PTL DEF SendingSpec

\* One line of the plugin's log confirms two calls only if one of them ran outside the
\* conversation's lock.
THEOREM ReceiptsApart == SendingSpec => []NoSharedReceipt
<1>1. SendingInit => PddInv
  BY PddInit DEF SendingInit
<1>2. PddInv /\ [SendingNext]_sendingVars => PddInv'
  BY PddStep, RoadStep
<1>3. PddInv => NoSharedReceipt
  BY DEF PddInv
<1> QED
  BY <1>1, <1>2, <1>3, PTL DEF SendingSpec

\* A text that the workbench took is never reported as failed, for which the center would
\* send it again.
THEOREM TakenNeverFails == SendingSpec => []TakenIsNotFailed
<1>1. SendingInit => PddInv
  BY PddInit DEF SendingInit
<1>2. PddInv /\ [SendingNext]_sendingVars => PddInv'
  BY PddStep, RoadStep
<1>3. PddInv => TakenIsNotFailed
  BY DEF PddInv
<1> QED
  BY <1>1, <1>2, <1>3, PTL DEF SendingSpec

\* A call of the Taobao ladder that pressed a key neither goes on to the native library
\* nor reports a failure, whatever answers are lost, late or another call's.
THEOREM PressedStays == SendingSpec => []PressedIsFinal
<1>1. SendingInit => PressInv
  BY PressInit DEF SendingInit
<1>2. PressInv /\ [SendingNext]_sendingVars => PressInv'
  BY PressStep, RoadStep
<1>3. PressInv => PressedIsFinal
  BY DEF PressInv, PressedIsFinal, Qn!PressedIsFinal
<1> QED
  BY <1>1, <1>2, <1>3, PTL DEF SendingSpec

\* Over the debugging port a call acts in its buyer's conversation, unless somebody
\* turned to another one between its check and the act.
THEOREM CdpStaysHome == SendingSpec => []CdpActsAtHome
<1>1. SendingInit => HomeInv
  BY HomeInit DEF SendingInit
<1>2. HomeInv /\ [SendingNext]_sendingVars => HomeInv'
  BY HomeStep, RoadStep
<1>3. HomeInv => CdpActsAtHome
  BY DEF HomeInv, CdpActsAtHome, Qn!CdpActsAtHome
<1> QED
  BY <1>1, <1>2, <1>3, PTL DEF SendingSpec
=============================================================================
