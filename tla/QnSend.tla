------------------------------- MODULE QnSend -------------------------------
(***************************************************************************)
(* Sending a text through the Taobao workbench (bridge/channel.py:         *)
(* send_text_qianniu and what it calls; bridge/openbot_ws.py).  A call     *)
(* works down a ladder: the WebSocket bridge inside the chat page, the     *)
(* page's debugging port, the native library's HTTP port, and, if allowed, *)
(* a paste into the window.  The threads of the sender pool run calls at   *)
(* the same time against one window.                                       *)
(*                                                                         *)
(* The bridge's socket carries no request ids: an answer goes to whoever   *)
(* has waited longest.  The page runs requests in any order, and may run   *)
(* one whose caller has given up.                                          *)
(*                                                                         *)
(* The window is outside this repository: one conversation is current, and *)
(* the text put into the input box is the draft of that conversation.      *)
(***************************************************************************)
EXTENDS Naturals, Sequences, FiniteSets

CONSTANTS
  Calls,   \* calls of send_text_qianniu
  Buyer,   \* [Calls -> buyers]: the conversation it is for
  Text,    \* [Calls -> texts]: the first 40 characters
  Presses, \* rounds of keys over the bridge (3)
  Tries,   \* ways a call names the buyer to the native library (5)
  MaxLate, \* bound of the model on requests whose caller has given up
  None     \* nothing readable, no result

Buyers == {Buyer[c] : c \in Calls}

\* What Sending assumes of the constants.
QnAssumption ==
  /\ DOMAIN Buyer = Calls /\ DOMAIN Text = Calls
  /\ Presses \in Nat /\ Tries \in Nat /\ MaxLate \in Nat
  /\ None \notin Buyers

VARIABLES
  pc,       \* where each call is
  asked,    \* requests the page has not run: <<call, what it asks>>
  pending,  \* _PENDING: the calls that wait for an answer, oldest first
  cur,      \* the current conversation
  draft,    \* the text in the input box of each conversation, by call
  tries,    \* rounds of keys, or posts to the native library, of each call
  native,   \* calls the native library has sent
  result,   \* what each call returned
  pressed,  \* history: calls that have pressed a key over the first two rungs
  moved,    \* history: calls about to act, the conversation having changed since they checked
  astray    \* history: calls that acted in another conversation all the same

window == <<cur, draft>>
bridge == <<asked, pending>>
library == <<tries, native>>
history == <<pressed, moved, astray>>
vars == <<pc, bridge, window, library, result, history>>

Init ==
  /\ pc = [c \in Calls |-> "start"]
  /\ asked = {} /\ pending = <<>>
  /\ cur \in Buyers /\ draft = [b \in Buyers |-> {}]
  /\ tries = [c \in Calls |-> 0] /\ native = {}
  /\ result = [c \in Calls |-> None]
  /\ pressed = {} /\ moved = {} /\ astray = {}

Goto(c, step) == pc' = [pc EXCEPT ![c] = step]

\* The call returns; "confirmed" stands for a success that the library's log vouches for.
Return(c, status) ==
  /\ pc' = [pc EXCEPT ![c] = "done"]
  /\ result' = [result EXCEPT ![c] = status]

\* Where a call has checked over the debugging port which conversation is current, and
\* is about to act on it.
Acting == {"cdp insert", "cdp filled", "cdp press"}

\* The conversation b comes to the front.
Show(b) ==
  /\ cur' = b
  /\ moved' = IF b = cur THEN moved ELSE moved \cup {c \in Calls : pc[c] \in Acting}

\* c acts on the current conversation, trusting its check.
Trusting(c) ==
  /\ astray' = IF cur = Buyer[c] \/ c \in moved THEN astray ELSE astray \cup {c}
  /\ moved' = moved \ {c}

\* A key or a click submits the draft of the current conversation, or misses.
Press(c) ==
  /\ draft' \in {draft, [draft EXCEPT ![cur] = {}]}
  /\ pressed' = pressed \cup {c}

Insert(c) == draft' \in {draft, [draft EXCEPT ![cur] = @ \cup {c}]}

-----------------------------------------------------------------------------
(* The WebSocket bridge.                                                   *)

Waiting == {"open", "nick", "insert", "insert?", "filled", "sent"}

\* _invoke_on_loop: c waits for an answer, the page is asked.
Asking(c, what) ==
  /\ Goto(c, what)
  /\ asked' = asked \cup {<<c, what>>}

\* What a call does after a round of keys, the box being empty or not.
After(c, cleared) ==
  IF cleared \/ tries[c] = Presses
  THEN Return(c, "accepted")
  ELSE Goto(c, "press") /\ UNCHANGED result

\* Failure on this rung: on to the native library.
NextRung(c) ==
  /\ Goto(c, "dll")
  /\ UNCHANGED result

\* A call begins: refused or a dry run, no nickname to be found, the page connected
\* to the bridge or not.
Begin(c) ==
  /\ pc[c] = "start"
  /\ \/ /\ Return(c, "refused")
        /\ UNCHANGED bridge
     \/ /\ Asking(c, "open") /\ pending' = Append(pending, c)
        /\ UNCHANGED result
     \/ \E rung \in {"cdp", "dll"} : Goto(c, rung) /\ UNCHANGED <<bridge, result>>
  /\ UNCHANGED <<window, library, history>>

\* What the page does for a request.
Run(c, what) ==
  \/ /\ what = "open"
     /\ \E b \in {cur, Buyer[c]} : Show(b)
     /\ UNCHANGED <<draft, pressed, astray>>
  \/ /\ what \in {"insert", "insert?"}
     /\ Insert(c)
     /\ UNCHANGED <<cur, history>>
  \/ /\ what \in {"nick", "filled", "sent"}
     /\ UNCHANGED <<window, history>>

\* What it answers: as far as the readers of answers can tell, the nickname of the
\* current buyer, whether the box is empty, or nothing of either.
Answers(what) ==
  {<<"other", None>>} \cup
    (IF what = "nick" THEN {<<"nick", cur>>}
     ELSE IF what \in {"filled", "sent"} THEN {<<"empty", draft[cur] = {}>>} ELSE {})

\* The request that follows an answer; an unreadable nickname is let pass.
Follow(t, answer) ==
  CASE pc[t] = "open" -> "nick"
    [] pc[t] = "nick" /\ answer[1] # "nick" -> "insert?"
    [] pc[t] = "nick" /\ answer = <<"nick", Buyer[t]>> -> "insert"
    [] pc[t] \in {"insert", "insert?"} -> "filled"
    [] OTHER -> None

\* Mutant of Heard: the page not saying that the box is empty ends the rung.
HeardStrictly(t, answer) ==
  \/ pc[t] = "nick" /\ NextRung(t)
  \/ /\ pc[t] = "filled"
     /\ IF answer = <<"empty", FALSE>> THEN Goto(t, "press") /\ UNCHANGED result
        ELSE NextRung(t)
  \/ /\ pc[t] = "sent"
     /\ IF answer[1] = "empty" THEN After(t, answer[2]) ELSE NextRung(t)

\* What call t makes of an answer that no request follows: another buyer is current,
\* or the box is empty or not.  An answer that says nothing of the box counts as empty,
\* and after a press as either.
Heard(t, answer) ==
  \/ pc[t] = "nick" /\ NextRung(t)
  \/ /\ pc[t] = "filled"
     /\ IF answer = <<"empty", FALSE>> THEN Goto(t, "press") /\ UNCHANGED result
        ELSE NextRung(t)
  \/ /\ pc[t] = "sent"
     /\ \E cleared \in IF answer[1] = "empty" THEN {answer[2]} ELSE BOOLEAN :
          After(t, cleared)

\* The page runs a request, and the call that has waited longest takes the answer.
Answer(r) ==
  /\ r \in asked
  /\ Run(r[1], r[2])
  /\ \E answer \in Answers(r[2]) :
       IF pending = <<>>
       THEN asked' = asked \ {r} /\ UNCHANGED <<pc, pending, result>>
       ELSE LET t == Head(pending) next == Follow(t, answer)
            IN IF next # None
               THEN /\ Goto(t, next)
                    /\ asked' = (asked \ {r}) \cup {<<t, next>>}
                    /\ pending' = Append(Tail(pending), t)
                    /\ UNCHANGED result
               ELSE /\ Heard(t, answer)
                    /\ asked' = asked \ {r}
                    /\ pending' = Tail(pending)
  /\ UNCHANGED library

\* Requests whose caller has given up.
Late == {r \in asked : pc[r[1]] # r[2]}

Forget(c) == SelectSeq(pending, LAMBDA d : d # c)

\* Mutant of TimeOut: the wait has no limit.
NoTimeOut(c) == FALSE

\* No answer in time, or the page has gone: an exception, which ends the rung or is
\* passed over.  The page may still run the request.
TimeOut(c) ==
  LET left == {asked \ {<<c, pc[c]>>}} \cup (IF Cardinality(Late) < MaxLate THEN {asked} ELSE {})
  IN /\ pc[c] \in Waiting
     /\ \/ /\ pc[c] = "nick"
           /\ Goto(c, "insert?") /\ pending' = Append(Forget(c), c)
           /\ \E a \in left : asked' = a \cup {<<c, "insert?">>}
           /\ UNCHANGED result
        \/ /\ pc[c] = "sent" /\ After(c, FALSE)
           /\ pending' = Forget(c) /\ asked' \in left
        \/ /\ pc[c] \notin {"nick", "sent"} /\ NextRung(c)
           /\ pending' = Forget(c) /\ asked' \in left
     /\ UNCHANGED <<window, library, history>>

\* Enter; then control-Enter and the button; then escape and both keys.
WsPress(c) ==
  /\ pc[c] = "press"
  /\ Press(c) /\ tries' = [tries EXCEPT ![c] = @ + 1]
  /\ Asking(c, "sent") /\ pending' = Append(pending, c)
  /\ UNCHANGED <<cur, native, result, moved, astray>>

-----------------------------------------------------------------------------
(* The debugging port.  Its answers carry the request's id.                *)

CdpOpen(c) ==
  /\ pc[c] = "cdp"
  /\ \/ NextRung(c) /\ UNCHANGED <<cur, moved>>
     \/ /\ Goto(c, "cdp check") /\ UNCHANGED result
        /\ \E b \in {cur, Buyer[c]} : Show(b)
  /\ UNCHANGED <<bridge, draft, library, pressed, astray>>

\* _cdp_wait_buyer_session: the nickname of c's buyer is read, or never in time.
Checked(c, step) ==
  \/ cur = Buyer[c] /\ Goto(c, step) /\ UNCHANGED result
  \/ NextRung(c)

CdpCheck(c) ==
  /\ pc[c] = "cdp check"
  /\ Checked(c, "cdp insert")
  /\ UNCHANGED <<bridge, window, library, history>>

CdpInsert(c) ==
  /\ pc[c] = "cdp insert"
  /\ Insert(c) /\ Trusting(c)
  /\ \/ NextRung(c)
     \/ Goto(c, "cdp check again") /\ UNCHANGED result
  /\ UNCHANGED <<bridge, cur, library, pressed>>

CdpCheckAgain(c) ==
  /\ pc[c] = "cdp check again"
  /\ Checked(c, "cdp filled")
  /\ UNCHANGED <<bridge, window, library, history>>

CdpFilled(c) ==
  /\ pc[c] = "cdp filled"
  /\ \/ draft[cur] # {} /\ Goto(c, "cdp press") /\ UNCHANGED result
     \/ NextRung(c)
  /\ UNCHANGED <<bridge, window, library, history>>

\* The button, or else Enter; neither could be tried, and the text stays in the box.
CdpPress(c) ==
  /\ pc[c] = "cdp press"
  /\ \/ Press(c) /\ Trusting(c) /\ Goto(c, "cdp sent") /\ UNCHANGED result
     \/ Return(c, "failed") /\ UNCHANGED <<draft, history>>
  /\ UNCHANGED <<bridge, cur, library>>

CdpSent(c) ==
  /\ pc[c] = "cdp sent"
  /\ Return(c, "accepted")
  /\ UNCHANGED <<bridge, window, library, history>>

-----------------------------------------------------------------------------
(* The native library, and the paste.                                      *)

\* The port is looked for; the library is asked to open the conversation.
DllOpen(c) ==
  /\ pc[c] = "dll"
  /\ tries' = [tries EXCEPT ![c] = 0]
  /\ \/ Goto(c, "paste?") /\ UNCHANGED <<cur, moved>>
     \/ Goto(c, "post") /\ \E b \in {cur, Buyer[c]} : Show(b)
  /\ UNCHANGED <<bridge, draft, native, result, pressed, astray>>

\* The text is posted for one more way to name the buyer: the library sends it or
\* not, and the post fails or not.
DllPost(c) ==
  /\ pc[c] = "post"
  /\ \/ /\ tries[c] = Tries /\ Goto(c, "paste?")
        /\ UNCHANGED <<tries, native>>
     \/ /\ tries[c] < Tries
        /\ tries' = [tries EXCEPT ![c] = @ + 1]
        /\ native' \in {native, native \cup {c}}
        /\ \E step \in {"post", "log"} : Goto(c, step)
  /\ UNCHANGED <<bridge, window, result, history>>

\* _qn_parse_send_result: a line of success with the text, recent or not, if the log
\* shows it yet.
Success(c) == \E d \in native : Text[d] = Text[c]

DllLog(c) ==
  /\ pc[c] = "log"
  /\ \/ Success(c) /\ Return(c, "confirmed")
     \/ Goto(c, "post") /\ UNCHANGED result
  /\ UNCHANGED <<bridge, window, library, history>>

\* The paste is not allowed, or the gate is closed; or the gate finds the buyer to be
\* current, by the port now or by the log some time ago.
PasteGate(c) ==
  /\ pc[c] = "paste?"
  /\ \/ Return(c, "failed")
     \/ Goto(c, "paste") /\ UNCHANGED result
  /\ UNCHANGED <<bridge, window, library, history>>

\* Select all, paste, Enter: the draft is replaced and submitted, or the keys miss.
\* Whatever comes of it the call is reported as failed.
Paste(c) ==
  /\ pc[c] = "paste"
  /\ draft' \in {draft, [draft EXCEPT ![cur] = {c}], [draft EXCEPT ![cur] = {}]}
  /\ Return(c, "failed")
  /\ UNCHANGED <<bridge, cur, library, history>>

-----------------------------------------------------------------------------
\* A person clicks on a conversation.
Person(b) ==
  /\ b # cur /\ Show(b)
  /\ UNCHANGED <<pc, bridge, draft, library, result, pressed, astray>>

Step(c) ==
  \/ Begin(c) \/ TimeOut(c) \/ WsPress(c)
  \/ CdpOpen(c) \/ CdpCheck(c) \/ CdpInsert(c) \/ CdpCheckAgain(c) \/ CdpFilled(c)
  \/ CdpPress(c) \/ CdpSent(c)
  \/ DllOpen(c) \/ DllPost(c) \/ DllLog(c) \/ PasteGate(c) \/ Paste(c)

Next ==
  \/ \E c \in Calls : Step(c)
  \/ \E r \in asked : Answer(r)
  \/ \E b \in Buyers : Person(b)

Spec == Init /\ [][Next]_vars

-----------------------------------------------------------------------------
(* Properties.                                                             *)

Steps == Waiting \cup Acting \cup
  {"start", "press", "cdp", "cdp check", "cdp check again", "cdp sent", "dll", "post",
   "log", "paste?", "paste", "done"}

TypeOK ==
  /\ pc \in [Calls -> Steps]
  /\ asked \subseteq Calls \X Waiting
  /\ pending \in Seq(Calls)
  /\ \A c \in Calls : pc[c] \in Waiting <=> \E i \in DOMAIN pending : pending[i] = c
  /\ cur \in Buyers /\ draft \in [Buyers -> SUBSET Calls]
  /\ tries \in [Calls -> 0..(Presses + Tries)]
  /\ native \subseteq Calls
  /\ \A c \in Calls : pc[c] = "done" <=> result[c] # None
  /\ pressed \subseteq Calls /\ moved \subseteq Calls
  /\ astray \subseteq Calls

\* Once a call has pressed a key it neither hands the text to the native library as
\* well nor reports a failure, for which the center would send again: not after a
\* lost or a foreign answer, a timeout, or a page that went away (channel.py, the
\* returns of send_text_qianniu after the openbot path).
PressedIsFinal ==
  \A c \in pressed :
    /\ pc[c] \notin {"dll", "post", "log", "paste?", "paste"}
    /\ result[c] # None => result[c] = "accepted"

\* Over the debugging port a text is put into the box, and submitted, in the
\* conversation of its buyer, unless somebody changes the conversation between the
\* check and the act ("anti-mix-up", send_text_qianniu_openbot).  The bridge cannot
\* promise the same: it may have heard another call's answer.
CdpActsAtHome == astray = {}

=============================================================================
