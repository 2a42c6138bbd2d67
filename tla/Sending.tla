------------------------------- MODULE Sending -------------------------------
(***************************************************************************)
(* Which road a text takes: an agent of the Pinduoduo platform, with the   *)
(* directory of the plugin's logs configured, sends through the native     *)
(* library (PddSend), one of the Taobao platform down the ladder of QnSend *)
(* (bridge/platforms).  Without that directory a Pinduoduo agent sends by  *)
(* the CDP source (SendReceipt).  An agent has one platform, so the states *)
(* are those of one road, the other one at rest.                           *)
(***************************************************************************)
EXTENDS PddSend, Sequences

CONSTANTS QnCalls, QnBuyer, QnText, Presses, Tries, MaxLate

VARIABLES
  platform, \* the platform of the agent: "pdd" or "taobao"
  qnPc, asked, pending, cur, draft, tries, native, qnResult, pressed, moved, astray

Qn == INSTANCE QnSend WITH
  Calls <- QnCalls, Buyer <- QnBuyer, Text <- QnText, pc <- qnPc, result <- qnResult

ASSUME SendingAssumption == Qn!QnAssumption

qnVars == <<qnPc, asked, pending, cur, draft, tries, native, qnResult, pressed, moved, astray>>
sendingVars == <<platform, vars, qnVars>>

\* PddPlatform.send_text, with the logs at hand to confirm by.
PddRoad == platform = "pdd" /\ UNCHANGED <<platform, qnVars>>

\* TaobaoPlatform.send_text.
TaobaoRoad == platform = "taobao" /\ UNCHANGED <<platform, vars>>

\* On the road not taken nothing is left open.
SendingInit ==
  /\ Init /\ Qn!Init
  /\ \/ platform = "pdd" /\ cur = CHOOSE b \in Qn!Buyers : TRUE
     \/ platform = "taobao" /\ unlocked = {}

SendingNext == (Next /\ PddRoad) \/ (Qn!Next /\ TaobaoRoad)

\* Some call or other goes on as long as one can: the threads run, and every wait has
\* its timeout.
ACallSteps ==
  \/ (\E c \in Calls : Step(c)) /\ PddRoad
  \/ (\E c \in QnCalls : Qn!Step(c)) /\ TaobaoRoad

SendingSpec == SendingInit /\ [][SendingNext]_sendingVars /\ WF_sendingVars(ACallSteps)

-----------------------------------------------------------------------------
(* Properties of the roads.                                                *)

\* Types, on both roads.
SendingTypeOK == TypeOK /\ Qn!TypeOK

\* See QnSend: a call that has pressed a key neither tries another rung nor reports a
\* failure.
PressedIsFinal == Qn!PressedIsFinal

\* See QnSend: over the debugging port a call acts in its buyer's conversation, unless
\* somebody turned to another one since it checked.
CdpActsAtHome == Qn!CdpActsAtHome

\* On either road every call comes to an end, whatever the logs, the page or the library
\* do not say.
EverySendEnds ==
  <>(IF platform = "pdd" THEN \A c \in Calls : pc[c] = "done"
     ELSE \A c \in QnCalls : qnPc[c] = "done")
=============================================================================
