-------------------------------- MODULE Uplink --------------------------------
(***************************************************************************)
(* How queued events reach the center (bridge/agent.py, _upload_batch): by *)
(* HTTP, with the queue file, copies of one message and restarts           *)
(* (EventUplink), or, with center_ws_enabled, over the center's WebSocket  *)
(* first (CenterWs).  An agent is configured once, so the states are those *)
(* of one of the two, the other one at rest.                               *)
(***************************************************************************)
EXTENDS EventUplink

CONSTANTS WsEvents, WsKinds, Judged, WsUploaders, MaxDrops, MaxTimeouts, MaxWsErrors

VARIABLES
  road,  \* "http" or "socket": center_ws_enabled
  kind, conn, outbound, wire, back, stored, verdict, owner, call, waiting,
  results, dead, drops, timeouts, wsErrors

Ws == INSTANCE CenterWs WITH
  Events <- WsEvents, Kinds <- WsKinds, Uploaders <- WsUploaders, MaxErrors <- MaxWsErrors,
  pending <- waiting, errors <- wsErrors

ASSUME WsAssumption == Ws!WsAssumption

wsVars == <<kind, conn, outbound, wire, back, stored, verdict, owner, call, waiting,
            results, dead, drops, timeouts, wsErrors>>
uplinkVars == <<road, vars, wsVars>>

HttpRoad == road = "http" /\ UNCHANGED <<road, wsVars>>
SocketRoad == road = "socket" /\ UNCHANGED <<road, vars>>

\* On the road not taken nothing is left open.
UplinkInit ==
  /\ Init /\ Ws!Init
  /\ \/ road = "http" /\ ~conn /\ kind = CHOOSE k \in WsKinds : TRUE
     \/ road = "socket" /\ offered = CHOOSE S \in Offers : TRUE

UplinkNext == (Next /\ HttpRoad) \/ (Ws!Next /\ SocketRoad)

\* The threads wake up for ever and finish what they began, no event is held back for
\* ever, and one uploaded again and again finally gets its answer.
UplinkFairness ==
  /\ \A u \in Uploaders : WF_uplinkVars(Finished(u) /\ HttpRoad)
  /\ SF_uplinkVars(Chosen /\ HttpRoad)
  /\ \A e \in Events : SF_uplinkVars((\E u \in Uploaders : Answered(u, e)) /\ HttpRoad)
  /\ WF_uplinkVars(Ws!Thread /\ SocketRoad)

UplinkSpec == UplinkInit /\ [][UplinkNext]_uplinkVars /\ UplinkFairness

-----------------------------------------------------------------------------
\* Types, on both roads.
UplinkTypeOK == TypeOK /\ Ws!TypeOK

\* See CenterWs: an acknowledgement reaches the batch that waits for it and no other.
OwnerWaits == Ws!OwnerWaits

\* See CenterWs: what leaves the queue is in the center's table or in the dead-letter file.
DequeuedIsKept == Ws!DequeuedIsKept

\* Every queued event gets its final answer: by HTTP even if the center defers others for
\* ever (or a better copy replaces it), over the socket whatever breaks or comes too late.
AllAnswered == []<>(IF road = "http" THEN Unanswered = {} ELSE waiting = {})
=============================================================================
