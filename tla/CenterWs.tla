------------------------------ MODULE CenterWs ------------------------------
(***************************************************************************)
(* The center's WebSocket for events (bridge/center_ws.py) under the       *)
(* upload threads of the agent (bridge/agent.py, _upload_batch): a batch   *)
(* is put on the socket's queue and its thread waits for the               *)
(* acknowledgements, which find it by the ids of its events; without a     *)
(* connection the batch goes by HTTP.  Frames, acknowledgements and the    *)
(* later results of an event are lost with the connection; frames still in *)
(* the queue go out on the next one, long after their batch gave up.       *)
(*                                                                         *)
(* What a batch does to the queue file and to copies of one message is in  *)
(* EventUplink.                                                            *)
(***************************************************************************)
EXTENDS Naturals, Sequences, FiniteSets, SequencesExt

CONSTANTS
  Events,     \* events to be uploaded
  Kinds,      \* what the events may be: [Events -> {"plain", "keyless", "big"}]
  Judged,     \* those whose result the center sends
  Uploaders,  \* threads of the upload pool
  None,       \* nobody
  BatchSize,
  MaxDrops, MaxTimeouts, MaxErrors \* bounds

\* What Uplink assumes of them.
WsAssumption ==
  /\ Kinds \subseteq [Events -> {"plain", "keyless", "big"}] /\ Judged \subseteq Events
  /\ None \notin Uploaders /\ BatchSize \in Nat \ {0}

VARIABLES
  kind,     \* [Events -> what it is]
  conn,     \* a session is established
  outbound, \* the socket's queue of frames
  wire,     \* frames under way to the center
  back,     \* frames under way from the center
  stored,   \* events in the center's table
  verdict,  \* [Events -> the last result of the center's consumer]
  owner,    \* _owner: [Events -> the uploader waiting for the acknowledgement]
  call,     \* [Uploaders -> what it does, its batch, the rows it got]
  pending,  \* events without a final answer
  results,  \* _results
  dead,     \* events with a line in the dead-letter file
  drops, timeouts, errors

link == <<kind, conn, outbound, wire, back>>
center == <<stored, verdict>>
bounds == <<drops, timeouts, errors>>
vars == <<link, center, owner, call, pending, results, dead, bounds>>

Keyless == {e \in Events : kind[e] = "keyless"} \* no account or buyer: refused
Big == {e \in Events : kind[e] = "big"}         \* over MAX_FRAME_BYTES

Idle == [pc |-> "idle", batch |-> {}, rows |-> {}]
InFlight == UNION {call[u].batch : u \in Uploaders}

Init ==
  /\ kind \in Kinds
  /\ conn \in BOOLEAN
  /\ outbound = <<>> /\ wire = <<>> /\ back = <<>>
  /\ stored = {} /\ verdict = [e \in Events |-> "none"]
  /\ owner = [e \in Events |-> None]
  /\ call = [u \in Uploaders |-> Idle]
  /\ pending = Events
  /\ results = <<>> /\ dead = {}
  /\ drops = 0 /\ timeouts = 0 /\ errors = 0

-----------------------------------------------------------------------------
(* The upload threads.                                                     *)

\* _flush_events chooses, and _upload_batch looks for a connection.
Take(u) ==
  /\ call[u].pc = "idle"
  /\ \E batch \in SUBSET (pending \ InFlight) :
       /\ Cardinality(batch) \in 1..BatchSize
       /\ call' = [call EXCEPT ![u] = [pc |-> IF conn THEN "try" ELSE "http",
                                       batch |-> batch, rows |-> {}]]
  /\ UNCHANGED <<link, center, owner, pending, results, dead, bounds>>

\* send_events up to its wait.  Without a connection, or with nothing that fits
\* into a frame, the batch goes by HTTP.
SendEvents(u) ==
  /\ call[u].pc = "try"
  /\ LET sent == call[u].batch \ Big
     IN IF conn /\ sent # {}
        THEN /\ \E frames \in SetToSeqs(sent) : outbound' = outbound \o frames
             /\ owner' = [e \in Events |-> IF e \in call[u].batch THEN u ELSE owner[e]]
             /\ call' = [call EXCEPT ![u].pc = "wait"]
        ELSE /\ call' = [call EXCEPT ![u].pc = "http"]
             /\ UNCHANGED <<outbound, owner>>
  /\ UNCHANGED <<kind, conn, wire, back, center, pending, results, dead, bounds>>

\* _flush_events with the rows: final answers leave the queue, refused ones go to
\* the dead-letter file.
Settle(u, rows) ==
  /\ pending' = pending \ {r.event : r \in {x \in rows : x.status # "retry"}}
  /\ dead' = dead \cup {r.event : r \in {x \in rows : x.status = "rejected"}}
  /\ call' = [call EXCEPT ![u] = Idle]

UnderWay(e) ==
  \/ e \in Range(outbound) \cup Range(wire)
  \/ \E frame \in Range(back) : frame.type = "ack" /\ frame.event = e

\* The rest of send_events: the rows are there, or the time is up.  A frame that was
\* too big, or was lost, has no row; the time that is too short for one under way
\* is bounded.
WaitEnds(u) ==
  /\ call[u].pc = "wait"
  /\ \/ ~(\E e \in call[u].batch : UnderWay(e)) /\ UNCHANGED timeouts
     \/ timeouts < MaxTimeouts /\ timeouts' = timeouts + 1
  /\ owner' = [e \in Events |-> IF e \in call[u].batch THEN None ELSE owner[e]]
  /\ Settle(u, call[u].rows)
  /\ UNCHANGED <<link, center, results, drops, errors>>

\* client.upload_events: the center keeps what has its keys; its answer may be lost.
UploadHttp(u) ==
  /\ call[u].pc = "http"
  /\ stored' = stored \cup (call[u].batch \ Keyless)
  /\ \/ /\ Settle(u, {[event |-> e, status |-> IF e \in Keyless THEN "rejected" ELSE "accepted"] :
                        e \in call[u].batch})
        /\ UNCHANGED errors
     \/ /\ errors < MaxErrors /\ errors' = errors + 1
        /\ call' = [call EXCEPT ![u] = Idle]
        /\ UNCHANGED <<pending, dead>>
  /\ UNCHANGED <<link, verdict, owner, results, drops, timeouts>>

-----------------------------------------------------------------------------
(* The socket's thread.                                                    *)

\* _run and _session: a handshake that ends in ready.
Connect ==
  /\ ~conn /\ conn' = TRUE
  /\ UNCHANGED <<kind, outbound, wire, back, center, owner, call, pending,
                 results, dead, bounds>>

\* The connection breaks: what is on it is lost, the queue stays.
Disconnect ==
  /\ conn /\ drops < MaxDrops
  /\ drops' = drops + 1
  /\ conn' = FALSE /\ wire' = <<>> /\ back' = <<>>
  /\ UNCHANGED <<kind, outbound, center, owner, call, pending, results, dead,
                 timeouts, errors>>

\* _sender
Send ==
  /\ conn /\ outbound # <<>>
  /\ wire' = Append(wire, Head(outbound))
  /\ outbound' = Tail(outbound)
  /\ UNCHANGED <<kind, conn, back, center, owner, call, pending, results, dead,
                 bounds>>

\* Mutant of Row: what the center could not store counts as stored.
RowOfAny(frame) == [event |-> frame.event,
  status |-> IF frame.event \in Keyless THEN "rejected" ELSE "accepted"]

\* ack_row_for: a refusal for lack of keys is final, any other is not.
Row(frame) == [event |-> frame.event,
  status |-> IF frame.status = "accepted" THEN "accepted"
             ELSE IF frame.event \in Keyless THEN "rejected" ELSE "retry"]

\* _on_ack: a row for the batch that waits for the event, if any does.
OnAck ==
  /\ conn /\ back # <<>> /\ Head(back).type = "ack"
  /\ LET frame == Head(back)
         u == owner[frame.event]
     IN call' = IF u = None THEN call
                ELSE IF \E r \in call[u].rows : r.event = frame.event THEN call
                ELSE [call EXCEPT ![u].rows = @ \cup {Row(frame)}]
  /\ back' = Tail(back)
  /\ UNCHANGED <<kind, conn, outbound, wire, center, owner, pending, results,
                 dead, bounds>>

\* _on_result
OnResult ==
  /\ conn /\ back # <<>> /\ Head(back).type = "result"
  /\ results' = Append(results, Head(back))
  /\ back' = Tail(back)
  /\ UNCHANGED <<kind, conn, outbound, wire, center, owner, call, pending, dead,
                 bounds>>

\* _drain_center_ws_results, one result: a rejected event goes to the dead-letter
\* file.
DrainResult ==
  /\ results # <<>>
  /\ LET r == Head(results) IN
       dead' = IF r.status = "rejected" THEN dead \cup {r.event} ELSE dead
  /\ results' = Tail(results)
  /\ UNCHANGED <<link, center, owner, call, pending, bounds>>

-----------------------------------------------------------------------------
(* The center.                                                             *)

\* It stores a frame's event, knows it already, or cannot store it.
CenterTakes ==
  /\ wire # <<>>
  /\ LET e == Head(wire)
         ack(s) == [type |-> "ack", event |-> e, status |-> s]
     IN \/ /\ e \notin Keyless
           /\ stored' = stored \cup {e}
           /\ back' = Append(back, ack("accepted"))
           /\ UNCHANGED errors
        \/ /\ \/ e \in Keyless /\ UNCHANGED errors
              \/ e \notin Keyless \cup stored /\ errors < MaxErrors /\ errors' = errors + 1
           /\ back' = Append(back, ack("rejected"))
           /\ UNCHANGED stored
  /\ wire' = Tail(wire)
  /\ UNCHANGED <<kind, conn, outbound, verdict, owner, call, pending, results,
                 dead, drops, timeouts>>

\* Its consumer works on a stored event, perhaps twice; a result is sent once, to
\* a connection there is.
CenterDecides(e, status) ==
  /\ e \in stored \cap Judged
  /\ verdict[e] = "none" \/ (verdict[e] = "retry" /\ status # "retry")
  /\ verdict' = [verdict EXCEPT ![e] = status]
  /\ back' = IF conn THEN Append(back, [type |-> "result", event |-> e, status |-> status])
             ELSE back
  /\ UNCHANGED <<kind, conn, outbound, wire, stored, owner, call, pending,
                 results, dead, bounds>>

Next ==
  \/ \E u \in Uploaders : Take(u) \/ SendEvents(u) \/ WaitEnds(u) \/ UploadHttp(u)
  \/ Connect \/ Disconnect \/ Send \/ OnAck \/ OnResult \/ DrainResult
  \/ CenterTakes
  \/ \E e \in Events : \E s \in {"processed", "rejected", "retry"} : CenterDecides(e, s)

Spec == Init /\ [][Next]_vars

\* The upload threads run, the socket's thread does and connects again, and the center
\* answers what it gets: steps that are taken as long as there is one to take.
Thread ==
  \/ \E u \in Uploaders : Take(u) \/ SendEvents(u) \/ WaitEnds(u) \/ UploadHttp(u)
  \/ Connect \/ Send \/ OnAck \/ OnResult \/ CenterTakes
-----------------------------------------------------------------------------
Rows == [event : Events, status : {"accepted", "rejected", "retry"}]

\* The type of every variable.
TypeOK ==
  /\ kind \in Kinds
  /\ conn \in BOOLEAN
  /\ outbound \in Seq(Events) /\ wire \in Seq(Events)
  /\ stored \subseteq Events
  /\ verdict \in [Events -> {"none", "processed", "rejected", "retry"}]
  /\ owner \in [Events -> Uploaders \cup {None}]
  /\ \A u \in Uploaders :
       /\ call[u].pc \in {"idle", "try", "wait", "http"}
       /\ call[u].batch \subseteq Events /\ call[u].rows \subseteq Rows
  /\ pending \subseteq Events
  /\ dead \subseteq Events

\* An acknowledgement reaches the batch that waits for it and no other: the map
\* names for each event the thread that waits for it now (_owner, _inflight_ids).
OwnerWaits ==
  \A e \in Events, u \in Uploaders :
    owner[e] = u <=> call[u].pc = "wait" /\ e \in call[u].batch

\* What leaves the queue is in the center's table or in the dead-letter file,
\* whatever was sent twice, lost or answered late ("accepted: safe to dequeue").
DequeuedIsKept ==
  \A e \in Events \ pending :
    e \in stored \cup dead
=============================================================================
