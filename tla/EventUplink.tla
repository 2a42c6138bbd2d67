---------------------------- MODULE EventUplink ----------------------------
(***************************************************************************)
(* The event uplink of the bridge agent (bridge/agent.py): customer        *)
(* messages captured by two independent sources, the log watcher and the   *)
(* CDP page hook, meet in _on_local_event, are appended to a queue file    *)
(* and uploaded in batches by several threads until the center gives each  *)
(* of them a final answer.                                                 *)
(*                                                                         *)
(* Several events may be copies of one message.  Copies of a customer's    *)
(* message share the platform's message id; copies of an outgoing message  *)
(* share their text.  Both are weeded out before the queue.                *)
(*                                                                         *)
(* The center is outside this repository: its answers are choices of       *)
(* Respond and UploadFails.  A source keeps an event, and offers it again, *)
(* until its callback returns.                                             *)
(***************************************************************************)
EXTENDS Integers, Sequences, FiniteSets, SequencesExt

CONSTANTS
  Events,     \* event ids
  Message,    \* [Events -> messages]: which message an event is a copy of
  Outgoing,   \* events of the seller's side (role mall_cs)
  Anonymous,  \* incoming events without a platform message id
  Score,      \* [Events -> Nat]: how complete a copy of an outgoing message is
  Offers,     \* the sets of events the sources may have to report
  Deferred,   \* events the center may answer "retry" for as long as it likes
  Uploaders,  \* threads of the upload pool
  BatchSize,  \* events per upload (upload_batch_size)
  MaxFaults,  \* bound of the model on failing appends and restarts together
  None        \* no outgoing copy remembered

\* _ingest_identity: the platform's message id, which the copies of a customer's message share.
Messages == {Message[e] : e \in Events}

\* Copies of one message; those of an outgoing one are told by _same_sent_text.
Copies(e) == {d \in Events : Message[d] = Message[e]}

ASSUME UplinkAssumption ==
  /\ DOMAIN Message = Events
  /\ Score \in [Events -> Nat]
  /\ Outgoing \subseteq Events /\ Deferred \subseteq Events
  /\ Offers \subseteq SUBSET Events
  /\ Anonymous \subseteq Events \ Outgoing
  /\ BatchSize \in Nat \ {0}
  /\ MaxFaults \in Nat
  /\ None \notin Events

VARIABLES
  offered,   \* the events the sources have to report
  pending,   \* _pending: the events not yet answered, in upload order
  file,      \* events with a line in the queue file
  seen,      \* _ingest_seen: messages some source has already reported
  recent,    \* _recent_outgoing: the copy that stands for an outgoing message
  stale,     \* _outgoing_superseded: the file holds a superseded copy
  inflight,  \* _inflight_ids
  upload,    \* what each uploader is doing, and its batch
  center,    \* the center's final answer per event, if any
  returned,  \* history: events whose source was told they are taken care of
  errors, restarts

bounds == <<errors, restarts>>
vars == <<offered, pending, file, seen, recent, stale, inflight, upload, center,
          returned, bounds>>

Idle == [pc |-> "idle", batch |-> <<>>]

Init ==
  /\ offered \in Offers
  /\ pending = <<>> /\ file = {}
  /\ seen = {}
  /\ recent = [m \in Messages |-> None]
  /\ stale = FALSE
  /\ inflight = {}
  /\ upload = [u \in Uploaders |-> Idle]
  /\ center = [e \in Events |-> "none"]
  /\ returned = {}
  /\ errors = 0 /\ restarts = 0

-----------------------------------------------------------------------------
(* Capture: _on_local_event, under _pending_lock.                          *)

\* What s has of S, in its order: SelectSeq for a set, in a form that can be reasoned about.
Among(s, S) ==
  LET kept[n \in 0..Len(s)] ==
        IF n = 0 THEN <<>>
        ELSE IF s[n] \in S THEN Append(kept[n - 1], s[n]) ELSE kept[n - 1]
  IN kept[Len(s)]

Without(s, S) == Among(s, Range(s) \ S)

Return(e) == returned' = returned \cup {e}

\* Mutant of Enqueue: memory first, and a failed append only logged.
EnqueueUnsaved(e, queue) ==
  /\ pending' = Append(queue, e)
  /\ file' \in {file \cup {e}, file}
  /\ stale' = FALSE
  /\ Return(e)
  /\ UNCHANGED errors

\* Append to the file, then to memory; a superseded copy makes the file be
\* rewritten at once (a failing rewrite leaves it).  If the append fails the
\* exception reaches the source, which keeps the event.
Enqueue(e, queue) ==
  \/ /\ pending' = Append(queue, e)
     /\ \/ file' = file \cup {e}
        \/ (stale \/ queue # pending) /\ file' = Range(pending')
     /\ stale' = FALSE
     /\ Return(e)
     /\ UNCHANGED errors
  \/ /\ errors + restarts < MaxFaults
     /\ errors' = errors + 1
     /\ pending' = queue
     /\ stale' = (stale \/ queue # pending)
     /\ UNCHANGED <<file, returned>>

\* The event is queued already.
CaptureQueued(e) ==
  /\ e \in Range(pending)
  /\ Return(e)
  /\ UNCHANGED <<offered, pending, file, seen, recent, stale, inflight, upload,
                 center, bounds>>

\* _cross_source_duplicate: the message was reported within the window.
CaptureDuplicate(e) ==
  /\ e \notin Range(pending) /\ e \notin Outgoing \cup Anonymous
  /\ Message[e] \in seen
  /\ Return(e)
  /\ UNCHANGED <<offered, pending, file, seen, recent, stale, inflight, upload,
                 center, bounds>>

\* A message nobody reported yet: its id is registered before the append.
CaptureIncoming(e) ==
  /\ e \notin Range(pending) /\ e \notin Outgoing
  /\ \/ e \in Anonymous /\ UNCHANGED seen
     \/ e \notin Anonymous /\ Message[e] \notin seen /\ seen' = seen \cup {Message[e]}
  /\ Enqueue(e, pending)
  /\ UNCHANGED <<offered, recent, inflight, upload, center, restarts>>

\* A copy no better than the remembered one, or that one was uploaded already.
Redundant(e) ==
  LET known == recent[Message[e]]
  IN known # None /\ (Score[e] <= Score[known] \/ known \notin Range(pending))

\* _merge_outgoing_duplicate drops the copy.
CaptureEcho(e) ==
  /\ e \notin Range(pending) /\ e \in Outgoing /\ Redundant(e)
  /\ Return(e)
  /\ UNCHANGED <<offered, pending, file, seen, recent, stale, inflight, upload,
                 center, bounds>>

\* The first copy of an outgoing message, or a better one than the copy still
\* queued, which it replaces.
CaptureOutgoing(e) ==
  /\ e \notin Range(pending) /\ e \in Outgoing /\ ~Redundant(e)
  /\ recent' = [recent EXCEPT ![Message[e]] = e]
  /\ Enqueue(e, Without(pending, {recent[Message[e]]}))
  /\ UNCHANGED <<offered, seen, inflight, upload, center, restarts>>

\* The windows of the two memories pass.
ForgetIncoming(m) ==
  /\ m \in seen
  /\ seen' = seen \ {m}
  /\ UNCHANGED <<offered, pending, file, recent, stale, inflight, upload, center,
                 returned, bounds>>

ForgetOutgoing(m) ==
  /\ recent[m] # None
  /\ recent' = [recent EXCEPT ![m] = None]
  /\ UNCHANGED <<offered, pending, file, seen, stale, inflight, upload, center,
                 returned, bounds>>

-----------------------------------------------------------------------------
(* Upload: _flush_events, run by every uploader.                           *)

Prefix(s, n) == SubSeq(s, 1, Min({Len(s), n}))

\* Live events go first; part of each batch is kept for the aged ones.
Batch(ready, old) ==
  LET live == Among(pending, ready \ old)
      aged == Among(pending, ready \cap old)
      quota == Min({Len(live), Max({1, (BatchSize * 4) \div 5})})
  IN IF aged = <<>> THEN Prefix(live, BatchSize)
     ELSE Prefix(live, quota) \o Prefix(aged, Max({1, BatchSize - quota}))

\* Choose a batch and mark it in flight.  old events are more than 90 seconds old
\* or were loaded from the file; held ones wait for their order context, or for
\* their time as history.
Flush(u, old, held) ==
  /\ upload[u].pc = "idle"
  /\ LET batch == Batch(Range(pending) \ (inflight \cup held), old)
     IN /\ batch # <<>>
        /\ upload' = [upload EXCEPT ![u] = [pc |-> "call", batch |-> batch]]
        /\ inflight' = inflight \cup Range(batch)
  /\ UNCHANGED <<offered, pending, file, seen, recent, stale, center, returned, bounds>>

\* Answers the center may give: a final one never changes.
Answers(e) ==
  {"retry"} \cup IF center[e] = "none" THEN {"accepted", "refused"} ELSE {center[e]}

Recorded(e, answer) == IF answer = "retry" THEN center[e] ELSE answer

\* _ingest_release: refused events give their message ids back, those that have one.
GiveBack(refused) ==
  seen' = seen \ {Message[e] : e \in refused \ (Outgoing \cup Anonymous)}

\* Mutant of Respond: unanswered events stay at the head of the queue.
RespondInPlace(u, answer) ==
  LET batch == Range(upload[u].batch)
      final == {e \in batch : answer[e] # "retry"}
  IN /\ upload[u].pc = "call"
     /\ \A e \in batch : answer[e] \in Answers(e)
     /\ center' = [e \in Events |-> IF e \in batch THEN Recorded(e, answer[e]) ELSE center[e]]
     /\ pending' = Without(pending, final)
     /\ GiveBack({e \in final : answer[e] = "refused"})
     /\ upload' = [upload EXCEPT ![u].pc = "rewrite"]
     /\ UNCHANGED <<offered, file, recent, stale, inflight, returned, bounds>>

\* The response arrives: events with a final answer leave the queue, a refused
\* one gives its message id back, the others of the batch go to the tail.
Respond(u, answer) ==
  LET batch == Range(upload[u].batch)
      final == {e \in batch : answer[e] # "retry"}
  IN /\ upload[u].pc = "call"
     /\ \A e \in batch : answer[e] \in Answers(e)
     /\ center' = [e \in Events |-> IF e \in batch THEN Recorded(e, answer[e]) ELSE center[e]]
     /\ pending' = Without(pending, batch) \o Among(pending, batch \ final)
     /\ GiveBack({e \in final : answer[e] = "refused"})
     /\ upload' = [upload EXCEPT ![u].pc = "rewrite"]
     /\ UNCHANGED <<offered, file, recent, stale, inflight, returned, bounds>>

\* Mutant of RewriteQueue: the batch is what is written out of the file.
RewriteWithoutBatch(u) ==
  /\ upload[u].pc = "rewrite"
  /\ file' \in {file \ Range(upload[u].batch), file}
  /\ upload' = [upload EXCEPT ![u].pc = "release"]
  /\ UNCHANGED <<offered, pending, seen, recent, stale, inflight, center, returned,
                 bounds>>

\* _rewrite_local_queue: the file becomes what is queued now, or stays.
RewriteQueue(u) ==
  /\ upload[u].pc = "rewrite"
  /\ file' \in {Range(pending), file}
  /\ upload' = [upload EXCEPT ![u].pc = "release"]
  /\ UNCHANGED <<offered, pending, seen, recent, stale, inflight, center, returned,
                 bounds>>

\* BridgeClientError: the center may have recorded part of the batch.
UploadFails(u, answer) ==
  LET batch == Range(upload[u].batch)
  IN /\ upload[u].pc = "call"
     /\ \A e \in batch : answer[e] \in Answers(e)
     /\ center' = [e \in Events |-> IF e \in batch THEN Recorded(e, answer[e]) ELSE center[e]]
     /\ upload' = [upload EXCEPT ![u].pc = "release"]
     /\ UNCHANGED <<offered, pending, file, seen, recent, stale, inflight, returned,
                    bounds>>

\* finally: the batch is no longer in flight.
EndUpload(u) ==
  /\ upload[u].pc = "release"
  /\ inflight' = inflight \ Range(upload[u].batch)
  /\ upload' = [upload EXCEPT ![u] = Idle]
  /\ UNCHANGED <<offered, pending, file, seen, recent, stale, center, returned,
                 bounds>>

-----------------------------------------------------------------------------
\* A crash, and _load_local_queue: the events of the file come back, in an order the
\* model leaves open.  Lines repeated for one event count once: they are in flight,
\* and answered, together.
Restart ==
  /\ errors + restarts < MaxFaults
  /\ restarts' = restarts + 1
  /\ pending' \in SetToSeqs(file)
  /\ seen' = {} /\ recent' = [m \in Messages |-> None] /\ stale' = FALSE
  /\ inflight' = {} /\ upload' = [u \in Uploaders |-> Idle]
  /\ UNCHANGED <<offered, file, center, returned, errors>>

Capture(e) ==
  \/ CaptureQueued(e) \/ CaptureDuplicate(e) \/ CaptureIncoming(e)
  \/ CaptureEcho(e) \/ CaptureOutgoing(e)

Verdicts(u) == [Range(upload[u].batch) -> {"accepted", "refused", "retry"}]

Upload(u) ==
  \/ \E old, held \in SUBSET Range(pending) : Flush(u, old, held)
  \/ \E answer \in Verdicts(u) : Respond(u, answer) \/ UploadFails(u, answer)
  \/ RewriteQueue(u) \/ EndUpload(u)

Next ==
  \/ \E e \in offered : Capture(e)
  \/ \E m \in Messages : ForgetIncoming(m) \/ ForgetOutgoing(m)
  \/ \E u \in Uploaders : Upload(u)
  \/ Restart

Spec == Init /\ [][Next]_vars

-----------------------------------------------------------------------------
(* Properties.                                                             *)

\* Types: ids and messages only, and only outgoing copies in _recent_outgoing.
TypeOK ==
  /\ offered \in Offers
  /\ pending \in Seq(Events) /\ file \subseteq Events
  /\ seen \subseteq Messages
  /\ recent \in [Messages -> Outgoing \cup {None}]
  /\ stale \in BOOLEAN
  /\ inflight \subseteq Events
  /\ upload \in [Uploaders -> [pc : {"idle", "call", "rewrite", "release"},
                               batch : Seq(Events)]]
  /\ center \in [Events -> {"none", "accepted", "refused"}]
  /\ returned \subseteq Events
  /\ errors \in 0..MaxFaults /\ restarts \in 0..MaxFaults

\* Concurrent uploads never carry the same event ("_inflight_ids").
NoOverlap ==
  \A u, v \in Uploaders :
    u # v => Range(upload[u].batch) \cap Range(upload[v].batch) = {}

\* A crash forgets nothing: whatever is queued in memory is on file, also when an
\* append or a rewrite failed ("at worst a restart uploads twice").
QueuedIsOnFile == Range(pending) \subseteq file

\* The source of a message may forget it only when some copy of the message is on
\* file or has the center's answer ("a failing callback must keep the event").  Once an
\* append has failed this is not so: the id is registered before the append, and the copy
\* offered again is then a duplicate of nothing.
Accounted ==
  errors = 0 => \A e \in returned :
    \E d \in Copies(e) : d \in file \/ center[d] # "none"

-----------------------------------------------------------------------------
(* What Uplink states the liveness of the uploads with.                    *)

\* The response to a batch with e in it; only a deferred event may be put off.
Answered(u, e) ==
  \E answer \in Verdicts(u) :
    /\ e \in DOMAIN answer /\ (answer[e] = "retry" => e \in Deferred)
    /\ Respond(u, answer)

\* The upload threads wake up for ever and finish what they began, no event is held back
\* for ever, and an event uploaded again and again finally gets its answer.
Chosen == \E u \in Uploaders : \E old \in SUBSET Range(pending) : Flush(u, old, {})
Finished(u) ==
  \/ \E answer \in Verdicts(u) : Respond(u, answer) \/ UploadFails(u, answer)
  \/ RewriteQueue(u) \/ EndUpload(u)

Unanswered == {e \in Range(pending) \ Deferred : center[e] = "none"}
=============================================================================
