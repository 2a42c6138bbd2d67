---------------------------- MODULE LocalFirst ----------------------------
(***************************************************************************)
(* The local-first layer of run_pdd_client.py.  Each captured customer     *)
(* message goes to two places: to the seat gateway on this machine through *)
(* the durable LocalDeliveryQueue, and to the center's queue of the agent. *)
(* Before the center gets it, a pool of workers asks the shop's page for   *)
(* the order context: a shop outside immediate ingress holds the message   *)
(* back for at most the gate's seconds; a shop inside it uploads at once   *)
(* and sends the context later as an update event of its own.              *)
(*                                                                         *)
(* The gateway, the page and the center answer as they like.  How the      *)
(* agent uploads a batch is EventUplink; here it is one upload in flight.  *)
(***************************************************************************)
EXTENDS Naturals, FiniteSets

CONSTANTS
  Sources,    \* capture threads: log watcher, page hook
  Events,     \* customer messages that need order context, by event id
  Workers,    \* order-context workers
  MaxErrors,  \* bound of the model on failing appends
  MaxRestarts \* bound of the model on process restarts

ASSUME LocalFirstAssumption ==
  /\ Sources # {} /\ Workers # {}
  /\ "restart" \notin Sources
  /\ MaxErrors \in Nat /\ MaxRestarts \in Nat

Message(e) == <<e, "message">>
Update(e) == <<e, "update">>     \* its id is derived from the message's
Item == Events \X {"message", "update"}
Body == {"plain", "context", "failed"}

VARIABLES
  immediate, \* messages of shops with immediate ingress, by configuration
  src,      \* what each capture thread does in on_local_event, with which event
  offered,  \* <<s, e>>: source s has handed e over
  local,    \* LocalDeliveryQueue: [queue |-> pending, file |-> its file]
  post,     \* the batch the delivery thread has posted, {} between posts
  gateway,  \* items the gateway has committed
  center,   \* the agent's queue: items, and what is known of each message's context
  disk,     \* the agent's queue file, same shape
  seen,     \* _ingest_seen of the agent
  gated,    \* _pdd_context_pending_ids
  clock,    \* _pdd_context_deadlines: no entry, still ahead, or past
  jobs,     \* _pdd_context_queue: lookups asked for, by <<asker, event>>
  worker,   \* what each context worker does
  flush,    \* the uploader: its blocked ids and the batch in flight
  accepted, \* history: items the center has taken
  late,     \* history: events whose gate time has passed since capture
  hasty,    \* history: events given up as too late before that
  errors, restarts

localVars == <<local, post, gateway>>
centerVars == <<center, disk, seen, flush, accepted>>
gateVars == <<gated, clock, jobs, worker, late, hasty>>
bounds == <<errors, restarts>>
vars == <<immediate, src, offered, localVars, centerVars, gateVars, bounds>>

Free == [pc |-> "idle", e |-> "none"]
Resting == [pc |-> "idle", job |-> <<>>, due |-> "none", ok |-> FALSE, found |-> FALSE]
Away == [pc |-> "idle", blocked |-> {}, batch |-> {}]

Init ==
  /\ immediate \in SUBSET Events
  /\ src = [s \in Sources |-> Free] /\ offered = {}
  /\ local = [queue |-> {}, file |-> {}] /\ post = {} /\ gateway = {}
  /\ center = [queue |-> {}, body |-> [e \in Events |-> "plain"]]
  /\ disk = center /\ seen = {}
  /\ gated = {} /\ clock = [e \in Events |-> "none"]
  /\ jobs = {} /\ worker = [w \in Workers |-> Resting]
  /\ flush = Away /\ accepted = {}
  /\ late = {} /\ hasty = {}
  /\ errors = 0 /\ restarts = 0

-----------------------------------------------------------------------------
(* LocalDeliveryQueue: from the bridge to the gateway.                     *)

\* enqueue: append to the file, then to memory, unless it waits already.
LocalEnqueue(item) ==
  local' = IF item \in local.queue THEN local
           ELSE [queue |-> local.queue \cup {item}, file |-> local.file \cup {item}]

\* The delivery thread takes what waits and posts it.
Post ==
  /\ post = {} /\ local.queue # {}
  /\ post' = local.queue
  /\ UNCHANGED <<immediate, src, offered, local, gateway, centerVars, gateVars, bounds>>

\* Mutant of Committed: the posted batch is done with once it is answered.
CommittedAll(done) == local.queue \ post

\* What is left of the queue once the gateway has committed some of the batch.
Committed(done) == local.queue \ done

\* The gateway acknowledges part of the batch; the rest stays, and the file is
\* rewritten from memory (a rewrite that fails leaves the file as it was).
Posted ==
  /\ post # {}
  /\ \E done \in SUBSET post \ {{}} :
       /\ gateway' = gateway \cup done
       /\ \E file \in {Committed(done), local.file} :
            local' = [queue |-> Committed(done), file |-> file]
  /\ post' = {}
  /\ UNCHANGED <<immediate, src, offered, centerVars, gateVars, bounds>>

\* A timeout, an error or an empty acknowledgement, after which the batch is
\* posted again; the gateway may have committed some of it all the same.
PostFails ==
  /\ post # {}
  /\ \E done \in SUBSET post : gateway' = gateway \cup done
  /\ post' = {}
  /\ UNCHANGED <<immediate, src, offered, local, centerVars, gateVars, bounds>>

-----------------------------------------------------------------------------
(* on_local_event, by a capture thread.                                    *)

\* immediate_ingress_enabled: switches and lists of the configuration.
AtOnce(e) == e \in immediate

Goto(s, pc) == src' = [src EXCEPT ![s].pc = pc]
Leave(s) == src' = [src EXCEPT ![s] = Free]

\* The message is queued for the gateway.  A failing append reaches the
\* source, which will hand the message over again.
Capture(s, e) ==
  /\ src[s].pc = "idle" /\ <<s, e>> \notin offered
  /\ \/ /\ LocalEnqueue(Message(e))
        /\ src' = [src EXCEPT ![s] = [pc |-> "gate", e |-> e]]
        /\ offered' = offered \cup {<<s, e>>}
        /\ UNCHANGED errors
     \/ /\ errors < MaxErrors /\ errors' = errors + 1
        /\ Message(e) \notin local.queue
        /\ UNCHANGED <<local, src, offered>>
  /\ UNCHANGED <<immediate, post, gateway, centerVars, gateVars, restarts>>

\* The gate is closed for the message, unless it is already or its shop
\* uploads at once: then the gate and its deadline are removed.
CloseGate(s) ==
  LET e == src[s].e IN
  /\ src[s].pc = "gate"
  /\ \/ /\ AtOnce(e)
        /\ gated' = gated \ {e} /\ clock' = [clock EXCEPT ![e] = "none"]
        /\ Goto(s, "queue")
     \/ /\ ~ AtOnce(e) /\ e \notin gated
        /\ gated' = gated \cup {e} /\ clock' = [clock EXCEPT ![e] = "ahead"]
        /\ Goto(s, "queue")
     \/ /\ ~ AtOnce(e) /\ e \in gated
        /\ Goto(s, "queue only")      \* somebody asks for its context already
        /\ UNCHANGED <<gated, clock>>
  /\ UNCHANGED <<immediate, offered, localVars, centerVars, jobs, worker, late, hasty, bounds>>

\* original_on_local_event: a message reported before is not queued again; a
\* failing append leaves the gate closed and reaches the source.
QueueForCenter(s) ==
  LET e == src[s].e IN
  /\ src[s].pc \in {"queue", "queue only"}
  /\ \/ /\ \/ e \in seen /\ UNCHANGED <<center, disk>>
           \/ /\ e \notin seen
              /\ center' = [center EXCEPT !.queue = @ \cup {Message(e)}, !.body[e] = "plain"]
              /\ disk' = [disk EXCEPT !.queue = @ \cup {Message(e)}, !.body[e] = "plain"]
        /\ seen' = seen \cup {e}
        /\ IF src[s].pc = "queue" THEN Goto(s, "ask") ELSE Leave(s)
        /\ UNCHANGED <<offered, errors>>
     \/ /\ e \notin seen /\ errors < MaxErrors
        /\ errors' = errors + 1
        /\ offered' = offered \ {<<s, e>>}
        /\ Leave(s)
        /\ UNCHANGED <<center, disk, seen>>
  /\ UNCHANGED <<immediate, localVars, flush, accepted, gateVars, restarts>>

\* The lookup is queued, after the message itself.
Ask(s) ==
  /\ src[s].pc = "ask"
  /\ jobs' = jobs \cup {<<s, src[s].e>>}
  /\ Leave(s)
  /\ UNCHANGED <<immediate, offered, localVars, centerVars, gated, clock, worker, late, hasty, bounds>>

-----------------------------------------------------------------------------
(* The context workers.                                                    *)

Turn(w, r) == worker' = [worker EXCEPT ![w] = r]

\* replace_pending_event: the queued message gets another body, if it waits.
Replace(e, body) ==
  center' = IF Message(e) \in center.queue THEN [center EXCEPT !.body[e] = body]
            ELSE center

\* A job is taken.  Without a deadline ahead of it, it is given up unasked.
Take(w) ==
  /\ worker[w].pc = "idle"
  /\ \E j \in jobs :
       /\ jobs' = jobs \ {j}
       /\ \/ /\ clock[j[2]] = "ahead"
             /\ Turn(w, [Resting EXCEPT !.pc = "look up", !.job = j, !.due = "ahead"])
             /\ UNCHANGED <<center, hasty>>
          \/ /\ clock[j[2]] # "ahead"
             /\ Replace(j[2], "failed")
             /\ hasty' = IF j[2] \in late THEN hasty ELSE hasty \cup {j[2]}
             /\ Turn(w, [Resting EXCEPT !.pc = "release", !.job = j])
  /\ UNCHANGED <<immediate, src, offered, localVars, disk, seen, flush, accepted, gated,
                 clock, late, bounds>>

\* The page answers, or does not; an answer after the deadline is a failure.
LookUp(w) ==
  /\ worker[w].pc = "look up"
  /\ \E ok \in BOOLEAN :
       Turn(w, [worker[w] EXCEPT !.pc = "merge", !.ok = ok /\ worker[w].due = "ahead"])
  /\ UNCHANGED <<immediate, src, offered, localVars, centerVars, gated, clock, jobs, late, hasty, bounds>>

\* What was found goes into the queued message.
Merge(w) ==
  LET e == worker[w].job[2] IN
  /\ worker[w].pc = "merge"
  /\ Replace(e, IF worker[w].ok THEN "context" ELSE "failed")
  /\ Turn(w, [worker[w] EXCEPT !.pc = "tell gateway",
                               !.found = Message(e) \in center.queue])
  /\ UNCHANGED <<immediate, src, offered, localVars, disk, seen, flush, accepted, gated,
                 clock, jobs, late, hasty, bounds>>

\* If the message still waited the gateway gets an update.  A failing append
\* makes the queued message count as failed.
TellGateway(w) ==
  LET e == worker[w].job[2] IN
  /\ worker[w].pc = "tell gateway"
  /\ \/ /\ IF worker[w].found THEN LocalEnqueue(Update(e)) ELSE UNCHANGED local
        /\ Turn(w, [worker[w] EXCEPT !.pc = IF AtOnce(e) THEN "tell center"
                                            ELSE "release"])
        /\ UNCHANGED <<center, errors>>
     \/ /\ worker[w].found /\ Update(e) \notin local.queue
        /\ errors < MaxErrors /\ errors' = errors + 1
        /\ Replace(e, "failed")
        /\ Turn(w, [worker[w] EXCEPT !.pc = "release"])
        /\ UNCHANGED local
  /\ UNCHANGED <<immediate, src, offered, post, gateway, disk, seen, flush, accepted, gated,
                 clock, jobs, late, hasty, restarts>>

\* enqueue_center_event: the update joins the center's queue and its file.
TellCenter(w) ==
  LET item == Update(worker[w].job[2]) IN
  /\ worker[w].pc = "tell center"
  /\ \/ /\ item \notin center.queue
        /\ center' = [center EXCEPT !.queue = @ \cup {item}]
        /\ disk' = [disk EXCEPT !.queue = @ \cup {item}]
        /\ UNCHANGED errors
     \/ item \in center.queue /\ UNCHANGED <<center, disk, errors>>
     \/ /\ item \notin center.queue /\ errors < MaxErrors
        /\ errors' = errors + 1
        /\ UNCHANGED <<center, disk>>
  /\ Turn(w, [worker[w] EXCEPT !.pc = "release"])
  /\ UNCHANGED <<immediate, src, offered, localVars, seen, flush, accepted, gated, clock,
                 jobs, late, hasty, restarts>>

\* The finally clause: the gate opens.
Release(w) ==
  LET e == worker[w].job[2] IN
  /\ worker[w].pc = "release"
  /\ gated' = gated \ {e} /\ clock' = [clock EXCEPT ![e] = "none"]
  /\ Turn(w, Resting)
  /\ UNCHANGED <<immediate, src, offered, localVars, centerVars, jobs, late, hasty, bounds>>

\* The gate's seconds pass for e.
Tick(e) ==
  /\ clock[e] = "ahead" \/ \E w \in Workers : worker[w].due = "ahead" /\ worker[w].job[2] = e
  /\ late' = late \cup {e}
  /\ clock' = [clock EXCEPT ![e] = IF @ = "ahead" THEN "past" ELSE @]
  /\ worker' = [w \in Workers |->
       IF worker[w].due = "ahead" /\ worker[w].job[2] = e
       THEN [worker[w] EXCEPT !.due = "past"] ELSE worker[w]]
  /\ UNCHANGED <<immediate, src, offered, localVars, centerVars, gated, jobs, hasty, bounds>>

-----------------------------------------------------------------------------
(* flush_events, by the upload thread.                                     *)

\* Mutant of Blocked: the gate has no deadline.
BlockedWhileGated(ids) == ids

\* Messages whose context is being looked up and may still come in time.
Blocked(ids) == {e \in ids : clock[e] = "ahead"}

\* What waits is noted before the gate's lock is taken.
FlushLook ==
  /\ flush.pc = "idle" /\ center.queue # {}
  /\ flush' = [Away EXCEPT !.pc = "gate", !.batch = center.queue]
  /\ UNCHANGED <<immediate, src, offered, localVars, center, disk, seen, accepted,
                 gateVars, bounds>>

\* The gate forgets events that did not wait then, and tells who is held back.
FlushGate ==
  LET waiting == {e \in gated : Message(e) \in flush.batch} IN
  /\ flush.pc = "gate"
  /\ gated' = waiting
  /\ flush' = [Away EXCEPT !.pc = "mark", !.blocked = Blocked(waiting)]
  /\ UNCHANGED <<immediate, src, offered, localVars, center, disk, seen, accepted, clock,
                 jobs, worker, late, hasty, bounds>>

\* Messages of the gate that are not held back any more count as failed.
FlushMark ==
  /\ flush.pc = "mark"
  /\ center' = [center EXCEPT !.body = [e \in Events |->
       IF Message(e) \in center.queue /\ e \in gated \ flush.blocked
       THEN "failed" ELSE @[e]]]
  /\ flush' = [flush EXCEPT !.pc = "send"]
  /\ UNCHANGED <<immediate, src, offered, localVars, disk, seen, accepted, gateVars, bounds>>

\* Everything that is not held back is uploaded.
FlushSend ==
  LET batch == {i \in center.queue : i[2] = "update" \/ i[1] \notin flush.blocked} IN
  /\ flush.pc = "send"
  /\ flush' = IF batch = {} THEN Away ELSE [flush EXCEPT !.pc = "sent", !.batch = batch]
  /\ UNCHANGED <<immediate, src, offered, localVars, center, disk, seen, accepted, gateVars, bounds>>

\* The center's final answers remove items, and the file is compacted.
FlushDone ==
  /\ flush.pc = "sent"
  /\ \E done \in SUBSET flush.batch :
       /\ accepted' = accepted \cup done
       /\ center' = [center EXCEPT !.queue = @ \ done]
       /\ disk' = IF done = {} THEN disk ELSE center'
  /\ flush' = Away
  /\ UNCHANGED <<immediate, src, offered, localVars, seen, gateVars, bounds>>

-----------------------------------------------------------------------------
\* Queued messages without context, to be gated and looked up after a restart.
Recovered == {e \in Events : Message(e) \in disk.queue /\ disk.body[e] = "plain"}

\* The process ends at any point and starts again: both queues are loaded from
\* their files.
Restart ==
  /\ restarts < MaxRestarts /\ restarts' = restarts + 1
  /\ offered' = {o \in offered : ~ (src[o[1]].pc # "idle" /\ src[o[1]].e = o[2])}
  /\ src' = [s \in Sources |-> Free]
  /\ local' = [local EXCEPT !.queue = local.file]
  /\ post' = {}
  /\ center' = disk
  /\ seen' = {}
  /\ gated' = Recovered
  /\ clock' = [e \in Events |-> IF e \in Recovered THEN "ahead" ELSE "none"]
  /\ jobs' = {<<"restart", e>> : e \in Recovered}
  /\ worker' = [w \in Workers |-> Resting]
  /\ flush' = Away
  /\ UNCHANGED <<immediate, gateway, disk, accepted, late, hasty, errors>>

Next ==
  \/ \E s \in Sources, e \in Events : Capture(s, e)
  \/ \E s \in Sources : CloseGate(s) \/ QueueForCenter(s) \/ Ask(s)
  \/ \E w \in Workers : Take(w) \/ LookUp(w) \/ Merge(w) \/ TellGateway(w)
                          \/ TellCenter(w) \/ Release(w)
  \/ \E e \in Events : Tick(e)
  \/ Post \/ Posted \/ PostFails
  \/ FlushLook \/ FlushGate \/ FlushMark \/ FlushSend \/ FlushDone
  \/ Restart

\* The threads keep running, time passes, and a gateway and a center that are
\* asked again and again take each item in the end.
Fairness ==
  /\ \A s \in Sources : WF_vars(CloseGate(s) \/ QueueForCenter(s) \/ Ask(s))
  /\ \A w \in Workers : WF_vars(LookUp(w) \/ Merge(w) \/ TellGateway(w)
                                  \/ TellCenter(w) \/ Release(w))
  /\ \A e \in Events : WF_vars(Tick(e))
  /\ WF_vars(Post \/ Posted \/ PostFails)
  /\ \A i \in Item : SF_vars(Posted /\ i \in gateway' /\ i \notin local'.queue)
  /\ WF_vars(FlushLook \/ FlushGate \/ FlushMark \/ FlushSend \/ FlushDone)
  /\ \A i \in Item : SF_vars(FlushDone /\ i \in flush.batch /\ i \notin center'.queue)

Spec == Init /\ [][Next]_vars
FairSpec == Spec /\ Fairness

-----------------------------------------------------------------------------
TypeOK ==
  /\ immediate \subseteq Events
  /\ src \in [Sources -> {Free} \cup
              [pc : {"gate", "queue", "queue only", "ask"}, e : Events]]
  /\ offered \subseteq Sources \X Events
  /\ local \in [queue : SUBSET Item, file : SUBSET Item]
  /\ post \subseteq Item /\ gateway \subseteq Item
  /\ center \in [queue : SUBSET Item, body : [Events -> Body]]
  /\ disk \in [queue : SUBSET Item, body : [Events -> Body]]
  /\ seen \subseteq Events /\ gated \subseteq Events
  /\ clock \in [Events -> {"none", "ahead", "past"}]
  /\ jobs \subseteq (Sources \cup {"restart"}) \X Events
  /\ \A w \in Workers : worker[w].pc \in {"idle", "look up", "merge", "tell gateway",
                                          "tell center", "release"}
  /\ flush.pc \in {"idle", "gate", "mark", "send", "sent"}
  /\ flush.blocked \subseteq Events /\ flush.batch \subseteq Item
  /\ accepted \subseteq Item
  /\ late \subseteq Events /\ hasty \subseteq Events
  /\ errors \in 0..MaxErrors /\ restarts \in 0..MaxRestarts

\* A message the capture thread went on with has a line in the local queue
\* file, or the gateway has committed it: neither a failed post, a partial
\* acknowledgement, a failed rewrite nor a restart loses it (LocalDeliveryQueue,
\* "durable local-first delivery").
LocalKept ==
  \A o \in offered : Message(o[2]) \in local.file \cup gateway

\* Both queues: what waits in memory has its line on disk, under whatever
\* interleaving of appends, compactions and workers.
WaitingIsOnDisk ==
  /\ local.queue \subseteq local.file
  /\ center.queue \subseteq disk.queue

\* Whatever was handed over reaches the seat gateway.
LocalDelivered == []<>(\A o \in offered : Message(o[2]) \in gateway)

\* No message is held back for ever, whatever happens to the worker, the page
\* or the gate: it is uploaded in the end (flush_events, the deadlines).
QueuedIsUploaded ==
  []<>(\A e \in Events : Message(e) \in center.queue => Message(e) \in accepted)

\* A lookup is given up as too late only when the gate's time has passed
\* (run_pdd_client.py, the reason context_deadline_exceeded).
GivesUpOnlyLate == hasty = {}
=============================================================================
