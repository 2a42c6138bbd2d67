----------------------------- MODULE CdpCapture -----------------------------
(***************************************************************************)
(* The road of a frame from a page of the workbench to the agent:          *)
(* bridge/pddbridge/inject.js in the page (buffer, push queue, store in    *)
(* localStorage), the push server and the pump of bridge/pddbridge_source. *)
(* One page.  The pump is one thread; the page runs beside it, so what the *)
(* pump read may have moved when it confirms it.                           *)
(***************************************************************************)
EXTENDS Integers, Sequences, FiniteSets, SequencesExt

CONSTANTS
    Live,        \* ids of messages that arrive in a push frame of their own
    Odd,         \* ids of frames of a kind the bridge does not know
    Lists,       \* answers to a pull of the history: sequences of ids
    BufferMax,   \* BUFFER_MAX of inject.js
    SpillMax,    \* SPILL_MAX of inject.js
    QueueMax,    \* the capacity of the push server's queue
    BatchMax,    \* _DRAIN_BATCH
    MaxReloads,  \* bound: reloads of the page
    MaxErrors,   \* bound: exceptions while a frame is handled
    MaxLost      \* bound: requests, answers and evaluations that are lost

ASSUME BoundsAssumption ==
    /\ {BufferMax, SpillMax, QueueMax, BatchMax} \subseteq Nat \ {0}
    /\ SpillMax <= BufferMax
    /\ {MaxReloads, MaxErrors, MaxLost} \subseteq Nat
    /\ \A l \in Lists : l \in Seq(Range(l))

Ids == Live \cup Odd \cup UNION {Range(l) : l \in Lists}

VARIABLES
    historyOnly, \* PddbridgeSource.history_only: the logs are the live feed
    hooked,      \* the script runs in the page (__pddBridge_hooked)
    session,     \* the source holds a session for the page
    fresh,       \* frames that have not reached the page yet
    buf,         \* __pddBridge_buf
    pushq,       \* __pddBridge_pushq
    failed,      \* __pddBridge_push_state = 'fail'
    replaying,   \* __pddBridge_spill_replay_pending
    spill,       \* localStorage
    posts,       \* requests to the push server that are under way
    queue,       \* _PushServer.queue
    pump,        \* the pump: where it is, and the batch it has read
    seen,        \* _seen, _seen_any
    told,        \* how often a message was given to on_event
    live,        \* the messages given to on_event as new ones
    archived,    \* ids of frames in the raw archive
    replayed,    \* history: frames that came back from the store, and from there only
    reread,      \* history: how much of the store has come back since the page was loaded
    gone,        \* history: ids of frames a known accident took
    reloads, errors, lost

page == <<hooked, buf, pushq, failed, replaying, spill>>
python == <<session, queue, pump, seen, told, live, archived>>
vars == <<historyOnly, page, fresh, posts, python, replayed, reread, gone,
          reloads, errors, lost>>

-----------------------------------------------------------------------------
Frame(kind, ids) == [kind |-> kind, ids |-> ids, old |-> FALSE]
Marked(f) == [kind |-> f.kind, ids |-> f.ids, old |-> TRUE]
Frames == {Frame("push", <<m>>) : m \in Live} \cup {Frame("odd", <<m>>) : m \in Odd}
            \cup {Frame("list", l) : l \in Lists}
IdsIn(frames) == UNION {Range(f.ids) : f \in frames}
IdsOf(frames) == IdsIn(Range(frames))

\* A source that only fills the history reports no other frames: for those
\* the logs are there.
Wanted(f) == historyOnly => f.kind = "list"

Idle == [at |-> "idle", batch |-> <<>>, ok |-> TRUE]

Init ==
    /\ historyOnly \in BOOLEAN
    /\ hooked = FALSE /\ session = FALSE /\ fresh = Frames
    /\ buf = <<>> /\ pushq = <<>> /\ failed = FALSE /\ replaying = 0 /\ spill = <<>>
    /\ posts = {} /\ queue = <<>> /\ pump = Idle
    /\ seen = {} /\ told = [m \in Ids |-> 0] /\ live = {} /\ archived = {}
    /\ replayed = {} /\ reread = 0 /\ gone = {} /\ reloads = 0 /\ errors = 0 /\ lost = 0

-----------------------------------------------------------------------------
\* In the page.

\* spillWrite, spillRead: all of the frames or none.
Fits(frames) == Len(spill) + Len(frames) <= SpillMax

\* bufferEntry for each of the frames: what is too much for the buffer goes
\* to the store, the oldest first; if the store is full it stays.
Buffer(frames) ==
    LET all == buf \o frames
        drop == SubSeq(all, 1, Len(all) - BufferMax)
    IN  IF Len(all) > BufferMax /\ Fits(drop)
        THEN /\ spill' = spill \o drop
             /\ buf' = SubSeq(all, Len(drop) + 1, Len(all))
        ELSE buf' = all /\ UNCHANGED spill

\* pushEntry: no push server, or the last push failed.
PushOff == historyOnly \/ failed

\* pushIn, record: a frame goes to the push queue, or to the buffer if there
\* is no push server or the last push failed.
Record(f) ==
    /\ f \in fresh /\ hooked
    /\ fresh' = fresh \ {f}
    /\ IF PushOff
       THEN Buffer(<<f>>) /\ UNCHANGED pushq
       ELSE pushq' = Append(pushq, f) /\ UNCHANGED <<buf, spill>>
    /\ UNCHANGED <<historyOnly, hooked, failed, replaying, posts, python,
                   replayed, reread, gone, reloads, errors, lost>>

\* flushPushQueue, by its timer.
Flush ==
    /\ pushq # <<>>
    /\ posts' = posts \cup {[frames |-> pushq, at |-> "sent", heard |-> TRUE]}
    /\ pushq' = <<>>
    /\ UNCHANGED <<historyOnly, hooked, buf, failed, replaying, spill, fresh, python,
                   replayed, reread, gone, reloads, errors, lost>>

\* The answer reaches the page: the frames of a failed request go to the
\* buffer (markPushFailed).  A page that was reloaded hears no answer.
Answered(p) ==
    /\ p \in posts /\ p.at \in {"taken", "failed"}
    /\ posts' = posts \ {p}
    /\ IF p.heard /\ p.at = "failed"
       THEN failed' = TRUE /\ Buffer(p.frames) /\ UNCHANGED gone
       ELSE /\ failed' = (failed /\ ~p.heard)
            /\ gone' = IF p.heard \/ p.at = "taken" THEN gone ELSE gone \cup IdsOf(p.frames)
            /\ UNCHANGED <<buf, spill>>
    /\ UNCHANGED <<historyOnly, hooked, pushq, replaying, fresh, python, replayed, reread,
                   reloads, errors, lost>>

\* 30 seconds after a failure the page tries to push again.
Probe ==
    /\ failed /\ failed' = FALSE
    /\ UNCHANGED <<historyOnly, hooked, buf, pushq, replaying, spill, fresh, posts, python,
                   replayed, reread, gone, reloads, errors, lost>>

\* The page that sent it is gone.
Unheard(p) == [frames |-> p.frames, at |-> p.at, heard |-> FALSE]

\* beforeunload, and the end of the page: the buffer goes to the store if it
\* fits, what waits in the push queue goes nowhere.
Unload ==
    /\ hooked /\ reloads < MaxReloads
    /\ reloads' = reloads + 1
    /\ spill' = IF Fits(buf) THEN spill \o buf ELSE spill
    /\ gone' = gone \cup IdsOf(pushq) \cup (IF Fits(buf) THEN {} ELSE IdsOf(buf))
    /\ hooked' = FALSE /\ buf' = <<>> /\ pushq' = <<>> /\ failed' = FALSE
    /\ replaying' = 0 /\ reread' = 0
    /\ posts' = {Unheard(p) : p \in posts}
    /\ UNCHANGED <<historyOnly, fresh, python, replayed, errors, lost>>

\* Frames of the store that are not under way by push as well.
OnlyStored == Range(spill) \ (Range(queue) \cup UNION {Range(p.frames) : p \in posts})

\* Slip: the frames of the store take the push queue, which drops their mark.
ReplayByPush ==
    /\ pushq' = pushq \o spill
    /\ replaying' = Len(spill)
    /\ replayed' = replayed \cup OnlyStored
    /\ reread' = Len(spill)
    /\ UNCHANGED <<buf, spill>>

\* spillReplay: the frames of the store come back, marked, past the push queue.
Replay ==
    LET old == [i \in DOMAIN spill |-> Marked(spill[i])] IN
    /\ Buffer(old)
    /\ replaying' = Len(old)
    /\ replayed' = replayed \cup OnlyStored
    /\ reread' = Len(spill)
    /\ UNCHANGED pushq

\* The listeners of the script: from now on every frame is recorded.
Hook == hooked' = TRUE

\* _scan_and_attach for this page: the script is evaluated; once per load of
\* the page it replays the store.
Attach ==
    /\ ~session /\ pump.at = "idle"
    /\ session' = TRUE /\ Hook
    /\ IF hooked THEN UNCHANGED <<buf, spill, pushq, replaying, replayed, reread>> ELSE Replay
    /\ UNCHANGED <<historyOnly, failed, fresh, posts, queue, pump, seen, told, live,
                   archived, gone, reloads, errors, lost>>

-----------------------------------------------------------------------------
\* The push server.

\* do_POST: all frames of the request or, when the queue is too full, none.
Accept(p) ==
    /\ p \in posts /\ p.at = "sent"
    /\ IF Len(queue) + Len(p.frames) > QueueMax
       THEN /\ posts' = (posts \ {p}) \cup {[p EXCEPT !.at = "failed"]}
            /\ UNCHANGED <<queue, lost>>
       ELSE /\ queue' = queue \o p.frames
            /\ \/ posts' = (posts \ {p}) \cup {[p EXCEPT !.at = "taken"]} /\ UNCHANGED lost
               \/ /\ lost < MaxLost /\ lost' = lost + 1 /\ p.heard
                  /\ posts' = (posts \ {p}) \cup {[p EXCEPT !.at = "failed"]}
    /\ UNCHANGED <<historyOnly, page, fresh, session, pump, seen, told, live, archived,
                   replayed, reread, gone, reloads, errors>>

\* The request does not reach the server.
PostFails(p) ==
    /\ p \in posts /\ p.at = "sent" /\ lost < MaxLost
    /\ lost' = lost + 1
    /\ posts' = (posts \ {p}) \cup {[p EXCEPT !.at = "failed"]}
    /\ UNCHANGED <<historyOnly, page, fresh, python, replayed, reread, gone, reloads, errors>>

-----------------------------------------------------------------------------
\* The pump.

\* What handling has done so far: the dedup table, what was told, what was
\* archived.
Now == [seen |-> seen, told |-> told, live |-> live, archived |-> archived, gone |-> gone]

\* _seen_before, _dedup: an id is told if the table does not have it.
Unseen(r, ms) == ms \ r.seen

Tell(r, ms, old) ==
    [seen |-> r.seen \cup ms,
     told |-> [m \in Ids |-> IF m \in Unseen(r, ms) THEN r.told[m] + 1 ELSE r.told[m]],
     live |-> IF old THEN r.live ELSE r.live \cup Unseen(r, ms),
     archived |-> r.archived, gone |-> r.gone]

\* on_event raises for this message: it is in the table and was not told.
Fail(r, m) == [r EXCEPT !.seen = @ \cup {m}]

\* The frame is written to the raw archive.
Archive(r, f) == [r EXCEPT !.archived = @ \cup Range(f.ids)]

\* _handle_frame: the messages of a frame, each once.
Handle(r, f) ==
    IF ~Wanted(f) THEN r
    ELSE IF f.kind = "odd"
    THEN Tell(Archive(r, f), Range(f.ids), TRUE)
    ELSE Tell(r, Range(f.ids), f.old \/ f.kind = "list")

\* Frame by frame.
HandleAll(r, frames) ==
    LET after[n \in 0 .. Len(frames)] ==
            IF n = 0 THEN r ELSE Handle(after[n - 1], frames[n])
    IN  after[Len(frames)]

\* Slip: all messages of a list that failed leave the table.
ForgetAll(r, f, k) == [r EXCEPT !.seen = @ \ Range(f.ids)]

\* _forget_frame: of a frame that failed the id leaves the table.  A list has
\* no id of its own: what was entered for its messages stays, and if the one
\* that failed was told nowhere it never will be.
Forget(r, f, k) ==
    IF f.kind = "push" THEN [r EXCEPT !.seen = @ \ Range(f.ids)]
    ELSE IF f.kind = "list" /\ Wanted(f) THEN [r EXCEPT !.gone = @ \cup {f.ids[k]}]
    ELSE r

\* The messages of the frame before its k-th are handled.
HandleBefore(r, f, k) == Handle(r, [f EXCEPT !.ids = SubSeq(f.ids, 1, k - 1)])

\* A message of the frame at which handling may fail.
Breaks(r, f, k) ==
    k \in DOMAIN f.ids /\ Wanted(f) /\ f.kind # "odd"
      /\ f.ids[k] \notin HandleBefore(r, f, k).seen

HandleTo(r, f, k) == Fail(HandleBefore(r, f, k), f.ids[k])

Becomes(r) ==
    seen' = r.seen /\ told' = r.told /\ live' = r.live /\ archived' = r.archived /\ gone' = r.gone

\* _pump_push: a frame from the queue.  One that fails is archived.
PumpPush ==
    /\ queue # <<>> /\ pump.at = "idle"
    /\ queue' = Tail(queue)
    /\ \/ Becomes(Handle(Now, Head(queue))) /\ UNCHANGED errors
       \/ /\ errors < MaxErrors /\ errors' = errors + 1
          /\ \E k \in DOMAIN Head(queue).ids :
               /\ Breaks(Now, Head(queue), k)
               /\ Becomes(Archive(HandleTo(Now, Head(queue), k), Head(queue)))
    /\ UNCHANGED <<historyOnly, page, fresh, session, posts, pump, replayed, reread, reloads,
                   lost>>

\* _drain: the page shows the front of its buffer, or is no longer hooked.
Peek ==
    /\ session /\ pump.at = "idle" /\ (buf # <<>> \/ ~hooked)
    /\ IF hooked
       THEN LET n == IF Len(buf) > BatchMax THEN BatchMax ELSE Len(buf) IN
            /\ pump' = [at |-> "handle", batch |-> SubSeq(buf, 1, n), ok |-> TRUE]
            /\ UNCHANGED session
       ELSE session' = FALSE /\ UNCHANGED pump
    /\ UNCHANGED <<historyOnly, page, fresh, posts, queue, seen, told, live, archived,
                   replayed, reread, gone, reloads, errors, lost>>

\* Evaluations fail several times running: the session is dropped, the page
\* and its buffer stay.
PeekFails ==
    /\ session /\ pump.at = "idle" /\ lost < MaxLost
    /\ lost' = lost + 1 /\ session' = FALSE
    /\ UNCHANGED <<historyOnly, page, fresh, posts, queue, pump, seen, told, live, archived,
                   replayed, reread, gone, reloads, errors>>

\* _pump_session: the batch is handled, frame by frame; a frame that fails
\* does not stop the others but keeps the batch from being confirmed.
HandleBatch ==
    /\ pump.at = "handle"
    /\ \/ /\ Becomes(HandleAll(Now, pump.batch))
          /\ pump' = [pump EXCEPT !.at = "ack"]
          /\ UNCHANGED errors
       \/ /\ errors < MaxErrors /\ errors' = errors + 1
          /\ pump' = [at |-> "ack", batch |-> pump.batch, ok |-> FALSE]
          /\ \E i \in DOMAIN pump.batch : \E k \in DOMAIN pump.batch[i].ids :
               LET f == pump.batch[i]
                   r == HandleAll(Now, SubSeq(pump.batch, 1, i - 1))
               IN  /\ Breaks(r, f, k)
                   /\ Becomes(HandleAll(Forget(HandleTo(r, f, k), f, k),
                                        SubSeq(pump.batch, i + 1, Len(pump.batch))))
    /\ UNCHANGED <<historyOnly, page, fresh, session, posts, queue, replayed, reread, reloads,
                   lost>>

\* __pddBridge_ack: the front of the buffer as it is now goes; with the last
\* of the replayed frames, the store.  What the pump has not read goes unseen, and
\* so does what came into the store after it was read back.
Confirm(n) ==
    LET k == IF Len(buf) > n THEN n ELSE Len(buf)
        left == IF replaying > k THEN replaying - k ELSE 0
        cleared == replaying > 0 /\ left = 0
    IN  /\ buf' = SubSeq(buf, k + 1, Len(buf))
        /\ replaying' = left
        /\ spill' = IF cleared THEN <<>> ELSE spill
        /\ reread' = IF cleared THEN 0 ELSE reread
        /\ gone' = gone \cup IdsIn(Range(SubSeq(buf, 1, k)) \ Range(pump.batch))
                        \cup IF cleared THEN IdsOf(SubSeq(spill, reread + 1, Len(spill))) ELSE {}

\* Slip: a batch is confirmed whatever happened to its frames.
AckAnyway ==
    /\ pump.at = "ack" /\ pump' = Idle
    /\ IF hooked THEN Confirm(Len(pump.batch))
       ELSE UNCHANGED <<buf, replaying, spill, reread, gone>>
    /\ UNCHANGED <<historyOnly, hooked, pushq, failed, fresh, session, posts, queue, seen,
                   told, live, archived, replayed, reloads, errors, lost>>

\* _ack: a batch with no failure is confirmed, if the page is still the one
\* that was read; an evaluation that fails is passed over.
Ack ==
    /\ pump.at = "ack" /\ pump' = Idle
    /\ IF pump.ok /\ hooked
       THEN \/ Confirm(Len(pump.batch)) /\ UNCHANGED lost
            \/ /\ lost < MaxLost /\ lost' = lost + 1
               /\ UNCHANGED <<buf, replaying, spill, reread, gone>>
       ELSE UNCHANGED <<buf, replaying, spill, reread, gone, lost>>
    /\ UNCHANGED <<historyOnly, hooked, pushq, failed, fresh, session, posts, queue, seen,
                   told, live, archived, replayed, reloads, errors>>

-----------------------------------------------------------------------------
Next ==
    \/ \E f \in Frames : Record(f)
    \/ \E p \in posts : Answered(p) \/ Accept(p) \/ PostFails(p)
    \/ Flush \/ Probe \/ Unload \/ Attach
    \/ PumpPush \/ Peek \/ PeekFails \/ HandleBatch \/ Ack

Spec == Init /\ [][Next]_vars

-----------------------------------------------------------------------------
\* Every variable keeps its type; the pump has a batch only while it works on it.
TypeOK ==
    /\ historyOnly \in BOOLEAN /\ hooked \in BOOLEAN /\ session \in BOOLEAN
    /\ failed \in BOOLEAN /\ fresh \subseteq Frames
    /\ Len(spill) <= SpillMax /\ Len(queue) <= QueueMax /\ replaying \in 0 .. SpillMax
    /\ seen \subseteq Ids /\ told \in [Ids -> Nat] /\ live \subseteq seen
    /\ archived \subseteq Ids /\ reread <= Len(spill) /\ gone \subseteq Ids
    /\ pump.at \in {"idle", "handle", "ack"} /\ (pump.at = "idle" => pump = Idle)
    /\ historyOnly => pushq = <<>> /\ posts = {} /\ queue = <<>>

\* No message is given to the agent twice, whichever of its roads it took: a
\* push whose answer was lost and the buffer, a batch whose confirmation was
\* lost, the store, a list of the history (_dedup and _seen_before, within
\* their window).
ToldOnce == \A m \in Ids : told[m] <= 1

\* A recorded message that the agent has not been told of is still in the
\* page, in the store, on its way, in the push server or in the archive,
\* unless one of the accidents noted in gone befell it ("each frame takes one
\* road, so it is neither repeated nor lost").
Held == IdsOf(buf) \cup IdsOf(pushq) \cup IdsOf(spill) \cup IdsOf(queue) \cup archived \cup gone
          \cup UNION {IdsOf(p.frames) : p \in posts}
Recorded == UNION {Range(f.ids) : f \in {g \in Frames \ fresh : historyOnly => g.kind = "list"}}
Kept == \A m \in Recorded : told[m] > 0 \/ m \in Held

\* A message that came back from the store is never told as a new one: the
\* center must not answer it (the replayed flag of spillReplay).
ReplayIsHistory == [][\A m \in live' \ live : Frame("push", <<m>>) \notin replayed]_vars

\* A recorded message that is told, archived, taken by an accident, or lies in the store,
\* which is read again only when the page is loaded anew.
Settled(m) == told[m] > 0 \/ m \in archived \cup gone \cup IdsOf(spill)
=============================================================================
