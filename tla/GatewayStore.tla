---------------------------- MODULE GatewayStore ----------------------------
(***************************************************************************)
(* The seat's conversation store behind the local gateway                  *)
(* (run_frontend_service.py, LocalSeatState and FrontHandler): what        *)
(* concurrent requests of the bridge, the workbench windows and the        *)
(* gateway's restarts do to the messages of one buyer of one shop.         *)
(*                                                                         *)
(* The bridge may deliver several copies of one message: a poor one        *)
(* without the staff account, a richer one later.  A message whose account *)
(* cannot be told is kept in a placeholder conversation that no window     *)
(* shows; the richer copy takes it out of there.  A batch of the bridge is *)
(* kept in memory message by message, written to the file once, and then   *)
(* acknowledged: the bridge forgets what is acknowledged.                  *)
(***************************************************************************)
EXTENDS Naturals, Sequences, FiniteSets, FiniteSetsExt

CONSTANTS
  Msgs,        \* messages, numbered by their time
  BuyerMsgs,   \* those of the buyer; the others are the staff's
  Accounts,    \* staff accounts of the shop
  Own,         \* the one logged in on this seat
  Batches,     \* sequences of copies [msg, account] the bridge may post
  Handlers,    \* threads of the HTTP server
  None,        \* no account
  KeepLast,    \* messages a clean-up leaves in a conversation
  MaxVersion, MaxFaults \* bounds; faults are failed saves and restarts

Placeholder == None \* the conversation of messages without an account
Keys == Accounts \cup {Placeholder}

ASSUME StoreAssumption ==
  /\ Msgs \subseteq Nat /\ IsFiniteSet(Msgs) /\ BuyerMsgs \subseteq Msgs
  /\ Own \in Accounts /\ None \notin Accounts
  /\ \A b \in Batches : b \in Seq([msg : Msgs, account : Keys]) /\ b # <<>>
  /\ KeepLast \in Nat \ {0}

VARIABLES
  mem,      \* the store: its conversations and what it knows of accounts
  disk,     \* the state file
  version,  \* event_version
  handler,  \* [Handlers -> the request it serves]
  window,   \* the workbench: the version it has seen, what it lists
  acked,    \* messages the bridge was told are committed
  gone,     \* history: messages a clean-up took away
  cleared,  \* history: everything was cleared once
  restarts, failedSaves

vars == <<mem, disk, version, handler, window, acked, gone, cleared, restarts, failedSaves>>

NoTalk == [msgs |-> {}, fresh |-> {}, unread |-> 0]
Idle == [pc |-> "idle", todo |-> <<>>, posted |-> <<>>, key |-> None]

Init ==
  /\ mem = [talk |-> [k \in Keys |-> NoTalk], seat |-> None, shop |-> None]
  /\ disk = mem
  /\ version = 0
  /\ handler = [h \in Handlers |-> Idle]
  /\ window = [after |-> 0, due |-> FALSE, shown |-> {}]
  /\ acked = {} /\ gone = {} /\ cleared = FALSE /\ restarts = 0 /\ failedSaves = 0

\* _save_locked: the whole state replaces the file, and an error is swallowed.
Saved(store) ==
  \/ disk' = store /\ UNCHANGED failedSaves
  \/ /\ failedSaves + restarts < MaxFaults
     /\ failedSaves' = failedSaves + 1
     /\ UNCHANGED disk

\* do_POST, /api/bridge/v1/events
Receive(h, batch) ==
  /\ handler[h].pc = "idle" /\ version < MaxVersion
  /\ handler' = [handler EXCEPT ![h] =
       [pc |-> "resolve", todo |-> batch, posted |-> batch, key |-> None]]
  /\ UNCHANGED <<mem, disk, version, window, acked, gone, cleared, restarts, failedSaves>>

\* publish, up to the account: the seat's, else the shop's, else the placeholder.
Resolve(h) ==
  /\ handler[h].pc = "resolve"
  /\ LET account == Head(handler[h].todo).account
         known == IF mem.seat # None THEN mem.seat ELSE mem.shop
     IN  handler' = [handler EXCEPT ![h] = [@ EXCEPT !.pc = "store",
                       !.key = IF account # None THEN account ELSE known]]
  /\ UNCHANGED <<mem, disk, version, window, acked, gone, cleared, restarts, failedSaves>>

\* The placeholder without a message that is now known in its own conversation.
Without(talk, msg) ==
  IF talk.msgs \subseteq {msg} THEN NoTalk
  ELSE [msgs |-> talk.msgs \ {msg}, fresh |-> talk.fresh \ (talk.msgs \cap {msg}),
        unread |-> IF msg \in talk.msgs \cap BuyerMsgs /\ talk.unread > 0
                   THEN talk.unread - 1 ELSE talk.unread]

\* A conversation with a message: one more unread if it is new and the buyer's.
With(talk, msg) ==
  [msgs |-> talk.msgs \cup {msg},
   fresh |-> talk.fresh \cup (({msg} \cap BuyerMsgs) \ talk.msgs),
   unread |-> talk.unread + (IF msg \in BuyerMsgs \ talk.msgs THEN 1 ELSE 0)]

Stored(store, key, msg) ==
  LET repaired == IF key = Placeholder THEN store.talk
                  ELSE [store.talk EXCEPT ![Placeholder] = Without(@, msg)]
  IN  [talk |-> [repaired EXCEPT ![key] = With(@, msg)],
       seat |-> IF store.seat = None THEN key ELSE store.seat,
       shop |-> IF store.shop = None THEN key ELSE store.shop]

\* Mutant of Store: nobody is notified.
StoreQuietly(h) ==
  /\ handler[h].pc = "store"
  /\ mem' = Stored(mem, handler[h].key, Head(handler[h].todo).msg)
  /\ handler' = [handler EXCEPT ![h] = [@ EXCEPT !.key = None,
       !.todo = Tail(handler[h].todo),
       !.pc = IF Len(handler[h].todo) > 1 THEN "resolve" ELSE "save"]]
  /\ UNCHANGED <<disk, version, window, acked, gone, cleared, restarts, failedSaves>>

\* publish, from the account: only in memory, persist=False.
Store(h) ==
  /\ handler[h].pc = "store"
  /\ mem' = Stored(mem, handler[h].key, Head(handler[h].todo).msg)
  /\ version' = IF mem' = mem THEN version ELSE version + 1
  /\ handler' = [handler EXCEPT ![h] = [@ EXCEPT !.key = None,
       !.todo = Tail(handler[h].todo),
       !.pc = IF Len(handler[h].todo) > 1 THEN "resolve" ELSE "save"]]
  /\ UNCHANGED <<disk, window, acked, gone, cleared, restarts, failedSaves>>

\* Mutant of Save: the batch is acknowledged from memory.
SaveLater(h) ==
  /\ handler[h].pc = "save"
  /\ handler' = [handler EXCEPT ![h].pc = "answer"]
  /\ UNCHANGED <<mem, disk, version, window, acked, gone, cleared, restarts, failedSaves>>

Save(h) ==
  /\ handler[h].pc = "save"
  /\ Saved(mem)
  /\ handler' = [handler EXCEPT ![h].pc = "answer"]
  /\ UNCHANGED <<mem, version, window, acked, gone, cleared, restarts>>

\* event_acks, which the bridge may have stopped waiting for.
Answer(h) ==
  /\ handler[h].pc = "answer"
  /\ acked' \in {acked, acked \cup
       {handler[h].posted[i].msg : i \in DOMAIN handler[h].posted}}
  /\ handler' = [handler EXCEPT ![h] = Idle]
  /\ UNCHANGED <<mem, disk, version, window, gone, cleared, restarts, failedSaves>>

\* schedule_refresh of the bootstrap: the center names an account of the shop.
Bootstrap(account) ==
  /\ mem.shop = None
  /\ mem' = [mem EXCEPT !.shop = account]
  /\ version < MaxVersion /\ version' = version + 1
  /\ Saved(mem')
  /\ UNCHANGED <<handler, window, acked, gone, cleared, restarts>>

\* _visible_sessions_locked: only the conversation of the seat's account.
Listed == IF mem.seat = None THEN {} ELSE mem.talk[mem.seat].msgs

\* clear_unread, from a window that lists the conversation.
ClearUnread ==
  /\ Listed # {}
  /\ mem' = [mem EXCEPT !.talk[mem.seat] = [@ EXCEPT !.unread = 0, !.fresh = {}]]
  /\ Saved(mem')
  /\ UNCHANGED <<version, handler, window, acked, gone, cleared, restarts>>

Newest(msgs, n) == {m \in msgs : Cardinality({x \in msgs : x > m}) < n}

\* Mutant of Unanswered: by the first message.
UnansweredFirst(talk) == talk.msgs # {} /\ Min(talk.msgs) \in BuyerMsgs

Unanswered(talk) == talk.msgs # {} /\ Max(talk.msgs) \in BuyerMsgs

\* cleanup_sessions: the open, the recent and the handed-over conversations are
\* any of them; an unanswered one stays; what stays is cut to its last messages.
Cleanup ==
  /\ \E kept \in SUBSET Keys :
       LET stays(k) == k \in kept \/ Unanswered(mem.talk[k])
           cut(talk) == [talk EXCEPT !.msgs = Newest(talk.msgs, KeepLast)]
           left == [k \in Keys |-> IF stays(k) THEN cut(mem.talk[k]) ELSE NoTalk]
       IN  /\ left # mem.talk
           /\ mem' = [mem EXCEPT !.talk = left]
           /\ gone' = gone \cup UNION {mem.talk[k].msgs \ left[k].msgs : k \in Keys}
  /\ Saved(mem')
  /\ UNCHANGED <<version, handler, window, acked, cleared, restarts>>

\* cleanup_sessions, clear_all
ClearAll ==
  /\ mem' = [mem EXCEPT !.talk = [k \in Keys |-> NoTalk]]
  /\ mem' # mem /\ cleared' = TRUE
  /\ gone' = gone \cup UNION {mem.talk[k].msgs : k \in Keys}
  /\ Saved(mem')
  /\ UNCHANGED <<version, handler, window, acked, restarts>>

\* wait_for_event and _seat_stream: the window will fetch the list again.
StreamEvent ==
  /\ version > window.after
  /\ window' = [window EXCEPT !.after = version, !.due = TRUE]
  /\ UNCHANGED <<mem, disk, version, handler, acked, gone, cleared, restarts, failedSaves>>

\* merge_sessions, for a window told by the stream or by its timer.
FetchList ==
  /\ window' = [window EXCEPT !.due = FALSE, !.shown = Listed]
  /\ UNCHANGED <<mem, disk, version, handler, acked, gone, cleared, restarts, failedSaves>>

\* The gateway's process ends at any moment and a new one loads the file.  An
\* account is inferred for a shop that has the conversations of only one.
Restart ==
  /\ failedSaves + restarts < MaxFaults
  /\ restarts' = restarts + 1
  /\ LET held == {k \in Accounts : disk.talk[k].msgs # {}}
     IN  mem' = [disk EXCEPT !.seat =
           IF @ = None /\ Cardinality(held) = 1 THEN CHOOSE k \in held : TRUE ELSE @]
  /\ version' = 0
  /\ handler' = [h \in Handlers |-> Idle]
  /\ UNCHANGED <<disk, window, acked, gone, cleared, failedSaves>>

Next ==
  \/ \E h \in Handlers :
       \/ \E batch \in Batches : Receive(h, batch)
       \/ Resolve(h) \/ Store(h) \/ Save(h) \/ Answer(h)
  \/ \E account \in Accounts : Bootstrap(account)
  \/ ClearUnread \/ Cleanup \/ ClearAll
  \/ StreamEvent \/ FetchList
  \/ Restart

Spec == Init /\ [][Next]_vars
-----------------------------------------------------------------------------
Talks == [Keys -> [msgs : SUBSET Msgs, fresh : SUBSET BuyerMsgs, unread : Nat]]
Stores == [talk : Talks, seat : Keys, shop : Keys]

\* The type of every variable.
TypeOK ==
  /\ mem \in Stores /\ disk \in Stores
  /\ version \in Nat
  /\ \A h \in Handlers :
       /\ handler[h].pc \in {"idle", "resolve", "store", "save", "answer"}
       /\ handler[h].key \in Keys
  /\ window \in [after : Nat, due : BOOLEAN, shown : SUBSET Msgs]
  /\ acked \subseteq Msgs /\ gone \subseteq Msgs /\ cleared \in BOOLEAN

OnFile == UNION {disk.talk[k].msgs : k \in Keys}

\* What the bridge was told is committed is on file, unless someone cleaned it
\* up: the bridge forgets it (do_POST answers after save; the comment there says
\* the answer still means "persisted").  A save that fails is not noticed and the
\* batch is acknowledged all the same; what was is then in memory only.
AckedIsOnFile ==
  acked \subseteq gone \cup
    IF failedSaves = 0 THEN OnFile
    ELSE IF restarts = 0 THEN UNION {mem.talk[k].msgs : k \in Keys} ELSE acked

\* The unread number of a conversation counts the buyer's messages that joined it
\* after it was last looked at, each once, whatever copies arrived and whatever
\* conversation they were first kept in (publish, clear_unread).  A message that
\* a clean-up cut off counts anew when the bridge posts it again.
UnreadIsFresh ==
  gone = {} => \A k \in Keys : mem.talk[k].unread = Cardinality(mem.talk[k].fresh)

\* A window of this process that misses a message it should list is about to
\* fetch the list or will be told by the stream (event_version, wait_for_event).
NewsIsTold ==
  restarts = 0 /\ ~(Listed \subseteq window.shown)
    => window.due \/ version > window.after

LastWord(m, msgs) == m \in msgs /\ \A x \in msgs : x <= m

\* The buyer's last word is never lost while the gateway runs, neither by a
\* clean-up nor by the move from the placeholder, unless everything is cleared
\* (cleanup_sessions, publish).
LastWordStays ==
  [][restarts' = restarts /\ ~cleared' =>
       \A m \in BuyerMsgs : (\E k \in Keys : LastWord(m, mem.talk[k].msgs)) =>
         \E k \in Keys : m \in mem'.talk[k].msgs]_vars

\* The account whose conversations the windows list is the one logged in on this
\* seat: the comments of publish and schedule_refresh keep "the account
\* discovered locally" apart from the center's "aggregate" list.
\* This does not hold; see the README.
SeatIsOwn == mem.seat \in {None, Own}
=============================================================================
