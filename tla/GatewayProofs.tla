---------------------------- MODULE GatewayProofs ----------------------------
(***************************************************************************)
(* Theorems about the gateway.  What it stores (GatewayStore), for any     *)
(* finite number of messages, any accounts, batches, server threads,       *)
(* clean-ups, failed saves and restarts:                                   *)
(*   - AckedStays: what the bridge was told is committed is on file;       *)
(*   - NewsArrives: a window that misses a message is about to learn it;   *)
(*   - UnreadCounts: the unread number counts what came since the last     *)
(*     look, whatever copies arrived;                                      *)
(*   - LastWordKept: the buyer's last word is never lost.                  *)
(* What it shows (SeatView), for any number of windows and of turns:       *)
(*   - SwitchConfirmed: the store shows an AI switch only after the center *)
(*     took it;                                                            *)
(*   - CacheAdvances: the cache of what the center answered never goes     *)
(*     back.                                                               *)
(***************************************************************************)
EXTENDS GatewayStore, SeatView, SequenceTheorems, FiniteSetTheorems, TLAPS

Talk == [msgs : SUBSET Msgs, fresh : SUBSET BuyerMsgs, unread : Nat]
Copies == [msg : Msgs, account : Keys]
Requests == [pc : {"idle", "resolve", "store", "save", "answer"},
             todo : Seq(Copies), posted : Seq(Copies), key : Keys]

Types ==
  /\ mem \in Stores /\ disk \in Stores
  /\ version \in Nat /\ restarts \in Nat /\ failedSaves \in Nat
  /\ handler \in [Handlers -> Requests]
  /\ window \in [after : Nat, due : BOOLEAN, shown : SUBSET Msgs]
  /\ \A h \in Handlers :
       /\ handler[h].pc \in {"resolve", "store"} => handler[h].todo # <<>>
       /\ handler[h].pc = "save" => handler[h].todo = <<>>

Holds(store, x) == \E k \in Keys : x \in store.talk[k].msgs

\* x is where AckedIsOnFile wants it.
Safe(x) ==
  \/ x \in gone
  \/ failedSaves = 0 /\ Holds(disk, x)
  \/ failedSaves # 0 /\ (restarts = 0 => Holds(mem, x))

\* Nothing disappears from memory but by a clean-up.
FileIsHeld == \A x \in Msgs : Holds(disk, x) => Holds(mem, x) \/ x \in gone

\* What a request has worked off is in memory; from its save on, it is safe.
WorkedOffBy(h) ==
  \A i \in DOMAIN handler[h].posted :
    LET copy == handler[h].posted[i]
    IN /\ handler[h].pc \in {"resolve", "store", "save"} =>
            \/ Holds(mem, copy.msg) \/ copy.msg \in gone
            \/ \E j \in DOMAIN handler[h].todo : handler[h].todo[j] = copy
       /\ handler[h].pc = "answer" => Safe(copy.msg)

WorkedOff == \A h \in Handlers : WorkedOffBy(h)

AckedIsSafe == acked \subseteq Msgs /\ \A x \in acked : Safe(x)

AckInv == Types /\ FileIsHeld /\ WorkedOff /\ AckedIsSafe

\* The window has seen no version of this process that is still to come.
SeenIsPast == restarts = 0 => window.after <= version

NewsInv == Types /\ SeenIsPast /\ NewsIsTold

\* Every unread message is there, and nobody looks at the placeholder.
Counts(store) ==
  /\ \A k \in Keys :
       /\ store.talk[k].fresh \subseteq store.talk[k].msgs
       /\ store.talk[k].unread = Cardinality(store.talk[k].fresh)
  /\ store.talk[Placeholder].fresh = store.talk[Placeholder].msgs \cap BuyerMsgs

UnreadInv == Types /\ (gone = {} => Counts(mem) /\ Counts(disk))

-----------------------------------------------------------------------------
(* One copy: Stored.                                                       *)

LEMMA TalkType ==
  ASSUME NEW talk \in Talk, NEW msg \in Msgs
  PROVE  With(talk, msg) \in Talk /\ Without(talk, msg) \in Talk /\ NoTalk \in Talk
<1>1. With(talk, msg) \in Talk
  BY StoreAssumption DEF With, Talk
<1>2. NoTalk \in Talk
  BY DEF NoTalk, Talk
<1>3. Without(talk, msg) \in Talk
  BY <1>2 DEF Without, Talk
<1> QED
  BY <1>1, <1>2, <1>3

\* A stored copy is a message of its conversation; the placeholder loses it to any
\* other conversation, and the rest stays as it is.
LEMMA StoredTalks ==
  ASSUME NEW store \in Stores, NEW key \in Keys, NEW msg \in Msgs
  PROVE  /\ Stored(store, key, msg) \in Stores
         /\ Stored(store, key, msg).talk[key] = With(store.talk[key], msg)
         /\ \A k \in Keys \ {key} :
              Stored(store, key, msg).talk[k] =
                IF k = Placeholder THEN Without(store.talk[k], msg) ELSE store.talk[k]
<1> DEFINE repaired == IF key = Placeholder THEN store.talk
                       ELSE [store.talk EXCEPT ![Placeholder] = Without(@, msg)]
           new == Stored(store, key, msg)
<1>1. store.talk \in [Keys -> Talk] /\ store.seat \in Keys /\ store.shop \in Keys
  BY DEF Stores, Talks, Talk
<1>2. repaired \in [Keys -> Talk] /\ Placeholder \in Keys
  BY <1>1, TalkType DEF Keys
<1>3. /\ new.talk = [repaired EXCEPT ![key] = With(@, msg)]
      /\ new.seat = IF store.seat = None THEN key ELSE store.seat
      /\ new = [talk |-> new.talk, seat |-> new.seat,
                shop |-> IF store.shop = None THEN key ELSE store.shop]
  BY DEF Stored
<1>4. repaired[key] = store.talk[key]
  BY <1>1, <1>2
<1>5. new.talk \in [Keys -> Talk] /\ new.talk[key] = With(store.talk[key], msg)
  BY <1>2, <1>3, <1>4, TalkType
<1>6. \A k \in Keys \ {key} : new.talk[k] =
        IF k = Placeholder THEN Without(store.talk[k], msg) ELSE store.talk[k]
  BY <1>1, <1>2, <1>3
<1>7. new \in Stores
  BY <1>1, <1>3, <1>5 DEF Stores, Talks, Talk
<1> QED
  BY <1>5, <1>6, <1>7

LEMMA StoredHolds ==
  ASSUME NEW store \in Stores, NEW key \in Keys, NEW msg \in Msgs
  PROVE  /\ Holds(Stored(store, key, msg), msg)
         /\ \A x : Holds(store, x) => Holds(Stored(store, key, msg), x)
<1> DEFINE new == Stored(store, key, msg)
<1>1. msg \in new.talk[key].msgs
  <2>1. new.talk[key] = With(store.talk[key], msg)
    BY StoredTalks
  <2>2. msg \in With(store.talk[key], msg).msgs
    BY DEF With
  <2> QED
    BY <2>1, <2>2
<1>2. ASSUME NEW x, x # msg, NEW k \in Keys, x \in store.talk[k].msgs
      PROVE  x \in new.talk[k].msgs
  <2>1. x \in With(store.talk[k], msg).msgs
    BY <1>2 DEF With
  <2>2. x \in Without(store.talk[k], msg).msgs
    BY <1>2 DEF Without
  <2> QED
    BY <1>2, <2>1, <2>2, StoredTalks
<1> QED
  BY <1>1, <1>2 DEF Holds

LEMMA StoredCounts ==
  ASSUME NEW store \in Stores, NEW key \in Keys, NEW msg \in Msgs, Counts(store)
  PROVE  Counts(Stored(store, key, msg))
<1> DEFINE Fine(talk) == talk.fresh \subseteq talk.msgs /\ talk.unread = Cardinality(talk.fresh)
           All(talk) == talk.fresh = talk.msgs \cap BuyerMsgs
           new == Stored(store, key, msg)
<1>1. \A k \in Keys : store.talk[k] \in Talk /\ Fine(store.talk[k])
  BY DEF Counts, Stores, Talks, Talk
<1>2. Placeholder \in Keys /\ All(store.talk[Placeholder])
  BY DEF Counts, Keys
<1>3. ASSUME NEW talk \in Talk, Fine(talk)
      PROVE  Fine(With(talk, msg)) /\ (All(talk) => All(With(talk, msg)))
  <2>1. IsFiniteSet(talk.fresh)
    BY <1>3, StoreAssumption, FS_Subset DEF Talk
  <2>2. Cardinality(talk.fresh \cup {msg}) =
          IF msg \in talk.fresh THEN Cardinality(talk.fresh) ELSE Cardinality(talk.fresh) + 1
    BY <2>1, FS_AddElement
  <2>3. Cardinality(talk.fresh) \in Nat
    BY <2>1, FS_CardinalityType
  <2>4. CASE msg \in BuyerMsgs \ talk.msgs
    <3>1. ({msg} \cap BuyerMsgs) \ talk.msgs = {msg} /\ msg \notin talk.fresh
      BY <1>3, <2>4
    <3> QED
      BY <1>3, <2>2, <2>3, <2>4, <3>1 DEF With
  <2>5. CASE msg \notin BuyerMsgs \ talk.msgs
    <3>1. talk.fresh \cup (({msg} \cap BuyerMsgs) \ talk.msgs) = talk.fresh
      BY <2>5
    <3>2. /\ With(talk, msg).msgs = talk.msgs \cup {msg}
          /\ With(talk, msg).fresh = talk.fresh
          /\ With(talk, msg).unread = talk.unread
      BY <1>3, <2>3, <2>5, <3>1 DEF With
    <3>3. (talk.msgs \cup {msg}) \cap BuyerMsgs = talk.msgs \cap BuyerMsgs
      BY <2>5
    <3> QED
      BY <1>3, <3>2, <3>3
  <2> QED
    BY <2>4, <2>5
<1>4. ASSUME NEW talk \in Talk, Fine(talk), All(talk)
      PROVE  Fine(Without(talk, msg)) /\ All(Without(talk, msg))
  <2>1. IsFiniteSet(talk.fresh)
    BY <1>4, StoreAssumption, FS_Subset DEF Talk
  <2>2. Cardinality(talk.fresh \ {msg}) =
          IF msg \in talk.fresh THEN Cardinality(talk.fresh) - 1 ELSE Cardinality(talk.fresh)
    BY <2>1, FS_RemoveElement
  <2>3. Cardinality(talk.fresh) \in Nat /\ (Cardinality(talk.fresh) = 0 <=> talk.fresh = {})
    BY <2>1, FS_CardinalityType, FS_EmptySet
  <2>4. CASE talk.msgs \subseteq {msg}
    BY <2>4, FS_EmptySet DEF Without, NoTalk
  <2>5. CASE ~(talk.msgs \subseteq {msg})
    <3>1. talk.fresh \ (talk.msgs \cap {msg}) = talk.fresh \ {msg}
      BY <1>4
    <3>2. msg \in talk.msgs \cap BuyerMsgs <=> msg \in talk.fresh
      BY <1>4
    <3>3. Without(talk, msg).unread = Cardinality(talk.fresh \ {msg})
      BY <1>4, <2>2, <2>3, <2>5, <3>2 DEF Without
    <3>4. /\ Without(talk, msg).msgs = talk.msgs \ {msg}
          /\ Without(talk, msg).fresh = talk.fresh \ {msg}
      BY <2>5, <3>1 DEF Without
    <3> QED
      BY <1>4, <3>3, <3>4
  <2> QED
    BY <2>4, <2>5
<1> HIDE DEF Fine, All
<1>5. \A k \in Keys : Fine(new.talk[k])
  BY <1>1, <1>2, <1>3, <1>4, StoredTalks
<1>6. All(new.talk[Placeholder])
  BY <1>1, <1>2, <1>3, <1>4, StoredTalks
<1> QED
  BY <1>5, <1>6 DEF Counts, Fine, All

-----------------------------------------------------------------------------
LEMMA InitTypes == Init => Types
<1> SUFFICES ASSUME Init PROVE Types
  OBVIOUS
<1>1. NoTalk \in Talk /\ None \in Keys /\ <<>> \in Seq(Copies)
  BY EmptySeq DEF NoTalk, Talk, Keys, Placeholder
<1>2. mem \in Stores
  BY <1>1 DEF Init, Stores, Talks, Talk
<1>3. Idle \in Requests
  BY <1>1 DEF Idle, Requests
<1> QED
  BY <1>2, <1>3 DEF Init, Types, Idle

\* The memory of the clean-ups and of a fresh start.
LEMMA SavedType ==
  ASSUME Types, NEW store \in Stores, Saved(store)
  PROVE  disk' \in {disk, store} /\ disk' \in Stores /\ failedSaves' \in Nat
BY DEF Saved, Types

LEMMA CutTalks ==
  ASSUME Types, Cleanup
  PROVE  /\ mem' \in Stores /\ mem'.seat = mem.seat
         /\ \A k \in Keys : mem'.talk[k].msgs \subseteq mem.talk[k].msgs
         /\ \A k \in Keys : mem'.talk[k] = NoTalk \/
              mem'.talk[k] = [mem.talk[k] EXCEPT !.msgs = Newest(mem.talk[k].msgs, KeepLast)]
         /\ \A k \in Keys : Unanswered(mem.talk[k]) =>
              mem'.talk[k] = [mem.talk[k] EXCEPT !.msgs = Newest(mem.talk[k].msgs, KeepLast)]
         /\ gone' = gone \cup UNION {mem.talk[k].msgs \ mem'.talk[k].msgs : k \in Keys}
<1> DEFINE cut(talk) == [talk EXCEPT !.msgs = Newest(talk.msgs, KeepLast)]
<1>1. PICK kept \in SUBSET Keys :
        LET stays(k) == k \in kept \/ Unanswered(mem.talk[k])
            left == [k \in Keys |-> IF stays(k) THEN cut(mem.talk[k]) ELSE NoTalk]
        IN  /\ mem' = [mem EXCEPT !.talk = left]
            /\ gone' = gone \cup UNION {mem.talk[k].msgs \ left[k].msgs : k \in Keys}
  BY DEF Cleanup
<1> DEFINE left == [k \in Keys |-> IF k \in kept \/ Unanswered(mem.talk[k])
                                    THEN cut(mem.talk[k]) ELSE NoTalk]
<1>2. mem' = [mem EXCEPT !.talk = left] /\ mem \in Stores
  BY <1>1 DEF Types
<1>3. \A k \in Keys : mem.talk[k] \in Talk
  BY <1>2 DEF Stores, Talks, Talk
<1>4. ASSUME NEW talk \in Talk PROVE cut(talk) \in Talk /\ cut(talk).msgs \subseteq talk.msgs
  <2>1. Newest(talk.msgs, KeepLast) \subseteq talk.msgs
    BY DEF Newest
  <2> QED
    BY <2>1 DEF Talk
<1>5. NoTalk \in Talk /\ NoTalk.msgs = {}
  BY DEF NoTalk, Talk
<1>6. left \in [Keys -> Talk] /\ \A k \in Keys : left[k].msgs \subseteq mem.talk[k].msgs
  BY <1>3, <1>4, <1>5
<1>7. /\ mem'.talk = left /\ mem'.seat = mem.seat /\ mem'.shop = mem.shop
      /\ mem' \in Stores
  BY <1>2, <1>6 DEF Stores, Talks, Talk
<1>8. \A k \in Keys : left[k] = NoTalk \/ left[k] = cut(mem.talk[k])
  OBVIOUS
<1>9. \A k \in Keys : Unanswered(mem.talk[k]) => left[k] = cut(mem.talk[k])
  OBVIOUS
<1> QED
  BY <1>1, <1>6, <1>7, <1>8, <1>9

\* Looking at the conversation of the seat's account.
LEMMA LookedAt ==
  ASSUME Types, ClearUnread
  PROVE  /\ mem' \in Stores /\ mem'.seat = mem.seat /\ mem.seat \in Keys \ {Placeholder}
         /\ \A k \in Keys : mem'.talk[k].msgs = mem.talk[k].msgs
         /\ mem'.talk[mem.seat].unread = 0 /\ mem'.talk[mem.seat].fresh = {}
         /\ \A k \in Keys \ {mem.seat} : mem'.talk[k] = mem.talk[k]
<1> DEFINE a == mem.seat
<1>1. mem \in Stores /\ a \in Keys /\ a # None
  BY DEF Types, Stores, ClearUnread, Listed
<1>2. mem.talk \in [Keys -> Talk]
  BY <1>1 DEF Stores, Talks, Talk
<1>3. mem' = [mem EXCEPT !.talk[a] = [@ EXCEPT !.unread = 0, !.fresh = {}]]
  BY DEF ClearUnread
<1> HIDE DEF a
<1> DEFINE read == [mem.talk[a] EXCEPT !.unread = 0, !.fresh = {}]
<1>4. read \in Talk /\ read.msgs = mem.talk[a].msgs /\ read.unread = 0 /\ read.fresh = {}
  BY <1>1, <1>2 DEF Talk
<1>5. mem' = [mem EXCEPT !.talk = [mem.talk EXCEPT ![a] = read]]
  BY <1>3
<1> HIDE DEF read
<1>6. /\ mem'.talk = [mem.talk EXCEPT ![a] = read]
      /\ mem'.seat = mem.seat /\ mem'.shop = mem.shop
      /\ mem' = [talk |-> mem'.talk, seat |-> mem'.seat, shop |-> mem'.shop]
  BY <1>1, <1>5 DEF Stores
<1>7. mem' \in Stores
  BY <1>1, <1>2, <1>4, <1>6 DEF Stores, Talks, Talk
<1> QED
  BY <1>1, <1>2, <1>4, <1>6, <1>7 DEF a, Placeholder

\* Everything is cleared.
LEMMA ClearedAll ==
  ASSUME Types, ClearAll
  PROVE  /\ mem' \in Stores /\ mem'.seat = mem.seat
         /\ \A k \in Keys : mem'.talk[k] = NoTalk
BY DEF ClearAll, Types, Stores, Talks, NoTalk

\* The center names an account.
LEMMA Bootstrapped ==
  ASSUME Types, NEW account \in Accounts, Bootstrap(account)
  PROVE  mem' \in Stores /\ mem'.seat = mem.seat /\ mem'.talk = mem.talk
BY DEF Bootstrap, Types, Stores, Keys

\* The next process starts from the file.
LEMMA Reloaded ==
  ASSUME Types, Restart
  PROVE  mem' \in Stores /\ mem'.talk = disk.talk
<1> DEFINE held == {k \in Accounts : disk.talk[k].msgs # {}}
           seat == IF disk.seat = None /\ Cardinality(held) = 1
                   THEN CHOOSE k \in held : TRUE ELSE disk.seat
<1>1. mem' = [disk EXCEPT !.seat = seat] /\ disk \in Stores
  BY DEF Restart, Types
<1>2. seat \in Keys
  <2>1. CASE held = {}
    <3>1. Cardinality(held) = 0
      BY <2>1, FS_EmptySet
    <3> QED
      BY <1>1, <3>1 DEF Stores
  <2>2. CASE held # {}
    BY <1>1, <2>2 DEF Stores, Keys
  <2> QED
    BY <2>1, <2>2
<1> HIDE DEF seat
<1> QED
  BY <1>1, <1>2 DEF Stores

\* The copy a handler stores, and what it leaves to do.
LEMMA StoreHandled ==
  ASSUME Types, NEW h \in Handlers, Store(h)
  PROVE  /\ handler[h].key \in Keys /\ Head(handler[h].todo).msg \in Msgs
         /\ mem' = Stored(mem, handler[h].key, Head(handler[h].todo).msg)
         /\ mem' \in Stores
         /\ handler' \in [Handlers -> Requests]
         /\ \A g \in Handlers \ {h} : handler'[g] = handler[g]
         /\ handler'[h].todo = Tail(handler[h].todo)
         /\ handler'[h].posted = handler[h].posted
         /\ \/ handler'[h].pc = "resolve" /\ Tail(handler[h].todo) # <<>>
            \/ handler'[h].pc = "save" /\ Tail(handler[h].todo) = <<>>
<1> DEFINE todo == handler[h].todo
<1>1. /\ handler[h] \in Requests /\ todo \in Seq(Copies) /\ todo # <<>>
      /\ handler \in [Handlers -> Requests] /\ handler[h].key \in Keys /\ mem \in Stores
  BY DEF Types, Requests, Store
<1>2. Head(todo) \in Copies /\ Tail(todo) \in Seq(Copies) /\ Len(Tail(todo)) = Len(todo) - 1
  BY <1>1, HeadTailProperties
<1>3. Head(todo).msg \in Msgs /\ mem' = Stored(mem, handler[h].key, Head(todo).msg)
  <2>1. Head(todo).msg \in Msgs
    BY <1>2 DEF Copies
  <2> QED
    BY <2>1 DEF Store
<1>4. Len(todo) \in Nat \ {0} /\ (Len(todo) > 1 <=> Tail(todo) # <<>>)
  <2> DEFINE rest == Tail(todo)
  <2>1. Len(todo) \in Nat \ {0} /\ (rest # <<>> => Len(rest) \in Nat \ {0})
    BY <1>1, <1>2, EmptySeq
  <2>2. rest = <<>> => Len(rest) = 0
    BY EmptySeq
  <2>3. Len(rest) = Len(todo) - 1
    BY <1>2
  <2> HIDE DEF rest, todo
  <2> QED
    BY <2>1, <2>2, <2>3 DEF rest
<1> DEFINE after == IF Len(todo) > 1 THEN "resolve" ELSE "save"
           request == [handler[h] EXCEPT !.key = None, !.todo = Tail(todo), !.pc = after]
<1>6. /\ request \in Requests /\ request.pc = after
      /\ request.todo = Tail(todo) /\ request.posted = handler[h].posted
  <2>1. after \in {"idle", "resolve", "store", "save", "answer"} /\ None \in Keys
    BY DEF Keys, Placeholder
  <2> HIDE DEF after
  <2> QED
    BY <1>1, <1>2, <2>1 DEF Requests
<1>7. handler' = [handler EXCEPT ![h] = request]
  BY DEF Store
<1>8. mem' \in Stores
  BY <1>1, <1>3, StoredTalks
<1> HIDE DEF request
<1>9. /\ handler' \in [Handlers -> Requests] /\ handler'[h] = request
      /\ \A g \in Handlers \ {h} : handler'[g] = handler[g]
  BY <1>1, <1>6, <1>7
<1> QED
  BY <1>1, <1>3, <1>4, <1>6, <1>8, <1>9

LEMMA TypesStep == Types /\ [Next]_vars => Types'
<1> SUFFICES ASSUME Types, [Next]_vars PROVE Types'
  OBVIOUS
<1>t. /\ mem \in Stores /\ disk \in Stores
      /\ version \in Nat /\ restarts \in Nat /\ failedSaves \in Nat
      /\ handler \in [Handlers -> Requests]
      /\ window \in [after : Nat, due : BOOLEAN, shown : SUBSET Msgs]
      /\ \A h \in Handlers :
           /\ handler[h].pc \in {"resolve", "store"} => handler[h].todo # <<>>
           /\ handler[h].pc = "save" => handler[h].todo = <<>>
  BY DEF Types
<1>1. ASSUME NEW h \in Handlers, NEW batch \in Batches, Receive(h, batch) PROVE Types'
  <2>1. batch \in Seq(Copies) /\ batch # <<>>
    BY StoreAssumption DEF Copies
  <2>2. [pc |-> "resolve", todo |-> batch, posted |-> batch, key |-> None] \in Requests
    BY <2>1 DEF Requests, Keys, Placeholder
  <2> QED
    BY <1>1, <1>t, <2>1, <2>2 DEF Receive, Types
<1>2. ASSUME NEW h \in Handlers, Resolve(h) PROVE Types'
  <2>1. PICK key \in Keys :
          handler' = [handler EXCEPT ![h] = [@ EXCEPT !.pc = "store", !.key = key]]
    <3>1. /\ handler[h].todo \in Seq(Copies) /\ handler[h].todo # <<>>
      BY <1>2, <1>t DEF Resolve, Requests
    <3>2. Head(handler[h].todo).account \in Keys
      <4>1. Head(handler[h].todo) \in Copies
        BY <3>1, HeadTailProperties
      <4> QED
        BY <4>1 DEF Copies
    <3>3. mem.seat \in Keys /\ mem.shop \in Keys
      BY <1>t DEF Stores
    <3> QED
      BY <1>2, <3>2, <3>3 DEF Resolve
  <2> DEFINE request == [handler[h] EXCEPT !.pc = "store", !.key = key]
  <2>2. request \in Requests /\ request.pc = "store" /\ request.todo = handler[h].todo
    BY <1>t DEF Requests
  <2>3. handler' = [handler EXCEPT ![h] = request]
    BY <1>t, <2>1
  <2>4. handler[h].todo # <<>>
    BY <1>2, <1>t DEF Resolve
  <2> HIDE DEF request
  <2> QED
    BY <1>2, <1>t, <2>2, <2>3, <2>4 DEF Resolve, Types
<1>3. ASSUME NEW h \in Handlers, Store(h) PROVE Types'
  <2>1. version' \in Nat /\ UNCHANGED <<disk, window, restarts, failedSaves>>
    BY <1>3, <1>t DEF Store
  <2> QED
    BY <1>3, <1>t, <2>1, StoreHandled DEF Types
<1>4. ASSUME NEW h \in Handlers, NEW pc \in {"answer"}, handler[h].pc = "save",
             handler' = [handler EXCEPT ![h].pc = pc]
      PROVE  /\ handler' \in [Handlers -> Requests]
             /\ \A g \in Handlers :
                  /\ handler'[g].pc \in {"resolve", "store"} => handler'[g].todo # <<>>
                  /\ handler'[g].pc = "save" => handler'[g].todo = <<>>
  BY <1>4, <1>t DEF Requests
<1>5. ASSUME NEW h \in Handlers, Save(h) PROVE Types'
  BY <1>5, <1>t, <1>4, SavedType DEF Save, Types
<1>6. Idle \in Requests /\ Idle.pc = "idle"
  BY EmptySeq DEF Idle, Requests, Keys, Placeholder
<1>7. ASSUME NEW h \in Handlers, Answer(h) PROVE Types'
  BY <1>7, <1>t, <1>6 DEF Answer, Types
<1>8. ASSUME NEW account \in Accounts, Bootstrap(account) PROVE Types'
  <2>1. mem' \in Stores /\ disk' \in Stores /\ failedSaves' \in Nat
    BY <1>8, Bootstrapped, SavedType DEF Bootstrap
  <2> QED
    BY <1>8, <1>t, <2>1 DEF Bootstrap, Types
<1>9. CASE ClearUnread \/ Cleanup \/ ClearAll
  <2>1. mem' \in Stores /\ disk' \in Stores /\ failedSaves' \in Nat
    <3>1. mem' \in Stores /\ Saved(mem')
      BY <1>9, LookedAt, CutTalks, ClearedAll DEF ClearUnread, Cleanup, ClearAll
    <3> QED
      BY <3>1, SavedType
  <2> QED
    BY <1>9, <1>t, <2>1 DEF ClearUnread, Cleanup, ClearAll, Types
<1>10. CASE StreamEvent
  BY <1>10, <1>t DEF StreamEvent, Types
<1>11. CASE FetchList
  <2>1. Listed \subseteq Msgs
    BY <1>t DEF Listed, Stores, Talks
  <2> QED
    BY <1>11, <1>t, <2>1 DEF FetchList, Types
<1>12. CASE Restart
  BY <1>12, <1>t, <1>6, Reloaded DEF Restart, Types
<1>13. CASE UNCHANGED vars
  BY <1>13, <1>t DEF vars, Types
<1> QED
  BY <1>1, <1>2, <1>3, <1>5, <1>7, <1>8, <1>9, <1>10, <1>11, <1>12, <1>13 DEF Next

-----------------------------------------------------------------------------
(* AckedStays.                                                             *)

LEMMA InitAck == Init => AckInv
<1> SUFFICES ASSUME Init PROVE AckInv
  OBVIOUS
<1>1. Types /\ disk = mem
  BY InitTypes DEF Init
<1>2. DOMAIN <<>> = {}
  OBVIOUS
<1> QED
  BY <1>1, <1>2 DEF Init, AckInv, FileIsHeld, Holds, WorkedOff, WorkedOffBy, Idle, AckedIsSafe

\* While the process lives, a message leaves memory only by a clean-up; nothing that
\* was cleaned up comes back into the account.
LEMMA HeldStays ==
  ASSUME Types, [Next]_vars
  PROVE  /\ gone \subseteq gone'
         /\ \/ \A x : Holds(mem, x) => Holds(mem', x) \/ x \in gone'
            \/ Restart
<1> DEFINE Stays == \A x : Holds(mem, x) => Holds(mem', x) \/ x \in gone'
<1>1. ASSUME NEW h \in Handlers, Store(h) PROVE Stays /\ UNCHANGED gone
  <2>1. \A x : Holds(mem, x) => Holds(mem', x)
    BY <1>1, StoreHandled, StoredHolds DEF Types
  <2> QED
    BY <1>1, <2>1 DEF Store
<1>2. ASSUME \A k \in Keys : mem'.talk[k].msgs = mem.talk[k].msgs, UNCHANGED gone
      PROVE  Stays /\ UNCHANGED gone
  BY <1>2 DEF Holds
<1>3. ASSUME NEW h \in Handlers,
             (\E batch \in Batches : Receive(h, batch)) \/ Resolve(h) \/ Save(h) \/ Answer(h)
      PROVE  Stays /\ UNCHANGED gone
  BY <1>3, <1>2 DEF Receive, Resolve, Save, Answer
<1>4. ASSUME NEW account \in Accounts, Bootstrap(account) PROVE Stays /\ UNCHANGED gone
  BY <1>4, <1>2, Bootstrapped DEF Bootstrap
<1>5. CASE ClearUnread
  BY <1>5, <1>2, LookedAt DEF ClearUnread
<1>6. CASE Cleanup
  <2>1. gone' = gone \cup UNION {mem.talk[k].msgs \ mem'.talk[k].msgs : k \in Keys}
    BY <1>6, CutTalks
  <2> QED
    BY <2>1 DEF Holds
<1>7. CASE ClearAll
  BY <1>7 DEF ClearAll, Holds
<1>8. CASE StreamEvent \/ FetchList \/ UNCHANGED vars
  BY <1>8, <1>2 DEF StreamEvent, FetchList, vars
<1>9. CASE Restart
  BY <1>9 DEF Restart
<1> QED
  BY <1>1, <1>3, <1>4, <1>5, <1>6, <1>7, <1>8, <1>9 DEF Next

\* A save replaces the file by what memory holds, or counts as failed.
LEMMA SafeStays ==
  ASSUME Types, FileIsHeld, [Next]_vars
  PROVE  /\ FileIsHeld'
         /\ \A x \in Msgs : Safe(x) =>
              \/ x \in gone'
              \/ failedSaves' = 0 /\ Holds(disk', x)
              \/ failedSaves' # 0 /\ (restarts' = 0 => Holds(mem', x))
<1> DEFINE After(x) == \/ x \in gone'
                       \/ failedSaves' = 0 /\ Holds(disk', x)
                       \/ failedSaves' # 0 /\ (restarts' = 0 => Holds(mem', x))
<1>1. failedSaves \in Nat /\ restarts \in Nat
  BY DEF Types
<1>2. CASE Restart
  <2>1. /\ UNCHANGED <<disk, gone, failedSaves>> /\ restarts' # 0
        /\ mem'.talk = disk.talk
    BY <1>1, <1>2, Reloaded DEF Restart
  <2>2. \A x \in Msgs : Safe(x) => After(x)
    BY <2>1 DEF Safe
  <2> QED
    BY <2>1, <2>2 DEF FileIsHeld, Holds
<1>3. CASE ~Restart
  <2>1. /\ gone \subseteq gone' /\ UNCHANGED restarts
        /\ \A x : Holds(mem, x) => Holds(mem', x) \/ x \in gone'
    BY <1>3, HeldStays DEF Next, Receive, Resolve, Store, Save, Answer, Bootstrap, ClearUnread,
       Cleanup, ClearAll, StreamEvent, FetchList, vars
  <2>2. Saved(mem') \/ UNCHANGED <<disk, failedSaves>>
    BY <1>3 DEF Next, Receive, Resolve, Store, Save, Answer, Bootstrap, ClearUnread,
       Cleanup, ClearAll, StreamEvent, FetchList, vars
  <2>3. \/ disk' = mem' /\ UNCHANGED failedSaves
        \/ UNCHANGED disk /\ failedSaves' # 0
        \/ UNCHANGED <<disk, failedSaves>>
    BY <1>1, <2>2 DEF Saved
  <2>4. FileIsHeld'
    BY <2>1, <2>3 DEF FileIsHeld
  <2>5. \A x \in Msgs : Safe(x) => After(x)
    BY <2>1, <2>3 DEF Safe, FileIsHeld
  <2> QED
    BY <2>4, <2>5
<1> QED
  BY <1>2, <1>3

LEMMA AckStep == AckInv /\ [Next]_vars => AckInv'
<1> SUFFICES ASSUME AckInv, [Next]_vars PROVE AckInv'
  OBVIOUS
<1>k. Types /\ Types' /\ FileIsHeld /\ WorkedOff /\ AckedIsSafe
  BY TypesStep DEF AckInv
<1> DEFINE After(x) == \/ x \in gone'
                       \/ failedSaves' = 0 /\ Holds(disk', x)
                       \/ failedSaves' # 0 /\ (restarts' = 0 => Holds(mem', x))
<1>s. FileIsHeld' /\ \A x \in Msgs : Safe(x) => After(x)
  BY <1>k, SafeStays
<1>p. ASSUME NEW h \in Handlers
      PROVE  /\ handler[h].todo \in Seq(Copies)
             /\ \A i \in DOMAIN handler[h].posted : handler[h].posted[i].msg \in Msgs
  <2>1. handler[h].posted \in Seq(Copies) /\ handler[h].todo \in Seq(Copies)
    BY <1>k DEF Types, Requests
  <2>2. \A i \in DOMAIN handler[h].posted : handler[h].posted[i] \in Copies
    BY <2>1, ElementOfSeq, LenProperties
  <2> QED
    BY <2>1, <2>2 DEF Copies
<1>a. UNCHANGED acked => AckedIsSafe'
  BY <1>k, <1>s DEF AckedIsSafe, Safe
<1>m. ~Restart => \A x : Holds(mem, x) \/ x \in gone => Holds(mem', x) \/ x \in gone'
  BY <1>k, HeldStays
<1>b. ASSUME NEW g \in Handlers, ~Restart,
             handler'[g].posted = handler[g].posted, handler'[g].todo = handler[g].todo,
             handler'[g].pc \in {"resolve", "store", "save"} =>
               handler[g].pc \in {"resolve", "store", "save"},
             handler'[g].pc = "answer" => handler[g].pc = "answer"
      PROVE  WorkedOffBy(g)'
  BY <1>b, <1>k, <1>m, <1>p, <1>s DEF WorkedOff, WorkedOffBy, Safe
<1>e. ASSUME UNCHANGED <<handler, acked>>, ~Restart PROVE AckInv'
  <2>1. WorkedOff'
    BY <1>e, <1>b DEF WorkedOff
  <2> QED
    BY <1>e, <2>1, <1>a, <1>k, <1>s DEF AckInv
<1>1. ASSUME NEW h \in Handlers, NEW batch \in Batches, Receive(h, batch) PROVE AckInv'
  <2>1. /\ handler'[h].posted = batch /\ handler'[h].todo = batch
        /\ handler'[h].pc = "resolve" /\ UNCHANGED acked
        /\ \A g \in Handlers \ {h} : handler'[g] = handler[g]
    BY <1>1, <1>k DEF Receive, Types
  <2>2. WorkedOffBy(h)'
    BY <2>1 DEF WorkedOffBy
  <2>3. UNCHANGED mem /\ (Restart => handler'[h] = Idle)
    BY <1>1 DEF Receive, Restart
  <2>4. ~Restart
    BY <2>1, <2>3 DEF Idle
  <2> QED
    BY <2>1, <2>2, <2>4, <1>a, <1>b, <1>k, <1>s DEF AckInv, WorkedOff
<1>2. ASSUME NEW h \in Handlers, Resolve(h), ~Restart PROVE AckInv'
  <2>1. /\ handler'[h].posted = handler[h].posted /\ handler'[h].todo = handler[h].todo
        /\ handler[h].pc = "resolve" /\ handler'[h].pc = "store" /\ UNCHANGED acked
        /\ \A g \in Handlers \ {h} : handler'[g] = handler[g]
    BY <1>2, <1>k DEF Resolve, Types, Requests
  <2> QED
    BY <1>2, <2>1, <1>a, <1>b, <1>k, <1>s DEF AckInv, WorkedOff
<1>3. ASSUME NEW h \in Handlers, Store(h), ~Restart PROVE AckInv'
  <2> DEFINE todo == handler[h].todo
  <2>1. todo \in Seq(Copies) /\ todo # <<>> /\ handler[h].pc = "store" /\ UNCHANGED acked
    BY <1>3, <1>k, <1>p DEF Store, Types
  <2>2. /\ handler'[h].posted = handler[h].posted /\ handler'[h].todo = Tail(todo)
        /\ handler'[h].pc # "answer"
        /\ \A g \in Handlers \ {h} : handler'[g] = handler[g]
        /\ Holds(mem', Head(todo).msg)
    BY <1>3, <1>k, StoreHandled, StoredHolds DEF Types
  <2>3. \A j \in DOMAIN todo :
          todo[j] = Head(todo) \/ \E i \in DOMAIN Tail(todo) : Tail(todo)[i] = todo[j]
    <3>1. /\ Tail(todo) \in Seq(Copies) /\ Len(Tail(todo)) = Len(todo) - 1
          /\ \A i \in 1..Len(Tail(todo)) : Tail(todo)[i] = todo[i + 1]
      BY <2>1, HeadTailProperties
    <3>2. /\ DOMAIN todo = 1..Len(todo) /\ DOMAIN Tail(todo) = 1..Len(Tail(todo))
          /\ Len(todo) \in Nat
      BY <2>1, <3>1, LenProperties
    <3>3. Head(todo) = todo[1]
      BY <2>1
    <3>4. ASSUME NEW j \in DOMAIN todo, j # 1
          PROVE  j - 1 \in DOMAIN Tail(todo) /\ Tail(todo)[j - 1] = todo[j]
      BY <3>1, <3>2, <3>4
    <3> QED
      BY <3>3, <3>4
  <2>4. \A i \in DOMAIN handler[h].posted :
          LET copy == handler[h].posted[i]
          IN  \/ Holds(mem, copy.msg) \/ copy.msg \in gone
              \/ \E j \in DOMAIN todo : todo[j] = copy
    BY <2>1, <1>k DEF WorkedOff, WorkedOffBy
  <2> HIDE DEF todo
  <2>5. WorkedOffBy(h)'
    BY <1>3, <2>2, <2>3, <2>4, <1>m DEF WorkedOffBy
  <2> QED
    BY <1>3, <2>1, <2>2, <2>5, <1>a, <1>b, <1>k, <1>s DEF AckInv, WorkedOff
<1>4. ASSUME NEW h \in Handlers, Save(h), ~Restart PROVE AckInv'
  <2>1. /\ handler[h].pc = "save" /\ handler[h].todo = <<>>
        /\ UNCHANGED <<mem, acked, gone, restarts>> /\ Saved(mem)
    BY <1>4, <1>k DEF Save, Types
  <2>2. /\ handler'[h].posted = handler[h].posted /\ handler'[h].pc = "answer"
        /\ \A g \in Handlers \ {h} : handler'[g] = handler[g]
    BY <1>4, <1>k DEF Save, Types, Requests
  <2>3. \A i \in DOMAIN handler[h].posted :
          LET x == handler[h].posted[i].msg IN Holds(mem, x) \/ x \in gone
    BY <2>1, <1>k DEF WorkedOff, WorkedOffBy
  <2>4. disk' = mem \/ failedSaves' # 0
    BY <2>1, <1>k DEF Saved, Types
  <2>5. WorkedOffBy(h)'
    BY <2>1, <2>2, <2>3, <2>4 DEF WorkedOffBy, Safe
  <2> QED
    BY <1>4, <2>1, <2>2, <2>5, <1>a, <1>b, <1>k, <1>s DEF AckInv, WorkedOff
<1>5. ASSUME NEW h \in Handlers, Answer(h), ~Restart PROVE AckInv'
  <2>1. /\ handler'[h].pc = "idle" /\ handler[h].pc = "answer"
        /\ \A g \in Handlers \ {h} : handler'[g] = handler[g]
        /\ acked' \subseteq acked \cup {handler[h].posted[i].msg : i \in DOMAIN handler[h].posted}
    BY <1>5, <1>k DEF Answer, Types, Idle
  <2>2. WorkedOffBy(h)'
    BY <2>1 DEF WorkedOffBy
  <2>3. \A x \in acked' : x \in Msgs /\ Safe(x)
    BY <2>1, <1>k, <1>p DEF AckedIsSafe, WorkedOff, WorkedOffBy
  <2>4. AckedIsSafe'
    BY <2>3, <1>s DEF AckedIsSafe, Safe
  <2> QED
    BY <1>5, <2>1, <2>2, <2>4, <1>b, <1>k, <1>s DEF AckInv, WorkedOff
<1>6. ASSUME NEW account \in Accounts, Bootstrap(account), ~Restart PROVE AckInv'
  BY <1>6, <1>e DEF Bootstrap
<1>7. CASE /\ ClearUnread \/ Cleanup \/ ClearAll \/ StreamEvent \/ FetchList \/ UNCHANGED vars
           /\ ~Restart
  BY <1>7, <1>e DEF ClearUnread, Cleanup, ClearAll, StreamEvent, FetchList, vars
<1>8. CASE Restart
  <2>1. UNCHANGED acked /\ \A g \in Handlers : handler'[g].pc = "idle"
    BY <1>8 DEF Restart, Idle
  <2>2. WorkedOff'
    BY <2>1 DEF WorkedOff, WorkedOffBy
  <2> QED
    BY <2>1, <2>2, <1>a, <1>k, <1>s DEF AckInv
<1> QED
  BY <1>1, <1>2, <1>3, <1>4, <1>5, <1>6, <1>7, <1>8 DEF Next

\* What the bridge was told is committed is on file, or in memory once a save has
\* failed, unless a clean-up took it: whatever requests interleave (do_POST, save).
THEOREM AckedStays == Spec => []AckedIsOnFile
<1>1. AckInv => AckedIsOnFile
  BY DEF AckInv, AckedIsSafe, Safe, Holds, AckedIsOnFile, OnFile
<1> QED
  BY InitAck, AckStep, <1>1, PTL DEF Spec

-----------------------------------------------------------------------------
(* NewsArrives.                                                            *)

LEMMA NewsStep == NewsInv /\ [Next]_vars => NewsInv'
<1> SUFFICES ASSUME NewsInv, [Next]_vars PROVE NewsInv'
  OBVIOUS
<1>k. Types /\ Types' /\ SeenIsPast /\ NewsIsTold
  BY TypesStep DEF NewsInv
<1>t. /\ version \in Nat /\ window \in [after : Nat, due : BOOLEAN, shown : SUBSET Msgs]
  BY <1>k DEF Types
<1>q. ASSUME UNCHANGED <<window, restarts>>,
             \/ version' = version /\ Listed' \subseteq Listed
             \/ version' = version + 1
      PROVE  NewsInv'
  <2>1. SeenIsPast'
    BY <1>q, <1>k, <1>t DEF SeenIsPast
  <2>2. NewsIsTold'
    BY <1>q, <1>k, <1>t DEF SeenIsPast, NewsIsTold
  <2> QED
    BY <2>1, <2>2, <1>k DEF NewsInv
<1>l. ASSUME mem'.seat = mem.seat,
             \A k \in Keys : mem'.talk[k].msgs \subseteq mem.talk[k].msgs
      PROVE  Listed' \subseteq Listed
  <2>1. mem.seat \in Keys
    BY <1>k DEF Types, Stores
  <2> QED
    BY <1>l, <2>1 DEF Listed
<1>u. UNCHANGED mem => Listed' \subseteq Listed
  BY DEF Listed
<1>1. ASSUME NEW h \in Handlers,
             (\E batch \in Batches : Receive(h, batch)) \/ Resolve(h) \/ Save(h) \/ Answer(h)
      PROVE  NewsInv'
  BY <1>1, <1>q, <1>u DEF Receive, Resolve, Save, Answer
<1>2. ASSUME NEW h \in Handlers, Store(h) PROVE NewsInv'
  BY <1>2, <1>q, <1>u DEF Store
<1>3. ASSUME NEW account \in Accounts, Bootstrap(account) PROVE NewsInv'
  BY <1>3, <1>q DEF Bootstrap
<1>4. CASE ClearUnread
  BY <1>4, <1>k, <1>q, <1>l, LookedAt DEF ClearUnread
<1>5. CASE Cleanup
  BY <1>5, <1>k, <1>q, <1>l, CutTalks DEF Cleanup
<1>6. CASE ClearAll
  <2>1. \A k \in Keys : mem'.talk[k].msgs = {}
    BY <1>6, <1>k, ClearedAll DEF NoTalk
  <2> QED
    BY <1>6, <1>k, <2>1, <1>q, <1>l, ClearedAll DEF ClearAll
<1>7. CASE StreamEvent
  <2>1. /\ window'.due = TRUE /\ window'.after = version /\ UNCHANGED version
    BY <1>7, <1>t DEF StreamEvent
  <2> QED
    BY <2>1, <1>k, <1>t DEF NewsInv, SeenIsPast, NewsIsTold
<1>8. CASE FetchList
  <2>1. /\ window'.shown = Listed /\ window'.after = window.after
        /\ UNCHANGED <<mem, version, restarts>>
    BY <1>8, <1>t DEF FetchList
  <2>2. Listed' = Listed
    BY <2>1 DEF Listed
  <2> QED
    BY <2>1, <2>2, <1>k DEF NewsInv, SeenIsPast, NewsIsTold
<1>9. CASE Restart
  <2>1. restarts' # 0
    BY <1>9, <1>k DEF Restart, Types
  <2> QED
    BY <2>1, <1>k DEF NewsInv, SeenIsPast, NewsIsTold
<1>10. CASE UNCHANGED vars
  BY <1>10, <1>q, <1>u DEF vars
<1> QED
  BY <1>1, <1>2, <1>3, <1>4, <1>5, <1>6, <1>7, <1>8, <1>9, <1>10 DEF Next

\* A window of this process that misses a message it should list is about to fetch
\* the list, or the stream will tell it (event_version, wait_for_event).
THEOREM NewsArrives == Spec => []NewsIsTold
<1>1. Init => NewsInv
  <2> SUFFICES ASSUME Init PROVE NewsInv
    OBVIOUS
  <2> QED
    BY InitTypes DEF Init, NewsInv, SeenIsPast, NewsIsTold, Listed
<1>2. NewsInv => NewsIsTold
  BY DEF NewsInv
<1> QED
  BY <1>1, <1>2, NewsStep, PTL DEF Spec

-----------------------------------------------------------------------------
(* UnreadCounts.                                                           *)

\* Counting looks at the conversations only.
LEMMA CountsTalk ==
  ASSUME NEW store, NEW other, store.talk = other.talk, Counts(store)
  PROVE  Counts(other)
BY DEF Counts

LEMMA UnreadStep == UnreadInv /\ [Next]_vars => UnreadInv'
<1> SUFFICES ASSUME UnreadInv, [Next]_vars PROVE UnreadInv'
  OBVIOUS
<1>k. Types /\ Types' /\ (gone = {} => Counts(mem) /\ Counts(disk))
  BY TypesStep DEF UnreadInv
<1>g. gone' = {} => gone = {}
  BY <1>k, HeldStays
<1>s. ASSUME gone = {} => Counts(mem') \/ gone' # {}, Saved(mem') \/ UNCHANGED disk
      PROVE  UnreadInv'
  <2>1. disk' \in {disk, mem'}
    BY <1>s DEF Saved
  <2> QED
    BY <1>s, <2>1, <1>g, <1>k DEF UnreadInv
<1>1. ASSUME NEW h \in Handlers,
             (\E batch \in Batches : Receive(h, batch)) \/ Resolve(h) \/ Answer(h)
      PROVE  UnreadInv'
  BY <1>1, <1>k, <1>s DEF Receive, Resolve, Answer
<1>2. ASSUME NEW h \in Handlers, Store(h) PROVE UnreadInv'
  <2>1. gone = {} => Counts(mem')
    BY <1>2, <1>k, StoreHandled, StoredCounts DEF Types
  <2> QED
    BY <1>2, <2>1, <1>s DEF Store
<1>3. ASSUME NEW h \in Handlers, Save(h) PROVE UnreadInv'
  BY <1>3, <1>k, <1>s DEF Save
<1>4. ASSUME NEW account \in Accounts, Bootstrap(account) PROVE UnreadInv'
  <2>1. gone = {} => Counts(mem')
    BY <1>4, <1>k, Bootstrapped, CountsTalk
  <2> QED
    BY <1>4, <2>1, <1>s DEF Bootstrap
<1>5. CASE ClearUnread
  <2>1. ASSUME gone = {} PROVE Counts(mem')
    <3>1. PICK seat \in Keys \ {Placeholder} :
            /\ \A k \in Keys : mem'.talk[k].msgs = mem.talk[k].msgs
            /\ mem'.talk[seat].unread = 0 /\ mem'.talk[seat].fresh = {}
            /\ \A k \in Keys \ {seat} : mem'.talk[k] = mem.talk[k]
      BY <1>5, <1>k, LookedAt
    <3>2. Cardinality({}) = 0 /\ Placeholder \in Keys /\ Counts(mem)
      BY <1>k, <2>1, FS_EmptySet DEF Keys
    <3>3. mem'.talk[seat].unread = Cardinality(mem'.talk[seat].fresh)
      BY <3>1, <3>2
    <3>4. \A k \in Keys \ {seat} : mem'.talk[k] = mem.talk[k] /\ Placeholder # seat
      BY <3>1
    <3> QED
      BY <3>1, <3>2, <3>3, <3>4 DEF Counts
  <2> QED
    BY <1>5, <2>1, <1>s DEF ClearUnread
<1>n. NoTalk.msgs = {} /\ NoTalk.fresh = {} /\ NoTalk.unread = Cardinality({})
  BY FS_EmptySet DEF NoTalk
<1>6. CASE Cleanup
  <2>1. ASSUME gone = {}, gone' = {} PROVE Counts(mem')
    <3>1. ASSUME NEW k \in Keys PROVE mem'.talk[k].msgs = mem.talk[k].msgs
      <4>1. UNION {mem.talk[x].msgs \ mem'.talk[x].msgs : x \in Keys} = {}
        BY <1>6, <1>k, <2>1, CutTalks
      <4>2. mem.talk[k].msgs \ mem'.talk[k].msgs = {}
        BY <4>1
      <4>3. mem'.talk[k].msgs \subseteq mem.talk[k].msgs
        BY <1>6, <1>k, CutTalks
      <4> QED
        BY <4>2, <4>3
    <3>2. \A k \in Keys : mem.talk[k] \in Talk
      BY <1>k DEF Types, Stores, Talks, Talk
    <3>3. ASSUME NEW k \in Keys
          PROVE  \/ mem'.talk[k] = NoTalk
                 \/ /\ mem'.talk[k].fresh = mem.talk[k].fresh
                    /\ mem'.talk[k].unread = mem.talk[k].unread
      BY <1>6, <1>k, <3>2, CutTalks DEF Talk
    <3>4. Placeholder \in Keys /\ Counts(mem)
      BY <1>k, <2>1 DEF Keys
    <3> QED
      BY <1>n, <3>1, <3>3, <3>4 DEF Counts
  <2> QED
    BY <1>6, <2>1, <1>s DEF Cleanup
<1>7. CASE ClearAll
  <2>1. Counts(mem')
    BY <1>7, <1>k, <1>n, ClearedAll DEF Counts, Keys
  <2> QED
    BY <1>7, <2>1, <1>s DEF ClearAll
<1>8. CASE StreamEvent \/ FetchList \/ UNCHANGED vars
  BY <1>8, <1>k, <1>s DEF StreamEvent, FetchList, vars
<1>9. CASE Restart
  <2>1. gone = {} => Counts(mem')
    BY <1>9, <1>k, Reloaded, CountsTalk
  <2> QED
    BY <1>9, <2>1, <1>s DEF Restart
<1> QED
  BY <1>1, <1>2, <1>3, <1>4, <1>5, <1>6, <1>7, <1>8, <1>9 DEF Next

\* The unread number counts the buyer's messages that joined the conversation since it
\* was last looked at, each once, whatever copies arrived and whatever conversation
\* they were first kept in (publish, clear_unread).
THEOREM UnreadCounts == Spec => []UnreadIsFresh
<1>1. Init => UnreadInv
  <2> SUFFICES ASSUME Init PROVE UnreadInv
    OBVIOUS
  <2>1. Types /\ disk = mem
    BY InitTypes DEF Init
  <2>2. \A k \in Keys : mem.talk[k] = NoTalk
    BY DEF Init
  <2>3. Counts(mem)
    BY <2>2, FS_EmptySet DEF Counts, NoTalk, Keys
  <2> QED
    BY <2>1, <2>3 DEF UnreadInv
<1>2. UnreadInv => UnreadIsFresh
  BY DEF UnreadInv, Counts, UnreadIsFresh
<1> QED
  BY <1>1, <1>2, UnreadStep, PTL DEF Spec

-----------------------------------------------------------------------------
(* LastWordKept.                                                           *)

\* A conversation whose last word is the buyer's counts as unanswered, and a clean-up
\* that keeps at least one message keeps that word.
LEMMA LastWordIsNewest ==
  ASSUME Types, NEW k \in Keys, NEW m \in BuyerMsgs, LastWord(m, mem.talk[k].msgs)
  PROVE  Unanswered(mem.talk[k]) /\ m \in Newest(mem.talk[k].msgs, KeepLast)
<1> DEFINE msgs == mem.talk[k].msgs
<1>1. msgs \subseteq Nat
  BY StoreAssumption DEF Types, Stores, Talks
<1>2. m \in msgs /\ \A x \in msgs : m >= x
  BY <1>1 DEF LastWord
<1>3. Max(msgs) \in msgs /\ \A x \in msgs : Max(msgs) >= x
  BY <1>2 DEF Max
<1>4. Max(msgs) = m
  BY <1>1, <1>2, <1>3
<1>5. {x \in msgs : x > m} = {}
  <2>1. \A x \in msgs : x \in Nat /\ m \in Nat /\ ~(x > m)
    BY <1>1, <1>2
  <2> QED
    BY <2>1
<1>6. Cardinality({x \in msgs : x > m}) < KeepLast
  <2>1. Cardinality({}) = 0
    BY FS_EmptySet
  <2>2. 0 < KeepLast
    BY StoreAssumption
  <2> QED
    BY <1>5, <2>1, <2>2
<1> QED
  BY <1>2, <1>4, <1>6 DEF Unanswered, Newest

LEMMA LastWordStep ==
  ASSUME Types, [Next]_vars, restarts' = restarts, ~cleared',
         NEW m \in BuyerMsgs, NEW k \in Keys, LastWord(m, mem.talk[k].msgs)
  PROVE  \E other \in Keys : m \in mem'.talk[other].msgs
<1> SUFFICES Holds(mem', m)
  BY DEF Holds
<1>k. m \in mem.talk[k].msgs
  BY DEF LastWord
<1>u. ASSUME mem'.talk[k].msgs = mem.talk[k].msgs PROVE Holds(mem', m)
  BY <1>u, <1>k DEF Holds
<1>1. ASSUME NEW h \in Handlers,
             (\E batch \in Batches : Receive(h, batch)) \/ Resolve(h) \/ Save(h) \/ Answer(h)
      PROVE  Holds(mem', m)
  BY <1>1, <1>u DEF Receive, Resolve, Save, Answer
<1>2. ASSUME NEW h \in Handlers, Store(h) PROVE Holds(mem', m)
  <2>1. Holds(mem, m)
    BY <1>k DEF Holds
  <2> QED
    BY <1>2, <2>1, StoreHandled, StoredHolds DEF Types
<1>3. ASSUME NEW account \in Accounts, Bootstrap(account) PROVE Holds(mem', m)
  BY <1>3, <1>u, Bootstrapped
<1>4. CASE ClearUnread
  BY <1>4, <1>u, LookedAt
<1>5. CASE Cleanup
  <2>1. /\ Unanswered(mem.talk[k]) /\ m \in Newest(mem.talk[k].msgs, KeepLast)
    BY LastWordIsNewest
  <2>2. mem'.talk[k] = [mem.talk[k] EXCEPT !.msgs = Newest(mem.talk[k].msgs, KeepLast)]
    BY <1>5, <2>1, CutTalks
  <2>3. mem.talk[k] \in Talk
    BY DEF Types, Stores, Talks, Talk
  <2> QED
    BY <2>1, <2>2, <2>3 DEF Talk, Holds
<1>6. CASE ClearAll
  BY <1>6 DEF ClearAll
<1>7. CASE StreamEvent \/ FetchList \/ UNCHANGED vars
  BY <1>7, <1>u DEF StreamEvent, FetchList, vars
<1>8. CASE Restart
  BY <1>8 DEF Restart, Types
<1> QED
  BY <1>1, <1>2, <1>3, <1>4, <1>5, <1>6, <1>7, <1>8 DEF Next

\* The buyer's last word is never lost while the gateway runs: a clean-up keeps an
\* unanswered conversation, and the move from the placeholder takes the message along
\* (cleanup_sessions, publish).
THEOREM LastWordKept == Spec => LastWordStays
<1>1. Types /\ [Next]_vars =>
        [restarts' = restarts /\ ~cleared' =>
           \A m \in BuyerMsgs : (\E k \in Keys : LastWord(m, mem.talk[k].msgs)) =>
             \E k \in Keys : m \in mem'.talk[k].msgs]_vars
  BY LastWordStep
<1> QED
  BY <1>1, InitTypes, TypesStep, PTL DEF Spec, LastWordStays

-----------------------------------------------------------------------------
(* What the windows show of who answers.                                   *)

\* ViewShape, with messages counted.
ViewShape == ViewTypeOK /\ messages \in Nat

\* The center took the switch that it answers a window with.
AnsweredIsTaken ==
  \A w \in Windows : toggle[w].pc = "answered" =>
    \E i \in DOMAIN turns : turns[i] = toggle[w].want

\* One request of a path is under way, ...
OneRequest == \A p \in Paths : \A r, q \in inflight[p] : r = q

\* ... and its answer, once it has one, is of the center's past and not older than
\* what is cached.
AnswerIsNewer ==
  \A p \in Paths :
    /\ cache[p] # Unset => cache[p].n <= Len(turns)
    /\ \A r \in inflight[p] : r.pc = "answered" =>
         /\ r.got # Unset /\ r.got.n <= Len(turns)
         /\ cache[p] # Unset => cache[p].n <= r.got.n

ViewInv == ViewShape /\ AnsweredIsTaken /\ SwitchIsConfirmed /\ OneRequest /\ AnswerIsNewer

-----------------------------------------------------------------------------
\* What was decided stays decided: append keeps the earlier turns (Decide).
LEMMA TurnsGrow ==
  ASSUME NEW s \in Seq(Switch), NEW x \in Switch
  PROVE  /\ Append(s, x) \in Seq(Switch)
         /\ Len(Append(s, x)) = Len(s) + 1 /\ Len(s) \in Nat
         /\ DOMAIN s \subseteq DOMAIN Append(s, x)
         /\ \A i \in DOMAIN s : Append(s, x)[i] = s[i]
         /\ Len(s) + 1 \in DOMAIN Append(s, x)
         /\ Append(s, x)[Len(s) + 1] = x
  OBVIOUS

LEMMA ViewStarts == ViewInit => ViewInv
<1> SUFFICES ASSUME ViewInit PROVE ViewInv
  OBVIOUS
<1> USE ViewAssumption DEF ViewInit
<1>1. ViewShape
  BY DEF ViewShape, ViewTypeOK, State, States, Answers, Switch, Untouched
<1>2. AnsweredIsTaken /\ SwitchIsConfirmed
  BY DEF AnsweredIsTaken, SwitchIsConfirmed, State, Untouched
<1>3. OneRequest /\ AnswerIsNewer
  BY DEF OneRequest, AnswerIsNewer
<1> QED
  BY <1>1, <1>2, <1>3 DEF ViewInv

LEMMA ViewTypesStep == ViewShape /\ [ViewNext]_viewVars => ViewShape'
<1> SUFFICES ASSUME ViewShape, [ViewNext]_viewVars PROVE ViewShape'
  OBVIOUS
<1> USE ViewAssumption DEF ViewShape, ViewTypeOK
<1>1. CASE CenterDecides
  <2>1. brain' \in States /\ commands' \subseteq BOOLEAN
    BY <1>1 DEF CenterDecides, Decide, States
  <2>2. turns' \in Seq(Switch)
    BY <1>1, TurnsGrow DEF CenterDecides, Decide, States
  <2> QED
    BY <1>1, <2>1, <2>2 DEF CenterDecides
<1>2. ASSUME NEW c \in commands, ApplyCommand(c) PROVE ViewShape'
  BY <1>2 DEF ApplyCommand, States
<1>3. ASSUME NEW w \in Windows, NEW enabled \in BOOLEAN, Post(w, enabled) PROVE ViewShape'
  BY <1>3 DEF Post, Switch
<1>4. ASSUME NEW w \in Windows, CenterSwitches(w) PROVE ViewShape'
  <2>1. brain' \in States
    BY <1>4 DEF CenterSwitches, Decide, States
  <2>2. turns' \in Seq(Switch)
    BY <1>4, TurnsGrow DEF CenterSwitches, Decide, States
  <2>3. toggle' \in [Windows -> [pc : {"idle", "posted", "answered", "done"},
                             want : Switch, got : Switch]]
    <3>1. brain'.handoff \in Switch
      BY <2>1 DEF States, Switch
    <3>2. PICK got \in Switch : toggle' = [toggle EXCEPT ![w].pc = "answered", ![w].got = got]
      BY <1>4, <3>1 DEF CenterSwitches, Switch
    <3> QED
      BY <3>2
  <2> QED
    BY <1>4, <2>1, <2>2, <2>3 DEF CenterSwitches
<1>5. ASSUME NEW w \in Windows, Answered(w) PROVE ViewShape'
  <2>1. local' \in States
    BY <1>5 DEF Answered, SetSwitch, States, Switch
  <2>2. toggle' \in [Windows -> [pc : {"idle", "posted", "answered", "done"},
                             want : Switch, got : Switch]]
    BY <1>5 DEF Answered, Untouched, Switch
  <2> QED
    BY <1>5, <2>1, <2>2 DEF Answered
<1>6. ASSUME NEW w \in Windows, Refused(w) PROVE ViewShape'
  BY <1>6 DEF Refused, Untouched, Switch
<1>7. CASE Message
  BY <1>7 DEF Message, States
<1>8. CASE Upload
  BY <1>8 DEF Upload, States
<1>9. ASSUME NEW p \in Paths, Schedule(p) PROVE ViewShape'
  BY <1>9 DEF Schedule, Asked
<1>10. ASSUME NEW p \in Paths, CenterAnswers(p) PROVE ViewShape'
  BY <1>10 DEF CenterAnswers, Answers
<1>11. ASSUME NEW p \in Paths, Refreshed(p) PROVE ViewShape'
  BY <1>11 DEF Refreshed
<1>12. CASE UNCHANGED viewVars
  BY <1>12 DEF viewVars
<1> QED
  BY <1>1, <1>2, <1>3, <1>4, <1>5, <1>6, <1>7, <1>8, <1>9, <1>10, <1>11, <1>12 DEF ViewNext

\* The store's switch is set from an answer only, and an answer follows the turn.
LEMMA ConfirmedStep ==
  ViewShape /\ AnsweredIsTaken /\ SwitchIsConfirmed /\ [ViewNext]_viewVars
    => AnsweredIsTaken' /\ SwitchIsConfirmed'
<1> SUFFICES ASSUME ViewShape, AnsweredIsTaken, SwitchIsConfirmed, [ViewNext]_viewVars
             PROVE  AnsweredIsTaken' /\ SwitchIsConfirmed'
  OBVIOUS
<1> USE ViewAssumption DEF ViewShape, ViewTypeOK
<1>a. ASSUME DOMAIN turns \subseteq DOMAIN turns', \A i \in DOMAIN turns : turns'[i] = turns[i],
             UNCHANGED toggle
      PROVE  AnsweredIsTaken'
  BY <1>a DEF AnsweredIsTaken
<1>b. ASSUME DOMAIN turns \subseteq DOMAIN turns', \A i \in DOMAIN turns : turns'[i] = turns[i],
             local'.switch = local.switch
      PROVE  SwitchIsConfirmed'
  BY <1>b DEF SwitchIsConfirmed
<1>1. CASE CenterDecides
  <2>1. DOMAIN turns \subseteq DOMAIN turns' /\ \A i \in DOMAIN turns : turns'[i] = turns[i]
    BY <1>1, TurnsGrow DEF CenterDecides, Decide, States
  <2> QED
    BY <1>1, <1>a, <1>b, <2>1 DEF CenterDecides
<1>2. ASSUME NEW c \in commands, ApplyCommand(c) PROVE AnsweredIsTaken' /\ SwitchIsConfirmed'
  BY <1>2, <1>a, <1>b DEF ApplyCommand, States
<1>3. ASSUME NEW w \in Windows, NEW enabled \in BOOLEAN, Post(w, enabled)
      PROVE  AnsweredIsTaken' /\ SwitchIsConfirmed'
  BY <1>3, <1>b DEF Post, AnsweredIsTaken
<1>4. ASSUME NEW w \in Windows, CenterSwitches(w) PROVE AnsweredIsTaken' /\ SwitchIsConfirmed'
  <2>1. toggle[w].want \in Switch /\ turns' = Append(turns, toggle[w].want)
    BY <1>4 DEF CenterSwitches, Decide, States
  <2>2. /\ DOMAIN turns \subseteq DOMAIN turns'
        /\ \A i \in DOMAIN turns : turns'[i] = turns[i]
        /\ \E i \in DOMAIN turns' : turns'[i] = toggle[w].want
    BY <2>1, TurnsGrow
  <2>3. \A v \in Windows : /\ toggle'[v].want = toggle[v].want
                           /\ v # w => toggle'[v].pc = toggle[v].pc
    BY <1>4 DEF CenterSwitches
  <2>4. AnsweredIsTaken'
    BY <2>2, <2>3 DEF AnsweredIsTaken
  <2> QED
    BY <1>4, <1>b, <2>2, <2>4 DEF CenterSwitches
<1>5. ASSUME NEW w \in Windows, Answered(w) PROVE AnsweredIsTaken' /\ SwitchIsConfirmed'
  <2>1. AnsweredIsTaken'
    BY <1>5 DEF Answered, AnsweredIsTaken, Untouched
  <2>2. local'.switch \in {toggle[w].want, local.switch} /\ UNCHANGED turns
    BY <1>5 DEF Answered, SetSwitch, States
  <2>3. \E i \in DOMAIN turns : turns[i] = toggle[w].want
    BY <1>5 DEF Answered, AnsweredIsTaken
  <2> QED
    BY <2>1, <2>2, <2>3 DEF SwitchIsConfirmed
<1>6. ASSUME NEW w \in Windows, Refused(w) PROVE AnsweredIsTaken' /\ SwitchIsConfirmed'
  BY <1>6, <1>b DEF Refused, AnsweredIsTaken, Untouched
<1>7. CASE Message
  BY <1>7, <1>a, <1>b DEF Message, States
<1>8. CASE Upload
  BY <1>8, <1>a, <1>b DEF Upload
<1>9. ASSUME NEW p \in Paths, Schedule(p) \/ CenterAnswers(p) \/ Refreshed(p)
      PROVE  AnsweredIsTaken' /\ SwitchIsConfirmed'
  BY <1>9, <1>a, <1>b DEF Schedule, CenterAnswers, Refreshed
<1>10. CASE UNCHANGED viewVars
  BY <1>10, <1>a, <1>b DEF viewVars
<1> QED
  BY <1>1, <1>2, <1>3, <1>4, <1>5, <1>6, <1>7, <1>8, <1>9, <1>10 DEF ViewNext

\* The requests of a path follow one another, and each is answered later than the
\* one before.
LEMMA RequestStep ==
  ViewShape /\ OneRequest /\ AnswerIsNewer /\ [ViewNext]_viewVars => OneRequest' /\ AnswerIsNewer'
<1> SUFFICES ASSUME ViewShape, OneRequest, AnswerIsNewer, [ViewNext]_viewVars
             PROVE  OneRequest' /\ AnswerIsNewer'
  OBVIOUS
<1> USE ViewAssumption DEF ViewShape, ViewTypeOK
<1>0. Len(turns) \in Nat
  OBVIOUS
<1>t. Len(turns') \in Nat /\ Len(turns) <= Len(turns')
  <2>1. CASE UNCHANGED turns
    BY <2>1
  <2>2. ASSUME NEW state \in States, Decide(state)
        PROVE  Len(turns') \in Nat /\ Len(turns) <= Len(turns')
    BY <2>2, TurnsGrow DEF Decide, States
  <2>3. CASE CenterDecides
    <3>1. [brain EXCEPT !.handoff = ~@] \in States
      BY DEF States
    <3> QED
      BY <2>2, <2>3, <3>1 DEF CenterDecides
  <2>4. ASSUME NEW w \in Windows, CenterSwitches(w)
        PROVE  Len(turns') \in Nat /\ Len(turns) <= Len(turns')
    <3>1. [brain EXCEPT !.switch = toggle[w].want, !.handoff = @ /\ ~toggle[w].want] \in States
      BY DEF States
    <3> QED
      BY <2>2, <2>4, <3>1 DEF CenterSwitches
  <2>5. UNCHANGED turns \/ CenterDecides \/ \E w \in Windows : CenterSwitches(w)
    BY DEF ViewNext, ApplyCommand, Post, Answered, Refused, Message, Upload, Schedule, CenterAnswers,
           Refreshed, viewVars
  <2> QED
    BY <2>1, <2>3, <2>4, <2>5
<1>n. \A p \in Paths : /\ cache[p] # Unset => cache[p] \in Answers /\ cache[p].n \in Nat
                       /\ \A r \in inflight[p] : r.got # Unset => r.got.n \in Nat
  BY DEF Answers
<1>a. ASSUME UNCHANGED <<cache, inflight>> PROVE OneRequest' /\ AnswerIsNewer'
  <2>1. OneRequest'
    BY <1>a DEF OneRequest
  <2>2. AnswerIsNewer'
    BY <1>a, <1>0, <1>t, <1>n DEF AnswerIsNewer
  <2> QED
    BY <2>1, <2>2
<1>1. ASSUME NEW p \in Paths, Schedule(p) PROVE OneRequest' /\ AnswerIsNewer'
  <2>1. /\ inflight'[p] = {Asked} /\ UNCHANGED <<cache, turns>>
        /\ \A q \in Paths : q # p => inflight'[q] = inflight[q]
    BY <1>1 DEF Schedule
  <2>2. OneRequest'
    BY <2>1 DEF OneRequest
  <2>3. AnswerIsNewer'
    BY <2>1 DEF AnswerIsNewer, Asked
  <2> QED
    BY <2>2, <2>3
<1>2. ASSUME NEW p \in Paths, CenterAnswers(p) PROVE OneRequest' /\ AnswerIsNewer'
  <2> DEFINE answer == [state |-> brain, n |-> Len(turns)]
  <2>1. inflight[p] = {Asked}
    BY <1>2 DEF CenterAnswers, OneRequest
  <2>2. /\ inflight'[p] = {[pc |-> "answered", got |-> answer]} /\ UNCHANGED <<cache, turns>>
        /\ \A q \in Paths : q # p => inflight'[q] = inflight[q]
    BY <1>2, <2>1 DEF CenterAnswers
  <2>3. answer # Unset /\ answer.n = Len(turns)
    BY <1>0 DEF Answers
  <2> HIDE DEF answer
  <2>4. OneRequest'
    BY <2>2 DEF OneRequest
  <2>5. AnswerIsNewer'
    <3> SUFFICES ASSUME NEW q \in Paths
                 PROVE  /\ cache[q] # Unset => cache[q].n <= Len(turns)
                        /\ \A r \in inflight'[q] : r.pc = "answered" =>
                             /\ r.got # Unset /\ r.got.n <= Len(turns)
                             /\ cache[q] # Unset => cache[q].n <= r.got.n
      BY <2>2 DEF AnswerIsNewer
    <3>1. CASE q = p
      BY <3>1, <2>2, <2>3, <1>0 DEF AnswerIsNewer
    <3>2. CASE q # p
      BY <3>2, <2>2 DEF AnswerIsNewer
    <3> QED
      BY <3>1, <3>2
  <2> QED
    BY <2>4, <2>5
<1>3. ASSUME NEW p \in Paths, Refreshed(p) PROVE OneRequest' /\ AnswerIsNewer'
  <2>1. PICK r \in inflight[p] :
          /\ r.pc = "answered" /\ inflight' = [inflight EXCEPT ![p] = @ \ {r}]
          /\ cache' = [cache EXCEPT ![p] = r.got] \/ UNCHANGED cache
    BY <1>3 DEF Refreshed
  <2>2. /\ inflight'[p] = {} /\ UNCHANGED turns
        /\ \A q \in Paths : q # p => inflight'[q] = inflight[q] /\ cache'[q] = cache[q]
    BY <1>3, <2>1 DEF Refreshed, OneRequest
  <2>3. cache'[p] # Unset => cache'[p].n <= Len(turns)
    BY <2>1 DEF AnswerIsNewer
  <2>4. OneRequest'
    BY <2>2 DEF OneRequest
  <2>5. AnswerIsNewer'
    BY <2>2, <2>3 DEF AnswerIsNewer
  <2> QED
    BY <2>4, <2>5
<1> QED
  BY <1>a, <1>1, <1>2, <1>3
  DEF ViewNext, CenterDecides, ApplyCommand, Post, CenterSwitches, Answered, Refused, Message, Upload,
      viewVars

LEMMA ViewStep == ViewInv /\ [ViewNext]_viewVars => ViewInv'
  BY ViewTypesStep, ConfirmedStep, RequestStep DEF ViewInv

LEMMA ViewAlways == ViewSpec => []ViewInv
<1>1. ViewInit => ViewInv
  BY ViewStarts
<1>2. ViewInv /\ [ViewNext]_viewVars => ViewInv'
  BY ViewStep
<1> QED
  BY <1>1, <1>2, PTL DEF ViewSpec

-----------------------------------------------------------------------------
\* Every variable keeps its type, whatever the four sides bring in.
THEOREM ViewTypes == ViewSpec => []ViewTypeOK
<1>1. ViewInv => ViewTypeOK
  BY DEF ViewInv, ViewShape
<1> QED
  BY <1>1, ViewAlways, PTL

\* The store shows an AI switch only after the center took it: set_ai_takeover is
\* reached with a confirmed answer only, and no window, command, cached answer or
\* lost answer sets it otherwise.
THEOREM SwitchConfirmed == ViewSpec => []SwitchIsConfirmed
<1>1. ViewInv => SwitchIsConfirmed
  BY DEF ViewInv
<1> QED
  BY <1>1, ViewAlways, PTL

\* A cached answer is replaced only by one that the center gave later: the flag of
\* schedule_refresh keeps a path's requests apart.
THEOREM CacheAdvances == ViewSpec => CacheMovesOn
<1> DEFINE MovesOn == \A p \in Paths : cache[p] # Unset =>
                        cache'[p] # Unset /\ cache'[p].n >= cache[p].n
<1>1. ViewInv /\ [ViewNext]_viewVars => [MovesOn]_viewVars
  <2> SUFFICES ASSUME ViewInv, [ViewNext]_viewVars, NEW p \in Paths, cache[p] # Unset
               PROVE  cache'[p] # Unset /\ cache'[p].n >= cache[p].n
    OBVIOUS
  <2> USE DEF ViewInv, ViewShape, ViewTypeOK
  <2>1. cache[p].n \in Nat
    BY DEF Answers
  <2>2. ASSUME NEW q \in Paths, Refreshed(q)
        PROVE  cache'[p] # Unset /\ cache'[p].n >= cache[p].n
    <3>1. PICK r \in inflight[q] :
            /\ r.pc = "answered"
            /\ cache' = [cache EXCEPT ![q] = r.got] \/ UNCHANGED cache
      BY <2>2 DEF Refreshed
    <3>2. CASE q = p /\ cache'[p] = r.got
      <4>1. r.got # Unset /\ cache[p].n <= r.got.n
        BY <3>1, <3>2 DEF AnswerIsNewer
      <4>2. r.got.n \in Nat
        BY <4>1, <3>1 DEF Answers
      <4> QED
        BY <2>1, <3>2, <4>1, <4>2
    <3>3. CASE cache'[p] = cache[p]
      BY <2>1, <3>3
    <3> QED
      BY <3>1, <3>2, <3>3
  <2>3. CASE UNCHANGED cache
    BY <2>1, <2>3
  <2> QED
    BY <2>2, <2>3
    DEF ViewNext, CenterDecides, ApplyCommand, Post, CenterSwitches, Answered, Refused, Message,
        Upload, Schedule, CenterAnswers, viewVars
<1> QED
  BY <1>1, ViewAlways, PTL DEF ViewSpec, CacheMovesOn
=============================================================================
