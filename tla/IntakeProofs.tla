---------------------------- MODULE IntakeProofs ----------------------------
(***************************************************************************)
(* Theorems about Intake, for any messages, answers, pages, logs, sizes    *)
(* of the buffers, and any number of faults:                               *)
(*   - SourceSwitch: messages are read from the pages only when the log    *)
(*     watcher has been told to stop;                                      *)
(*   - CdpCapture: a message is told once, none that was recorded is lost  *)
(*     but for the accidents noted, and none that comes back from the      *)
(*     store is told as a new one;                                         *)
(*   - LogCapture: what the cursor on disk has passed has reached the      *)
(*     agent, and an event is handed over once in the life of a process.   *)
(***************************************************************************)
EXTENDS Intake, FiniteSetTheorems, WellFoundedInduction, TLAPS

\* The feed: the log watcher runs only while the agent is on the logs, and in the mode of
\* CDP it is on the logs only while the source is degraded, or about to say it no longer is.
FeedInv ==
  /\ mode = "cdp" =>
       /\ watcher = "runs" => effective = "logs"
       /\ effective = "logs" =>
            step = "recover" \/ (step = "loop" /\ degraded /\ state = "scanning")
  /\ step = "fallback" => state = "scanning"

-----------------------------------------------------------------------------
\* A frame as it comes, and as it comes back from the store.
AnyFrame == Frames \cup {Marked(f) : f \in Frames}

\* Frames are told apart by what is in them, not by the mark.
Same(h, f) == h.kind = f.kind /\ h.ids = f.ids

Asked(p) == Range(p.frames)

CdpShape ==
  /\ historyOnly \in BOOLEAN /\ hooked \in BOOLEAN
  /\ fresh \subseteq Frames
  /\ {buf, pushq, spill, queue} \subseteq Seq(AnyFrame)
  /\ replaying \in Nat /\ reread \in Nat
  /\ reread <= Len(spill) /\ Len(spill) <= SpillMax
  /\ \A p \in posts : p = [frames |-> p.frames, at |-> p.at, heard |-> p.heard]
                        /\ p.frames \in Seq(AnyFrame)
  /\ pump = [at |-> pump.at, batch |-> pump.batch, ok |-> pump.ok]
  /\ pump.batch \in Seq(AnyFrame) /\ (pump.at = "idle" => pump.batch = <<>>)

\* A page without the script holds nothing, and hears no answer.
NewPage == ~hooked => buf = <<>> /\ pushq = <<>> /\ \A p \in posts : ~p.heard

\* What handling keeps, of r.
Done(r, m) == r.told[m] > 0 \/ m \in r.archived \cup r.gone
Records == [seen : SUBSET Ids, told : [Ids -> {0, 1}], live : SUBSET Ids,
            archived : SUBSET Ids, gone : SUBSET Ids]
Sound(r) ==
  /\ r \in Records
  /\ \A m \in Ids : r.told[m] > 0 => m \in r.seen
  /\ \A m \in r.seen : Done(r, m)

DoneFrame(r, f) == \A m \in Range(f.ids) : Done(r, m)

\* Where a frame may be that came for the first time.
NewRoads == Range(buf) \cup Range(pushq) \cup Range(queue) \cup Range(pump.batch)
              \cup UNION {Asked(p) : p \in posts}

\* The store's frames come back marked.
ReplayedIsOld ==
  /\ (NewRoads \cup Range(spill)) \cap fresh = {}
  /\ \A f \in replayed : ~f.old => f \notin fresh /\ f \notin NewRoads

\* Every frame that was recorded is done, or waits somewhere.
Roads == Range(buf) \cup Range(pushq) \cup Range(spill) \cup Range(queue)
           \cup UNION {Asked(p) : p \in {q \in posts : q.at # "taken"}}
Waits(f) == \E h \in Roads : Same(h, f)
FramesAreKept == \A f \in Frames \ fresh : Wanted(f) => DoneFrame(Now, f) \/ Waits(f)

\* A batch that will be confirmed is done.
BatchIsDone ==
  pump.at = "ack" /\ pump.ok => \A f \in Range(pump.batch) : Wanted(f) => DoneFrame(Now, f)

\* Before the store is cleared all that was read back from it is done, or waits at the front
\* of the buffer, or went back to the store behind what was read.
StoreIsCopied ==
  replaying > 0 =>
    \A i \in 1..reread : Wanted(spill[i]) =>
      \/ DoneFrame(Now, spill[i])
      \/ \E j \in 1..Len(buf) : j <= replaying /\ Same(buf[j], spill[i])
      \/ \E j \in reread + 1 .. Len(spill) : Same(spill[j], spill[i])

CdpInv ==
  /\ CdpShape /\ NewPage /\ Sound(Now) /\ ReplayedIsOld
  /\ FramesAreKept /\ BatchIsDone /\ StoreIsCopied

-----------------------------------------------------------------------------
(* SourceSwitch: one feed at a time.                                        *)

LEMMA FeedStart == Feeds!Init => FeedInv
  BY DEF Feeds!Init, FeedInv

LEMMA FeedStep == FeedInv /\ [Feeds!Next]_feedVars => FeedInv'
<1> SUFFICES ASSUME FeedInv, [Feeds!Next]_feedVars PROVE FeedInv'
  OBVIOUS
<1> USE DEF FeedInv, Feeds!source, Feeds!agent, Feeds!world
<1>1. CASE \E p \in Pages : Feeds!Change(p) \/ Feeds!Reload(p)
  BY <1>1 DEF Feeds!Change, Feeds!Reload
<1>2. CASE Feeds!Scan
  BY <1>2 DEF Feeds!Scan
<1>3. CASE Feeds!GiveWay
  BY <1>3 DEF Feeds!GiveWay
<1>4. CASE Feeds!Fallback
  BY <1>4 DEF Feeds!Fallback
<1>5. CASE Feeds!TryRecover
  BY <1>5 DEF Feeds!TryRecover
<1>6. CASE Feeds!Recover
  BY <1>6 DEF Feeds!Recover
<1>7. CASE Feeds!StartRound
  BY <1>7 DEF Feeds!StartRound
<1>8. CASE Feeds!EmptyRound
  BY <1>8 DEF Feeds!EmptyRound
<1>9. CASE Feeds!PumpNext
  BY <1>9 DEF Feeds!PumpNext
<1>10. CASE Feeds!EndRound
  BY <1>10 DEF Feeds!EndRound
<1>11. CASE Feeds!Check
  BY <1>11 DEF Feeds!Check
<1>12. CASE Feeds!GetLate \/ Feeds!WatcherEnds
  BY <1>12 DEF Feeds!GetLate, Feeds!WatcherEnds
<1>13. CASE UNCHANGED feedVars
  BY <1>13 DEF feedVars
<1> QED
  BY <1>1, <1>2, <1>3, <1>4, <1>5, <1>6, <1>7, <1>8, <1>9, <1>10, <1>11, <1>12, <1>13
     DEF Feeds!Next, Feeds!Thread

LEMMA FeedIsOne == FeedInv => OneFeed
  BY DEF FeedInv, OneFeed, Feeds!OneFeed

\* Messages are read from the pages only once the log watcher has been told to stop: a
\* message is not reported by both feeds (bridge/agent.py: _start_feeds, _recover_to_cdp).
THEOREM FeedsApart == IntakeSpec => []OneFeed
<1>1. IntakeInit => FeedInv
  BY FeedStart DEF IntakeInit
<1>2. FeedInv /\ [IntakeNext]_intakeVars => FeedInv'
  <2>1. [IntakeNext]_intakeVars => [Feeds!Next]_feedVars
    BY DEF IntakeNext, intakeVars, CdpPart, LogPart
  <2> QED
    BY <2>1, FeedStep
<1> QED
  BY <1>1, <1>2, FeedIsOne, PTL DEF IntakeSpec

-----------------------------------------------------------------------------
(* Numbers.                                                                 *)

\* A set of numbers has a least one.
LEMMA Least ==
  ASSUME NEW T \in SUBSET Nat, T # {}
  PROVE \E x \in T : \A y \in T : x <= y
<1> DEFINE R == OpToRel(<, Nat)
<1>1. IsWellFoundedOn(R, Nat)
  BY NatLessThanWellFounded
<1>2. \A x, y \in T : y < x => <<y, x>> \in R
  BY DEF OpToRel
<1> HIDE DEF R
<1>3. PICK x \in T : \A y \in T : <<y, x>> \notin R
  BY <1>1, WFMin
<1>4. \A y \in T : ~ (y < x) /\ y \in Nat /\ x \in Nat
  BY <1>2, <1>3
<1>5. \A y \in T : x <= y
  BY <1>4
<1> QED
  BY <1>5

\* What holds of the first number, and of each that follows one of which it holds, holds of all.
LEMMA FromTo ==
  ASSUME NEW a \in Nat, NEW n \in Nat, NEW T \in SUBSET (a..n), a \in T,
         \A m \in a + 1..n : m - 1 \in T => m \in T
  PROVE T = a..n
<1>1. SUFFICES ASSUME (a..n) \ T # {} PROVE FALSE
  OBVIOUS
<1>2. PICK m \in (a..n) \ T : \A k \in (a..n) \ T : m <= k
  BY <1>1, Least, (a..n) \ T \in SUBSET Nat
<1>3. m \in a + 1..n /\ m - 1 \in a..n /\ ~ (m <= m - 1)
  BY <1>2
<1>4. m - 1 \in T
  BY <1>2, <1>3
<1> QED
  BY <1>2, <1>3, <1>4

LEMMA UpTo ==
  ASSUME NEW n \in Nat, NEW T \in SUBSET (0..n), 0 \in T,
         \A m \in 1..n : m - 1 \in T => m \in T
  PROVE T = 0..n
<1>1. 0 \in Nat /\ 0 + 1 = 1
  OBVIOUS
<1> QED
  BY <1>1, FromTo

-----------------------------------------------------------------------------
(* CdpCapture: what handling does.                                          *)

\* One step of HandleAll.
Handled(f, r, frames, i) == IF i = 0 THEN r ELSE Handle(f[i - 1], frames[i])

\* f gives them up to n.
Handles(f, r, frames, n) ==
  f = [i \in 0..n |-> f[i]] /\ \A i \in 0..n : f[i] = Handled(f, r, frames, i)

LEMMA HandlesExists ==
  ASSUME NEW r, NEW frames, Len(frames) \in Nat
  PROVE \E f : Handles(f, r, frames, Len(frames))
<1> DEFINE T == {n \in 0..Len(frames) : \E f : Handles(f, r, frames, n)}
<1>1. 0 \in T
  <2> DEFINE f == [i \in 0..0 |-> r]
  <2>1. Handles(f, r, frames, 0)
    BY DEF Handles, Handled
  <2> HIDE DEF f
  <2> QED
    BY <2>1
<1>2. ASSUME NEW n \in 1..Len(frames), n - 1 \in T PROVE n \in T
  <2>1. PICK f : Handles(f, r, frames, n - 1)
    BY <1>2
  <2> DEFINE g == [i \in 0..n |-> IF i < n THEN f[i] ELSE Handle(f[n - 1], frames[n])]
  <2>2. g = [i \in 0..n |-> g[i]]
    OBVIOUS
  <2>3. ASSUME NEW i \in 0..n PROVE g[i] = Handled(g, r, frames, i)
    <3>1. CASE i = 0
      BY <2>1, <3>1 DEF Handles, Handled
    <3>2. CASE i # 0 /\ i < n
      <4>1. g[i] = f[i] /\ g[i - 1] = f[i - 1] /\ i \in 0..(n - 1)
        BY <3>2
      <4> QED
        BY <2>1, <3>2, <4>1 DEF Handles, Handled
    <3>3. CASE i # 0 /\ i = n
      <4>1. g[i - 1] = f[i - 1]
        BY <3>3
      <4> QED
        BY <3>3, <4>1 DEF Handled
    <3> QED
      BY <3>1, <3>2, <3>3
  <2>4. Handles(g, r, frames, n)
    BY <2>2, <2>3 DEF Handles
  <2> HIDE DEF g
  <2> QED
    BY <2>4
<1> HIDE DEF T
<1>3. Len(frames) \in T
  <2>1. T \in SUBSET (0..Len(frames))
    BY DEF T
  <2> QED
    BY <1>1, <1>2, <2>1, UpTo
<1> QED
  BY <1>3 DEF T

\* Frame by frame: S[n] are the records there may be after n frames.
LEMMA AllHandled ==
  ASSUME NEW r, NEW frames, Len(frames) \in Nat, NEW S,
         r \in S[0],
         \A n \in 1..Len(frames) : \A q \in S[n - 1] : Handle(q, frames[n]) \in S[n]
  PROVE HandleAll(r, frames) \in S[Len(frames)]
<1>1. PICK h : Handles(h, r, frames, Len(frames))
  BY HandlesExists
<1> DEFINE F(f) == [n \in 0..Len(frames) |-> Handled(f, r, frames, n)]
<1>2. h = F(h)
  BY <1>1 DEF Handles
<1> DEFINE after == CHOOSE f : f = F(f)
<1>3. after = F(after)
  BY <1>2
<1>4. HandleAll(r, frames) = after[Len(frames)]
  BY DEF HandleAll, Handled
<1> HIDE DEF after
<1> DEFINE U == {i \in 0..Len(frames) : after[i] \in S[i]}
<1>5. 0 \in U
  BY <1>3 DEF Handled
<1>6. ASSUME NEW n \in 1..Len(frames), n - 1 \in U PROVE n \in U
  <2>1. after[n] = Handle(after[n - 1], frames[n])
    BY <1>3 DEF Handled
  <2> QED
    BY <1>6, <2>1
<1> HIDE DEF U
<1>7. U = 0..Len(frames)
  <2>1. U \in SUBSET (0..Len(frames))
    BY DEF U
  <2> QED
    BY <1>5, <1>6, <2>1, UpTo
<1> QED
  BY <1>4, <1>7 DEF U

\* Frames, whole or in part.
FrameLike == [kind : {"push", "odd", "list"}, ids : Seq(Ids), old : BOOLEAN]

LEMMA FrameShape ==
  ASSUME NEW f \in AnyFrame
  PROVE /\ f \in FrameLike
        /\ f.kind = "push" => \E m \in Ids : f.ids = <<m>>
        /\ ~f.old => f \in Frames
        /\ \E g \in Frames : Same(f, g)
        /\ Marked(f) \in AnyFrame /\ Same(Marked(f), f) /\ Marked(f).old
<1>1. ASSUME NEW g \in Frames
      PROVE /\ g \in FrameLike /\ ~g.old
            /\ g.kind = "push" => \E m \in Ids : g.ids = <<m>>
  <2>1. \A m \in Live \cup Odd : <<m>> \in Seq(Ids) /\ m \in Ids
    BY DEF Ids
  <2>2. \A l \in Lists : l \in Seq(Ids)
    <3> SUFFICES ASSUME NEW l \in Lists PROVE l \in Seq(Ids)
      OBVIOUS
    <3>1. l \in Seq(Range(l)) /\ Range(l) \subseteq Ids
      BY BoundsAssumption DEF Ids
    <3> QED
      BY <3>1
  <2>3. CASE \E m \in Live : g = Frame("push", <<m>>)
    BY <2>1, <2>3 DEF Frame, FrameLike
  <2>4. CASE \E m \in Odd : g = Frame("odd", <<m>>)
    BY <2>1, <2>4 DEF Frame, FrameLike
  <2>5. CASE \E l \in Lists : g = Frame("list", l)
    BY <2>2, <2>5 DEF Frame, FrameLike
  <2> QED
    BY <2>3, <2>4, <2>5 DEF Frames
<1>2. PICK g \in Frames : f = g \/ f = Marked(g)
  BY DEF AnyFrame
<1>3. f.kind = g.kind /\ f.ids = g.ids
  <2>1. CASE f = g
    BY <2>1
  <2>2. CASE f = Marked(g)
    BY <2>2 DEF Marked
  <2> QED
    BY <1>2, <2>1, <2>2
<1>4. Marked(f) = Marked(g) /\ Marked(f).old
  BY <1>3 DEF Marked
<1>5. Marked(g) \in FrameLike /\ Marked(f) \in AnyFrame
  BY <1>1, <1>4 DEF FrameLike, Marked, AnyFrame
<1>6. f \in FrameLike /\ (~f.old => f \in Frames)
  BY <1>1, <1>2, <1>4, <1>5
<1>7. Same(f, g) /\ Same(Marked(f), f)
  BY <1>3 DEF Same, Marked
<1> QED
  BY <1>1, <1>3, <1>4, <1>5, <1>6, <1>7

\* What was done stays done.
Grown(r, q) == \A m \in Ids : Done(r, m) => Done(q, m)

LEMMA GrownTrans ==
  ASSUME NEW r, NEW q, NEW s, Grown(r, q), Grown(q, s) PROVE Grown(r, s)
  BY DEF Grown

LEMMA TellIsSound ==
  ASSUME NEW r, Sound(r), NEW ms \in SUBSET Ids, NEW old \in BOOLEAN
  PROVE /\ Sound(Tell(r, ms, old)) /\ Grown(r, Tell(r, ms, old))
        /\ \A m \in ms : Done(Tell(r, ms, old), m)
        /\ \A m \in Tell(r, ms, old).live : m \in r.live \/ (~old /\ m \in ms)
<1> DEFINE q == Tell(r, ms, old)
           new == ms \ r.seen
<1>1. q = [seen |-> r.seen \cup ms,
           told |-> [m \in Ids |-> IF m \in new THEN r.told[m] + 1 ELSE r.told[m]],
           live |-> IF old THEN r.live ELSE r.live \cup new,
           archived |-> r.archived, gone |-> r.gone]
  BY DEF Tell, Unseen
<1> HIDE DEF q
<1>2. \A m \in Ids : q.told[m] = IF m \in new THEN r.told[m] + 1 ELSE r.told[m]
  BY <1>1
<1>3. \A m \in Ids : r.told[m] \in {0, 1} /\ (m \in new => r.told[m] = 0)
  BY DEF Sound, Records
<1>4. q.told \in [Ids -> {0, 1}]
  BY <1>1, <1>3
<1>5. q \in Records
  <2>1. r.seen \cup ms \subseteq Ids /\ r.live \subseteq Ids /\ new \subseteq Ids
        /\ r.archived \subseteq Ids /\ r.gone \subseteq Ids
    BY DEF Sound, Records
  <2> HIDE DEF new
  <2> QED
    BY <1>1, <1>4, <2>1 DEF Records
<1>6. \A m \in Ids : q.told[m] > 0 => m \in q.seen
  BY <1>1, <1>2 DEF Sound
<1>7. Grown(r, q)
  BY <1>1, <1>2, <1>3 DEF Grown, Done
<1>8. \A m \in q.seen : Done(q, m)
  <2> SUFFICES ASSUME NEW m \in q.seen PROVE Done(q, m)
    OBVIOUS
  <2>1. m \in Ids /\ (m \in r.seen \/ m \in new)
    BY <1>1, <1>5 DEF Records
  <2>2. CASE m \in r.seen
    BY <1>7, <2>1, <2>2 DEF Sound, Grown
  <2>3. CASE m \in new
    BY <1>2, <1>3, <2>1, <2>3 DEF Done
  <2> QED
    BY <2>1, <2>2, <2>3
<1>9. Sound(q)
  BY <1>5, <1>6, <1>8 DEF Sound
<1> QED
  BY <1>1, <1>7, <1>8, <1>9 DEF q

\* A frame is handled: its messages are done, and only a push that does not come from the
\* store is new.
LEMMA HandleIsSound ==
  ASSUME NEW r, Sound(r), NEW f \in FrameLike
  PROVE /\ Sound(Handle(r, f)) /\ Grown(r, Handle(r, f))
        /\ Wanted(f) => DoneFrame(Handle(r, f), f)
        /\ \A m \in Handle(r, f).live \ r.live : ~f.old /\ f.kind = "push" /\ m \in Range(f.ids)
<1>0. Range(f.ids) \in SUBSET Ids
  BY DEF FrameLike, Range
<1>1. CASE ~Wanted(f)
  BY <1>1 DEF Handle, Grown
<1>2. CASE Wanted(f) /\ f.kind = "odd"
  <2> DEFINE s == Archive(r, f)
  <2>1. s = [seen |-> r.seen, told |-> r.told, live |-> r.live,
             archived |-> r.archived \cup Range(f.ids), gone |-> r.gone]
    BY DEF Archive, Sound, Records
  <2> HIDE DEF s
  <2>2. s \in Records
    BY <1>0, <2>1 DEF Sound, Records
  <2>3. Grown(r, s) /\ Sound(s)
    BY <2>1, <2>2 DEF Sound, Grown, Done
  <2>4. Handle(r, f) = Tell(s, Range(f.ids), TRUE)
    BY <1>2 DEF Handle, s
  <2>5. /\ Sound(Handle(r, f)) /\ Grown(s, Handle(r, f)) /\ DoneFrame(Handle(r, f), f)
        /\ Handle(r, f).live \subseteq r.live
    <3>1. TRUE \in BOOLEAN
      OBVIOUS
    <3>2. /\ Sound(Tell(s, Range(f.ids), TRUE)) /\ Grown(s, Tell(s, Range(f.ids), TRUE))
          /\ \A m \in Range(f.ids) : Done(Tell(s, Range(f.ids), TRUE), m)
          /\ \A m \in Tell(s, Range(f.ids), TRUE).live :
               m \in s.live \/ (~TRUE /\ m \in Range(f.ids))
      BY <1>0, <2>3, <3>1, TellIsSound
    <3> QED
      BY <2>1, <2>4, <3>2 DEF DoneFrame
  <2> QED
    BY <2>3, <2>5, GrownTrans
<1>3. CASE Wanted(f) /\ f.kind # "odd"
  <2> DEFINE old == f.old \/ f.kind = "list"
  <2>1. Handle(r, f) = Tell(r, Range(f.ids), old)
    BY <1>3 DEF Handle
  <2>2. f.kind \in {"push", "list"} /\ old \in BOOLEAN
    BY <1>3 DEF FrameLike
  <2> HIDE DEF old
  <2>3. /\ Sound(Handle(r, f)) /\ Grown(r, Handle(r, f)) /\ DoneFrame(Handle(r, f), f)
        /\ \A m \in Handle(r, f).live : m \in r.live \/ (~old /\ m \in Range(f.ids))
    <3>1. PICK o \in BOOLEAN : o = old
      BY <2>2
    <3>2. Handle(r, f) = Tell(r, Range(f.ids), o)
      BY <2>1, <3>1
    <3>3. /\ Sound(Tell(r, Range(f.ids), o)) /\ Grown(r, Tell(r, Range(f.ids), o))
          /\ \A m \in Range(f.ids) : Done(Tell(r, Range(f.ids), o), m)
          /\ \A m \in Tell(r, Range(f.ids), o).live : m \in r.live \/ (~o /\ m \in Range(f.ids))
      BY <1>0, TellIsSound
    <3> QED
      BY <3>1, <3>2, <3>3 DEF DoneFrame
  <2> QED
    BY <2>2, <2>3 DEF old
<1> QED
  BY <1>1, <1>2, <1>3

\* The same of many.
LEMMA BatchIsSound ==
  ASSUME NEW r, Sound(r), NEW frames \in Seq(AnyFrame)
  PROVE /\ Sound(HandleAll(r, frames)) /\ Grown(r, HandleAll(r, frames))
        /\ \A f \in Range(frames) : Wanted(f) => DoneFrame(HandleAll(r, frames), f)
        /\ \A m \in HandleAll(r, frames).live \ r.live :
             \E f \in Range(frames) : ~f.old /\ f.kind = "push" /\ m \in Range(f.ids)
<1> DEFINE Fine(q, n) ==
             /\ Sound(q) /\ Grown(r, q)
             /\ \A i \in 1..n : Wanted(frames[i]) => DoneFrame(q, frames[i])
             /\ \A m \in q.live \ r.live : \E i \in 1..n :
                  ~frames[i].old /\ frames[i].kind = "push" /\ m \in Range(frames[i].ids)
           S == [n \in 0..Len(frames) |-> {q \in Records : Fine(q, n)}]
<1>1. r \in S[0]
  BY DEF Sound, Grown
<1>2. ASSUME NEW n \in 1..Len(frames), NEW q \in S[n - 1] PROVE Handle(q, frames[n]) \in S[n]
  <2> DEFINE f == frames[n]
             s == Handle(q, f)
  <2>1. f \in FrameLike
    BY FrameShape
  <2>2. Fine(q, n - 1) /\ n \in 0..Len(frames)
    BY <1>2
  <2>3. /\ Sound(s) /\ Grown(q, s) /\ (Wanted(f) => DoneFrame(s, f))
        /\ \A m \in s.live \ q.live : ~f.old /\ f.kind = "push" /\ m \in Range(f.ids)
    BY <2>1, <2>2, HandleIsSound
  <2>4. Grown(r, s)
    BY <2>2, <2>3, GrownTrans
  <2>5. ASSUME NEW i \in 1..n, Wanted(frames[i]) PROVE DoneFrame(s, frames[i])
    <3>1. CASE i = n
      BY <2>3, <2>5, <3>1
    <3>2. CASE i # n
      <4>1. DoneFrame(q, frames[i]) /\ frames[i] \in FrameLike
        BY <2>2, <2>5, <3>2, FrameShape
      <4> QED
        BY <2>3, <4>1 DEF DoneFrame, Grown, FrameLike, Range
    <3> QED
      BY <3>1, <3>2
  <2>6. ASSUME NEW m \in s.live \ r.live
        PROVE \E i \in 1..n :
                ~frames[i].old /\ frames[i].kind = "push" /\ m \in Range(frames[i].ids)
    <3>1. CASE m \in q.live
      <4>1. PICK i \in 1..(n - 1) :
              ~frames[i].old /\ frames[i].kind = "push" /\ m \in Range(frames[i].ids)
        BY <2>2, <2>6, <3>1
      <4> QED
        BY <4>1
    <3>2. CASE m \notin q.live
      BY <2>3, <2>6, <3>2
    <3> QED
      BY <3>1, <3>2
  <2>7. s \in Records
    BY <2>3 DEF Sound
  <2> HIDE DEF s
  <2>8. Fine(s, n)
    BY <2>3, <2>4, <2>5, <2>6
  <2> QED
    BY <2>2, <2>7, <2>8 DEF s
<1> HIDE DEF S
<1>3. HandleAll(r, frames) \in S[Len(frames)]
  BY <1>1, <1>2, AllHandled
<1>4. Fine(HandleAll(r, frames), Len(frames))
  BY <1>3 DEF S
<1> QED
  BY <1>4 DEF Range

\* A frame fails at one of its messages: what was done stays, and what is entered in the
\* table is done once the frame is archived, or forgotten.
LEMMA FailIsSound ==
  ASSUME NEW r, Sound(r), NEW f \in AnyFrame, NEW k, Breaks(r, f, k),
         NEW q, \/ q = Archive(HandleTo(r, f, k), f)
                \/ q = Forget(HandleTo(r, f, k), f, k)
  PROVE /\ Sound(q) /\ Grown(r, q)
        /\ \A m \in q.live \ r.live : ~f.old /\ f.kind = "push" /\ m \in Range(f.ids)
        /\ q = Archive(HandleTo(r, f, k), f) => DoneFrame(q, f)
<1> DEFINE part == [f EXCEPT !.ids = SubSeq(f.ids, 1, k - 1)]
           h == HandleBefore(r, f, k)
           m == f.ids[k]
<1>1. /\ f \in FrameLike /\ k \in 1..Len(f.ids) /\ Wanted(f) /\ f.kind # "odd"
      /\ m \notin h.seen /\ m \in Ids /\ Range(f.ids) \subseteq Ids
  <2>1. f \in FrameLike
    BY FrameShape
  <2>2. k \in DOMAIN f.ids /\ Wanted(f) /\ f.kind # "odd" /\ m \notin h.seen
    BY DEF Breaks
  <2>3. f.ids \in Seq(Ids)
    BY <2>1 DEF FrameLike
  <2> HIDE DEF h, m
  <2>4. k \in 1..Len(f.ids) /\ Range(f.ids) \subseteq Ids
    BY <2>2, <2>3 DEF Range
  <2>5. m \in Ids
    BY <2>3, <2>4 DEF m
  <2> QED
    BY <2>1, <2>2, <2>4, <2>5
<1>2. /\ part \in FrameLike /\ part.kind = f.kind /\ part.old = f.old
      /\ part.ids = SubSeq(f.ids, 1, k - 1)
  <2>1. f.ids \in Seq(Ids) /\ SubSeq(f.ids, 1, k - 1) \in Seq(Ids)
    BY <1>1 DEF FrameLike
  <2> DEFINE front == SubSeq(f.ids, 1, k - 1)
  <2>2. part = [f EXCEPT !.ids = front]
    OBVIOUS
  <2> HIDE DEF front, part
  <2>3. part = [kind |-> f.kind, ids |-> front, old |-> f.old]
    BY <1>1, <2>2 DEF FrameLike
  <2> QED
    BY <1>1, <2>1, <2>3 DEF FrameLike, front
<1>3. Range(part.ids) \subseteq Range(f.ids)
  BY <1>1, <1>2 DEF FrameLike, Range
<1>4. h = Handle(r, part)
  BY DEF HandleBefore
<1> HIDE DEF part
<1>5. /\ Sound(h) /\ Grown(r, h)
      /\ \A n \in h.live \ r.live : ~f.old /\ f.kind = "push" /\ n \in Range(f.ids)
  BY <1>2, <1>3, <1>4, HandleIsSound
<1>6. HandleTo(r, f, k) = [h EXCEPT !.seen = @ \cup {m}]
  BY DEF HandleTo, Fail
<1> HIDE DEF h, m
<1> DEFINE s == HandleTo(r, f, k)
<1>7. s = [seen |-> h.seen \cup {m}, told |-> h.told, live |-> h.live,
           archived |-> h.archived, gone |-> h.gone]
  BY <1>5, <1>6 DEF Sound, Records
<1>8. m \in Range(f.ids)
  BY <1>1 DEF m, Range, FrameLike
<1> HIDE DEF s
<1>9. h.told[m] = 0
  BY <1>1, <1>5 DEF Sound, Records
<1>10. ASSUME q = Archive(s, f)
       PROVE /\ Sound(q) /\ Grown(r, q)
             /\ \A n \in q.live \ r.live : ~f.old /\ f.kind = "push" /\ n \in Range(f.ids)
  <2>1. q = [seen |-> h.seen \cup {m}, told |-> h.told, live |-> h.live,
             archived |-> h.archived \cup Range(f.ids), gone |-> h.gone]
    BY <1>7, <1>10 DEF Archive
  <2>2. q \in Records
    BY <1>1, <1>5, <2>1 DEF Sound, Records
  <2>3. Grown(r, q)
    BY <1>5, <2>1 DEF Grown, Done
  <2>4. Sound(q)
    BY <1>5, <1>8, <2>1, <2>2 DEF Sound, Done
  <2> QED
    BY <1>5, <2>1, <2>3, <2>4
<1>11. ASSUME q = Forget(s, f, k), f.kind = "push"
       PROVE /\ Sound(q) /\ Grown(r, q)
             /\ \A n \in q.live \ r.live : ~f.old /\ f.kind = "push" /\ n \in Range(f.ids)
  <2>1. q = [s EXCEPT !.seen = @ \ Range(f.ids)]
    BY <1>11 DEF Forget
  <2>2. q = [seen |-> (h.seen \cup {m}) \ Range(f.ids), told |-> h.told, live |-> h.live,
             archived |-> h.archived, gone |-> h.gone]
    BY <1>7, <2>1
  <2>3. Range(f.ids) = {m}
    <3>1. PICK n \in Ids : f.ids = <<n>>
      BY <1>11, FrameShape
    <3>2. k = 1 /\ m = n /\ Range(f.ids) = {n}
      BY <1>1, <3>1 DEF m, Range
    <3> QED
      BY <3>2
  <2>4. q \in Records /\ q.seen = h.seen
    BY <1>1, <1>5, <2>2, <2>3 DEF Sound, Records
  <2>5. Grown(r, q) /\ Sound(q)
    BY <1>5, <2>2, <2>4 DEF Grown, Done, Sound
  <2> QED
    BY <1>5, <2>2, <2>5
<1>12. ASSUME q = Forget(s, f, k), f.kind # "push"
       PROVE /\ Sound(q) /\ Grown(r, q)
             /\ \A n \in q.live \ r.live : ~f.old /\ f.kind = "push" /\ n \in Range(f.ids)
  <2>1. q = [s EXCEPT !.gone = @ \cup {m}]
    BY <1>1, <1>12 DEF Forget, FrameLike, m
  <2>2. q = [seen |-> h.seen \cup {m}, told |-> h.told, live |-> h.live,
             archived |-> h.archived, gone |-> h.gone \cup {m}]
    BY <1>7, <2>1
  <2>3. q \in Records
    BY <1>1, <1>5, <2>2 DEF Sound, Records
  <2>4. Grown(r, q)
    BY <1>5, <2>2 DEF Grown, Done
  <2>5. Sound(q)
    BY <1>5, <2>2, <2>3 DEF Sound, Done
  <2> QED
    BY <1>5, <2>2, <2>4, <2>5
<1>13. q = Archive(s, f) => DoneFrame(q, f)
  <2> SUFFICES ASSUME q = Archive(s, f) PROVE DoneFrame(q, f)
    OBVIOUS
  <2>1. q.archived = h.archived \cup Range(f.ids)
    BY <1>7 DEF Archive
  <2> QED
    BY <2>1 DEF DoneFrame, Done
<1> QED
  BY <1>10, <1>11, <1>12, <1>13 DEF s

-----------------------------------------------------------------------------
(* CdpCapture: what the parts of the invariant depend on.                   *)

LEMMA DoneStays ==
  ASSUME NEW r, NEW q, Grown(r, q), NEW f \in AnyFrame, DoneFrame(r, f)
  PROVE DoneFrame(q, f)
<1>1. Range(f.ids) \subseteq Ids
  BY FrameShape DEF FrameLike, Range
<1> QED
  BY <1>1 DEF DoneFrame, Grown

\* What an accident takes is noted.
LEMMA GoneGrows ==
  ASSUME Sound(Now), UNCHANGED <<seen, told, live, archived>>,
         gone \subseteq gone', gone' \subseteq Ids
  PROVE Sound(Now') /\ Grown(Now, Now')
  BY DEF Sound, Records, Grown, Done, Now

LEMMA SameNow ==
  ASSUME UNCHANGED <<seen, told, live, archived, gone>>
  PROVE Now' = Now /\ Grown(Now, Now')
  BY DEF Now, Grown

LEMMA BecomesIsNow ==
  ASSUME NEW r, Sound(r), Becomes(r)
  PROVE Now' = r
  BY DEF Becomes, Sound, Records, Now

LEMMA FrameIds ==
  ASSUME NEW s \in Seq(AnyFrame)
  PROVE /\ IdsOf(s) \subseteq Ids
        /\ \A f \in Range(s) : f \in AnyFrame /\ Range(f.ids) \subseteq IdsOf(s)
<1>1. \A f \in Range(s) : f \in AnyFrame
  BY DEF Range
<1>2. \A f \in AnyFrame : Range(f.ids) \subseteq Ids
  BY FrameShape DEF FrameLike, Range
<1> QED
  BY <1>1, <1>2 DEF IdsOf, IdsIn

LEMMA BatchStays ==
  ASSUME CdpShape, BatchIsDone, Grown(Now, Now'), UNCHANGED <<historyOnly, pump>>
  PROVE BatchIsDone'
<1> SUFFICES ASSUME pump.at = "ack", pump.ok, NEW f \in Range(pump.batch), Wanted(f)
             PROVE DoneFrame(Now', f)
  BY DEF BatchIsDone, Wanted
<1>1. f \in AnyFrame /\ DoneFrame(Now, f)
  BY DEF BatchIsDone, CdpShape, Range
<1> QED
  BY <1>1, DoneStays

\* A frame is kept while each that waits is done or waits on.
LEMMA KeptStays ==
  ASSUME FramesAreKept, historyOnly' = historyOnly, Grown(Now, Now'),
         \A f \in Frames \ fresh' : f \in fresh => f \in Roads',
         \A h \in Roads : h \in Roads' \/ (Wanted(h) => DoneFrame(Now', h))
  PROVE FramesAreKept'
<1> SUFFICES ASSUME NEW f \in Frames \ fresh', Wanted(f)
             PROVE DoneFrame(Now', f) \/ \E h \in Roads' : Same(h, f)
  BY DEF FramesAreKept, Waits, Wanted
<1>0. f \in AnyFrame
  BY DEF AnyFrame
<1>1. CASE f \in fresh
  BY <1>1 DEF Same
<1>2. CASE f \notin fresh /\ DoneFrame(Now, f)
  BY <1>0, <1>2, DoneStays
<1>3. CASE f \notin fresh /\ Waits(f)
  <2>1. PICK h \in Roads : Same(h, f)
    BY <1>3 DEF Waits
  <2>2. CASE h \in Roads'
    BY <2>1, <2>2
  <2>3. CASE h \notin Roads'
    <3>1. DoneFrame(Now', h)
      BY <2>1, <2>3 DEF Same, Wanted
    <3> QED
      BY <2>1, <3>1 DEF Same, DoneFrame
  <2> QED
    BY <2>2, <2>3
<1> QED
  BY <1>1, <1>2, <1>3 DEF FramesAreKept

\* What was read back stays so while the front of the buffer moves to the store only.
LEMMA StoreStays ==
  ASSUME CdpShape, StoreIsCopied, Grown(Now, Now'), UNCHANGED <<historyOnly, replaying, reread>>,
         Len(spill') \in Nat, Len(buf') \in Nat, Len(spill) <= Len(spill'),
         \A i \in 1..Len(spill) : spill'[i] = spill[i],
         \A i \in 1..Len(buf) : i <= replaying =>
           \/ \E j \in 1..Len(buf') : j <= replaying /\ buf'[j] = buf[i]
           \/ \E j \in Len(spill) + 1 .. Len(spill') : spill'[j] = buf[i]
  PROVE StoreIsCopied'
<1> SUFFICES ASSUME replaying > 0, NEW i \in 1..reread, Wanted(spill[i])
             PROVE \/ DoneFrame(Now', spill[i])
                   \/ \E j \in 1..Len(buf') : j <= replaying /\ Same(buf'[j], spill[i])
                   \/ \E j \in reread + 1 .. Len(spill') : Same(spill'[j], spill[i])
  <2>1. \A i \in 1..reread : spill'[i] = spill[i]
    BY DEF CdpShape
  <2> QED
    BY <2>1 DEF StoreIsCopied, Wanted
<1>1. reread \in Nat /\ reread <= Len(spill) /\ Len(spill) \in Nat /\ i \in 1..Len(spill)
      /\ spill \in Seq(AnyFrame)
  BY DEF CdpShape
<1>2. CASE DoneFrame(Now, spill[i])
  <2>1. spill[i] \in AnyFrame
    BY <1>1
  <2> QED
    BY <1>2, <2>1, DoneStays
<1>3. CASE \E j \in 1..Len(buf) : j <= replaying /\ Same(buf[j], spill[i])
  <2>1. PICK j \in 1..Len(buf) : j <= replaying /\ Same(buf[j], spill[i])
    BY <1>3
  <2>2. CASE \E l \in 1..Len(buf') : l <= replaying /\ buf'[l] = buf[j]
    BY <2>1, <2>2
  <2>3. CASE \E l \in Len(spill) + 1 .. Len(spill') : spill'[l] = buf[j]
    <3>1. PICK l \in Len(spill) + 1 .. Len(spill') : spill'[l] = buf[j]
      BY <2>3
    <3>2. l \in reread + 1 .. Len(spill')
      BY <1>1
    <3> QED
      BY <2>1, <3>1, <3>2
  <2> QED
    BY <2>1, <2>2, <2>3
<1>4. CASE \E j \in reread + 1 .. Len(spill) : Same(spill[j], spill[i])
  <2>1. PICK j \in reread + 1 .. Len(spill) : Same(spill[j], spill[i])
    BY <1>4
  <2>2. spill'[j] = spill[j] /\ j \in reread + 1 .. Len(spill')
    BY <1>1
  <2> QED
    BY <2>1, <2>2
<1> QED
  BY <1>2, <1>3, <1>4 DEF StoreIsCopied

\* No frame joins the roads of a first time but from there or the page.
LEMMA OldStays ==
  ASSUME ReplayedIsOld, replayed' = replayed, fresh' \subseteq fresh,
         \A f \in NewRoads' : f \in NewRoads \/ (f \in fresh \ fresh' /\ ~f.old),
         \A f \in Range(spill)' : f \in Range(spill) \/ f \in NewRoads \/ f \in fresh \ fresh'
  PROVE ReplayedIsOld'
  BY DEF ReplayedIsOld

\* Two sequences, one after the other.
LEMMA Concat ==
  ASSUME NEW X, NEW s \in Seq(X), NEW t \in Seq(X)
  PROVE /\ s \o t \in Seq(X) /\ Len(s \o t) = Len(s) + Len(t)
        /\ \A i \in 1..Len(s) : (s \o t)[i] = s[i]
        /\ \A i \in 1..Len(t) : (s \o t)[Len(s) + i] = t[i]
<1>1. s \o t \in Seq(X) /\ Len(s \o t) = Len(s) + Len(t)
  OBVIOUS
<1>2. \A i \in 1..Len(s) : (s \o t)[i] = s[i]
  OBVIOUS
<1>3. ASSUME NEW i \in 1..Len(t) PROVE (s \o t)[Len(s) + i] = t[i]
  <2>1. Len(s) + i \in 1..Len(s) + Len(t) /\ Len(s) + i > Len(s) /\ (Len(s) + i) - Len(s) = i
    OBVIOUS
  <2> QED
    BY <2>1
<1> QED
  BY <1>1, <1>2, <1>3

\* A part of a sequence.
LEMMA PartOf ==
  ASSUME NEW X, NEW s \in Seq(X), NEW a \in Nat \ {0}, NEW b \in 0..Len(s), a <= b + 1
  PROVE /\ SubSeq(s, a, b) \in Seq(X) /\ Len(SubSeq(s, a, b)) = b - a + 1
        /\ \A j \in 1..(b - a + 1) : SubSeq(s, a, b)[j] = s[j + a - 1]
        /\ \A j \in a..b : s[j] \in Range(SubSeq(s, a, b))
        /\ \A x \in Range(SubSeq(s, a, b)) : \E j \in a..b : x = s[j]
        /\ Range(SubSeq(s, a, b)) \subseteq Range(s)
<1> DEFINE part == SubSeq(s, a, b)
<1>1. part \in Seq(X) /\ Len(part) = b - a + 1
  OBVIOUS
<1>2. ASSUME NEW j \in 1..(b - a + 1) PROVE part[j] = s[j + a - 1]
  OBVIOUS
<1> HIDE DEF part
<1>3. \A j \in 1..Len(part) : part[j] \in Range(part)
  BY <1>1 DEF Range
<1>4. ASSUME NEW j \in a..b PROVE s[j] \in Range(part)
  <2>1. j - a + 1 \in 1..(b - a + 1) /\ (j - a + 1) + a - 1 = j
    OBVIOUS
  <2>2. part[j - a + 1] = s[j]
    BY <1>2, <2>1
  <2> QED
    BY <1>1, <1>3, <2>1, <2>2
<1>5. ASSUME NEW x \in Range(part) PROVE \E j \in a..b : x = s[j]
  <2>1. PICK i \in 1..Len(part) : x = part[i]
    BY <1>1 DEF Range
  <2>2. i + a - 1 \in a..b /\ i \in 1..(b - a + 1)
    BY <1>1
  <2> QED
    BY <1>2, <2>1, <2>2
<1>6. Range(part) \subseteq Range(s)
  <2>1. \A j \in a..b : j \in DOMAIN s
    OBVIOUS
  <2>2. \A j \in a..b : s[j] \in Range(s)
    BY <2>1 DEF Range
  <2> QED
    BY <1>5, <2>2
<1> QED
  BY <1>1, <1>2, <1>4, <1>5, <1>6 DEF part

\* What Buffer does: the first d frames of the buffer and the new ones go to the store.
LEMMA BufferMoves ==
  ASSUME CdpShape, NEW new \in Seq(AnyFrame), Buffer(new)
  PROVE LET all == buf \o new IN
        \E d \in 0..Len(all) :
          /\ buf' \in Seq(AnyFrame) /\ Len(buf') = Len(all) - d
          /\ \A i \in 1..Len(buf') : buf'[i] = all[i + d]
          /\ spill' \in Seq(AnyFrame) /\ Len(spill') = Len(spill) + d /\ Len(spill') <= SpillMax
          /\ \A i \in 1..Len(spill) : spill'[i] = spill[i]
          /\ \A i \in 1..d : spill'[Len(spill) + i] = all[i]
          /\ Len(all) <= BufferMax => d = 0
<1> DEFINE all == buf \o new
           drop == SubSeq(all, 1, Len(all) - BufferMax)
<1>1. /\ buf \in Seq(AnyFrame) /\ spill \in Seq(AnyFrame) /\ all \in Seq(AnyFrame)
      /\ Len(all) \in Nat /\ Len(spill) \in Nat /\ Len(spill) <= SpillMax
      /\ BufferMax \in Nat \ {0} /\ SpillMax \in Nat
  BY BoundsAssumption DEF CdpShape
<1>2. CASE Len(all) > BufferMax /\ Fits(drop)
  <2> DEFINE d == Len(all) - BufferMax
  <2>1. d \in 0..Len(all) /\ d > 0
    BY <1>1, <1>2
  <2>2. /\ drop \in Seq(AnyFrame) /\ Len(drop) = d
        /\ \A i \in 1..d : drop[i] = all[i]
    BY <1>1, <2>1
  <2>3. spill' = spill \o drop /\ buf' = SubSeq(all, d + 1, Len(all)) /\ Len(spill) + d <= SpillMax
    BY <1>2, <2>2 DEF Buffer, Fits
  <2> HIDE DEF d, drop, all
  <2>4. /\ buf' \in Seq(AnyFrame) /\ Len(buf') = Len(all) - d
        /\ \A i \in 1..Len(buf') : buf'[i] = all[i + d]
    <3>1. d + 1 \in Nat \ {0} /\ Len(all) \in 0..Len(all) /\ d + 1 <= Len(all) + 1
      BY <1>1, <2>1
    <3>2. /\ buf' \in Seq(AnyFrame) /\ Len(buf') = Len(all) - (d + 1) + 1
          /\ \A i \in 1..(Len(all) - (d + 1) + 1) : buf'[i] = all[i + (d + 1) - 1]
      BY <1>1, <2>3, <3>1, PartOf
    <3>3. Len(buf') = Len(all) - d /\ Len(buf') = Len(all) - (d + 1) + 1
      BY <1>1, <2>1, <3>2
    <3>4. ASSUME NEW i \in 1..Len(buf') PROVE buf'[i] = all[i + d]
      <4>1. i + (d + 1) - 1 = i + d
        BY <1>1, <2>1, <3>3
      <4> QED
        BY <3>2, <3>3, <4>1
    <3> QED
      BY <3>2, <3>3, <3>4
  <2>5. /\ spill' \in Seq(AnyFrame) /\ Len(spill') = Len(spill) + d
        /\ \A i \in 1..Len(spill) : spill'[i] = spill[i]
        /\ \A i \in 1..d : spill'[Len(spill) + i] = drop[i]
    <3>1. spill \in Seq(AnyFrame) /\ drop \in Seq(AnyFrame)
      BY <1>1, <2>2
    <3>2. /\ spill \o drop \in Seq(AnyFrame) /\ Len(spill \o drop) = Len(spill) + Len(drop)
          /\ \A i \in 1..Len(spill) : (spill \o drop)[i] = spill[i]
          /\ \A i \in 1..Len(drop) : (spill \o drop)[Len(spill) + i] = drop[i]
      BY <3>1, Concat
    <3>3. spill' = spill \o drop /\ Len(drop) = d
      BY <2>2, <2>3
    <3> QED
      BY <3>2, <3>3
  <2>6. Len(all) <= BufferMax => d = 0
    BY <1>1, <1>2
  <2>7. \A i \in 1..d : spill'[Len(spill) + i] = all[i]
    BY <2>2, <2>5
  <2>8. Len(spill') <= SpillMax
    BY <2>3, <2>5
  <2> QED
    BY <2>1, <2>4, <2>5, <2>6, <2>7, <2>8 DEF all
<1>3. CASE ~(Len(all) > BufferMax /\ Fits(drop))
  <2>1. buf' = all /\ spill' = spill
    BY <1>3 DEF Buffer
  <2>2. 0 \in 0..Len(all) /\ Len(all) = Len(all) - 0 /\ \A i \in 1..Len(all) : all[i] = all[i + 0]
    BY <1>1
  <2> HIDE DEF all
  <2> QED
    BY <1>1, <2>1, <2>2 DEF all
<1> QED
  BY <1>2, <1>3

\* So no frame is lost, and none comes from elsewhere.
LEMMA BufferKeeps ==
  ASSUME CdpShape, NEW new \in Seq(AnyFrame), Buffer(new)
  PROVE /\ buf' \in Seq(AnyFrame) /\ spill' \in Seq(AnyFrame) /\ Len(spill') <= SpillMax
        /\ Range(buf)' \subseteq Range(buf) \cup Range(new)
        /\ Range(spill)' \subseteq Range(spill) \cup Range(buf) \cup Range(new)
        /\ Range(buf) \cup Range(spill) \cup Range(new) \subseteq Range(buf)' \cup Range(spill)'
        /\ Len(spill) <= Len(spill')
        /\ \A i \in 1..Len(spill) : spill'[i] = spill[i]
        /\ \A i \in 1..Len(buf) : i <= replaying =>
             \/ \E j \in 1..Len(buf') : j <= replaying /\ buf'[j] = buf[i]
             \/ \E j \in Len(spill) + 1 .. Len(spill') : spill'[j] = buf[i]
<1> DEFINE all == buf \o new
<1>1. /\ buf \in Seq(AnyFrame) /\ spill \in Seq(AnyFrame) /\ all \in Seq(AnyFrame)
      /\ Len(all) = Len(buf) + Len(new)
      /\ Len(buf) \in Nat /\ Len(new) \in Nat /\ Len(spill) \in Nat
      /\ \A i \in 1..Len(buf) : all[i] = buf[i]
      /\ \A i \in 1..Len(new) : all[Len(buf) + i] = new[i]
      /\ replaying \in Nat
  BY DEF CdpShape
<1>2. PICK d \in 0..Len(all) :
          /\ buf' \in Seq(AnyFrame) /\ Len(buf') = Len(all) - d
          /\ \A i \in 1..Len(buf') : buf'[i] = all[i + d]
          /\ spill' \in Seq(AnyFrame) /\ Len(spill') = Len(spill) + d /\ Len(spill') <= SpillMax
          /\ \A i \in 1..Len(spill) : spill'[i] = spill[i]
          /\ \A i \in 1..d : spill'[Len(spill) + i] = all[i]
  BY BufferMoves
<1> HIDE DEF all
<1>3. \A i \in 1..Len(all) : all[i] \in Range(buf) \cup Range(new)
  <2> SUFFICES ASSUME NEW i \in 1..Len(all) PROVE all[i] \in Range(buf) \cup Range(new)
    OBVIOUS
  <2>1. CASE i <= Len(buf)
    <3>1. i \in 1..Len(buf) /\ all[i] = buf[i]
      BY <1>1, <2>1
    <3> QED
      BY <3>1 DEF Range
  <2>2. CASE i > Len(buf)
    <3>1. i - Len(buf) \in 1..Len(new) /\ i = Len(buf) + (i - Len(buf))
      BY <1>1, <2>2
    <3>2. all[i] = new[i - Len(buf)]
      BY <1>1, <3>1
    <3> QED
      BY <3>1, <3>2 DEF Range
  <2> QED
    BY <1>1, <2>1, <2>2
<1>4. \A f \in Range(buf) \cup Range(new) : \E i \in 1..Len(all) : all[i] = f
  <2> SUFFICES ASSUME NEW f \in Range(buf) \cup Range(new) PROVE \E i \in 1..Len(all) : all[i] = f
    OBVIOUS
  <2>1. CASE f \in Range(buf)
    BY <1>1, <2>1 DEF Range
  <2>2. CASE f \in Range(new)
    <3>1. PICK i \in 1..Len(new) : f = new[i]
      BY <2>2 DEF Range
    <3>2. Len(buf) + i \in 1..Len(all) /\ all[Len(buf) + i] = f
      BY <1>1, <3>1
    <3> QED
      BY <3>2
  <2> QED
    BY <2>1, <2>2
<1>5. \A i \in 1..Len(all) :
        \/ \E j \in 1..Len(buf') : i = j + d /\ buf'[j] = all[i]
        \/ \E j \in Len(spill) + 1 .. Len(spill') : spill'[j] = all[i]
  <2> SUFFICES ASSUME NEW i \in 1..Len(all)
               PROVE \/ \E j \in 1..Len(buf') : i = j + d /\ buf'[j] = all[i]
                     \/ \E j \in Len(spill) + 1 .. Len(spill') : spill'[j] = all[i]
    OBVIOUS
  <2>1. CASE i <= d
    <3>1. Len(spill) + i \in Len(spill) + 1 .. Len(spill') /\ i \in 1..d
      BY <1>1, <1>2, <2>1
    <3> QED
      BY <1>2, <3>1
  <2>2. CASE i > d
    <3>1. i - d \in 1..Len(buf') /\ i = (i - d) + d
      BY <1>1, <1>2, <2>2
    <3> QED
      BY <1>2, <3>1
  <2> QED
    <3>1. i \in Nat /\ d \in Nat
      BY <1>1
    <3> QED
      BY <2>1, <2>2, <3>1
<1>11. /\ \A j \in 1..Len(spill') : spill'[j] \in Range(spill)'
       /\ \A j \in 1..Len(buf') : buf'[j] \in Range(buf)'
  <2>1. DOMAIN spill' = 1..Len(spill') /\ DOMAIN buf' = 1..Len(buf')
    BY <1>2
  <2> QED
    BY <2>1 DEF Range
<1>12. \A f \in Range(spill) : \E i \in 1..Len(spill) : f = spill[i]
  BY <1>1 DEF Range
<1>6. Range(buf)' \subseteq Range(buf) \cup Range(new)
  <2>1. DOMAIN buf' = 1..Len(buf')
    BY <1>2
  <2>2. \A f \in Range(buf') : \E i \in 1..Len(buf') : f = buf'[i]
    BY <2>1 DEF Range
  <2> SUFFICES ASSUME NEW f \in Range(buf') PROVE f \in Range(buf) \cup Range(new)
    OBVIOUS
  <2>3. PICK i \in 1..Len(buf') : f = buf'[i]
    BY <2>2
  <2>4. buf'[i] = all[i + d]
    BY <1>2, <2>3
  <2>5. Len(all) \in Nat /\ Len(buf') = Len(all) - d
    BY <1>1, <1>2
  <2>6. i + d \in 1..Len(all)
    BY <2>5
  <2> QED
    BY <1>3, <2>3, <2>4, <2>6
<1>7. Range(spill)' \subseteq Range(spill) \cup Range(buf) \cup Range(new)
  <2> SUFFICES ASSUME NEW i \in 1..Len(spill')
               PROVE spill'[i] \in Range(spill) \cup Range(buf) \cup Range(new)
    BY <1>2 DEF Range
  <2>1. CASE i <= Len(spill)
    BY <1>1, <1>2, <2>1 DEF Range
  <2>2. CASE i > Len(spill)
    <3>1. i - Len(spill) \in 1..d /\ i - Len(spill) \in 1..Len(all)
          /\ Len(spill) + (i - Len(spill)) = i
      BY <1>1, <1>2, <2>2
    <3>2. spill'[i] = all[i - Len(spill)]
      BY <1>2, <3>1
    <3> QED
      BY <1>3, <3>1, <3>2
  <2> QED
    BY <1>1, <2>1, <2>2
<1>8. Range(buf) \cup Range(new) \subseteq Range(buf)' \cup Range(spill)'
  <2> SUFFICES ASSUME NEW i \in 1..Len(all) PROVE all[i] \in Range(buf)' \cup Range(spill)'
    BY <1>4
  <2>1. \A j \in Len(spill) + 1 .. Len(spill') : j \in 1..Len(spill')
    BY <1>1, <1>2
  <2> QED
    BY <1>5, <1>11, <2>1
<1>9. Range(spill) \subseteq Range(spill)'
  <2> SUFFICES ASSUME NEW i \in 1..Len(spill) PROVE spill[i] \in Range(spill)'
    BY <1>12
  <2>1. i \in 1..Len(spill') /\ spill'[i] = spill[i]
    BY <1>1, <1>2
  <2> QED
    BY <1>11, <2>1
<1>10. \A i \in 1..Len(buf) : i <= replaying =>
             \/ \E j \in 1..Len(buf') : j <= replaying /\ buf'[j] = buf[i]
             \/ \E j \in Len(spill) + 1 .. Len(spill') : spill'[j] = buf[i]
  <2> SUFFICES ASSUME NEW i \in 1..Len(buf), i <= replaying
               PROVE \/ \E j \in 1..Len(buf') : j <= replaying /\ buf'[j] = buf[i]
                     \/ \E j \in Len(spill) + 1 .. Len(spill') : spill'[j] = buf[i]
    OBVIOUS
  <2>1. i \in 1..Len(all) /\ all[i] = buf[i]
    BY <1>1
  <2>2. CASE \E j \in 1..Len(buf') : i = j + d /\ buf'[j] = all[i]
    <3>1. PICK j \in 1..Len(buf') : i = j + d /\ buf'[j] = all[i]
      BY <2>2
    <3>2. j <= replaying
      BY <1>1, <3>1
    <3> QED
      BY <2>1, <3>1, <3>2
  <2> QED
    BY <1>5, <2>1, <2>2
<1> QED
  BY <1>1, <1>2, <1>6, <1>7, <1>8, <1>9, <1>10

LEMMA RangeOfAppend ==
  ASSUME NEW X, NEW s \in Seq(X), NEW x \in X
  PROVE Range(Append(s, x)) = Range(s) \cup {x}
<1>1. /\ Len(Append(s, x)) = Len(s) + 1 /\ Append(s, x) \in Seq(X) /\ Len(s) \in Nat
      /\ \A i \in 1..Len(s) : Append(s, x)[i] = s[i]
      /\ Append(s, x)[Len(s) + 1] = x
  OBVIOUS
<1> QED
  BY <1>1 DEF Range

LEMMA RangeOfConcat ==
  ASSUME NEW X, NEW s \in Seq(X), NEW t \in Seq(X)
  PROVE Range(s \o t) = Range(s) \cup Range(t)
<1> DEFINE st == s \o t
<1>1. /\ st \in Seq(X) /\ Len(st) = Len(s) + Len(t) /\ Len(s) \in Nat /\ Len(t) \in Nat
      /\ \A i \in 1..Len(s) : st[i] = s[i]
      /\ \A i \in 1..Len(t) : st[Len(s) + i] = t[i]
  BY Concat
<1> HIDE DEF st
<1>2. ASSUME NEW i \in 1..Len(st) PROVE st[i] \in Range(s) \cup Range(t)
  <2>1. CASE i <= Len(s)
    BY <1>1, <2>1 DEF Range
  <2>2. CASE i > Len(s)
    <3>1. i - Len(s) \in 1..Len(t) /\ Len(s) + (i - Len(s)) = i
      BY <1>1, <2>2
    <3>2. st[i] = t[i - Len(s)]
      BY <1>1, <3>1
    <3> QED
      BY <3>1, <3>2 DEF Range
  <2> QED
    BY <1>1, <2>1, <2>2
<1>3. \A i \in 1..Len(s) : s[i] = st[i] /\ i \in 1..Len(st)
  BY <1>1
<1>4. \A i \in 1..Len(t) : t[i] = st[Len(s) + i] /\ Len(s) + i \in 1..Len(st)
  BY <1>1
<1>5. Range(st) \subseteq Range(s) \cup Range(t)
  <2>1. \A x \in Range(st) : \E i \in 1..Len(st) : x = st[i]
    BY <1>1 DEF Range
  <2> QED
    BY <1>2, <2>1
<1>6. \A i \in 1..Len(st) : st[i] \in Range(st)
  BY <1>1 DEF Range
<1>7. Range(s) \subseteq Range(st)
  <2>1. \A x \in Range(s) : \E i \in 1..Len(s) : x = s[i]
    BY DEF Range
  <2> QED
    BY <1>3, <1>6, <2>1
<1>8. Range(t) \subseteq Range(st)
  <2>1. \A x \in Range(t) : \E i \in 1..Len(t) : x = t[i]
    BY DEF Range
  <2> QED
    BY <1>4, <1>6, <2>1
<1> QED
  BY <1>5, <1>7, <1>8 DEF st

LEMMA RangeOfTail ==
  ASSUME NEW X, NEW s \in Seq(X), s # <<>>
  PROVE /\ Tail(s) \in Seq(X) /\ Head(s) \in X
        /\ Range(s) = {Head(s)} \cup Range(Tail(s))
<1>1. /\ Len(s) \in Nat \ {0} /\ Len(Tail(s)) = Len(s) - 1 /\ Tail(s) \in Seq(X)
      /\ Head(s) = s[1] /\ Head(s) \in X
      /\ \A i \in 1..Len(s) - 1 : Tail(s)[i] = s[i + 1]
  OBVIOUS
<1>2. \A i \in 1..Len(s) : i = 1 \/ (i - 1 \in 1..Len(s) - 1 /\ (i - 1) + 1 = i)
  BY <1>1
<1>3. ASSUME NEW i \in 1..Len(s) PROVE s[i] \in {Head(s)} \cup Range(Tail(s))
  <2>1. CASE i = 1
    BY <1>1, <2>1
  <2>2. CASE i # 1
    <3>1. Tail(s)[i - 1] = s[i] /\ i - 1 \in DOMAIN Tail(s)
      BY <1>1, <1>2, <2>2
    <3> QED
      BY <3>1 DEF Range
  <2> QED
    BY <2>1, <2>2
<1>4. \A i \in 1..Len(s) - 1 : Tail(s)[i] = s[i + 1] /\ i + 1 \in 1..Len(s)
  BY <1>1
<1> QED
  BY <1>1, <1>3, <1>4 DEF Range

-----------------------------------------------------------------------------
(* CdpCapture: the invariant, action by action.                             *)

LEMMA CdpParts ==
  CdpInv => /\ CdpShape /\ NewPage /\ Sound(Now) /\ ReplayedIsOld
            /\ FramesAreKept /\ BatchIsDone /\ StoreIsCopied
            /\ buf \in Seq(AnyFrame) /\ pushq \in Seq(AnyFrame) /\ spill \in Seq(AnyFrame)
            /\ queue \in Seq(AnyFrame) /\ Len(buf) \in Nat /\ Len(spill) \in Nat
            /\ replaying \in Nat /\ reread \in Nat
  BY DEF CdpInv, CdpShape

LEMMA RecordStep ==
  ASSUME CdpInv, NEW f \in Frames, Record(f) PROVE CdpInv'
<1> USE CdpParts DEF page, python
<1>1. /\ f \in fresh /\ hooked /\ fresh' = fresh \ {f} /\ f \in AnyFrame /\ ~f.old
      /\ UNCHANGED <<historyOnly, hooked, failed, replaying, posts, session, queue, pump, seen,
                     told, live, archived, replayed, reread, gone>>
  BY DEF Record, AnyFrame, Frames, Frame
<1>2. Now' = Now /\ Grown(Now, Now')
  BY <1>1, SameNow
<1>3. CASE pushq' = Append(pushq, f) /\ UNCHANGED <<buf, spill>>
  <2>1. pushq' \in Seq(AnyFrame) /\ Range(pushq') = Range(pushq) \cup {f}
    BY <1>1, <1>3, RangeOfAppend
  <2>2. CdpShape'
    BY <1>1, <1>3, <2>1 DEF CdpShape
  <2>3. ReplayedIsOld'
    BY <1>1, <1>3, <2>1, OldStays DEF NewRoads
  <2>4. FramesAreKept'
    BY <1>1, <1>2, <1>3, <2>1, KeptStays DEF Roads
  <2>5. StoreIsCopied'
    BY <1>1, <1>2, <1>3, StoreStays
  <2> QED
    BY <1>1, <1>2, <2>2, <2>3, <2>4, <2>5, BatchStays DEF CdpInv, NewPage
<1>4. CASE Buffer(<<f>>) /\ UNCHANGED pushq
  <2>1. <<f>> \in Seq(AnyFrame) /\ Range(<<f>>) = {f}
    BY <1>1 DEF Range
  <2>2. /\ buf' \in Seq(AnyFrame) /\ spill' \in Seq(AnyFrame) /\ Len(spill') <= SpillMax
        /\ Range(buf)' \subseteq Range(buf) \cup {f}
        /\ Range(spill)' \subseteq Range(spill) \cup Range(buf) \cup {f}
        /\ Range(buf) \cup Range(spill) \cup {f} \subseteq Range(buf)' \cup Range(spill)'
        /\ Len(spill) <= Len(spill')
        /\ \A i \in 1..Len(spill) : spill'[i] = spill[i]
        /\ \A i \in 1..Len(buf) : i <= replaying =>
             \/ \E j \in 1..Len(buf') : j <= replaying /\ buf'[j] = buf[i]
             \/ \E j \in Len(spill) + 1 .. Len(spill') : spill'[j] = buf[i]
    BY <1>4, <2>1, BufferKeeps
  <2>3. CdpShape'
    BY <1>1, <1>4, <2>2 DEF CdpShape
  <2>4. ReplayedIsOld'
    BY <1>1, <1>4, <2>2, OldStays DEF NewRoads
  <2>5. FramesAreKept'
    BY <1>1, <1>2, <1>4, <2>2, KeptStays DEF Roads
  <2>6. StoreIsCopied'
    BY <1>1, <1>2, <2>2, StoreStays
  <2> QED
    BY <1>1, <1>2, <2>3, <2>4, <2>5, <2>6, BatchStays DEF CdpInv, NewPage
<1> QED
  BY <1>3, <1>4 DEF Record

LEMMA AnsweredStep ==
  ASSUME CdpInv, NEW p \in posts, Answered(p) PROVE CdpInv'
<1> USE CdpParts DEF page, python
<1>1. /\ p.at \in {"taken", "failed"} /\ posts' = posts \ {p}
      /\ UNCHANGED <<historyOnly, hooked, pushq, replaying, fresh, session, queue, pump, seen,
                     told, live, archived, replayed, reread>>
      /\ p.frames \in Seq(AnyFrame)
  BY DEF Answered, CdpShape
<1>2. CASE p.heard /\ p.at = "failed" /\ Buffer(p.frames) /\ UNCHANGED gone
  <2>1. Now' = Now /\ Grown(Now, Now')
    BY <1>1, <1>2, SameNow
  <2>2. /\ buf' \in Seq(AnyFrame) /\ spill' \in Seq(AnyFrame) /\ Len(spill') <= SpillMax
        /\ Range(buf)' \subseteq Range(buf) \cup Asked(p)
        /\ Range(spill)' \subseteq Range(spill) \cup Range(buf) \cup Asked(p)
        /\ Range(buf) \cup Range(spill) \cup Asked(p) \subseteq Range(buf)' \cup Range(spill)'
        /\ Len(spill) <= Len(spill')
        /\ \A i \in 1..Len(spill) : spill'[i] = spill[i]
        /\ \A i \in 1..Len(buf) : i <= replaying =>
             \/ \E j \in 1..Len(buf') : j <= replaying /\ buf'[j] = buf[i]
             \/ \E j \in Len(spill) + 1 .. Len(spill') : spill'[j] = buf[i]
    BY <1>1, <1>2, BufferKeeps DEF Asked
  <2>3. CdpShape'
    BY <1>1, <2>2 DEF CdpShape
  <2>4. ReplayedIsOld'
    BY <1>1, <2>2, OldStays DEF NewRoads
  <2>5. FramesAreKept'
    BY <1>1, <2>1, <2>2, KeptStays DEF Roads
  <2>6. StoreIsCopied'
    BY <1>1, <2>1, <2>2, StoreStays
  <2>7. NewPage'
    BY <1>1, <1>2 DEF NewPage
  <2> QED
    BY <1>1, <2>1, <2>3, <2>4, <2>5, <2>6, <2>7, BatchStays DEF CdpInv
<1>3. CASE ~(p.heard /\ p.at = "failed")
  <2>1. /\ gone' = IF p.heard \/ p.at = "taken" THEN gone ELSE gone \cup IdsOf(p.frames)
        /\ UNCHANGED <<buf, spill>>
    BY <1>3 DEF Answered
  <2>2. gone \subseteq gone' /\ gone' \subseteq Ids
    BY <1>1, <2>1, FrameIds DEF Sound, Records, Now
  <2>3. Sound(Now') /\ Grown(Now, Now')
    BY <1>1, <2>2, GoneGrows
  <2>4. CdpShape' /\ NewPage'
    BY <1>1, <2>1 DEF CdpShape, NewPage
  <2>5. ReplayedIsOld'
    BY <1>1, <2>1, OldStays DEF NewRoads
  <2>6. ASSUME NEW h \in Roads PROVE h \in Roads' \/ DoneFrame(Now', h)
    <3>1. CASE p.at = "taken"
      BY <1>1, <2>1, <3>1 DEF Roads
    <3>2. CASE p.at = "failed" /\ h \in Asked(p)
      <4>1. ~(p.heard \/ p.at = "taken")
        BY <1>3, <3>2
      <4>2. Range(h.ids) \subseteq gone'
        BY <1>1, <2>1, <3>2, <4>1, FrameIds DEF Asked
      <4> QED
        BY <4>2 DEF DoneFrame, Done, Now
    <3>3. CASE h \notin Asked(p)
      BY <1>1, <2>1, <3>3 DEF Roads
    <3> QED
      BY <1>1, <3>1, <3>2, <3>3
  <2>7. FramesAreKept'
    BY <1>1, <2>3, <2>6, KeptStays
  <2>8. StoreIsCopied'
    BY <1>1, <2>1, <2>3, StoreStays
  <2> QED
    BY <1>1, <2>3, <2>4, <2>5, <2>7, <2>8, BatchStays DEF CdpInv
<1> QED
  BY <1>2, <1>3 DEF Answered

LEMMA FlushStep ==
  ASSUME CdpInv, Flush PROVE CdpInv'
<1> USE CdpParts DEF page, python
<1> DEFINE p == [frames |-> pushq, at |-> "sent", heard |-> TRUE]
<1>1. /\ pushq # <<>> /\ posts' = posts \cup {p} /\ pushq' = <<>>
      /\ UNCHANGED <<historyOnly, hooked, buf, replaying, spill, fresh, session, queue, pump,
                     seen, told, live, archived, replayed, reread, gone>>
  BY DEF Flush
<1>2. Now' = Now /\ Grown(Now, Now')
  BY <1>1, SameNow
<1>3. p.frames = pushq /\ p.at = "sent" /\ p = [frames |-> p.frames, at |-> p.at, heard |-> p.heard]
  OBVIOUS
<1> HIDE DEF p
<1>4. Range(<<>>) = {} /\ Asked(p) = Range(pushq)
  BY <1>3 DEF Range, Asked
<1>5. CdpShape'
  BY <1>1, <1>3 DEF CdpShape
<1>6. NewPage'
  BY <1>1 DEF NewPage
<1>7. ReplayedIsOld'
  BY <1>1, <1>4, OldStays DEF NewRoads
<1>8. FramesAreKept'
  BY <1>1, <1>2, <1>3, <1>4, KeptStays DEF Roads
<1>9. StoreIsCopied'
  BY <1>1, <1>2, StoreStays
<1> QED
  BY <1>1, <1>2, <1>5, <1>6, <1>7, <1>8, <1>9, BatchStays DEF CdpInv

LEMMA ProbeStep ==
  ASSUME CdpInv, Probe \/ PeekFails \/ UNCHANGED vars PROVE CdpInv'
<1>1. UNCHANGED <<historyOnly, hooked, buf, pushq, replaying, spill, fresh, posts, queue, pump,
                  seen, told, live, archived, replayed, reread, gone>>
  BY DEF Probe, PeekFails, page, python, vars
<1> QED
  BY <1>1 DEF CdpInv, CdpShape, NewPage, Sound, Now, Done, ReplayedIsOld, NewRoads, FramesAreKept,
     Roads, Waits, Wanted, BatchIsDone, StoreIsCopied

LEMMA UnloadStep ==
  ASSUME CdpInv, Unload PROVE CdpInv'
<1> USE CdpParts DEF page, python
<1>1. /\ spill' = IF Fits(buf) THEN spill \o buf ELSE spill
      /\ gone' = gone \cup IdsOf(pushq) \cup (IF Fits(buf) THEN {} ELSE IdsOf(buf))
      /\ hooked' = FALSE /\ buf' = <<>> /\ pushq' = <<>> /\ replaying' = 0 /\ reread' = 0
      /\ posts' = {Unheard(p) : p \in posts}
      /\ UNCHANGED <<historyOnly, fresh, session, queue, pump, seen, told, live, archived,
                     replayed>>
  BY DEF Unload
<1>2. gone \subseteq gone' /\ gone' \subseteq Ids
  BY <1>1, FrameIds DEF Sound, Records, Now
<1>3. Sound(Now') /\ Grown(Now, Now')
  BY <1>1, <1>2, GoneGrows
<1>5. /\ \A q \in posts' : \E p \in posts : q = [frames |-> p.frames, at |-> p.at, heard |-> FALSE]
      /\ \A p \in posts : [frames |-> p.frames, at |-> p.at, heard |-> FALSE] \in posts'
  BY <1>1 DEF Unheard
<1>6. /\ spill' \in Seq(AnyFrame) /\ Len(spill') <= SpillMax
      /\ Range(spill)' = Range(spill) \cup IF Fits(buf) THEN Range(buf) ELSE {}
  <2>1. CASE Fits(buf)
    <3>1. spill \o buf \in Seq(AnyFrame) /\ Len(spill \o buf) = Len(spill) + Len(buf)
      BY Concat
    <3> QED
      BY <1>1, <2>1, <3>1, RangeOfConcat DEF Fits
  <2>2. CASE ~Fits(buf)
    BY <1>1, <2>2 DEF CdpShape
  <2> QED
    BY <2>1, <2>2
<1>7. Range(<<>>) = {}
  BY DEF Range
<1>8. CdpShape'
  <2>1. \A q \in posts' : q = [frames |-> q.frames, at |-> q.at, heard |-> q.heard]
                        /\ q.frames \in Seq(AnyFrame)
    BY <1>5 DEF CdpShape
  <2>2. replaying' \in Nat /\ reread' \in Nat /\ reread' <= Len(spill')
        /\ {buf', pushq', spill', queue'} \subseteq Seq(AnyFrame)
    BY <1>1, <1>6
  <2> QED
    BY <1>1, <1>6, <2>1, <2>2 DEF CdpShape
<1>9. NewPage'
  BY <1>1, <1>5 DEF NewPage
<1>10. \A h \in UNION {Asked(p) : p \in posts'} : h \in UNION {Asked(p) : p \in posts}
  <2> SUFFICES ASSUME NEW q \in posts', NEW h \in Asked(q)
               PROVE \E p \in posts : h \in Asked(p)
    OBVIOUS
  <2>1. PICK p \in posts : q = [frames |-> p.frames, at |-> p.at, heard |-> FALSE]
    BY <1>5
  <2>2. Asked(q) = Asked(p)
    BY <2>1 DEF Asked
  <2> QED
    BY <2>2
<1>11. \A h \in UNION {Asked(p) : p \in {q \in posts : q.at # "taken"}} :
         h \in UNION {Asked(p) : p \in {q \in posts' : q.at # "taken"}}
  <2> SUFFICES ASSUME NEW p \in posts, p.at # "taken", NEW h \in Asked(p)
               PROVE \E q \in posts' : q.at # "taken" /\ h \in Asked(q)
    OBVIOUS
  <2> DEFINE q == [frames |-> p.frames, at |-> p.at, heard |-> FALSE]
  <2>1. q \in posts' /\ q.at = p.at /\ q.frames = p.frames
    BY <1>5
  <2> HIDE DEF q
  <2> QED
    BY <2>1 DEF Asked
<1>12. ReplayedIsOld'
  BY <1>1, <1>6, <1>7, <1>10, OldStays DEF NewRoads
<1>13. ASSUME NEW h \in Roads PROVE h \in Roads' \/ DoneFrame(Now', h)
  <2>1. CASE h \in Range(pushq) \/ (h \in Range(buf) /\ ~Fits(buf))
    <3>1. Range(h.ids) \subseteq gone'
      BY <1>1, <2>1, FrameIds
    <3> QED
      BY <3>1 DEF DoneFrame, Done, Now
  <2>2. CASE h \in Range(spill) \/ (h \in Range(buf) /\ Fits(buf))
    BY <1>6, <2>2 DEF Roads
  <2>3. CASE h \in Range(queue) \/ h \in UNION {Asked(p) : p \in {q \in posts : q.at # "taken"}}
    BY <1>1, <1>11, <2>3 DEF Roads
  <2> QED
    BY <2>1, <2>2, <2>3 DEF Roads
<1>14. FramesAreKept'
  BY <1>1, <1>3, <1>13, KeptStays
<1> QED
  BY <1>1, <1>3, <1>8, <1>9, <1>12, <1>14, BatchStays DEF CdpInv, StoreIsCopied

LEMMA PostStep ==
  ASSUME CdpInv, NEW p \in posts, Accept(p) \/ PostFails(p) PROVE CdpInv'
<1> USE CdpParts DEF page, python
<1>1. /\ UNCHANGED <<historyOnly, hooked, buf, pushq, replaying, spill, fresh, session, pump, seen,
                     told, live, archived, replayed, reread, gone>>
      /\ p.frames \in Seq(AnyFrame) /\ p = [frames |-> p.frames, at |-> p.at, heard |-> p.heard]
  BY DEF Accept, PostFails, CdpShape
<1>2. PICK a \in {"taken", "failed"} :
        /\ posts' = (posts \ {p}) \cup {[p EXCEPT !.at = a]}
        /\ queue' = queue \/ queue' = queue \o p.frames
        /\ a = "taken" => queue' = queue \o p.frames
  BY DEF Accept, PostFails
<1> DEFINE q == [p EXCEPT !.at = a]
<1>3. q = [frames |-> p.frames, at |-> a, heard |-> p.heard]
  BY <1>1
<1>4. posts' = (posts \ {p}) \cup {q}
  BY <1>2
<1> HIDE DEF q
<1>5. q.frames = p.frames /\ q.at = a /\ q.heard = p.heard /\ Asked(q) = Asked(p)
  BY <1>3 DEF Asked
<1>6. /\ queue' \in Seq(AnyFrame) /\ Range(queue) \subseteq Range(queue')
      /\ Range(queue') \subseteq Range(queue) \cup Asked(p)
      /\ a = "taken" => Asked(p) \subseteq Range(queue')
  <2>1. CASE queue' = queue
    <3>1. a = "taken" => queue = queue \o p.frames
      BY <1>2, <2>1
    <3>2. Range(queue \o p.frames) = Range(queue) \cup Asked(p)
      BY <1>1, RangeOfConcat DEF Asked
    <3> QED
      BY <2>1, <3>1, <3>2
  <2>2. CASE queue' = queue \o p.frames
    <3>1. /\ queue \o p.frames \in Seq(AnyFrame)
          /\ Range(queue \o p.frames) = Range(queue) \cup Range(p.frames)
      BY <1>1, RangeOfConcat
    <3> QED
      BY <2>2, <3>1 DEF Asked
  <2> QED
    BY <1>2, <2>1, <2>2
<1>7. Now' = Now /\ Grown(Now, Now')
  BY <1>1, SameNow
<1>8. CdpShape'
  BY <1>1, <1>3, <1>4, <1>5, <1>6 DEF CdpShape
<1>9. NewPage'
  BY <1>1, <1>4, <1>5 DEF NewPage
<1>10. ReplayedIsOld'
  <2>1. \A h \in UNION {Asked(r) : r \in posts'} : h \in UNION {Asked(r) : r \in posts}
    BY <1>4, <1>5
  <2> QED
    BY <1>1, <1>6, <2>1, OldStays DEF NewRoads
<1>11. FramesAreKept'
  <2>1. ASSUME NEW r \in posts, r.at # "taken", NEW h \in Asked(r) PROVE h \in Roads'
    <3>1. CASE r # p
      BY <1>4, <2>1, <3>1 DEF Roads
    <3>2. CASE r = p /\ a = "taken"
      BY <1>6, <2>1, <3>2 DEF Roads
    <3>3. CASE r = p /\ a = "failed"
      BY <1>4, <1>5, <2>1, <3>3 DEF Roads
    <3> QED
      BY <3>1, <3>2, <3>3
  <2>2. ASSUME NEW h \in Roads PROVE h \in Roads'
    BY <1>1, <1>6, <2>1, <2>2 DEF Roads
  <2> QED
    BY <1>1, <1>7, <2>2, KeptStays
<1>12. StoreIsCopied'
  BY <1>1, <1>7, StoreStays
<1> QED
  BY <1>1, <1>7, <1>8, <1>9, <1>10, <1>11, <1>12, BatchStays DEF CdpInv

\* Handling changes what was told, and nothing in the page.
LEMMA HandlingKeeps ==
  ASSUME CdpInv, NEW r, Sound(r), Grown(Now, r), Becomes(r),
         UNCHANGED <<historyOnly, hooked, buf, pushq, replaying, spill, fresh, posts, replayed,
                     reread>>
  PROVE Sound(Now') /\ Grown(Now, Now') /\ NewPage' /\ StoreIsCopied' /\ Now' = r
<1> USE CdpParts
<1>1. Now' = r
  BY BecomesIsNow
<1>2. Sound(Now') /\ Grown(Now, Now')
  BY <1>1
<1>3. NewPage'
  BY DEF NewPage
<1>4. StoreIsCopied'
  BY <1>2, StoreStays
<1> QED
  BY <1>1, <1>2, <1>3, <1>4

LEMMA PumpPushStep ==
  ASSUME CdpInv, PumpPush
  PROVE /\ CdpInv'
        /\ \A m \in live' \ live :
             \E f \in Range(queue) : ~f.old /\ f.kind = "push" /\ m \in Range(f.ids)
<1> USE CdpParts DEF page, python
<1> DEFINE f == Head(queue)
<1>1. /\ queue # <<>> /\ queue' = Tail(queue)
      /\ UNCHANGED <<historyOnly, hooked, buf, pushq, replaying, spill, fresh, session, posts, pump,
                     replayed, reread>>
  BY DEF PumpPush
<1>2. /\ f \in AnyFrame /\ queue' \in Seq(AnyFrame) /\ Range(queue) = {f} \cup Range(queue')
  BY <1>1, RangeOfTail
<1>3. f \in FrameLike
  BY <1>2, FrameShape
<1>4. \/ Becomes(Handle(Now, f))
      \/ \E k \in DOMAIN f.ids :
           /\ Breaks(Now, f, k)
           /\ Becomes(Archive(HandleTo(Now, f, k), f))
  BY DEF PumpPush
<1> HIDE DEF f
<1>5. PICK r : /\ Becomes(r) /\ Sound(r) /\ Grown(Now, r) /\ (Wanted(f) => DoneFrame(r, f))
               /\ \A m \in r.live \ live : ~f.old /\ f.kind = "push" /\ m \in Range(f.ids)
  <2>1. Now.live = live
    BY DEF Now
  <2>2. CASE Becomes(Handle(Now, f))
    BY <1>3, <2>1, <2>2, HandleIsSound
  <2>3. CASE \E k \in DOMAIN f.ids :
               /\ Breaks(Now, f, k)
               /\ Becomes(Archive(HandleTo(Now, f, k), f))
    <3>1. PICK k, r : /\ Breaks(Now, f, k) /\ Becomes(r)
                      /\ r = Archive(HandleTo(Now, f, k), f)
      BY <2>3
    <3>2. /\ Sound(r) /\ Grown(Now, r) /\ DoneFrame(r, f)
          /\ \A m \in r.live \ Now.live : ~f.old /\ f.kind = "push" /\ m \in Range(f.ids)
      BY <1>2, <3>1, FailIsSound
    <3> QED
      BY <2>1, <3>1, <3>2
  <2> QED
    BY <1>4, <2>2, <2>3
<1>6. Sound(Now') /\ Grown(Now, Now') /\ NewPage' /\ StoreIsCopied' /\ Now' = r /\ r.live = live'
  BY <1>1, <1>5, HandlingKeeps DEF Now
<1>7. CdpShape'
  BY <1>1, <1>2 DEF CdpShape
<1>8. ReplayedIsOld'
  BY <1>1, <1>2, OldStays DEF NewRoads
<1>9. ASSUME NEW h \in Roads PROVE h \in Roads' \/ (Wanted(h) => DoneFrame(Now', h))
  <2>1. CASE h = f
    BY <1>5, <1>6, <2>1
  <2>2. CASE h # f
    BY <1>1, <1>2, <2>2 DEF Roads
  <2> QED
    BY <2>1, <2>2
<1>10. FramesAreKept'
  BY <1>1, <1>6, <1>9, KeptStays
<1>11. CdpInv'
  BY <1>1, <1>6, <1>7, <1>8, <1>10, BatchStays DEF CdpInv
<1> QED
  BY <1>2, <1>5, <1>6, <1>11

LEMMA PeekStep ==
  ASSUME CdpInv, Peek PROVE CdpInv'
<1> USE CdpParts DEF page, python
<1>1. /\ UNCHANGED <<historyOnly, hooked, buf, pushq, replaying, spill, fresh, posts, queue, seen,
                     told, live, archived, replayed, reread, gone>>
  BY DEF Peek
<1>2. CASE UNCHANGED pump
  BY <1>1, <1>2, ProbeStep DEF CdpInv, CdpShape, NewPage, Sound, Now, Done, ReplayedIsOld, NewRoads,
     FramesAreKept, Roads, Waits, Wanted, BatchIsDone, StoreIsCopied
<1>3. CASE pump' = [at |-> "handle", ok |-> TRUE,
                    batch |-> SubSeq(buf, 1, IF Len(buf) > BatchMax THEN BatchMax ELSE Len(buf))]
  <2> DEFINE n == IF Len(buf) > BatchMax THEN BatchMax ELSE Len(buf)
             front == SubSeq(buf, 1, n)
  <2>1. n \in 0..Len(buf)
    BY BoundsAssumption
  <2>2. front \in Seq(AnyFrame) /\ Range(front) \subseteq Range(buf)
    <3>1. 1 \in Nat \ {0} /\ 1 <= n + 1
      BY <2>1
    <3> HIDE DEF n
    <3> QED
      BY <2>1, <3>1, PartOf
  <2>3. pump'.batch = front /\ pump'.at = "handle"
        /\ pump' = [at |-> pump'.at, batch |-> pump'.batch, ok |-> pump'.ok]
    BY <1>3
  <2> HIDE DEF front, n
  <2>4. CdpShape'
    BY <1>1, <2>2, <2>3 DEF CdpShape
  <2>5. ReplayedIsOld'
    BY <1>1, <2>2, <2>3, OldStays DEF NewRoads
  <2>6. BatchIsDone'
    BY <2>3 DEF BatchIsDone
  <2>7. Now' = Now /\ Grown(Now, Now')
    BY <1>1, SameNow
  <2>8. FramesAreKept'
    BY <1>1, <2>7, KeptStays DEF Roads
  <2>9. StoreIsCopied'
    BY <1>1, <2>7, StoreStays
  <2> QED
    BY <1>1, <2>4, <2>5, <2>6, <2>7, <2>8, <2>9 DEF CdpInv, NewPage
<1> QED
  BY <1>2, <1>3 DEF Peek

LEMMA HandleBatchStep ==
  ASSUME CdpInv, HandleBatch
  PROVE /\ CdpInv'
        /\ \A m \in live' \ live :
             \E f \in Range(pump.batch) : ~f.old /\ f.kind = "push" /\ m \in Range(f.ids)
<1> USE CdpParts DEF page, python
<1> DEFINE Good(r) == /\ Sound(r) /\ Grown(Now, r)
                      /\ \A m \in r.live \ live : \E f \in Range(pump.batch) :
                           ~f.old /\ f.kind = "push" /\ m \in Range(f.ids)
<1>1. /\ UNCHANGED <<historyOnly, hooked, buf, pushq, replaying, spill, fresh, session, posts,
                     queue, replayed, reread>>
  BY DEF HandleBatch
<1>2. pump.batch \in Seq(AnyFrame) /\ Now.live = live
      /\ pump = [at |-> pump.at, batch |-> pump.batch, ok |-> pump.ok]
  BY DEF CdpShape, Now
<1>3. PICK r : /\ Good(r) /\ Becomes(r)
               /\ pump'.at = "ack" /\ pump'.batch = pump.batch
               /\ pump' = [at |-> pump'.at, batch |-> pump'.batch, ok |-> pump'.ok]
               /\ pump'.ok => \A f \in Range(pump.batch) : Wanted(f) => DoneFrame(r, f)
  <2>1. CASE Becomes(HandleAll(Now, pump.batch)) /\ pump' = [pump EXCEPT !.at = "ack"]
    <3>1. Good(HandleAll(Now, pump.batch))
          /\ \A f \in Range(pump.batch) : Wanted(f) => DoneFrame(HandleAll(Now, pump.batch), f)
      BY <1>2, BatchIsSound
    <3>2. pump' = [at |-> "ack", batch |-> pump.batch, ok |-> pump.ok]
      <4>1. PICK at0, batch, ok : pump = [at |-> at0, batch |-> batch, ok |-> ok]
        BY <1>2
      <4> QED
        BY <2>1, <4>1
    <3> QED
      BY <2>1, <3>1, <3>2
  <2>2. ASSUME NEW i \in DOMAIN pump.batch, NEW k, NEW f, NEW s,
               f = pump.batch[i], s = HandleAll(Now, SubSeq(pump.batch, 1, i - 1)),
               Breaks(s, f, k)
        PROVE Good(HandleAll(Forget(HandleTo(s, f, k), f, k),
                             SubSeq(pump.batch, i + 1, Len(pump.batch))))
    <3> DEFINE front == SubSeq(pump.batch, 1, i - 1)
               rest == SubSeq(pump.batch, i + 1, Len(pump.batch))
    <3>1. i \in 1..Len(pump.batch) /\ f \in AnyFrame /\ f \in Range(pump.batch)
      BY <1>2, <2>2 DEF Range
    <3>2. front \in Seq(AnyFrame) /\ Range(front) \subseteq Range(pump.batch)
      <4>1. 1 \in Nat \ {0} /\ i - 1 \in 0..Len(pump.batch) /\ 1 <= (i - 1) + 1
        BY <1>2, <3>1
      <4> QED
        BY <1>2, <4>1, PartOf
    <3>3. rest \in Seq(AnyFrame) /\ Range(rest) \subseteq Range(pump.batch)
      <4>1. i + 1 \in Nat \ {0} /\ Len(pump.batch) \in 0..Len(pump.batch)
            /\ i + 1 <= Len(pump.batch) + 1
        BY <1>2, <3>1
      <4> QED
        BY <1>2, <4>1, PartOf
    <3>10. s = HandleAll(Now, front)
      BY <2>2
    <3> HIDE DEF front, rest
    <3>4. /\ Sound(s) /\ Grown(Now, s)
          /\ \A m \in s.live \ Now.live : \E g \in Range(front) :
               ~g.old /\ g.kind = "push" /\ m \in Range(g.ids)
      BY <3>10, <3>2, BatchIsSound
    <3> DEFINE q == Forget(HandleTo(s, f, k), f, k)
               t == HandleAll(q, rest)
    <3>5. /\ Sound(q) /\ Grown(s, q)
          /\ \A m \in q.live \ s.live : ~f.old /\ f.kind = "push" /\ m \in Range(f.ids)
      BY <2>2, <3>1, <3>4, FailIsSound
    <3> HIDE DEF q
    <3>6. /\ Sound(t) /\ Grown(q, t)
          /\ \A m \in t.live \ q.live : \E g \in Range(rest) :
               ~g.old /\ g.kind = "push" /\ m \in Range(g.ids)
      BY <3>3, <3>5, BatchIsSound
    <3> HIDE DEF t
    <3>7. Grown(Now, t)
      BY <3>4, <3>5, <3>6, GrownTrans
    <3>8. \A m \in t.live \ live : \E g \in Range(pump.batch) :
               ~g.old /\ g.kind = "push" /\ m \in Range(g.ids)
      BY <1>2, <3>1, <3>2, <3>3, <3>4, <3>5, <3>6
    <3>9. Good(t)
      BY <3>6, <3>7, <3>8
    <3> QED
      BY <3>9 DEF t, q, rest
  <2>3. CASE /\ pump' = [at |-> "ack", batch |-> pump.batch, ok |-> FALSE]
             /\ \E i \in DOMAIN pump.batch : \E k \in DOMAIN pump.batch[i].ids :
                  LET f == pump.batch[i]
                      s == HandleAll(Now, SubSeq(pump.batch, 1, i - 1))
                  IN  /\ Breaks(s, f, k)
                      /\ Becomes(HandleAll(Forget(HandleTo(s, f, k), f, k),
                                           SubSeq(pump.batch, i + 1, Len(pump.batch))))
    <3>1. PICK i, k, f, s :
            /\ i \in DOMAIN pump.batch /\ f = pump.batch[i]
            /\ s = HandleAll(Now, SubSeq(pump.batch, 1, i - 1))
            /\ Breaks(s, f, k)
            /\ Becomes(HandleAll(Forget(HandleTo(s, f, k), f, k),
                                 SubSeq(pump.batch, i + 1, Len(pump.batch))))
      BY <2>3
    <3> HIDE DEF Good
    <3>2. Good(HandleAll(Forget(HandleTo(s, f, k), f, k),
                         SubSeq(pump.batch, i + 1, Len(pump.batch))))
      BY <2>2, <3>1
    <3> QED
      BY <2>3, <3>1, <3>2
  <2> HIDE DEF Good
  <2> QED
    BY <2>1, <2>3 DEF HandleBatch
<1>4. Sound(Now') /\ Grown(Now, Now') /\ NewPage' /\ StoreIsCopied' /\ Now' = r /\ r.live = live'
  BY <1>1, <1>3, HandlingKeeps DEF Now
<1>5. CdpShape'
  BY <1>1, <1>2, <1>3 DEF CdpShape
<1>6. ReplayedIsOld'
  BY <1>1, <1>3, OldStays DEF NewRoads
<1>7. FramesAreKept'
  BY <1>1, <1>4, KeptStays DEF Roads
<1>8. BatchIsDone'
  BY <1>1, <1>3, <1>4 DEF BatchIsDone, Wanted
<1>9. CdpInv'
  BY <1>4, <1>5, <1>6, <1>7, <1>8 DEF CdpInv
<1> QED
  BY <1>3, <1>4, <1>9

LEMMA AckStep ==
  ASSUME CdpInv, Ack PROVE CdpInv'
<1> USE CdpParts DEF page, python
<1>1. /\ pump.at = "ack" /\ pump' = Idle
      /\ UNCHANGED <<historyOnly, hooked, pushq, fresh, session, posts, queue, seen,
                     told, live, archived, replayed>>
  BY DEF Ack
<1>2. /\ pump'.batch = <<>> /\ pump'.at = "idle" /\ Range(<<>>) = {}
      /\ pump' = [at |-> pump'.at, batch |-> pump'.batch, ok |-> pump'.ok]
  BY <1>1 DEF Idle, Range
<1>3. BatchIsDone'
  BY <1>2 DEF BatchIsDone
<1>4. CASE UNCHANGED <<buf, replaying, spill, reread, gone>>
  <2>1. Now' = Now /\ Grown(Now, Now')
    BY <1>1, <1>4, SameNow
  <2>2. CdpShape' /\ NewPage'
    BY <1>1, <1>2, <1>4 DEF CdpShape, NewPage
  <2>3. ReplayedIsOld'
    BY <1>1, <1>2, <1>4, OldStays DEF NewRoads
  <2>4. FramesAreKept'
    BY <1>1, <1>4, <2>1, KeptStays DEF Roads
  <2>5. StoreIsCopied'
    BY <1>1, <1>4, <2>1, StoreStays
  <2> QED
    BY <1>3, <2>1, <2>2, <2>3, <2>4, <2>5 DEF CdpInv
<1>5. CASE pump.ok /\ hooked /\ Confirm(Len(pump.batch))
  <2> DEFINE n == Len(pump.batch)
             k == IF Len(buf) > n THEN n ELSE Len(buf)
             left == IF replaying > k THEN replaying - k ELSE 0
             cleared == replaying > 0 /\ left = 0
             front == SubSeq(buf, 1, k)
             behind == SubSeq(spill, reread + 1, Len(spill))
  <2>1. k \in 0..Len(buf) /\ left \in Nat
    BY DEF CdpShape
  <2>2. /\ buf' = SubSeq(buf, k + 1, Len(buf)) /\ replaying' = left
        /\ spill' = (IF cleared THEN <<>> ELSE spill) /\ reread' = (IF cleared THEN 0 ELSE reread)
        /\ gone' = gone \cup IdsIn(Range(front) \ Range(pump.batch))
                        \cup IF cleared THEN IdsOf(behind) ELSE {}
    BY <1>5 DEF Confirm
  <2> HIDE DEF k, front, behind
  <2>3. /\ buf' \in Seq(AnyFrame) /\ Len(buf') = Len(buf) - k /\ Range(buf') \subseteq Range(buf)
        /\ \A j \in 1..(Len(buf) - k) : buf'[j] = buf[j + k]
        /\ \A j \in k + 1 .. Len(buf) : buf[j] \in Range(buf')
    <3>1. k + 1 \in Nat \ {0} /\ Len(buf) \in 0..Len(buf) /\ k + 1 <= Len(buf) + 1
      BY <2>1
    <3>2. /\ SubSeq(buf, k + 1, Len(buf)) \in Seq(AnyFrame)
          /\ Range(SubSeq(buf, k + 1, Len(buf))) \subseteq Range(buf)
          /\ \A j \in k + 1 .. Len(buf) : buf[j] \in Range(SubSeq(buf, k + 1, Len(buf)))
      BY <3>1, PartOf
    <3>3. /\ Len(SubSeq(buf, k + 1, Len(buf))) = Len(buf) - k
          /\ \A j \in 1..(Len(buf) - k) : SubSeq(buf, k + 1, Len(buf))[j] = buf[j + k]
      BY <2>1
    <3> QED
      BY <2>2, <3>2, <3>3
  <2>4. /\ front \in Seq(AnyFrame) /\ Range(front) \subseteq Range(buf)
        /\ \A j \in 1..k : buf[j] \in Range(front)
    <3>1. 1 \in Nat \ {0} /\ 1 <= k + 1
      BY <2>1
    <3> QED
      BY <2>1, <3>1, PartOf DEF front
  <2>5. behind \in Seq(AnyFrame) /\ \A j \in reread + 1 .. Len(spill) : spill[j] \in Range(behind)
    <3>1. reread + 1 \in Nat \ {0} /\ Len(spill) \in 0..Len(spill) /\ reread + 1 <= Len(spill) + 1
      BY DEF CdpShape
    <3> QED
      BY <3>1, PartOf DEF behind
  <2>6. gone \subseteq gone' /\ gone' \subseteq Ids
    <3>1. IdsIn(Range(front) \ Range(pump.batch)) \subseteq IdsOf(front)
      BY DEF IdsOf, IdsIn
    <3> QED
      BY <2>2, <2>4, <2>5, <3>1, FrameIds DEF Sound, Records, Now
  <2>7. Sound(Now') /\ Grown(Now, Now')
    BY <1>1, <2>6, GoneGrows
  <2>8. ASSUME NEW j \in 1..k, Wanted(buf[j]) PROVE DoneFrame(Now', buf[j])
    <3>1. buf[j] \in Range(front) /\ buf[j] \in AnyFrame
      BY <2>1, <2>4
    <3>2. CASE buf[j] \in Range(pump.batch)
      BY <1>1, <1>5, <2>7, <2>8, <3>1, <3>2, DoneStays DEF BatchIsDone
    <3>3. CASE buf[j] \notin Range(pump.batch)
      <4>1. Range(buf[j].ids) \subseteq gone'
        BY <2>2, <3>1, <3>3 DEF IdsIn
      <4> QED
        BY <4>1 DEF DoneFrame, Done, Now
    <3> QED
      BY <3>2, <3>3
  <2>9. ASSUME NEW j \in reread + 1 .. Len(spill), cleared PROVE DoneFrame(Now', spill[j])
    <3>1. Range(spill[j].ids) \subseteq gone'
      BY <2>2, <2>5, <2>9, FrameIds
    <3> QED
      BY <3>1 DEF DoneFrame, Done, Now
  <2>10. /\ spill' \in Seq(AnyFrame) /\ Len(spill') <= SpillMax /\ Len(spill') \in Nat
         /\ reread' \in Nat /\ reread' <= Len(spill') /\ Range(spill)' \subseteq Range(spill)
    <3>1. CASE cleared
      BY <1>2, <2>2, <3>1, BoundsAssumption
    <3>2. CASE ~cleared
      BY <2>2, <3>2 DEF CdpShape
    <3> QED
      BY <3>1, <3>2
  <2>11. CdpShape' /\ NewPage'
    BY <1>1, <1>2, <1>5, <2>1, <2>2, <2>3, <2>10 DEF CdpShape, NewPage
  <2>12. ReplayedIsOld'
    BY <1>1, <1>2, <2>3, <2>10, OldStays DEF NewRoads
  <2>13. ASSUME NEW i \in 1..reread, Wanted(spill[i]), cleared PROVE DoneFrame(Now', spill[i])
    <3>1. replaying > 0 /\ replaying <= k /\ spill[i] \in AnyFrame
      BY <2>1, <2>13 DEF CdpShape
    <3>2. CASE DoneFrame(Now, spill[i])
      BY <2>7, <3>1, <3>2, DoneStays
    <3>3. CASE \E j \in 1..Len(buf) : j <= replaying /\ Same(buf[j], spill[i])
      <4>1. PICK j \in 1..Len(buf) : j <= replaying /\ Same(buf[j], spill[i])
        BY <3>3
      <4>2. j \in 1..k /\ Wanted(buf[j])
        BY <2>1, <2>13, <3>1, <4>1 DEF Wanted, Same
      <4>3. DoneFrame(Now', buf[j])
        BY <2>8, <4>2
      <4> QED
        BY <4>1, <4>3 DEF DoneFrame, Same
    <3>4. CASE \E j \in reread + 1 .. Len(spill) : Same(spill[j], spill[i])
      <4>1. PICK j \in reread + 1 .. Len(spill) : Same(spill[j], spill[i])
        BY <3>4
      <4>2. DoneFrame(Now', spill[j])
        BY <2>9, <2>13
      <4> QED
        BY <4>1, <4>2 DEF DoneFrame, Same
    <3> QED
      BY <2>13, <3>1, <3>2, <3>3, <3>4 DEF StoreIsCopied
  <2>14. ASSUME NEW h \in Roads PROVE h \in Roads' \/ (Wanted(h) => DoneFrame(Now', h))
    <3>1. CASE h \in Range(buf)
      <4>1. PICK j \in 1..Len(buf) : h = buf[j]
        BY <3>1 DEF Range
      <4>2. CASE j <= k
        <5>1. j \in 1..k
          BY <2>1, <4>2
        <5> QED
          BY <2>8, <4>1, <5>1
      <4>3. CASE j > k
        <5>1. j \in k + 1 .. Len(buf)
          BY <2>1, <4>3
        <5> QED
          BY <2>3, <4>1, <5>1 DEF Roads
      <4> QED
        BY <2>1, <4>2, <4>3
    <3>2. CASE h \in Range(spill) /\ cleared
      <4>1. PICK j \in 1..Len(spill) : h = spill[j]
        BY <3>2 DEF Range
      <4>2. j \in 1..reread \/ j \in reread + 1 .. Len(spill)
        OBVIOUS
      <4> QED
        BY <2>9, <2>13, <3>2, <4>1, <4>2
    <3>3. CASE h \in Range(spill) /\ ~cleared
      BY <2>2, <3>3 DEF Roads
    <3>4. CASE h \notin Range(buf) /\ h \notin Range(spill)
      BY <1>1, <3>4 DEF Roads
    <3> QED
      BY <3>1, <3>2, <3>3, <3>4
  <2>15. FramesAreKept'
    BY <1>1, <2>7, <2>14, KeptStays
  <2>16. StoreIsCopied'
    <3> SUFFICES ASSUME left > 0, NEW i \in 1..reread', Wanted(spill'[i])
                 PROVE \/ DoneFrame(Now', spill'[i])
                       \/ \E j \in 1..Len(buf') : j <= left /\ Same(buf'[j], spill'[i])
                       \/ \E j \in reread' + 1 .. Len(spill') : Same(spill'[j], spill'[i])
      BY <1>1, <2>2 DEF StoreIsCopied, Wanted
    <3>1. /\ ~cleared /\ spill' = spill /\ reread' = reread /\ left = replaying - k /\ replaying > 0
          /\ spill[i] \in AnyFrame
      BY <2>1, <2>2 DEF CdpShape
    <3> HIDE DEF left, cleared
    <3>2. CASE DoneFrame(Now, spill[i])
      BY <2>7, <3>1, <3>2, DoneStays
    <3>3. CASE \E j \in 1..Len(buf) : j <= replaying /\ Same(buf[j], spill[i])
      <4>1. PICK j \in 1..Len(buf) : j <= replaying /\ Same(buf[j], spill[i])
        BY <3>3
      <4>2. CASE j <= k
        <5>1. j \in 1..k /\ Wanted(buf[j])
          BY <2>1, <3>1, <4>1, <4>2 DEF Wanted, Same
        <5>2. DoneFrame(Now', buf[j])
          BY <2>8, <5>1
        <5> QED
          BY <3>1, <4>1, <5>2 DEF DoneFrame, Same
      <4>3. CASE j > k
        <5>1. j - k \in 1..(Len(buf) - k) /\ (j - k) + k = j /\ j - k <= left
          BY <2>1, <3>1, <4>1, <4>3
        <5>2. buf'[j - k] = buf[j] /\ j - k \in 1..Len(buf')
          BY <2>3, <5>1
        <5> QED
          BY <3>1, <4>1, <5>1, <5>2
      <4> QED
        BY <2>1, <4>2, <4>3
    <3>4. CASE \E j \in reread + 1 .. Len(spill) : Same(spill[j], spill[i])
      BY <3>1, <3>4
    <3> QED
      BY <3>1, <3>2, <3>3, <3>4 DEF StoreIsCopied
  <2> QED
    BY <1>3, <2>7, <2>11, <2>12, <2>15, <2>16 DEF CdpInv
<1> QED
  BY <1>4, <1>5 DEF Ack

LEMMA AttachStep ==
  ASSUME CdpInv, Attach PROVE CdpInv'
<1> USE CdpParts DEF page, python
<1>1. /\ pump.at = "idle" /\ hooked' = TRUE
      /\ UNCHANGED <<historyOnly, fresh, posts, queue, pump, seen, told, live, archived, gone>>
  BY DEF Attach, Hook
<1>2. Now' = Now /\ Grown(Now, Now')
  BY <1>1, SameNow
<1>3. CASE hooked
  <2>1. UNCHANGED <<buf, spill, pushq, replaying, replayed, reread>>
    BY <1>3 DEF Attach
  <2>2. CdpShape' /\ NewPage'
    BY <1>1, <2>1 DEF CdpShape, NewPage
  <2>3. ReplayedIsOld'
    BY <1>1, <2>1, OldStays DEF NewRoads
  <2>4. FramesAreKept'
    BY <1>1, <1>2, <2>1, KeptStays DEF Roads
  <2>5. StoreIsCopied'
    BY <1>1, <1>2, <2>1, StoreStays
  <2> QED
    BY <1>1, <1>2, <2>2, <2>3, <2>4, <2>5, BatchStays DEF CdpInv
<1>4. CASE ~hooked
  <2> DEFINE old == [i \in DOMAIN spill |-> Marked(spill[i])]
             all == buf \o old
  <2>1. /\ Buffer(old) /\ replaying' = Len(old) /\ reread' = Len(spill) /\ UNCHANGED pushq
        /\ replayed' = replayed \cup OnlyStored
    BY <1>4 DEF Attach, Replay
  <2>2. buf = <<>> /\ pushq = <<>> /\ pump.batch = <<>> /\ Len(spill) <= SpillMax
        /\ Range(<<>>) = {} /\ Len(<<>>) = 0
    BY <1>1, <1>4 DEF NewPage, CdpShape, Range
  <2>3. /\ old \in Seq(AnyFrame) /\ Len(old) = Len(spill)
        /\ \A i \in 1..Len(spill) : old[i] = Marked(spill[i])
    <3>1. \A i \in 1..Len(spill) : Marked(spill[i]) \in AnyFrame
      BY FrameShape
    <3>2. DOMAIN spill = 1..Len(spill)
      OBVIOUS
    <3>3. old = [i \in 1..Len(spill) |-> Marked(spill[i])]
      BY <3>2
    <3> HIDE DEF old
    <3> QED
      BY <3>1, <3>3
  <2>4. \A f \in Range(old) : f.old
    BY <2>3, FrameShape DEF Range
  <2> HIDE DEF old
  <2>5. Len(all) = Len(old) /\ \A i \in 1..Len(old) : all[i] = old[i]
    <3>1. \A i \in 1..Len(old) : all[Len(buf) + i] = old[i]
      BY <2>3, Concat
    <3>2. Len(all) = Len(buf) + Len(old) /\ Len(old) \in Nat
      BY <2>3, Concat
    <3> HIDE DEF all
    <3> QED
      BY <2>2, <3>1, <3>2
  <2>6. PICK d \in 0..Len(all) :
          /\ buf' \in Seq(AnyFrame) /\ Len(buf') = Len(all) - d
          /\ \A i \in 1..Len(buf') : buf'[i] = all[i + d]
          /\ spill' \in Seq(AnyFrame) /\ Len(spill') = Len(spill) + d /\ Len(spill') <= SpillMax
          /\ \A i \in 1..Len(spill) : spill'[i] = spill[i]
          /\ \A i \in 1..d : spill'[Len(spill) + i] = all[i]
          /\ Len(all) <= BufferMax => d = 0
    BY <2>1, <2>3, BufferMoves
  <2> HIDE DEF all
  <2>7. d = 0
    BY <2>2, <2>3, <2>5, <2>6, BoundsAssumption
  <2>8. /\ Len(buf') = Len(spill) /\ Len(spill') = Len(spill)
        /\ \A i \in 1..Len(spill) : buf'[i] = Marked(spill[i]) /\ spill'[i] = spill[i]
    BY <2>3, <2>5, <2>6, <2>7
  <2>9. Range(buf') \subseteq Range(old)
    <3>1. \A i \in 1..Len(spill) : buf'[i] = old[i] /\ old[i] \in Range(old)
      BY <2>3, <2>8 DEF Range
    <3>2. \A f \in Range(buf') : \E i \in 1..Len(spill) : f = buf'[i]
      BY <2>6, <2>8 DEF Range
    <3> QED
      BY <3>1, <3>2
  <2>10. Range(spill') = Range(spill)
    <3>1. spill' = spill
      BY <2>6, <2>8
    <3> QED
      BY <3>1
  <2>11. CdpShape' /\ NewPage'
    BY <1>1, <2>1, <2>3, <2>6, <2>8 DEF CdpShape, NewPage
  <2>12. ReplayedIsOld'
    <3>1. /\ pushq' = pushq /\ Range(pushq) = {} /\ Range(pump.batch) = {} /\ Range(buf) = {}
          /\ OnlyStored = Range(spill) \ (Range(queue) \cup UNION {Asked(p) : p \in posts})
      BY <2>1, <2>2 DEF Asked, OnlyStored
    <3>2. \A f \in fresh : ~f.old
      BY DEF CdpShape, Frames, Frame
    <3>3. NewRoads' \subseteq NewRoads \cup Range(old)
      BY <1>1, <2>9, <3>1 DEF NewRoads
    <3>4. ASSUME NEW f \in NewRoads' \cup Range(spill') PROVE f \notin fresh'
      BY <1>1, <2>4, <2>10, <3>2, <3>3, <3>4 DEF ReplayedIsOld
    <3>5. ASSUME NEW f \in replayed', ~f.old PROVE f \notin fresh' /\ f \notin NewRoads'
      <4>1. f \notin Range(old)
        BY <2>4, <3>5
      <4>2. CASE f \in replayed
        BY <1>1, <3>3, <3>5, <4>1, <4>2 DEF ReplayedIsOld
      <4>3. CASE f \notin replayed
        <5>1. f \in Range(spill) /\ f \notin NewRoads
          BY <2>1, <3>1, <4>3 DEF NewRoads
        <5> QED
          BY <1>1, <3>3, <4>1, <5>1 DEF ReplayedIsOld
      <4> QED
        BY <4>2, <4>3
    <3> QED
      BY <3>4, <3>5 DEF ReplayedIsOld
  <2>13. FramesAreKept'
    BY <1>1, <1>2, <2>1, <2>2, <2>10, KeptStays DEF Roads
  <2>14. StoreIsCopied'
    <3> SUFFICES ASSUME NEW i \in 1..Len(spill)
                 PROVE \E j \in 1..Len(buf') : j <= Len(old) /\ Same(buf'[j], spill'[i])
      BY <2>1 DEF StoreIsCopied
    <3>1. Same(buf'[i], spill'[i]) /\ i \in 1..Len(buf') /\ i <= Len(old)
      BY <2>3, <2>8, FrameShape
    <3> QED
      BY <3>1
  <2> QED
    BY <1>1, <1>2, <2>11, <2>12, <2>13, <2>14, BatchStays DEF CdpInv
<1> QED
  BY <1>3, <1>4

LEMMA CdpStart == Init => CdpInv
<1> SUFFICES ASSUME Init PROVE CdpInv
  OBVIOUS
<1> USE DEF Init
<1>1. Range(<<>>) = {}
  BY DEF Range
<1>2. CdpShape
  <2>1. SpillMax \in Nat /\ 0 \in Nat
    BY BoundsAssumption
  <2>2. pump = [at |-> pump.at, batch |-> pump.batch, ok |-> pump.ok] /\ pump.batch = <<>>
    BY DEF Idle
  <2>3. <<>> \in Seq(AnyFrame) /\ Len(<<>>) = 0
    OBVIOUS
  <2>4. reread <= Len(spill) /\ Len(spill) <= SpillMax
    BY <2>1, <2>3
  <2>5. {buf, pushq, spill, queue} \subseteq Seq(AnyFrame) /\ pump.batch \in Seq(AnyFrame)
    BY <2>2, <2>3
  <2> QED
    BY <2>1, <2>2, <2>4, <2>5 DEF CdpShape
<1>3. Sound(Now)
  BY DEF Sound, Now, Records, Done
<1>4. ReplayedIsOld /\ FramesAreKept /\ BatchIsDone /\ StoreIsCopied /\ NewPage
  BY <1>1 DEF ReplayedIsOld, NewRoads, Idle, FramesAreKept, BatchIsDone, StoreIsCopied, NewPage
<1> QED
  BY <1>2, <1>3, <1>4 DEF CdpInv

\* The invariant is kept, and what comes back from the store is not told as new.
LEMMA CdpStep ==
  ASSUME CdpInv, [Next]_vars
  PROVE /\ CdpInv'
        /\ \A m \in live' \ live : Frame("push", <<m>>) \notin replayed
<1>1. CASE PumpPush \/ HandleBatch
  <2>1. /\ CdpInv'
        /\ \A m \in live' \ live : \E f \in Range(queue) \cup Range(pump.batch) :
             ~f.old /\ f.kind = "push" /\ m \in Range(f.ids)
    BY <1>1, PumpPushStep, HandleBatchStep
  <2>2. ASSUME NEW m \in live' \ live PROVE Frame("push", <<m>>) \notin replayed
    <3>1. PICK f \in Range(queue) \cup Range(pump.batch) :
             ~f.old /\ f.kind = "push" /\ m \in Range(f.ids)
      BY <2>1
    <3>2. f \in AnyFrame
      BY DEF CdpInv, CdpShape, Range
    <3>3. f \in FrameLike /\ \E n \in Ids : f.ids = <<n>>
      BY <3>1, <3>2, FrameShape
    <3>4. f.ids = <<m>>
      BY <3>1, <3>3 DEF Range
    <3>5. f = Frame("push", <<m>>)
      BY <3>1, <3>3, <3>4 DEF FrameLike, Frame
    <3>6. f \in NewRoads
      BY DEF NewRoads
    <3> QED
      BY <3>1, <3>5, <3>6 DEF CdpInv, ReplayedIsOld
  <2> QED
    BY <2>1, <2>2
<1>2. CASE ~(PumpPush \/ HandleBatch)
  <2>1. CASE \E f \in Frames : Record(f)
    BY <2>1, RecordStep DEF Record, python
  <2>2. CASE \E p \in posts : Answered(p) \/ Accept(p) \/ PostFails(p)
    BY <2>2, AnsweredStep, PostStep DEF Answered, Accept, PostFails, python
  <2>3. CASE Flush
    BY <2>3, FlushStep DEF Flush, python
  <2>4. CASE Probe \/ PeekFails \/ UNCHANGED vars
    BY <2>4, ProbeStep DEF Probe, PeekFails, vars, python
  <2>5. CASE Unload
    BY <2>5, UnloadStep DEF Unload, python
  <2>6. CASE Attach
    BY <2>6, AttachStep DEF Attach
  <2>7. CASE Peek
    BY <2>7, PeekStep DEF Peek
  <2>8. CASE Ack
    BY <2>8, AckStep DEF Ack
  <2> QED
    BY <1>2, <2>1, <2>2, <2>3, <2>4, <2>5, <2>6, <2>7, <2>8 DEF Next
<1> QED
  BY <1>1, <1>2

LEMMA ToldIsOnce == CdpInv => ToldOnce
  BY DEF CdpInv, Sound, Records, Now, ToldOnce

LEMMA RecordedIsKept == CdpInv => Kept
<1> SUFFICES ASSUME CdpInv, NEW f \in Frames \ fresh, historyOnly => f.kind = "list",
                    NEW m \in Range(f.ids)
             PROVE told[m] > 0 \/ m \in Held
  BY DEF Kept, Recorded
<1>1. CASE DoneFrame(Now, f)
  BY <1>1 DEF DoneFrame, Done, Now, Held
<1>2. CASE Waits(f)
  <2>1. PICK h \in Roads : h.ids = f.ids
    BY <1>2 DEF Waits, Same
  <2> QED
    BY <2>1 DEF Roads, Held, IdsOf, IdsIn, Asked
<1> QED
  BY <1>1, <1>2 DEF CdpInv, FramesAreKept, Wanted

LEMMA CdpAlways == IntakeSpec => [](CdpInv /\ ToldOnce /\ Kept)
<1>1. IntakeInit => CdpInv
  BY CdpStart DEF IntakeInit
<1>2. CdpInv /\ [IntakeNext]_intakeVars => CdpInv'
  <2>1. [IntakeNext]_intakeVars => [Next]_vars
    BY DEF IntakeNext, intakeVars, LogPart, SwitchPart
  <2> QED
    BY <2>1, CdpStep
<1> QED
  BY <1>1, <1>2, ToldIsOnce, RecordedIsKept, PTL DEF IntakeSpec

\* A message is given to the agent once, whichever of its roads it took and however often it
\* was read or sent (bridge/pddbridge_source.py: _seen_before, _dedup).
THEOREM MessagesToldOnce == IntakeSpec => []ToldOnce
  BY CdpAlways, PTL

\* A message a page recorded was told or archived, or waits in the page, its store, a request
\* or the push server, but for the accidents noted in gone (inject.js: record, spillWrite).
THEOREM RecordedStays == IntakeSpec => []Kept
  BY CdpAlways, PTL

\* What comes back from the store of a page is never told as new (inject.js: spillReplay).
THEOREM ReplayedIsHistory == IntakeSpec => ReplayIsHistory
<1>1. CdpInv /\ [IntakeNext]_intakeVars =>
        [\A m \in live' \ live : Frame("push", <<m>>) \notin replayed]_vars
  <2>1. [IntakeNext]_intakeVars => [Next]_vars
    BY DEF IntakeNext, intakeVars, LogPart, SwitchPart
  <2> QED
    BY <2>1, CdpStep
<1> QED
  BY <1>1, CdpAlways, PTL DEF IntakeSpec, ReplayIsHistory
-----------------------------------------------------------------------------
(* LogCapture: files in their order.                                        *)

\* The numbers after m up to n, in order.
Upward(m, n) == [k \in 1 .. n - m |-> m + k]

LEMMA UpwardIs ==
  ASSUME NEW m \in Nat, NEW n \in Nat, m <= n
  PROVE /\ Upward(m, n) \in Seq(Nat) /\ Len(Upward(m, n)) = n - m
        /\ DOMAIN Upward(m, n) = 1 .. n - m
        /\ Range(Upward(m, n)) = m + 1 .. n
        /\ m < n => Upward(m, n) # <<>> /\ Head(Upward(m, n)) = m + 1
        /\ m = n => Upward(m, n) = <<>>
<1> DEFINE u == Upward(m, n)
<1>1. u = [k \in 1 .. n - m |-> m + k] /\ n - m \in Nat
  BY DEF Upward
<1>2. u \in Seq(Nat) /\ Len(u) = n - m /\ DOMAIN u = 1 .. n - m
  BY <1>1
<1>3. \A k \in 1 .. n - m : u[k] = m + k
  BY <1>1
<1> HIDE DEF u
<1>4. Range(u) = m + 1 .. n
  <2>1. \A x \in Range(u) : x \in m + 1 .. n
    <3>1. \A x \in Range(u) : \E k \in 1 .. n - m : x = u[k]
      BY <1>2 DEF Range
    <3> QED
      BY <1>3, <3>1
  <2>2. \A k \in 1 .. n - m : u[k] \in Range(u)
    BY <1>2 DEF Range
  <2>3. \A x \in m + 1 .. n : x - m \in 1 .. n - m /\ m + (x - m) = x
    OBVIOUS
  <2>4. \A x \in m + 1 .. n : x \in Range(u)
    BY <1>3, <2>2, <2>3
  <2> QED
    BY <2>1, <2>4
<1>5. m < n => u # <<>> /\ Head(u) = m + 1
  BY <1>2, <1>3
<1>6. m = n => u = <<>>
  BY <1>2
<1> QED
  BY <1>2, <1>4, <1>5, <1>6 DEF u

\* The operators of the community modules that LogCapture brings with it are the ones here.
LEMMA SameOperators ==
  /\ \A S : Files!Cardinality(S) = Cardinality(S) /\ Files!Range(S) = Range(S)
  /\ \A q, i : Files!RemoveAt(q, i) = RemoveAt(q, i)
<1>1. ASSUME NEW S PROVE Files!Cardinality(S) = Cardinality(S)
  BY DEF Files!Cardinality, Cardinality
<1>2. ASSUME NEW S PROVE Files!Range(S) = Range(S)
  BY DEF Files!Range, Range
<1>3. ASSUME NEW q, NEW i PROVE Files!RemoveAt(q, i) = RemoveAt(q, i)
  BY DEF Files!RemoveAt, RemoveAt
<1> QED
  BY <1>1, <1>2, <1>3

LEMMA OneAfterOther ==
  ASSUME NEW s \in Seq(Nat), NEW t \in Seq(Nat), NEW u \in Seq(Nat),
         Len(u) = Len(s) + Len(t),
         \A i \in 1..Len(s) : u[i] = s[i],
         \A i \in 1..Len(t) : u[Len(s) + i] = t[i]
  PROVE s \o t = u
<1>1. /\ s \o t \in Seq(Nat) /\ Len(s \o t) = Len(s) + Len(t)
      /\ \A i \in 1..Len(s) : (s \o t)[i] = s[i]
      /\ \A i \in 1..Len(t) : (s \o t)[Len(s) + i] = t[i]
  BY Concat
<1>2. ASSUME NEW k \in 1..Len(u) PROVE (s \o t)[k] = u[k]
  <2>1. CASE k <= Len(s)
    BY <1>1, <2>1
  <2>2. CASE k > Len(s)
    <3>1. k - Len(s) \in 1..Len(t) /\ Len(s) + (k - Len(s)) = k
      BY <2>2
    <3> QED
      BY <1>1, <3>1
  <2> QED
    BY <2>1, <2>2
<1> DEFINE st == s \o t
<1>3. st \in Seq(Nat) /\ Len(st) = Len(u) /\ \A k \in 1..Len(u) : st[k] = u[k]
  BY <1>1, <1>2
<1> HIDE DEF st
<1>4. st = u
  BY <1>3
<1> QED
  BY <1>4 DEF st

LEMMA UpwardOn ==
  ASSUME NEW l \in Nat, NEW m \in Nat, NEW n \in Nat, l <= m, m <= n
  PROVE Upward(l, m) \o Upward(m, n) = Upward(l, n)
<1>1. l <= n
  OBVIOUS
<1>2. /\ Upward(l, m) \in Seq(Nat) /\ Len(Upward(l, m)) = m - l
      /\ Upward(m, n) \in Seq(Nat) /\ Len(Upward(m, n)) = n - m
      /\ Upward(l, n) \in Seq(Nat) /\ Len(Upward(l, n)) = n - l
  BY <1>1, UpwardIs
<1>3. n - l = (m - l) + (n - m)
  OBVIOUS
<1>4. ASSUME NEW i \in 1 .. m - l PROVE Upward(l, n)[i] = Upward(l, m)[i]
  <2>1. i \in 1 .. n - l
    OBVIOUS
  <2> QED
    BY <2>1 DEF Upward
<1>5. ASSUME NEW i \in 1 .. n - m PROVE Upward(l, n)[(m - l) + i] = Upward(m, n)[i]
  <2>1. (m - l) + i \in 1 .. n - l /\ l + ((m - l) + i) = m + i
    OBVIOUS
  <2> QED
    BY <2>1 DEF Upward
<1> DEFINE s == Upward(l, m)
           t == Upward(m, n)
           u == Upward(l, n)
<1>6. /\ s \in Seq(Nat) /\ t \in Seq(Nat) /\ u \in Seq(Nat) /\ Len(u) = Len(s) + Len(t)
      /\ \A i \in 1..Len(s) : u[i] = s[i]
      /\ \A i \in 1..Len(t) : u[Len(s) + i] = t[i]
  BY <1>2, <1>3, <1>4, <1>5
<1> HIDE DEF s, t, u
<1>7. s \o t = u
  BY <1>6, OneAfterOther
<1> QED
  BY <1>7 DEF s, t, u

\* InOrder puts the files m + 1 .. n in their order.
LEMMA InOrderIs ==
  ASSUME NEW m \in Nat, NEW n \in Nat, m <= n
  PROVE Files!InOrder(m + 1 .. n) = Upward(m, n)
<1> DEFINE S == m + 1 .. n
           Below(f) == {g \in S : g < f}
<1>1. Files!Cardinality(S) = n - m
  <2>1. m + 1 \in Int /\ n \in Int
    OBVIOUS
  <2>2. Cardinality(S) = IF m + 1 > n THEN 0 ELSE n - (m + 1) + 1
    BY <2>1, FS_Interval
  <2>3. Cardinality(S) = n - m
    BY <2>2
  <2> HIDE DEF S
  <2> QED
    BY <2>3, SameOperators
<1>2. ASSUME NEW f \in S PROVE Files!Cardinality(Below(f)) = f - m - 1
  <2>1. Below(f) = m + 1 .. f - 1
    OBVIOUS
  <2>2. m + 1 \in Int /\ f - 1 \in Int
    OBVIOUS
  <2>3. Cardinality(m + 1 .. f - 1) = IF m + 1 > f - 1 THEN 0 ELSE (f - 1) - (m + 1) + 1
    BY <2>2, FS_Interval
  <2>4. Cardinality(m + 1 .. f - 1) = f - m - 1
    BY <2>3
  <2> HIDE DEF S, Below
  <2> QED
    BY <2>1, <2>4, SameOperators
<1>3. ASSUME NEW k \in 1 .. n - m
      PROVE (CHOOSE f \in S : Files!Cardinality(Below(f)) = k - 1) = m + k
  <2>1. m + k \in S /\ (m + k) - m - 1 = k - 1
    OBVIOUS
  <2>2. Files!Cardinality(Below(m + k)) = k - 1
    <3> HIDE DEF S, Below
    <3> QED
      BY <1>2, <2>1
  <2>3. \A f \in S : f - m - 1 = k - 1 => f = m + k
    OBVIOUS
  <2>4. ASSUME NEW f \in S, Files!Cardinality(Below(f)) = k - 1 PROVE f = m + k
    <3> HIDE DEF Below
    <3> QED
      BY <1>2, <2>3, <2>4
  <2> HIDE DEF S, Below
  <2> QED
    BY <2>1, <2>2, <2>4
<1>4. Files!InOrder(S) =
        [k \in 1 .. Files!Cardinality(S) |->
           CHOOSE f \in S : Files!Cardinality(Below(f)) = k - 1]
  BY DEF Files!InOrder
<1> HIDE DEF S, Below
<1>5. Files!InOrder(S) =
        [k \in 1 .. n - m |-> CHOOSE f \in S : Files!Cardinality(Below(f)) = k - 1]
  BY <1>1, <1>4
<1>6. Files!InOrder(S) = [k \in 1 .. n - m |-> m + k]
  BY <1>3, <1>5
<1> QED
  BY <1>6 DEF Upward, S

\* Taking the next file from the files that wait, or one that does not wait.
LEMMA WithoutIs ==
  ASSUME NEW m \in Nat, NEW n \in Nat, m <= n
  PROVE /\ m < n => Files!Without(Upward(m, n), m + 1) = Upward(m + 1, n)
        /\ Files!Without(Upward(m, n), m) = Upward(m, n)
<1> DEFINE u == Upward(m, n)
<1>1. /\ u \in Seq(Nat) /\ Len(u) = n - m /\ Range(u) = m + 1 .. n
      /\ DOMAIN u = 1 .. n - m
  BY UpwardIs
<1>2. \A k \in 1 .. n - m : u[k] = m + k
  BY DEF Upward
<1> HIDE DEF u
<1>3. Files!Without(u, m) = u
  <2>1. m \notin Range(u)
    BY <1>1
  <2> QED
    BY <2>1, SameOperators DEF Files!Without
<1>4. ASSUME m < n PROVE Files!Without(u, m + 1) = Upward(m + 1, n)
  <2> DEFINE C(i) == u[i] = m + 1 /\ \A j \in 1 .. i - 1 : u[j] # m + 1
             v == Upward(m + 1, n)
  <2>1. (CHOOSE i \in DOMAIN u : C(i)) = 1
    <3>1. 1 \in DOMAIN u /\ C(1)
      BY <1>1, <1>2, <1>4
    <3>2. \A i \in DOMAIN u : C(i) => i = 1
      BY <1>1, <1>2
    <3> HIDE DEF C
    <3> QED
      BY <3>1, <3>2
  <2>2. m + 1 \in Range(u)
    BY <1>1, <1>4
  <2>3. Files!Without(u, m + 1) = RemoveAt(u, CHOOSE i \in DOMAIN u : C(i))
    BY <2>2, SameOperators DEF Files!Without
  <2>4. Files!Without(u, m + 1) = SubSeq(u, 1, 0) \o SubSeq(u, 2, Len(u))
    <3>1. 1 - 1 = 0 /\ 1 + 1 = 2
      OBVIOUS
    <3> HIDE DEF C
    <3> QED
      BY <2>1, <2>3, <3>1 DEF RemoveAt
  <2>5. /\ SubSeq(u, 1, 0) \in Seq(Nat) /\ Len(SubSeq(u, 1, 0)) = 0
    BY <1>1
  <2> DEFINE r == SubSeq(u, 2, Len(u))
  <2>6. /\ r \in Seq(Nat) /\ Len(r) = n - m - 1
        /\ \A k \in 1 .. n - m - 1 : r[k] = u[k + 1]
    <3>1. 2 \in Nat \ {0} /\ Len(u) \in 0..Len(u) /\ 2 <= Len(u) + 1
      BY <1>1, <1>4
    <3> HIDE DEF r
    <3>2. /\ r \in Seq(Nat) /\ Len(r) = Len(u) - 2 + 1
          /\ \A j \in 1..(Len(u) - 2 + 1) : r[j] = u[j + 2 - 1]
      BY <1>1, <3>1, PartOf DEF r
    <3>3. Len(u) - 2 + 1 = n - m - 1
      BY <1>1
    <3>4. \A j \in 1 .. n - m - 1 : j + 2 - 1 = j + 1
      OBVIOUS
    <3> QED
      BY <3>2, <3>3, <3>4
  <2>7. /\ v \in Seq(Nat) /\ Len(v) = n - (m + 1)
    BY <1>4, UpwardIs
  <2>8. \A k \in 1 .. n - (m + 1) : v[k] = (m + 1) + k
    BY DEF Upward
  <2>9. \A k \in 1 .. n - m - 1 : u[k + 1] = m + (k + 1) /\ m + (k + 1) = (m + 1) + k
    <3>1. \A k \in 1 .. n - m - 1 : k + 1 \in 1 .. n - m
      OBVIOUS
    <3> QED
      BY <1>2, <3>1
  <2> HIDE DEF r, v
  <2>10. r = v
    <3>1. n - (m + 1) = n - m - 1
      OBVIOUS
    <3> QED
      BY <2>6, <2>7, <2>8, <2>9, <3>1
  <2>11. SubSeq(u, 1, 0) \o r = r
    BY <2>5, <2>6
  <2> QED
    BY <2>4, <2>10, <2>11 DEF r, v
<1> QED
  BY <1>3, <1>4 DEF u

-----------------------------------------------------------------------------
(* LogCapture: the invariant.                                               *)

\* The files follow one another in the log, each with a line, but the last.
WriterInv ==
  /\ written \in Nat /\ written <= Len(Log) /\ since \in Nat
  /\ cuts \in Seq(Nat) /\ cuts # <<>> /\ cuts[1] = 0 /\ cuts[Len(cuts)] <= written
  /\ \A f, h \in DOMAIN cuts : f < h => cuts[f] < cuts[h]

\* A reader that has come to place p of file f has noted the first files and is to read
\* those of them that follow f.
InFiles(f, p, rest, noted) ==
  /\ \E n \in 1..Len(cuts) : noted = 1..n /\ f \in 1..n /\ rest = Upward(f, n)
  /\ p \in Nat /\ cuts[f] <= p /\ p <= Files!End(f)

\* A process that has not looked at the log has nothing in memory.
ReaderInv ==
  IF known = {}
  THEN /\ at = "attach" /\ ~open /\ file = 0 /\ backlog = <<>> /\ ~restored
       /\ pending = {} /\ cand = 0 /\ logSeen = {} /\ recent = {}
  ELSE ckpt # None /\ restored /\ InFiles(file, pos, backlog, known)

\* So is the reader that the cursor on disk describes.
CursorShape ==
  ckpt # None =>
    /\ ckpt = [file |-> ckpt.file, pos |-> ckpt.pos, remaining |-> ckpt.remaining,
               known |-> ckpt.known]
    /\ InFiles(ckpt.file, ckpt.pos, ckpt.remaining, ckpt.known)

\* What was seen was told; what is held are lines of the log.
ToldInv ==
  /\ logTold \in [Files!Exacts -> Nat]
  /\ \A x \in logSeen : x \in Files!Exacts /\ logTold[x] > 0
  /\ \A h \in recent :
       h # None /\ \E j \in Files!Lines : Log[j].sem = h /\ logTold[Log[j].exact] > 0
  /\ \A e \in pending : e.line \in Files!Lines /\ e.group = Files!Group(e.line)

\* The message of line i is known to the agent, or held, or was a known accident's.
Settles(i) ==
  Files!Told(i) \/ i \in logGone \/ \E e \in pending : e.group = Files!Group(i)

\* A line that was read is held until it is told, and the cursor moves only when none is.
HeldInv ==
  known # {} => \A i \in Files!Messages : since < i /\ i <= pos => Settles(i)

CursorInv ==
  ckpt # None =>
    \A i \in Files!Messages : since < i /\ i <= ckpt.pos => Files!Told(i) \/ i \in logGone

LogInv == WriterInv /\ ReaderInv /\ CursorShape /\ ToldInv /\ HeldInv /\ CursorInv

LEMMA FilesFollow ==
  ASSUME WriterInv
  PROVE /\ \A h \in 1..Len(cuts) : cuts[h] \in Nat
        /\ \A g, h \in 1..Len(cuts) : g < h => cuts[g] < cuts[h]
<1>1. DOMAIN cuts = 1..Len(cuts)
  BY DEF WriterInv
<1>2. \A h \in 1..Len(cuts) : cuts[h] \in Nat
  BY DEF WriterInv
<1>3. \A g, h \in 1..Len(cuts) : g < h => cuts[g] < cuts[h]
  BY <1>1 DEF WriterInv
<1> QED
  BY <1>2, <1>3

\* Where a file ends.
LEMMA EndIs ==
  ASSUME WriterInv, NEW f \in 1..Len(cuts)
  PROVE /\ Len(cuts) \in Nat \ {0} /\ cuts[f] \in Nat
        /\ Files!End(f) \in Nat /\ cuts[f] <= Files!End(f) /\ Files!End(f) <= written
        /\ f = Len(cuts) => Files!End(f) = written
        /\ f # Len(cuts) => f + 1 \in 1..Len(cuts) /\ Files!End(f) = cuts[f + 1]
<1> DEFINE last == Len(cuts)
<1>1. last \in Nat \ {0} /\ DOMAIN cuts = 1..last /\ \A h \in 1..last : cuts[h] \in Nat
  BY DEF WriterInv
<1>2. /\ written \in Nat /\ cuts[last] <= written
      /\ \A g, h \in 1..last : g < h => cuts[g] < cuts[h]
  BY <1>1 DEF WriterInv
<1>3. Files!End(f) = IF f = last THEN written ELSE cuts[f + 1]
  BY DEF Files!End
<1>4. f \in 1..last
  OBVIOUS
<1> HIDE DEF last
<1>5. CASE f = last
  BY <1>1, <1>2, <1>3, <1>4, <1>5 DEF last
<1>6. CASE f # last
  <2>1. f + 1 \in 1..last /\ f < f + 1 /\ last \in 1..last /\ (f + 1 = last \/ f + 1 < last)
    BY <1>1, <1>4, <1>6
  <2>2. cuts[f] < cuts[f + 1] /\ cuts[f] \in Nat /\ cuts[f + 1] \in Nat /\ cuts[last] \in Nat
    BY <1>1, <1>2, <1>4, <2>1
  <2>3. cuts[f + 1] <= cuts[last]
    <3>1. f + 1 < last => cuts[f + 1] < cuts[last]
      BY <1>2, <2>1
    <3> QED
      BY <2>1, <2>2, <3>1
  <2>4. Files!End(f) = cuts[f + 1]
    BY <1>3, <1>6
  <2>5. cuts[f] <= cuts[f + 1] /\ cuts[f + 1] <= written
    BY <1>2, <2>2, <2>3
  <2> QED
    BY <1>1, <1>6, <2>1, <2>2, <2>4, <2>5 DEF last
<1> QED
  BY <1>5, <1>6

\* The log grows, and a place in it stays where it is.
LEMMA LogGrows ==
  ASSUME WriterInv, Files!LogAssumption, Files!Write \/ Files!Rotate
  PROVE /\ WriterInv'
        /\ \A f, p, rest, noted : InFiles(f, p, rest, noted) => InFiles(f, p, rest, noted)'
<1>1. Len(Log) \in Nat /\ written \in Nat /\ Len(cuts) \in Nat \ {0} /\ DOMAIN cuts = 1..Len(cuts)
  BY DEF WriterInv, Files!LogAssumption
<1>2. CASE Files!Write
  <2>1. cuts' = cuts /\ written' = written + 1 /\ written < Len(Log) /\ since' = since
    BY <1>1, <1>2 DEF Files!Write
  <2>2. WriterInv'
    BY <1>1, <2>1 DEF WriterInv
  <2>3. ASSUME NEW f, NEW p, NEW rest, NEW noted, InFiles(f, p, rest, noted)
        PROVE InFiles(f, p, rest, noted)'
    <3>1. f \in 1..Len(cuts)
      BY <1>1, <2>3 DEF InFiles
    <3>2. Files!End(f) <= Files!End(f)' /\ Files!End(f) \in Nat /\ Files!End(f)' \in Nat
      <4>1. Files!End(f) = IF f = Len(cuts) THEN written ELSE cuts[f + 1]
        BY DEF Files!End
      <4>2. Files!End(f)' = IF f = Len(cuts) THEN written + 1 ELSE cuts[f + 1]
        BY <2>1 DEF Files!End
      <4>3. Files!End(f) \in Nat
        BY <3>1, EndIs
      <4> QED
        BY <1>1, <4>1, <4>2, <4>3
    <3>3. p \in Nat /\ p <= Files!End(f)'
      BY <2>3, <3>2 DEF InFiles
    <3> QED
      BY <2>1, <2>3, <3>3 DEF InFiles
  <2> QED
    BY <2>2, <2>3
<1>3. CASE Files!Rotate
  <2>1. /\ cuts' = Append(cuts, written) /\ written' = written /\ since' = since
        /\ cuts[Len(cuts)] < written
    BY <1>3 DEF Files!Rotate
  <2>2. /\ cuts' \in Seq(Nat) /\ Len(cuts') = Len(cuts) + 1 /\ DOMAIN cuts' = 1..Len(cuts')
        /\ \A h \in 1..Len(cuts) : cuts'[h] = cuts[h]
        /\ cuts'[Len(cuts) + 1] = written
    <3>1. cuts \in Seq(Nat)
      BY DEF WriterInv
    <3> QED
      BY <1>1, <2>1, <3>1
  <2>3. WriterInv'
    <3>1. ASSUME NEW f \in DOMAIN cuts', NEW h \in DOMAIN cuts', f < h PROVE cuts'[f] < cuts'[h]
      <4>1. f \in 1..Len(cuts) /\ (h \in 1..Len(cuts) \/ h = Len(cuts) + 1)
        BY <1>1, <2>2, <3>1
      <4>2. CASE h \in 1..Len(cuts)
        BY <1>1, <2>2, <3>1, <4>1, <4>2 DEF WriterInv
      <4>3. CASE h = Len(cuts) + 1
        <5>1. cuts[f] <= cuts[Len(cuts)] /\ cuts[f] \in Nat /\ cuts[Len(cuts)] \in Nat
          <6>1. f = Len(cuts) \/ f < Len(cuts)
            BY <1>1, <4>1
          <6>2. cuts[f] \in Nat /\ cuts[Len(cuts)] \in Nat
            BY <1>1, <4>1 DEF WriterInv
          <6>3. CASE f < Len(cuts)
            <7>1. Len(cuts) \in DOMAIN cuts /\ f \in DOMAIN cuts
              BY <1>1, <4>1
            <7>2. cuts[f] < cuts[Len(cuts)]
              BY <6>3, <7>1 DEF WriterInv
            <7> QED
              BY <6>2, <7>2
          <6> QED
            BY <6>1, <6>2, <6>3
        <5> QED
          BY <1>1, <2>1, <2>2, <4>1, <4>3, <5>1
      <4> QED
        BY <4>1, <4>2, <4>3
    <3>2. cuts' # <<>> /\ cuts'[1] = 0 /\ cuts'[Len(cuts')] <= written'
      <4>1. 1 \in 1..Len(cuts)
        BY <1>1
      <4> QED
        BY <1>1, <2>1, <2>2, <4>1 DEF WriterInv
    <3>3. written' \in Nat /\ written' <= Len(Log) /\ since' \in Nat
      BY <2>1 DEF WriterInv
    <3> QED
      BY <2>2, <3>1, <3>2, <3>3 DEF WriterInv
  <2>4. ASSUME NEW f, NEW p, NEW rest, NEW noted, InFiles(f, p, rest, noted)
        PROVE InFiles(f, p, rest, noted)'
    <3>1. f \in 1..Len(cuts)
      BY <1>1, <2>4 DEF InFiles
    <3>2. Files!End(f)' = Files!End(f)
      <4> DEFINE last == Len(cuts)
      <4>1. last \in Nat \ {0} /\ f \in 1..last
        BY <1>1, <3>1
      <4>2. /\ Files!End(f)' = IF f = last + 1 THEN written ELSE cuts'[f + 1]
            /\ Files!End(f) = IF f = last THEN written ELSE cuts[f + 1]
        BY <2>1, <2>2 DEF Files!End
      <4>3. (\A h \in 1..last : cuts'[h] = cuts[h]) /\ cuts'[last + 1] = written
        BY <2>2
      <4> HIDE DEF last
      <4>4. f # last + 1 /\ (f # last => f + 1 \in 1..last)
        BY <4>1
      <4> QED
        BY <4>2, <4>3, <4>4
    <3>3. \E n \in 1..Len(cuts') : noted = 1..n /\ f \in 1..n /\ rest = Upward(f, n)
      <4>1. \A n \in 1..Len(cuts) : n \in 1..Len(cuts')
        BY <1>1, <2>2
      <4> QED
        BY <2>4, <4>1 DEF InFiles
    <3>4. p \in Nat /\ cuts'[f] = cuts[f] /\ cuts[f] <= p /\ p <= Files!End(f)
      BY <2>2, <2>4, <3>1 DEF InFiles
    <3> QED
      BY <3>2, <3>3, <3>4 DEF InFiles
  <2> QED
    BY <2>3, <2>4
<1> QED
  BY <1>2, <1>3

\* What the watcher takes for a copy of something that was told was told.
LEMMA DuplicateIsTold ==
  ASSUME ToldInv, NEW i \in Files!Lines, Files!Duplicate(i)
  PROVE Files!Told(i)
<1>1. CASE Log[i].exact \in logSeen
  BY <1>1 DEF ToldInv, Files!Told
<1>2. CASE Log[i].sem # None /\ Log[i].sem \in recent
  <2>1. PICK j \in Files!Lines : Log[j].sem = Log[i].sem /\ logTold[Log[j].exact] > 0
    BY <1>2 DEF ToldInv
  <2>2. Files!Group(j) = Files!Group(i)
    BY <1>2, <2>1 DEF Files!Group
  <2> QED
    BY <2>1, <2>2 DEF Files!Told
<1> QED
  BY <1>1, <1>2 DEF Files!Duplicate

\* Events that are due are handed over, but for copies: their groups are then told.
LEMMA Telling ==
  ASSUME ToldInv, NEW due \in SUBSET pending, NEW keys \in SUBSET Files!Exacts,
         \A e \in due : Files!Duplicate(e.line) \/ Log[e.line].exact \in keys,
         logTold' = [x \in Files!Exacts |-> IF x \in keys THEN logTold[x] + 1 ELSE logTold[x]]
  PROVE /\ logTold' \in [Files!Exacts -> Nat]
        /\ \A x \in keys : logTold'[x] > 0
        /\ \A x \in Files!Exacts : logTold[x] > 0 => logTold'[x] > 0
        /\ \A i : Files!Told(i) => Files!Told(i)'
        /\ \A e \in due : \A i : e.group = Files!Group(i) => Files!Told(i)'
<1>1. \A e \in due : e.line \in Files!Lines /\ e.group = Files!Group(e.line)
  BY DEF ToldInv
<1>2. \A i \in Files!Lines : Log[i].exact \in Files!Exacts
  BY DEF Files!Exacts
<1>4. logTold \in [Files!Exacts -> Nat]
  BY DEF ToldInv
<1>5. \A x \in Files!Exacts : logTold[x] \in Nat /\ logTold[x] + 1 > 0 /\ logTold[x] + 1 \in Nat
  BY <1>4
<1>6. logTold' \in [Files!Exacts -> Nat]
  BY <1>5
<1>7. \A x \in keys : logTold'[x] > 0
  BY <1>5
<1>8. \A x \in Files!Exacts : logTold[x] > 0 => logTold'[x] > 0
  BY <1>5
<1>9. ASSUME NEW i, Files!Told(i) PROVE Files!Told(i)'
  BY <1>2, <1>8, <1>9 DEF Files!Told
<1>10. ASSUME NEW e \in due, NEW i, e.group = Files!Group(i) PROVE Files!Told(i)'
  <2>1. CASE Files!Duplicate(e.line)
    <3>1. Files!Told(e.line)
      BY <1>1, <2>1, DuplicateIsTold
    <3>2. Files!Told(i)
      BY <1>1, <1>10, <3>1 DEF Files!Told
    <3> QED
      BY <1>9, <3>2
  <2>2. CASE ~Files!Duplicate(e.line)
    <3>1. Log[e.line].exact \in keys
      BY <2>2, Zenon
    <3>2. logTold'[Log[e.line].exact] > 0 /\ Files!Group(e.line) = Files!Group(i)
      BY <1>1, <1>7, <1>10, <3>1
    <3> QED
      BY <1>1, <3>2 DEF Files!Told
  <2> QED
    BY <2>1, <2>2
<1> QED
  BY <1>6, <1>7, <1>8, <1>9, <1>10, Zenon

LEMMA HandOverTells ==
  ASSUME ToldInv, NEW due \in SUBSET pending, NEW failing \in SUBSET due,
         Files!HandOver(due, failing)
  PROVE /\ ToldInv'
        /\ \A i : Files!Told(i) => Files!Told(i)'
        /\ \A i : (\E e \in pending : e.group = Files!Group(i)) =>
             Files!Told(i)' \/ \E e \in pending' : e.group = Files!Group(i)
<1> DEFINE new == {e \in due \ failing : ~Files!Duplicate(e.line)}
           keys == {Log[e.line].exact : e \in new}
<1>1. /\ pending' = (pending \ due) \cup failing
      /\ logTold' = [x \in Files!Exacts |-> IF x \in keys THEN logTold[x] + 1 ELSE logTold[x]]
      /\ logSeen' = logSeen \cup keys
      /\ recent' = recent \cup ({Log[e.line].sem : e \in new} \ {None})
  BY DEF Files!HandOver
<1>2. /\ logTold' \in [Files!Exacts -> Nat] /\ keys \subseteq Files!Exacts
      /\ \A x \in keys : logTold'[x] > 0
      /\ \A x \in Files!Exacts : logTold[x] > 0 => logTold'[x] > 0
      /\ \A i : Files!Told(i) => Files!Told(i)'
      /\ \A e \in due \ failing : \A i : e.group = Files!Group(i) => Files!Told(i)'
  <2> DEFINE now == due \ failing
  <2>1. now \in SUBSET pending
    OBVIOUS
  <2>2. keys \in SUBSET Files!Exacts
    BY DEF ToldInv, Files!Exacts
  <2>4. \A e \in now : Files!Duplicate(e.line) \/ Log[e.line].exact \in keys
    OBVIOUS
  <2>3. logTold' = [x \in Files!Exacts |-> IF x \in keys THEN logTold[x] + 1 ELSE logTold[x]]
    BY <1>1
  <2> HIDE DEF new, keys, now
  <2>5. /\ logTold' \in [Files!Exacts -> Nat]
        /\ \A x \in keys : logTold'[x] > 0
        /\ \A x \in Files!Exacts : logTold[x] > 0 => logTold'[x] > 0
        /\ \A i : Files!Told(i) => Files!Told(i)'
        /\ \A e \in now : \A i : e.group = Files!Group(i) => Files!Told(i)'
    BY <2>1, <2>2, <2>3, <2>4, Telling, Zenon
  <2> QED
    BY <2>2, <2>5 DEF now
<1>3. \A e \in new : e.line \in Files!Lines /\ Log[e.line].exact \in keys
  BY DEF ToldInv
<1> HIDE DEF new, keys
<1>4. \A h \in recent' : h # None /\ \E j \in Files!Lines :
         Log[j].sem = h /\ logTold'[Log[j].exact] > 0
  <2>1. ASSUME NEW h \in recent
        PROVE h # None /\ \E j \in Files!Lines : Log[j].sem = h /\ logTold'[Log[j].exact] > 0
    <3>1. PICK j \in Files!Lines : Log[j].sem = h /\ logTold[Log[j].exact] > 0
      BY <2>1 DEF ToldInv
    <3>2. Log[j].exact \in Files!Exacts
      BY DEF Files!Exacts
    <3> QED
      BY <1>2, <3>1, <3>2 DEF ToldInv
  <2>2. ASSUME NEW e \in new
        PROVE \E j \in Files!Lines : Log[j].sem = Log[e.line].sem /\ logTold'[Log[j].exact] > 0
    BY <1>2, <1>3
  <2> QED
    BY <1>1, <2>1, <2>2
<1>5. \A x \in logSeen' : x \in Files!Exacts /\ logTold'[x] > 0
  BY <1>1, <1>2 DEF ToldInv
<1>6. \A e \in pending' : e.line \in Files!Lines /\ e.group = Files!Group(e.line)
  BY <1>1 DEF ToldInv
<1>7. ToldInv'
  BY <1>2, <1>4, <1>5, <1>6 DEF ToldInv
<1>8. ASSUME NEW i, NEW e \in pending, e.group = Files!Group(i)
      PROVE Files!Told(i)' \/ \E d \in pending' : d.group = Files!Group(i)
  <2>1. CASE e \in due \ failing
    BY <1>2, <1>8, <2>1
  <2>2. CASE e \notin due \ failing
    <3>1. e \in pending'
      BY <1>1, <2>2
    <3> QED
      BY <1>8, <3>1
  <2> QED
    BY <2>1, <2>2
<1> QED
  BY <1>2, <1>7, <1>8

\* The cursor that is saved is in the log; it moves only when nothing is held.
LEMMA SaveIs ==
  ASSUME WriterInv, CursorShape, Files!LogAssumption, UNCHANGED <<written, cuts>>,
         NEW held, NEW waiting, NEW f, NEW p, NEW rest, NEW noted, InFiles(f, p, rest, noted),
         ckpt' = Files!Save(held, waiting, f, p, rest, noted)
  PROVE /\ CursorShape'
        /\ IF held = {} /\ waiting = 0 THEN ckpt' # None /\ ckpt'.pos = p ELSE ckpt' = ckpt
<1>1. \A g, q, r, s : InFiles(g, q, r, s) => InFiles(g, q, r, s)'
  BY DEF InFiles, Files!End
<1>2. CASE held = {} /\ waiting = 0
  <2> DEFINE c == [file |-> f, pos |-> p, remaining |-> rest, known |-> noted]
  <2>1. ckpt' = c
    BY <1>2 DEF Files!Save
  <2>2. PICK n \in 1..Len(cuts) : noted = 1..n /\ f \in 1..n /\ rest = Upward(f, n)
    BY DEF InFiles
  <2>3. Len(cuts) \in Nat /\ n \in Nat /\ f \in Nat /\ f <= n /\ p \in Nat
    BY <2>2 DEF WriterInv, InFiles
  <2>4. rest \in Seq(Nat)
    BY <2>2, <2>3, UpwardIs
  <2>5. noted \in SUBSET Nat
    BY <2>2, <2>3
  <2>6. c \in Files!Cursors
    BY <2>3, <2>4, <2>5 DEF Files!Cursors
  <2>7. c # None
    BY <2>6 DEF Files!LogAssumption
  <2>8. c.file = f /\ c.pos = p /\ c.remaining = rest /\ c.known = noted
    OBVIOUS
  <2>9. InFiles(f, p, rest, noted)'
    BY <1>1
  <2>10. c = [file |-> c.file, pos |-> c.pos, remaining |-> c.remaining, known |-> c.known]
    OBVIOUS
  <2> HIDE DEF c
  <2>11. CursorShape'
    BY <2>1, <2>8, <2>9, <2>10 DEF CursorShape
  <2> QED
    BY <1>2, <2>1, <2>7, <2>8, <2>11
<1>3. CASE ~(held = {} /\ waiting = 0)
  <2>1. ckpt' = ckpt
    BY <1>3 DEF Files!Save
  <2>2. CursorShape'
    BY <1>1, <2>1 DEF CursorShape
  <2> QED
    BY <1>3, <2>1, <2>2
<1> QED
  BY <1>2, <1>3

-----------------------------------------------------------------------------
(* LogCapture: the invariant, action by action.                             *)

\* A step that leaves the log alone leaves the places in it.
LEMMA PlacesStay ==
  ASSUME UNCHANGED <<written, cuts>>
  PROVE \A f, p, rest, noted : InFiles(f, p, rest, noted) => InFiles(f, p, rest, noted)'
  BY DEF InFiles, Files!End

\* What follows of the memory and the cursor when they move together.
LEMMA CursorFollows ==
  ASSUME LogInv, since' = since, logGone \subseteq logGone',
         \A i : Files!Told(i) => Files!Told(i)',
         NEW p, ckpt # None,
         \/ ckpt' = ckpt
         \/ ckpt'.pos = p /\ \A i \in Files!Messages :
              since < i /\ i <= p => Files!Told(i)' \/ i \in logGone'
  PROVE CursorInv'
<1>1. CASE ckpt' = ckpt
  <2>1. \A i \in Files!Messages : since < i /\ i <= ckpt.pos => Files!Told(i) \/ i \in logGone
    BY DEF LogInv, CursorInv
  <2>2. \A i \in Files!Messages : since' < i /\ i <= ckpt'.pos => Files!Told(i)' \/ i \in logGone'
    BY <1>1, <2>1
  <2> QED
    BY <2>2 DEF CursorInv
<1>2. CASE ckpt'.pos = p /\ \A i \in Files!Messages :
             since < i /\ i <= p => Files!Told(i)' \/ i \in logGone'
  BY <1>2 DEF CursorInv
<1> QED
  BY <1>1, <1>2

\* The actions, one after the other.
LEMMA GrowStep ==
  ASSUME LogInv, Files!LogAssumption, Files!Write \/ Files!Rotate
  PROVE LogInv'
<1>1. /\ WriterInv'
      /\ \A f, p, rest, noted : InFiles(f, p, rest, noted) => InFiles(f, p, rest, noted)'
  BY LogGrows DEF LogInv
<1>2. UNCHANGED <<at, file, open, pos, known, backlog, restored, cand, pending, logSeen, recent,
                  ckpt, logTold, since, logGone>>
  BY DEF Files!Write, Files!Rotate, Files!memory, Files!reader
<1>3. ReaderInv'
  BY <1>1, <1>2 DEF LogInv, ReaderInv
<1>4. CursorShape'
  BY <1>1, <1>2 DEF LogInv, CursorShape
<1>5. ToldInv'
  BY <1>2 DEF LogInv, ToldInv
<1>6. HeldInv' /\ CursorInv'
  BY <1>2 DEF LogInv, HeldInv, CursorInv, Settles, Files!Told
<1> QED
  BY <1>1, <1>3, <1>4, <1>5, <1>6 DEF LogInv

LEMMA ForgetStep ==
  ASSUME LogInv, Files!Forget
  PROVE LogInv'
<1>1. UNCHANGED <<written, cuts, at, file, open, pos, known, backlog, restored, cand, pending,
                  logSeen, ckpt, logTold, since, logGone>> /\ recent' = {}
  BY DEF Files!Forget, Files!log, Files!reader
<1>2. WriterInv' /\ CursorShape'
  BY <1>1, PlacesStay DEF LogInv, WriterInv, CursorShape
<1>3. ReaderInv'
  BY <1>1, PlacesStay DEF LogInv, ReaderInv
<1>4. ToldInv'
  BY <1>1 DEF LogInv, ToldInv
<1>5. HeldInv' /\ CursorInv'
  BY <1>1 DEF LogInv, HeldInv, CursorInv, Settles, Files!Told
<1> QED
  BY <1>2, <1>3, <1>4, <1>5 DEF LogInv

\* The process ends, with the cursor where it was or where nothing is left to tell.
LEMMA EndStep ==
  ASSUME LogInv, Files!Forgotten, UNCHANGED <<written, cuts, since, logGone>>,
         logTold' \in [Files!Exacts -> Nat], CursorShape', CursorInv'
  PROVE LogInv'
<1>1. WriterInv'
  BY DEF LogInv, WriterInv
<1>2. ReaderInv' /\ ToldInv' /\ HeldInv'
  BY DEF Files!Forgotten, ReaderInv, ToldInv, HeldInv
<1> QED
  BY <1>1, <1>2 DEF LogInv

LEMMA CrashStep ==
  ASSUME LogInv, Files!Crash
  PROVE LogInv'
<1>1. Files!Forgotten /\ UNCHANGED <<written, cuts, ckpt, logTold, since, logGone>>
  BY DEF Files!Crash, Files!log
<1>2. CursorShape'
  BY <1>1, PlacesStay DEF LogInv, CursorShape
<1>3. CursorInv'
  BY <1>1 DEF LogInv, CursorInv, Files!Told
<1>4. logTold' \in [Files!Exacts -> Nat]
  BY <1>1 DEF LogInv, ToldInv
<1> QED
  BY <1>1, <1>2, <1>3, <1>4, EndStep

LEMMA StopStep ==
  ASSUME LogInv, Files!LogAssumption, Files!Stop
  PROVE LogInv'
<1> DEFINE keys == {Log[e.line].exact : e \in {d \in pending : ~Files!Duplicate(d.line)}}
<1>1. /\ Files!Forgotten /\ UNCHANGED <<written, cuts, since, logGone>>
      /\ logTold' = [x \in Files!Exacts |-> IF x \in keys THEN logTold[x] + 1 ELSE logTold[x]]
      /\ ckpt' = Files!Save({}, cand, file, pos, backlog, known)
      /\ open
  BY DEF Files!Stop, Files!log
<1>2. known # {} /\ ckpt # None /\ InFiles(file, pos, backlog, known)
  BY <1>1 DEF LogInv, ReaderInv
<1>3. /\ logTold' \in [Files!Exacts -> Nat]
      /\ \A i : Files!Told(i) => Files!Told(i)'
      /\ \A e \in pending : \A i : e.group = Files!Group(i) => Files!Told(i)'
  <2>1. ToldInv /\ pending \in SUBSET pending
    BY DEF LogInv
  <2>2. keys \in SUBSET Files!Exacts
    BY <2>1 DEF ToldInv, Files!Exacts
  <2>3. logTold' = [x \in Files!Exacts |-> IF x \in keys THEN logTold[x] + 1 ELSE logTold[x]]
    BY <1>1
  <2>4. \A e \in pending : Files!Duplicate(e.line) \/ Log[e.line].exact \in keys
    OBVIOUS
  <2> HIDE DEF keys
  <2> QED
    BY <2>1, <2>2, <2>3, <2>4, Telling, Zenon
<1> HIDE DEF keys
<1>4. /\ CursorShape'
      /\ IF cand = 0 THEN ckpt' # None /\ ckpt'.pos = pos ELSE ckpt' = ckpt
  <2>1. UNCHANGED <<written, cuts>> /\ WriterInv /\ CursorShape
    BY <1>1 DEF LogInv
  <2>2. /\ CursorShape'
        /\ IF {} = {} /\ cand = 0 THEN ckpt' # None /\ ckpt'.pos = pos ELSE ckpt' = ckpt
    BY <1>1, <1>2, <2>1, SaveIs
  <2> QED
    BY <2>2
<1>5. \A i \in Files!Messages : since < i /\ i <= pos => Files!Told(i)' \/ i \in logGone'
  <2>1. \A i \in Files!Messages : since < i /\ i <= pos => Settles(i)
    BY <1>2 DEF LogInv, HeldInv
  <2> QED
    BY <1>1, <1>3, <2>1 DEF Settles
<1>6. CursorInv'
  BY <1>1, <1>2, <1>3, <1>4, <1>5, CursorFollows
<1> QED
  BY <1>1, <1>3, <1>4, <1>6, EndStep

\* The files that follow the one being read, in their order, and the one to read.
LEMMA NextFiles ==
  ASSUME WriterInv, ReaderInv, known # {}
  PROVE /\ Len(cuts) \in Nat \ {0} /\ file \in 1..Len(cuts) /\ Files!Files = 1..Len(cuts)
        /\ Files!Backlog = Upward(file, Len(cuts))
        /\ Files!Target = IF file = Len(cuts) THEN file ELSE file + 1
<1> DEFINE last == Len(cuts)
<1>1. last \in Nat \ {0} /\ Files!Files = 1..last
  BY DEF WriterInv, Files!Files
<1>2. restored /\ InFiles(file, pos, backlog, known)
  BY DEF ReaderInv
<1>3. PICK n \in 1..last : known = 1..n /\ file \in 1..n /\ backlog = Upward(file, n)
  BY <1>2 DEF InFiles
<1> HIDE DEF last
<1>4. n \in Nat /\ file \in Nat /\ file <= n /\ n <= last /\ last \in Nat /\ file \in 1..last
  BY <1>1, <1>3
<1>5. Files!Range(backlog) = file + 1 .. n
  BY <1>3, <1>4, UpwardIs, SameOperators
<1>6. Files!Files \ (known \cup Files!Range(backlog)) = n + 1 .. last
  BY <1>1, <1>3, <1>4, <1>5
<1>7. Files!Backlog = backlog \o Files!InOrder(n + 1 .. last)
  BY <1>6 DEF Files!Backlog
<1>8. Files!Backlog = Upward(file, last)
  <2>1. Files!InOrder(n + 1 .. last) = Upward(n, last)
    BY <1>4, InOrderIs
  <2>2. Upward(file, n) \o Upward(n, last) = Upward(file, last)
    BY <1>4, UpwardOn
  <2> QED
    BY <1>3, <1>7, <2>1, <2>2
<1>9. Files!Target = IF file = last THEN file ELSE file + 1
  <2>1. Files!Target = IF Files!Backlog # <<>> THEN Head(Files!Backlog) ELSE last
    BY <1>2 DEF Files!Target, last
  <2>2. CASE file = last
    <3>1. Upward(file, last) = <<>>
      BY <1>4, <2>2, UpwardIs
    <3> QED
      BY <1>8, <2>1, <2>2, <3>1
  <2>3. CASE file # last
    <3>1. file < last
      BY <1>4, <2>3
    <3>2. Upward(file, last) # <<>> /\ Head(Upward(file, last)) = file + 1
      BY <1>4, <3>1, UpwardIs
    <3> QED
      BY <1>8, <2>1, <2>3, <3>2
  <2> QED
    BY <2>2, <2>3
<1> QED
  BY <1>1, <1>4, <1>8, <1>9 DEF last

\* Where the reader is after a step.
LEMMA ReaderMoves ==
  ASSUME UNCHANGED <<written, cuts>>, restored', ckpt' # None, known' # {},
         InFiles(file', pos', backlog', known')
  PROVE ReaderInv'
<1>1. InFiles(file, pos, backlog, known)'
  BY DEF InFiles, Files!End
<1> QED
  BY <1>1 DEF ReaderInv

\* The files noted are all there are, and the reader is in one of them.
LEMMA InAllFiles ==
  ASSUME WriterInv, NEW f \in 1..Len(cuts), NEW p \in Nat, cuts[f] <= p, p <= Files!End(f)
  PROVE InFiles(f, p, Upward(f, Len(cuts)), Files!Files)
<1>1. Len(cuts) \in 1..Len(cuts) /\ Files!Files = 1..Len(cuts)
  BY EndIs DEF WriterInv, Files!Files
<1> QED
  BY <1>1 DEF InFiles

\* The round finds the reader in the file it has open.
LEMMA StayStep ==
  ASSUME LogInv, Files!LogAssumption, Files!Stay
  PROVE LogInv'
<1>1. /\ UNCHANGED <<written, cuts, file, open, pos, restored, cand, pending, logSeen, recent,
                     logTold, since, logGone>>
      /\ open /\ known' = Files!Files /\ backlog' = Files!Backlog
      /\ ckpt' = Files!Save(pending, cand, file, pos, Files!Backlog, Files!Files)
  BY DEF Files!Stay, Files!log
<1>2. known # {} /\ ckpt # None /\ restored /\ InFiles(file, pos, backlog, known)
  BY <1>1 DEF LogInv, ReaderInv
<1>3. /\ Len(cuts) \in Nat \ {0} /\ file \in 1..Len(cuts) /\ Files!Files = 1..Len(cuts)
      /\ Files!Backlog = Upward(file, Len(cuts))
  BY <1>2, NextFiles DEF LogInv
<1>4. InFiles(file, pos, Files!Backlog, Files!Files)
  <2>1. pos \in Nat /\ cuts[file] <= pos /\ pos <= Files!End(file)
    BY <1>2 DEF InFiles
  <2> QED
    BY <1>3, <2>1, InAllFiles DEF LogInv
<1>5. /\ CursorShape'
      /\ IF pending = {} /\ cand = 0 THEN ckpt' # None /\ ckpt'.pos = pos ELSE ckpt' = ckpt
  <2>1. UNCHANGED <<written, cuts>> /\ WriterInv /\ CursorShape
    BY <1>1 DEF LogInv
  <2> QED
    BY <1>1, <1>4, <2>1, SaveIs
<1>6. WriterInv' /\ ToldInv'
  BY <1>1 DEF LogInv, WriterInv, ToldInv
<1>7. ReaderInv'
  <2>1. known' # {} /\ ckpt' # None /\ restored'
    BY <1>1, <1>2, <1>3, <1>5
  <2>2. InFiles(file', pos', backlog', known')
    BY <1>1, <1>4
  <2> QED
    BY <1>1, <2>1, <2>2, ReaderMoves
<1>8. HeldInv'
  BY <1>1, <1>2 DEF LogInv, HeldInv, Settles, Files!Told
<1>9. CursorInv'
  <2>1. pending = {} => \A i \in Files!Messages :
            since < i /\ i <= pos => Files!Told(i)' \/ i \in logGone'
    BY <1>1, <1>2 DEF LogInv, HeldInv, Settles, Files!Told
  <2>2. \A i : Files!Told(i) => Files!Told(i)'
    BY <1>1 DEF Files!Told
  <2> QED
    BY <1>1, <1>2, <1>5, <2>1, <2>2, CursorFollows
<1> QED
  BY <1>5, <1>6, <1>7, <1>8, <1>9 DEF LogInv

LEMMA ReadFailsStep ==
  ASSUME LogInv, Files!ReadFails
  PROVE LogInv'
<1>1. /\ UNCHANGED <<written, cuts, file, pos, known, backlog, restored, cand, pending, logSeen,
                     recent, ckpt, logTold, since, logGone>>
      /\ at = "read"
  BY DEF Files!ReadFails, Files!log
<1>2. known # {} /\ ckpt # None /\ restored /\ InFiles(file, pos, backlog, known)
  BY <1>1 DEF LogInv, ReaderInv
<1>3. WriterInv' /\ ToldInv'
  BY <1>1 DEF LogInv, WriterInv, ToldInv
<1>4. ReaderInv'
  BY <1>1, <1>2, ReaderMoves
<1>5. CursorShape'
  BY <1>1, PlacesStay DEF LogInv, CursorShape
<1>6. HeldInv' /\ CursorInv'
  BY <1>1 DEF LogInv, HeldInv, CursorInv, Settles, Files!Told
<1> QED
  BY <1>3, <1>4, <1>5, <1>6 DEF LogInv

LEMMA SwitchFailsStep ==
  ASSUME LogInv, Files!SwitchFails
  PROVE LogInv'
<1>1. /\ UNCHANGED <<written, cuts, file, open, pos, restored, cand, ckpt, since, logGone>>
      /\ open /\ known' = Files!Files /\ backlog' = Files!Backlog
  BY DEF Files!SwitchFails, Files!log
<1>2. PICK e \in pending : Files!HandOver(pending, {e})
  BY DEF Files!SwitchFails
<1>3. known # {} /\ ckpt # None /\ restored /\ InFiles(file, pos, backlog, known)
  BY <1>1 DEF LogInv, ReaderInv
<1>4. /\ Len(cuts) \in Nat \ {0} /\ file \in 1..Len(cuts) /\ Files!Files = 1..Len(cuts)
      /\ Files!Backlog = Upward(file, Len(cuts))
  BY <1>3, NextFiles DEF LogInv
<1>5. /\ ToldInv'
      /\ \A i : Files!Told(i) => Files!Told(i)'
      /\ \A i : (\E d \in pending : d.group = Files!Group(i)) =>
           Files!Told(i)' \/ \E d \in pending' : d.group = Files!Group(i)
  <2>1. ToldInv /\ pending \in SUBSET pending /\ {e} \in SUBSET pending
    BY DEF LogInv
  <2> QED
    BY <1>2, <2>1, HandOverTells
<1>6. InFiles(file, pos, Files!Backlog, Files!Files)
  <2>1. pos \in Nat /\ cuts[file] <= pos /\ pos <= Files!End(file)
    BY <1>3 DEF InFiles
  <2> QED
    BY <1>4, <2>1, InAllFiles DEF LogInv
<1>7. ReaderInv'
  <2>1. known' # {} /\ ckpt' # None /\ restored'
    BY <1>1, <1>3, <1>4
  <2>2. InFiles(file', pos', backlog', known')
    BY <1>1, <1>6
  <2> QED
    BY <1>1, <2>1, <2>2, ReaderMoves
<1>8. WriterInv' /\ CursorShape'
  BY <1>1, PlacesStay DEF LogInv, WriterInv, CursorShape
<1>9. HeldInv'
  <2>1. \A i \in Files!Messages : since < i /\ i <= pos => Settles(i)
    BY <1>3 DEF LogInv, HeldInv
  <2>2. \A i : Settles(i) => Settles(i)'
    BY <1>1, <1>5 DEF Settles
  <2> QED
    BY <1>1, <2>1, <2>2 DEF HeldInv
<1>10. CursorInv'
  BY <1>1, <1>3, <1>5, CursorFollows
<1> QED
  BY <1>5, <1>7, <1>8, <1>9, <1>10 DEF LogInv

\* The next file is opened when the one before it is read to its end, and what is held told.
LEMMA SwitchStep ==
  ASSUME LogInv, Files!LogAssumption, Files!Switch
  PROVE LogInv'
<1>1. /\ UNCHANGED <<written, cuts, open, restored, cand, since, logGone>>
      /\ open /\ Files!Target # file /\ pos >= Files!End(file)
      /\ Files!HandOver(pending, {})
      /\ known' = Files!Files /\ backlog' = Files!Without(Files!Backlog, Files!Target)
      /\ file' = Files!Target /\ pos' = cuts[Files!Target]
      /\ ckpt' = Files!Save({}, cand, Files!Target, cuts[Files!Target], backlog', Files!Files)
  BY DEF Files!Switch, Files!log
<1>2. known # {} /\ ckpt # None /\ restored /\ InFiles(file, pos, backlog, known)
  BY <1>1 DEF LogInv, ReaderInv
<1>3. /\ Len(cuts) \in Nat \ {0} /\ file \in 1..Len(cuts) /\ Files!Files = 1..Len(cuts)
      /\ Files!Backlog = Upward(file, Len(cuts))
      /\ Files!Target = IF file = Len(cuts) THEN file ELSE file + 1
  BY <1>2, NextFiles DEF LogInv
<1>4. /\ file # Len(cuts) /\ Files!Target = file + 1
      /\ file \in Nat /\ file + 1 \in Nat /\ file < Len(cuts) /\ file + 1 \in 1..Len(cuts)
  BY <1>1, <1>3
<1>5. backlog' = Upward(file + 1, Len(cuts))
  BY <1>1, <1>3, <1>4, WithoutIs
<1>6. cuts[file + 1] = Files!End(file) /\ pos = Files!End(file) /\ pos \in Nat
  <2>1. Files!End(file) = cuts[file + 1] /\ Files!End(file) \in Nat
    BY <1>3, <1>4, EndIs DEF LogInv
  <2>2. pos \in Nat /\ pos <= Files!End(file)
    BY <1>2 DEF InFiles
  <2> QED
    BY <1>1, <2>1, <2>2
<1>7. InFiles(file + 1, pos, backlog', Files!Files)
  <2>1. cuts[file + 1] <= pos /\ pos <= Files!End(file + 1)
    BY <1>4, <1>6, EndIs DEF LogInv
  <2> QED
    BY <1>4, <1>5, <1>6, <2>1, InAllFiles DEF LogInv
<1>8. /\ ToldInv'
      /\ \A i : Files!Told(i) => Files!Told(i)'
      /\ \A i : (\E d \in pending : d.group = Files!Group(i)) =>
           Files!Told(i)' \/ \E d \in pending' : d.group = Files!Group(i)
      /\ pending' = {}
  <2>1. ToldInv /\ pending \in SUBSET pending /\ {} \in SUBSET pending
    BY DEF LogInv
  <2>2. pending' = {}
    BY <1>1 DEF Files!HandOver
  <2> QED
    BY <1>1, <2>1, <2>2, HandOverTells
<1>9. \A i \in Files!Messages : since < i /\ i <= pos => Files!Told(i)' \/ i \in logGone'
  <2>1. \A i \in Files!Messages : since < i /\ i <= pos => Settles(i)
    BY <1>2 DEF LogInv, HeldInv
  <2> QED
    BY <1>1, <1>8, <2>1 DEF Settles
<1>10. /\ CursorShape'
       /\ IF cand = 0 THEN ckpt' # None /\ ckpt'.pos = pos ELSE ckpt' = ckpt
  <2>1. UNCHANGED <<written, cuts>> /\ WriterInv /\ CursorShape
    BY <1>1 DEF LogInv
  <2>2. ckpt' = Files!Save({}, cand, file + 1, pos, backlog', Files!Files)
    BY <1>1, <1>4, <1>6
  <2>3. /\ CursorShape'
        /\ IF {} = {} /\ cand = 0 THEN ckpt' # None /\ ckpt'.pos = pos ELSE ckpt' = ckpt
    BY <1>7, <2>1, <2>2, SaveIs
  <2> QED
    BY <2>3
<1>11. ReaderInv'
  <2>1. known' # {} /\ ckpt' # None /\ restored'
    BY <1>1, <1>2, <1>3, <1>10
  <2>2. InFiles(file', pos', backlog', known')
    BY <1>1, <1>4, <1>6, <1>7
  <2> QED
    BY <1>1, <2>1, <2>2, ReaderMoves
<1>12. WriterInv'
  BY <1>1 DEF LogInv, WriterInv
<1>13. HeldInv'
  <2>1. pos' = pos
    BY <1>1, <1>4, <1>6
  <2> QED
    BY <1>1, <1>9, <2>1 DEF HeldInv, Settles
<1>14. CursorInv'
  BY <1>1, <1>2, <1>8, <1>9, <1>10, CursorFollows
<1> QED
  BY <1>8, <1>10, <1>11, <1>12, <1>13, <1>14 DEF LogInv

LEMMA FlushStepOfLog ==
  ASSUME LogInv, Files!LogAssumption,
         NEW due \in SUBSET pending, NEW failing \in SUBSET due, Files!Flush(due, failing)
  PROVE LogInv'
<1>1. /\ UNCHANGED <<written, cuts, file, open, pos, known, backlog, restored, since, logGone>>
      /\ at = "flush" /\ Files!HandOver(due, failing)
  BY DEF Files!Flush, Files!log, Files!reader
<1>2. \/ ckpt' = ckpt
      \/ ckpt' = Files!Save(pending', cand', file, pos, backlog, known)
  BY DEF Files!Flush
<1>3. known # {} /\ ckpt # None /\ restored /\ InFiles(file, pos, backlog, known)
  BY <1>1 DEF LogInv, ReaderInv
<1>4. /\ ToldInv'
      /\ \A i : Files!Told(i) => Files!Told(i)'
      /\ \A i : (\E d \in pending : d.group = Files!Group(i)) =>
           Files!Told(i)' \/ \E d \in pending' : d.group = Files!Group(i)
  BY <1>1, HandOverTells DEF LogInv
<1>5. WriterInv'
  BY <1>1 DEF LogInv, WriterInv
<1>6. /\ CursorShape' /\ ckpt' # None
      /\ ckpt' = ckpt \/ (pending' = {} /\ ckpt'.pos = pos)
  <2>1. UNCHANGED <<written, cuts>> /\ WriterInv /\ CursorShape
    BY <1>1 DEF LogInv
  <2>2. CASE ckpt' = ckpt
    BY <1>3, <2>1, <2>2, PlacesStay DEF CursorShape
  <2>3. CASE ckpt' = Files!Save(pending', cand', file, pos, backlog, known)
    BY <1>3, <2>1, <2>3, SaveIs
  <2> QED
    BY <1>2, <2>2, <2>3
<1>7. HeldInv'
  <2>1. \A i \in Files!Messages : since < i /\ i <= pos => Settles(i)
    BY <1>3 DEF LogInv, HeldInv
  <2>2. \A i : Settles(i) => Settles(i)'
    BY <1>1, <1>4 DEF Settles
  <2> QED
    BY <1>1, <2>1, <2>2 DEF HeldInv
<1>8. ReaderInv'
  <2>1. known' # {} /\ ckpt' # None /\ restored'
    BY <1>1, <1>3, <1>6
  <2>2. InFiles(file', pos', backlog', known')
    BY <1>1, <1>3
  <2> QED
    BY <1>1, <2>1, <2>2, ReaderMoves
<1>9. CursorInv'
  <2>1. pending' = {} => \A i \in Files!Messages :
            since < i /\ i <= pos => Files!Told(i)' \/ i \in logGone'
    BY <1>1, <1>3, <1>7 DEF HeldInv, Settles
  <2> QED
    BY <1>1, <1>3, <1>4, <1>6, <2>1, CursorFollows
<1> QED
  BY <1>4, <1>5, <1>6, <1>7, <1>8, <1>9 DEF LogInv

\* The watcher begins: where the log ends, or where the cursor is.
LEMMA FirstAttach ==
  ASSUME LogInv, Files!Attach, known = {}
  PROVE /\ InFiles(Files!Target, Files!FirstPlace, backlog', Files!Files)
        /\ \A i \in Files!Messages : since' < i /\ i <= Files!FirstPlace => Settles(i)'
<1>1. /\ UNCHANGED <<written, cuts, pending, logTold>> /\ logGone \subseteq logGone'
      /\ since' = IF ckpt = None THEN Files!FirstPlace ELSE since
      /\ backlog' = Files!Without(Files!Backlog, Files!Target)
  BY DEF Files!Attach, Files!log
<1>2. ~open /\ ~restored /\ pending = {}
  BY DEF LogInv, ReaderInv
<1> DEFINE last == Len(cuts)
<1>3. last \in Nat \ {0} /\ last \in 1..last /\ Files!Files = 1..last /\ WriterInv
  BY DEF LogInv, WriterInv, Files!Files
<1>4. CASE ckpt = None
  <2>1. Files!Backlog = <<>> /\ Files!Target = last
    BY <1>2, <1>4 DEF Files!Backlog, Files!Target
  <2>2. Files!FirstPlace = Files!End(last)
    BY <1>4, <2>1 DEF Files!FirstPlace
  <2>3. cuts[last] <= Files!End(last) /\ Files!End(last) \in Nat
    BY <1>3, EndIs
  <2>4. backlog' = Upward(last, last)
    <3>1. Upward(last, last) = <<>>
      BY <1>3, UpwardIs
    <3>2. Files!Without(Upward(last, last), last) = Upward(last, last)
      BY <1>3, WithoutIs
    <3> QED
      BY <1>1, <2>1, <3>1, <3>2
  <2>5. InFiles(last, Files!End(last), Upward(last, last), Files!Files)
    BY <1>3, <2>3, InAllFiles
  <2>6. \A i \in Files!Messages : ~ (since' < i /\ i <= Files!FirstPlace)
    <3>1. \A i \in Files!Messages : i \in Int
      <4>1. DOMAIN Log = 1..Len(Log)
        BY IntakeAssumption DEF Files!LogAssumption
      <4> QED
        BY <4>1 DEF Files!Messages, Files!Lines
    <3> QED
      BY <1>1, <1>4, <2>2, <2>3, <3>1
  <2> QED
    BY <2>1, <2>2, <2>4, <2>5, <2>6
<1>5. CASE ckpt # None
  <2>1. InFiles(ckpt.file, ckpt.pos, ckpt.remaining, ckpt.known)
    BY <1>5 DEF LogInv, CursorShape
  <2>2. PICK n \in 1..last :
          ckpt.known = 1..n /\ ckpt.file \in 1..n /\ ckpt.remaining = Upward(ckpt.file, n)
    BY <2>1 DEF InFiles
  <2> DEFINE f == ckpt.file
  <2>3. Files!Target = f /\ Files!FirstPlace = ckpt.pos
    BY <1>2, <1>5 DEF Files!Target, Files!FirstPlace
  <2>4. ckpt.pos \in Nat /\ cuts[f] <= ckpt.pos /\ ckpt.pos <= Files!End(f)
    BY <2>1 DEF InFiles
  <2>5. Files!Backlog = ckpt.remaining \o Files!InOrder(Files!Files \ ckpt.known)
    BY <1>5 DEF Files!Backlog
  <2> HIDE DEF last, f
  <2>6. n \in Nat /\ f \in Nat /\ f <= n /\ n <= last /\ last \in Nat /\ f \in 1..last
    BY <1>3, <2>2 DEF f
  <2>7. Files!Files \ ckpt.known = n + 1 .. last
    BY <1>3, <2>2, <2>6
  <2>8. Files!Backlog = Upward(f, last)
    <3>1. Files!InOrder(n + 1 .. last) = Upward(n, last)
      BY <2>6, InOrderIs
    <3>2. Upward(f, n) \o Upward(n, last) = Upward(f, last)
      BY <2>6, UpwardOn
    <3> QED
      BY <2>2, <2>5, <2>7, <3>1, <3>2 DEF f
  <2>9. backlog' = Upward(f, last)
    <3>1. Files!Without(Upward(f, last), f) = Upward(f, last)
      BY <2>6, WithoutIs
    <3> QED
      BY <1>1, <2>3, <2>8, <3>1
  <2>10. InFiles(f, ckpt.pos, Upward(f, last), Files!Files)
    BY <1>3, <2>4, <2>6, InAllFiles DEF last
  <2>11. \A i \in Files!Messages : since' < i /\ i <= ckpt.pos => Settles(i)'
    <3>1. \A i \in Files!Messages : since < i /\ i <= ckpt.pos => Files!Told(i) \/ i \in logGone
      BY <1>5 DEF LogInv, CursorInv
    <3> QED
      BY <1>1, <1>5, <3>1 DEF Settles, Files!Told
  <2> QED
    BY <2>3, <2>9, <2>10, <2>11
<1> QED
  BY <1>4, <1>5

\* A file that was dropped is opened again at the cursor, or at its beginning, or is left for
\* the next one: what it still held is then gone.
LEMMA LaterAttach ==
  ASSUME LogInv, Files!Attach, known # {}
  PROVE /\ InFiles(Files!Target, Files!FirstPlace, backlog', Files!Files)
        /\ \A i \in Files!Messages : since' < i /\ i <= Files!FirstPlace => Settles(i)'
        /\ since' = since
<1>1. /\ UNCHANGED <<written, cuts, pending, logTold>>
      /\ logGone' = IF file \in Files!Files \ {Files!Target}
                    THEN logGone \cup (pos + 1 .. Files!End(file)) ELSE logGone
      /\ since' = IF ckpt = None THEN Files!FirstPlace ELSE since
      /\ backlog' = Files!Without(Files!Backlog, Files!Target)
  BY DEF Files!Attach, Files!log
<1>2. ckpt # None /\ InFiles(file, pos, backlog, known) /\ WriterInv
  BY DEF LogInv, ReaderInv
<1>3. /\ Len(cuts) \in Nat \ {0} /\ file \in 1..Len(cuts) /\ Files!Files = 1..Len(cuts)
      /\ Files!Backlog = Upward(file, Len(cuts))
      /\ Files!Target = IF file = Len(cuts) THEN file ELSE file + 1
  BY NextFiles DEF LogInv
<1>4. pos \in Nat /\ cuts[file] <= pos /\ pos <= Files!End(file)
  BY <1>2 DEF InFiles
<1> DEFINE last == Len(cuts)
           t == Files!Target
<1>5. last \in Nat /\ file \in Nat /\ file <= last /\ t \in Nat /\ t \in 1..last /\ file <= t
  BY <1>3
<1>6. backlog' = Upward(t, last)
  <2>1. CASE file = last
    BY <1>1, <1>3, <1>5, <2>1, WithoutIs
  <2>2. CASE file # last
    <3>1. file < last
      BY <1>5, <2>2
    <3>2. Files!Without(Upward(file, last), file + 1) = Upward(file + 1, last)
      BY <1>5, <3>1, WithoutIs
    <3> QED
      BY <1>1, <1>3, <2>2, <3>2
  <2> QED
    BY <2>1, <2>2
<1>7. CASE ckpt.file = t
  <2>1. Files!FirstPlace = ckpt.pos
    BY <1>2, <1>7 DEF Files!FirstPlace
  <2>2. InFiles(ckpt.file, ckpt.pos, ckpt.remaining, ckpt.known)
    BY <1>2 DEF LogInv, CursorShape
  <2>3. ckpt.pos \in Nat /\ cuts[t] <= ckpt.pos /\ ckpt.pos <= Files!End(t)
    BY <1>7, <2>2 DEF InFiles
  <2>4. \A i \in Files!Messages : since < i /\ i <= ckpt.pos => Files!Told(i) \/ i \in logGone
    BY <1>2 DEF LogInv, CursorInv
  <2>5. \A i \in Files!Messages : since' < i /\ i <= ckpt.pos => Settles(i)'
    BY <1>1, <1>2, <2>4 DEF Settles, Files!Told
  <2> HIDE DEF t, last
  <2>6. InFiles(t, ckpt.pos, Upward(t, last), Files!Files)
    BY <1>2, <1>5, <2>3, InAllFiles DEF last
  <2> QED
    BY <1>1, <1>2, <1>6, <2>1, <2>5, <2>6 DEF t
<1>8. CASE ckpt.file # t
  <2>1. Files!FirstPlace = cuts[t]
    BY <1>2, <1>8 DEF Files!FirstPlace
  <2>2. cuts[t] \in Nat /\ cuts[t] <= Files!End(t)
    BY <1>2, <1>5, EndIs
  <2>3. \A i \in Files!Messages : since < i /\ i <= pos => Settles(i)
    BY DEF LogInv, HeldInv
  <2>4. \A i \in Files!Messages : i \in Int
    <3>1. DOMAIN Log = 1..Len(Log)
      BY IntakeAssumption DEF Files!LogAssumption
    <3> QED
      BY <3>1 DEF Files!Messages, Files!Lines
  <2>5. ASSUME NEW i \in Files!Messages, since < i, i <= cuts[t] PROVE Settles(i)'
    <3>1. CASE i <= pos
      <4>1. Settles(i)
        BY <2>3, <2>5, <3>1
      <4> QED
        BY <1>1, <4>1 DEF Settles, Files!Told
    <3>2. CASE ~ (i <= pos)
      <4>1. t # file
        BY <1>4, <2>2, <2>4, <2>5, <3>2
      <4>2. file # last /\ t = file + 1
        BY <1>3, <4>1
      <4>3. cuts[t] = Files!End(file)
        BY <1>2, <1>3, <4>2, EndIs
      <4>4. i \in pos + 1 .. Files!End(file)
        BY <1>4, <2>2, <2>4, <2>5, <3>2, <4>3
      <4>5. i \in logGone'
        BY <1>1, <1>3, <4>1, <4>4
      <4> QED
        BY <4>5 DEF Settles
    <3> QED
      BY <3>1, <3>2
  <2> HIDE DEF t, last
  <2>6. InFiles(t, cuts[t], Upward(t, last), Files!Files)
    BY <1>2, <1>5, <2>2, InAllFiles DEF last
  <2> QED
    BY <1>1, <1>2, <1>6, <2>1, <2>5, <2>6 DEF t
<1> QED
  BY <1>7, <1>8

LEMMA LogAttachStep ==
  ASSUME LogInv, Files!LogAssumption, Files!Attach
  PROVE LogInv'
<1> DEFINE f == Files!Target
           p == Files!FirstPlace
<1>1. /\ UNCHANGED <<written, cuts, cand, pending, logSeen, recent, logTold>>
      /\ logGone \subseteq logGone'
      /\ file' = f /\ pos' = p /\ known' = Files!Files /\ restored'
      /\ since' = IF ckpt = None THEN p ELSE since
      /\ ckpt' = Files!Save(pending, cand, f, p, backlog', Files!Files)
  BY DEF Files!Attach, Files!log
<1>2. /\ InFiles(f, p, backlog', Files!Files)
      /\ \A i \in Files!Messages : since' < i /\ i <= p => Settles(i)'
  BY FirstAttach, LaterAttach
<1>3. ckpt = None => pending = {} /\ cand = 0
  BY DEF LogInv, ReaderInv
<1> HIDE DEF f, p
<1>4. /\ CursorShape'
      /\ IF pending = {} /\ cand = 0 THEN ckpt' # None /\ ckpt'.pos = p ELSE ckpt' = ckpt
  <2>1. UNCHANGED <<written, cuts>> /\ WriterInv /\ CursorShape
    BY <1>1 DEF LogInv
  <2> QED
    BY <1>1, <1>2, <2>1, SaveIs
<1>5. p \in Nat
  BY <1>2 DEF InFiles
<1>6. WriterInv' /\ ToldInv'
  BY <1>1, <1>5 DEF LogInv, WriterInv, ToldInv
<1>7. ReaderInv'
  <2>1. known' # {}
    BY <1>1 DEF LogInv, WriterInv, Files!Files
  <2>2. ckpt' # None /\ restored'
    BY <1>1, <1>3, <1>4
  <2>3. InFiles(file', pos', backlog', known')
    BY <1>1, <1>2
  <2> QED
    BY <1>1, <2>1, <2>2, <2>3, ReaderMoves
<1>8. HeldInv'
  BY <1>1, <1>2 DEF HeldInv
<1>9. CursorInv'
  <2>1. CASE pending = {} /\ cand = 0
    BY <1>1, <1>2, <1>4, <2>1 DEF CursorInv, Settles
  <2>2. CASE ~ (pending = {} /\ cand = 0)
    <3>1. ckpt' = ckpt /\ ckpt # None /\ since' = since
      BY <1>1, <1>3, <1>4, <2>2
    <3>2. \A i : Files!Told(i) => Files!Told(i)'
      BY <1>1 DEF Files!Told
    <3> QED
      BY <1>1, <3>1, <3>2, CursorFollows
  <2> QED
    BY <2>1, <2>2
<1> QED
  BY <1>4, <1>6, <1>7, <1>8, <1>9 DEF LogInv

\* One step of ReadTo.
Emitted(f, r, a, i) == IF i = a THEN r ELSE Files!Emit(f[i - 1], i)

\* f gives them up to line n.
Emits(f, r, a, n) == f = [i \in a..n |-> Emitted(f, r, a, i)]

LEMMA EmitsExists ==
  ASSUME NEW r, NEW a \in Nat, NEW p \in Nat, a <= p
  PROVE \E f : Emits(f, r, a, p)
<1> DEFINE T == {n \in a..p : \E f : Emits(f, r, a, n)}
<1>1. a \in T
  <2> DEFINE f == [i \in a..a |-> r]
  <2>1. f = [i \in a..a |-> Emitted(f, r, a, i)]
    BY DEF Emitted
  <2>2. Emits(f, r, a, a)
    BY <2>1 DEF Emits
  <2> HIDE DEF f
  <2> QED
    BY <2>2
<1>2. ASSUME NEW n \in a + 1..p, n - 1 \in T PROVE n \in T
  <2>1. PICK f : Emits(f, r, a, n - 1)
    BY <1>2
  <2>2. \A i \in a..(n - 1) : f[i] = Emitted(f, r, a, i)
    BY <2>1 DEF Emits
  <2> DEFINE g == [i \in a..n |-> IF i < n THEN f[i] ELSE Files!Emit(f[n - 1], n)]
  <2>3. ASSUME NEW i \in a..n PROVE g[i] = Emitted(g, r, a, i)
    <3>1. CASE i = a
      <4>1. i \in a..(n - 1) /\ i < n
        BY <3>1
      <4> QED
        BY <2>2, <3>1, <4>1 DEF Emitted
    <3>2. CASE i # a /\ i < n
      <4>1. g[i] = f[i] /\ g[i - 1] = f[i - 1] /\ i \in a..(n - 1)
        BY <3>2
      <4> QED
        BY <2>2, <3>2, <4>1 DEF Emitted
    <3>3. CASE i = n
      <4>1. g[n - 1] = f[n - 1] /\ n # a /\ g[n] = Files!Emit(f[n - 1], n)
        OBVIOUS
      <4> QED
        BY <3>3, <4>1 DEF Emitted
    <3> QED
      BY <3>1, <3>2, <3>3
  <2>4. g = [i \in a..n |-> g[i]]
    OBVIOUS
  <2> HIDE DEF g
  <2>5. Emits(g, r, a, n)
    BY <2>3, <2>4 DEF Emits
  <2> QED
    BY <2>5
<1> HIDE DEF T
<1>3. T = a..p
  <2>1. T \in SUBSET (a..p)
    BY DEF T
  <2> QED
    BY <1>1, <1>2, <2>1, FromTo
<1> QED
  BY <1>3 DEF T

\* What reading keeps: no message up to n is out of sight.
Sighted(r, n) ==
  /\ r = [held |-> r.held, cand |-> r.cand, gone |-> r.gone]
  /\ logGone \subseteq r.gone
  /\ \A e \in r.held : e.line \in Files!Lines /\ e.group = Files!Group(e.line)
  /\ \A i \in Files!Messages : since < i /\ i <= n =>
       Files!Told(i) \/ i \in r.gone \/ \E e \in r.held : e.group = Files!Group(i)

\* A copy that is held is replaced by a better one of its group, and by nothing else.
LEMMA HoldKeeps ==
  ASSUME ToldInv, NEW held, NEW n \in Files!Lines,
         \A e \in held : e.line \in Files!Lines /\ e.group = Files!Group(e.line)
  PROVE LET now == Files!Hold(held, n) IN
        /\ \A e \in now : e.line \in Files!Lines /\ e.group = Files!Group(e.line)
        /\ \A e \in held : \E d \in now : d.group = e.group
        /\ Files!Told(n) \/ \E e \in now : e.group = Files!Group(n)
<1> DEFINE better == \E e \in held : e.group = Files!Group(n) /\ Log[e.line].q >= Log[n].q
           entry == [group |-> Files!Group(n), line |-> n]
           others == {e \in held : e.group # Files!Group(n)}
<1>1. Files!Hold(held, n) = IF Files!Duplicate(n) \/ better THEN held ELSE others \cup {entry}
  BY DEF Files!Hold
<1>2. entry.group = Files!Group(n) /\ entry.line = n
  OBVIOUS
<1>3. better => \E e \in held : e.group = Files!Group(n)
  OBVIOUS
<1> HIDE DEF better, entry
<1>4. Files!Duplicate(n) => Files!Told(n)
  BY DuplicateIsTold
<1>5. CASE Files!Duplicate(n) \/ better
  BY <1>1, <1>3, <1>4, <1>5
<1>6. CASE ~ (Files!Duplicate(n) \/ better)
  <2>1. Files!Hold(held, n) = others \cup {entry}
    BY <1>1, <1>6
  <2> QED
    BY <1>2, <2>1
<1> QED
  BY <1>5, <1>6

LEMMA EmitKeeps ==
  ASSUME ToldInv, Files!LogAssumption, NEW n \in Files!Lines, NEW r, Sighted(r, n - 1)
  PROVE Sighted(Files!Emit(r, n), n)
<1>1. DOMAIN Log = 1..Len(Log) /\ Files!Lines = 1..Len(Log)
  BY DEF Files!LogAssumption, Files!Lines
<1>2. \A i \in Files!Messages : i \in Int /\ i \in Files!Lines /\ Log[i].kind # "head"
  BY <1>1 DEF Files!Messages
<1>3. n \in Int
  BY <1>1
<1>4. \A i \in Files!Messages : i <= n => i = n \/ i <= n - 1
  BY <1>2, <1>3
<1>5. /\ r = [held |-> r.held, cand |-> r.cand, gone |-> r.gone]
      /\ logGone \subseteq r.gone
      /\ \A e \in r.held : e.line \in Files!Lines /\ e.group = Files!Group(e.line)
      /\ \A i \in Files!Messages : since < i /\ i <= n - 1 =>
           Files!Told(i) \/ i \in r.gone \/ \E e \in r.held : e.group = Files!Group(i)
  BY DEF Sighted
<1> DEFINE q == Files!Emit(r, n)
<1>6. CASE Log[n].kind = "head"
  <2>1. q = [held |-> r.held, cand |-> IF r.cand = 0 THEN n ELSE r.cand, gone |-> r.gone]
    BY <1>5, <1>6 DEF Files!Emit
  <2>2. q = [held |-> q.held, cand |-> q.cand, gone |-> q.gone]
        /\ q.held = r.held /\ q.gone = r.gone
    BY <2>1
  <2>3. \A i \in Files!Messages : i <= n => i <= n - 1
    BY <1>2, <1>4, <1>6
  <2> HIDE DEF q
  <2>4. Sighted(q, n)
    BY <1>5, <2>2, <2>3 DEF Sighted
  <2> QED
    BY <2>4 DEF q
<1>7. CASE Log[n].kind = "tail" /\ r.cand = 0
  <2>1. q = [held |-> r.held, cand |-> r.cand, gone |-> r.gone \cup {n}]
    BY <1>5, <1>7 DEF Files!Emit
  <2>2. q = [held |-> q.held, cand |-> q.cand, gone |-> q.gone]
        /\ q.held = r.held /\ q.gone = r.gone \cup {n}
    BY <2>1
  <2> HIDE DEF q
  <2>3. Sighted(q, n)
    BY <1>4, <1>5, <2>2 DEF Sighted
  <2> QED
    BY <2>3 DEF q
<1>8. CASE Log[n].kind # "head" /\ ~ (Log[n].kind = "tail" /\ r.cand = 0)
  <2> DEFINE now == Files!Hold(r.held, n)
  <2>1. q = [held |-> now, cand |-> 0, gone |-> r.gone]
    BY <1>5, <1>8 DEF Files!Emit
  <2>2. q = [held |-> q.held, cand |-> q.cand, gone |-> q.gone]
        /\ q.held = now /\ q.gone = r.gone
    BY <2>1
  <2>3. /\ \A e \in now : e.line \in Files!Lines /\ e.group = Files!Group(e.line)
        /\ \A e \in r.held : \E d \in now : d.group = e.group
        /\ Files!Told(n) \/ \E e \in now : e.group = Files!Group(n)
    BY <1>5, HoldKeeps
  <2> HIDE DEF q, now
  <2>4. ASSUME NEW i \in Files!Messages, since < i, i <= n
        PROVE Files!Told(i) \/ i \in q.gone \/ \E e \in q.held : e.group = Files!Group(i)
    <3>1. CASE i = n
      BY <2>2, <2>3, <3>1
    <3>2. CASE i <= n - 1
      BY <1>5, <2>2, <2>3, <2>4, <3>2
    <3> QED
      BY <1>4, <2>4, <3>1, <3>2
  <2>5. Sighted(q, n)
    BY <1>5, <2>2, <2>3, <2>4 DEF Sighted
  <2> QED
    BY <2>5 DEF q
<1> QED
  BY <1>6, <1>7, <1>8

\* Line by line.
LEMMA ReadToKeeps ==
  ASSUME LogInv, Files!LogAssumption, known # {}, NEW p \in pos + 1 .. Files!End(file)
  PROVE Sighted(Files!ReadTo(p), p)
<1> DEFINE r == [held |-> pending, cand |-> cand, gone |-> logGone]
           F(f) == [n \in pos..p |-> IF n = pos THEN r ELSE Files!Emit(f[n - 1], n)]
<1>1. InFiles(file, pos, backlog, known)
  BY DEF LogInv, ReaderInv
<1>2. /\ pos \in Nat /\ p \in Nat /\ pos <= p
      /\ \A n \in pos + 1..p : n \in Files!Lines /\ n \in Nat
  <2>1. pos \in Nat /\ file \in 1..Len(cuts)
    BY <1>1 DEF LogInv, WriterInv, InFiles
  <2>2. /\ Files!End(file) \in Nat /\ Files!End(file) <= written
        /\ written <= Len(Log) /\ written \in Nat
    BY <2>1, EndIs DEF LogInv, WriterInv
  <2>3. Files!Lines = 1..Len(Log) /\ Len(Log) \in Nat
    BY DEF Files!LogAssumption, Files!Lines
  <2> QED
    BY <2>1, <2>2, <2>3
<1>3. Sighted(r, pos)
  BY DEF LogInv, ToldInv, HeldInv, Settles, Sighted
<1> HIDE DEF r
<1>4. \E h : h = F(h)
  <2>1. PICK h : Emits(h, r, pos, p)
    BY <1>2, EmitsExists
  <2>2. h = F(h)
    BY <2>1 DEF Emits, Emitted
  <2> QED
    BY <2>2
<1> DEFINE after == CHOOSE f : f = F(f)
<1>5. after = F(after)
  BY <1>4
<1>6. Files!ReadTo(p) = after[p]
  BY DEF Files!ReadTo, r
<1> HIDE DEF after
<1> DEFINE U == {n \in pos..p : Sighted(after[n], n)}
<1>7. pos \in U
  BY <1>2, <1>3, <1>5
<1>8. ASSUME NEW n \in pos + 1..p, n - 1 \in U PROVE n \in U
  <2>1. n \in pos..p /\ n # pos
    BY <1>2
  <2>2. after[n] = Files!Emit(after[n - 1], n)
    BY <1>5, <2>1
  <2>3. Sighted(after[n - 1], n - 1) /\ n \in Files!Lines
    BY <1>2, <1>8
  <2>4. Sighted(after[n], n)
    BY <2>2, <2>3, EmitKeeps DEF LogInv
  <2> QED
    BY <2>1, <2>4
<1>9. U \in SUBSET (pos..p)
  OBVIOUS
<1>10. p \in pos..p
  BY <1>2
<1> HIDE DEF U
<1>11. U = pos..p
  BY <1>2, <1>7, <1>8, <1>9, FromTo
<1> QED
  BY <1>6, <1>10, <1>11 DEF U

LEMMA ReadStep ==
  ASSUME LogInv, Files!LogAssumption, Files!Read
  PROVE LogInv'
<1>1. /\ UNCHANGED <<written, cuts, file, open, known, backlog, restored, logSeen, recent, ckpt,
                     logTold, since>>
      /\ at = "read"
  BY DEF Files!Read, Files!log
<1>2. known # {} /\ ckpt # None /\ restored /\ InFiles(file, pos, backlog, known)
  BY <1>1 DEF LogInv, ReaderInv
<1>3. /\ Sighted([held |-> pending', cand |-> cand', gone |-> logGone'], pos')
      /\ pos' \in Nat /\ pos <= pos' /\ pos' <= Files!End(file)
  <2>1. pos \in Nat /\ pos <= Files!End(file) /\ file \in 1..Len(cuts)
    BY <1>2 DEF LogInv, WriterInv, InFiles
  <2>2. CASE UNCHANGED <<pos, pending, cand, logGone>>
    BY <1>2, <2>1, <2>2 DEF LogInv, ToldInv, HeldInv, Settles, Sighted
  <2>3. CASE \E p \in pos + 1 .. Files!End(file) :
               /\ pos' = p /\ pending' = Files!ReadTo(p).held /\ cand' = Files!ReadTo(p).cand
               /\ logGone' = Files!ReadTo(p).gone
    <3>1. PICK p \in pos + 1 .. Files!End(file) :
               /\ pos' = p /\ pending' = Files!ReadTo(p).held /\ cand' = Files!ReadTo(p).cand
               /\ logGone' = Files!ReadTo(p).gone
      BY <2>3
    <3>2. Sighted(Files!ReadTo(p), p)
      BY <1>2, ReadToKeeps
    <3>3. Files!ReadTo(p) = [held |-> pending', cand |-> cand', gone |-> logGone']
      BY <3>1, <3>2 DEF Sighted
    <3>4. Files!End(file) \in Nat
      BY <2>1, EndIs DEF LogInv
    <3>5. pos' \in Nat /\ pos <= pos' /\ pos' <= Files!End(file)
      BY <2>1, <3>1, <3>4
    <3> QED
      BY <3>1, <3>2, <3>3, <3>5
  <2> QED
    BY <2>2, <2>3 DEF Files!Read
<1>4. /\ logGone \subseteq logGone'
      /\ \A e \in pending' : e.line \in Files!Lines /\ e.group = Files!Group(e.line)
      /\ \A i \in Files!Messages : since < i /\ i <= pos' =>
           Files!Told(i) \/ i \in logGone' \/ \E e \in pending' : e.group = Files!Group(i)
  BY <1>3 DEF Sighted
<1>5. WriterInv' /\ ToldInv'
  BY <1>1, <1>4 DEF LogInv, WriterInv, ToldInv
<1>6. ReaderInv'
  <2>1. InFiles(file', pos', backlog', known')
    <3>1. cuts[file] \in Nat
      BY <1>2, EndIs DEF LogInv, WriterInv, InFiles
    <3>2. cuts[file] <= pos' /\ pos' \in Nat /\ pos' <= Files!End(file)
      BY <1>2, <1>3, <3>1 DEF InFiles
    <3> QED
      BY <1>1, <1>2, <3>2 DEF InFiles
  <2> QED
    BY <1>1, <1>2, <2>1, ReaderMoves
<1>7. CursorShape'
  BY <1>1, PlacesStay DEF LogInv, CursorShape
<1>8. \A i : Files!Told(i) => Files!Told(i)'
  BY <1>1 DEF Files!Told
<1>9. HeldInv'
  BY <1>1, <1>4, <1>8 DEF HeldInv, Settles
<1>10. CursorInv'
  BY <1>1, <1>2, <1>4, <1>8, CursorFollows
<1> QED
  BY <1>5, <1>6, <1>7, <1>9, <1>10 DEF LogInv

LEMMA LogStart == Files!Init => LogInv
<1> SUFFICES ASSUME Files!Init PROVE LogInv
  OBVIOUS
<1>1. /\ written = 0 /\ cuts = <<0>> /\ at = "attach" /\ file = 0 /\ open = FALSE
      /\ known = {} /\ backlog = <<>> /\ restored = FALSE /\ cand = 0 /\ pending = {}
      /\ logSeen = {} /\ recent = {} /\ ckpt = None /\ since = 0
      /\ logTold = [x \in Files!Exacts |-> 0]
  BY DEF Files!Init
<1>2. Len(Log) \in Nat
  BY IntakeAssumption DEF Files!LogAssumption
<1>3. WriterInv
  BY <1>1, <1>2 DEF WriterInv
<1>4. ReaderInv /\ CursorShape /\ ToldInv /\ HeldInv /\ CursorInv
  BY <1>1 DEF ReaderInv, CursorShape, ToldInv, HeldInv, CursorInv
<1> QED
  BY <1>3, <1>4 DEF LogInv

LEMMA LogStep == LogInv /\ [Files!Next]_logVars => LogInv'
<1>1. Files!LogAssumption
  BY IntakeAssumption
<1>2. ASSUME LogInv, UNCHANGED logVars PROVE LogInv'
  <2>1. UNCHANGED <<written, cuts, at, file, open, pos, known, backlog, restored, cand, pending,
                    logSeen, recent, ckpt, logTold, since, logGone>>
    BY <1>2 DEF logVars
  <2>2. WriterInv' /\ CursorShape'
    BY <1>2, <2>1, PlacesStay DEF LogInv, WriterInv, CursorShape
  <2>3. ReaderInv'
    BY <1>2, <2>1, PlacesStay DEF LogInv, ReaderInv
  <2>4. ToldInv'
    BY <1>2, <2>1 DEF LogInv, ToldInv
  <2>5. HeldInv' /\ CursorInv'
    BY <1>2, <2>1 DEF LogInv, HeldInv, CursorInv, Settles, Files!Told
  <2> QED
    BY <2>2, <2>3, <2>4, <2>5 DEF LogInv
<1>3. ASSUME LogInv, Files!Next PROVE LogInv'
  <2>1. CASE Files!Write \/ Files!Rotate
    BY <1>1, <1>3, <2>1, GrowStep
  <2>2. CASE Files!Attach
    BY <1>1, <1>3, <2>2, LogAttachStep
  <2>3. CASE Files!Stay
    BY <1>1, <1>3, <2>3, StayStep
  <2>4. CASE Files!Switch
    BY <1>1, <1>3, <2>4, SwitchStep
  <2>5. CASE Files!SwitchFails
    BY <1>3, <2>5, SwitchFailsStep
  <2>6. CASE Files!Read
    BY <1>1, <1>3, <2>6, ReadStep
  <2>7. CASE Files!ReadFails
    BY <1>3, <2>7, ReadFailsStep
  <2>8. CASE Files!Forget
    BY <1>3, <2>8, ForgetStep
  <2>9. ASSUME NEW due \in SUBSET pending, NEW failing \in SUBSET due, Files!Flush(due, failing)
        PROVE LogInv'
    BY <1>1, <1>3, <2>9, FlushStepOfLog
  <2>10. CASE Files!Crash
    BY <1>3, <2>10, CrashStep
  <2>11. CASE Files!Stop
    BY <1>1, <1>3, <2>11, StopStep
  <2> QED
    BY <1>3, <2>1, <2>2, <2>3, <2>4, <2>5, <2>6, <2>7, <2>8, <2>9, <2>10, <2>11 DEF Files!Next
<1> QED
  BY <1>2, <1>3

\* The file a written line is in.
LEMMA FileOfLine ==
  ASSUME WriterInv, NEW i \in Nat, 0 < i, i <= written
  PROVE /\ Files!FileOf(i) \in 1..Len(cuts)
        /\ cuts[Files!FileOf(i)] < i /\ i <= Files!End(Files!FileOf(i))
<1> DEFINE last == Len(cuts)
<1>1. /\ last \in Nat \ {0} /\ DOMAIN cuts = 1..last /\ cuts[1] = 0
      /\ \A h \in 1..last : cuts[h] \in Nat
  BY DEF WriterInv
<1> DEFINE T == {g \in 1..last : cuts[g] < i}
<1>2. \E f \in 1..last : cuts[f] < i /\ i <= Files!End(f)
  <2> DEFINE W == {n \in Nat : \E g \in T : n = last - g}
  <2>1. 1 \in T
    BY <1>1
  <2>2. last - 1 \in W /\ W \in SUBSET Nat
    BY <1>1, <2>1
  <2> HIDE DEF W
  <2>3. PICK n \in W : \A m \in W : n <= m
    BY <2>2, Least
  <2>4. PICK f \in T : n = last - f
    BY <2>3 DEF W
  <2> HIDE DEF last
  <2>5. ASSUME NEW g \in T PROVE g <= f
    <3>1. last - g \in W
      BY <1>1 DEF W
    <3> QED
      BY <1>1, <2>3, <2>4, <3>1
  <2>6. f \in 1..last /\ cuts[f] < i
    BY <2>4
  <2>7. i <= Files!End(f)
    <3>1. CASE f = last
      BY <2>6, <3>1, EndIs DEF last
    <3>2. CASE f # last
      <4>1. f + 1 \in 1..last /\ Files!End(f) = cuts[f + 1]
        BY <2>6, <3>2, EndIs DEF last
      <4>2. f + 1 \notin T
        BY <1>1, <2>5, <2>6
      <4> QED
        BY <1>1, <4>1, <4>2
    <3> QED
      BY <3>1, <3>2
  <2> QED
    BY <2>6, <2>7
<1> QED
  BY <1>1, <1>2 DEF Files!FileOf, Files!Files

LEMMA CursorStays == LogInv => CursorIsBehind
<1> SUFFICES ASSUME LogInv, ckpt # None, NEW i \in Files!Messages, i <= written, i > since
             PROVE Files!Covered(i) \/ Files!Told(i) \/ i \in logGone
  BY DEF CursorIsBehind, Files!CursorIsBehind
<1>1. i \in Nat /\ 0 < i
  BY IntakeAssumption DEF Files!LogAssumption, Files!Messages, Files!Lines
<1>2. WriterInv /\ InFiles(ckpt.file, ckpt.pos, ckpt.remaining, ckpt.known)
  BY DEF LogInv, CursorShape
<1> DEFINE f == Files!FileOf(i)
           c == ckpt.file
           last == Len(cuts)
<1>3. f \in 1..last /\ cuts[f] < i /\ i <= Files!End(f)
  BY <1>1, <1>2, FileOfLine
<1>4. Files!Covered(i) <=>
        \/ f = c /\ i > ckpt.pos
        \/ f \in Files!Range(ckpt.remaining) \cup (Files!Files \ ckpt.known)
  BY DEF Files!Covered
<1> HIDE DEF f, last
<1>5. PICK n \in 1..last : ckpt.known = 1..n /\ c \in 1..n /\ ckpt.remaining = Upward(c, n)
  BY <1>2 DEF InFiles, last
<1>6. /\ last \in Nat /\ n \in Nat /\ c \in Nat /\ c <= n /\ c \in 1..last /\ f \in Nat
      /\ Files!Files = 1..last /\ ckpt.pos \in Nat /\ cuts[c] <= ckpt.pos
  BY <1>2, <1>3, <1>5 DEF WriterInv, InFiles, Files!Files, last
<1>7. Files!Range(ckpt.remaining) = c + 1 .. n
  BY <1>5, <1>6, UpwardIs, SameOperators
<1>8. CASE i <= ckpt.pos
  BY <1>8 DEF LogInv, CursorInv
<1>9. CASE ~ (i <= ckpt.pos)
  <2>1. i > ckpt.pos
    BY <1>1, <1>6, <1>9
  <2>2. CASE f < c
    <3>1. Files!End(f) <= cuts[c]
      <4>1. f # last /\ f + 1 \in 1..last /\ (f + 1 = c \/ f + 1 < c)
        BY <1>3, <1>6, <2>2
      <4>2. Files!End(f) = cuts[f + 1]
        BY <1>2, <1>3, <4>1, EndIs DEF last
      <4>3. /\ \A h \in 1..last : cuts[h] \in Nat
            /\ \A g, h \in 1..last : g < h => cuts[g] < cuts[h]
        BY <1>2, FilesFollow DEF last
      <4>4. cuts[f + 1] \in Nat /\ cuts[c] \in Nat /\ (f + 1 < c => cuts[f + 1] < cuts[c])
        <5>1. f + 1 \in 1..last /\ c \in 1..last
          BY <1>6, <4>1
        <5> HIDE DEF c
        <5> QED
          BY <4>3, <5>1
      <4> QED
        BY <4>1, <4>2, <4>4
    <3>2. Files!End(f) \in Nat /\ cuts[c] \in Nat
      BY <1>2, <1>3, <1>6, EndIs DEF last
    <3> QED
      BY <1>1, <1>3, <1>6, <2>1, <3>1, <3>2
  <2>3. CASE f = c
    BY <1>4, <2>1, <2>3
  <2>4. CASE f > c
    <3>1. f \in c + 1 .. n \/ f \in Files!Files \ ckpt.known
      BY <1>3, <1>5, <1>6, <2>4
    <3> QED
      BY <1>4, <1>7, <3>1
  <2> QED
    BY <1>6, <2>2, <2>3, <2>4
<1> QED
  BY <1>8, <1>9

\* Of the lines written since the watcher first looked, none that the cursor on disk has passed
\* is lost: its message has reached the agent, or was a known accident's (bridge/watcher.py:
\* _save_checkpoints, "only after every parsed event reached its durable queue").
THEOREM NothingPassedIsLost == IntakeSpec => []CursorIsBehind
<1>1. IntakeInit => LogInv
  BY LogStart DEF IntakeInit
<1>2. LogInv /\ [IntakeNext]_intakeVars => LogInv'
  <2>1. [IntakeNext]_intakeVars => [Files!Next]_logVars
    BY DEF IntakeNext, intakeVars, CdpPart, SwitchPart
  <2> QED
    BY <2>1, LogStep
<1> QED
  BY <1>1, <1>2, CursorStays, PTL DEF IntakeSpec

-----------------------------------------------------------------------------
(* LogCapture: once in a life.                                              *)

\* An event was handed over at most once in each life that ended, and in this one only when
\* it is among those seen.
LifeInv ==
  /\ crashes \in Nat /\ logTold \in [Files!Exacts -> Nat]
  /\ \A x \in Files!Exacts : logTold[x] <= crashes + 1
  /\ \A x \in Files!Exacts \ logSeen : logTold[x] <= crashes

LEMMA TellingOnce ==
  ASSUME LifeInv, NEW keys, \A x \in keys : x \notin logSeen,
         logTold' = [x \in Files!Exacts |-> IF x \in keys THEN logTold[x] + 1 ELSE logTold[x]]
  PROVE /\ logTold' \in [Files!Exacts -> Nat]
        /\ \A x \in Files!Exacts : logTold'[x] <= crashes + 1
        /\ \A x \in Files!Exacts \ (logSeen \cup keys) : logTold'[x] <= crashes
<1>1. /\ crashes \in Nat
      /\ \A x \in Files!Exacts : logTold[x] \in Nat /\ logTold[x] <= crashes + 1
      /\ \A x \in Files!Exacts \ logSeen : logTold[x] <= crashes
  BY DEF LifeInv
<1> QED
  BY <1>1

LEMMA LifeStart == Files!Init => LifeInv
  BY DEF Files!Init, LifeInv

LEMMA HandOverOnce ==
  ASSUME LifeInv, crashes' = crashes, NEW due, NEW failing, Files!HandOver(due, failing)
  PROVE LifeInv'
<1> DEFINE new == {e \in due \ failing : ~Files!Duplicate(e.line)}
           keys == {Log[e.line].exact : e \in new}
<1>1. /\ logTold' = [x \in Files!Exacts |-> IF x \in keys THEN logTold[x] + 1 ELSE logTold[x]]
      /\ logSeen' = logSeen \cup keys
  BY DEF Files!HandOver
<1>2. \A x \in keys : x \notin logSeen
  BY DEF Files!Duplicate
<1> HIDE DEF new, keys
<1>3. /\ logTold' \in [Files!Exacts -> Nat]
      /\ \A x \in Files!Exacts : logTold'[x] <= crashes + 1
      /\ \A x \in Files!Exacts \ (logSeen \cup keys) : logTold'[x] <= crashes
  BY <1>1, <1>2, TellingOnce, Zenon
<1> QED
  BY <1>1, <1>3 DEF LifeInv

LEMMA StopOnce ==
  ASSUME LifeInv, Files!Stop
  PROVE LifeInv'
<1> DEFINE keys == {Log[e.line].exact : e \in {d \in pending : ~Files!Duplicate(d.line)}}
<1>1. /\ logTold' = [x \in Files!Exacts |-> IF x \in keys THEN logTold[x] + 1 ELSE logTold[x]]
      /\ crashes' = crashes + 1 /\ logSeen' = {}
  BY DEF Files!Stop, Files!Forgotten
<1>2. \A x \in keys : x \notin logSeen
  BY DEF Files!Duplicate
<1> HIDE DEF keys
<1>3. /\ logTold' \in [Files!Exacts -> Nat]
      /\ \A x \in Files!Exacts : logTold'[x] <= crashes + 1
  BY <1>1, <1>2, TellingOnce, Zenon
<1>4. \A x \in Files!Exacts : logTold'[x] \in Nat
  BY <1>3
<1>5. crashes \in Nat
  BY DEF LifeInv
<1>6. \A x \in Files!Exacts : logTold'[x] <= crashes' + 1 /\ logTold'[x] <= crashes'
  BY <1>1, <1>3, <1>4, <1>5
<1> QED
  BY <1>1, <1>3, <1>5, <1>6 DEF LifeInv

LEMMA LifeStep == LifeInv /\ [Files!Next]_logVars => LifeInv'
<1>1. ASSUME LifeInv, UNCHANGED <<logTold, logSeen, crashes>> PROVE LifeInv'
  BY <1>1 DEF LifeInv
<1>2. ASSUME LifeInv, Files!Next PROVE LifeInv'
  <2>1. CASE Files!Write \/ Files!Rotate \/ Files!Attach \/ Files!Stay \/ Files!Read
               \/ Files!ReadFails \/ Files!Forget
    <3>1. UNCHANGED <<logTold, logSeen, crashes>>
      BY <2>1 DEF Files!Write, Files!Rotate, Files!Attach, Files!Stay, Files!Read,
                  Files!ReadFails, Files!Forget, Files!memory, Files!reader
    <3> QED
      BY <1>1, <1>2, <3>1
  <2>2. CASE Files!Switch
    <3>1. Files!HandOver(pending, {}) /\ crashes' = crashes
      BY <2>2 DEF Files!Switch
    <3> QED
      BY <1>2, <3>1, HandOverOnce
  <2>3. CASE Files!SwitchFails
    <3>1. (\E e \in pending : Files!HandOver(pending, {e})) /\ crashes' = crashes
      BY <2>3 DEF Files!SwitchFails
    <3> QED
      BY <1>2, <3>1, HandOverOnce
  <2>4. ASSUME NEW due \in SUBSET pending, NEW failing \in SUBSET due, Files!Flush(due, failing)
        PROVE LifeInv'
    <3>1. Files!HandOver(due, failing) /\ crashes' = crashes
      BY <2>4 DEF Files!Flush
    <3> QED
      BY <1>2, <3>1, HandOverOnce
  <2>5. CASE Files!Crash
    <3>1. crashes' = crashes + 1 /\ logTold' = logTold /\ logSeen' = {}
      BY <2>5 DEF Files!Crash, Files!Forgotten
    <3>2. \A x \in Files!Exacts : logTold[x] \in Nat /\ logTold[x] <= crashes + 1
      BY <1>2 DEF LifeInv
    <3> QED
      BY <1>2, <3>1, <3>2 DEF LifeInv
  <2>6. CASE Files!Stop
    BY <1>2, <2>6, StopOnce
  <2> QED
    BY <1>2, <2>1, <2>2, <2>3, <2>4, <2>5, <2>6 DEF Files!Next
<1>3. UNCHANGED logVars => UNCHANGED <<logTold, logSeen, crashes>>
  BY DEF logVars
<1> QED
  BY <1>1, <1>2, <1>3

\* A process hands an event over once, however often its lines are read or its callback fails
\* (bridge/watcher.py: _flush_pending, seen_keys).
THEOREM OnceInALife == IntakeSpec => []OncePerLife
<1>1. IntakeInit => LifeInv
  BY LifeStart DEF IntakeInit
<1>2. LifeInv /\ [IntakeNext]_intakeVars => LifeInv'
  <2>1. [IntakeNext]_intakeVars => [Files!Next]_logVars
    BY DEF IntakeNext, intakeVars, CdpPart, SwitchPart
  <2> QED
    BY <2>1, LifeStep
<1>3. LifeInv => OncePerLife
  BY DEF LifeInv, OncePerLife, Files!OncePerLife
<1> QED
  BY <1>1, <1>2, <1>3, PTL DEF IntakeSpec
=============================================================================
