---------------------------- MODULE UplinkProofs ----------------------------
(***************************************************************************)
(* Theorems about Uplink, for any events, copies, batches and uploaders,   *)
(* any number of faults, and any connection:                               *)
(*   - by HTTP (EventUplink): what is queued is on file, a message the     *)
(*     source was told to forget is on file or answered, and no two        *)
(*     uploads carry the same event;                                       *)
(*   - over the socket (CenterWs): what leaves the queue is kept, and an   *)
(*     acknowledgement finds the upload that waits for it.                 *)
(***************************************************************************)
EXTENDS Uplink, FiniteSetTheorems, WellFoundedInduction, TLAPS

\* What the queue's variables are.
QueueTypes ==
  /\ offered \subseteq Events /\ returned \subseteq Events
  /\ pending \in Seq(Events) /\ file \subseteq Events /\ IsFiniteSet(file)
  /\ recent \in [Messages -> Events \cup {None}]
  /\ errors \in Nat

RecentIsCopy == \A m \in Messages : recent[m] # None => Message[recent[m]] = m

\* A copy of the message waits, or has its answer.
Held(m) == \E d \in Events : Message[d] = m /\ (d \in Range(pending) \/ center[d] # "none")

\* That is so of every message on file, given up by its source, or remembered.
MessagesAreHeld ==
  errors = 0 =>
    /\ \A e \in file \cup returned : Held(Message[e])
    /\ \A m \in seen : Held(m)
    /\ \A m \in Messages : recent[m] # None => Held(m)

QueueInv == QueueTypes /\ RecentIsCopy /\ QueuedIsOnFile /\ MessagesAreHeld

\* On the socket: an upload is a record, ...
CallShape ==
  call = [u \in WsUploaders |->
            [pc |-> call[u].pc, batch |-> call[u].batch, rows |-> call[u].rows]]

\* ... and what is accepted, on its way back or in a batch's rows, is stored.
AckIsTrue ==
  /\ \E Frames : back \in Seq(Frames)
  /\ \A i \in 1..Len(back) :
       back[i].type = "ack" /\ back[i].status = "accepted" => back[i].event \in stored

RowsAreTrue ==
  \A u \in WsUploaders : \A r \in call[u].rows :
    /\ r.status \in {"accepted", "rejected", "retry"}
    /\ r.status = "accepted" => r.event \in stored

SocketInv == CallShape /\ AckIsTrue /\ RowsAreTrue /\ DequeuedIsKept

-----------------------------------------------------------------------------
(* Filters of sequences.  What a recursive function gives is shown by the  *)
(* least index at which it would not.                                      *)

\* A set of numbers has a least one.
LEMMA Least ==
  ASSUME NEW T \in SUBSET Nat, T # {}
  PROVE \E x \in T : \A y \in T : x <= y
<1> DEFINE R == OpToRel(<, Nat)
<1>1. IsWellFoundedOn(R, Nat)
  BY NatLessThanWellFounded
<1>2. \A x, y \in T : y < x => <<y, x>> \in R
  BY DEF OpToRel
<1> HIDE DEF R
<1>3. PICK x \in T : \A y \in T : <<y, x>> \notin R
  BY <1>1, WFMin
<1>4. \A y \in T : ~ (y < x) /\ y \in Nat /\ x \in Nat
  BY <1>2, <1>3
<1>5. \A y \in T : x <= y
  BY <1>4
<1> QED
  BY <1>5

\* What follows from the number before it holds of all up to n.
LEMMA UpTo ==
  ASSUME NEW n \in Nat, NEW T \in SUBSET (0..n), 0 \in T,
         \A m \in 1..n : m - 1 \in T => m \in T
  PROVE T = 0..n
<1>1. SUFFICES ASSUME (0..n) \ T # {} PROVE FALSE
  OBVIOUS
<1>2. PICK m \in (0..n) \ T : \A k \in (0..n) \ T : m <= k
  BY <1>1, Least, (0..n) \ T \in SUBSET Nat
<1>3. m \in 1..n /\ m - 1 \in 0..n /\ ~ (m <= m - 1)
  BY <1>2
<1>4. m - 1 \in T
  BY <1>2, <1>3
<1> QED
  BY <1>2, <1>3, <1>4

\* One step of Among.
Sifted(f, s, S, n) ==
  IF n = 0 THEN <<>> ELSE IF s[n] \in S THEN Append(f[n - 1], s[n]) ELSE f[n - 1]

\* f gives them up to n.
Sifts(f, X, s, S, n) ==
  f \in [0..n -> Seq(X)] /\ \A i \in 0..n : f[i] = Sifted(f, s, S, i)

LEMMA SiftExists ==
  ASSUME NEW X, NEW s \in Seq(X), NEW S
  PROVE \E f : Sifts(f, X, s, S, Len(s))
<1> DEFINE T == {m \in 0..Len(s) : \E f : Sifts(f, X, s, S, m)}
<1>1. 0 \in T
  <2> DEFINE f == [i \in 0..0 |-> <<>>]
  <2>1. Sifts(f, X, s, S, 0)
    BY DEF Sifts, Sifted
  <2> HIDE DEF f
  <2> QED
    BY <2>1
<1>2. ASSUME NEW m \in 1..Len(s), m - 1 \in T PROVE m \in T
  <2>1. PICK f : Sifts(f, X, s, S, m - 1)
    BY <1>2
  <2> DEFINE g == [i \in 0..m |-> IF i < m THEN f[i]
                    ELSE IF s[m] \in S THEN Append(f[m - 1], s[m]) ELSE f[m - 1]]
  <2>2. g \in [0..m -> Seq(X)]
    BY <2>1 DEF Sifts
  <2>3. ASSUME NEW i \in 0..m PROVE g[i] = Sifted(g, s, S, i)
    <3>1. CASE i = 0
      BY <2>1, <3>1 DEF Sifts, Sifted
    <3>2. CASE i # 0 /\ i < m
      <4>1. g[i] = f[i] /\ g[i - 1] = f[i - 1] /\ i \in 0..(m - 1)
        BY <3>2
      <4> QED
        BY <2>1, <3>2, <4>1 DEF Sifts, Sifted
    <3>3. CASE i # 0 /\ i = m
      <4>1. g[i - 1] = f[i - 1]
        BY <3>3
      <4> QED
        BY <3>3, <4>1 DEF Sifted
    <3> QED
      BY <3>1, <3>2, <3>3
  <2>4. Sifts(g, X, s, S, m)
    BY <2>2, <2>3 DEF Sifts
  <2> HIDE DEF g
  <2> QED
    BY <2>4
<1> HIDE DEF T
<1>3. T = 0..Len(s)
  <2>1. T \in SUBSET (0..Len(s)) /\ Len(s) \in Nat
    BY DEF T
  <2> QED
    BY <1>1, <1>2, <2>1, UpTo
<1>4. Len(s) \in T
  BY <1>3
<1> QED
  BY <1>4 DEF T

\* Among is the last of these steps.
LEMMA AmongIsSifted ==
  ASSUME NEW X, NEW s \in Seq(X), NEW S
  PROVE \E f : Sifts(f, X, s, S, Len(s)) /\ Among(s, S) = f[Len(s)]
<1>1. PICK h : Sifts(h, X, s, S, Len(s))
  BY SiftExists
<1> DEFINE F(f) == [n \in 0..Len(s) |-> Sifted(f, s, S, n)]
<1>2. h = F(h)
  BY <1>1 DEF Sifts
<1> DEFINE f == CHOOSE f : f = F(f)
<1>3. f = F(f)
  BY <1>2
<1>4. Among(s, S) = f[Len(s)]
  BY DEF Among, Sifted
<1> HIDE DEF f
<1>5. f \in [0..Len(s) -> Seq(X)]
  <2> DEFINE T == {m \in 0..Len(s) : f[m] \in Seq(X)}
  <2>1. 0 \in T
    BY <1>3 DEF Sifted
  <2>2. ASSUME NEW m \in 1..Len(s), m - 1 \in T PROVE m \in T
    <3>1. m \in 0..Len(s) /\ m # 0 /\ s[m] \in X /\ f[m - 1] \in Seq(X)
      BY <2>2
    <3>2. f[m] = Sifted(f, s, S, m)
      BY <1>3, <3>1
    <3>3. f[m] \in Seq(X)
      BY <3>1, <3>2 DEF Sifted
    <3> QED
      BY <3>1, <3>3
  <2>3. T \in SUBSET (0..Len(s)) /\ Len(s) \in Nat
    OBVIOUS
  <2>4. T = 0..Len(s)
    <3> HIDE DEF T
    <3> QED
      BY <2>1, <2>2, <2>3, UpTo
  <2> QED
    BY <1>3, <2>4
<1>6. Sifts(f, X, s, S, Len(s))
  BY <1>3, <1>5 DEF Sifts
<1> QED
  BY <1>4, <1>6

LEMMA RangeAppend ==
  ASSUME NEW X, NEW s \in Seq(X), NEW x \in X
  PROVE Append(s, x) \in Seq(X) /\ Range(Append(s, x)) = Range(s) \cup {x}
<1>1. \A i \in 1..Len(s) : Append(s, x)[i] = s[i]
  OBVIOUS
<1>2. Append(s, x)[Len(s) + 1] = x /\ DOMAIN Append(s, x) = 1..(Len(s) + 1)
  OBVIOUS
<1>3. DOMAIN s = 1..Len(s) /\ 1..(Len(s) + 1) = 1..Len(s) \cup {Len(s) + 1}
  OBVIOUS
<1> QED
  BY <1>1, <1>2, <1>3 DEF Range

LEMMA RangeConcat ==
  ASSUME NEW X, NEW s \in Seq(X), NEW t \in Seq(X)
  PROVE s \o t \in Seq(X) /\ Range(s \o t) = Range(s) \cup Range(t)
<1>1. DOMAIN (s \o t) = 1..(Len(s) + Len(t)) /\ DOMAIN s = 1..Len(s) /\ DOMAIN t = 1..Len(t)
  OBVIOUS
<1>2. \A i \in DOMAIN s : i \in DOMAIN (s \o t) /\ (s \o t)[i] = s[i]
  BY <1>1
<1>3. \A i \in DOMAIN t : i + Len(s) \in DOMAIN (s \o t) /\ (s \o t)[i + Len(s)] = t[i]
  BY <1>1
<1>4. \A i \in DOMAIN (s \o t) : i \in DOMAIN s \/ \E j \in DOMAIN t : i = j + Len(s)
  <2> SUFFICES ASSUME NEW i \in DOMAIN (s \o t), i \notin DOMAIN s
               PROVE \E j \in DOMAIN t : i = j + Len(s)
    OBVIOUS
  <2>1. i - Len(s) \in DOMAIN t /\ i = (i - Len(s)) + Len(s)
    BY <1>1
  <2> QED
    BY <2>1
<1>5. s \o t \in Seq(X)
  OBVIOUS
<1>6. ASSUME NEW x \in Range(s) PROVE x \in Range(s \o t)
  BY <1>2 DEF Range
<1>7. ASSUME NEW x \in Range(t) PROVE x \in Range(s \o t)
  BY <1>3 DEF Range
<1>8. ASSUME NEW x \in Range(s \o t) PROVE x \in Range(s) \cup Range(t)
  BY <1>2, <1>3, <1>4 DEF Range
<1> QED
  BY <1>5, <1>6, <1>7, <1>8

\* Among keeps the elements of S and no others.
LEMMA RangeAmong ==
  ASSUME NEW X, NEW s \in Seq(X), NEW S
  PROVE Among(s, S) \in Seq(X) /\ Range(Among(s, S)) = Range(s) \cap S
<1>1. PICK f : Sifts(f, X, s, S, Len(s)) /\ Among(s, S) = f[Len(s)]
  BY AmongIsSifted
<1> DEFINE T == {m \in 0..Len(s) : Range(f[m]) = {s[i] : i \in 1..m} \cap S}
<1>2. 0 \in T
  BY <1>1 DEF Sifts, Sifted, Range
<1>3. ASSUME NEW m \in 1..Len(s), m - 1 \in T PROVE m \in T
  <2>1. f[m] = Sifted(f, s, S, m) /\ m # 0
    BY <1>1 DEF Sifts
  <2>2. {s[i] : i \in 1..m} = {s[i] : i \in 1..(m - 1)} \cup {s[m]}
    OBVIOUS
  <2>3. f[m - 1] \in Seq(X) /\ s[m] \in X
    BY <1>1 DEF Sifts
  <2>4. Range(Append(f[m - 1], s[m])) = Range(f[m - 1]) \cup {s[m]}
    BY <2>3, RangeAppend
  <2>5. Range(f[m - 1]) = {s[i] : i \in 1..(m - 1)} \cap S
    BY <1>3
  <2>6. Range(f[m]) = {s[i] : i \in 1..m} \cap S
    BY <2>1, <2>2, <2>4, <2>5 DEF Sifted
  <2> QED
    BY <2>6
<1>4. T \in SUBSET (0..Len(s)) /\ Len(s) \in Nat
  OBVIOUS
<1>5. T = 0..Len(s)
  <2> HIDE DEF T
  <2> QED
    BY <1>2, <1>3, <1>4, UpTo
<1>6. {s[i] : i \in 1..Len(s)} = Range(s)
  <2>1. DOMAIN s = 1..Len(s)
    OBVIOUS
  <2> QED
    BY <2>1 DEF Range
<1>7. Len(s) \in T
  <2> HIDE DEF T
  <2> QED
    BY <1>4, <1>5
<1>8. Range(f[Len(s)]) = {s[i] : i \in 1..Len(s)} \cap S /\ f[Len(s)] \in Seq(X)
  BY <1>1, <1>7 DEF Sifts
<1> QED
  BY <1>1, <1>6, <1>8

LEMMA RangeWithout ==
  ASSUME NEW X, NEW s \in Seq(X), NEW S
  PROVE Without(s, S) \in Seq(X) /\ Range(Without(s, S)) = Range(s) \ S
BY RangeAmong DEF Without

\* A finite set, put into a sequence in whatever order, has lost nothing.
LEMMA RangeOfSet ==
  ASSUME NEW S, IsFiniteSet(S), NEW s \in SetToSeqs(S)
  PROVE s \in Seq(S) /\ Range(s) = S
<1> DEFINE D == 1..Cardinality(S)
<1>1. Cardinality(S) \in Nat
  BY FS_CardinalityType
<1>2. s \in [D -> S] /\ \A i, j \in D : i # j => s[i] # s[j]
  BY DEF SetToSeqs
<1>3. s \in Injection(D, S)
  BY <1>2 DEF Injection, IsInjective
<1>4. Cardinality(D) = Cardinality(S)
  BY <1>1, FS_Interval
<1>5. s \in Surjection(D, S)
  BY <1>3, <1>4, FS_Injection
<1>6. s \in Seq(S)
  BY <1>1, <1>2
<1> QED
  BY <1>2, <1>5, <1>6 DEF Surjection, Range

LEMMA FiniteRange ==
  ASSUME NEW X, NEW s \in Seq(X)
  PROVE IsFiniteSet(Range(s))
<1>1. s \in Surjection(1..Len(s), Range(s)) /\ Len(s) \in Nat
  BY DEF Surjection, Range
<1>2. ExistsSurjection(1..Len(s), Range(s))
  BY <1>1 DEF ExistsSurjection
<1> QED
  BY <1>1, <1>2, FS_NatSurjection

-----------------------------------------------------------------------------
(* By HTTP.                                                                *)

\* The append, as it succeeds or fails.
LEMMA EnqueueDoes ==
  ASSUME QueueTypes, QueuedIsOnFile, NEW e \in Events,
         NEW queue \in Seq(Events), Range(queue) \subseteq Range(pending), Enqueue(e, queue)
  PROVE /\ pending' \in Seq(Events) /\ file' \subseteq Events /\ IsFiniteSet(file')
        /\ returned' \subseteq Events /\ errors' \in Nat /\ QueuedIsOnFile'
        /\ errors' = 0 =>
             /\ errors = 0 /\ Range(pending') = Range(queue) \cup {e}
             /\ file' \subseteq file \cup {e} /\ returned' = returned \cup {e}
<1>1. Append(queue, e) \in Seq(Events) /\ Range(Append(queue, e)) = Range(queue) \cup {e}
  BY RangeAppend
<1>2. CASE pending' = Append(queue, e) /\ file' = file \cup {e} /\ Return(e) /\ UNCHANGED errors
  <2>1. IsFiniteSet(file')
    BY <1>2, FS_AddElement DEF QueueTypes
  <2> QED
    BY <1>1, <1>2, <2>1 DEF QueueTypes, QueuedIsOnFile, Return
<1>3. CASE /\ pending' = Append(queue, e) /\ file' = Range(pending') /\ Return(e)
           /\ UNCHANGED errors
  <2>1. IsFiniteSet(file')
    BY <1>1, <1>3, FiniteRange
  <2> QED
    BY <1>1, <1>3, <2>1 DEF QueueTypes, QueuedIsOnFile, Return
<1>4. CASE errors' = errors + 1 /\ pending' = queue /\ UNCHANGED <<file, returned>>
  BY <1>4 DEF QueueTypes, QueuedIsOnFile
<1> QED
  BY <1>2, <1>3, <1>4 DEF Enqueue

LEMMA QueueInit == Init => QueueInv
<1> SUFFICES ASSUME Init PROVE QueueInv
  OBVIOUS
<1>1. QueueTypes
  BY FS_EmptySet, UplinkAssumption DEF Init, QueueTypes
<1>2. Range(pending) = {}
  BY DEF Init, Range
<1> QED
  BY <1>1, <1>2 DEF Init, QueueInv, RecentIsCopy, QueuedIsOnFile, MessagesAreHeld

\* A capture that only answers the source.
LEMMA ReturnStep ==
  ASSUME QueueInv, NEW e \in Events, Return(e), errors = 0 => Held(Message[e]),
         UNCHANGED <<offered, pending, file, seen, recent, stale, inflight, upload, center,
                     bounds>>
  PROVE QueueInv'
<1>1. QueueTypes' /\ RecentIsCopy' /\ QueuedIsOnFile'
  BY DEF QueueInv, QueueTypes, RecentIsCopy, QueuedIsOnFile, Return, bounds
<1>2. \A m : Held(m)' <=> Held(m)
  BY DEF Held
<1> QED
  BY <1>1, <1>2 DEF QueueInv, MessagesAreHeld, Return, bounds

LEMMA QueueStep == QueueInv /\ [Next]_vars => QueueInv'
<1> SUFFICES ASSUME QueueInv, [Next]_vars PROVE QueueInv'
  OBVIOUS
<1>t. QueueTypes /\ RecentIsCopy /\ QueuedIsOnFile /\ MessagesAreHeld
  BY DEF QueueInv
<1>m. \A e \in Events : Message[e] \in Messages
  BY DEF Messages
<1>q. \A e \in Range(pending) : e \in Events
  BY <1>t DEF QueueTypes, Range
<1>h. \A e \in Range(pending) : Held(Message[e])
  BY <1>q DEF Held
<1>1. ASSUME NEW e \in offered, CaptureQueued(e) PROVE QueueInv'
  BY <1>1, <1>h, <1>t, ReturnStep DEF CaptureQueued, QueueTypes
<1>2. ASSUME NEW e \in offered, CaptureDuplicate(e) PROVE QueueInv'
  <2>1. errors = 0 => Held(Message[e])
    BY <1>2, <1>t DEF CaptureDuplicate, MessagesAreHeld
  <2> QED
    BY <1>2, <1>t, <2>1, ReturnStep DEF CaptureDuplicate, QueueTypes
<1>3. ASSUME NEW e \in offered, CaptureEcho(e) PROVE QueueInv'
  <2>1. errors = 0 => Held(Message[e])
    BY <1>3, <1>t, <1>m DEF CaptureEcho, Redundant, MessagesAreHeld, QueueTypes
  <2> QED
    BY <1>3, <1>t, <2>1, ReturnStep DEF CaptureEcho, QueueTypes
<1>4. ASSUME NEW e \in offered, CaptureIncoming(e) PROVE QueueInv'
  <2>1. e \in Events
    BY <1>t DEF QueueTypes
  <2>2. /\ pending' \in Seq(Events) /\ file' \subseteq Events /\ IsFiniteSet(file')
        /\ returned' \subseteq Events /\ errors' \in Nat /\ QueuedIsOnFile'
        /\ errors' = 0 =>
             /\ errors = 0 /\ Range(pending') = Range(pending) \cup {e}
             /\ file' \subseteq file \cup {e} /\ returned' = returned \cup {e}
    <3>1. pending \in Seq(Events) /\ Enqueue(e, pending)
      BY <1>4, <1>t DEF CaptureIncoming, QueueTypes
    <3> QED
      BY <1>t, <2>1, <3>1, EnqueueDoes
  <2>3. QueueTypes' /\ RecentIsCopy'
    BY <1>4, <1>t, <2>2 DEF CaptureIncoming, QueueTypes, RecentIsCopy
  <2>4. ASSUME errors' = 0 PROVE \A m : Held(m) => Held(m)'
    BY <1>4, <2>2, <2>4 DEF CaptureIncoming, Held
  <2>5. ASSUME errors' = 0 PROVE Held(Message[e])'
    BY <2>1, <2>2, <2>5 DEF Held
  <2>6. seen' \subseteq seen \cup {Message[e]}
    BY <1>4 DEF CaptureIncoming
  <2>7. MessagesAreHeld'
    BY <1>4, <1>t, <2>2, <2>4, <2>5, <2>6 DEF CaptureIncoming, MessagesAreHeld
  <2> QED
    BY <2>2, <2>3, <2>7 DEF QueueInv
<1>5. ASSUME NEW e \in offered, CaptureOutgoing(e) PROVE QueueInv'
  <2> DEFINE queue == Without(pending, {recent[Message[e]]})
  <2>1. e \in Events /\ Message[e] \in Messages
    BY <1>t, <1>m DEF QueueTypes
  <2>2. queue \in Seq(Events) /\ Range(queue) = Range(pending) \ {recent[Message[e]]}
    BY <1>t, RangeWithout DEF QueueTypes
  <2>3. /\ pending' \in Seq(Events) /\ file' \subseteq Events /\ IsFiniteSet(file')
        /\ returned' \subseteq Events /\ errors' \in Nat /\ QueuedIsOnFile'
        /\ errors' = 0 =>
             /\ errors = 0 /\ Range(pending') = Range(queue) \cup {e}
             /\ file' \subseteq file \cup {e} /\ returned' = returned \cup {e}
    <3>1. Enqueue(e, queue)
      BY <1>5 DEF CaptureOutgoing
    <3> HIDE DEF queue
    <3>2. Range(queue) \subseteq Range(pending)
      BY <2>2
    <3> QED
      BY <1>t, <2>1, <2>2, <3>1, <3>2, EnqueueDoes
  <2>4. recent' = [recent EXCEPT ![Message[e]] = e]
    BY <1>5 DEF CaptureOutgoing
  <2>5. QueueTypes' /\ RecentIsCopy'
    BY <1>5, <1>t, <2>1, <2>3, <2>4 DEF CaptureOutgoing, QueueTypes, RecentIsCopy
  <2>6. ASSUME errors' = 0 PROVE Held(Message[e])'
    BY <2>1, <2>3, <2>6 DEF Held
  <2>7. ASSUME errors' = 0, NEW m, Held(m) PROVE Held(m)'
    <3>1. ASSUME NEW d \in Range(pending), d \notin Range(pending')
          PROVE Message[d] = Message[e] /\ e \in Range(pending')
      <4>1. d = recent[Message[e]] /\ d \in Events
        BY <1>q, <2>2, <2>3, <2>7, <3>1
      <4>2. d # None
        BY <4>1, UplinkAssumption
      <4> QED
        BY <1>t, <2>1, <2>3, <2>7, <4>1, <4>2 DEF RecentIsCopy
    <3>2. center' = center
      BY <1>5 DEF CaptureOutgoing
    <3> QED
      BY <2>1, <2>7, <3>1, <3>2 DEF Held
  <2>8. MessagesAreHeld'
    <3> SUFFICES ASSUME errors' = 0
                 PROVE /\ \A d \in file' \cup returned' : Held(Message[d])'
                       /\ \A m \in seen' : Held(m)'
                       /\ \A m \in Messages : recent'[m] # None => Held(m)'
      BY DEF MessagesAreHeld
    <3>1. errors = 0 /\ file' \subseteq file \cup {e} /\ returned' = returned \cup {e} /\ seen' = seen
      BY <1>5, <2>3 DEF CaptureOutgoing
    <3>2. \A d \in file' \cup returned' : Held(Message[d])'
      BY <1>t, <2>6, <2>7, <3>1 DEF MessagesAreHeld
    <3>3. \A m \in seen' : Held(m)'
      BY <1>t, <2>7, <3>1 DEF MessagesAreHeld
    <3>4. \A m \in Messages : recent'[m] # None => Held(m)'
      BY <1>t, <2>4, <2>6, <2>7, <3>1 DEF MessagesAreHeld, QueueTypes
    <3> QED
      BY <3>2, <3>3, <3>4
  <2> QED
    BY <2>3, <2>5, <2>8 DEF QueueInv
<1>6. ASSUME NEW m \in Messages, ForgetIncoming(m) \/ ForgetOutgoing(m) PROVE QueueInv'
  <2>1. UNCHANGED <<offered, pending, file, center, returned, bounds>> /\ seen' \subseteq seen
    BY <1>6 DEF ForgetIncoming, ForgetOutgoing
  <2>2. recent' = recent \/ recent' = [recent EXCEPT ![m] = None]
    BY <1>6 DEF ForgetIncoming, ForgetOutgoing
  <2>3. QueueTypes' /\ RecentIsCopy' /\ QueuedIsOnFile'
    BY <1>t, <2>1, <2>2 DEF QueueTypes, RecentIsCopy, QueuedIsOnFile, bounds
  <2>4. \A k : Held(k) => Held(k)'
    BY <2>1 DEF Held
  <2>5. \A k \in Messages : recent'[k] # None => recent[k] # None
    BY <1>t, <2>2 DEF QueueTypes
  <2>6. MessagesAreHeld'
    BY <1>t, <2>1, <2>4, <2>5 DEF MessagesAreHeld, bounds
  <2> QED
    BY <2>3, <2>6 DEF QueueInv
<1>7. ASSUME NEW u \in Uploaders, NEW old, NEW held, Flush(u, old, held) PROVE QueueInv'
  BY <1>7 DEF Flush, QueueInv, QueueTypes, RecentIsCopy, QueuedIsOnFile, MessagesAreHeld, Held,
              bounds
<1>8. ASSUME NEW u \in Uploaders, NEW answer, Respond(u, answer) PROVE QueueInv'
  <2> DEFINE batch == Range(upload[u].batch)
             final == {e \in batch : answer[e] # "retry"}
             rest == Without(pending, batch)
             retried == Among(pending, batch \ final)
  <2>1. rest \in Seq(Events) /\ Range(rest) = Range(pending) \ batch
    BY <1>t, RangeWithout DEF QueueTypes
  <2>2. retried \in Seq(Events) /\ Range(retried) = Range(pending) \cap (batch \ final)
    BY <1>t, RangeAmong DEF QueueTypes
  <2>3. pending' = rest \o retried
    BY <1>8 DEF Respond
  <2>4. pending' \in Seq(Events) /\ Range(pending') = Range(pending) \ final
    <3> HIDE DEF batch, final, rest, retried
    <3>1. pending' \in Seq(Events) /\ Range(pending') = Range(rest) \cup Range(retried)
      BY <2>1, <2>2, <2>3, RangeConcat
    <3>2. final \subseteq batch
      BY DEF final
    <3> QED
      BY <2>1, <2>2, <3>1, <3>2
  <2>5. /\ \A e \in batch : answer[e] \in Answers(e)
        /\ center' = [e \in Events |-> IF e \in batch THEN Recorded(e, answer[e]) ELSE center[e]]
        /\ UNCHANGED <<offered, file, recent, returned, errors>> /\ seen' \subseteq seen
    BY <1>8 DEF Respond, GiveBack, bounds
  <2>6. \A d \in Events : center[d] # "none" => center'[d] # "none"
    BY <2>5 DEF Answers, Recorded
  <2>7. \A d \in Events : d \in final => center'[d] # "none"
    BY <2>5 DEF Answers, Recorded
  <2> HIDE DEF batch, final, rest, retried
  <2>8. \A m : Held(m) => Held(m)'
    BY <2>4, <2>6, <2>7 DEF Held
  <2>9. QueueTypes' /\ RecentIsCopy' /\ QueuedIsOnFile'
    BY <1>t, <2>4, <2>5 DEF QueueTypes, RecentIsCopy, QueuedIsOnFile
  <2>10. MessagesAreHeld'
    BY <1>t, <2>5, <2>8 DEF MessagesAreHeld
  <2> QED
    BY <2>9, <2>10 DEF QueueInv
<1>9. ASSUME NEW u \in Uploaders, NEW answer, UploadFails(u, answer) PROVE QueueInv'
  <2> DEFINE batch == Range(upload[u].batch)
  <2>1. /\ \A e \in batch : answer[e] \in Answers(e)
        /\ center' = [e \in Events |-> IF e \in batch THEN Recorded(e, answer[e]) ELSE center[e]]
        /\ UNCHANGED <<offered, pending, file, seen, recent, returned, errors>>
    BY <1>9 DEF UploadFails, bounds
  <2>2. \A d \in Events : center[d] # "none" => center'[d] # "none"
    BY <2>1 DEF Answers, Recorded
  <2>3. \A m : Held(m) => Held(m)'
    BY <2>1, <2>2 DEF Held
  <2>4. QueueTypes' /\ RecentIsCopy' /\ QueuedIsOnFile'
    BY <1>t, <2>1 DEF QueueTypes, RecentIsCopy, QueuedIsOnFile
  <2>5. MessagesAreHeld'
    BY <1>t, <2>1, <2>3 DEF MessagesAreHeld
  <2> QED
    BY <2>4, <2>5 DEF QueueInv
<1>10. ASSUME NEW u \in Uploaders, RewriteQueue(u) PROVE QueueInv'
  <2>1. UNCHANGED <<offered, pending, seen, recent, center, returned, errors>>
    BY <1>10 DEF RewriteQueue, bounds
  <2>2. file' = Range(pending) \/ file' = file
    BY <1>10 DEF RewriteQueue
  <2>3. IsFiniteSet(file')
    BY <1>t, <2>2, FiniteRange DEF QueueTypes
  <2>4. file' \subseteq file /\ Range(pending) \subseteq file'
    BY <1>t, <2>2 DEF QueuedIsOnFile
  <2>5. \A m : Held(m) => Held(m)'
    BY <2>1 DEF Held
  <2>6. QueueTypes' /\ RecentIsCopy' /\ QueuedIsOnFile'
    BY <1>t, <2>1, <2>3, <2>4 DEF QueueTypes, RecentIsCopy, QueuedIsOnFile
  <2>7. MessagesAreHeld'
    BY <1>t, <2>1, <2>4, <2>5 DEF MessagesAreHeld
  <2> QED
    BY <2>6, <2>7 DEF QueueInv
<1>11. ASSUME NEW u \in Uploaders, EndUpload(u) PROVE QueueInv'
  BY <1>11 DEF EndUpload, QueueInv, QueueTypes, RecentIsCopy, QueuedIsOnFile, MessagesAreHeld,
               Held, bounds
<1>12. CASE Restart
  <2>1. /\ pending' \in SetToSeqs(file) /\ seen' = {} /\ recent' = [m \in Messages |-> None]
        /\ UNCHANGED <<offered, file, center, returned, errors>>
    BY <1>12 DEF Restart
  <2>2. pending' \in Seq(file) /\ Range(pending') = file
    BY <1>t, <2>1, RangeOfSet DEF QueueTypes
  <2>3. pending' \in Seq(Events)
    BY <1>t, <2>2 DEF QueueTypes
  <2>4. \A m : Held(m) => Held(m)'
    BY <1>t, <2>1, <2>2 DEF Held, QueuedIsOnFile
  <2>5. QueueTypes' /\ RecentIsCopy' /\ QueuedIsOnFile'
    BY <1>t, <2>1, <2>2, <2>3 DEF QueueTypes, RecentIsCopy, QueuedIsOnFile
  <2>6. MessagesAreHeld'
    BY <1>t, <2>1, <2>4 DEF MessagesAreHeld
  <2> QED
    BY <2>5, <2>6 DEF QueueInv
<1>13. CASE UNCHANGED vars
  BY <1>13 DEF vars, bounds, QueueInv, QueueTypes, RecentIsCopy, QueuedIsOnFile, MessagesAreHeld,
               Held
<1> QED
  BY <1>1, <1>2, <1>3, <1>4, <1>5, <1>6, <1>7, <1>8, <1>9, <1>10, <1>11, <1>12, <1>13
     DEF Next, Capture, Upload

-----------------------------------------------------------------------------
(* Over the socket.                                                        *)

LEMMA SocketInit == Ws!Init => SocketInv
BY DEF Ws!Init, Ws!Idle, SocketInv, CallShape, AckIsTrue, RowsAreTrue, DequeuedIsKept,
       Ws!DequeuedIsKept

\* Taking what came back from the head loses no truth, ...
LEMMA HeadIsTaken ==
  ASSUME AckIsTrue, back # <<>>, back' = Tail(back), stored \subseteq stored'
  PROVE AckIsTrue' /\ (Head(back).type = "ack" /\ Head(back).status = "accepted" =>
                         Head(back).event \in stored)
<1>1. PICK Frames : back \in Seq(Frames)
  BY DEF AckIsTrue
<1>2. back' \in Seq(Frames) /\ Len(back') = Len(back) - 1 /\ Head(back) = back[1]
  BY <1>1
<1>3. \A i \in 1..Len(back') : back'[i] = back[i + 1] /\ i + 1 \in 1..Len(back)
  BY <1>1
<1>4. 1 \in 1..Len(back)
  BY <1>1
<1> QED
  BY <1>2, <1>3, <1>4 DEF AckIsTrue

\* ... nor does an answer that joins them.
LEMMA AnswerJoins ==
  ASSUME AckIsTrue, NEW frame, back' = Append(back, frame), stored \subseteq stored',
         frame.type = "ack" /\ frame.status = "accepted" => frame.event \in stored'
  PROVE AckIsTrue'
<1>1. PICK Frames : back \in Seq(Frames)
  BY DEF AckIsTrue
<1>2. back' \in Seq(Frames \cup {frame}) /\ Len(back') = Len(back) + 1
  <2>1. back \in Seq(Frames \cup {frame})
    BY <1>1
  <2> QED
    BY <2>1
<1>3. \A i \in 1..Len(back) : back'[i] = back[i]
  BY <1>1
<1>4. back'[Len(back) + 1] = frame
  BY <1>1
<1>5. \A i \in 1..Len(back') : i \in 1..Len(back) \/ i = Len(back) + 1
  BY <1>1, <1>2
<1>6. \A i \in 1..Len(back') :
        back'[i].type = "ack" /\ back'[i].status = "accepted" => back'[i].event \in stored'
  BY <1>3, <1>4, <1>5 DEF AckIsTrue
<1> QED
  BY <1>2, <1>6 DEF AckIsTrue

\* What the rows of an upload take out of the queue is kept, if they are true.
LEMMA SettleKeeps ==
  ASSUME CallShape, RowsAreTrue, DequeuedIsKept, NEW u \in WsUploaders, NEW rows,
         Ws!Settle(u, rows), stored \subseteq stored',
         \A r \in rows : /\ r.status \in {"accepted", "rejected", "retry"}
                         /\ r.status = "accepted" => r.event \in stored'
  PROVE CallShape' /\ RowsAreTrue' /\ DequeuedIsKept'
<1>1. call' = [call EXCEPT ![u] = [pc |-> "idle", batch |-> {}, rows |-> {}]]
  BY DEF Ws!Settle, Ws!Idle
<1>2. CallShape' /\ RowsAreTrue'
  BY <1>1 DEF CallShape, RowsAreTrue
<1>3. ASSUME NEW e \in WsEvents \ waiting' PROVE e \in stored' \cup dead'
  <2>1. CASE e \notin waiting
    BY <2>1 DEF DequeuedIsKept, Ws!DequeuedIsKept, Ws!Settle
  <2>2. CASE e \in waiting
    <3>1. PICK r \in rows : r.status # "retry" /\ r.event = e
      BY <1>3, <2>2 DEF Ws!Settle
    <3> QED
      BY <3>1 DEF Ws!Settle
  <2> QED
    BY <2>1, <2>2
<1> QED
  BY <1>2, <1>3 DEF DequeuedIsKept, Ws!DequeuedIsKept

\* A row joins those of one upload, or of none.
LEMMA RowJoins ==
  ASSUME CallShape, NEW w, NEW row, call' = [call EXCEPT ![w].rows = @ \cup {row}]
  PROVE CallShape' /\ \A v \in WsUploaders : call'[v].rows \subseteq call[v].rows \cup {row}
<1>1. CASE w \in WsUploaders
  <2> DEFINE new == [call[w] EXCEPT !.rows = @ \cup {row}]
  <2>1. PICK pc, batch, rows : call[w] = [pc |-> pc, batch |-> batch, rows |-> rows]
    BY <1>1 DEF CallShape
  <2>2. new = [pc |-> pc, batch |-> batch, rows |-> call[w].rows \cup {row}]
    BY <2>1
  <2>3. call' = [call EXCEPT ![w] = new]
    OBVIOUS
  <2> HIDE DEF new
  <2>4. /\ call' = [v \in WsUploaders |-> call'[v]]
        /\ \A v \in WsUploaders : call'[v] = IF v = w THEN new ELSE call[v]
    BY <2>3 DEF CallShape
  <2>5. \A v \in WsUploaders :
          call[v] = [pc |-> call[v].pc, batch |-> call[v].batch, rows |-> call[v].rows]
    BY DEF CallShape
  <2>6. new = [pc |-> new.pc, batch |-> new.batch, rows |-> new.rows]
    BY <2>2
  <2>7. \A v \in WsUploaders :
          call'[v] = [pc |-> call'[v].pc, batch |-> call'[v].batch, rows |-> call'[v].rows]
    BY <2>4, <2>5, <2>6
  <2>8. CallShape'
    BY <2>4, <2>7 DEF CallShape
  <2> QED
    BY <2>2, <2>4, <2>8
<1>2. CASE w \notin WsUploaders
  <2>1. call' = call
    BY <1>2 DEF CallShape
  <2> QED
    BY <2>1 DEF CallShape
<1> QED
  BY <1>1, <1>2

LEMMA SocketStep == SocketInv /\ [Ws!Next]_wsVars => SocketInv'
<1> SUFFICES ASSUME SocketInv, [Ws!Next]_wsVars PROVE SocketInv'
  OBVIOUS
<1>s. CallShape /\ AckIsTrue /\ RowsAreTrue /\ DequeuedIsKept
  BY DEF SocketInv
<1>1. ASSUME NEW u \in WsUploaders, Ws!Take(u) PROVE SocketInv'
  <2>1. PICK pc, batch : call' = [call EXCEPT ![u] = [pc |-> pc, batch |-> batch, rows |-> {}]]
    BY <1>1 DEF Ws!Take
  <2>2. UNCHANGED <<back, stored, waiting, dead>>
    BY <1>1 DEF Ws!Take, Ws!link, Ws!center
  <2>3. CallShape' /\ RowsAreTrue'
    BY <1>s, <2>1, <2>2 DEF CallShape, RowsAreTrue
  <2> QED
    BY <1>s, <2>2, <2>3 DEF SocketInv, AckIsTrue, DequeuedIsKept, Ws!DequeuedIsKept
<1>2. ASSUME NEW u \in WsUploaders, Ws!SendEvents(u) PROVE SocketInv'
  <2>1. PICK pc : call' = [call EXCEPT ![u].pc = pc]
    BY <1>2 DEF Ws!SendEvents
  <2>2. UNCHANGED <<back, stored, waiting, dead>>
    BY <1>2 DEF Ws!SendEvents, Ws!center
  <2>3. CallShape' /\ RowsAreTrue'
    BY <1>s, <2>1, <2>2 DEF CallShape, RowsAreTrue
  <2> QED
    BY <1>s, <2>2, <2>3 DEF SocketInv, AckIsTrue, DequeuedIsKept, Ws!DequeuedIsKept
<1>3. ASSUME NEW u \in WsUploaders, Ws!WaitEnds(u) PROVE SocketInv'
  <2>1. Ws!Settle(u, call[u].rows) /\ UNCHANGED <<back, stored>>
    BY <1>3 DEF Ws!WaitEnds, Ws!link, Ws!center
  <2>2. CallShape' /\ RowsAreTrue' /\ DequeuedIsKept'
    BY <1>s, <2>1, SettleKeeps DEF RowsAreTrue
  <2> QED
    BY <1>s, <2>1, <2>2 DEF SocketInv, AckIsTrue
<1>4. ASSUME NEW u \in WsUploaders, Ws!UploadHttp(u) PROVE SocketInv'
  <2> DEFINE rows == {[event |-> e, status |-> IF e \in Ws!Keyless THEN "rejected" ELSE "accepted"] :
                        e \in call[u].batch}
  <2>1. stored' = stored \cup (call[u].batch \ Ws!Keyless) /\ back' = back
    BY <1>4 DEF Ws!UploadHttp, Ws!link
  <2>2. CASE Ws!Settle(u, rows)
    <3>1. \A r \in rows : /\ r.status \in {"accepted", "rejected", "retry"}
                          /\ r.status = "accepted" => r.event \in stored'
      BY <2>1
    <3> HIDE DEF rows
    <3>2. CallShape' /\ RowsAreTrue' /\ DequeuedIsKept'
      BY <1>s, <2>1, <2>2, <3>1, SettleKeeps
    <3> QED
      BY <1>s, <2>1, <3>2 DEF SocketInv, AckIsTrue
  <2>3. CASE call' = [call EXCEPT ![u] = Ws!Idle] /\ UNCHANGED <<waiting, dead>>
    <3>1. CallShape' /\ RowsAreTrue'
      BY <1>s, <2>1, <2>3 DEF CallShape, RowsAreTrue, Ws!Idle
    <3> QED
      BY <1>s, <2>1, <2>3, <3>1 DEF SocketInv, AckIsTrue, DequeuedIsKept, Ws!DequeuedIsKept
  <2> QED
    BY <1>4, <2>2, <2>3 DEF Ws!UploadHttp
<1>5. ASSUME UNCHANGED <<back, stored, call, waiting>>, dead \subseteq dead' PROVE SocketInv'
  BY <1>5, <1>s DEF SocketInv, CallShape, AckIsTrue, RowsAreTrue, DequeuedIsKept,
                    Ws!DequeuedIsKept
<1>6. CASE Ws!Connect \/ Ws!Send \/ Ws!DrainResult \/ UNCHANGED wsVars
  BY <1>5, <1>6 DEF Ws!Connect, Ws!Send, Ws!DrainResult, Ws!link, Ws!center, wsVars
<1>7. CASE Ws!Disconnect
  <2>1. back' = <<>> /\ UNCHANGED <<stored, call, waiting, dead>>
    BY <1>7 DEF Ws!Disconnect, Ws!center
  <2> QED
    BY <1>s, <2>1 DEF SocketInv, CallShape, AckIsTrue, RowsAreTrue, DequeuedIsKept,
                      Ws!DequeuedIsKept
<1>8. CASE Ws!OnResult
  <2>1. back # <<>> /\ back' = Tail(back) /\ UNCHANGED <<stored, call, waiting, dead>>
    BY <1>8 DEF Ws!OnResult, Ws!center
  <2>2. AckIsTrue'
    BY <1>s, <2>1, HeadIsTaken
  <2> QED
    BY <1>s, <2>1, <2>2 DEF SocketInv, CallShape, RowsAreTrue, DequeuedIsKept, Ws!DequeuedIsKept
<1>9. CASE Ws!OnAck
  <2> DEFINE frame == Head(back)
  <2>1. /\ back # <<>> /\ back' = Tail(back) /\ frame.type = "ack"
        /\ UNCHANGED <<stored, waiting, dead>>
    BY <1>9 DEF Ws!OnAck, Ws!center
  <2>2. AckIsTrue' /\ (frame.status = "accepted" => frame.event \in stored)
    BY <1>s, <2>1, HeadIsTaken
  <2>3. \/ call' = call
        \/ call' = [call EXCEPT ![owner[frame.event]].rows = @ \cup {Ws!Row(frame)}]
    BY <1>9 DEF Ws!OnAck
  <2> HIDE DEF frame
  <2>4. /\ Ws!Row(frame).status \in {"accepted", "rejected", "retry"}
        /\ Ws!Row(frame).status = "accepted" => Ws!Row(frame).event \in stored
    BY <2>2 DEF Ws!Row
  <2>5. CallShape' /\ RowsAreTrue'
    <3>1. CASE call' = call
      BY <1>s, <2>1, <3>1 DEF CallShape, RowsAreTrue
    <3>2. CASE call' = [call EXCEPT ![owner[frame.event]].rows = @ \cup {Ws!Row(frame)}]
      <4> DEFINE row == Ws!Row(frame)
      <4> HIDE DEF row
      <4>1. /\ CallShape'
            /\ \A v \in WsUploaders : call'[v].rows \subseteq call[v].rows \cup {row}
        BY <1>s, <3>2, RowJoins DEF row
      <4>2. /\ row.status \in {"accepted", "rejected", "retry"}
            /\ row.status = "accepted" => row.event \in stored
        BY <2>4 DEF row
      <4> QED
        BY <1>s, <2>1, <4>1, <4>2 DEF RowsAreTrue
    <3> QED
      BY <2>3, <3>1, <3>2
  <2> QED
    BY <1>s, <2>1, <2>2, <2>5 DEF SocketInv, DequeuedIsKept, Ws!DequeuedIsKept
<1>10. CASE Ws!CenterTakes
  <2>1. UNCHANGED <<call, waiting, dead>> /\ stored \subseteq stored'
    BY <1>10 DEF Ws!CenterTakes
  <2> DEFINE ack(s) == [type |-> "ack", event |-> Head(wire), status |-> s]
  <2>2. \/ back' = Append(back, ack("accepted")) /\ Head(wire) \in stored'
        \/ back' = Append(back, ack("rejected"))
    BY <1>10 DEF Ws!CenterTakes
  <2>3. AckIsTrue'
    BY <1>s, <2>1, <2>2, AnswerJoins
  <2> QED
    BY <1>s, <2>1, <2>3 DEF SocketInv, CallShape, RowsAreTrue, DequeuedIsKept, Ws!DequeuedIsKept
<1>11. ASSUME NEW e \in WsEvents, NEW status, Ws!CenterDecides(e, status) PROVE SocketInv'
  <2>1. UNCHANGED <<call, waiting, dead, stored>>
    BY <1>11 DEF Ws!CenterDecides
  <2>2. CASE back' = back
    BY <1>5, <2>1, <2>2
  <2>3. CASE back' = Append(back, [type |-> "result", event |-> e, status |-> status])
    <3>1. AckIsTrue'
      BY <1>s, <2>1, <2>3, AnswerJoins
    <3> QED
      BY <1>s, <2>1, <3>1 DEF SocketInv, CallShape, RowsAreTrue, DequeuedIsKept,
                              Ws!DequeuedIsKept
  <2> QED
    BY <1>11, <2>2, <2>3 DEF Ws!CenterDecides
<1> QED
  BY <1>1, <1>2, <1>3, <1>4, <1>6, <1>7, <1>8, <1>9, <1>10, <1>11 DEF Ws!Next

-----------------------------------------------------------------------------
(* Whose an event is: by HTTP, ...                                         *)

\* Every batch is in flight, and no two uploads share an event.
BatchesInFlight ==
  /\ upload = [u \in Uploaders |-> [pc |-> upload[u].pc, batch |-> upload[u].batch]]
  /\ \A u \in Uploaders : Range(upload[u].batch) \subseteq inflight

FlightInv == BatchesInFlight /\ NoOverlap

LEMMA RangePrefix ==
  ASSUME NEW X, NEW s \in Seq(X), NEW n \in Nat
  PROVE Prefix(s, n) \in Seq(X) /\ Range(Prefix(s, n)) \subseteq Range(s)
<1>1. Min({Len(s), n}) \in {Len(s), n} /\ Min({Len(s), n}) <= Len(s)
  <2>1. \E x \in {Len(s), n} : \A y \in {Len(s), n} : x <= y
    BY Len(s) \in Nat
  <2> QED
    BY <2>1 DEF Min
<1> DEFINE m == Min({Len(s), n})
<1>2. m \in 0..Len(s)
  BY <1>1
<1> HIDE DEF m
<1>3. SubSeq(s, 1, m) \in Seq(X) /\ Len(SubSeq(s, 1, m)) = m
  BY <1>2
<1>4. DOMAIN SubSeq(s, 1, m) = 1..m /\ \A i \in 1..m : SubSeq(s, 1, m)[i] = s[i]
  BY <1>2, <1>3
<1>5. \A i \in 1..m : i \in DOMAIN s
  BY <1>2
<1>6. Range(SubSeq(s, 1, m)) \subseteq Range(s)
  BY <1>4, <1>5 DEF Range
<1> QED
  BY <1>3, <1>6 DEF Prefix, m

\* A batch is taken from what is ready, whatever is old of it.
LEMMA BatchIsReady ==
  ASSUME pending \in Seq(Events), NEW ready, NEW old
  PROVE Range(Batch(ready, old)) \subseteq ready
<1> DEFINE live == Among(pending, ready \ old)
           aged == Among(pending, ready \cap old)
           most == Max({1, (BatchSize * 4) \div 5})
           quota == Min({Len(live), most})
           rest == Max({1, BatchSize - quota})
<1>1. live \in Seq(Events) /\ Range(live) \subseteq ready
  BY RangeAmong
<1>2. aged \in Seq(Events) /\ Range(aged) \subseteq ready
  BY RangeAmong
<1>3. \A x \in Int : Max({1, x}) \in Nat
  <2> SUFFICES ASSUME NEW x \in Int PROVE Max({1, x}) \in Nat
    OBVIOUS
  <2>1. \E k \in {1, x} : \A y \in {1, x} : k >= y
    OBVIOUS
  <2>2. Max({1, x}) \in {1, x} /\ Max({1, x}) >= 1
    BY <2>1 DEF Max
  <2> QED
    BY <2>2
<1>4. BatchSize \in Nat
  BY UplinkAssumption
<1>5. most \in Nat
  <2>1. (BatchSize * 4) \div 5 \in Int
    BY <1>4
  <2> QED
    BY <1>3, <2>1
<1> HIDE DEF live, aged, most
<1>6. quota \in Nat
  <2>1. \E x \in {Len(live), most} : \A y \in {Len(live), most} : x <= y
    BY <1>1, <1>5, Len(live) \in Nat
  <2> QED
    BY <1>1, <1>5, <2>1 DEF Min
<1> HIDE DEF quota
<1>7. rest \in Nat
  BY <1>3, <1>4, <1>6
<1> HIDE DEF rest
<1>8. /\ Prefix(live, BatchSize) \in Seq(Events)
      /\ Range(Prefix(live, BatchSize)) \subseteq ready
  BY <1>1, <1>4, RangePrefix
<1>9. Prefix(live, quota) \in Seq(Events) /\ Range(Prefix(live, quota)) \subseteq ready
  BY <1>1, <1>6, RangePrefix
<1>10. Prefix(aged, rest) \in Seq(Events) /\ Range(Prefix(aged, rest)) \subseteq ready
  BY <1>2, <1>7, RangePrefix
<1>11. Range(Prefix(live, quota) \o Prefix(aged, rest)) \subseteq ready
  BY <1>9, <1>10, RangeConcat
<1>12. Batch(ready, old) = IF aged = <<>> THEN Prefix(live, BatchSize)
                           ELSE Prefix(live, quota) \o Prefix(aged, rest)
  BY DEF Batch, live, aged, most, quota, rest
<1> QED
  BY <1>8, <1>11, <1>12

LEMMA FlightInit == Init => FlightInv
<1>1. Range(<<>>) = {}
  BY DEF Range
<1> QED
  BY <1>1 DEF Init, Idle, FlightInv, BatchesInFlight, NoOverlap

LEMMA FlightStep == QueueInv /\ FlightInv /\ [Next]_vars => FlightInv'
<1> SUFFICES ASSUME QueueInv, FlightInv, [Next]_vars PROVE FlightInv'
  OBVIOUS
<1>f. BatchesInFlight /\ NoOverlap
  BY DEF FlightInv
<1>r. Range(<<>>) = {}
  BY DEF Range
<1>1. ASSUME UNCHANGED <<inflight, upload>> PROVE FlightInv'
  BY <1>f, <1>1 DEF FlightInv, BatchesInFlight, NoOverlap
<1>2. ASSUME NEW e, Capture(e) PROVE FlightInv'
  BY <1>1, <1>2 DEF Capture, CaptureQueued, CaptureDuplicate, CaptureIncoming, CaptureEcho,
                    CaptureOutgoing
<1>3. ASSUME NEW m, ForgetIncoming(m) \/ ForgetOutgoing(m) PROVE FlightInv'
  BY <1>1, <1>3 DEF ForgetIncoming, ForgetOutgoing
<1>4. ASSUME NEW u \in Uploaders, NEW old, NEW held, Flush(u, old, held) PROVE FlightInv'
  <2> DEFINE ready == Range(pending) \ (inflight \cup held)
             batch == Batch(ready, old)
  <2>1. Range(batch) \subseteq ready
    BY BatchIsReady DEF QueueInv, QueueTypes
  <2>2. /\ upload' = [upload EXCEPT ![u] = [pc |-> "call", batch |-> batch]]
        /\ inflight' = inflight \cup Range(batch)
    BY <1>4 DEF Flush
  <2>3. Range(batch) \cap inflight = {}
    BY <2>1
  <2> HIDE DEF batch
  <2>4. \A v \in Uploaders :
          upload'[v] = IF v = u THEN [pc |-> "call", batch |-> batch] ELSE upload[v]
    BY <1>f, <2>2 DEF BatchesInFlight
  <2>5. BatchesInFlight'
    BY <1>f, <2>2, <2>4 DEF BatchesInFlight
  <2>6. NoOverlap'
    BY <1>f, <2>3, <2>4 DEF BatchesInFlight, NoOverlap
  <2> QED
    BY <2>5, <2>6 DEF FlightInv
<1>5. ASSUME NEW u \in Uploaders, NEW pc, upload' = [upload EXCEPT ![u].pc = pc],
             UNCHANGED inflight
      PROVE FlightInv'
  <2>1. \A v \in Uploaders : upload'[v].batch = upload[v].batch
    BY <1>f, <1>5 DEF BatchesInFlight
  <2>2. BatchesInFlight'
    BY <1>f, <1>5, <2>1 DEF BatchesInFlight
  <2>3. NoOverlap'
    BY <1>f, <2>1 DEF NoOverlap
  <2> QED
    BY <2>2, <2>3 DEF FlightInv
<1>6. ASSUME NEW u \in Uploaders, NEW answer, Respond(u, answer) \/ UploadFails(u, answer)
      PROVE FlightInv'
  BY <1>5, <1>6 DEF Respond, UploadFails
<1>7. ASSUME NEW u \in Uploaders, RewriteQueue(u) PROVE FlightInv'
  BY <1>5, <1>7 DEF RewriteQueue
<1>8. ASSUME NEW u \in Uploaders, EndUpload(u) PROVE FlightInv'
  <2>1. /\ inflight' = inflight \ Range(upload[u].batch)
        /\ upload' = [upload EXCEPT ![u] = [pc |-> "idle", batch |-> <<>>]]
    BY <1>8 DEF EndUpload, Idle
  <2>2. \A v \in Uploaders :
          upload'[v] = IF v = u THEN [pc |-> "idle", batch |-> <<>>] ELSE upload[v]
    BY <1>f, <2>1 DEF BatchesInFlight
  <2>3. BatchesInFlight'
    BY <1>f, <1>r, <2>1, <2>2 DEF BatchesInFlight, NoOverlap
  <2>4. NoOverlap'
    BY <1>f, <1>r, <2>2 DEF NoOverlap
  <2> QED
    BY <2>3, <2>4 DEF FlightInv
<1>9. CASE Restart
  BY <1>r, <1>9 DEF Restart, Idle, FlightInv, BatchesInFlight, NoOverlap
<1>10. CASE UNCHANGED vars
  BY <1>1, <1>10 DEF vars
<1> QED
  BY <1>2, <1>3, <1>4, <1>6, <1>7, <1>8, <1>9, <1>10 DEF Next, Upload

-----------------------------------------------------------------------------
(* ... and over the socket.                                                *)

BatchesApart ==
  \A u, v \in WsUploaders : u # v => call[u].batch \cap call[v].batch = {}

OwnerInv == BatchesApart /\ OwnerWaits

\* A step that changes no batch, and no thread's waiting.
LEMMA OwnerStays ==
  ASSUME OwnerInv, UNCHANGED owner,
         \A u \in WsUploaders :
           /\ call'[u].batch = call[u].batch
           /\ call'[u].pc = "wait" <=> call[u].pc = "wait"
  PROVE OwnerInv'
BY DEF OwnerInv, BatchesApart, OwnerWaits, Ws!OwnerWaits

\* An upload that is over: nobody waits for its events any more.
LEMMA OwnerLeaves ==
  ASSUME CallShape, OwnerInv, NEW u \in WsUploaders, call' = [call EXCEPT ![u] = Ws!Idle],
         \A e \in WsEvents :
           owner'[e] = IF owner[e] = u THEN None ELSE owner[e]
  PROVE OwnerInv'
<1>1. \A v \in WsUploaders :
        call'[v] = IF v = u THEN [pc |-> "idle", batch |-> {}, rows |-> {}] ELSE call[v]
  BY DEF CallShape, Ws!Idle
<1>2. None \notin WsUploaders
  BY WsAssumption DEF Ws!WsAssumption
<1>3. BatchesApart'
  BY <1>1 DEF OwnerInv, BatchesApart
<1>4. ASSUME NEW e \in WsEvents, NEW v \in WsUploaders
      PROVE owner'[e] = v <=> call'[v].pc = "wait" /\ e \in call'[v].batch
  <2>1. CASE v = u
    BY <1>1, <1>2, <2>1
  <2>2. CASE v # u
    <3>1. owner'[e] = v <=> owner[e] = v
      BY <1>2, <2>2
    <3> QED
      BY <1>1, <2>2, <3>1 DEF OwnerInv, OwnerWaits, Ws!OwnerWaits
  <2> QED
    BY <2>1, <2>2
<1> QED
  BY <1>3, <1>4 DEF OwnerInv, OwnerWaits, Ws!OwnerWaits

LEMMA OwnerInit == Ws!Init => OwnerInv
<1>1. None \notin WsUploaders
  BY WsAssumption DEF Ws!WsAssumption
<1> QED
  BY <1>1 DEF Ws!Init, Ws!Idle, OwnerInv, BatchesApart, OwnerWaits, Ws!OwnerWaits

LEMMA OwnerStep == SocketInv /\ OwnerInv /\ [Ws!Next]_wsVars => OwnerInv'
<1> SUFFICES ASSUME SocketInv, OwnerInv, [Ws!Next]_wsVars PROVE OwnerInv'
  OBVIOUS
<1>s. CallShape
  BY DEF SocketInv
<1>o. BatchesApart /\ OwnerWaits
  BY DEF OwnerInv
<1>1. ASSUME NEW u \in WsUploaders, Ws!Take(u) PROVE OwnerInv'
  <2>1. PICK batch \in SUBSET (waiting \ Ws!InFlight), pc \in {"try", "http"} :
          call' = [call EXCEPT ![u] = [pc |-> pc, batch |-> batch, rows |-> {}]]
    <3>1. (IF conn THEN "try" ELSE "http") \in {"try", "http"}
      OBVIOUS
    <3> QED
      BY <1>1, <3>1 DEF Ws!Take
  <2>2. owner' = owner /\ call[u].pc = "idle"
    BY <1>1 DEF Ws!Take
  <2>3. \A v \in WsUploaders :
          call'[v] = IF v = u THEN [pc |-> pc, batch |-> batch, rows |-> {}] ELSE call[v]
    BY <1>s, <2>1 DEF CallShape
  <2>4. \A v \in WsUploaders : batch \cap call[v].batch = {}
    BY <2>1 DEF Ws!InFlight
  <2>5. BatchesApart'
    BY <1>o, <2>3, <2>4 DEF BatchesApart
  <2>6. OwnerWaits'
    BY <1>o, <2>1, <2>2, <2>3 DEF OwnerWaits, Ws!OwnerWaits
  <2> QED
    BY <2>5, <2>6 DEF OwnerInv
<1>2. ASSUME NEW u \in WsUploaders, Ws!SendEvents(u) PROVE OwnerInv'
  <2>1. call[u].pc = "try"
    BY <1>2 DEF Ws!SendEvents
  <2>2. CASE call' = [call EXCEPT ![u].pc = "http"] /\ UNCHANGED owner
    <3>1. \A v \in WsUploaders : /\ call'[v].batch = call[v].batch
                                 /\ call'[v].pc = "wait" <=> call[v].pc = "wait"
      BY <1>s, <2>1, <2>2 DEF CallShape
    <3> QED
      BY <2>2, <3>1, OwnerStays
  <2>3. CASE /\ owner' = [e \in WsEvents |-> IF e \in call[u].batch THEN u ELSE owner[e]]
             /\ call' = [call EXCEPT ![u].pc = "wait"]
    <3>1. \A v \in WsUploaders : /\ call'[v].batch = call[v].batch
                                 /\ call'[v].pc = IF v = u THEN "wait" ELSE call[v].pc
      BY <1>s, <2>3 DEF CallShape
    <3>2. BatchesApart'
      BY <1>o, <3>1 DEF BatchesApart
    <3>3. ASSUME NEW e \in WsEvents, NEW v \in WsUploaders
          PROVE owner'[e] = v <=> call'[v].pc = "wait" /\ e \in call'[v].batch
      <4>1. owner[e] = v <=> call[v].pc = "wait" /\ e \in call[v].batch
        BY <1>o DEF OwnerWaits, Ws!OwnerWaits
      <4>2. owner'[e] = IF e \in call[u].batch THEN u ELSE owner[e]
        BY <2>3
      <4>3. v # u => ~(e \in call[u].batch /\ e \in call[v].batch)
        BY <1>o DEF BatchesApart
      <4> QED
        BY <2>1, <3>1, <4>1, <4>2, <4>3
    <3>4. OwnerWaits'
      BY <3>3 DEF OwnerWaits, Ws!OwnerWaits
    <3> QED
      BY <3>2, <3>4 DEF OwnerInv
  <2> QED
    BY <1>2, <2>2, <2>3 DEF Ws!SendEvents
<1>3. ASSUME NEW u \in WsUploaders, Ws!WaitEnds(u) PROVE OwnerInv'
  <2>1. /\ call[u].pc = "wait" /\ call' = [call EXCEPT ![u] = Ws!Idle]
        /\ owner' = [e \in WsEvents |-> IF e \in call[u].batch THEN None ELSE owner[e]]
    BY <1>3 DEF Ws!WaitEnds, Ws!Settle
  <2>2. \A e \in WsEvents : owner[e] = u <=> e \in call[u].batch
    BY <1>o, <2>1 DEF OwnerWaits, Ws!OwnerWaits
  <2>3. \A e \in WsEvents : owner'[e] = IF owner[e] = u THEN None ELSE owner[e]
    BY <2>1, <2>2
  <2> QED
    BY <1>s, <2>1, <2>3, OwnerLeaves
<1>4. ASSUME NEW u \in WsUploaders, Ws!UploadHttp(u) PROVE OwnerInv'
  <2>1. call[u].pc = "http" /\ call' = [call EXCEPT ![u] = Ws!Idle] /\ owner' = owner
    BY <1>4 DEF Ws!UploadHttp, Ws!Settle
  <2>2. \A e \in WsEvents : owner[e] # u
    BY <1>o, <2>1 DEF OwnerWaits, Ws!OwnerWaits
  <2> QED
    BY <1>s, <2>1, <2>2, OwnerLeaves
<1>5. ASSUME UNCHANGED <<owner, call>> PROVE OwnerInv'
  BY <1>5, OwnerStays
<1>6. CASE \/ Ws!Connect \/ Ws!Disconnect \/ Ws!Send \/ Ws!OnResult \/ Ws!DrainResult
           \/ Ws!CenterTakes \/ UNCHANGED wsVars
  BY <1>5, <1>6 DEF Ws!Connect, Ws!Disconnect, Ws!Send, Ws!OnResult, Ws!DrainResult,
                    Ws!CenterTakes, wsVars
<1>7. ASSUME NEW e \in WsEvents, NEW status, Ws!CenterDecides(e, status) PROVE OwnerInv'
  BY <1>5, <1>7 DEF Ws!CenterDecides
<1>8. CASE Ws!OnAck
  <2> DEFINE frame == Head(back)
  <2>1. owner' = owner
    BY <1>8 DEF Ws!OnAck
  <2>2. \/ call' = call
        \/ call' = [call EXCEPT ![owner[frame.event]].rows = @ \cup {Ws!Row(frame)}]
    BY <1>8 DEF Ws!OnAck
  <2> HIDE DEF frame
  <2>3. \A v \in WsUploaders : call'[v].batch = call[v].batch /\ call'[v].pc = call[v].pc
    <3> DEFINE w == owner[frame.event]
               row == Ws!Row(frame)
    <3>1. CASE call' = [call EXCEPT ![w].rows = @ \cup {row}] /\ w \in WsUploaders
      <4> HIDE DEF w, row
      <4>1. PICK pc, batch, rows : call[w] = [pc |-> pc, batch |-> batch, rows |-> rows]
        BY <1>s, <3>1 DEF CallShape
      <4> DEFINE new == [call[w] EXCEPT !.rows = @ \cup {row}]
      <4>2. new.pc = call[w].pc /\ new.batch = call[w].batch
        BY <4>1
      <4>3. call' = [call EXCEPT ![w] = new]
        BY <3>1
      <4> HIDE DEF new
      <4>4. \A v \in WsUploaders : call'[v] = IF v = w THEN new ELSE call[v]
        BY <1>s, <4>3 DEF CallShape
      <4> QED
        BY <4>2, <4>4
    <3>2. CASE call' = [call EXCEPT ![w].rows = @ \cup {row}] /\ w \notin WsUploaders
      BY <1>s, <3>2 DEF CallShape
    <3>3. CASE call' = call
      BY <3>3
    <3> QED
      BY <2>2, <3>1, <3>2, <3>3
  <2> QED
    BY <2>1, <2>3, OwnerStays
<1> QED
  BY <1>1, <1>2, <1>3, <1>4, <1>6, <1>7, <1>8 DEF Ws!Next

-----------------------------------------------------------------------------
\* The road not taken stands still.
LEMMA RoadStep ==
  [UplinkNext]_uplinkVars => [Next]_vars /\ [Ws!Next]_wsVars
BY DEF UplinkNext, uplinkVars, HttpRoad, SocketRoad

UplinkInv == QueueInv /\ SocketInv /\ FlightInv /\ OwnerInv

LEMMA UplinkAlways == UplinkSpec => []UplinkInv
<1>1. UplinkInit => UplinkInv
  BY QueueInit, SocketInit, FlightInit, OwnerInit DEF UplinkInit, UplinkInv
<1>2. UplinkInv /\ [UplinkNext]_uplinkVars => UplinkInv'
  BY QueueStep, SocketStep, FlightStep, OwnerStep, RoadStep DEF UplinkInv
<1> QED
  BY <1>1, <1>2, PTL DEF UplinkSpec

\* What waits in memory for the center is on file, whatever appends and rewrites fail and
\* however many uploads run at once (_pending, _rewrite_local_queue).
THEOREM QueuedOnFile == UplinkSpec => []QueuedIsOnFile
<1>1. UplinkInv => QueuedIsOnFile
  BY DEF UplinkInv, QueueInv
<1> QED
  BY <1>1, UplinkAlways, PTL

\* As long as no append has failed, of every message a source was told to forget a copy is
\* on file or has the center's answer: duplicates are dropped, copies replaced, events
\* refused and the process restarted in any order (_on_local_event, _flush_events).
THEOREM NothingForgotten == UplinkSpec => []Accounted
<1>1. UplinkInv => Accounted
  <2> SUFFICES ASSUME QueueInv, errors = 0, NEW e \in returned
               PROVE \E d \in Copies(e) : d \in file \/ center[d] # "none"
    BY DEF Accounted, UplinkInv
  <2>1. Held(Message[e])
    BY DEF QueueInv, MessagesAreHeld
  <2> QED
    BY <2>1 DEF QueueInv, QueuedIsOnFile, Held, Copies
<1> QED
  BY <1>1, UplinkAlways, PTL

\* An event leaves the queue over the socket only when the center has it or the dead-letter
\* file: frames sent twice, acknowledgements lost or late, connections that break and
\* refusals that are not final take none (send_events, _on_ack, ack_row_for).
THEOREM DequeuedStays == UplinkSpec => []DequeuedIsKept
<1>1. UplinkInv => DequeuedIsKept
  BY DEF UplinkInv, SocketInv
<1> QED
  BY <1>1, UplinkAlways, PTL

\* Concurrent uploads never carry the same event, also not after a batch has failed, a
\* better copy has replaced an event, or the process was restarted (_inflight_ids).
THEOREM UploadsApart == UplinkSpec => []NoOverlap
<1>1. UplinkInv => NoOverlap
  BY DEF UplinkInv, FlightInv
<1> QED
  BY <1>1, UplinkAlways, PTL

\* An acknowledgement finds the upload that waits for its event now, and no other: not one
\* that gave up, nor one that took the event again by HTTP (_owner in send_events, _on_ack).
THEOREM AckFindsWaiter == UplinkSpec => []OwnerWaits
<1>1. UplinkInv => OwnerWaits
  BY DEF UplinkInv, OwnerInv
<1> QED
  BY <1>1, UplinkAlways, PTL

=============================================================================
