------------------------- MODULE SendReceiptProofs -------------------------
(***************************************************************************)
(* Theorems about SendReceipt, for any callers, any messages typed beside  *)
(* them, any order of receipts and however often frames are handled again: *)
(*   - ConfirmedTruly: a receipt never confirms a send out of nothing.     *)
(*     Only a drained frame confirms, and frames are there for messages    *)
(*     that arrived; every other step leaves the confirmed sends as they   *)
(*     are or takes one away;                                              *)
(*   - HeardConfirms: a receipt that comes while its caller waits is not   *)
(*     missed;                                                             *)
(*   - AbandonedNeverLeaves: a send withdrawn in time is never sent.       *)
(* The last two rest on where a send is: in one of the lists, in the hands *)
(* of the CDP thread, or posted, and never in two of these places.         *)
(***************************************************************************)
EXTENDS SendReceipt, SequenceTheorems, FiniteSetTheorems, TLAPS

ReceiptInv ==
  /\ result \in [Sends -> Statuses \cup {None}]
  /\ ConfirmedIsReal

\* No send becomes confirmed in the step.
NothingConfirmed ==
  /\ result' \in [Sends -> Statuses \cup {None}]
  /\ \A s \in Sends : result'[s] = "confirmed" => result[s] = "confirmed"

-----------------------------------------------------------------------------
\* A receipt confirms only sends with the text of its message.
LEMMA SameTextOnly ==
  ASSUME NEW f
  PROVE  Confirmed(f) \subseteq SameText(f)
BY DEF Confirmed, Exact

\* Statuses other than "confirmed" confirm nothing.
LEMMA AnswerConfirmsNothing ==
  ASSUME ReceiptInv, NEW s, NEW status \in {"blocked", "expired", "failed"},
         Answer(s, status)
  PROVE  NothingConfirmed
BY DEF ReceiptInv, Answer, NothingConfirmed, Statuses

LEMMA ResultUnchanged ==
  ASSUME ReceiptInv, UNCHANGED result
  PROVE  NothingConfirmed
BY DEF ReceiptInv, NothingConfirmed

LEMMA NothingLost ==
  ASSUME ReceiptInv, NothingConfirmed, frames \subseteq frames'
  PROVE  ReceiptInv'
BY DEF ReceiptInv, NothingConfirmed, ConfirmedIsReal, Delivered

LEMMA InitReceipt == Init => ReceiptInv
BY ReceiptAssumption DEF Init, ReceiptInv, ConfirmedIsReal, Statuses

LEMMA ReceiptStep == ReceiptInv /\ [Next]_vars => ReceiptInv'
<1> SUFFICES ASSUME ReceiptInv, [Next]_vars PROVE ReceiptInv'
  OBVIOUS
<1> USE DEF waiters, page
<1>1. ASSUME NEW s \in Sends, Call(s) PROVE ReceiptInv'
  BY <1>1, ResultUnchanged, NothingLost
     DEF Call, Post, Deadline, Return, GiveUp, Withdraw
<1>2. CASE TakeActions \/ Register
  BY <1>2, ResultUnchanged, NothingLost DEF TakeActions, Register
<1>3. CASE StartSend
  <2>1. NothingConfirmed
    BY <1>3, AnswerConfirmsNothing, ResultUnchanged DEF StartSend
  <2> QED
    BY <1>3, <2>1, NothingLost DEF StartSend
<1>4. CASE CheckTarget
  <2>1. NothingConfirmed
    BY <1>4, AnswerConfirmsNothing, ResultUnchanged DEF CheckTarget
  <2> QED
    BY <1>4, <2>1, NothingLost DEF CheckTarget
<1>5. CASE CallPage
  <2>1. NothingConfirmed
    BY <1>5, AnswerConfirmsNothing, ResultUnchanged DEF CallPage
  <2> QED
    BY <1>5, <2>1, NothingLost DEF CallPage
<1>6. ASSUME NEW m \in Messages, Type(m) \/ Deliver(m) PROVE ReceiptInv'
  BY <1>6, ResultUnchanged, NothingLost DEF Type, Deliver
<1>7. ASSUME NEW f \in frames, Drain(f) PROVE ReceiptInv'
  <2>1. result' = [s \in Sends |-> IF s \in Confirmed(f) THEN "confirmed" ELSE result[s]]
    BY <1>7 DEF Drain
  <2>2. result' \in [Sends -> Statuses \cup {None}]
    BY <2>1 DEF ReceiptInv, Statuses
  <2>3. ASSUME NEW s \in Sends, s \in Confirmed(f)
        PROVE  \E m \in Delivered : Text[m] = Text[s]
    BY <2>3, SameTextOnly DEF SameText, Delivered
  <2>4. Delivered' = Delivered
    BY <1>7 DEF Drain, Delivered
  <2> QED
    BY <2>1, <2>2, <2>3, <2>4 DEF ReceiptInv, ConfirmedIsReal
<1>8. CASE UNCHANGED vars
  BY <1>8, ResultUnchanged, NothingLost DEF vars
<1> QED
  BY <1>1, <1>2, <1>3, <1>4, <1>5, <1>6, <1>7, <1>8 DEF Next

\* Of a confirmed send the buyer got a message with its text, for any callers, any
\* messages typed beside them, and any order of receipts (_handle_send_receipt).
THEOREM ConfirmedTruly == Spec => []ConfirmedIsReal
<1>1. ReceiptInv => ConfirmedIsReal
  BY DEF ReceiptInv
<1> QED
  BY InitReceipt, ReceiptStep, <1>1, PTL DEF Spec

-----------------------------------------------------------------------------
(* Sequences that hold each element once.                                  *)

Once(q) == \A i, j \in DOMAIN q : q[i] = q[j] => i = j

LEMMA AppendOnce ==
  ASSUME NEW S, NEW q \in Seq(S), NEW e \in S
  PROVE  /\ Append(q, e) \in Seq(S)
         /\ Range(Append(q, e)) = Range(q) \cup {e}
         /\ Once(q) /\ e \notin Range(q) => Once(Append(q, e))
<1>1. /\ Append(q, e) \in Seq(S) /\ Len(Append(q, e)) = Len(q) + 1
      /\ \A i \in 1..Len(q) : Append(q, e)[i] = q[i]
      /\ Append(q, e)[Len(q) + 1] = e
  BY AppendProperties
<1>2. /\ DOMAIN q = 1..Len(q) /\ DOMAIN Append(q, e) = 1..(Len(q) + 1)
      /\ Len(q) \in Nat
  BY <1>1, LenProperties
<1> QED
  BY <1>1, <1>2 DEF Range, Once

LEMMA TailOnce ==
  ASSUME NEW S, NEW q \in Seq(S), q # <<>>
  PROVE  /\ Head(q) \in S /\ Tail(q) \in Seq(S)
         /\ Head(q) \in Range(q) /\ Range(Tail(q)) \subseteq Range(q)
         /\ Once(q) => Once(Tail(q)) /\ Head(q) \notin Range(Tail(q))
<1>1. /\ Head(q) \in S /\ Tail(q) \in Seq(S) /\ Len(Tail(q)) = Len(q) - 1
      /\ \A i \in 1..Len(Tail(q)) : Tail(q)[i] = q[i + 1]
  BY HeadTailProperties
<1>2. /\ DOMAIN q = 1..Len(q) /\ DOMAIN Tail(q) = 1..Len(Tail(q))
      /\ Len(q) \in Nat \ {0} /\ Head(q) = q[1]
  BY <1>1, LenProperties, EmptySeq
<1> QED
  BY <1>1, <1>2 DEF Range, Once

LEMMA RemoveOnce ==
  ASSUME NEW S, NEW q \in Seq(S), NEW i \in DOMAIN q
  PROVE  /\ RemoveAt(q, i) \in Seq(S)
         /\ Range(RemoveAt(q, i)) \subseteq Range(q)
         /\ Once(q) => Once(RemoveAt(q, i))
<1> DEFINE a == SubSeq(q, 1, i - 1)
           b == SubSeq(q, i + 1, Len(q))
<1>1. DOMAIN q = 1..Len(q) /\ Len(q) \in Nat /\ \A j \in 1..Len(q) : q[j] \in S
  BY LenProperties, ElementOfSeq
<1>2. /\ a \in Seq(S) /\ Len(a) = i - 1
      /\ \A j \in 1..(i - 1) : a[j] = q[j]
  BY <1>1, SubSeqProperties
<1>3. /\ b \in Seq(S) /\ Len(b) = Len(q) - i
      /\ \A j \in 1..(Len(q) - i) : b[j] = q[j + i]
  <2>1. \A j \in (i + 1)..Len(q) : q[j] \in S
    BY <1>1
  <2>2. i + 1 \in Int /\ Len(q) \in Int
    BY <1>1
  <2>3. /\ b \in Seq(S) /\ Len(b) = IF i + 1 <= Len(q) THEN Len(q) - (i + 1) + 1 ELSE 0
        /\ \A j \in 1..(Len(q) - (i + 1) + 1) : b[j] = q[(i + 1) + j - 1]
    BY <2>1, <2>2, SubSeqProperties
  <2>4. Len(b) = Len(q) - i /\ Len(q) - (i + 1) + 1 = Len(q) - i
    BY <1>1, <2>3
  <2>5. ASSUME NEW j \in 1..(Len(q) - i) PROVE b[j] = q[j + i]
    <3>1. (i + 1) + j - 1 = j + i
      BY <1>1
    <3> QED
      BY <2>3, <2>4, <3>1
  <2> QED
    BY <2>3, <2>4, <2>5
<1> HIDE DEF a, b
<1>4. /\ RemoveAt(q, i) = a \o b
      /\ a \o b \in Seq(S) /\ Len(a \o b) = Len(q) - 1
      /\ \A j \in 1..(Len(q) - 1) : (a \o b)[j] = IF j < i THEN q[j] ELSE q[j + 1]
  <2>1. RemoveAt(q, i) = a \o b
    BY DEF RemoveAt, a, b
  <2>2. /\ a \o b \in Seq(S) /\ Len(a \o b) = Len(a) + Len(b)
        /\ \A j \in 1..(Len(a) + Len(b)) :
             (a \o b)[j] = IF j <= Len(a) THEN a[j] ELSE b[j - Len(a)]
    BY <1>2, <1>3, ConcatProperties
  <2>3. Len(a) + Len(b) = Len(q) - 1 /\ i \in 1..Len(q)
    BY <1>1, <1>2, <1>3
  <2>4. ASSUME NEW j \in 1..(Len(q) - 1)
        PROVE  (a \o b)[j] = IF j < i THEN q[j] ELSE q[j + 1]
    <3>1. CASE j < i
      BY <1>1, <1>2, <2>2, <2>3, <3>1
    <3>2. CASE ~(j < i)
      <4>1. (a \o b)[j] = b[j - (i - 1)] /\ j - (i - 1) \in 1..(Len(q) - i)
        BY <1>1, <1>2, <2>2, <2>3, <3>2
      <4>2. (j - (i - 1)) + i = j + 1
        BY <1>1, <2>3
      <4> QED
        BY <1>3, <3>2, <4>1, <4>2
    <3> QED
      BY <3>1, <3>2
  <2> QED
    BY <2>1, <2>2, <2>3, <2>4
<1> DEFINE r == RemoveAt(q, i)
<1>5. DOMAIN r = 1..(Len(q) - 1) /\ r \in Seq(S)
  BY <1>4, LenProperties
<1>6. \A j \in DOMAIN r : \E k \in DOMAIN q :
        r[j] = q[k] /\ k = IF j < i THEN j ELSE j + 1
  <2>1. ASSUME NEW j \in 1..(Len(q) - 1), j < i PROVE r[j] = q[j] /\ j \in 1..Len(q)
    BY <1>1, <1>4, <2>1
  <2>2. ASSUME NEW j \in 1..(Len(q) - 1), ~(j < i)
        PROVE  r[j] = q[j + 1] /\ j + 1 \in 1..Len(q)
    BY <1>1, <1>4, <2>2
  <2> HIDE DEF r
  <2> QED
    BY <1>1, <1>5, <2>1, <2>2
<1> HIDE DEF r
<1>7. Range(r) \subseteq Range(q)
  BY <1>6 DEF Range
<1>8. ASSUME Once(q), NEW j \in DOMAIN r, NEW k \in DOMAIN r, r[j] = r[k] PROVE j = k
  BY <1>1, <1>5, <1>6, <1>8 DEF Once
<1> QED
  BY <1>5, <1>7, <1>8 DEF Once, r

-----------------------------------------------------------------------------
(* Where a send is.                                                        *)

Kinds ==
  /\ act \in Seq(Sends) /\ taken \in Seq(Sends)
  /\ cdp \in [pc : {"idle", "next", "info", "call", "register"}, send : Sends \cup {None}]
  /\ cdp.pc \in {"info", "call", "register"} => cdp.send \in Sends
  /\ caller \in [Sends -> {"new", "waiting", "leaving", "done"}]
  /\ result \in [Sends -> Statuses \cup {None}]
  /\ \A f \in frames : f.of \in posted
  /\ pending \subseteq Sends
  /\ heard \subseteq Sends /\ abandoned \subseteq Sends

\* The page has not been called for s, and the CDP thread may still come to it.
InHand(s) ==
  \/ s \in Range(act) \cup Range(taken)
  \/ cdp.send = s /\ cdp.pc \in {"info", "call"}

OnePlace ==
  /\ Once(act) /\ Once(taken) /\ Range(act) \cap Range(taken) = {}
  /\ cdp.pc \in {"info", "call"} => cdp.send \notin Range(act) \cup Range(taken)

HandUnposted == \A s \in Sends : InHand(s) => s \notin posted

NewUntouched == \A s \in Sends : caller[s] = "new" => ~InHand(s) /\ s \notin posted

\* Only a caller past its deadline withdraws, and the CDP thread checks the deadline
\* before it calls the page.
AbandonedIsLate ==
  /\ \A s \in Sends : caller[s] = "leaving" => s \in late
  /\ abandoned \subseteq late
  /\ cdp.pc = "call" => cdp.send \notin abandoned

\* A posted send whose caller waits is in the table, or about to be.
AwaitedIsPending ==
  \A s \in Sends \cap posted :
    caller[s] = "waiting" /\ result[s] = None /\ OwnText(s)
      => s \in pending \/ (cdp.pc = "register" /\ cdp.send = s)

PlaceInv ==
  /\ Kinds /\ OnePlace /\ HandUnposted /\ NewUntouched
  /\ AbandonedIsLate /\ AbandonedIsUnsent
  /\ AwaitedIsPending /\ heard \subseteq posted /\ HeardIsConfirmed

LEMMA InitPlace == Init => PlaceInv
<1> SUFFICES ASSUME Init PROVE PlaceInv
  OBVIOUS
<1>1. Range(<<>>) = {} /\ Once(<<>>) /\ <<>> \in Seq(Sends)
  BY EmptySeq DEF Range, Once
<1> QED
  BY <1>1 DEF Init, Resting, PlaceInv, Kinds, OnePlace, InHand, HandUnposted, NewUntouched,
     AbandonedIsLate, AbandonedIsUnsent, AwaitedIsPending, HeardIsConfirmed

\* A send confirmed or heard is not in hand: the parts about receipts survive every
\* step that answers only sends in hand and takes no awaited send from the table.
LEMMA ReceiptPart ==
  ASSUME PlaceInv, UNCHANGED heard, posted \subseteq posted',
         \A s \in Sends \cap posted : result'[s] = result[s]
  PROVE  heard' \subseteq posted' /\ HeardIsConfirmed'
BY DEF PlaceInv, Kinds, HeardIsConfirmed, OwnText

LEMMA PlaceStep == PlaceInv /\ [Next]_vars => PlaceInv'
<1> SUFFICES ASSUME PlaceInv, [Next]_vars PROVE PlaceInv'
  OBVIOUS
<1>k. /\ Kinds /\ OnePlace /\ HandUnposted /\ NewUntouched
      /\ AbandonedIsLate /\ AbandonedIsUnsent
      /\ AwaitedIsPending /\ heard \subseteq posted /\ HeardIsConfirmed
  BY DEF PlaceInv
<1>a. /\ Sends \cap Others = {} /\ Sends \subseteq Messages
      /\ None \notin Sends /\ None \notin Statuses
  BY ReceiptAssumption DEF Messages
<1> USE DEF actions, waiters, page, history
\* A step that only moves sends between lists, hands and done.
<1>h. ASSUME Kinds', OnePlace', UNCHANGED <<posted, caller, late, pending, heard, abandoned>>,
             \A s \in Sends : InHand(s)' => InHand(s),
             \A s \in Sends : ~InHand(s) => result'[s] = result[s],
             \A s \in Sends : result'[s] = None => result[s] = None,
             cdp'.pc = "call" => cdp'.send \notin late,
             cdp.pc # "register"
      PROVE  PlaceInv'
  <2>1. HandUnposted' /\ NewUntouched'
    BY <1>h, <1>k DEF HandUnposted, NewUntouched
  <2>2. AbandonedIsLate' /\ AbandonedIsUnsent'
    BY <1>h, <1>k DEF AbandonedIsLate, AbandonedIsUnsent
  <2>3. \A s \in Sends \cap posted : result'[s] = result[s]
    BY <1>h, <1>k DEF HandUnposted
  <2>4. heard' \subseteq posted' /\ HeardIsConfirmed'
    BY <1>h, <2>3, ReceiptPart
  <2>5. AwaitedIsPending'
    BY <1>h, <2>3, <1>k DEF AwaitedIsPending, OwnText
  <2> QED
    BY <1>h, <2>1, <2>2, <2>4, <2>5 DEF PlaceInv
<1>1. ASSUME NEW s \in Sends, Post(s) PROVE PlaceInv'
  <2>1. /\ act' \in Seq(Sends) /\ Range(act') = Range(act) \cup {s}
        /\ ~InHand(s) /\ s \notin posted /\ Once(act')
    BY <1>1, <1>k, AppendOnce DEF Post, Kinds, NewUntouched, InHand, OnePlace
  <2>2. /\ caller' = [caller EXCEPT ![s] = "waiting"]
        /\ UNCHANGED <<taken, cdp, late, result, pending, posted, frames, heard, abandoned>>
    BY <1>1 DEF Post
  <2>3. Kinds' /\ OnePlace'
    BY <2>1, <2>2, <1>k DEF Kinds, OnePlace, InHand
  <2>4. \A d \in Sends : InHand(d)' => InHand(d) \/ d = s
    BY <2>1, <2>2 DEF InHand
  <2>5. HandUnposted' /\ NewUntouched'
    BY <2>1, <2>2, <2>4, <1>k DEF HandUnposted, NewUntouched, Kinds
  <2>6. AbandonedIsLate' /\ AbandonedIsUnsent'
    BY <2>2, <1>k DEF AbandonedIsLate, AbandonedIsUnsent, Kinds
  <2>7. AwaitedIsPending' /\ heard' \subseteq posted' /\ HeardIsConfirmed'
    BY <2>1, <2>2, <1>k DEF AwaitedIsPending, HeardIsConfirmed, OwnText, Kinds
  <2> QED
    BY <2>3, <2>5, <2>6, <2>7 DEF PlaceInv
<1>2. ASSUME NEW s \in Sends, Deadline(s) \/ Return(s) \/ GiveUp(s) PROVE PlaceInv'
  <2>1. UNCHANGED <<act, taken, cdp, result, pending, posted, frames, heard, abandoned>>
    BY <1>2 DEF Deadline, Return, GiveUp
  <2>2. /\ late \subseteq late'
        /\ \/ caller' = caller
           \/ caller' = [caller EXCEPT ![s] = "done"]
           \/ caller' = [caller EXCEPT ![s] = "leaving"] /\ s \in late
    BY <1>2 DEF Deadline, Return, GiveUp
  <2>3. Kinds' /\ OnePlace'
    BY <2>1, <2>2, <1>k DEF Kinds, OnePlace
  <2>4. HandUnposted' /\ NewUntouched'
    BY <2>1, <2>2, <1>k DEF HandUnposted, NewUntouched, InHand, Kinds
  <2>5. AbandonedIsLate' /\ AbandonedIsUnsent'
    BY <2>1, <2>2, <1>k DEF AbandonedIsLate, AbandonedIsUnsent, Kinds
  <2>6. AwaitedIsPending'
    BY <2>1, <2>2, <1>k DEF AwaitedIsPending, OwnText, Kinds
  <2>7. heard' \subseteq posted' /\ HeardIsConfirmed'
    BY <2>1, <1>k DEF HeardIsConfirmed, OwnText
  <2> QED
    BY <2>3, <2>4, <2>5, <2>6, <2>7 DEF PlaceInv
<1>3. ASSUME NEW s \in Sends, Withdraw(s) PROVE PlaceInv'
  <2>1. act' \in Seq(Sends) /\ Range(act') \subseteq Range(act) /\ Once(act')
    BY <1>3, <1>k, RemoveOnce DEF Withdraw, Kinds, OnePlace
  <2>2. /\ caller[s] = "leaving" /\ caller' = [caller EXCEPT ![s] = "done"]
        /\ pending' = pending \ SameKey(s)
        /\ UNCHANGED <<taken, cdp, late, result, posted, frames, heard>>
    BY <1>3 DEF Withdraw
  <2>3. abandoned' = abandoned \/ (abandoned' = abandoned \cup {s} /\ Unstarted(s))
    BY <1>3 DEF Withdraw
  <2>4. Kinds' /\ OnePlace'
    BY <2>1, <2>2, <2>3, <1>k DEF Kinds, OnePlace
  <2>5. \A d \in Sends : InHand(d)' => InHand(d)
    BY <2>1, <2>2 DEF InHand
  <2>6. HandUnposted' /\ NewUntouched'
    BY <2>2, <2>5, <1>k DEF HandUnposted, NewUntouched, Kinds
  <2>7. Unstarted(s) => InHand(s) /\ ~(cdp.pc = "call" /\ cdp.send = s)
    BY <1>k DEF Unstarted, InHand, OnePlace
  <2>8. AbandonedIsLate' /\ AbandonedIsUnsent'
    BY <2>2, <2>3, <2>7, <1>k
       DEF AbandonedIsLate, AbandonedIsUnsent, HandUnposted, Kinds
  <2>9. AwaitedIsPending'
    <3>1. \A d \in Sends : OwnText(d) /\ d \in SameKey(s) => d = s
      BY <1>a DEF OwnText, SameKey
    <3> QED
      BY <2>2, <3>1, <1>k DEF AwaitedIsPending, OwnText, Kinds
  <2>10. heard' \subseteq posted' /\ HeardIsConfirmed'
    BY <2>2, <1>k DEF HeardIsConfirmed, OwnText
  <2> QED
    BY <2>4, <2>6, <2>8, <2>9, <2>10 DEF PlaceInv
<1>4. CASE TakeActions
  <2>1. /\ taken' = act /\ act' = <<>> /\ cdp' = [pc |-> "next", send |-> None]
        /\ cdp.pc = "idle"
        /\ UNCHANGED <<caller, late, result, pending, posted, frames, heard, abandoned>>
    BY <1>4 DEF TakeActions
  <2>2. Range(<<>>) = {} /\ Once(<<>>) /\ <<>> \in Seq(Sends)
    BY EmptySeq DEF Range, Once
  <2>3. Kinds' /\ OnePlace'
    BY <2>1, <2>2, <1>k DEF Kinds, OnePlace
  <2>4. \A s \in Sends : InHand(s)' => InHand(s)
    BY <2>1, <2>2 DEF InHand
  <2> QED
    BY <2>1, <2>3, <2>4, <1>h
\* A send the CDP thread is through with, or asks the page about.
<1>b. ASSUME NEW s \in Sends, NEW status \in Statuses, Answer(s, status)
      PROVE  /\ result' \in [Sends -> Statuses \cup {None}]
             /\ cdp' = [pc |-> "next", send |-> None]
             /\ \A d \in Sends : d # s => result'[d] = result[d]
             /\ result'[s] # None
  BY <1>b, <1>k, <1>a DEF Answer, Kinds
<1>5. CASE StartSend
  <2>1. /\ UNCHANGED <<act, caller, late, pending, posted, frames, heard, abandoned>>
        /\ cdp.pc = "next"
    BY <1>5 DEF StartSend
  <2>2. CASE taken = <<>>
    <3>1. cdp' = Resting /\ UNCHANGED <<taken, result>>
      BY <1>5, <2>2 DEF StartSend
    <3>2. Kinds' /\ OnePlace'
      BY <2>1, <3>1, <1>k DEF Kinds, OnePlace, Resting
    <3>3. \A s \in Sends : InHand(s)' => InHand(s)
      BY <2>1, <3>1 DEF InHand, Resting
    <3> QED
      BY <2>1, <3>1, <3>2, <3>3, <1>h DEF Resting
  <2>3. CASE taken # <<>>
    <3>1. PICK s \in Sends : s = Head(taken)
      BY <2>3, <1>k, TailOnce DEF Kinds
    <3>2. /\ taken' = Tail(taken) /\ taken' \in Seq(Sends) /\ Once(taken')
          /\ s \in Range(taken) /\ s \notin Range(taken')
          /\ Range(taken') \subseteq Range(taken)
      <4>1. taken' = Tail(taken)
        BY <1>5, <2>3 DEF StartSend
      <4>2. taken \in Seq(Sends) /\ Once(taken)
        BY <1>k DEF Kinds, OnePlace
      <4> QED
        BY <2>3, <3>1, <4>1, <4>2, TailOnce
    <3>3. /\ result' \in [Sends -> Statuses \cup {None}]
          /\ \A d \in Sends : d # s => result'[d] = result[d]
          /\ result'[s] = None => result[s] = None
          /\ \/ cdp' = [pc |-> "next", send |-> None]
             \/ cdp' = [pc |-> "info", send |-> s]
      <4>1. CASE \E status \in {"blocked", "expired", "failed"} : Answer(s, status)
        BY <4>1, <1>b DEF Statuses
      <4>2. CASE cdp' = [pc |-> "info", send |-> s] /\ UNCHANGED result
        BY <4>2, <1>k DEF Kinds
      <4> QED
        BY <1>5, <2>3, <3>1, <4>1, <4>2 DEF StartSend
    <3>4. Kinds' /\ OnePlace'
      BY <2>1, <3>2, <3>3, <1>k DEF Kinds, OnePlace
    <3>5. InHand(s) /\ \A d \in Sends : InHand(d)' => InHand(d)
      BY <2>1, <3>2, <3>3 DEF InHand
    <3>6. /\ \A d \in Sends : ~InHand(d) => result'[d] = result[d]
          /\ \A d \in Sends : result'[d] = None => result[d] = None
          /\ cdp'.pc # "call"
      BY <3>3, <3>5
    <3> QED
      BY <2>1, <3>4, <3>5, <3>6, <1>h
  <2> QED
    BY <2>2, <2>3
<1>6. CASE CheckTarget
  <2>1. UNCHANGED <<act, taken, caller, late, pending, posted, frames, heard, abandoned>>
    BY <1>6 DEF CheckTarget
  <2>2. PICK s \in Sends : s = cdp.send /\ cdp.pc = "info"
    BY <1>6, <1>k DEF CheckTarget, Kinds
  <2>3. /\ result' \in [Sends -> Statuses \cup {None}]
        /\ \A d \in Sends : d # s => result'[d] = result[d]
        /\ result'[s] = None => result[s] = None
        /\ \/ cdp' = [pc |-> "next", send |-> None]
           \/ cdp' = [pc |-> "call", send |-> s] /\ s \notin late
    <3>1. CASE \E status \in {"blocked", "expired"} : Answer(s, status)
      BY <3>1, <1>b DEF Statuses
    <3>2. CASE cdp' = [cdp EXCEPT !.pc = "call"] /\ s \notin late /\ UNCHANGED result
      BY <2>2, <3>2, <1>k DEF Kinds
    <3> QED
      BY <1>6, <2>2, <3>1, <3>2 DEF CheckTarget
  <2>4. Kinds' /\ OnePlace'
    BY <2>1, <2>2, <2>3, <1>k DEF Kinds, OnePlace
  <2>5. InHand(s) /\ \A d \in Sends : InHand(d)' => InHand(d)
    BY <2>1, <2>2, <2>3 DEF InHand
  <2>6. /\ \A d \in Sends : ~InHand(d) => result'[d] = result[d]
        /\ \A d \in Sends : result'[d] = None => result[d] = None
        /\ cdp'.pc = "call" => cdp'.send \notin late
    BY <2>3, <2>5
  <2> QED
    BY <2>1, <2>2, <2>4, <2>5, <2>6, <1>h
<1>7. CASE CallPage
  <2>1. UNCHANGED <<act, taken, caller, late, pending, frames, heard, abandoned>>
    BY <1>7 DEF CallPage
  <2>2. PICK s \in Sends : s = cdp.send /\ cdp.pc = "call"
    BY <1>7, <1>k DEF CallPage, Kinds
  <2>3. InHand(s) /\ s \notin posted /\ s \notin abandoned
    BY <2>2, <1>k DEF InHand, HandUnposted, AbandonedIsLate
  <2>4. /\ result' \in [Sends -> Statuses \cup {None}]
        /\ \A d \in Sends : d # s => result'[d] = result[d]
        /\ \/ /\ posted' = posted \cup {s} /\ cdp' = [pc |-> "register", send |-> s]
           \/ /\ posted' \in {posted, posted \cup {s}} /\ result'[s] # None
              /\ cdp' = [pc |-> "next", send |-> None]
    <3>1. CASE /\ posted' = posted \cup {s} /\ UNCHANGED result
               /\ cdp' = [cdp EXCEPT !.pc = "register"]
      BY <2>2, <3>1, <1>k DEF Kinds
    <3>2. CASE posted' \in {posted, posted \cup {s}} /\ Answer(s, "failed")
      BY <3>2, <1>b DEF Statuses
    <3> QED
      BY <1>7, <2>2, <3>1, <3>2 DEF CallPage
  <2>5. Kinds' /\ OnePlace'
    BY <2>1, <2>2, <2>4, <1>k DEF Kinds, OnePlace
  <2>6. \A d \in Sends : InHand(d)' => InHand(d) /\ d # s
    BY <2>1, <2>2, <2>4, <1>k DEF InHand, OnePlace
  <2>7. HandUnposted'
    BY <2>4, <2>6, <1>k DEF HandUnposted
  <2>8. NewUntouched'
    BY <2>1, <2>3, <2>4, <2>6, <1>k DEF NewUntouched
  <2>9. AbandonedIsLate' /\ AbandonedIsUnsent'
    BY <2>1, <2>3, <2>4, <1>k DEF AbandonedIsLate, AbandonedIsUnsent
  <2>10. heard' \subseteq posted' /\ HeardIsConfirmed'
    BY <2>1, <2>3, <2>4, ReceiptPart
  <2>11. AwaitedIsPending'
    BY <2>1, <2>2, <2>3, <2>4, <1>k DEF AwaitedIsPending, OwnText
  <2> QED
    BY <2>5, <2>7, <2>8, <2>9, <2>10, <2>11 DEF PlaceInv
<1>8. CASE Register
  <2>1. /\ UNCHANGED <<act, taken, caller, late, result, posted, frames, heard, abandoned>>
        /\ cdp' = [pc |-> "next", send |-> None]
        /\ pending' = (pending \ SameKey(cdp.send)) \cup {cdp.send}
        /\ cdp.pc = "register" /\ cdp.send \in Sends
    BY <1>8, <1>k DEF Register, Kinds
  <2>2. Kinds' /\ OnePlace'
    BY <2>1, <1>k DEF Kinds, OnePlace
  <2>3. HandUnposted' /\ NewUntouched'
    BY <2>1, <1>k DEF HandUnposted, NewUntouched, InHand
  <2>4. AbandonedIsLate' /\ AbandonedIsUnsent'
    BY <2>1, <1>k DEF AbandonedIsLate, AbandonedIsUnsent
  <2>5. AwaitedIsPending'
    <3>1. \A d \in Sends : OwnText(d) /\ d \in SameKey(cdp.send) => d = cdp.send
      BY <2>1, <1>a DEF OwnText, SameKey
    <3> QED
      BY <2>1, <3>1, <1>k DEF AwaitedIsPending, OwnText
  <2>6. heard' \subseteq posted' /\ HeardIsConfirmed'
    BY <2>1, <1>k DEF HeardIsConfirmed, OwnText
  <2> QED
    BY <2>2, <2>3, <2>4, <2>5, <2>6 DEF PlaceInv
<1>9. ASSUME NEW m \in Messages, Type(m) \/ Deliver(m) PROVE PlaceInv'
  <2>1. /\ UNCHANGED <<act, taken, cdp, caller, late, result, pending, heard, abandoned>>
        /\ posted \subseteq posted' /\ posted' \cap Sends = posted \cap Sends
        /\ \A f \in frames' : f.of \in posted'
    BY <1>9, <1>k, <1>a DEF Type, Deliver, Kinds
  <2>2. Kinds' /\ OnePlace'
    BY <2>1, <1>k DEF Kinds, OnePlace
  <2>3. HandUnposted' /\ NewUntouched'
    BY <2>1, <1>k DEF HandUnposted, NewUntouched, InHand
  <2>4. AbandonedIsLate' /\ AbandonedIsUnsent'
    BY <2>1, <1>k DEF AbandonedIsLate, AbandonedIsUnsent, Kinds
  <2>5. AwaitedIsPending'
    BY <2>1, <1>k DEF AwaitedIsPending, OwnText
  <2>6. heard' \subseteq posted' /\ HeardIsConfirmed'
    BY <2>1, <1>k DEF HeardIsConfirmed, OwnText
  <2> QED
    BY <2>2, <2>3, <2>4, <2>5, <2>6 DEF PlaceInv
<1>10. ASSUME NEW f \in frames, Drain(f) PROVE PlaceInv'
  <2>1. /\ UNCHANGED <<act, taken, cdp, caller, late, posted, frames, abandoned>>
        /\ cdp.pc = "idle" /\ f.of \in posted
        /\ pending' = pending \ Confirmed(f)
        /\ result' = [s \in Sends |-> IF s \in Confirmed(f) THEN "confirmed" ELSE result[s]]
        /\ heard' = heard \cup
             {s \in Sends : s = f.of /\ caller[s] = "waiting" /\ result[s] = None}
    BY <1>10, <1>k DEF Drain, Kinds
  <2>2. Kinds' /\ OnePlace'
    BY <2>1, <1>k DEF Kinds, OnePlace, Statuses
  <2>3. HandUnposted' /\ NewUntouched'
    BY <2>1, <1>k DEF HandUnposted, NewUntouched, InHand
  <2>4. AbandonedIsLate' /\ AbandonedIsUnsent'
    BY <2>1, <1>k DEF AbandonedIsLate, AbandonedIsUnsent
  <2>5. AwaitedIsPending'
    BY <2>1, <1>a, <1>k DEF AwaitedIsPending, OwnText, Statuses
  <2>6. ASSUME NEW s \in Sends, s = f.of, caller[s] = "waiting", result[s] = None, OwnText(s)
        PROVE  s \in Confirmed(f)
    <3>1. s \in pending
      BY <2>1, <2>6, <1>k DEF AwaitedIsPending
    <3>2. SameText(f) \subseteq {s}
      <4>1. \A d \in SameText(f) : d \in Messages /\ Text[d] = Text[s]
        BY <2>6, <1>a, <1>k DEF SameText, Kinds
      <4> QED
        BY <2>6, <4>1 DEF OwnText
    <3>3. SameText(f) = {s} /\ Cardinality({s}) = 1
      BY <2>6, <3>1, <3>2, FS_Singleton DEF SameText
    <3> QED
      BY <3>3 DEF Confirmed, Exact
  <2>7. heard' \subseteq posted' /\ HeardIsConfirmed'
    BY <2>1, <2>6, <1>k DEF HeardIsConfirmed, OwnText, Kinds
  <2> QED
    BY <2>2, <2>3, <2>4, <2>5, <2>7 DEF PlaceInv
<1>11. CASE UNCHANGED vars
  BY <1>11, <1>k DEF vars, PlaceInv, Kinds, OnePlace, InHand, HandUnposted, NewUntouched,
     AbandonedIsLate, AbandonedIsUnsent, AwaitedIsPending, HeardIsConfirmed, OwnText
<1> QED
  BY <1>1, <1>2, <1>3, <1>4, <1>5, <1>6, <1>7, <1>8, <1>9, <1>10, <1>11 DEF Next, Call

\* A receipt drained while its caller waits confirms the send, even when it names the
\* seat or other sends were withdrawn meanwhile, if no other message has its text
\* (_handle_send_receipt).
THEOREM HeardConfirms == Spec => []HeardIsConfirmed
<1>1. PlaceInv => HeardIsConfirmed
  BY DEF PlaceInv
<1> QED
  BY InitPlace, PlaceStep, <1>1, PTL DEF Spec

\* A send withdrawn before the page was about to be called is never sent: the CDP
\* thread checks the deadline once more (send_and_wait, _do_send).
THEOREM AbandonedNeverLeaves == Spec => []AbandonedIsUnsent
<1>1. PlaceInv => AbandonedIsUnsent
  BY DEF PlaceInv
<1> QED
  BY InitPlace, PlaceStep, <1>1, PTL DEF Spec
=============================================================================
