-------------------------- MODULE OrderBufferProofs --------------------------
(***************************************************************************)
(* OrderBuffer proved for every choice of slots, indexes, timeouts and      *)
(* number of arrivals: its types, the order of its output, at-most-once in  *)
(* streaming mode, and that it implements OrderedDelivery.                  *)
(***************************************************************************)
EXTENDS OrderBuffer, FiniteSetTheorems, SequenceTheorems, TLAPS

-----------------------------------------------------------------------------
(* Sorting: what Sorted(S) returns for a finite set of batches with distinct *)
(* arrival numbers, and how sorted sequences concatenate.                    *)

AnyBatch == [slot : Nat, tx : Nat, seq : Nat]

(* No two members share an arrival number. *)
Distinct(S) == \A b, c \in S : b.seq = c.seq => b = c

(* Before is a strict order, total on batches with distinct arrival numbers. *)
LEMMA BeforeOrder ==
  ASSUME NEW a \in AnyBatch, NEW b \in AnyBatch, NEW c \in AnyBatch
  PROVE  /\ ~ Before(a, a)
         /\ Before(a, b) => ~ Before(b, a)
         /\ Before(a, b) /\ Before(b, c) => Before(a, c)
         /\ KeyLess(a, b) => Before(a, b)
         /\ a.seq # b.seq => Before(a, b) \/ Before(b, a)
BY DEF AnyBatch, Before, KeyLess

(* A member's rank is between 1 and the size, and ranks grow with the order. *)
LEMMA RankBounds ==
  ASSUME NEW S \in SUBSET AnyBatch, IsFiniteSet(S), NEW b \in S
  PROVE  Rank(b, S) \in 1 .. Cardinality(S)
<1> DEFINE L == {c \in S : ~ Before(b, c)}
<1>1. L \in SUBSET S  OBVIOUS
<1>2. b \in L  BY BeforeOrder
<1>3. IsFiniteSet(L) /\ Cardinality(L) <= Cardinality(S)  BY <1>1, FS_Subset
<1>4. Cardinality(L) # 0  BY <1>2, <1>3, FS_EmptySet
<1>5. Cardinality(L) \in Nat /\ Cardinality(S) \in Nat  BY <1>3, FS_CardinalityType
<1>6. Cardinality(L) \in 1 .. Cardinality(S)  BY <1>3, <1>4, <1>5
<1> QED  BY <1>6 DEF Rank

LEMMA RankMonotone ==
  ASSUME NEW S \in SUBSET AnyBatch, IsFiniteSet(S), NEW b \in S, NEW c \in S, Before(b, c)
  PROVE  Rank(b, S) < Rank(c, S)
<1> DEFINE L(x) == {d \in S : ~ Before(x, d)}
<1>1. L(b) \subseteq L(c)
  <2>1. SUFFICES ASSUME NEW d \in S, ~ Before(b, d), Before(c, d)  PROVE FALSE
    OBVIOUS
  <2> QED  BY <2>1, BeforeOrder
<1>2. c \in L(c) /\ c \notin L(b)  BY BeforeOrder
<1>3. L(c) \in SUBSET S  OBVIOUS
<1>4. IsFiniteSet(L(c))  BY <1>3, FS_Subset
<1>5. /\ IsFiniteSet(L(b)) /\ Cardinality(L(b)) <= Cardinality(L(c))
      /\ Cardinality(L(b)) # Cardinality(L(c))
  BY <1>1, <1>2, <1>4, FS_Subset
<1>6. Cardinality(L(b)) \in Nat /\ Cardinality(L(c)) \in Nat
  BY <1>4, <1>5, FS_CardinalityType
<1>7. Cardinality(L(b)) < Cardinality(L(c))  BY <1>5, <1>6
<1> QED  BY <1>7 DEF Rank

(* Every position of the sorted sequence is some member's rank. *)
LEMMA RankOnto ==
  ASSUME NEW S \in SUBSET AnyBatch, IsFiniteSet(S), Distinct(S),
         NEW i \in 1 .. Cardinality(S)
  PROVE  \E b \in S : Rank(b, S) = i
<1> DEFINE T == 1 .. Cardinality(S)
           f == [b \in S |-> Rank(b, S)]
<1>1. Cardinality(S) \in Nat  BY FS_CardinalityType
<1>2. IsFiniteSet(T) /\ Cardinality(T) = Cardinality(S)  BY <1>1, FS_Interval
<1>3. f \in [S -> T]  BY RankBounds
<1>4. ASSUME NEW b \in S, NEW c \in S, f[b] = f[c]  PROVE b = c
  <2>1. Rank(b, S) = Rank(c, S)  BY <1>4
  <2>2. Rank(b, S) \in Int /\ Rank(c, S) \in Int  BY RankBounds, <1>1
  <2>3. ~ Before(b, c) /\ ~ Before(c, b)  BY <2>1, <2>2, RankMonotone
  <2> QED  BY <2>3, BeforeOrder DEF Distinct
<1>5. f \in Injection(S, T)  BY <1>3, <1>4 DEF Injection, IsInjective
<1>6. f \in Surjection(S, T)  BY <1>2, <1>5, FS_Injection
<1> QED  BY <1>6 DEF Surjection

(* Sorted(S) lists S, each member once, in order. *)
THEOREM SortedLists ==
  ASSUME NEW B \in SUBSET AnyBatch, NEW S \in SUBSET B, IsFiniteSet(S), Distinct(S)
  PROVE  /\ Sorted(S) \in Seq(B)
         /\ Sorted(S) \in Seq(S)
         /\ Len(Sorted(S)) = Cardinality(S)
         /\ InOrder(Sorted(S))
         /\ Range(Sorted(S)) = S
<1> DEFINE n == Cardinality(S)
           s == Sorted(S)
<1>1. n \in Nat  BY FS_CardinalityType
<1>2. s = [i \in 1 .. n |-> CHOOSE b \in S : Rank(b, S) = i]  BY DEF Sorted
<1> HIDE DEF s
<1>3. ASSUME NEW i \in 1 .. n  PROVE s[i] \in S /\ Rank(s[i], S) = i
  <2>1. \E b \in S : Rank(b, S) = i  BY RankOnto
  <2> QED  BY <1>2, <2>1
<1>4. DOMAIN s = 1 .. n  BY <1>2
<1>5. s \in [1 .. n -> S]  BY <1>2, <1>3
<1>6. s \in Seq(S)  BY <1>1, <1>5
<1>7. s \in Seq(B)  BY <1>1, <1>5
<1>8. Len(s) = n  BY <1>1, <1>4, <1>6
<1>9. InOrder(s)
  <2>1. SUFFICES ASSUME NEW i \in 1 .. n, NEW j \in 1 .. n, i < j
                 PROVE  Before(s[i], s[j])
    BY <1>4 DEF InOrder
  <2>2. s[i] \in S /\ s[j] \in S /\ Rank(s[i], S) = i /\ Rank(s[j], S) = j
    BY <1>3
  <2>3. s[i] # s[j]  BY <2>1, <2>2
  <2>4. ~ Before(s[j], s[i])  BY <2>1, <2>2, RankMonotone
  <2> QED  BY <2>2, <2>3, <2>4, BeforeOrder DEF Distinct
<1>10. Range(s) = S
  <2>1. Range(s) \subseteq S  BY <1>3, <1>4 DEF Range
  <2>2. ASSUME NEW b \in S  PROVE b \in Range(s)
    <3> DEFINE i == Rank(b, S)
    <3>1. i \in 1 .. n  BY RankBounds
    <3>2. s[i] \in S /\ Rank(s[i], S) = Rank(b, S)  BY <1>3, <3>1
    <3>3. Rank(b, S) \in Int  BY <1>1, <3>1
    <3>4. ~ Before(s[i], b) /\ ~ Before(b, s[i])  BY <3>2, <3>3, RankMonotone
    <3>5. s[i] = b  BY <3>2, <3>4, BeforeOrder DEF Distinct
    <3> QED  BY <1>4, <3>1, <3>5 DEF Range
  <2> QED  BY <2>1, <2>2
<1> QED  BY <1>6, <1>7, <1>8, <1>9, <1>10 DEF s

LEMMA SortedEmpty == Sorted({}) = <<>>
<1>1. Cardinality({}) = 0  BY FS_EmptySet
<1> QED  BY <1>1 DEF Sorted

(* Two sorted sequences concatenate to a sorted one when the first is below. *)
LEMMA ConcatInOrder ==
  ASSUME NEW B \in SUBSET AnyBatch, NEW s \in Seq(B), NEW t \in Seq(B),
         InOrder(s), InOrder(t),
         \A b \in Range(s), c \in Range(t) : Before(b, c)
  PROVE  InOrder(s \o t)
<1>1. /\ s \o t \in Seq(B)
      /\ Len(s \o t) = Len(s) + Len(t)
      /\ \A i \in 1 .. Len(s) + Len(t) :
           (s \o t)[i] = IF i <= Len(s) THEN s[i] ELSE t[i - Len(s)]
  BY ConcatProperties
<1>2. SUFFICES ASSUME NEW i \in 1 .. Len(s) + Len(t), NEW j \in 1 .. Len(s) + Len(t), i < j
               PROVE  Before((s \o t)[i], (s \o t)[j])
  BY <1>1, LenProperties DEF InOrder
<1>3. /\ Len(s) \in Nat /\ DOMAIN s = 1 .. Len(s)
      /\ Len(t) \in Nat /\ DOMAIN t = 1 .. Len(t)
  BY LenProperties
<1>4. CASE j <= Len(s)
  <2>1. (s \o t)[i] = s[i] /\ (s \o t)[j] = s[j]  BY <1>1, <1>2, <1>3, <1>4
  <2>2. i \in DOMAIN s /\ j \in DOMAIN s  BY <1>2, <1>3, <1>4
  <2> QED  BY <1>2, <2>1, <2>2 DEF InOrder
<1>5. CASE i > Len(s)
  <2>1. (s \o t)[i] = t[i - Len(s)] /\ (s \o t)[j] = t[j - Len(s)]
    BY <1>1, <1>2, <1>3, <1>5
  <2>2. i - Len(s) \in DOMAIN t /\ j - Len(s) \in DOMAIN t /\ i - Len(s) < j - Len(s)
    BY <1>2, <1>3, <1>5
  <2> QED  BY <2>1, <2>2 DEF InOrder
<1>6. CASE i <= Len(s) /\ j > Len(s)
  <2>1. (s \o t)[i] = s[i] /\ (s \o t)[j] = t[j - Len(s)]
    BY <1>1, <1>2, <1>3, <1>6
  <2>2. i \in DOMAIN s /\ j - Len(s) \in DOMAIN t  BY <1>2, <1>3, <1>6
  <2>3. s[i] \in Range(s) /\ t[j - Len(s)] \in Range(t)  BY <2>2 DEF Range
  <2> QED  BY <2>1, <2>3
<1> QED  BY <1>2, <1>3, <1>4, <1>5, <1>6

(* A prefix of a sorted sequence is sorted, and below the rest. *)
LEMMA PrefixInOrder ==
  ASSUME NEW B \in SUBSET AnyBatch, NEW s \in Seq(B), InOrder(s), NEW n \in 0 .. Len(s)
  PROVE  LET p == SubSeq(s, 1, n) IN
         /\ p \in Seq(B)
         /\ Len(p) = n
         /\ \A i \in 1 .. n : p[i] = s[i]
         /\ InOrder(p)
         /\ Range(p) = {s[i] : i \in 1 .. n}
         /\ Range(s) \ Range(p) \subseteq {s[i] : i \in n + 1 .. Len(s)}
<1> DEFINE p == SubSeq(s, 1, n)
<1>1. Len(s) \in Nat /\ DOMAIN s = 1 .. Len(s) /\ \A i \in 1 .. Len(s) : s[i] \in B
  BY LenProperties, ElementOfSeq
<1>2. n \in Nat /\ n <= Len(s)  BY <1>1
<1>3. \A i \in 1 .. n : s[i] \in B  BY <1>1, <1>2
<1>4. /\ p \in Seq(B)
      /\ Len(p) = IF 1 <= n THEN n - 1 + 1 ELSE 0
      /\ \A i \in 1 .. n - 1 + 1 : p[i] = s[1 + i - 1]
  BY <1>2, <1>3, SubSeqProperties
<1> HIDE DEF p
<1>5. Len(p) = n  BY <1>2, <1>4
<1>6. \A i \in 1 .. n : p[i] = s[i]
  <2>1. ASSUME NEW i \in 1 .. n  PROVE p[i] = s[i]
    <3>1. i \in 1 .. n - 1 + 1 /\ 1 + i - 1 = i  BY <1>2
    <3> QED  BY <1>4, <3>1
  <2> QED  BY <2>1
<1>7. DOMAIN p = 1 .. n  BY <1>4, <1>5, LenProperties
<1>8. InOrder(p)
  <2>1. \A i \in 1 .. n : i \in DOMAIN s  BY <1>1, <1>2
  <2> QED  BY <1>6, <1>7, <2>1 DEF InOrder
<1>9. Range(p) = {s[i] : i \in 1 .. n}  BY <1>6, <1>7 DEF Range
<1>10. Range(s) \ Range(p) \subseteq {s[i] : i \in n + 1 .. Len(s)}
  <2>1. \A i \in 1 .. Len(s) : i \in 1 .. n \/ i \in n + 1 .. Len(s)  BY <1>1, <1>2
  <2> QED  BY <1>1, <1>9, <2>1 DEF Range
<1> QED  BY <1>4, <1>5, <1>6, <1>8, <1>9, <1>10 DEF p

(* A nonempty set of naturals has a minimum. *)
LEMMA LeastNatural ==
  ASSUME NEW S \in SUBSET Nat, S # {}
  PROVE  \E x \in S : \A y \in S : x <= y
<1>1. PICK x \in S : \A y \in S : ~ (<<y, x>> \in OpToRel(<, Nat))
  BY WFMin, NatLessThanWellFounded
<1>2. ASSUME NEW y \in S  PROVE x <= y
  <2>1. ~ (y < x)  BY <1>1 DEF OpToRel
  <2> QED  BY <2>1
<1> QED  BY <1>2

-----------------------------------------------------------------------------
(* The inductive invariant *)

Out == Range(emitted)

(* Arrival numbers tell batches apart and are never reused. *)
Fresh ==
  /\ \A b \in buffered \cup microBatch \cup Out : b.seq < seq
  /\ Distinct(buffered)
  /\ Distinct(microBatch)

(* Each mode uses its own holding area only. *)
ModeShape ==
  /\ mode \in {"Unordered", "MicroBatch"} => buffered = {}
  /\ mode # "MicroBatch" => microBatch = {}

Keeping == mode \in {"Ordered", "StreamingOrdered"}

(* What is buffered is past everything emitted, and the newest slot is real. *)
BufferAhead ==
  Keeping =>
    /\ \A b \in buffered, c \in Out : Before(c, b)
    /\ \A b \in buffered \cup Out : b.slot <= currentSlot
    /\ currentSlot > 0 => \E c \in buffered \cup Out : c.slot = currentSlot

(* Ordered: the watermark is the greatest place emitted, and behind the buffer. *)
OrderedMark ==
  mode = "Ordered" =>
    /\ \A b \in buffered : KeyLess(orderedWatermark, b)
    /\ \A c \in Out : ~ KeyLess(orderedWatermark, c)
    /\ orderedWatermark # NoPlace =>
         \E c \in Out : c.slot = orderedWatermark.slot /\ c.tx = orderedWatermark.tx

(* Streaming: no place is held or emitted twice, and the watermark is earned. *)
StreamMark ==
  mode = "StreamingOrdered" =>
    /\ \A b, c \in buffered \cup Out : b.slot = c.slot /\ b.tx = c.tx => b = c
    /\ Watermark(currentSlot) > 0 =>
         \E c \in Out : c.slot = currentSlot /\ c.tx = Watermark(currentSlot) - 1

IInv ==
  /\ TypeOK
  /\ Fresh
  /\ ModeShape
  /\ OutputInOrder
  /\ BufferAhead
  /\ OrderedMark
  /\ PendingMatchesBuffer
  /\ WatermarkIsProgress
  /\ StreamMark

-----------------------------------------------------------------------------

LEMMA BatchIsAny == Batch \subseteq AnyBatch
<1>1. 0 .. MaxArrivals - 1 \subseteq Nat  BY OrderBufferAssumption
<1>2. Slots \subseteq Nat /\ TxIndexes \subseteq Nat  BY OrderBufferAssumption
<1> QED  BY <1>1, <1>2 DEF Batch, AnyBatch

(* OrderedDelivery's copies of the order operators are the ones used here. *)
LEMMA SameOrder ==
  /\ \A a, b : Delivery!KeyLess(a, b) <=> KeyLess(a, b)
  /\ \A a, b : Delivery!Before(a, b) <=> Before(a, b)
  /\ \A s : Delivery!InOrder(s) <=> InOrder(s)
  /\ \A s : Delivery!Range(s) = Range(s)
BY DEF Delivery!KeyLess, KeyLess, Delivery!Before, Before, Delivery!InOrder, InOrder,
       Delivery!Range, Range

LEMMA InitInv == Init => IInv
<1> SUFFICES ASSUME Init PROVE IInv  OBVIOUS
<1>1. emitted = <<>> /\ Out = {}  BY DEF Init, Out, Range
<1>2. TypeOK
  <2>1. IsFiniteSet({})  BY FS_EmptySet
  <2>2. DOMAIN watermarks = {}  BY DEF Init
  <2> QED  BY <2>1, <2>2, OrderBufferAssumption DEF Init, TypeOK, NoPlace
<1>3. Fresh /\ ModeShape  BY <1>1 DEF Init, Fresh, ModeShape, Distinct
<1>4. OutputInOrder  BY <1>1 DEF Init, OutputInOrder, InOrder
<1>5. BufferAhead /\ OrderedMark  BY <1>1 DEF Init, BufferAhead, OrderedMark
<1>6. PendingMatchesBuffer /\ WatermarkIsProgress /\ StreamMark
  <2>1. DOMAIN watermarks = {}  BY DEF Init
  <2>2. Watermark(currentSlot) = 0  BY <2>1 DEF Watermark
  <2> QED  BY <1>1, <2>1, <2>2 DEF Init, PendingMatchesBuffer, WatermarkIsProgress, StreamMark
<1> QED  BY <1>2, <1>3, <1>4, <1>5, <1>6 DEF IInv

LEMMA EmittedGrows ==
  ASSUME emitted \in Seq(Batch), NEW out \in Seq(Batch), emitted' = emitted \o out
  PROVE  emitted' \in Seq(Batch) /\ Out' = Out \cup Range(out)
<1>1. emitted \o out \in Seq(Batch)  BY ConcatProperties
<1>2. Range(emitted \o out) = Range(emitted) \cup Range(out)  BY RangeConcatenation
<1> QED  BY <1>1, <1>2 DEF Out

(* What a step hands over is what it appended. *)
LEMMA EmittedTail ==
  ASSUME emitted \in Seq(Batch), NEW out \in Seq(Batch), emitted' = emitted \o out
  PROVE  /\ Len(emitted') = Len(emitted) + Len(out)
         /\ SubSeq(emitted', Len(emitted) + 1, Len(emitted')) = out
<1> DEFINE m == Len(emitted) + 1
           n == Len(emitted')
           tail == SubSeq(emitted', m, n)
<1>1. /\ Len(emitted') = Len(emitted) + Len(out)
      /\ Len(emitted) \in Nat /\ Len(out) \in Nat
      /\ \A i \in 1 .. Len(emitted) + Len(out) :
           emitted'[i] = IF i <= Len(emitted) THEN emitted[i] ELSE out[i - Len(emitted)]
  BY ConcatProperties, LenProperties
<1>2. emitted' \in Seq(Batch)  BY EmittedGrows
<1>3. \A i \in m .. n : emitted'[i] \in Batch  BY <1>1, <1>2, ElementOfSeq
<1>4. /\ tail \in Seq(Batch)
      /\ Len(tail) = IF m <= n THEN n - m + 1 ELSE 0
      /\ \A i \in 1 .. n - m + 1 : tail[i] = emitted'[m + i - 1]
  BY <1>1, <1>3, SubSeqProperties
<1>5. Len(tail) = Len(out)  BY <1>1, <1>4
<1>6. ASSUME NEW i \in 1 .. Len(out)  PROVE tail[i] = out[i]
  <2>1. i \in 1 .. n - m + 1  BY <1>1
  <2>2. m + i - 1 = Len(emitted) + i  BY <1>1
  <2>3. Len(emitted) + i \in 1 .. Len(emitted) + Len(out)  BY <1>1
  <2>4. emitted'[Len(emitted) + i] = out[Len(emitted) + i - Len(emitted)]  BY <1>1, <2>3
  <2> QED  BY <1>1, <1>4, <2>1, <2>2, <2>4
<1>7. tail = out  BY <1>4, <1>5, <1>6, SeqEqual
<1> QED  BY <1>1, <1>7

(* Handing over a lower part S of W, listed in order, keeps the output in    *)
(* order and behind what is left, and is a step of OrderedDelivery.          *)
LEMMA HandOverStep ==
  ASSUME emitted \in Seq(Batch), InOrder(emitted),
         NEW W \in SUBSET Batch, NEW S \in SUBSET W,
         \A c \in Out, b \in W : Before(c, b),
         \A b \in S, c \in W \ S : Before(b, c),
         NEW out \in Seq(Batch), InOrder(out), Range(out) = S,
         emitted' = emitted \o out
  PROVE  /\ emitted' \in Seq(Batch)
         /\ InOrder(emitted')
         /\ Out' = Out \cup S
         /\ \A c \in Out', b \in W \ S : Before(c, b)
         /\ buffered' = W \ S => Delivery!HandOver(W, S)
<1>1. emitted' \in Seq(Batch)  BY EmittedGrows
<1>2. Out' = Out \cup S  BY EmittedGrows
<1>3. InOrder(emitted')  BY ConcatInOrder, BatchIsAny DEF Out
<1>4. \A c \in Out', b \in W \ S : Before(c, b)  BY <1>2
<1>5. ASSUME buffered' = W \ S  PROVE Delivery!HandOver(W, S)
  <2> DEFINE tail == SubSeq(emitted', Len(emitted) + 1, Len(emitted'))
  <2>2. tail = out  BY EmittedTail
  <2>3. emitted' = emitted \o tail /\ Delivery!InOrder(tail) /\ Delivery!Range(tail) = S
    BY <2>2, SameOrder
  <2> HIDE DEF tail
  <2>4. \E o \in {tail} : emitted' = emitted \o o /\ Delivery!InOrder(o) /\ Delivery!Range(o) = S
    BY <2>3
  <2>5. \A b \in S, c \in W \ S : Delivery!Before(b, c)  BY SameOrder
  <2> QED  BY <1>5, <2>4, <2>5 DEF Delivery!HandOver, tail
<1> QED  BY <1>1, <1>2, <1>3, <1>4, <1>5

-----------------------------------------------------------------------------
(* Steps that move neither the batches nor the marks. *)

LEMMA QuietStep ==
  ASSUME IInv, TypeOK', seq <= seq',
         UNCHANGED <<mode, buffered, watermarks, pendingIndexes, microBatch, currentSlot,
                     orderedWatermark, emitted>>
  PROVE  IInv'
<1>1. Out' = Out  BY DEF Out
<1>2. Watermark(currentSlot)' = Watermark(currentSlot)  BY DEF Watermark
<1>3. Fresh'
  <2>1. \A b \in buffered \cup microBatch \cup Out : b.seq < seq'
    <3>1. seq \in Int /\ seq' \in Int  BY DEF IInv, TypeOK
    <3>2. ASSUME NEW b \in buffered \cup microBatch \cup Out  PROVE b.seq < seq'
      <4>1. b.seq < seq  BY DEF IInv, Fresh
      <4>2. b \in Batch  BY RangeOfSeq DEF IInv, TypeOK, Out
      <4>3. b.seq \in Int  BY <4>2 DEF Batch
      <4> QED  BY <3>1, <4>1, <4>3
    <3> QED  BY <3>2
  <2> QED  BY <1>1, <2>1 DEF IInv, Fresh
<1>4. ModeShape' /\ BufferAhead' /\ OrderedMark'
  BY <1>1 DEF IInv, ModeShape, BufferAhead, OrderedMark, Keeping
<1>5. OutputInOrder'  BY DEF IInv, OutputInOrder
<1>6. PendingMatchesBuffer' /\ WatermarkIsProgress'
  BY DEF IInv, PendingMatchesBuffer, WatermarkIsProgress, Watermark
<1>7. StreamMark'  BY <1>1, <1>2 DEF IInv, StreamMark
<1> QED  BY <1>3, <1>4, <1>5, <1>6, <1>7 DEF IInv

LEMMA TickInv == IInv /\ Tick => IInv'
<1> SUFFICES ASSUME IInv, Tick PROVE IInv'  OBVIOUS
<1>1. TypeOK'
  <2>1. flushAge' \in 0 .. OrderTimeout + 1 /\ microAge' \in 0 .. MicroWindow
    BY OrderBufferAssumption, SMTT(30) DEF IInv, TypeOK, Tick
  <2> QED  BY <2>1 DEF IInv, TypeOK, Tick, progress, history
<1>2. seq <= seq'  BY DEF IInv, TypeOK, Tick
<1> QED  BY <1>1, <1>2, QuietStep DEF Tick, progress, history

-----------------------------------------------------------------------------
(* An arrival: the batch takes the next arrival number. *)

Arrives(b) ==
  /\ b \in Batch
  /\ b.seq = seq
  /\ seq' = seq + 1
  /\ seq' \in 0 .. MaxArrivals
  /\ mode' = mode

LEMMA ArrivalIsNew ==
  ASSUME IInv, NEW b, Arrives(b)
  PROVE  /\ \A c \in buffered \cup microBatch \cup Out : c.seq < b.seq /\ c # b
         /\ \A c \in buffered \cup microBatch \cup Out \cup {b} : c.seq < seq' /\ c \in Batch
         /\ Distinct(buffered \cup {b})
         /\ Distinct(microBatch \cup {b})
<1>1. \A c \in buffered \cup microBatch \cup Out : c \in Batch
  BY RangeOfSeq DEF IInv, TypeOK, Out
<1>2. \A c \in Batch : c.seq \in Int  BY DEF Batch
<1>3. seq \in Int  BY DEF IInv, TypeOK
<1>4. \A c \in buffered \cup microBatch \cup Out : c.seq < b.seq
  BY DEF IInv, Fresh, Arrives
<1>5. \A c \in buffered \cup microBatch \cup Out : c # b
  BY <1>2, <1>3, <1>4 DEF Arrives
<1>6. ASSUME NEW c \in buffered \cup microBatch \cup Out \cup {b}
      PROVE  c.seq < seq' /\ c \in Batch
  <2>1. c \in Batch  BY <1>1 DEF Arrives
  <2>2. c.seq <= seq  BY <1>1, <1>2, <1>3, <1>4 DEF Arrives
  <2> QED  BY <1>2, <1>3, <2>1, <2>2 DEF Arrives
<1>7. Distinct(buffered \cup {b}) /\ Distinct(microBatch \cup {b})
  <2>1. \A c \in buffered \cup microBatch : c.seq # b.seq
    BY <1>1, <1>2, <1>4 DEF Arrives
  <2> QED  BY <2>1 DEF IInv, Fresh, Distinct
<1> QED  BY <1>4, <1>5, <1>6, <1>7

(* Refusing an arrival is sound when its place, or a later one, is taken. *)
LEMMA RefuseStep ==
  ASSUME IInv, NEW b, b \in Batch, refused' = refused \cup {b},
         UNCHANGED <<buffered, emitted>>,
         \E c \in buffered \cup Out : ~ KeyLess(c, b)
  PROVE  Delivery!Refuse(b)
<1>1. Delivery!Taken = buffered \cup Out
  BY SameOrder DEF Delivery!Taken, Out
<1> QED  BY <1>1, SameOrder DEF Delivery!Refuse

LEMMA PushOrderedLateInv ==
  ASSUME IInv, NEW b, Arrives(b), PushOrderedLate(b)
  PROVE  IInv' /\ Delivery!Refuse(b)
<1> USE DEF PushOrderedLate, progress
<1>1. TypeOK'
  <2>1. orderedLate' \in Nat  BY DEF IInv, TypeOK
  <2>2. refused' \subseteq Batch  BY DEF IInv, TypeOK, Refuse, Arrives
  <2> QED  BY <2>1, <2>2 DEF IInv, TypeOK, Arrives
<1>2. seq <= seq'  BY DEF IInv, TypeOK, Arrives
<1>3. IInv'  BY <1>1, <1>2, QuietStep DEF Arrives
<1>4. \E c \in buffered \cup Out : ~ KeyLess(c, b)
  <2>1. b \in Batch /\ b.slot \in Nat /\ b.tx \in Nat
    BY BatchIsAny DEF Arrives, AnyBatch
  <2>2. CASE b.slot < currentSlot
    <3>1. currentSlot > 0
      <4>1. currentSlot \in Nat  BY OrderBufferAssumption DEF IInv, TypeOK
      <4> QED  BY <2>1, <2>2, <4>1
    <3>2. PICK c \in buffered \cup Out : c.slot = currentSlot
      BY <3>1 DEF IInv, BufferAhead, Keeping
    <3>3. ~ KeyLess(c, b)
      <4>1. currentSlot \in Nat  BY OrderBufferAssumption DEF IInv, TypeOK
      <4> QED  BY <2>1, <2>2, <3>2, <4>1 DEF KeyLess
    <3> QED  BY <3>3
  <2>3. CASE ~ KeyLess(orderedWatermark, b)
    <3>1. orderedWatermark # NoPlace  BY <2>1, <2>3 DEF KeyLess, NoPlace
    <3>2. PICK c \in Out : c.slot = orderedWatermark.slot /\ c.tx = orderedWatermark.tx
      BY <3>1 DEF IInv, OrderedMark
    <3> QED  BY <2>3, <3>2 DEF KeyLess
  <2> QED  BY <2>2, <2>3 DEF IsLate
<1>5. Delivery!Refuse(b)
  BY <1>4, RefuseStep DEF Arrives, Refuse
<1> QED  BY <1>3, <1>5

-----------------------------------------------------------------------------
(* The modes that promise no order. *)

LEMMA UnorderedModes ==
  ASSUME mode' \in {"Unordered", "MicroBatch"}, TypeOK', Fresh', ModeShape'
  PROVE  IInv'
<1>1. BufferAhead' /\ OrderedMark' /\ StreamMark'
  BY DEF BufferAhead, OrderedMark, StreamMark, Keeping
<1>2. OutputInOrder' /\ PendingMatchesBuffer' /\ WatermarkIsProgress'
  BY DEF OutputInOrder, PendingMatchesBuffer, WatermarkIsProgress
<1> QED  BY <1>1, <1>2 DEF IInv

LEMMA PushUnorderedInv ==
  ASSUME IInv, NEW b, Arrives(b), PushUnordered(b)
  PROVE  IInv'
<1> USE DEF PushUnordered, progress
<1>1. <<b>> \in Seq(Batch) /\ Range(<<b>>) = {b}  BY DEF Arrives, Range
<1>2. emitted \in Seq(Batch)  BY DEF IInv, TypeOK
<1>3. emitted' = emitted \o <<b>> /\ orderedWatermark' = orderedWatermark
  BY DEF Emit
<1>4. emitted' \in Seq(Batch) /\ Out' = Out \cup Range(<<b>>)
  BY <1>1, <1>2, <1>3, EmittedGrows
<1>5. Out' = Out \cup {b}  BY <1>1, <1>4
<1>6. TypeOK'  BY <1>3, <1>4 DEF IInv, TypeOK, Arrives
<1>7. Fresh'  BY <1>5, ArrivalIsNew DEF IInv, Fresh
<1>8. ModeShape'  BY DEF IInv, ModeShape, Arrives
<1> QED  BY <1>6, <1>7, <1>8, UnorderedModes DEF Arrives

LEMMA SortedHeld ==
  ASSUME IInv, NEW S, S \subseteq buffered \/ S \subseteq microBatch
  PROVE  /\ Sorted(S) \in Seq(Batch)
         /\ InOrder(Sorted(S))
         /\ Range(Sorted(S)) = S
         /\ Len(Sorted(S)) = Cardinality(S)
         /\ S = {} => Sorted(S) = <<>>
         /\ IsFiniteSet(S)
<1>1. S \subseteq Batch /\ IsFiniteSet(S)  BY FS_Subset DEF IInv, TypeOK
<1>2. Distinct(S)  BY DEF IInv, Fresh, Distinct
<1>3. Batch \in SUBSET AnyBatch /\ S \in SUBSET Batch  BY <1>1, BatchIsAny
<1>4. /\ Sorted(S) \in Seq(Batch)
      /\ InOrder(Sorted(S))
      /\ Range(Sorted(S)) = S
      /\ Len(Sorted(S)) = Cardinality(S)
  BY <1>1, <1>2, <1>3, SortedLists
<1> QED  BY <1>1, <1>4, SortedEmpty

LEMMA PushMicroBatchInv ==
  ASSUME IInv, NEW b, Arrives(b), PushMicroBatch(b)
  PROVE  IInv'
<1> DEFINE age  == IF microBatch = {} THEN 0 ELSE microAge
           full == age >= MicroWindow
           held == microBatch \cup {b}
           out  == IF full THEN Sorted(held) ELSE <<>>
<1>1. /\ mode = "MicroBatch"
      /\ Emit(out)
      /\ microBatch' = IF full THEN {} ELSE held
      /\ microAge' = IF full THEN 0 ELSE age
      /\ flushAge' = IF full THEN 0 ELSE flushAge
      /\ UNCHANGED <<buffered, watermarks, pendingIndexes, currentSlot, orderedLate, refused>>
  BY DEF PushMicroBatch, Window, progress
<1>2. held \subseteq Batch /\ IsFiniteSet(held) /\ Distinct(held)
  BY ArrivalIsNew, FS_AddElement DEF IInv, TypeOK
<1>3. Sorted(held) \in Seq(Batch) /\ Range(Sorted(held)) = held
  BY <1>2, SortedLists, BatchIsAny
<1>4. out \in Seq(Batch) /\ Range(out) \subseteq held
  <2>1. <<>> \in Seq(Batch) /\ Range(<<>>) = {}  BY DEF Range
  <2> QED  BY <1>3, <2>1
<1>5. emitted' = emitted \o out /\ orderedWatermark' = orderedWatermark
  BY <1>1 DEF Emit
<1>6. emitted' \in Seq(Batch) /\ Out' = Out \cup Range(out)
  BY <1>4, <1>5, EmittedGrows DEF IInv, TypeOK
<1>7. TypeOK'
  <2>1. microBatch' \subseteq Batch /\ IsFiniteSet(microBatch')
    BY <1>1, <1>2, FS_EmptySet
  <2>2. age \in 0 .. MicroWindow  BY OrderBufferAssumption DEF IInv, TypeOK
  <2>3. microAge' \in 0 .. MicroWindow /\ flushAge' \in 0 .. OrderTimeout + 1
    BY <1>1, <2>2, OrderBufferAssumption DEF IInv, TypeOK
  <2> QED  BY <1>1, <1>5, <1>6, <2>1, <2>3 DEF IInv, TypeOK, Arrives
<1>8. Fresh'
  <2>1. microBatch' \subseteq held /\ Distinct(microBatch')  BY <1>1, <1>2 DEF Distinct
  <2>2. \A c \in buffered' \cup microBatch' \cup Out' :
          c \in buffered \cup microBatch \cup Out \cup {b}
    BY <1>1, <1>4, <1>6, <2>1
  <2> QED  BY <1>1, <2>1, <2>2, ArrivalIsNew DEF IInv, Fresh
<1>9. ModeShape'  BY <1>1 DEF IInv, ModeShape, Arrives
<1> QED  BY <1>1, <1>7, <1>8, <1>9, UnorderedModes DEF Arrives

-----------------------------------------------------------------------------
(* Ordered mode. *)

(* The last batch of a sorted sequence has the greatest place in it. *)
LEMMA LastIsGreatest ==
  ASSUME NEW out \in Seq(Batch), InOrder(out), out # <<>>
  PROVE  /\ out[Len(out)] \in Range(out)
         /\ \A c \in Range(out) : ~ KeyLess(out[Len(out)], c)
<1>1. Len(out) \in Nat \ {0} /\ DOMAIN out = 1 .. Len(out)  BY LenProperties, EmptySeq
<1>2. out[Len(out)] \in Range(out)  BY <1>1 DEF Range
<1>3. ASSUME NEW i \in 1 .. Len(out)  PROVE ~ KeyLess(out[Len(out)], out[i])
  <2>1. out[i] \in AnyBatch /\ out[Len(out)] \in AnyBatch
    BY <1>1, ElementOfSeq, BatchIsAny
  <2>2. CASE i = Len(out)  BY <2>1, <2>2 DEF KeyLess, AnyBatch
  <2>3. CASE i < Len(out)
    <3>1. i \in DOMAIN out /\ Len(out) \in DOMAIN out  BY <1>1
    <3>2. Before(out[i], out[Len(out)])  BY <2>3, <3>1 DEF InOrder
    <3> QED  BY <2>1, <3>2, BeforeOrder
  <2>4. i = Len(out) \/ i < Len(out)
    <3>1. Len(out) \in Int  BY LenProperties
    <3>2. i \in Int /\ i <= Len(out)  BY <3>1
    <3> QED  BY <3>1, <3>2
  <2> QED  BY <2>2, <2>3, <2>4
<1> QED  BY <1>1, <1>2, <1>3 DEF Range

(* Emission keeps the watermark at the greatest place emitted. *)
LEMMA EmitMark ==
  ASSUME IInv, mode = "Ordered",
         NEW S \in SUBSET Batch, NEW out \in Seq(Batch), InOrder(out), Range(out) = S,
         \A c \in Out, d \in S : Before(c, d),
         Emit(out)
  PROVE  /\ orderedWatermark' \in [slot : Slots, tx : TxIndexes] \cup {NoPlace}
         /\ \A c \in Out \cup S : ~ KeyLess(orderedWatermark', c)
         /\ orderedWatermark' # NoPlace =>
              \E c \in Out \cup S : c.slot = orderedWatermark'.slot /\ c.tx = orderedWatermark'.tx
         /\ S = {} => orderedWatermark' = orderedWatermark
         /\ S # {} => \E c \in S : c.slot = orderedWatermark'.slot /\ c.tx = orderedWatermark'.tx
<1>1. CASE out = <<>>
  <2>1. S = {}  BY <1>1 DEF Range
  <2>2. orderedWatermark' = orderedWatermark  BY <1>1 DEF Emit
  <2> QED  BY <2>1, <2>2 DEF IInv, TypeOK, OrderedMark
<1>2. CASE out # <<>>
  <2> DEFINE l == out[Len(out)]
  <2>1. l \in S /\ \A c \in S : ~ KeyLess(l, c)  BY <1>2, LastIsGreatest
  <2>2. l \in Batch  BY <2>1
  <2>3. orderedWatermark' = [slot |-> l.slot, tx |-> l.tx]  BY <1>2 DEF Emit
  <2> HIDE DEF l
  <2>4. orderedWatermark'.slot = l.slot /\ orderedWatermark'.tx = l.tx  BY <2>3
  <2>5. \A c : KeyLess(orderedWatermark', c) <=> KeyLess(l, c)  BY <2>4 DEF KeyLess
  <2>6. ASSUME NEW c \in Out  PROVE ~ KeyLess(l, c)
    <3>1. Before(c, l)  BY <2>1
    <3>2. c \in AnyBatch /\ l \in AnyBatch
      BY <2>2, BatchIsAny, RangeOfSeq DEF IInv, TypeOK, Out
    <3> QED  BY <3>1, <3>2, BeforeOrder
  <2>7. orderedWatermark' \in [slot : Slots, tx : TxIndexes]  BY <2>2, <2>3 DEF Batch
  <2> QED  BY <2>1, <2>4, <2>5, <2>6, <2>7
<1> QED  BY <1>1, <1>2

LEMMA PushOrderedInv ==
  ASSUME IInv, NEW b, Arrives(b), PushOrdered(b)
  PROVE  IInv' /\ Delivery!Accept(b)
<1> DEFINE S == ClosedBy(b)
           W == buffered \cup {b}
           out == Sorted(S)
<1>1. /\ mode = "Ordered"
      /\ b.slot >= currentSlot
      /\ KeyLess(orderedWatermark, b)
      /\ Emit(out)
      /\ buffered' = (buffered \ S) \cup {b}
      /\ currentSlot' = IF b.slot > currentSlot THEN b.slot ELSE currentSlot
      /\ flushAge' \in {0, flushAge}
      /\ UNCHANGED <<watermarks, pendingIndexes, microBatch, orderedLate, microAge, refused>>
  <2>1. b.slot \in Int /\ currentSlot \in Int
    BY BatchIsAny, OrderBufferAssumption DEF Arrives, IInv, TypeOK, AnyBatch
  <2>2. ~ (b.slot < currentSlot)  BY DEF PushOrdered, IsLate
  <2> QED  BY <2>1, <2>2 DEF PushOrdered, IsLate
<1>2. b \in Batch /\ b \in AnyBatch /\ b \notin buffered
  BY BatchIsAny, ArrivalIsNew DEF Arrives
<1>3. /\ S \subseteq buffered
      /\ \A c \in S : c.slot < b.slot
      /\ S # {} => \A c \in buffered \ S : ~ (c.slot < b.slot)
      /\ b.slot > currentSlot /\ currentSlot > 0 => S = {c \in buffered : c.slot < b.slot}
  BY DEF ClosedBy, InSlotsBefore
<1> HIDE DEF S
<1>4. \A c \in buffered \cup Out : c \in AnyBatch /\ c.slot \in Nat
  <2>1. \A c \in buffered \cup Out : c \in AnyBatch
    BY BatchIsAny, RangeOfSeq DEF IInv, TypeOK, Out
  <2> QED  BY <2>1 DEF AnyBatch
<1>5. \A c \in Out : KeyLess(c, b)
  <2>1. \A c \in Out : ~ KeyLess(orderedWatermark, c)  BY <1>1 DEF IInv, OrderedMark
  <2>2. orderedWatermark.slot \in Int /\ orderedWatermark.tx \in Int
    <3>1. orderedWatermark \in [slot : Slots, tx : TxIndexes] \/ orderedWatermark = NoPlace
      BY DEF IInv, TypeOK
    <3>2. Slots \subseteq Nat /\ TxIndexes \subseteq Nat  BY OrderBufferAssumption
    <3>3. CASE orderedWatermark \in [slot : Slots, tx : TxIndexes]
      <4>1. orderedWatermark.slot \in Slots /\ orderedWatermark.tx \in TxIndexes  BY <3>3
      <4>2. orderedWatermark.slot \in Nat /\ orderedWatermark.tx \in Nat  BY <3>2, <4>1
      <4> QED  BY <4>2
    <3>4. CASE orderedWatermark = NoPlace
      <4>1. orderedWatermark.slot = -1 /\ orderedWatermark.tx = -1  BY <3>4 DEF NoPlace
      <4> QED  BY <4>1
    <3> QED  BY <3>1, <3>3, <3>4
  <2> QED  BY <1>1, <1>2, <1>4, <2>1, <2>2 DEF KeyLess, AnyBatch
<1>6. \A c \in Out, d \in W : Before(c, d)
  <2>1. \A c \in Out, d \in buffered : Before(c, d)  BY <1>1 DEF IInv, BufferAhead, Keeping
  <2> QED  BY <1>2, <1>4, <1>5, <2>1, BeforeOrder
<1>7. \A c \in S, d \in W \ S : Before(c, d)
  BY <1>2, <1>3, <1>4 DEF Before, KeyLess, AnyBatch
<1>8. out \in Seq(Batch) /\ InOrder(out) /\ Range(out) = S  BY <1>3, SortedHeld
<1>9. emitted \in Seq(Batch) /\ InOrder(emitted) /\ W \subseteq Batch
  BY <1>1, <1>2 DEF IInv, TypeOK, OutputInOrder
<1>10. S \subseteq W /\ W \ S = buffered'  BY <1>1, <1>2, <1>3
<1>11. emitted' = emitted \o out  BY <1>1 DEF Emit
<1> HIDE DEF out
<1>12. /\ emitted' \in Seq(Batch)
       /\ InOrder(emitted')
       /\ Out' = Out \cup S
       /\ \A c \in Out', d \in W \ S : Before(c, d)
       /\ Delivery!HandOver(W, S)
  BY <1>6, <1>7, <1>8, <1>9, <1>10, <1>11, HandOverStep, ZenonT(60)
<1>13. /\ orderedWatermark' \in [slot : Slots, tx : TxIndexes] \cup {NoPlace}
       /\ \A c \in Out \cup S : ~ KeyLess(orderedWatermark', c)
       /\ orderedWatermark' # NoPlace =>
            \E c \in Out \cup S :
              c.slot = orderedWatermark'.slot /\ c.tx = orderedWatermark'.tx
       /\ S = {} => orderedWatermark' = orderedWatermark
       /\ S # {} => \E c \in S : c.slot = orderedWatermark'.slot /\ c.tx = orderedWatermark'.tx
  BY <1>1, <1>6, <1>8, <1>9, <1>10, EmitMark
<1>14. TypeOK'
  <2>1. IsFiniteSet(buffered \ S)  BY FS_Difference DEF IInv, TypeOK
  <2>2. buffered' \subseteq Batch /\ IsFiniteSet(buffered')
    BY <1>1, <1>9, <1>10, <2>1, FS_AddElement, SMTT(60)
  <2>3. currentSlot' \in Slots \cup {0}  BY <1>1, <1>2 DEF IInv, TypeOK, Batch
  <2>4. flushAge' \in 0 .. OrderTimeout + 1
    BY <1>1, OrderBufferAssumption DEF IInv, TypeOK
  <2> QED  BY <1>1, <1>12, <1>13, <2>2, <2>3, <2>4 DEF IInv, TypeOK, Arrives
<1>15. Fresh'
  <2>1. buffered' \subseteq buffered \cup {b} /\ microBatch' = microBatch
    BY <1>1
  <2>2. Distinct(buffered') /\ Distinct(microBatch')
    BY <2>1, ArrivalIsNew DEF Distinct
  <2> QED  BY <1>3, <1>12, <2>1, <2>2, ArrivalIsNew DEF IInv, Fresh
<1>16. ModeShape'  BY <1>1 DEF IInv, ModeShape, Arrives
<1>17. BufferAhead'
  <2>1. currentSlot \in Nat  BY OrderBufferAssumption DEF IInv, TypeOK
  <2>2. currentSlot' = b.slot  BY <1>1, <1>2, <2>1 DEF AnyBatch
  <2>3. \A c \in buffered \cup Out : c.slot <= currentSlot
    BY <1>1 DEF IInv, BufferAhead, Keeping
  <2>4. \A c \in buffered' \cup Out' : c.slot <= b.slot
    <3>1. \A c \in buffered \cup Out : c.slot <= b.slot
      BY <1>1, <1>2, <1>4, <2>1, <2>3 DEF AnyBatch
    <3> QED  BY <1>1, <1>2, <1>3, <1>12, <3>1 DEF AnyBatch
  <2>5. b \in buffered'  BY <1>1
  <2> QED  BY <1>10, <1>12, <2>2, <2>4, <2>5 DEF BufferAhead
<1>18. OrderedMark'
  <2>1. ASSUME NEW c \in buffered'  PROVE KeyLess(orderedWatermark', c)
    <3>1. CASE S = {}
      BY <1>1, <1>13, <2>1, <3>1 DEF IInv, OrderedMark
    <3>2. CASE S # {}
      <4>1. PICK d \in S : d.slot = orderedWatermark'.slot /\ d.tx = orderedWatermark'.tx
        BY <1>13, <3>2
      <4>2. d.slot < b.slot /\ (c = b \/ ~ (c.slot < b.slot))
        BY <1>1, <1>3, <2>1, <3>2
      <4>3. d.slot \in Int /\ c.slot \in Int /\ b.slot \in Int
        BY <1>1, <1>2, <1>3, <1>4, <2>1 DEF AnyBatch
      <4> QED  BY <4>1, <4>2, <4>3 DEF KeyLess
    <3> QED  BY <3>1, <3>2
  <2> QED  BY <1>12, <1>13, <2>1 DEF OrderedMark
<1>19. OutputInOrder' /\ PendingMatchesBuffer' /\ WatermarkIsProgress' /\ StreamMark'
  BY <1>1, <1>12
     DEF Arrives, OutputInOrder, PendingMatchesBuffer, WatermarkIsProgress, StreamMark
<1>20. Delivery!Accept(b)
  <2>1. \A i \in DOMAIN emitted : Before(emitted[i], b)
    BY <1>6 DEF Out, Range
  <2>2. S \in SUBSET (buffered \cup {b})  BY <1>10
  <2> QED  BY <1>1, <1>12, <2>1, <2>2, SameOrder DEF Delivery!Accept
<1> QED
  BY <1>14, <1>15, <1>16, <1>17, <1>18, <1>19, <1>20 DEF IInv

-----------------------------------------------------------------------------
(* Streaming mode. *)

LEMMA StreamTypes ==
  ASSUME IInv, NEW b, Arrives(b)
  PROVE  /\ b \in Batch /\ b \in AnyBatch /\ b.slot \in Nat /\ b.tx \in Nat
         /\ \A c \in buffered \cup Out : c \in Batch /\ c \in AnyBatch /\ c.slot \in Nat /\ c.tx \in Nat
         /\ currentSlot \in Nat
         /\ Watermark(currentSlot) \in Nat
<1>1. \A c \in buffered \cup Out \cup {b} : c \in Batch
  BY RangeOfSeq DEF IInv, TypeOK, Out, Arrives
<1>2. \A c \in AnyBatch : c.slot \in Nat /\ c.tx \in Nat  BY DEF AnyBatch
<1>3. currentSlot \in Nat  BY OrderBufferAssumption DEF IInv, TypeOK
<1>4. Watermark(currentSlot) \in Nat  BY DEF IInv, TypeOK, Watermark
<1> QED  BY <1>1, <1>2, <1>3, <1>4, BatchIsAny

(* What _push_streaming works on: a newer slot closes everything buffered. *)
LEMMA Opened ==
  ASSUME IInv, mode = "StreamingOrdered", NEW b, Arrives(b), b.slot >= currentSlot
  PROVE  /\ b.slot > currentSlot =>
              /\ OpenedBy(b).closed = buffered
              /\ DOMAIN OpenedBy(b).marks = {}
              /\ OpenedBy(b).pending = {}
              /\ OpenedBy(b).age = 0
              /\ Expected(b) = 0
         /\ b.slot = currentSlot =>
              /\ OpenedBy(b).closed = {}
              /\ OpenedBy(b).marks = watermarks
              /\ OpenedBy(b).pending = pendingIndexes
              /\ OpenedBy(b).age = flushAge
              /\ Expected(b) = Watermark(currentSlot)
<1>1. ASSUME b.slot > currentSlot
      PROVE  /\ OpenedBy(b).closed = buffered
             /\ DOMAIN OpenedBy(b).marks = {}
             /\ OpenedBy(b).pending = {}
             /\ OpenedBy(b).age = 0
             /\ Expected(b) = 0
  <2>1. \A c \in buffered : c.slot < b.slot
    BY <1>1, StreamTypes DEF IInv, PendingMatchesBuffer
  <2>2. InSlotsBefore(b.slot) = buffered  BY <2>1 DEF InSlotsBefore
  <2>3. {t \in DOMAIN watermarks : t >= b.slot} = {}
    BY <1>1, StreamTypes DEF IInv, WatermarkIsProgress
  <2>4. /\ OpenedBy(b).closed = buffered
        /\ OpenedBy(b).marks = [s \in {t \in DOMAIN watermarks : t >= b.slot} |-> watermarks[s]]
        /\ OpenedBy(b).pending = {}
        /\ OpenedBy(b).age = 0
    BY <1>1, <2>2 DEF OpenedBy
  <2>5. DOMAIN OpenedBy(b).marks = {}  BY <2>3, <2>4
  <2> QED  BY <2>4, <2>5 DEF Expected
<1>2. ASSUME b.slot = currentSlot
      PROVE  /\ OpenedBy(b).closed = {}
             /\ OpenedBy(b).marks = watermarks
             /\ OpenedBy(b).pending = pendingIndexes
             /\ OpenedBy(b).age = flushAge
             /\ Expected(b) = Watermark(currentSlot)
  <2>1. ~ (b.slot > currentSlot)  BY <1>2, StreamTypes
  <2>2. /\ OpenedBy(b).closed = {}
        /\ OpenedBy(b).marks = watermarks
        /\ OpenedBy(b).pending = pendingIndexes
        /\ OpenedBy(b).age = flushAge
    BY <2>1 DEF OpenedBy
  <2> QED  BY <1>2, <2>2 DEF Expected, Watermark
<1> QED  BY <1>1, <1>2

LEMMA PushStreamingStaleInv ==
  ASSUME IInv, NEW b, Arrives(b), PushStreamingStale(b)
  PROVE  IInv' /\ Delivery!Refuse(b)
<1> USE DEF PushStreamingStale, progress
<1>1. TypeOK'
  <2>1. refused' \subseteq Batch  BY DEF IInv, TypeOK, Refuse, Arrives
  <2> QED  BY <2>1 DEF IInv, TypeOK, Arrives
<1>2. seq <= seq'  BY DEF IInv, TypeOK, Arrives
<1>3. IInv'  BY <1>1, <1>2, QuietStep DEF Arrives
<1>4. \E c \in buffered \cup Out : ~ KeyLess(c, b)
  <2>1. CASE b.slot < currentSlot
    <3>1. currentSlot > 0  BY <2>1, StreamTypes
    <3>2. PICK c \in buffered \cup Out : c.slot = currentSlot
      BY <3>1 DEF IInv, BufferAhead, Keeping
    <3>3. ~ KeyLess(c, b)  BY <2>1, <3>2, StreamTypes DEF KeyLess
    <3> QED  BY <3>3
  <2>2. CASE b.slot > currentSlot
    <3>1. Expected(b) = 0 /\ OpenedBy(b).pending = {}  BY <2>2, Opened, StreamTypes
    <3>2. FALSE  BY <2>2, <3>1, StreamTypes DEF IsStale
    <3> QED  BY <3>2
  <2>3. CASE b.slot = currentSlot
    <3>1. Expected(b) = Watermark(currentSlot) /\ OpenedBy(b).pending = pendingIndexes
      BY <2>3, Opened, StreamTypes
    <3>2. CASE b.tx < Watermark(currentSlot)
      <4>1. PICK c \in Out : c.slot = currentSlot /\ c.tx = Watermark(currentSlot) - 1
        BY <3>2, StreamTypes DEF IInv, StreamMark
      <4>2. ~ KeyLess(c, b)  BY <2>3, <3>2, <4>1, StreamTypes DEF KeyLess
      <4> QED  BY <4>2
    <3>3. CASE b.tx \in pendingIndexes
      <4>1. PICK c \in buffered : c.slot = currentSlot /\ c.tx = b.tx
        BY <3>3 DEF IInv, PendingMatchesBuffer
      <4>2. ~ KeyLess(c, b)  BY <2>3, <4>1, StreamTypes DEF KeyLess
      <4> QED  BY <4>2
    <3>4. b.tx < Watermark(currentSlot) \/ b.tx \in pendingIndexes
      BY <2>3, <3>1, StreamTypes DEF IsStale
    <3> QED  BY <3>2, <3>3, <3>4
  <2> QED  BY <2>1, <2>2, <2>3, StreamTypes
<1>5. Delivery!Refuse(b)  BY <1>4, RefuseStep DEF Arrives, Refuse
<1> QED  BY <1>3, <1>5

LEMMA PushStreamingAheadInv ==
  ASSUME IInv, NEW b, Arrives(b), PushStreamingAhead(b)
  PROVE  IInv' /\ Delivery!Accept(b)
<1> DEFINE S == OpenedBy(b).closed
           W == buffered \cup {b}
           out == Sorted(S)
<1>1. /\ mode = "StreamingOrdered"
      /\ b.slot >= currentSlot
      /\ b.tx > Expected(b)
      /\ b.tx \notin OpenedBy(b).pending
      /\ Emit(out)
      /\ buffered' = (buffered \ S) \cup {b}
      /\ watermarks' = OpenedBy(b).marks
      /\ pendingIndexes' = OpenedBy(b).pending \cup {b.tx}
      /\ currentSlot' = b.slot
      /\ flushAge' = OpenedBy(b).age
      /\ UNCHANGED <<microBatch, orderedLate, microAge, refused>>
  BY DEF PushStreamingAhead
<1>2. \/ /\ b.slot > currentSlot
         /\ S = buffered
         /\ DOMAIN watermarks' = {}
         /\ OpenedBy(b).pending = {}
         /\ flushAge' = 0
         /\ Expected(b) = 0
      \/ /\ b.slot = currentSlot
         /\ S = {}
         /\ watermarks' = watermarks
         /\ OpenedBy(b).pending = pendingIndexes
         /\ flushAge' = flushAge
         /\ Expected(b) = Watermark(currentSlot)
  BY <1>1, Opened, StreamTypes
<1> HIDE DEF S
<1>3. /\ b \notin buffered /\ b \in Batch
      /\ emitted \in Seq(Batch) /\ InOrder(emitted) /\ W \subseteq Batch
  BY <1>1, ArrivalIsNew DEF Arrives, IInv, TypeOK, OutputInOrder
<1>4. /\ \A c \in buffered : c.slot = currentSlot
      /\ \A c \in buffered : c.tx > Watermark(currentSlot)
      /\ \A c \in Out : c.slot <= currentSlot
      /\ \A c \in Out : c.slot = currentSlot => c.tx < Watermark(currentSlot)
  <2>1. \A c \in buffered : c.slot = currentSlot /\ c.tx > Watermark(currentSlot)
    BY <1>1 DEF IInv, PendingMatchesBuffer
  <2>2. \A i \in DOMAIN emitted :
          /\ emitted[i].slot <= currentSlot
          /\ emitted[i].slot = currentSlot => emitted[i].tx < Watermark(currentSlot)
    BY <1>1 DEF IInv, WatermarkIsProgress, Watermark
  <2> QED  BY <2>1, <2>2 DEF Out, Range
<1>5. \A c \in Out : KeyLess(c, b)
  BY <1>1, <1>2, <1>4, StreamTypes DEF KeyLess
<1>6. \A c \in Out, d \in W : Before(c, d)
  <2>1. \A c \in Out, d \in buffered : Before(c, d)  BY <1>1 DEF IInv, BufferAhead, Keeping
  <2> QED  BY <1>5, <2>1, StreamTypes, BeforeOrder
<1>7. \A c \in S, d \in W \ S : Before(c, d)
  BY <1>2, <1>4, StreamTypes DEF Before, KeyLess
<1>8. S \subseteq buffered  BY <1>2
<1>9. out \in Seq(Batch) /\ InOrder(out) /\ Range(out) = S  BY <1>8, SortedHeld
<1>10. S \subseteq W /\ W \ S = buffered'  BY <1>1, <1>3, <1>8
<1>11. emitted' = emitted \o out /\ orderedWatermark' = orderedWatermark
  BY <1>1 DEF Emit
<1> HIDE DEF out
<1>12. /\ emitted' \in Seq(Batch)
       /\ InOrder(emitted')
       /\ Out' = Out \cup S
       /\ \A c \in Out', d \in W \ S : Before(c, d)
       /\ Delivery!HandOver(W, S)
  <2>1. W \in SUBSET Batch /\ S \in SUBSET W  BY <1>3, <1>10
  <2>2. emitted' = emitted \o out /\ buffered' = W \ S  BY <1>10, <1>11
  <2>3. emitted \in Seq(Batch) /\ InOrder(emitted)  BY <1>3
  <2> HIDE DEF W
  <2> QED  BY <1>6, <1>7, <1>9, <2>1, <2>2, <2>3, HandOverStep
<1>13. TypeOK'
  <2>1. IsFiniteSet(buffered \ S)  BY FS_Difference DEF IInv, TypeOK
  <2>2. buffered' \subseteq Batch /\ IsFiniteSet(buffered')
    BY <1>1, <1>3, <1>10, <2>1, FS_AddElement
  <2>3. currentSlot' \in Slots \cup {0} /\ b.tx \in TxIndexes
    BY <1>1, <1>3 DEF Batch
  <2>4. flushAge' \in 0 .. OrderTimeout + 1
    BY <1>2, OrderBufferAssumption DEF IInv, TypeOK
  <2>5. /\ DOMAIN watermarks' \subseteq Slots
        /\ watermarks' \in [DOMAIN watermarks' -> Nat]
    <3>1. CASE b.slot > currentSlot
      <4>1. DOMAIN watermarks' = {}  BY <1>2, <3>1, StreamTypes
      <4>2. watermarks' = [s \in DOMAIN watermarks' |-> watermarks'[s]]
        BY <1>1, <3>1 DEF OpenedBy
      <4> QED  BY <4>1, <4>2
    <3>2. CASE b.slot = currentSlot
      <4>1. watermarks' = watermarks  BY <1>2, <3>2, StreamTypes
      <4> QED  BY <4>1 DEF IInv, TypeOK
    <3> QED  BY <1>2, <3>1, <3>2
  <2>6. pendingIndexes' \subseteq TxIndexes
    BY <1>1, <1>2, <2>3 DEF IInv, TypeOK
  <2> QED
    BY <1>1, <1>11, <1>12, <2>2, <2>3, <2>4, <2>5, <2>6 DEF IInv, TypeOK, Arrives
<1>14. Fresh'
  <2>1. buffered' \subseteq buffered \cup {b} /\ microBatch' = microBatch
    BY <1>1
  <2>2. Distinct(buffered') /\ Distinct(microBatch')
    BY <2>1, ArrivalIsNew DEF Distinct
  <2> QED  BY <1>8, <1>12, <2>1, <2>2, ArrivalIsNew DEF IInv, Fresh
<1>15. ModeShape'  BY <1>1 DEF IInv, ModeShape, Arrives
<1>16. BufferAhead'
  <2>1. \A c \in buffered \cup Out : c.slot <= b.slot
    BY <1>1, <1>4, StreamTypes
  <2>2. b \in buffered'  BY <1>1
  <2>3. \A c \in buffered' \cup Out' : c.slot <= b.slot
    <3>1. b.slot <= b.slot  BY StreamTypes
    <3> QED  BY <1>1, <1>8, <1>12, <2>1, <3>1
  <2> QED  BY <1>1, <1>10, <1>12, <2>2, <2>3 DEF BufferAhead
<1>17. Watermark(b.slot)' = Expected(b)
  <2>1. CASE b.slot > currentSlot
    <3>1. DOMAIN watermarks' = {} /\ Expected(b) = 0  BY <1>2, <2>1, StreamTypes
    <3> QED  BY <3>1 DEF Watermark
  <2>2. CASE b.slot = currentSlot
    <3>1. watermarks' = watermarks /\ Expected(b) = Watermark(currentSlot)
      BY <1>2, <2>2, StreamTypes
    <3> QED  BY <2>2, <3>1 DEF Watermark
  <2> QED  BY <1>2, <2>1, <2>2
<1>18. PendingMatchesBuffer'
  <2>1. ASSUME NEW c \in buffered'
        PROVE  c.slot = b.slot /\ c.tx > Expected(b)
    <3>1. c = b \/ (c \in buffered /\ b.slot = currentSlot)  BY <1>1, <1>2
    <3> QED  BY <1>1, <1>2, <1>4, <3>1, StreamTypes
  <2>2. pendingIndexes' = {c.tx : c \in buffered'}
    BY <1>1, <1>2 DEF IInv, PendingMatchesBuffer
  <2>3. ASSUME NEW c \in buffered', NEW d \in buffered', c.tx = d.tx  PROVE c = d
    BY <1>1, <1>2, <2>3 DEF IInv, PendingMatchesBuffer
  <2> QED  BY <1>1, <1>17, <2>1, <2>2, <2>3 DEF PendingMatchesBuffer
<1>19. WatermarkIsProgress'
  <2>1. DOMAIN watermarks' \subseteq {b.slot}
    BY <1>1, <1>2 DEF IInv, WatermarkIsProgress
  <2>2. \A c \in Out' : c.slot <= b.slot  BY <1>1, <1>4, <1>8, <1>12, StreamTypes
  <2>3. ASSUME NEW c \in Out', c.slot = b.slot
        PROVE  b.slot \in DOMAIN watermarks' /\ c.tx < watermarks'[b.slot]
    <3>1. b.slot = currentSlot /\ c \in Out  BY <1>2, <1>4, <1>12, <2>3, StreamTypes
    <3>2. watermarks' = watermarks  BY <1>2, <3>1, StreamTypes
    <3>3. \A i \in DOMAIN emitted : emitted[i].slot = currentSlot =>
            currentSlot \in DOMAIN watermarks /\ emitted[i].tx < watermarks[currentSlot]
      BY <1>1 DEF IInv, WatermarkIsProgress
    <3> QED  BY <2>3, <3>1, <3>2, <3>3 DEF Out, Range
  <2>4. \A i \in DOMAIN emitted' : emitted'[i] \in Out'  BY DEF Out, Range
  <2> QED  BY <1>1, <2>1, <2>2, <2>3, <2>4 DEF WatermarkIsProgress
<1>20. StreamMark'
  <2>1. ASSUME NEW c \in buffered' \cup Out', NEW d \in buffered' \cup Out',
               c.slot = d.slot, c.tx = d.tx
        PROVE  c = d
    <3>1. c \in buffered \cup Out \cup {b} /\ d \in buffered \cup Out \cup {b}
      BY <1>1, <1>8, <1>12
    <3>2. \A e \in buffered \cup Out : ~ (e.slot = b.slot /\ e.tx = b.tx)
      <4>1. \A e \in Out : ~ (e.slot = b.slot /\ e.tx = b.tx)
        BY <1>5, StreamTypes DEF KeyLess
      <4>2. \A e \in buffered : ~ (e.slot = b.slot /\ e.tx = b.tx)
        BY <1>1, <1>2, <1>4, StreamTypes DEF IInv, PendingMatchesBuffer
      <4> QED  BY <4>1, <4>2
    <3> QED  BY <1>1, <2>1, <3>1, <3>2 DEF IInv, StreamMark
  <2>2. ASSUME Watermark(b.slot)' > 0
        PROVE  \E c \in Out' : c.slot = b.slot /\ c.tx = Watermark(b.slot)' - 1
    <3>1. b.slot = currentSlot /\ Watermark(b.slot)' = Watermark(currentSlot)
      BY <1>2, <1>17, <2>2, StreamTypes
    <3> QED  BY <1>1, <1>12, <2>2, <3>1 DEF IInv, StreamMark
  <2> QED  BY <1>1, <2>1, <2>2 DEF StreamMark
<1>21. OutputInOrder' /\ OrderedMark'
  BY <1>1, <1>12 DEF Arrives, OutputInOrder, OrderedMark
<1>22. Delivery!Accept(b)
  <2>1. \A i \in DOMAIN emitted : Before(emitted[i], b)
    BY <1>6 DEF Out, Range
  <2>2. S \in SUBSET (buffered \cup {b})  BY <1>10
  <2> QED  BY <1>1, <1>12, <2>1, <2>2, SameOrder DEF Delivery!Accept
<1> QED
  BY <1>13, <1>14, <1>15, <1>16, <1>18, <1>19, <1>20, <1>21, <1>22 DEF IInv

(* The run behind index t: indexes t + 1 .. t + n, and a real gap after it.  *)
LEMMA RunIsContiguous ==
  ASSUME NEW queue \in Seq(Batch), InOrder(queue), NEW t \in Nat,
         \A c, d \in Range(queue) : c.slot = d.slot,
         \A c, d \in Range(queue) : c.tx = d.tx => c = d,
         \A c \in Range(queue) : c.tx > t,
         NEW n, n = RunLength(queue, t + 1)
  PROVE  /\ n \in 0 .. Len(queue)
         /\ \A i \in 1 .. n : queue[i].tx = t + i
         /\ \A i \in n + 1 .. Len(queue) : queue[i].tx > t + 1 + n
<1> DEFINE D == {m \in 0 .. Len(queue) : m < Len(queue) => queue[m + 1].tx # t + 1 + m}
<1>1. /\ Len(queue) \in Nat /\ DOMAIN queue = 1 .. Len(queue)
      /\ \A i \in 1 .. Len(queue) : queue[i] \in AnyBatch /\ queue[i] \in Range(queue)
  BY LenProperties, ElementOfSeq, BatchIsAny DEF Range
<1>2. n \in D /\ \A m \in D : n <= m
  <2>1. D \in SUBSET Nat /\ Len(queue) \in D  BY <1>1
  <2>2. \E x \in D : \A m \in D : x <= m  BY <2>1, LeastNatural
  <2>3. n = CHOOSE x \in D : \A m \in D : x <= m  BY DEF RunLength, Min
  <2> HIDE DEF D
  <2> QED  BY <2>2, <2>3
<1>3. n \in 0 .. Len(queue) /\ (n < Len(queue) => queue[n + 1].tx # t + 1 + n)
  BY <1>2
<1>4. ASSUME NEW i \in 1 .. n  PROVE queue[i].tx = t + i
  <2>1. i - 1 \in 0 .. Len(queue) /\ i - 1 < n /\ i - 1 < Len(queue) /\ n \in Int
    BY <1>1, <1>3
  <2>2. i - 1 \notin D  BY <1>2, <2>1
  <2>3. queue[i - 1 + 1].tx = t + 1 + (i - 1)  BY <2>1, <2>2
  <2>4. i - 1 + 1 = i /\ t + 1 + (i - 1) = t + i  BY <1>1, <1>3
  <2> QED  BY <2>3, <2>4
<1>5. \A i \in 1 .. Len(queue) : queue[i].tx \in Int /\ queue[i].seq \in Int /\ queue[i].slot \in Int
  BY <1>1 DEF AnyBatch
<1>6. ASSUME NEW i \in 1 .. Len(queue), NEW j \in 1 .. Len(queue), i < j
      PROVE  queue[i].tx < queue[j].tx
  <2>1. Before(queue[i], queue[j])  BY <1>1, <1>6 DEF InOrder
  <2>2. queue[i] # queue[j]  BY <1>1, <2>1, BeforeOrder
  <2>3. queue[i].slot = queue[j].slot /\ queue[i].tx # queue[j].tx  BY <1>1, <2>2
  <2> QED  BY <1>5, <2>1, <2>3 DEF Before, KeyLess
<1>7. ASSUME NEW i \in n + 1 .. Len(queue)  PROVE queue[i].tx > t + 1 + n
  <2>1. n < Len(queue) /\ n + 1 \in 1 .. Len(queue) /\ i \in 1 .. Len(queue) /\ n \in Nat
    BY <1>1, <1>3
  <2>2. queue[n + 1].tx > t + n
    <3>1. CASE n = 0  BY <1>1, <2>1, <3>1
    <3>2. CASE n # 0
      <4>1. n \in 1 .. n /\ n \in 1 .. Len(queue) /\ n < n + 1  BY <1>1, <1>3, <2>1, <3>2
      <4>2. queue[n].tx = t + n  BY <1>4, <4>1
      <4>3. queue[n].tx < queue[n + 1].tx  BY <1>6, <2>1, <4>1
      <4> QED  BY <4>2, <4>3
    <3> QED  BY <3>1, <3>2
  <2>3. queue[n + 1].tx > t + 1 + n  BY <1>3, <1>5, <2>1, <2>2
  <2>4. CASE i = n + 1  BY <2>3, <2>4
  <2>5. CASE i # n + 1
    <3>1. n + 1 < i  BY <2>1, <2>5
    <3>2. queue[n + 1].tx < queue[i].tx  BY <1>6, <2>1, <3>1
    <3> QED  BY <1>5, <2>1, <2>3, <3>2
  <2> QED  BY <2>4, <2>5
<1> QED  BY <1>3, <1>4, <1>7

(* What opening b's slot leaves buffered, in terms of the expected index b.  *)
LEMMA OpenedSplit ==
  ASSUME IInv, mode = "StreamingOrdered", NEW b, Arrives(b), b.slot >= currentSlot,
         b.tx = Expected(b)
  PROVE  LET C == OpenedBy(b).closed
             Q == {c \in buffered : c.slot = b.slot} IN
         /\ C \cup Q = buffered /\ C \cap Q = {}
         /\ \A c \in C \cup Out : KeyLess(c, b)
         /\ \A c \in Q : c.slot = b.slot /\ c.tx > b.tx
         /\ OpenedBy(b).pending = {c.tx : c \in Q}
         /\ DOMAIN OpenedBy(b).marks \subseteq {b.slot}
<1> DEFINE C == OpenedBy(b).closed
           Q == {c \in buffered : c.slot = b.slot}
<1>1. /\ \A c \in buffered : c.slot = currentSlot /\ c.tx > Watermark(currentSlot)
      /\ pendingIndexes = {c.tx : c \in buffered}
      /\ DOMAIN watermarks \subseteq {currentSlot}
  BY DEF IInv, PendingMatchesBuffer, WatermarkIsProgress
<1>2. \A c \in Out : /\ c.slot <= currentSlot
                     /\ c.slot = currentSlot => c.tx < Watermark(currentSlot)
  <2>1. \A i \in DOMAIN emitted :
          /\ emitted[i].slot <= currentSlot
          /\ emitted[i].slot = currentSlot => emitted[i].tx < Watermark(currentSlot)
    BY DEF IInv, WatermarkIsProgress, Watermark
  <2> QED  BY <2>1 DEF Out, Range
<1>3. CASE b.slot > currentSlot
  <2>1. /\ C = buffered /\ OpenedBy(b).pending = {} /\ DOMAIN OpenedBy(b).marks = {}
    BY <1>3, Opened
  <2>2. Q = {}  BY <1>1, <1>3, StreamTypes
  <2>3. \A c \in C \cup Out : KeyLess(c, b)
    BY <1>1, <1>2, <1>3, <2>1, StreamTypes DEF KeyLess
  <2> HIDE DEF C, Q
  <2> QED  BY <2>1, <2>2, <2>3 DEF C, Q
<1>4. CASE b.slot = currentSlot
  <2>1. /\ C = {} /\ OpenedBy(b).pending = pendingIndexes
        /\ DOMAIN OpenedBy(b).marks \subseteq {b.slot}
        /\ b.tx = Watermark(currentSlot)
    BY <1>1, <1>4, Opened
  <2>2. Q = buffered  BY <1>1, <1>4
  <2>3. \A c \in C \cup Out : KeyLess(c, b)
    BY <1>2, <1>4, <2>1, StreamTypes DEF KeyLess
  <2>4. \A c \in Q : c.slot = b.slot /\ c.tx > b.tx  BY <1>1, <1>4, <2>1, <2>2
  <2>5. OpenedBy(b).pending = {c.tx : c \in Q}  BY <1>1, <2>1, <2>2
  <2> HIDE DEF C, Q
  <2> QED  BY <2>1, <2>2, <2>3, <2>4, <2>5 DEF C, Q
<1> QED  BY <1>3, <1>4, StreamTypes

LEMMA PushStreamingNextInv ==
  ASSUME IInv, NEW b, Arrives(b), PushStreamingNext(b)
  PROVE  IInv' /\ Delivery!Accept(b)
<1> DEFINE C == OpenedBy(b).closed
           Q == {c \in buffered : c.slot = b.slot}
           queue == SlotQueue(b.slot)
           n == RunLength(queue, b.tx + 1)
           run == SubSeq(queue, 1, n)
           R == Range(run)
           S == C \cup {b} \cup R
           W == buffered \cup {b}
           out == Sorted(C) \o <<b>> \o run
           w == b.tx + 1 + n
<1>1. /\ mode = "StreamingOrdered"
      /\ b.slot >= currentSlot
      /\ b.tx = Expected(b)
      /\ Emit(out)
      /\ buffered' = buffered \ (C \cup R)
      /\ watermarks' = [s \in DOMAIN OpenedBy(b).marks \cup {b.slot} |->
                          IF s = b.slot THEN w ELSE OpenedBy(b).marks[s]]
      /\ pendingIndexes' = OpenedBy(b).pending \ (b.tx + 1 .. b.tx + n)
      /\ currentSlot' = b.slot
      /\ flushAge' = 0
      /\ UNCHANGED <<microBatch, orderedLate, microAge, refused>>
  BY DEF PushStreamingNext
<1>2. /\ C \cup Q = buffered /\ C \cap Q = {}
      /\ \A c \in C \cup Out : KeyLess(c, b)
      /\ \A c \in Q : c.slot = b.slot /\ c.tx > b.tx
      /\ OpenedBy(b).pending = {c.tx : c \in Q}
      /\ DOMAIN OpenedBy(b).marks \subseteq {b.slot}
  BY <1>1, OpenedSplit
<1>3. /\ queue \in Seq(Batch) /\ InOrder(queue) /\ Range(queue) = Q
  BY <1>2, SortedHeld DEF SlotQueue
<1>4. /\ n \in 0 .. Len(queue)
      /\ \A i \in 1 .. n : queue[i].tx = b.tx + i
      /\ \A i \in n + 1 .. Len(queue) : queue[i].tx > w
  <2>1. \A c, d \in Q : c.slot = d.slot  BY <1>2
  <2>2. \A c, d \in Q : c.tx = d.tx => c = d
    BY <1>1, <1>2 DEF IInv, PendingMatchesBuffer
  <2>3. b.tx \in Nat  BY StreamTypes
  <2> HIDE DEF Q, queue
  <2>4. \A c, d \in Range(queue) : c.slot = d.slot  BY <1>3, <2>1
  <2>5. \A c, d \in Range(queue) : c.tx = d.tx => c = d  BY <1>3, <2>2
  <2>6. \A c \in Range(queue) : c.tx > b.tx  BY <1>2, <1>3
  <2>7. n = RunLength(queue, b.tx + 1)  OBVIOUS
  <2> HIDE DEF n
  <2> QED  BY <1>3, <2>3, <2>4, <2>5, <2>6, <2>7, RunIsContiguous, SMTT(60)
<1>5. /\ run \in Seq(Batch)
      /\ InOrder(run)
      /\ R = {queue[i] : i \in 1 .. n}
      /\ Q \ R \subseteq {queue[i] : i \in n + 1 .. Len(queue)}
  <2> HIDE DEF Q, queue, n
  <2>1. /\ run \in Seq(Batch)
        /\ InOrder(run)
        /\ Range(run) = {queue[i] : i \in 1 .. n}
        /\ Range(queue) \ Range(run) \subseteq {queue[i] : i \in n + 1 .. Len(queue)}
    BY <1>3, <1>4, PrefixInOrder, BatchIsAny
  <2> QED  BY <1>3, <2>1
<1> HIDE DEF Q, queue, n, run
<1>6. R \subseteq Q
  <2>1. Len(queue) \in Nat /\ DOMAIN queue = 1 .. Len(queue)  BY <1>3, LenProperties
  <2>2. \A i \in 1 .. n : i \in DOMAIN queue  BY <1>4, <2>1
  <2> QED  BY <1>3, <1>5, <2>2 DEF Range
<1>7. /\ b \notin buffered /\ b \in Batch
      /\ emitted \in Seq(Batch) /\ InOrder(emitted) /\ W \subseteq Batch
  BY <1>1, ArrivalIsNew DEF Arrives, IInv, TypeOK, OutputInOrder
<1>8. n \in Nat /\ b.tx \in Nat /\ w \in Nat
  <2>1. Len(queue) \in Nat  BY <1>3, LenProperties
  <2> QED  BY <1>4, <2>1, StreamTypes
<1>9. /\ \A c \in R : c.tx > b.tx /\ c.tx < w /\ c.tx \in b.tx + 1 .. b.tx + n
      /\ \A c \in Q \ R : c.tx > w
  <2>1. ASSUME NEW i \in 1 .. n
        PROVE  /\ queue[i].tx > b.tx /\ queue[i].tx < w
               /\ queue[i].tx \in b.tx + 1 .. b.tx + n
    <3>1. queue[i].tx = b.tx + i  BY <1>4
    <3> QED  BY <3>1, <1>8
  <2>2. ASSUME NEW c \in R
        PROVE  c.tx > b.tx /\ c.tx < w /\ c.tx \in b.tx + 1 .. b.tx + n
    <3>1. PICK i \in 1 .. n : c = queue[i]  BY <1>5
    <3> QED  BY <3>1, <2>1
  <2>3. ASSUME NEW c \in Q \ R
        PROVE  c.tx > w
    <3>1. PICK i \in n + 1 .. Len(queue) : c = queue[i]  BY <1>5
    <3> QED  BY <3>1, <1>4
  <2> QED  BY <2>2, <2>3
<1>10. /\ \A c \in C \cup Out : Before(c, b) /\ \A d \in Q : Before(c, d)
       /\ \A d \in Q : Before(b, d)
       /\ \A c \in R, d \in Q \ R : Before(c, d)
  <2>1. \A c \in C \cup Out : c \in AnyBatch  BY <1>2, StreamTypes
  <2>2. \A c \in Q : KeyLess(b, c) /\ c \in AnyBatch  BY <1>2, StreamTypes DEF KeyLess
  <2>3. \A d \in Q : Before(b, d)  BY <2>2 DEF Before
  <2>4. \A c \in C \cup Out : Before(c, b)  BY <1>2 DEF Before
  <2>5. \A c \in C \cup Out, d \in Q : Before(c, d)
    BY <2>1, <2>2, <2>3, <2>4, StreamTypes, BeforeOrder
  <2>6. ASSUME NEW c \in R, NEW d \in Q \ R  PROVE Before(c, d)
    <3>1. c.slot = d.slot /\ c.tx < w /\ d.tx > w  BY <1>2, <1>6, <1>9
    <3>2. c.tx \in Int /\ d.tx \in Int  BY <1>2, <1>6, StreamTypes
    <3> QED  BY <1>8, <3>1, <3>2 DEF Before, KeyLess
  <2> QED  BY <2>3, <2>4, <2>5, <2>6
<1>11. out \in Seq(Batch) /\ InOrder(out) /\ Range(out) = S
  <2>1. /\ Sorted(C) \in Seq(Batch) /\ InOrder(Sorted(C)) /\ Range(Sorted(C)) = C
    BY <1>2, SortedHeld
  <2>2. <<b>> \in Seq(Batch) /\ Range(<<b>>) = {b}  BY <1>7 DEF Range
  <2>3. InOrder(<<b>>)  BY DEF InOrder
  <2> DEFINE head == Sorted(C) \o <<b>>
  <2>4. head \in Seq(Batch) /\ Range(head) = C \cup {b}
    <3>1. head \in Seq(Batch)  BY <2>1, <2>2, ConcatProperties
    <3>2. Range(head) = Range(Sorted(C)) \cup Range(<<b>>)
      <4> DEFINE first == Sorted(C)
                 one == <<b>>
      <4>1. first \in Seq(Batch) /\ one \in Seq(Batch)  BY <2>1, <2>2
      <4>2. head = first \o one  OBVIOUS
      <4> HIDE DEF first, one, head
      <4>3. Range(head) = Range(first) \cup Range(one)
        BY <4>1, <4>2, RangeConcatenation
      <4> QED  BY <4>3 DEF first, one
    <3> QED  BY <2>1, <2>2, <3>1, <3>2
  <2>5. InOrder(head)
    BY <1>10, <2>1, <2>2, <2>3, ConcatInOrder, BatchIsAny
  <2> HIDE DEF head
  <2>6. head \o run \in Seq(Batch) /\ Range(head \o run) = S
    BY <1>5, <2>4, ConcatProperties, RangeConcatenation
  <2>7. InOrder(head \o run)
    <3>1. \A c \in Range(head), d \in Range(run) : Before(c, d)
      BY <1>6, <1>10, <2>4
    <3> QED  BY <1>5, <2>4, <2>5, <3>1, ConcatInOrder, BatchIsAny
  <2> QED  BY <2>6, <2>7 DEF head
<1>12. S \in SUBSET W /\ W \in SUBSET Batch /\ W \ S = buffered' /\ W \ S = Q \ R
  BY <1>1, <1>2, <1>6, <1>7
<1>13. emitted' = emitted \o out /\ orderedWatermark' = orderedWatermark
  BY <1>1 DEF Emit
<1> HIDE DEF out
<1>14. \A c \in Out, d \in W : Before(c, d)  BY <1>1, <1>10 DEF IInv, BufferAhead, Keeping
<1>15. \A c \in S, d \in W \ S : Before(c, d)  BY <1>10, <1>12
<1>16. /\ emitted' \in Seq(Batch)
       /\ InOrder(emitted')
       /\ Out' = Out \cup S
       /\ \A c \in Out', d \in W \ S : Before(c, d)
       /\ Delivery!HandOver(W, S)
  <2>1. buffered' = W \ S /\ emitted' = emitted \o out  BY <1>12, <1>13
  <2>2. emitted \in Seq(Batch) /\ InOrder(emitted)  BY <1>7
  <2>3. S \in SUBSET W /\ W \in SUBSET Batch  BY <1>12
  <2> HIDE DEF W, S
  <2> QED  BY <1>11, <1>14, <1>15, <2>1, <2>2, <2>3, HandOverStep
<1>17. DOMAIN watermarks' = {b.slot} /\ watermarks'[b.slot] = w /\ Watermark(b.slot)' = w
  <2> HIDE DEF w
  <2>1. DOMAIN watermarks' = {b.slot} /\ watermarks'[b.slot] = w  BY <1>1, <1>2
  <2> QED  BY <2>1 DEF Watermark
<1>18. TypeOK'
  <2>1. IsFiniteSet(buffered')  BY <1>1, FS_Difference DEF IInv, TypeOK
  <2>2. buffered' \subseteq Batch  BY <1>12
  <2>3. b.slot \in Slots  BY <1>7 DEF Batch
  <2>4. pendingIndexes' \subseteq TxIndexes
    <3>1. \A c \in Q : c.tx \in TxIndexes  BY <1>2, StreamTypes DEF Batch
    <3> QED  BY <1>1, <1>2, <3>1
  <2>5. watermarks' \in [DOMAIN watermarks' -> Nat]  BY <1>1, <1>8, <1>17
  <2>6. DOMAIN watermarks' \subseteq Slots  BY <1>17, <2>3
  <2>7. flushAge' \in 0 .. OrderTimeout + 1  BY <1>1, OrderBufferAssumption
  <2>8. /\ mode' = mode /\ seq' \in 0 .. MaxArrivals /\ currentSlot' \in Slots
        /\ UNCHANGED <<microBatch, orderedLate, microAge, refused, orderedWatermark>>
    BY <1>1, <1>13, <2>3 DEF Arrives
  <2>9. emitted' \in Seq(Batch)  BY <1>16
  <2> HIDE DEF W, S
  <2> QED
    BY <2>1, <2>2, <2>4, <2>5, <2>6, <2>7, <2>8, <2>9 DEF IInv, TypeOK
<1>19. Fresh'
  <2>1. buffered' \subseteq buffered \cup {b} /\ microBatch' = microBatch  BY <1>1
  <2>2. Distinct(buffered') /\ Distinct(microBatch')  BY <2>1, ArrivalIsNew DEF Distinct
  <2>3. Out' \subseteq buffered \cup Out \cup {b}  BY <1>12, <1>16
  <2> QED  BY <2>1, <2>2, <2>3, ArrivalIsNew DEF IInv, Fresh
<1>20. ModeShape'  BY <1>1 DEF IInv, ModeShape, Arrives
<1>21. \A c \in S : c.slot <= b.slot /\ (c.slot = b.slot => c.tx < w)
  <2>1. \A c \in C : c.slot <= b.slot /\ (c.slot = b.slot => c.tx < w)
    BY <1>2, <1>8, StreamTypes DEF KeyLess
  <2>2. b.slot <= b.slot /\ b.tx < w  BY <1>8, StreamTypes
  <2>3. \A c \in R : c.slot <= b.slot /\ c.tx < w
    BY <1>2, <1>6, <1>9, StreamTypes
  <2> QED  BY <2>1, <2>2, <2>3
<1>22. \A c \in Out' : c.slot <= b.slot /\ (c.slot = b.slot => c.tx < w)
  <2>1. \A c \in Out : c.slot <= b.slot /\ (c.slot = b.slot => c.tx < w)
    BY <1>2, <1>8, StreamTypes DEF KeyLess
  <2> HIDE DEF S, w
  <2> QED  BY <1>16, <1>21, <2>1
<1>23. BufferAhead'
  <2>1. \A c \in buffered' : c.slot <= b.slot  BY <1>2, <1>12, StreamTypes
  <2>2. b \in Out'  BY <1>16
  <2> QED  BY <1>1, <1>12, <1>16, <1>22, <2>1, <2>2 DEF BufferAhead
<1>24. PendingMatchesBuffer'
  <2>1. \A c \in buffered' : c.slot = b.slot /\ c.tx > w  BY <1>2, <1>9, <1>12
  <2>2. pendingIndexes' = {c.tx : c \in buffered'}
    <3>1. pendingIndexes' = {c.tx : c \in Q} \ (b.tx + 1 .. b.tx + n)  BY <1>1, <1>2
    <3>2. \A c \in Q \ R : c.tx \notin b.tx + 1 .. b.tx + n  BY <1>8, <1>9
    <3>3. \A c \in R : c.tx \in b.tx + 1 .. b.tx + n  BY <1>9
    <3> HIDE DEF R
    <3> QED  BY <1>6, <1>12, <3>1, <3>2, <3>3
  <2>3. \A c, d \in buffered' : c.tx = d.tx => c = d
    BY <1>1 DEF IInv, PendingMatchesBuffer
  <2> HIDE DEF w
  <2> QED  BY <1>1, <1>17, <2>1, <2>2, <2>3 DEF PendingMatchesBuffer
<1>25. WatermarkIsProgress'
  <2>1. \A i \in DOMAIN emitted' : emitted'[i] \in Out'  BY DEF Out, Range
  <2> HIDE DEF w
  <2> QED  BY <1>1, <1>17, <1>22, <2>1 DEF WatermarkIsProgress
<1>26. StreamMark'
  <2>1. \A c \in buffered \cup Out : ~ (c.slot = b.slot /\ c.tx = b.tx)
    BY <1>2, StreamTypes DEF KeyLess
  <2>2. buffered' \cup Out' \subseteq buffered \cup Out \cup {b}
    BY <1>1, <1>12, <1>16
  <2>3. ASSUME NEW c \in buffered' \cup Out', NEW d \in buffered' \cup Out',
               c.slot = d.slot, c.tx = d.tx
        PROVE  c = d
    BY <1>1, <2>1, <2>2, <2>3 DEF IInv, StreamMark
  <2>4. \E c \in Out' : c.slot = b.slot /\ c.tx = w - 1
    <3>1. CASE n = 0
      <4>1. b \in Out' /\ b.tx = w - 1  BY <1>8, <1>16, <3>1
      <4> QED  BY <4>1
    <3>2. CASE n # 0
      <4>1. n \in 1 .. n  BY <1>8, <3>2
      <4>2. queue[n] \in R /\ queue[n].tx = b.tx + n  BY <1>4, <1>5, <4>1
      <4>3. queue[n].slot = b.slot  BY <1>2, <1>6, <4>2
      <4>4. b.tx + n = w - 1  BY <1>8
      <4>5. queue[n] \in Out'  BY <1>16, <4>2
      <4> QED  BY <4>2, <4>3, <4>4, <4>5
    <3> QED  BY <3>1, <3>2
  <2> HIDE DEF w
  <2> QED  BY <1>1, <1>17, <2>3, <2>4 DEF StreamMark
<1>27. OutputInOrder' /\ OrderedMark'
  BY <1>1, <1>16 DEF Arrives, OutputInOrder, OrderedMark
<1>28. Delivery!Accept(b)
  <2>1. \A i \in DOMAIN emitted : Before(emitted[i], b)
    BY <1>10 DEF Out, Range
  <2>2. S \in SUBSET (buffered \cup {b})  BY <1>12
  <2>3. Delivery!HandOver(buffered \cup {b}, S)  BY <1>16
  <2> HIDE DEF S
  <2> QED  BY <1>1, <2>1, <2>2, <2>3, SameOrder DEF Delivery!Accept
<1> QED
  BY <1>18, <1>19, <1>20, <1>23, <1>24, <1>25, <1>26, <1>27, <1>28 DEF IInv

-----------------------------------------------------------------------------
(* Flushing. *)

(* The progress a streaming dispatcher keeps through a flush. *)
LEMMA MarksKept ==
  ASSUME IInv, mode = "StreamingOrdered"
  PROVE  /\ buffered = {} => MarksAfterFlush = watermarks
         /\ buffered # {} =>
              /\ DOMAIN MarksAfterFlush = {currentSlot}
              /\ currentSlot \in Slots
              /\ \E l \in buffered :
                   /\ MarksAfterFlush[currentSlot] = l.tx + 1
                   /\ \A c \in buffered : c.tx <= l.tx
<1> DEFINE flushed == {b.slot : b \in buffered}
<1>1. MarksAfterFlush =
        [s \in (DOMAIN watermarks \cup flushed) \cap {currentSlot} |->
           IF s \in flushed /\ LastIndexIn(s) + 1 > Watermark(s)
           THEN LastIndexIn(s) + 1 ELSE Watermark(s)]
  BY DEF MarksAfterFlush
<1>2. DOMAIN watermarks \subseteq {currentSlot}  BY DEF IInv, WatermarkIsProgress
<1>3. ASSUME buffered = {}  PROVE MarksAfterFlush = watermarks
  <2>1. flushed = {}  BY <1>3
  <2>2. MarksAfterFlush = [s \in DOMAIN watermarks |-> Watermark(s)]
    BY <1>1, <1>2, <2>1
  <2>3. \A s \in DOMAIN watermarks : Watermark(s) = watermarks[s]  BY DEF Watermark
  <2>4. watermarks = [s \in DOMAIN watermarks |-> watermarks[s]]
    BY DEF IInv, TypeOK
  <2> QED  BY <2>2, <2>3, <2>4
<1>4. ASSUME buffered # {}
      PROVE  /\ DOMAIN MarksAfterFlush = {currentSlot}
             /\ currentSlot \in Slots
             /\ \E l \in buffered :
                  /\ MarksAfterFlush[currentSlot] = l.tx + 1
                  /\ \A c \in buffered : c.tx <= l.tx
  <2>1. \A c \in buffered : c.slot = currentSlot /\ c.tx > Watermark(currentSlot)
    BY DEF IInv, PendingMatchesBuffer
  <2>2. flushed = {currentSlot}  BY <1>4, <2>1
  <2>3. currentSlot \in Slots  BY <1>4, <2>1 DEF IInv, TypeOK, Batch
  <2> DEFINE out == Sorted(buffered)
  <2>4. out \in Seq(Batch) /\ InOrder(out) /\ Range(out) = buffered  BY SortedHeld
  <2>5. {c \in buffered : c.slot = currentSlot} = buffered  BY <2>1
  <2>6. LastIndexIn(currentSlot) = out[Len(out)].tx  BY <2>5 DEF LastIndexIn, SlotQueue
  <2> HIDE DEF out
  <2>7. out # <<>>
    <3>1. Range(<<>>) = {}  BY DEF Range
    <3> QED  BY <1>4, <2>4, <3>1
  <2> DEFINE l == out[Len(out)]
  <2>8. l \in buffered /\ \A c \in buffered : ~ KeyLess(l, c)
    BY <2>4, <2>7, LastIsGreatest
  <2> HIDE DEF l
  <2>9. \A c \in buffered : c.tx \in Nat /\ c.slot \in Nat
    BY BatchIsAny DEF IInv, TypeOK, AnyBatch
  <2>10. \A c \in buffered : c.tx <= l.tx  BY <2>1, <2>8, <2>9 DEF KeyLess
  <2>11. Watermark(currentSlot) \in Nat  BY DEF IInv, TypeOK, Watermark
  <2>12. LastIndexIn(currentSlot) = l.tx /\ l.tx + 1 > Watermark(currentSlot)
    BY <2>1, <2>6, <2>8, <2>9, <2>11 DEF l
  <2>13. DOMAIN MarksAfterFlush = {currentSlot}  BY <1>1, <2>2
  <2>14. MarksAfterFlush[currentSlot] = l.tx + 1
    BY <1>1, <2>2, <2>12, <2>13
  <2> QED  BY <2>3, <2>8, <2>10, <2>13, <2>14
<1> QED  BY <1>3, <1>4

LEMMA FlushStep ==
  ASSUME IInv, NEW micro, micro = {} \/ micro = microBatch,
         FlushHeld(micro), microBatch' = microBatch \ micro, microAge' \in 0 .. MicroWindow
  PROVE  IInv' /\ (Keeping => Delivery!Release)
<1> DEFINE first == Sorted(buffered)
           second == Sorted(micro)
           out == first \o second
<1>1. /\ Emit(out)
      /\ buffered' = {}
      /\ pendingIndexes' = {}
      /\ watermarks' = MarksAfterFlush
      /\ flushAge' = 0
      /\ UNCHANGED <<mode, currentSlot, seq, orderedLate, refused>>
  BY DEF FlushHeld
<1>2. /\ first \in Seq(Batch) /\ InOrder(first) /\ Range(first) = buffered
      /\ second \in Seq(Batch) /\ InOrder(second) /\ Range(second) = micro
  BY SortedHeld
<1>3. out \in Seq(Batch) /\ Range(out) = buffered \cup micro
  <2> HIDE DEF first, second
  <2> QED  BY <1>2, ConcatProperties, RangeConcatenation
<1>4. Keeping => /\ micro = {} /\ microBatch = {}
                 /\ InOrder(out) /\ Range(out) = buffered
  <2>1. SUFFICES ASSUME Keeping
                 PROVE  /\ micro = {} /\ microBatch = {}
                        /\ InOrder(out) /\ Range(out) = buffered
    OBVIOUS
  <2>2. micro = {} /\ microBatch = {}  BY <2>1 DEF IInv, ModeShape, Keeping
  <2> HIDE DEF first, second
  <2>3. InOrder(out)  BY <1>2, <2>2, ConcatInOrder, BatchIsAny
  <2> QED  BY <1>3, <2>2, <2>3
<1>5. emitted \in Seq(Batch) /\ emitted' = emitted \o out
  BY <1>1 DEF Emit, IInv, TypeOK
<1> HIDE DEF out
<1>6. emitted' \in Seq(Batch) /\ Out' = Out \cup buffered \cup micro
  BY <1>3, <1>5, EmittedGrows
<1>7. Keeping => /\ InOrder(emitted') /\ Out' = Out \cup buffered
                 /\ Delivery!HandOver(buffered, buffered)
  <2>1. SUFFICES ASSUME Keeping
                 PROVE  /\ InOrder(emitted') /\ Out' = Out \cup buffered
                        /\ Delivery!HandOver(buffered, buffered)
    OBVIOUS
  <2>2. InOrder(emitted) /\ \A c \in Out, d \in buffered : Before(c, d)
    BY <2>1 DEF IInv, OutputInOrder, BufferAhead, Keeping
  <2>3. buffered \in SUBSET Batch /\ buffered \in SUBSET buffered /\ buffered \ buffered = {}
    BY DEF IInv, TypeOK
  <2>4. \A c \in buffered, d \in buffered \ buffered : Before(c, d)  OBVIOUS
  <2>5. out \in Seq(Batch) /\ InOrder(out) /\ Range(out) = buffered  BY <1>3, <1>4, <2>1
  <2>6. buffered' = buffered \ buffered  BY <1>1
  <2> QED  BY <1>5, <2>2, <2>3, <2>4, <2>5, <2>6, HandOverStep
<1>8. mode = "Ordered" =>
        /\ orderedWatermark' \in [slot : Slots, tx : TxIndexes] \cup {NoPlace}
        /\ \A c \in Out \cup buffered : ~ KeyLess(orderedWatermark', c)
        /\ orderedWatermark' # NoPlace =>
             \E c \in Out \cup buffered :
               c.slot = orderedWatermark'.slot /\ c.tx = orderedWatermark'.tx
  <2>1. SUFFICES ASSUME mode = "Ordered"
        PROVE  /\ orderedWatermark' \in [slot : Slots, tx : TxIndexes] \cup {NoPlace}
               /\ \A c \in Out \cup buffered : ~ KeyLess(orderedWatermark', c)
               /\ orderedWatermark' # NoPlace =>
                    \E c \in Out \cup buffered :
                      c.slot = orderedWatermark'.slot /\ c.tx = orderedWatermark'.tx
    OBVIOUS
  <2>2. \A c \in Out, d \in buffered : Before(c, d)
    BY <2>1 DEF IInv, BufferAhead, Keeping
  <2>3. buffered \in SUBSET Batch  BY DEF IInv, TypeOK
  <2>4. out \in Seq(Batch) /\ InOrder(out) /\ Range(out) = buffered
    BY <1>3, <1>4, <2>1 DEF Keeping
  <2> QED  BY <1>1, <2>1, <2>2, <2>3, <2>4, EmitMark
<1>9. TypeOK'
  <2>1. buffered' \subseteq Batch /\ IsFiniteSet(buffered')  BY <1>1, FS_EmptySet
  <2>2. microBatch' \subseteq Batch /\ IsFiniteSet(microBatch')
    BY FS_Subset DEF IInv, TypeOK
  <2>3. flushAge' \in 0 .. OrderTimeout + 1  BY <1>1, OrderBufferAssumption
  <2>4. orderedWatermark' \in [slot : Slots, tx : TxIndexes] \cup {NoPlace}
    <3>1. CASE mode = "Ordered"  BY <1>8, <3>1
    <3>2. CASE mode # "Ordered"
      <4>1. orderedWatermark' = orderedWatermark  BY <1>1, <3>2 DEF Emit
      <4> QED  BY <4>1 DEF IInv, TypeOK
    <3> QED  BY <3>1, <3>2
  <2>5. DOMAIN watermarks' \subseteq Slots /\ watermarks' \in [DOMAIN watermarks' -> Nat]
    <3>1. CASE mode # "StreamingOrdered"
      <4>1. watermarks' = [s \in {} |-> 0]  BY <1>1, <3>1 DEF MarksAfterFlush
      <4> QED  BY <4>1
    <3>2. CASE mode = "StreamingOrdered" /\ buffered = {}
      <4>1. watermarks' = watermarks  BY <1>1, <3>2, MarksKept
      <4> QED  BY <4>1 DEF IInv, TypeOK
    <3>3. CASE mode = "StreamingOrdered" /\ buffered # {}
      <4>1. PICK l \in buffered : watermarks'[currentSlot] = l.tx + 1
        BY <1>1, <3>3, MarksKept
      <4>2. l.tx \in Nat  BY BatchIsAny DEF IInv, TypeOK, AnyBatch
      <4>3. DOMAIN watermarks' = {currentSlot} /\ currentSlot \in Slots
        BY <1>1, <3>3, MarksKept
      <4>4. watermarks' = [s \in DOMAIN watermarks' |-> watermarks'[s]]
        BY <1>1, <3>3 DEF MarksAfterFlush
      <4> QED  BY <4>1, <4>2, <4>3, <4>4
    <3> QED  BY <3>1, <3>2, <3>3
  <2> QED  BY <1>1, <1>6, <2>1, <2>2, <2>3, <2>4, <2>5 DEF IInv, TypeOK
<1>10. Fresh'
  <2>1. Distinct(buffered') /\ Distinct(microBatch')
    BY <1>1 DEF IInv, Fresh, Distinct
  <2>2. buffered' \cup microBatch' \cup Out' \subseteq buffered \cup microBatch \cup Out
    BY <1>1, <1>6
  <2> QED  BY <1>1, <2>1, <2>2 DEF IInv, Fresh
<1>11. ModeShape'  BY <1>1 DEF IInv, ModeShape
<1>12. CASE mode \in {"Unordered", "MicroBatch"}
  <2>1. IInv'  BY <1>1, <1>9, <1>10, <1>11, <1>12, UnorderedModes
  <2>2. ~ Keeping  BY <1>12 DEF Keeping
  <2> QED  BY <2>1, <2>2
<1>13. CASE Keeping
  <2>1. OutputInOrder'  BY <1>7, <1>13 DEF OutputInOrder
  <2>2. BufferAhead'  BY <1>1, <1>7, <1>13 DEF IInv, BufferAhead, Keeping
  <2>3. OrderedMark'
    <3>1. CASE mode = "Ordered"  BY <1>1, <1>7, <1>8, <1>13, <3>1 DEF OrderedMark
    <3>2. CASE mode # "Ordered"  BY <1>1, <3>2 DEF OrderedMark
    <3> QED  BY <3>1, <3>2
  <2>4. ASSUME mode # "StreamingOrdered"
        PROVE  PendingMatchesBuffer' /\ WatermarkIsProgress' /\ StreamMark'
    BY <1>1, <2>4 DEF PendingMatchesBuffer, WatermarkIsProgress, StreamMark
  <2>5. ASSUME mode = "StreamingOrdered"
        PROVE  PendingMatchesBuffer' /\ WatermarkIsProgress' /\ StreamMark'
    <3>1. PendingMatchesBuffer'  BY <1>1 DEF PendingMatchesBuffer
    <3>2. \A c, d \in Out' : c.slot = d.slot /\ c.tx = d.tx => c = d
      BY <1>7, <1>13, <2>5 DEF IInv, StreamMark
    <3>3. ASSUME buffered = {}  PROVE WatermarkIsProgress' /\ StreamMark'
      <4>1. watermarks' = watermarks /\ emitted' = emitted
        <5>1. watermarks' = watermarks  BY <1>1, <2>5, <3>3, MarksKept
        <5>2. first = <<>> /\ second = <<>>  BY <1>4, <1>13, <3>3, SortedEmpty
        <5>3. out = <<>>  BY <5>2 DEF out
        <5>4. emitted' = emitted  BY <1>5, <5>3
        <5> QED  BY <5>1, <5>4
      <4>2. WatermarkIsProgress'  BY <1>1, <4>1 DEF IInv, WatermarkIsProgress
      <4>3. StreamMark'
        <5>1. Watermark(currentSlot)' = Watermark(currentSlot)
          BY <1>1, <4>1 DEF Watermark
        <5> QED  BY <1>1, <2>5, <3>2, <4>1, <5>1 DEF IInv, StreamMark, Out
      <4> QED  BY <4>2, <4>3
    <3>4. ASSUME buffered # {}  PROVE WatermarkIsProgress' /\ StreamMark'
      <4>1. PICK l \in buffered : /\ watermarks'[currentSlot] = l.tx + 1
                                  /\ \A c \in buffered : c.tx <= l.tx
        BY <1>1, <2>5, <3>4, MarksKept
      <4>2. DOMAIN watermarks' = {currentSlot}  BY <1>1, <2>5, <3>4, MarksKept
      <4>3. /\ \A c \in Out \cup buffered : c.tx \in Nat /\ c.slot \in Nat
            /\ currentSlot \in Nat /\ Watermark(currentSlot) \in Nat
        <5>1. \A c \in Out \cup buffered : c \in AnyBatch
          BY BatchIsAny, RangeOfSeq DEF IInv, TypeOK, Out
        <5> QED  BY <5>1, OrderBufferAssumption, SMTT(60) DEF AnyBatch, IInv, TypeOK, Watermark
      <4>4. /\ \A c \in buffered : c.slot = currentSlot /\ c.tx > Watermark(currentSlot)
            /\ \A i \in DOMAIN emitted :
                 /\ emitted[i].slot <= currentSlot
                 /\ emitted[i].slot = currentSlot => emitted[i].tx < Watermark(currentSlot)
        BY <2>5 DEF IInv, PendingMatchesBuffer, WatermarkIsProgress, Watermark
      <4>5. \A c \in Out : c.slot <= currentSlot
                           /\ (c.slot = currentSlot => c.tx < Watermark(currentSlot))
        BY <4>4 DEF Out, Range
      <4>6. \A c \in Out' : c.slot <= currentSlot
                            /\ (c.slot = currentSlot => c.tx < l.tx + 1)
        BY <1>7, <1>13, <4>1, <4>3, <4>4, <4>5
      <4>7. \A i \in DOMAIN emitted' : emitted'[i] \in Out'  BY DEF Out, Range
      <4>8. WatermarkIsProgress'
        BY <1>1, <4>1, <4>2, <4>6, <4>7 DEF WatermarkIsProgress
      <4>9. Watermark(currentSlot)' = l.tx + 1  BY <1>1, <4>1, <4>2 DEF Watermark
      <4>10. l \in Out' /\ l.slot = currentSlot /\ l.tx = (l.tx + 1) - 1
        BY <1>6, <4>3, <4>4
      <4>11. StreamMark'
        BY <1>1, <3>2, <4>9, <4>10 DEF StreamMark
      <4> QED  BY <4>8, <4>11
    <3> QED  BY <3>1, <3>3, <3>4
  <2>6. Delivery!Release
    <3>1. buffered \in SUBSET buffered  OBVIOUS
    <3> QED  BY <1>1, <1>7, <1>13, <3>1 DEF Delivery!Release
  <2> QED  BY <1>9, <1>10, <1>11, <2>1, <2>2, <2>3, <2>4, <2>5, <2>6 DEF IInv
<1> QED
  <2>1. mode \in {"Unordered", "MicroBatch"} \/ Keeping
    BY OrderBufferAssumption DEF IInv, TypeOK, Keeping
  <2> QED  BY <1>12, <1>13, <2>1

LEMMA FlushDueMicroInv == IInv /\ FlushDueMicro => IInv'
<1> SUFFICES ASSUME IInv, FlushDueMicro PROVE IInv'  OBVIOUS
<1>1. /\ mode = "MicroBatch"
      /\ Emit(Sorted(microBatch))
      /\ microBatch' = {} /\ microAge' = 0 /\ flushAge' = 0
      /\ UNCHANGED <<mode, buffered, watermarks, pendingIndexes, currentSlot, seq, orderedLate,
                     refused>>
  BY DEF FlushDueMicro, progress
<1>2. Sorted(microBatch) \in Seq(Batch) /\ Range(Sorted(microBatch)) = microBatch
  BY SortedHeld
<1>3. /\ emitted' = emitted \o Sorted(microBatch) /\ emitted \in Seq(Batch)
      /\ orderedWatermark' = orderedWatermark
  BY <1>1 DEF Emit, IInv, TypeOK
<1>4. emitted' \in Seq(Batch) /\ Out' = Out \cup microBatch  BY <1>2, <1>3, EmittedGrows
<1>5. TypeOK'
  <2>1. IsFiniteSet({})  BY FS_EmptySet
  <2>2. flushAge' \in 0 .. OrderTimeout + 1 /\ microAge' \in 0 .. MicroWindow
    BY <1>1, OrderBufferAssumption
  <2> QED  BY <1>1, <1>3, <1>4, <2>1, <2>2 DEF IInv, TypeOK
<1>6. Fresh' /\ ModeShape'
  BY <1>1, <1>4 DEF IInv, Fresh, ModeShape, Distinct
<1> QED  BY <1>1, <1>5, <1>6, UnorderedModes

-----------------------------------------------------------------------------
(* Every step keeps the invariant and is a step of OrderedDelivery. *)

LEMMA PushStep ==
  ASSUME IInv, Push
  PROVE  IInv' /\ (Keeping => Delivery!Next)
<1>1. PICK s \in Slots, t \in TxIndexes :
        LET b == [slot |-> s, tx |-> t, seq |-> seq] IN
        /\ seq < MaxArrivals
        /\ seq' = seq + 1
        /\ UNCHANGED mode
        /\ \/ PushUnordered(b)
           \/ PushOrderedLate(b)
           \/ PushOrdered(b)
           \/ PushStreamingNext(b)
           \/ PushStreamingAhead(b)
           \/ PushStreamingStale(b)
           \/ PushMicroBatch(b)
  BY DEF Push
<1> DEFINE b == [slot |-> s, tx |-> t, seq |-> seq]
<1>2. Arrives(b)
  <2>1. seq \in 0 .. MaxArrivals - 1 /\ seq' \in 0 .. MaxArrivals
    BY <1>1, OrderBufferAssumption DEF IInv, TypeOK
  <2> QED  BY <1>1, <2>1 DEF Arrives, Batch
<1>3. b \in Batch  BY <1>2 DEF Arrives
<1> HIDE DEF b
<1>4. CASE PushUnordered(b)
  <2>1. ~ Keeping  BY <1>4 DEF PushUnordered, Keeping
  <2> QED  BY <1>2, <1>4, <2>1, PushUnorderedInv
<1>5. CASE PushMicroBatch(b)
  <2>1. ~ Keeping  BY <1>5 DEF PushMicroBatch, Keeping
  <2> QED  BY <1>2, <1>5, <2>1, PushMicroBatchInv
<1>6. CASE PushOrderedLate(b)
  BY <1>2, <1>3, <1>6, PushOrderedLateInv DEF Delivery!Next
<1>7. CASE PushOrdered(b)
  BY <1>2, <1>3, <1>7, PushOrderedInv DEF Delivery!Next
<1>8. CASE PushStreamingNext(b)
  BY <1>2, <1>3, <1>8, PushStreamingNextInv DEF Delivery!Next
<1>9. CASE PushStreamingAhead(b)
  BY <1>2, <1>3, <1>9, PushStreamingAheadInv DEF Delivery!Next
<1>10. CASE PushStreamingStale(b)
  BY <1>2, <1>3, <1>10, PushStreamingStaleInv DEF Delivery!Next
<1> QED  BY <1>1, <1>4, <1>5, <1>6, <1>7, <1>8, <1>9, <1>10 DEF b

LEMMA Step ==
  ASSUME IInv, [Next]_vars
  PROVE  IInv' /\ (Keeping => [Delivery!Next]_Delivery!vars)
<1>1. CASE Push  BY <1>1, PushStep
<1>2. CASE FlushDueSlots
  <2>1. /\ FlushHeld({}) /\ microBatch' = microBatch \ {} /\ microAge' \in 0 .. MicroWindow
    BY <1>2 DEF FlushDueSlots, IInv, TypeOK
  <2>2. IInv' /\ (Keeping => Delivery!Release)  BY <2>1, FlushStep
  <2> QED  BY <2>2 DEF Delivery!Next
<1>3. CASE FlushDueMicro
  <2>1. ~ Keeping  BY <1>3 DEF FlushDueMicro, Keeping
  <2> QED  BY <1>3, <2>1, FlushDueMicroInv
<1>4. CASE FlushAll
  <2>1. /\ FlushHeld(microBatch) /\ microBatch' = microBatch \ microBatch
        /\ microAge' \in 0 .. MicroWindow
    BY <1>4, OrderBufferAssumption DEF FlushAll
  <2>2. IInv' /\ (Keeping => Delivery!Release)  BY <2>1, FlushStep
  <2> QED  BY <2>2 DEF Delivery!Next
<1>5. CASE Tick
  <2>1. UNCHANGED <<buffered, emitted, refused>>  BY <1>5 DEF Tick, history
  <2> QED  BY <1>5, <2>1, TickInv DEF Delivery!vars
<1>6. CASE UNCHANGED vars
  <2>1. /\ UNCHANGED <<mode, buffered, watermarks, pendingIndexes, microBatch, currentSlot,
                       orderedWatermark, emitted>>
        /\ UNCHANGED <<seq, orderedLate, flushAge, microAge, refused>>
    BY <1>6 DEF vars
  <2>2. TypeOK' /\ seq <= seq'  BY <2>1 DEF IInv, TypeOK
  <2> QED  BY <2>1, <2>2, QuietStep DEF Delivery!vars
<1> QED  BY <1>1, <1>2, <1>3, <1>4, <1>5, <1>6 DEF Next

THEOREM Invariance == Spec => []IInv
<1>1. Init => IInv  BY InitInv
<1>2. IInv /\ [Next]_vars => IInv'  BY Step
<1> QED  BY <1>1, <1>2, PTL DEF Spec

-----------------------------------------------------------------------------
(* What arrived is accounted for. *)

(* Ordered: a batch is buffered, emitted or counted, one at a time. *)
LEMMA OrderedAccounts ==
  ASSUME IInv, [Next]_vars, mode = "Ordered",
         seq = Len(emitted) + Cardinality(buffered) + orderedLate
  PROVE  seq' = Len(emitted') + Cardinality(buffered') + orderedLate'
<1>1. /\ emitted \in Seq(Batch) /\ Len(emitted) \in Nat
      /\ IsFiniteSet(buffered) /\ Cardinality(buffered) \in Nat
      /\ seq \in Nat /\ orderedLate \in Nat
  BY LenProperties, FS_CardinalityType DEF IInv, TypeOK
<1>2. ASSUME UNCHANGED <<seq, emitted, buffered, orderedLate>>
      PROVE  seq' = Len(emitted') + Cardinality(buffered') + orderedLate'
  BY <1>2
<1>3. CASE Push
  <2>1. PICK s \in Slots, t \in TxIndexes :
          LET b == [slot |-> s, tx |-> t, seq |-> seq] IN
          /\ seq < MaxArrivals
          /\ seq' = seq + 1
          /\ UNCHANGED mode
          /\ PushOrderedLate(b) \/ PushOrdered(b)
    BY <1>3 DEF Push, PushUnordered, PushStreamingNext, PushStreamingAhead, PushStreamingStale,
                PushMicroBatch
  <2> DEFINE b == [slot |-> s, tx |-> t, seq |-> seq]
  <2>2. Arrives(b)
    <3>1. seq \in 0 .. MaxArrivals - 1 /\ seq' \in 0 .. MaxArrivals
      BY <2>1, OrderBufferAssumption, SMTT(30) DEF IInv, TypeOK
    <3> QED  BY <2>1, <3>1 DEF Arrives, Batch
  <2>3. PushOrderedLate(b) \/ PushOrdered(b)  BY <2>1
  <2> HIDE DEF b
  <2>4. CASE PushOrderedLate(b)
    BY <1>1, <2>1, <2>4 DEF PushOrderedLate
  <2>5. CASE PushOrdered(b)
    <3> DEFINE closed == ClosedBy(b)
               rest == buffered \ closed
    <3>1. closed \subseteq buffered  BY DEF ClosedBy, InSlotsBefore
    <3>2. /\ emitted' = emitted \o Sorted(closed) /\ orderedLate' = orderedLate
          /\ buffered' = rest \cup {b}
      BY <2>5 DEF PushOrdered, Emit
    <3> HIDE DEF closed
    <3>3. Sorted(closed) \in Seq(Batch) /\ Len(Sorted(closed)) = Cardinality(closed)
          /\ IsFiniteSet(closed)
      BY <3>1, SortedHeld
    <3>4. Len(emitted') = Len(emitted) + Cardinality(closed)
      BY <1>1, <3>2, <3>3, EmittedTail
    <3>5. buffered \cap closed = closed  BY <3>1
    <3>6. IsFiniteSet(rest) /\ Cardinality(rest) = Cardinality(buffered) - Cardinality(closed)
      BY <1>1, <3>5, FS_Difference
    <3>7. b \notin rest  BY <2>2, ArrivalIsNew
    <3>8. Cardinality(buffered') = Cardinality(rest) + 1
      BY <3>2, <3>6, <3>7, FS_AddElement
    <3>9. Cardinality(closed) \in Nat  BY <3>3, FS_CardinalityType
    <3> HIDE DEF rest
    <3> QED  BY <1>1, <2>1, <3>2, <3>4, <3>6, <3>8, <3>9, SMTT(30)
  <2> QED  BY <2>3, <2>4, <2>5
<1>4. ASSUME NEW micro, micro \subseteq microBatch, FlushHeld(micro)
      PROVE  seq' = Len(emitted') + Cardinality(buffered') + orderedLate'
  <2>1. micro = {}  BY <1>4 DEF IInv, ModeShape
  <2>2. /\ Sorted(buffered) \in Seq(Batch) /\ Len(Sorted(buffered)) = Cardinality(buffered)
        /\ Sorted(micro) = <<>>
    BY <2>1, SortedHeld
  <2>3. Sorted(buffered) \o Sorted(micro) = Sorted(buffered)
    BY <2>2, ConcatEmptySeq
  <2>4. /\ emitted' = emitted \o Sorted(buffered) /\ buffered' = {}
        /\ UNCHANGED <<seq, orderedLate>>
    BY <1>4, <2>3 DEF FlushHeld, Emit
  <2>5. Len(emitted') = Len(emitted) + Cardinality(buffered)
    BY <1>1, <2>2, <2>4, EmittedTail
  <2>6. Cardinality(buffered') = 0  BY <2>4, FS_EmptySet
  <2> QED  BY <1>1, <2>4, <2>5, <2>6
<1>5. CASE FlushDueSlots  BY <1>4, <1>5 DEF FlushDueSlots
<1>6. CASE FlushAll  BY <1>4, <1>6 DEF FlushAll
<1>7. CASE FlushDueMicro  BY <1>7 DEF FlushDueMicro
<1>8. CASE Tick  BY <1>2, <1>8 DEF Tick, history
<1>9. CASE UNCHANGED vars  BY <1>2, <1>9 DEF vars
<1> QED  BY <1>3, <1>5, <1>6, <1>7, <1>8, <1>9 DEF Next

Seqs(S) == {b.seq : b \in S}

(* Unordered and micro-batch: whatever is emitted or in the window moves     *)
(* between the two, and an arrival joins them.                               *)
LEMMA UnorderedAccounts ==
  ASSUME IInv, [Next]_vars, mode \in {"Unordered", "MicroBatch"}
  PROVE  \/ seq' = seq /\ Out' \cup microBatch' = Out \cup microBatch
         \/ \E b : /\ b.seq = seq /\ seq' = seq + 1
                   /\ Out' \cup microBatch' = Out \cup microBatch \cup {b}
<1> DEFINE Kept == seq' = seq /\ Out' \cup microBatch' = Out \cup microBatch
<1>1. emitted \in Seq(Batch) /\ buffered = {}  BY DEF IInv, TypeOK, ModeShape
<1>2. CASE Push
  <2>1. PICK s \in Slots, t \in TxIndexes :
          LET b == [slot |-> s, tx |-> t, seq |-> seq] IN
          /\ seq < MaxArrivals
          /\ seq' = seq + 1
          /\ UNCHANGED mode
          /\ PushUnordered(b) \/ PushMicroBatch(b)
    BY <1>2 DEF Push, PushOrderedLate, PushOrdered, PushStreamingNext, PushStreamingAhead,
                PushStreamingStale
  <2> DEFINE b == [slot |-> s, tx |-> t, seq |-> seq]
  <2>2. Arrives(b) /\ b.seq = seq
    <3>1. seq \in 0 .. MaxArrivals - 1 /\ seq' \in 0 .. MaxArrivals
      BY <2>1, OrderBufferAssumption DEF IInv, TypeOK
    <3> QED  BY <2>1, <3>1 DEF Arrives, Batch
  <2>3. PushUnordered(b) \/ PushMicroBatch(b)  BY <2>1
  <2> HIDE DEF b
  <2>4. CASE PushUnordered(b)
    <3>1. <<b>> \in Seq(Batch) /\ Range(<<b>>) = {b}  BY <2>2 DEF Arrives, Range
    <3>2. emitted' = emitted \o <<b>> /\ microBatch' = microBatch
      BY <2>4 DEF PushUnordered, Emit
    <3>3. Out' = Out \cup {b}  BY <1>1, <3>1, <3>2, EmittedGrows
    <3> QED  BY <2>1, <2>2, <3>2, <3>3
  <2>5. CASE PushMicroBatch(b)
    <3> DEFINE full == (IF microBatch = {} THEN 0 ELSE microAge) >= MicroWindow
               held == microBatch \cup {b}
    <3>1. /\ emitted' = emitted \o (IF full THEN Sorted(held) ELSE <<>>)
          /\ microBatch' = IF full THEN {} ELSE held
      BY <2>5 DEF PushMicroBatch, Emit, Window
    <3>2. held \subseteq Batch /\ IsFiniteSet(held) /\ Distinct(held)
      BY <2>2, ArrivalIsNew, FS_AddElement DEF IInv, TypeOK
    <3>3. Sorted(held) \in Seq(Batch) /\ Range(Sorted(held)) = held
      BY <3>2, SortedLists, BatchIsAny
    <3>4. <<>> \in Seq(Batch) /\ Range(<<>>) = {}  BY DEF Range
    <3>5. CASE full
      <4>1. Out' = Out \cup held  BY <1>1, <3>1, <3>3, <3>5, EmittedGrows
      <4> QED  BY <2>1, <2>2, <3>1, <3>5, <4>1
    <3>6. CASE ~ full
      <4>1. Out' = Out \cup {}  BY <1>1, <3>1, <3>4, <3>6, EmittedGrows
      <4> QED  BY <2>1, <2>2, <3>1, <3>6, <4>1
    <3> QED  BY <3>5, <3>6
  <2> QED  BY <2>3, <2>4, <2>5
<1>3. ASSUME emitted' = emitted \o Sorted(microBatch), microBatch' = {}, seq' = seq  PROVE Kept
  <2>1. Sorted(microBatch) \in Seq(Batch) /\ Range(Sorted(microBatch)) = microBatch
    BY SortedHeld
  <2>2. Out' = Out \cup microBatch  BY <1>1, <1>3, <2>1, EmittedGrows
  <2> QED  BY <1>3, <2>2
<1>4. CASE FlushDueMicro  BY <1>3, <1>4 DEF FlushDueMicro, Emit
<1>5. CASE FlushAll
  <2>1. Sorted(buffered) \o Sorted(microBatch) = Sorted(microBatch)
    BY <1>1, SortedHeld, ConcatEmptySeq
  <2> QED  BY <1>3, <1>5, <2>1 DEF FlushAll, FlushHeld, Emit
<1>6. CASE FlushDueSlots  BY <1>1, <1>6 DEF FlushDueSlots
<1>7. CASE Tick  BY <1>7 DEF Tick, history, Out
<1>8. CASE UNCHANGED vars  BY <1>8 DEF vars, Out
<1> QED  BY <1>2, <1>4, <1>5, <1>6, <1>7, <1>8 DEF Next

(* What is handed over leaves the buffer for the output. *)
LEMMA HandedOver ==
  ASSUME IInv, IInv', NEW W, NEW S, Delivery!HandOver(W, S)
  PROVE  Out' \cup buffered' = Out \cup W
<1> DEFINE tail == SubSeq(emitted', Len(emitted) + 1, Len(emitted'))
<1>1. /\ S \subseteq W /\ buffered' = W \ S
      /\ emitted' = emitted \o tail /\ Range(tail) = S
  BY SameOrder DEF Delivery!HandOver
<1>2. emitted \in Seq(Batch) /\ emitted' \in Seq(Batch)  BY DEF IInv, TypeOK
<1>3. tail \in Seq(Batch)
  <2>1. Len(emitted) \in Nat /\ Len(emitted') \in Nat  BY <1>2, LenProperties
  <2>2. \A i \in Len(emitted) + 1 .. Len(emitted') : emitted'[i] \in Batch
    BY <1>2, <2>1, ElementOfSeq
  <2> QED  BY <2>1, <2>2, SubSeqProperties
<1> HIDE DEF tail
<1>4. Out' = Out \cup S  BY <1>1, <1>2, <1>3, EmittedGrows
<1> QED  BY <1>1, <1>4

(* Streaming: batches move from the buffer to the output, and an arrival     *)
(* joins one of them or those dropped.                                       *)
LEMMA StreamingAccounts ==
  ASSUME IInv, IInv', [Next]_vars, mode = "StreamingOrdered"
  PROVE  \/ seq' = seq /\ Out' \cup (buffered' \cup refused') = Out \cup (buffered \cup refused)
         \/ \E b : /\ b.seq = seq /\ seq' = seq + 1
                   /\ Out' \cup (buffered' \cup refused')
                        = Out \cup (buffered \cup refused) \cup {b}
<1>1. Keeping  BY DEF Keeping
<1>2. CASE Push
  <2>1. PICK s \in Slots, t \in TxIndexes :
          LET b == [slot |-> s, tx |-> t, seq |-> seq] IN
          /\ seq < MaxArrivals
          /\ seq' = seq + 1
          /\ UNCHANGED mode
          /\ PushStreamingNext(b) \/ PushStreamingAhead(b) \/ PushStreamingStale(b)
    BY <1>2 DEF Push, PushUnordered, PushOrderedLate, PushOrdered, PushMicroBatch
  <2> DEFINE b == [slot |-> s, tx |-> t, seq |-> seq]
  <2>2. Arrives(b) /\ b.seq = seq
    <3>1. seq \in 0 .. MaxArrivals - 1 /\ seq' \in 0 .. MaxArrivals
      BY <2>1, OrderBufferAssumption DEF IInv, TypeOK
    <3> QED  BY <2>1, <3>1 DEF Arrives, Batch
  <2>3. PushStreamingNext(b) \/ PushStreamingAhead(b) \/ PushStreamingStale(b)  BY <2>1
  <2> HIDE DEF b
  <2>4. Delivery!Accept(b) \/ Delivery!Refuse(b)
    BY <2>2, <2>3, PushStreamingNextInv, PushStreamingAheadInv, PushStreamingStaleInv
  <2>5. CASE Delivery!Accept(b)
    <3>1. refused' = refused /\ \E S : Delivery!HandOver(buffered \cup {b}, S)
      BY <2>5 DEF Delivery!Accept
    <3>2. Out' \cup buffered' = Out \cup (buffered \cup {b})  BY <3>1, HandedOver
    <3> QED  BY <2>1, <2>2, <3>1, <3>2
  <2>6. CASE Delivery!Refuse(b)
    BY <2>1, <2>2, <2>6 DEF Delivery!Refuse, Out
  <2> QED  BY <2>4, <2>5, <2>6
<1>3. ASSUME Delivery!Release, seq' = seq
      PROVE  Out' \cup (buffered' \cup refused') = Out \cup (buffered \cup refused)
  <2>1. refused' = refused /\ \E S : Delivery!HandOver(buffered, S)
    BY <1>3 DEF Delivery!Release
  <2>2. Out' \cup buffered' = Out \cup buffered  BY <2>1, HandedOver
  <2> QED  BY <2>1, <2>2
<1>4. CASE FlushDueSlots
  <2>1. /\ FlushHeld({}) /\ microBatch' = microBatch \ {} /\ microAge' \in 0 .. MicroWindow
    BY <1>4 DEF FlushDueSlots, IInv, TypeOK
  <2>2. Delivery!Release /\ seq' = seq  BY <1>1, <2>1, FlushStep DEF FlushHeld
  <2> QED  BY <1>3, <2>2
<1>5. CASE FlushAll
  <2>1. /\ FlushHeld(microBatch) /\ microBatch' = microBatch \ microBatch
        /\ microAge' \in 0 .. MicroWindow
    BY <1>5, OrderBufferAssumption DEF FlushAll
  <2>2. Delivery!Release /\ seq' = seq  BY <1>1, <2>1, FlushStep DEF FlushHeld
  <2> QED  BY <1>3, <2>2
<1>6. CASE FlushDueMicro  BY <1>6 DEF FlushDueMicro
<1>7. CASE Tick  BY <1>7 DEF Tick, history, Out
<1>8. CASE UNCHANGED vars  BY <1>8 DEF vars, Out
<1> QED  BY <1>2, <1>4, <1>5, <1>6, <1>7, <1>8 DEF Next

(* Where nothing leaves a set and every arrival joins it, it holds every     *)
(* arrival number so far.                                                    *)
LEMMA NumbersSoFar ==
  ASSUME IInv, NEW S, NEW T, Seqs(S) = 0 .. seq - 1,
         \/ seq' = seq /\ T = S
         \/ \E b : b.seq = seq /\ seq' = seq + 1 /\ T = S \cup {b}
  PROVE  Seqs(T) = 0 .. seq' - 1
<1>1. seq \in Nat  BY DEF IInv, TypeOK
<1>2. ASSUME NEW b, b.seq = seq, seq' = seq + 1, T = S \cup {b}
      PROVE  Seqs(T) = 0 .. seq' - 1
  <2>1. Seqs(T) = Seqs(S) \cup {seq}  BY <1>2 DEF Seqs
  <2>2. seq' - 1 = seq /\ (0 .. seq - 1) \cup {seq} = 0 .. seq  BY <1>1, <1>2
  <2> QED  BY <2>1, <2>2
<1> QED  BY <1>2

(* Every arrival of an ordered dispatcher has been emitted, is buffered, or  *)
(* is counted as late; one of a streaming dispatcher has been emitted, is    *)
(* buffered, or was dropped on arrival; the other modes lose none.           *)
THEOREM AccountedHolds == Spec => []Accounted
<1>1. Init => Accounted
  BY FS_EmptySet DEF Init, Accounted
<1>2. IInv /\ Accounted /\ [Next]_vars => Accounted'
  <2> SUFFICES ASSUME IInv, Accounted, [Next]_vars  PROVE Accounted'
    OBVIOUS
  <2>1. mode' = mode
    BY DEF Next, Push, FlushDueSlots, FlushDueMicro, FlushAll, FlushHeld, Tick, vars
  <2>2. mode = "Ordered" => seq' = Len(emitted') + Cardinality(buffered') + orderedLate'
    BY OrderedAccounts DEF Accounted
  <2>5. /\ Seqs(Out) = {emitted[i].seq : i \in DOMAIN emitted}
        /\ Seqs(Out') = {emitted'[i].seq : i \in DOMAIN emitted'}
        /\ \A S, T : Seqs(S \cup T) = Seqs(S) \cup Seqs(T)
    BY DEF Seqs, Out, Range
  <2>3. ASSUME mode \in {"Unordered", "MicroBatch"}
        PROVE  {emitted'[i].seq : i \in DOMAIN emitted'} \cup {b.seq : b \in microBatch'}
                 = 0 .. seq' - 1
    <3>1. Seqs(Out \cup microBatch) = 0 .. seq - 1
      BY <2>3, <2>5 DEF Accounted, Seqs
    <3>2. Seqs(Out' \cup microBatch') = 0 .. seq' - 1
      BY <2>3, <3>1, UnorderedAccounts, NumbersSoFar
    <3> QED  BY <2>5, <3>2 DEF Seqs
  <2>4. ASSUME mode = "StreamingOrdered"
        PROVE  {emitted'[i].seq : i \in DOMAIN emitted'} \cup {b.seq : b \in buffered' \cup refused'}
                 = 0 .. seq' - 1
    <3>1. Seqs(Out \cup (buffered \cup refused)) = 0 .. seq - 1
      BY <2>4, <2>5 DEF Accounted, Seqs
    <3>2. Seqs(Out' \cup (buffered' \cup refused')) = 0 .. seq' - 1
      BY <2>4, <3>1, Step, StreamingAccounts, NumbersSoFar
    <3> QED  BY <2>5, <3>2 DEF Seqs
  <2> QED  BY <2>1, <2>2, <2>3, <2>4 DEF Accounted
<1> QED  BY <1>1, <1>2, Invariance, PTL DEF Spec

(* A micro-batch window goes out as a whole and sorted, whichever step ends  *)
(* it: the arrival past its end, the timer or a flush.                       *)
THEOREM WindowInOrderHolds == Spec => WindowInOrder
<1> DEFINE tail == SubSeq(emitted', Len(emitted) + 1, Len(emitted'))
           Sent == mode = "MicroBatch" /\ emitted' # emitted => InOrder(tail) /\ microBatch' = {}
<1>1. IInv /\ [Next]_vars => [Sent]_vars
  <2> SUFFICES ASSUME IInv, Next, mode = "MicroBatch", emitted' # emitted
               PROVE  InOrder(tail) /\ microBatch' = {}
    OBVIOUS
  <2>1. emitted \in Seq(Batch) /\ buffered = {}  BY DEF IInv, TypeOK, ModeShape
  <2>2. ASSUME NEW out \in Seq(Batch), InOrder(out), emitted' = emitted \o out
        PROVE  InOrder(tail)
    <3>1. tail = out  BY <2>1, <2>2, EmittedTail
    <3> QED  BY <2>2, <3>1
  <2>3. Sorted(microBatch) \in Seq(Batch) /\ InOrder(Sorted(microBatch))  BY SortedHeld
  <2>4. CASE Push
    <3>1. PICK s \in Slots, t \in TxIndexes :
            LET b == [slot |-> s, tx |-> t, seq |-> seq] IN
            seq < MaxArrivals /\ seq' = seq + 1 /\ UNCHANGED mode /\ PushMicroBatch(b)
      BY <2>4 DEF Push, PushUnordered, PushOrderedLate, PushOrdered, PushStreamingNext,
                  PushStreamingAhead, PushStreamingStale
    <3> DEFINE b == [slot |-> s, tx |-> t, seq |-> seq]
    <3>2. Arrives(b)
      <4>1. seq \in 0 .. MaxArrivals - 1 /\ seq' \in 0 .. MaxArrivals
        BY <3>1, OrderBufferAssumption, SMTT(30) DEF IInv, TypeOK
      <4> QED  BY <3>1, <4>1 DEF Arrives, Batch
    <3>3. PushMicroBatch(b)  BY <3>1
    <3> HIDE DEF b
    <3> DEFINE full == (IF microBatch = {} THEN 0 ELSE microAge) >= MicroWindow
               held == microBatch \cup {b}
    <3>4. /\ emitted' = emitted \o (IF full THEN Sorted(held) ELSE <<>>)
          /\ microBatch' = IF full THEN {} ELSE held
      BY <3>3 DEF PushMicroBatch, Emit, Window
    <3>5. full
      <4>1. emitted \o <<>> = emitted  BY <2>1, ConcatEmptySeq
      <4> QED  BY <3>4, <4>1
    <3>6. held \subseteq Batch /\ IsFiniteSet(held) /\ Distinct(held)
      BY <3>2, ArrivalIsNew, FS_AddElement DEF IInv, TypeOK
    <3>7. Sorted(held) \in Seq(Batch) /\ InOrder(Sorted(held))
      BY <3>6, SortedLists, BatchIsAny
    <3> QED  BY <2>2, <3>4, <3>5, <3>7
  <2>5. CASE FlushDueMicro
    BY <2>2, <2>3, <2>5 DEF FlushDueMicro, Emit
  <2>6. CASE FlushAll
    <3>1. Sorted(buffered) \o Sorted(microBatch) = Sorted(microBatch)
      BY <2>1, SortedHeld, ConcatEmptySeq, SMTT(30)
    <3> QED  BY <2>2, <2>3, <2>6, <3>1 DEF FlushAll, FlushHeld, Emit
  <2>7. CASE FlushDueSlots \/ Tick  BY <2>1, <2>7 DEF FlushDueSlots, Tick, history
  <2> QED  BY <2>4, <2>5, <2>6, <2>7 DEF Next
<1> QED  BY <1>1, Invariance, PTL DEF Spec, WindowInOrder

(* The dispatcher's fields keep their types, whatever arrives and however    *)
(* its timers fall.                                                          *)
THEOREM TypeCorrect == Spec => []TypeOK
<1>1. IInv => TypeOK  BY DEF IInv
<1> QED  BY <1>1, Invariance, PTL

(* The consumer of an ordered subscription never sees a transaction after a  *)
(* later one.                                                                *)
THEOREM OrderCorrect == Spec => []OutputInOrder
<1>1. IInv => OutputInOrder  BY DEF IInv
<1> QED  BY <1>1, Invariance, PTL

(* The duplicate filter of the streaming mode is exactly its buffer.         *)
THEOREM PendingCorrect == Spec => []PendingMatchesBuffer
<1>1. IInv => PendingMatchesBuffer  BY DEF IInv
<1> QED  BY <1>1, Invariance, PTL

(* The streaming watermark is past everything emitted of the current slot.   *)
THEOREM WatermarkCorrect == Spec => []WatermarkIsProgress
<1>1. IInv => WatermarkIsProgress  BY DEF IInv
<1> QED  BY <1>1, Invariance, PTL

(* A streaming consumer receives no transaction twice: two outputs of one    *)
(* place would be the same batch, and no batch follows itself in the order.  *)
THEOREM AtMostOnce == Spec => []NeverTwice
<1>1. IInv => NeverTwice
  <2> SUFFICES ASSUME IInv, mode = "StreamingOrdered",
                      NEW i \in DOMAIN emitted, NEW j \in DOMAIN emitted,
                      emitted[i].slot = emitted[j].slot, emitted[i].tx = emitted[j].tx
               PROVE  i = j
    BY DEF NeverTwice
  <2>1. emitted[i] \in Out /\ emitted[j] \in Out  BY DEF Out, Range
  <2>2. emitted[i] = emitted[j]  BY <2>1 DEF IInv, StreamMark
  <2>3. emitted[i] \in AnyBatch
    BY <2>1, BatchIsAny, RangeOfSeq DEF IInv, TypeOK, Out
  <2>4. ~ (i < j) /\ ~ (j < i)
    BY <2>2, <2>3, BeforeOrder DEF IInv, OutputInOrder, InOrder
  <2>5. i \in Int /\ j \in Int
    <3>1. DOMAIN emitted = 1 .. Len(emitted)  BY LenProperties DEF IInv, TypeOK
    <3> QED  BY <3>1
  <2> QED  BY <2>4, <2>5
<1> QED  BY <1>1, Invariance, PTL

(* An ordered dispatcher implements the delivery promise: whatever its slots *)
(* table, watermarks and timers do, each step hands over a lower part of     *)
(* what waits, in order, or refuses a transaction whose place is taken.      *)
THEOREM ImplementsDelivery == Spec => DeliverySpec
<1>1. Init => Delivery!Init  BY DEF Init, Delivery!Init
<1>2. IInv /\ [Next]_vars => [DeliveryStep]_<<buffered, emitted, refused>>
  <2> SUFFICES ASSUME IInv, [Next]_vars, mode \in {"Ordered", "StreamingOrdered"}
               PROVE  [Delivery!Next]_<<buffered, emitted, refused>>
    BY DEF DeliveryStep
  <2>1. [Delivery!Next]_Delivery!vars  BY Step DEF Keeping
  <2> QED  BY <2>1 DEF Delivery!vars
<1> QED  BY <1>1, <1>2, Invariance, PTL DEF Spec, DeliverySpec
=============================================================================
