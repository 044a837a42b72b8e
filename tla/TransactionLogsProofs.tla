------------------------ MODULE TransactionLogsProofs ------------------------
(***************************************************************************)
(* Who wrote a line of the log: for any programs, any number and depth of  *)
(* calls and any lines left out, a line of data is attributed to its own   *)
(* program, to its own instruction or to none, and creations are noticed,  *)
(* unless a message before it reads as a call.                             *)
(*                                                                         *)
(* Then what the consumer is told: of any invocations, seen anywhere, logs *)
(* and instructions are joined with their own counterparts, each           *)
(* invocation is told once, and creations before trades.                   *)
(***************************************************************************)
EXTENDS TransactionLogs, FiniteSetTheorems, SequenceTheorems, WellFoundedInduction,
        TLAPS

Logging == Programs \ Precompiles

(* What can be on a stack.                                                   *)
Stacked == Logging \cup {Quoted}

Line == [by : Logging, text : {"short", "data"}, create : BOOLEAN, outer : Nat,
         scope : Stacked \cup {None}, begun : Nat, spoiled : SUBSET Loops]

TypeOK ==
  /\ setting \in Settings
  /\ running \in Seq(Logging)
  /\ outers \in Seq(Programs)
  /\ room \in 1 .. Unlimited
  /\ active \in Seq(Stacked) /\ exact \in Seq(Stacked)
  /\ begins \in Seq(Stacked)
  /\ spoiled \in SUBSET Loops
  /\ data \in Seq(Line)

(* The stack of the parsers is that of the runtime until a call or a return  *)
(* is missing or a message reads as one; that of the detection, while every  *)
(* line of a call or return still fits, until a message ends as one.         *)
InStep ==
  /\ "active" \notin spoiled => active = running
  /\ room > Lengths["invoke"] /\ "exact" \notin spoiled => exact = running

At(s, p) == {i \in DOMAIN s : s[i] = p}
UpTo(S, k) == {i \in S : i <= k}

(* No call is missing as long as its line fits, and what runs runs under the *)
(* latest instruction of the message.                                        *)
Complete ==
  room > Lengths["invoke"] =>
    /\ \A p \in Logging : Cardinality(At(begins, p)) = Cardinality(At(outers, p))
    /\ running # <<>> => outers # <<>>
    /\ running # <<>> /\ "begins" \notin spoiled => begins # <<>> /\ Top(begins) = Top(outers)

(* After a message "invoke [1]" no instruction is known, up to the next.     *)
Unknown == "begins" \in spoiled => begins # <<>> /\ Top(begins) = Quoted

(* A line of data was written when no call was missing yet: its line "invoke *)
(* [1]" is as many-eth of its program as its instruction is, or it is a      *)
(* message.                                                                  *)
PlacedAt(bs, os, b, o) ==
  /\ b \in DOMAIN bs /\ o \in DOMAIN os
  /\ bs[b] = os[o]
  /\ Cardinality(UpTo(At(bs, bs[b]), b)) = Cardinality(UpTo(At(os, bs[b]), o))

PlacedLine(bs, os, d) ==
  d.text = "data" =>
    IF "begins" \in d.spoiled THEN d.begun \in DOMAIN bs /\ bs[d.begun] = Quoted
    ELSE PlacedAt(bs, os, d.begun, d.outer)

Placed == \A n \in DOMAIN data : PlacedLine(begins, outers, data[n])

IInv == TypeOK /\ InStep /\ Complete /\ Unknown /\ Placed /\ OwnScope /\ CreateDetected

-----------------------------------------------------------------------------
(* Stacks *)

(* A sequence has positions 1 to its length, which grow by one with it.      *)
LEMMA Positioned ==
  ASSUME NEW S, NEW s \in Seq(S), NEW e
  PROVE  /\ Len(s) \in Nat /\ DOMAIN s = 1 .. Len(s)
         /\ DOMAIN Append(s, e) = 1 .. Len(s) + 1
         /\ Append(s, e)[Len(s) + 1] = e
         /\ \A i \in 1 .. Len(s) : Append(s, e)[i] = s[i]
         /\ s = <<>> <=> Len(s) = 0
  OBVIOUS

(* Of positions in a sequence the last is the greatest.                      *)
LEMMA MaxIsIn ==
  ASSUME NEW n \in Nat, NEW at \in SUBSET (1 .. n), at # {}
  PROVE  Max(at) \in at
<1> DEFINE T == {n - i : i \in at}
<1>1. T \in SUBSET Nat /\ T # {}
  <2>1. \A i \in at : n - i \in Nat  OBVIOUS
  <2> QED  BY <2>1
<1>2. IsWellFoundedOn(OpToRel(<, Nat), Nat)  BY NatLessThanWellFounded
<1>3. PICK d \in T : \A e \in T : <<e, d>> \notin OpToRel(<, Nat)
  BY <1>1, <1>2, WFMin
<1>4. \A e \in T : ~ (e < d)  BY <1>1, <1>3 DEF OpToRel
<1>5. PICK i \in at : d = n - i  OBVIOUS
<1>6. \A j \in at : i >= j
  <2> SUFFICES ASSUME NEW j \in at  PROVE i >= j
    OBVIOUS
  <2>1. ~ (n - j < n - i)  BY <1>4, <1>5
  <2> QED  BY <2>1
<1> QED  BY <1>5, <1>6 DEF Max

(* A call seen on the runtime's stack puts its program on top of it, and     *)
(* one at the first level leaves nothing below, whatever the stack was.      *)
LEMMA InvokedCall ==
  ASSUME NEW S, NEW s \in Seq(S), NEW p
  PROVE  /\ Invoked(s, p, Len(s) + 1) = Append(s, p)
         /\ Invoked(s, p, 1) = <<p>>
<1>1. \A n \in Nat : Min({n}) = n
  BY DEF Min
<1>2. Len(s) \in Nat  OBVIOUS
<1>3. Min({(Len(s) + 1) - 1, Len(s)}) = Len(s)
  <2>1. {(Len(s) + 1) - 1, Len(s)} = {Len(s)}  BY <1>2
  <2> QED  BY <1>1, <1>2, <2>1
<1>4. Min({1 - 1, Len(s)}) = 0
  <2> DEFINE M == {1 - 1, Len(s)}
  <2>1. 0 \in M /\ \A y \in M : 0 <= y  BY <1>2
  <2>2. \A x \in M : (\A y \in M : x <= y) => x = 0  BY <1>2
  <2> QED  BY <2>1, <2>2 DEF Min
<1>5. SubSeq(s, 1, Len(s)) = s  OBVIOUS
<1>6. SubSeq(s, 1, 0) = <<>>  BY SubSeqEmpty
<1>7. Append(<<>>, p) = <<p>>  OBVIOUS
<1> QED  BY <1>3, <1>4, <1>5, <1>6, <1>7 DEF Invoked

(* A return of the program on top takes just that call off.                  *)
LEMMA CompletedTop ==
  ASSUME NEW S, NEW s \in Seq(S), s # <<>>
  PROVE  Completed(s, Top(s)) = SubSeq(s, 1, Len(s) - 1)
<1> DEFINE at == {i \in DOMAIN s : s[i] = Top(s)}
<1>1. Len(s) \in at  BY DEF Top
<1>2. \A i \in at : i \in Nat /\ i <= Len(s)  OBVIOUS
<1>3. Len(s) \in Nat  OBVIOUS
<1>4. Max(at) = Len(s)
  <2>1. \A x \in at : (\A y \in at : x >= y) => x = Len(s)  BY <1>1, <1>2, <1>3
  <2>2. \A y \in at : Len(s) >= y  BY <1>2, <1>3
  <2> HIDE DEF at
  <2> QED  BY <1>1, <2>1, <2>2 DEF Max
<1>5. at # {}  BY <1>1
<1> QED  BY <1>4, <1>5 DEF Completed

(* Whatever ends a call leaves a stack of what was on it.                    *)
LEMMA CompletedPart ==
  ASSUME NEW S, NEW s \in Seq(S), NEW p
  PROVE  Completed(s, p) \in Seq(S)
<1> DEFINE at == {i \in DOMAIN s : s[i] = p}
<1>1. CASE at = {}  BY <1>1 DEF Completed
<1>2. CASE at # {}
  <2>1. at \subseteq 1 .. Len(s) /\ IsFiniteSet(at)
    <3>1. IsFiniteSet(1 .. Len(s))  BY FS_Interval
    <3> QED  BY <3>1, FS_Subset
  <2>2. Max(at) \in at
    <3>1. Len(s) \in Nat  OBVIOUS
    <3> HIDE DEF at
    <3> QED  BY <1>2, <2>1, <3>1, MaxIsIn
  <2>3. Max(at) - 1 \in 0 .. Len(s)  BY <2>1, <2>2
  <2>4. SubSeq(s, 1, Max(at) - 1) \in Seq(S)
    <3> DEFINE m == Max(at) - 1
    <3>1. m \in 0 .. Len(s)  BY <2>3
    <3> HIDE DEF m
    <3>2. \A i \in 1 .. m : s[i] \in S  BY <3>1
    <3>3. SubSeq(s, 1, m) \in Seq(S)  BY <3>1, <3>2, SubSeqProperties
    <3> QED  BY <3>3 DEF m
  <2> QED  BY <1>2, <2>4 DEF Completed
<1> QED  BY <1>1, <1>2

(* Whatever is taken for a call leaves a stack, too.                         *)
LEMMA InvokedPart ==
  ASSUME NEW S, NEW s \in Seq(S), NEW p \in S, NEW depth \in Nat \ {0}
  PROVE  Invoked(s, p, depth) \in Seq(S)
<1> DEFINE M == {depth - 1, Len(s)}
<1>1. Len(s) \in Nat /\ depth - 1 \in Nat  OBVIOUS
<1>2. Min(M) \in 0 .. Len(s)
  <2>1. \E x \in M : \A y \in M : x <= y
    <3>1. CASE depth - 1 <= Len(s)  BY <1>1, <3>1
    <3>2. CASE Len(s) <= depth - 1  BY <1>1, <3>2
    <3> QED  BY <1>1, <3>1, <3>2
  <2>2. Min(M) \in M /\ \A y \in M : Min(M) <= y  BY <2>1 DEF Min
  <2> QED  BY <1>1, <2>2
<1> DEFINE m == Min(M)
<1>3. m \in 0 .. Len(s)  BY <1>2
<1> HIDE DEF m
<1>4. \A i \in 1 .. m : s[i] \in S  BY <1>3
<1>5. SubSeq(s, 1, m) \in Seq(S)  BY <1>3, <1>4, SubSeqProperties
<1>6. Append(SubSeq(s, 1, m), p) \in Seq(S)  BY <1>5
<1> QED  BY <1>6 DEF Invoked, m

-----------------------------------------------------------------------------
(* Counts *)

(* The positions of a program are a finite set.                              *)
LEMMA PositionsFinite ==
  ASSUME NEW S, NEW s \in Seq(S), NEW p
  PROVE  /\ At(s, p) \subseteq 1 .. Len(s)
         /\ IsFiniteSet(At(s, p))
         /\ \A k : IsFiniteSet(UpTo(At(s, p), k))
<1>1. At(s, p) \subseteq 1 .. Len(s)  BY DEF At
<1>2. IsFiniteSet(1 .. Len(s))  BY FS_Interval
<1>3. IsFiniteSet(At(s, p))  BY <1>1, <1>2, FS_Subset
<1>4. \A k : UpTo(At(s, p), k) \subseteq At(s, p)  BY DEF UpTo
<1> QED  BY <1>1, <1>3, <1>4, FS_Subset

(* One more element is one more of its own kind and no other, and changes    *)
(* no count of those before it.                                              *)
LEMMA OneMore ==
  ASSUME NEW S, NEW s \in Seq(S), NEW e \in S, NEW p
  PROVE  /\ Cardinality(At(Append(s, e), p)) = Cardinality(At(s, p)) + (IF e = p THEN 1 ELSE 0)
         /\ \A k \in 1 .. Len(s) : UpTo(At(Append(s, e), p), k) = UpTo(At(s, p), k)
<1> DEFINE s1 == Append(s, e)
<1>1. /\ Len(s) \in Nat /\ DOMAIN s = 1 .. Len(s) /\ DOMAIN s1 = 1 .. Len(s) + 1
      /\ s1[Len(s) + 1] = e /\ \A i \in 1 .. Len(s) : s1[i] = s[i]
  BY Positioned
<1> HIDE DEF s1
<1>2. At(s1, p) = IF e = p THEN At(s, p) \cup {Len(s) + 1} ELSE At(s, p)
  <2>1. \A i \in 1 .. Len(s) + 1 : i \in 1 .. Len(s) \/ i = Len(s) + 1  BY <1>1
  <2>2. \A i \in 1 .. Len(s) : i \in 1 .. Len(s) + 1  BY <1>1
  <2>3. Len(s) + 1 \in 1 .. Len(s) + 1  BY <1>1
  <2> QED  BY <1>1, <2>1, <2>2, <2>3 DEF At
<1>3. IsFiniteSet(At(s, p)) /\ ~ Len(s) + 1 \in At(s, p)  BY <1>1, PositionsFinite
<1>4. Cardinality(At(s, p) \cup {Len(s) + 1}) = Cardinality(At(s, p)) + 1
  BY <1>3, FS_AddElement
<1>5. Cardinality(At(s, p)) \in Nat  BY <1>3, FS_CardinalityType
<1>6. \A k \in 1 .. Len(s) : UpTo(At(s1, p), k) = UpTo(At(s, p), k)
  <2> SUFFICES ASSUME NEW k \in 1 .. Len(s)  PROVE UpTo(At(s1, p), k) = UpTo(At(s, p), k)
    OBVIOUS
  <2>1. ~ (Len(s) + 1 <= k)  BY <1>1
  <2> QED  BY <1>2, <2>1 DEF UpTo
<1>7. Cardinality(At(s1, p)) = Cardinality(At(s, p)) + (IF e = p THEN 1 ELSE 0)
  <2>1. CASE e = p  BY <1>2, <1>4, <2>1
  <2>2. CASE e # p  BY <1>2, <1>5, <2>2
  <2> QED  BY <2>1, <2>2
<1> QED  BY <1>6, <1>7 DEF s1

(* Two positions of a program with the same number of them before are one.   *)
LEMMA NthIsOne ==
  ASSUME NEW S, NEW s \in Seq(S), NEW p, NEW i \in At(s, p), NEW j \in At(s, p),
         Cardinality(UpTo(At(s, p), i)) = Cardinality(UpTo(At(s, p), j))
  PROVE  i = j
<1> DEFINE P == At(s, p)
<1>1. P \subseteq Nat /\ \A k : IsFiniteSet(UpTo(P, k))  BY PositionsFinite
<1> HIDE DEF P
<1>2. ASSUME NEW a \in P, NEW b \in P, a < b,
             Cardinality(UpTo(P, a)) = Cardinality(UpTo(P, b))
      PROVE  FALSE
  <2>1. UpTo(P, a) \in SUBSET UpTo(P, b)
    <3>1. a \in Nat /\ b \in Nat /\ \A x \in P : x \in Nat  BY <1>1, <1>2
    <3>2. \A x \in P : x <= a => x <= b  BY <1>2, <3>1
    <3> QED  BY <3>2 DEF UpTo
  <2>2. UpTo(P, b) = UpTo(P, a)  BY <1>1, <1>2, <2>1, FS_Subset
  <2>3. b \in UpTo(P, b) /\ ~ b \in UpTo(P, a)  BY <1>1, <1>2 DEF UpTo
  <2> QED  BY <2>2, <2>3
<1>3. i \in Nat /\ j \in Nat /\ i \in P /\ j \in P  BY <1>1 DEF P
<1>4. ~ i < j  BY <1>2, <1>3 DEF P
<1>5. ~ j < i  BY <1>2, <1>3 DEF P
<1> QED  BY <1>3, <1>4, <1>5

-----------------------------------------------------------------------------
(* Steps *)

(* What a step may be.                                                       *)
LEMMA Steps ==
  ASSUME TypeOK, [Next]_vars
  PROVE  \/ \E p \in Logging : Call(p) \/ CallUnseen(p)
         \/ \E p \in Precompiles : Precompile(p)
         \/ \E text \in {"success", "failed"} : Return(text) \/ ReturnUnseen(text)
         \/ \E loops \in Misleads, depth \in Nat \ {0} : Quote(loops, depth)
         \/ \E loops \in SUBSET Loops : QuoteEnd(loops)
         \/ \E text \in {"short", "data"} : TellUnseen(text)
         \/ \E text \in {"short", "data"}, create \in BOOLEAN :
              (create => text = "data") /\ Tell(text, create)
         \/ UNCHANGED vars
<1>1. setting.programs \subseteq Programs /\ setting.depth \in Nat
  BY LogScopeAssumption DEF TypeOK
<1>2. setting.programs \ Precompiles \subseteq Logging
      /\ setting.programs \cap Precompiles \subseteq Precompiles
  BY <1>1 DEF Logging
<1>3. 1 .. setting.depth \subseteq Nat \ {0}  BY <1>1
<1>4. {{"active"}, {"active", "exact"}} \subseteq SUBSET Loops  BY DEF Loops
<1>7. CASE Silent  BY <1>2, <1>3, <1>4, <1>7 DEF Silent
<1>5. CASE \E text \in {"short", "data"} : TellUnseen(text) \/ Tell(text, FALSE)  BY <1>5
<1>6. CASE Tell("data", TRUE)  BY <1>6
<1> QED  BY <1>5, <1>6, <1>7 DEF Next

(* A line that is left out leaves no room for lines of its length.           *)
LEMMA LeftOutRoom ==
  ASSUME room \in 1 .. Unlimited, NEW text \in DOMAIN Lengths, LeftOut(text)
  PROVE  room' \in 1 .. Unlimited /\ room' <= room /\ room' <= Lengths[text]
<1>1. Lengths[text] \in 1 .. 4  BY DEF Lengths
<1> QED  BY <1>1 DEF LeftOut, Fits, Unlimited

(* A program on top of a stack is one of it.                                 *)
LEMMA TopIn ==
  ASSUME NEW S, NEW s \in Seq(S)
  PROVE  s # <<>> => Top(s) \in S /\ Top(s) = s[Len(s)]
BY DEF Top

(* What was put on a stack is on top of it.                                  *)
LEMMA TopAppended ==
  ASSUME NEW S, NEW s \in Seq(S), NEW e \in S
  PROVE  Append(s, e) # <<>> /\ Top(Append(s, e)) = e
<1>1. Append(s, e) \in Seq(S) /\ Len(Append(s, e)) = Len(s) + 1 /\ Append(s, e)[Len(s) + 1] = e
  OBVIOUS
<1>2. Append(s, e) # <<>>  BY AppendProperties
<1> QED  BY <1>1, <1>2 DEF Top

(* What runs after a return is the rest of the stack.                        *)
LEMMA ReturnLeaves ==
  ASSUME TypeOK, NEW text, Returns(text)
  PROVE  /\ running # <<>> /\ running' = SubSeq(running, 1, Len(running) - 1)
         /\ running' \in Seq(Logging)
         /\ running' # <<>> => running # <<>>
         /\ UNCHANGED <<setting, outers>>
<1>1. running \in Seq(Logging) /\ running # <<>>  BY DEF TypeOK, Returns
<1> DEFINE m == Len(running) - 1
<1>2. m \in 0 .. Len(running)  BY <1>1
<1> HIDE DEF m
<1>3. \A i \in 1 .. m : running[i] \in Logging  BY <1>1, <1>2
<1>4. SubSeq(running, 1, m) \in Seq(Logging)  BY <1>2, <1>3, SubSeqProperties
<1>5. SubSeq(running, 1, Len(running) - 1) \in Seq(Logging)  BY <1>4 DEF m
<1> QED  BY <1>1, <1>5 DEF Returns

(* The types are kept.                                                       *)
LEMMA TypeStep ==
  ASSUME TypeOK, [Next]_vars
  PROVE  TypeOK'
<1>1. /\ running \in Seq(Logging) /\ outers \in Seq(Programs) /\ active \in Seq(Stacked)
      /\ exact \in Seq(Stacked) /\ begins \in Seq(Stacked) /\ data \in Seq(Line)
      /\ room \in 1 .. Unlimited /\ setting \in Settings /\ spoiled \in SUBSET Loops
  BY DEF TypeOK
<1>2. Logging \subseteq Programs /\ Logging \subseteq Stacked /\ Quoted \in Stacked
      /\ "active" \in Loops
  BY DEF Logging, Stacked, Loops
<1>3. ASSUME NEW p \in Logging, Calls(p)
      PROVE  /\ setting' \in Settings /\ running' \in Seq(Logging) /\ outers' \in Seq(Programs)
             /\ Len(running') \in Nat \ {0}
  <2>1. running' = Append(running, p) /\ setting' = setting
        /\ outers' = IF running = <<>> THEN Append(outers, p) ELSE outers
    BY <1>3 DEF Calls
  <2>2. Append(running, p) \in Seq(Logging) /\ Len(Append(running, p)) \in Nat \ {0}  BY <1>1
  <2>3. Append(outers, p) \in Seq(Programs)  BY <1>1, <1>2
  <2> QED  BY <1>1, <2>1, <2>2, <2>3
<1>4. ASSUME NEW p \in Logging, Call(p)  PROVE TypeOK'
  <2>1. Calls(p)  BY <1>4 DEF Call
  <2>2. Invoked(active, p, Len(running')) \in Seq(Stacked)  BY <1>1, <1>2, <1>3, <2>1, InvokedPart
  <2>3. Invoked(exact, p, Len(running')) \in Seq(Stacked)  BY <1>1, <1>2, <1>3, <2>1, InvokedPart
  <2>4. Append(begins, p) \in Seq(Stacked)  BY <1>1, <1>2
  <2> QED  BY <1>1, <1>3, <1>4, <2>1, <2>2, <2>3, <2>4 DEF Call, TypeOK
<1>5. ASSUME NEW p \in Logging, CallUnseen(p)  PROVE TypeOK'
  <2>1. Calls(p) /\ LeftOut("invoke")  BY <1>5 DEF CallUnseen
  <2>2. room' \in 1 .. Unlimited  BY <1>1, <2>1, LeftOutRoom DEF Lengths
  <2> QED  BY <1>1, <1>2, <1>3, <1>5, <2>1, <2>2 DEF CallUnseen, TypeOK, scopes
<1>6. ASSUME NEW p \in Precompiles, Precompile(p)  PROVE TypeOK'
  <2>1. Append(outers, p) \in Seq(Programs)  BY <1>1, LogScopeAssumption
  <2> QED  BY <1>1, <1>6, <2>1 DEF Precompile, TypeOK, scopes
<1>7. ASSUME NEW text \in {"success", "failed"}, Return(text)  PROVE TypeOK'
  <2>1. running' \in Seq(Logging) /\ UNCHANGED <<setting, outers>>
    BY <1>7, ReturnLeaves DEF Return
  <2>2. Completed(active, Top(running)) \in Seq(Stacked)  BY <1>1, CompletedPart
  <2>3. Completed(exact, Top(running)) \in Seq(Stacked)  BY <1>1, CompletedPart
  <2> QED  BY <1>1, <1>7, <2>1, <2>2, <2>3 DEF Return, TypeOK
<1>8. ASSUME NEW text \in {"success", "failed"}, ReturnUnseen(text)  PROVE TypeOK'
  <2>1. running' \in Seq(Logging) /\ UNCHANGED <<setting, outers>>
    BY <1>8, ReturnLeaves DEF ReturnUnseen
  <2>2. LeftOut(text) /\ text \in DOMAIN Lengths  BY <1>8 DEF ReturnUnseen, Lengths
  <2>3. room' \in 1 .. Unlimited  BY <1>1, <2>2, LeftOutRoom
  <2> QED  BY <1>1, <1>2, <1>8, <2>1, <2>3 DEF ReturnUnseen, TypeOK, scopes
<1>9. ASSUME NEW loops \in Misleads, NEW depth \in Nat \ {0}, Quote(loops, depth)
      PROVE  TypeOK'
  <2>1. Invoked(active, Quoted, depth) \in Seq(Stacked)  BY <1>1, <1>2, InvokedPart
  <2>2. Invoked(exact, Quoted, depth) \in Seq(Stacked)  BY <1>1, <1>2, InvokedPart
  <2>3. Append(begins, Quoted) \in Seq(Stacked)  BY <1>1, <1>2
  <2>4. spoiled \cup loops \in SUBSET Loops  BY <1>1 DEF Misleads, Loops
  <2> QED  BY <1>1, <1>9, <2>1, <2>2, <2>3, <2>4 DEF Quote, TypeOK, runtime
<1>10. ASSUME NEW loops \in SUBSET Loops, QuoteEnd(loops)  PROVE TypeOK'
  <2>1. Completed(active, Quoted) \in Seq(Stacked)  BY <1>1, CompletedPart
  <2>2. Completed(exact, Quoted) \in Seq(Stacked)  BY <1>1, CompletedPart
  <2> QED  BY <1>1, <1>10, <2>1, <2>2 DEF QuoteEnd, TypeOK, runtime
<1>11. ASSUME NEW text \in {"short", "data"}, TellUnseen(text)  PROVE TypeOK'
  <2>1. LeftOut(text) /\ text \in DOMAIN Lengths  BY <1>11 DEF TellUnseen, Lengths
  <2>2. room' \in 1 .. Unlimited  BY <1>1, <2>1, LeftOutRoom
  <2> QED  BY <1>1, <1>11, <2>2 DEF TellUnseen, TypeOK, runtime, scopes
<1>12. ASSUME NEW text \in {"short", "data"}, NEW create \in BOOLEAN, Tell(text, create)
       PROVE  TypeOK'
  <2> DEFINE line == [by |-> Top(running), text |-> text, create |-> create, outer |-> Len(outers),
                      scope |-> Top(active), begun |-> Len(begins), spoiled |-> spoiled]
  <2>1. Top(running) \in Logging  BY <1>1, <1>12, TopIn DEF Tell
  <2>2. Top(active) \in Stacked \cup {None}  BY <1>1, TopIn DEF Top
  <2>3. Len(outers) \in Nat /\ Len(begins) \in Nat  BY <1>1
  <2>4. line \in Line  BY <2>1, <2>2, <2>3 DEF TypeOK, Line
  <2>5. data' = Append(data, line)  BY <1>12 DEF Tell
  <2> HIDE DEF line
  <2>6. Append(data, line) \in Seq(Line)  BY <1>1, <2>4
  <2> QED  BY <1>1, <1>12, <2>5, <2>6 DEF Tell, TypeOK, runtime, scopes
<1>13. CASE UNCHANGED vars  BY <1>1, <1>13 DEF vars, TypeOK, runtime, scopes
<1> QED  BY <1>4, <1>5, <1>6, <1>7, <1>8, <1>9, <1>10, <1>11, <1>12, <1>13, Steps

(* A call the stacks see while they are in step, and any call that starts    *)
(* an instruction, leaves them in step; a return takes off what returned.    *)
LEMMA InStepStep ==
  ASSUME TypeOK, InStep, [Next]_vars
  PROVE  InStep'
<1>1. /\ running \in Seq(Logging) /\ active \in Seq(Stacked) /\ exact \in Seq(Stacked)
      /\ room \in 1 .. Unlimited
  BY DEF TypeOK
<1>2. Lengths["invoke"] = 3 /\ Lengths["failed"] = 3 /\ Lengths["success"] = 2  BY DEF Lengths
<1>3. ASSUME NEW p \in Logging, Call(p)  PROVE InStep'
  <2>1. running' = Append(running, p)  BY <1>3 DEF Call, Calls
  <2>2. Len(running') = Len(running) + 1  BY <1>1, <2>1
  <2>3. /\ active' = Invoked(active, p, Len(running) + 1) /\ exact' = Invoked(exact, p, Len(running) + 1)
        /\ spoiled' = (IF running = <<>> THEN {} ELSE spoiled) /\ room' = room
    BY <1>3, <2>2 DEF Call
  <2>4. Invoked(running, p, Len(running) + 1) = Append(running, p)  BY <1>1, InvokedCall
  <2>5. CASE running = <<>>
    <3>1. Len(running) + 1 = 1 /\ Append(running, p) = <<p>>  BY <2>5
    <3>2. Invoked(active, p, 1) = <<p>> /\ Invoked(exact, p, 1) = <<p>>  BY <1>1, InvokedCall
    <3>3. active' = running' /\ exact' = running'  BY <2>1, <2>3, <3>1, <3>2
    <3> QED  BY <2>1, <2>3, <2>4, <3>3 DEF InStep
  <2>6. CASE running # <<>>  BY <2>1, <2>3, <2>4, <2>6 DEF InStep
  <2> QED  BY <2>5, <2>6
<1>4. ASSUME NEW p \in Logging, CallUnseen(p)  PROVE InStep'
  <2>1. room' <= 3 /\ room' \in 1 .. Unlimited
    BY <1>1, <1>2, <1>4, LeftOutRoom DEF CallUnseen, Lengths
  <2> QED  BY <1>2, <1>4, <2>1 DEF CallUnseen, InStep, Unlimited
<1>5. ASSUME NEW p \in Precompiles, Precompile(p)  PROVE InStep'
  BY <1>5 DEF Precompile, InStep, scopes
<1>6. ASSUME NEW text \in {"success", "failed"}, Return(text)  PROVE InStep'
  <2>1. running # <<>> /\ running' = SubSeq(running, 1, Len(running) - 1)
    BY <1>6, ReturnLeaves DEF Return
  <2>2. Completed(running, Top(running)) = running'  BY <1>1, <2>1, CompletedTop
  <2> QED  BY <1>6, <2>2 DEF Return, InStep
<1>7. ASSUME NEW text \in {"success", "failed"}, ReturnUnseen(text)  PROVE InStep'
  <2>1. LeftOut(text) /\ text \in DOMAIN Lengths /\ Lengths[text] <= 3
    BY <1>2, <1>7 DEF ReturnUnseen, Lengths
  <2>2. room' <= 3 /\ room' \in 1 .. Unlimited
    BY <1>1, <2>1, LeftOutRoom DEF Lengths
  <2> QED  BY <1>2, <1>7, <2>2 DEF ReturnUnseen, InStep, Unlimited
<1>8. ASSUME NEW loops \in Misleads, NEW depth \in Nat \ {0}, Quote(loops, depth)  PROVE InStep'
  <2>1. /\ spoiled' = spoiled \cup loops /\ UNCHANGED <<running, room>>
        /\ exact' = IF "exact" \in loops THEN Invoked(exact, Quoted, depth) ELSE exact
    BY <1>8 DEF Quote, runtime
  <2>2. "active" \in spoiled'  BY <2>1 DEF Misleads, Loops
  <2>3. "exact" \notin spoiled' => "exact" \notin loops /\ "exact" \notin spoiled  BY <2>1
  <2> QED  BY <2>1, <2>2, <2>3 DEF InStep
<1>9. ASSUME NEW loops \in SUBSET Loops, QuoteEnd(loops)  PROVE InStep'
  <2>1. \A j \in DOMAIN running : running[j] # Quoted
    BY <1>1, LogScopeAssumption DEF Logging
  <2>2. Completed(running, Quoted) = running  BY <2>1 DEF Completed
  <2>3. /\ active' = Completed(active, Quoted) /\ exact' \in {exact, Completed(exact, Quoted)}
        /\ UNCHANGED <<spoiled, running, room>>
    BY <1>9 DEF QuoteEnd, runtime
  <2> QED  BY <2>2, <2>3 DEF InStep
<1>10. ASSUME NEW text \in {"short", "data"}, TellUnseen(text)  PROVE InStep'
  <2>1. LeftOut(text) /\ text \in DOMAIN Lengths  BY <1>10 DEF TellUnseen, Lengths
  <2>2. room' <= room /\ room' \in 1 .. Unlimited  BY <1>1, <2>1, LeftOutRoom
  <2>3. room' > 3 => room > 3  BY <1>1, <2>2 DEF Unlimited
  <2> QED  BY <1>2, <1>10, <2>3 DEF TellUnseen, InStep, runtime, scopes
<1>11. ASSUME NEW text, NEW create, Tell(text, create)  PROVE InStep'
  BY <1>11 DEF Tell, InStep, runtime, scopes
<1>12. CASE UNCHANGED vars  BY <1>12 DEF vars, InStep, runtime, scopes
<1> QED  BY <1>3, <1>4, <1>5, <1>6, <1>7, <1>8, <1>9, <1>10, <1>11, <1>12, Steps

(* An instruction of the message and its line come together or, once a line  *)
(* of a call does not fit, the line is missing from then on.                 *)
LEMMA CompleteStep ==
  ASSUME TypeOK, Complete, [Next]_vars
  PROVE  Complete'
<1>1. /\ running \in Seq(Logging) /\ outers \in Seq(Programs) /\ begins \in Seq(Stacked)
      /\ room \in 1 .. Unlimited /\ Logging \subseteq Programs /\ Logging \subseteq Stacked
      /\ Quoted \in Stacked /\ \A q \in Logging : q # Quoted
  BY LogScopeAssumption DEF TypeOK, Logging, Stacked
<1>2. Lengths["invoke"] = 3  BY DEF Lengths
<1>3. ASSUME UNCHANGED <<begins, outers>>, room' \in 1 .. Unlimited, room' <= room,
             running' # <<>> => running # <<>>, "begins" \notin spoiled' => "begins" \notin spoiled
      PROVE  Complete'
  <2>1. room' > 3 => room > 3  BY <1>1, <1>3 DEF Unlimited
  <2> QED  BY <1>2, <1>3, <2>1 DEF Complete, Top
<1>4. ASSUME NEW p \in Logging, Call(p)  PROVE Complete'
  <2>1. /\ begins' = IF running = <<>> THEN Append(begins, p) ELSE begins
        /\ outers' = IF running = <<>> THEN Append(outers, p) ELSE outers
        /\ room' = room /\ spoiled' = IF running = <<>> THEN {} ELSE spoiled
    BY <1>4 DEF Call, Calls
  <2>2. CASE running # <<>>  BY <1>1, <1>3, <2>1, <2>2 DEF Unlimited
  <2>3. CASE running = <<>>
    <3>1. begins' = Append(begins, p) /\ outers' = Append(outers, p)  BY <2>1, <2>3
    <3>2. \A q : /\ Cardinality(At(begins', q)) = Cardinality(At(begins, q)) + (IF p = q THEN 1 ELSE 0)
                 /\ Cardinality(At(outers', q)) = Cardinality(At(outers, q)) + (IF p = q THEN 1 ELSE 0)
      BY <1>1, <3>1, OneMore
    <3>3. begins' # <<>> /\ Top(begins') = p  BY <1>1, <3>1, TopAppended, SMTT(30)
    <3>4. outers' # <<>> /\ Top(outers') = p  BY <1>1, <3>1, TopAppended
    <3> QED  BY <1>2, <2>1, <3>2, <3>3, <3>4, SMTT(30) DEF Complete, Top
  <2> QED  BY <2>2, <2>3
<1>5. ASSUME NEW p \in Logging, CallUnseen(p)  PROVE Complete'
  <2>1. room' <= 3 /\ room' \in 1 .. Unlimited
    BY <1>1, <1>2, <1>5, LeftOutRoom DEF CallUnseen, Lengths
  <2> QED  BY <1>2, <2>1 DEF Complete, Unlimited
<1>6. ASSUME NEW p \in Precompiles, Precompile(p)  PROVE Complete'
  <2>1. outers' = Append(outers, p) /\ running = <<>> /\ UNCHANGED <<running, room, begins, spoiled>>
    BY <1>6 DEF Precompile, scopes
  <2>2. p \in Programs /\ \A q \in Logging : q # p  BY LogScopeAssumption DEF Logging
  <2>3. \A q : Cardinality(At(outers', q)) = Cardinality(At(outers, q)) + (IF p = q THEN 1 ELSE 0)
    BY <1>1, <2>1, <2>2, OneMore
  <2>4. \A q \in Logging : Cardinality(At(outers', q)) = Cardinality(At(outers, q))
    <3> SUFFICES ASSUME NEW q \in Logging
                 PROVE  Cardinality(At(outers', q)) = Cardinality(At(outers, q))
      OBVIOUS
    <3>1. Cardinality(At(outers, q)) \in Nat  BY <1>1, PositionsFinite, FS_CardinalityType
    <3> QED  BY <2>2, <2>3, <3>1
  <2> QED  BY <2>1, <2>4 DEF Complete
<1>7. ASSUME NEW text \in {"success", "failed"}, Return(text)  PROVE Complete'
  <2>1. running' # <<>> => running # <<>>  BY <1>7, ReturnLeaves DEF Return
  <2>2. UNCHANGED <<begins, outers, room, spoiled>>  BY <1>7 DEF Return, Returns
  <2> QED  BY <1>1, <1>3, <2>1, <2>2 DEF Unlimited
<1>8. ASSUME NEW text \in {"success", "failed"}, ReturnUnseen(text)  PROVE Complete'
  <2>1. LeftOut(text) /\ text \in DOMAIN Lengths /\ UNCHANGED <<begins, outers>>
        /\ spoiled' = spoiled \cup {"active"}
    BY <1>8 DEF ReturnUnseen, Returns, Lengths, scopes
  <2>2. room' <= room /\ room' \in 1 .. Unlimited  BY <1>1, <2>1, LeftOutRoom
  <2>3. running' # <<>> => running # <<>>  BY <1>8, ReturnLeaves DEF ReturnUnseen
  <2> QED  BY <1>3, <2>1, <2>2, <2>3
<1>9. ASSUME NEW text \in {"short", "data"}, TellUnseen(text)  PROVE Complete'
  <2>1. LeftOut(text) /\ text \in DOMAIN Lengths /\ UNCHANGED <<begins, outers, running, spoiled>>
    BY <1>9 DEF TellUnseen, Lengths, scopes, runtime
  <2>2. room' <= room /\ room' \in 1 .. Unlimited  BY <1>1, <2>1, LeftOutRoom
  <2> QED  BY <1>3, <2>1, <2>2
<1>10. ASSUME UNCHANGED <<begins, outers, running, room, spoiled>>  PROVE Complete'
  BY <1>1, <1>3, <1>10 DEF Unlimited
<1>11. ASSUME NEW loops \in Misleads, NEW depth, Quote(loops, depth)  PROVE Complete'
  <2>1. /\ begins' = IF "begins" \in loops THEN Append(begins, Quoted) ELSE begins
        /\ spoiled' = spoiled \cup loops /\ UNCHANGED <<outers, running, room>>
    BY <1>11 DEF Quote, runtime
  <2>2. CASE "begins" \notin loops  BY <1>1, <1>3, <2>1, <2>2 DEF Unlimited
  <2>3. CASE "begins" \in loops
    <3>1. \A q \in Logging : Cardinality(At(begins', q)) = Cardinality(At(begins, q))
      <4> SUFFICES ASSUME NEW q \in Logging
                   PROVE  Cardinality(At(begins', q)) = Cardinality(At(begins, q))
        OBVIOUS
      <4>1. Cardinality(At(begins, q)) \in Nat  BY <1>1, PositionsFinite, FS_CardinalityType
      <4>2. Cardinality(At(begins', q)) = Cardinality(At(begins, q)) + (IF Quoted = q THEN 1 ELSE 0)
        BY <1>1, <2>1, <2>3, OneMore
      <4> QED  BY <1>1, <4>1, <4>2
    <3> QED  BY <2>1, <2>3, <3>1 DEF Complete
  <2> QED  BY <2>2, <2>3
<1>12. ASSUME NEW loops, QuoteEnd(loops)  PROVE Complete'
  BY <1>10, <1>12 DEF QuoteEnd, runtime
<1>13. ASSUME NEW text, NEW create, Tell(text, create)  PROVE Complete'
  BY <1>10, <1>13 DEF Tell, runtime, scopes
<1>14. CASE UNCHANGED vars  BY <1>10, <1>14 DEF vars, runtime, scopes
<1> QED  BY <1>4, <1>5, <1>6, <1>7, <1>8, <1>9, <1>11, <1>12, <1>13, <1>14, Steps

(* A message "invoke [1]" is the last of its lines until the next            *)
(* instruction of the message.                                               *)
LEMMA UnknownStep ==
  ASSUME TypeOK, Unknown, [Next]_vars
  PROVE  Unknown'
<1>1. begins \in Seq(Stacked) /\ Quoted \in Stacked  BY DEF TypeOK, Stacked
<1>2. ASSUME begins' = begins, "begins" \in spoiled' => "begins" \in spoiled  PROVE Unknown'
  BY <1>2 DEF Unknown, Top
<1>3. ASSUME NEW p, Call(p)  PROVE Unknown'
  <2>1. CASE running = <<>>  BY <1>3, <2>1 DEF Call, Unknown
  <2>2. CASE running # <<>>  BY <1>2, <1>3, <2>2 DEF Call
  <2> QED  BY <2>1, <2>2
<1>4. ASSUME NEW p, CallUnseen(p) \/ Precompile(p)  PROVE Unknown'
  BY <1>2, <1>4 DEF CallUnseen, Precompile, scopes
<1>5. ASSUME NEW text, Return(text) \/ ReturnUnseen(text) \/ TellUnseen(text)  PROVE Unknown'
  BY <1>2, <1>5 DEF Return, ReturnUnseen, TellUnseen, scopes
<1>6. ASSUME NEW loops \in Misleads, NEW depth, Quote(loops, depth)  PROVE Unknown'
  <2>1. CASE "begins" \in loops
    <3>1. begins' = Append(begins, Quoted)  BY <1>6, <2>1 DEF Quote
    <3> QED  BY <1>1, <3>1, TopAppended DEF Unknown, Top
  <2>2. CASE "begins" \notin loops  BY <1>2, <1>6, <2>2 DEF Quote
  <2> QED  BY <2>1, <2>2
<1>7. ASSUME NEW loops, QuoteEnd(loops)  PROVE Unknown'
  BY <1>2, <1>7 DEF QuoteEnd
<1>8. ASSUME NEW text, NEW create, Tell(text, create)  PROVE Unknown'
  BY <1>2, <1>8 DEF Tell, scopes
<1>9. CASE UNCHANGED vars  BY <1>2, <1>9 DEF vars, scopes
<1> QED  BY <1>3, <1>4, <1>5, <1>6, <1>7, <1>8, <1>9, Steps

(* Only a line of data that is written adds to the data.                     *)
LEMMA DataStep ==
  ASSUME TypeOK, [Next]_vars
  PROVE  \/ UNCHANGED <<data, created>>
         \/ \E text \in {"short", "data"}, create \in BOOLEAN :
              /\ create => text = "data"
              /\ running # <<>> /\ Fits(text)
              /\ created' = (created \/ Found(create))
              /\ data' = Append(data, [by |-> Top(running), text |-> text, create |-> create,
                                       outer |-> Len(outers), scope |-> Top(active),
                                       begun |-> Len(begins), spoiled |-> spoiled])
              /\ UNCHANGED <<begins, outers>>
<1>1. ASSUME NEW text \in {"short", "data"}, NEW create \in BOOLEAN,
             create => text = "data", Tell(text, create)
      PROVE  /\ running # <<>> /\ Fits(text)
             /\ created' = (created \/ Found(create))
             /\ data' = Append(data, [by |-> Top(running), text |-> text, create |-> create,
                                      outer |-> Len(outers), scope |-> Top(active),
                                      begun |-> Len(begins), spoiled |-> spoiled])
             /\ UNCHANGED <<begins, outers>>
  BY <1>1 DEF Tell, scopes, runtime
<1>2. CASE \E text \in {"short", "data"}, create \in BOOLEAN :
             (create => text = "data") /\ Tell(text, create)
  BY <1>1, <1>2
<1>3. ASSUME NEW p, Call(p) \/ CallUnseen(p) \/ Precompile(p)  PROVE UNCHANGED <<data, created>>
  BY <1>3 DEF Call, CallUnseen, Precompile
<1>4. ASSUME NEW text, Return(text) \/ ReturnUnseen(text) \/ TellUnseen(text)
      PROVE  UNCHANGED <<data, created>>
  BY <1>4 DEF Return, ReturnUnseen, TellUnseen
<1>5. ASSUME NEW loops, NEW depth, Quote(loops, depth)  PROVE UNCHANGED <<data, created>>
  BY <1>5 DEF Quote
<1>6. ASSUME NEW loops, QuoteEnd(loops)  PROVE UNCHANGED <<data, created>>
  BY <1>6 DEF QuoteEnd
<1>7. CASE UNCHANGED vars  BY <1>7 DEF vars
<1> QED  BY <1>2, <1>3, <1>4, <1>5, <1>6, <1>7, Steps

(* Instructions of the message, and their lines, are only ever added.        *)
LEMMA OutersStep ==
  ASSUME TypeOK, [Next]_vars
  PROVE  /\ outers' = outers \/ \E p \in Programs : outers' = Append(outers, p)
         /\ begins' = begins \/ \E p \in Stacked : begins' = Append(begins, p)
<1>1. /\ Logging \subseteq Programs /\ Precompiles \subseteq Programs
      /\ Logging \subseteq Stacked /\ Quoted \in Stacked
  BY LogScopeAssumption DEF Logging, Stacked
<1>2. ASSUME NEW p, Calls(p)  PROVE outers' = outers \/ outers' = Append(outers, p)
  BY <1>2 DEF Calls
<1>3. ASSUME NEW p, Call(p)  PROVE Calls(p) /\ (begins' = begins \/ begins' = Append(begins, p))
  BY <1>3 DEF Call
<1>4. ASSUME NEW p, CallUnseen(p)  PROVE Calls(p) /\ begins' = begins
  BY <1>4 DEF CallUnseen, scopes
<1>5. ASSUME NEW p, Precompile(p)  PROVE outers' = Append(outers, p) /\ begins' = begins
  BY <1>5 DEF Precompile, scopes
<1>6. ASSUME NEW text, Return(text) \/ ReturnUnseen(text)  PROVE UNCHANGED <<begins, outers>>
  BY <1>6 DEF Return, ReturnUnseen, Returns, scopes
<1>7. ASSUME NEW text, TellUnseen(text)  PROVE UNCHANGED <<begins, outers>>
  BY <1>7 DEF TellUnseen, scopes, runtime
<1>8. ASSUME NEW loops, NEW depth, Quote(loops, depth)
      PROVE  outers' = outers /\ (begins' = begins \/ begins' = Append(begins, Quoted))
  BY <1>8 DEF Quote, runtime
<1>9. ASSUME NEW loops, QuoteEnd(loops)  PROVE UNCHANGED <<begins, outers>>
  BY <1>9 DEF QuoteEnd, runtime
<1>10. ASSUME NEW text, NEW create, Tell(text, create)  PROVE UNCHANGED <<begins, outers>>
  BY <1>10 DEF Tell, scopes, runtime
<1>11. CASE UNCHANGED vars  BY <1>11 DEF vars, scopes, runtime
<1> QED  BY <1>1, <1>2, <1>3, <1>4, <1>5, <1>6, <1>7, <1>8, <1>9, <1>10, <1>11, Steps

(* A line of data keeps its place, whatever is called after it.              *)
LEMMA PlaceKept ==
  ASSUME TypeOK, [Next]_vars, NEW d, PlacedLine(begins, outers, d)
  PROVE  PlacedLine(begins', outers', d)
<1>1. outers \in Seq(Programs) /\ begins \in Seq(Stacked)  BY DEF TypeOK
<1>2. ASSUME NEW S, NEW s \in Seq(S), NEW s1, s1 = s \/ \E p \in S : s1 = Append(s, p),
             NEW k \in DOMAIN s
      PROVE  k \in DOMAIN s1 /\ s1[k] = s[k] /\ \A p : UpTo(At(s1, p), k) = UpTo(At(s, p), k)
  <2>1. CASE s1 = s  BY <1>2, <2>1
  <2>2. CASE \E e \in S : s1 = Append(s, e)
    <3>1. PICK e \in S : s1 = Append(s, e)  BY <2>2
    <3>2. k \in 1 .. Len(s)  BY <1>2
    <3>3. \A p : UpTo(At(s1, p), k) = UpTo(At(s, p), k)  BY <1>2, <3>1, <3>2, OneMore
    <3> QED  BY <1>2, <3>1, <3>3
  <2> QED  BY <1>2, <2>1, <2>2
<1>3. ASSUME NEW b \in DOMAIN begins
      PROVE  /\ b \in DOMAIN begins' /\ begins'[b] = begins[b]
             /\ \A p : UpTo(At(begins', p), b) = UpTo(At(begins, p), b)
  BY <1>1, <1>2, <1>3, OutersStep
<1>4. ASSUME NEW o \in DOMAIN outers
      PROVE  /\ o \in DOMAIN outers' /\ outers'[o] = outers[o]
             /\ \A p : UpTo(At(outers', p), o) = UpTo(At(outers, p), o)
  BY <1>1, <1>2, <1>4, OutersStep
<1>5. ASSUME NEW b, NEW o, PlacedAt(begins, outers, b, o)  PROVE PlacedAt(begins', outers', b, o)
  <2>1. /\ b \in DOMAIN begins /\ o \in DOMAIN outers /\ begins[b] = outers[o]
        /\ Cardinality(UpTo(At(begins, begins[b]), b)) = Cardinality(UpTo(At(outers, begins[b]), o))
    BY <1>5 DEF PlacedAt
  <2> QED  BY <1>3, <1>4, <2>1 DEF PlacedAt
<1>6. CASE "begins" \in d.spoiled  BY <1>3, <1>6 DEF PlacedLine
<1>7. CASE "begins" \notin d.spoiled  BY <1>5, <1>7 DEF PlacedLine
<1> QED  BY <1>6, <1>7

(* What is true of every line of data, and of the line a step adds, is true  *)
(* of every line after it.                                                   *)
LEMMA AppendedAll ==
  ASSUME NEW d, NEW x, NEW d1, d \in Seq(Line), d1 = Append(d, x), x \in Line
  PROVE  DOMAIN d1 = DOMAIN d \cup {Len(d) + 1} /\ d1[Len(d) + 1] = x
         /\ \A n \in DOMAIN d : d1[n] = d[n]
<1>1. Len(d) \in Nat /\ DOMAIN d = 1 .. Len(d) /\ DOMAIN d1 = 1 .. Len(d) + 1  OBVIOUS
<1>2. 1 .. Len(d) + 1 = 1 .. Len(d) \cup {Len(d) + 1}  BY <1>1
<1> QED  BY <1>1, <1>2

(* Three facts of a line of data when it is written: it is of the program on *)
(* top if nothing was spoiled; it is a creation found if pump.fun wrote it;  *)
(* and it is under the latest instruction, none of whose lines is missing.   *)
LEMMA DataInvStep ==
  ASSUME IInv, [Next]_vars
  PROVE  Placed' /\ OwnScope' /\ CreateDetected'
<1>1. /\ outers \in Seq(Programs) /\ begins \in Seq(Stacked) /\ data \in Seq(Line)
      /\ room \in 1 .. Unlimited /\ Logging \subseteq Stacked
      /\ TypeOK /\ InStep /\ Complete /\ Unknown /\ Placed /\ OwnScope /\ CreateDetected
  BY DEF IInv, TypeOK, Stacked
<1>2. \A n \in DOMAIN data : PlacedLine(begins', outers', data[n])
  BY <1>1, PlaceKept DEF Placed
<1>3. CASE UNCHANGED <<data, created>>
  <2>1. Placed'  BY <1>2, <1>3 DEF Placed
  <2> QED  BY <1>1, <1>3, <2>1 DEF OwnScope, CreateDetected
<1>4. ASSUME NEW text \in {"short", "data"}, NEW create \in BOOLEAN,
             create => text = "data", running # <<>>, Fits(text),
             created' = (created \/ Found(create)), UNCHANGED <<begins, outers>>,
             data' = Append(data, [by |-> Top(running), text |-> text, create |-> create,
                                   outer |-> Len(outers), scope |-> Top(active),
                                   begun |-> Len(begins), spoiled |-> spoiled])
      PROVE  Placed' /\ OwnScope' /\ CreateDetected'
  <2> DEFINE line == [by |-> Top(running), text |-> text, create |-> create,
                      outer |-> Len(outers), scope |-> Top(active),
                      begun |-> Len(begins), spoiled |-> spoiled]
             last == Len(data) + 1
  <2>1. /\ line.by = Top(running) /\ line.text = text /\ line.create = create
        /\ line.outer = Len(outers) /\ line.scope = Top(active) /\ line.begun = Len(begins)
        /\ line.spoiled = spoiled
    OBVIOUS
  <2>2. data' = Append(data, line)  BY <1>4
  <2>3. line \in Line
    <3>1. Top(running) \in Logging  BY <1>1, <1>4, TopIn DEF TypeOK
    <3>2. Top(active) \in Stacked \cup {None}  BY <1>1, TopIn DEF Top, TypeOK
    <3>3. Len(outers) \in Nat /\ Len(begins) \in Nat  BY <1>1
    <3> QED  BY <1>1, <3>1, <3>2, <3>3 DEF TypeOK, Line
  <2> HIDE DEF line
  <2>4. /\ DOMAIN data' = DOMAIN data \cup {last} /\ data'[last] = line
        /\ \A n \in DOMAIN data : data'[n] = data[n]
    BY <1>1, <2>2, <2>3, AppendedAll
  <2> HIDE DEF last
  <2>5. text = "data" => room > 3
    BY <1>1, <1>4 DEF Fits, Lengths
  <2>6. PlacedLine(begins, outers, line)
    <3> SUFFICES ASSUME text = "data"
                 PROVE  IF "begins" \in spoiled
                        THEN Len(begins) \in DOMAIN begins /\ begins[Len(begins)] = Quoted
                        ELSE PlacedAt(begins, outers, Len(begins), Len(outers))
      BY <2>1 DEF PlacedLine
    <3>1. room > Lengths["invoke"]  BY <2>5 DEF Lengths
    <3>2. CASE "begins" \in spoiled
      <4>1. begins # <<>> /\ Top(begins) = Quoted  BY <1>1, <3>2 DEF Unknown
      <4> QED  BY <1>1, <3>2, <4>1, TopIn
    <3>3. CASE "begins" \notin spoiled
      <4>1. begins # <<>> /\ outers # <<>> /\ Top(begins) = Top(outers)
        BY <1>1, <1>4, <3>1, <3>3 DEF Complete
      <4>2. Len(begins) \in DOMAIN begins /\ Top(begins) = begins[Len(begins)]
        BY <1>1, <4>1, TopIn
      <4>3. Len(outers) \in DOMAIN outers /\ Top(outers) = outers[Len(outers)] /\ Top(outers) \in Programs
        BY <1>1, <4>1, TopIn
      <4>4. Top(begins) \in Logging
        <5>1. Top(begins) \in Stacked  BY <1>1, <4>1, TopIn
        <5> QED  BY <4>1, <4>3, <5>1, LogScopeAssumption DEF Stacked
      <4>5. UpTo(At(begins, Top(begins)), Len(begins)) = At(begins, Top(begins))
        BY <1>1 DEF UpTo, At
      <4>6. UpTo(At(outers, Top(begins)), Len(outers)) = At(outers, Top(begins))
        BY <1>1 DEF UpTo, At
      <4>7. Cardinality(At(begins, Top(begins))) = Cardinality(At(outers, Top(begins)))
        BY <1>1, <3>1, <4>4 DEF Complete
      <4>8. PlacedAt(begins, outers, Len(begins), Len(outers))
        BY <4>1, <4>2, <4>3, <4>5, <4>6, <4>7 DEF PlacedAt
      <4> QED  BY <3>3, <4>8
    <3> QED  BY <3>2, <3>3
  <2>7. Placed'
    <3>1. PlacedLine(begins', outers', line)  BY <1>1, <2>6, PlaceKept
    <3> QED  BY <1>2, <2>4, <3>1 DEF Placed
  <2>8. OwnScope'
    <3>1. "active" \notin spoiled => Top(active) = Top(running)  BY <1>1 DEF InStep
    <3> QED  BY <1>1, <2>1, <2>4, <3>1 DEF OwnScope
  <2>9. CreateDetected'
    <3>1. create /\ "exact" \notin spoiled => Top(exact) = Top(running)
      BY <1>1, <1>4, <2>5 DEF InStep, Lengths
    <3>2. line.create /\ line.by = Pump /\ "exact" \notin line.spoiled => Found(create)
      BY <2>1, <3>1 DEF Found
    <3>3. Found(create) => line.create /\ (line.by = Pump \/ "exact" \in line.spoiled)
      BY <2>1, <3>1 DEF Found
    <3>4. \A n \in DOMAIN data' : n \in DOMAIN data \/ n = last  BY <2>4
    <3>5. \A n \in DOMAIN data :
            data[n].create /\ data[n].by = Pump /\ "exact" \notin data[n].spoiled => created
      BY <1>1 DEF CreateDetected
    <3>6. created => \E n \in DOMAIN data :
            data[n].create /\ (data[n].by = Pump \/ "exact" \in data[n].spoiled)
      BY <1>1 DEF CreateDetected
    <3>7. ASSUME NEW n \in DOMAIN data', data'[n].create, data'[n].by = Pump, "exact" \notin data'[n].spoiled
          PROVE  created'
      BY <1>4, <2>4, <3>2, <3>4, <3>5, <3>7
    <3>8. created' => \E n \in DOMAIN data' :
            data'[n].create /\ (data'[n].by = Pump \/ "exact" \in data'[n].spoiled)
      <4>1. CASE created  BY <2>4, <3>6, <4>1
      <4>2. CASE Found(create)  BY <2>4, <3>3, <4>2
      <4> QED  BY <1>4, <4>1, <4>2
    <3> QED  BY <3>7, <3>8 DEF CreateDetected
  <2> QED  BY <2>7, <2>8, <2>9
<1> QED  BY <1>1, <1>3, <1>4, DataStep

-----------------------------------------------------------------------------
(* Theorems *)

(* The log begins empty, with room for every line.                           *)
LEMMA InitInv == Init => IInv
<1> SUFFICES ASSUME Init  PROVE IInv
  OBVIOUS
<1>1. \A S : <<>> \in Seq(S) /\ DOMAIN <<>> = {}  BY EmptySeq
<1>2. TypeOK
  <2>1. /\ <<>> \in Seq(Logging) /\ <<>> \in Seq(Programs) /\ <<>> \in Seq(Line)
        /\ <<>> \in Seq(Stacked)
    BY EmptySeq
  <2>2. 5 \in 1 .. 5  OBVIOUS
  <2> QED  BY <2>1, <2>2 DEF Init, TypeOK, Unlimited
<1>3. InStep  BY DEF Init, InStep
<1>4. Complete
  <2>1. \A p : At(begins, p) = {} /\ At(outers, p) = {}  BY <1>1 DEF Init, At
  <2> QED  BY <2>1 DEF Init, Complete
<1>5. Unknown /\ Placed /\ OwnScope /\ CreateDetected
  BY <1>1 DEF Init, Unknown, Placed, OwnScope, CreateDetected
<1> QED  BY <1>2, <1>3, <1>4, <1>5 DEF IInv

(* The stacks stay in step with the runtime as long as the log says so, and  *)
(* every line of data has the place it was written at.                       *)
THEOREM Invariance == Spec => []IInv
<1>1. IInv /\ [Next]_vars => IInv'
  BY TypeStep, InStepStep, CompleteStep, UnknownStep, DataInvStep DEF IInv
<1> QED  BY <1>1, InitInv, PTL DEF Spec

(* A line of data is decoded as one of the program that wrote it, unless a   *)
(* call or return before it, in its instruction of the message, is missing   *)
(* or a message reads as one.                                                *)
THEOREM OwnScopeHolds == Spec => []OwnScope
BY Invariance, PTL DEF IInv

(* A creation is noticed if pump.fun wrote it, and nothing else is, however  *)
(* much of the log is left out, unless a message that ends as a call does    *)
(* came before it in its instruction of the message.                         *)
THEOREM CreateDetectedHolds == Spec => []CreateDetected
BY Invariance, PTL DEF IInv

(* If no line "invoke [1]" of the program is missing, the line found by      *)
(* counting is the instruction the data was written under.                   *)
LEMMA CountedIsOwn ==
  ASSUME IInv, NEW n \in DOMAIN data, data[n].text = "data", "begins" \notin data[n].spoiled
  PROVE  /\ begins[data[n].begun] \in Logging
         /\ data[n].begun # 0
         /\ AllSeen(begins[data[n].begun]) => OuterIndex(data[n]) = data[n].outer
         /\ ~ AllSeen(begins[data[n].begun]) => OuterIndex(data[n]) = None
<1> DEFINE d == data[n]
           p == begins[d.begun]
           nth == Cardinality({i \in BeginsOf(p) : i <= d.begun})
           Nth(i) == Cardinality({j \in Positions(p) : j <= i}) = nth
<1>1. outers \in Seq(Programs) /\ begins \in Seq(Stacked)  BY DEF IInv, TypeOK
<1>2. PlacedAt(begins, outers, d.begun, d.outer)  BY DEF IInv, Placed, PlacedLine
<1> HIDE DEF d
<1>3. d.begun \in DOMAIN begins /\ d.outer \in DOMAIN outers /\ p = outers[d.outer]
  BY <1>2 DEF PlacedAt
<1>4. p \in Logging /\ d.begun # 0
  BY <1>1, <1>3, LogScopeAssumption DEF Stacked
<1> HIDE DEF p
<1>5. Positions(p) = At(outers, p) /\ BeginsOf(p) = At(begins, p)  BY DEF Positions, BeginsOf, At
<1>6. \A i : {j \in Positions(p) : j <= i} = UpTo(At(outers, p), i)  BY <1>5 DEF UpTo
<1>7. d.outer \in Positions(p)  BY <1>3, <1>5 DEF At
<1>8. Nth(d.outer)
  <2>1. {i \in BeginsOf(p) : i <= d.begun} = UpTo(At(begins, p), d.begun)  BY <1>5 DEF UpTo
  <2>2. Cardinality(UpTo(At(begins, p), d.begun)) = Cardinality(UpTo(At(outers, p), d.outer))
    BY <1>2 DEF PlacedAt, p
  <2> QED  BY <1>6, <2>1, <2>2
<1>9. \A i \in Positions(p) : Nth(i) => i = d.outer
  <2> SUFFICES ASSUME NEW i \in Positions(p), Nth(i)  PROVE i = d.outer
    OBVIOUS
  <2>1. Cardinality(UpTo(At(outers, p), i)) = Cardinality(UpTo(At(outers, p), d.outer))
    BY <1>6, <1>8
  <2>2. i \in At(outers, p) /\ d.outer \in At(outers, p)  BY <1>5, <1>7
  <2> QED  BY <1>1, <2>1, <2>2, NthIsOne
<1>10. (CHOOSE i \in Positions(p) : Nth(i)) = d.outer  BY <1>7, <1>8, <1>9
<1>11. OuterIndex(d) = IF AllSeen(p) THEN CHOOSE i \in Positions(p) : Nth(i) ELSE None
  BY <1>4 DEF OuterIndex, p
<1>12. /\ begins[d.begun] \in Logging /\ d.begun # 0
       /\ AllSeen(begins[d.begun]) => OuterIndex(d) = d.outer
       /\ ~ AllSeen(begins[d.begun]) => OuterIndex(d) = None
  BY <1>4, <1>10, <1>11 DEF p
<1> QED  BY <1>12 DEF d

(* After a message "invoke [1]" the counts differ: no instruction has that   *)
(* program.                                                                  *)
LEMMA UnknownIsNone ==
  ASSUME IInv, NEW n \in DOMAIN data, data[n].text = "data", "begins" \in data[n].spoiled
  PROVE  OuterIndex(data[n]) = None
<1> DEFINE b == data[n].begun
<1>1. outers \in Seq(Programs) /\ begins \in Seq(Stacked)  BY DEF IInv, TypeOK
<1>2. b \in DOMAIN begins /\ begins[b] = Quoted  BY DEF IInv, Placed, PlacedLine
<1>3. b # 0  BY <1>1, <1>2
<1>4. Positions(Quoted) = {}  BY <1>1, LogScopeAssumption DEF Positions
<1>5. b \in BeginsOf(Quoted)  BY <1>2 DEF BeginsOf
<1>6. IsFiniteSet(BeginsOf(Quoted))  BY <1>1, PositionsFinite DEF BeginsOf, At
<1>7. Cardinality(BeginsOf(Quoted)) # 0  BY <1>5, <1>6, FS_EmptySet
<1>8. Cardinality(Positions(Quoted)) = 0  BY <1>4, FS_EmptySet
<1>9. ~ AllSeen(begins[b])  BY <1>2, <1>7, <1>8 DEF AllSeen
<1> QED  BY <1>3, <1>9 DEF OuterIndex

(* The instruction named as the source of a trade is its own or none; it is  *)
(* its own if the whole log is there and its instruction wrote no message    *)
(* "invoke [1]" before.                                                      *)
THEOREM OuterFoundHolds == Spec => []OuterFound
<1>1. IInv => OuterFound
  <2> SUFFICES ASSUME IInv, NEW n \in DOMAIN data, data[n].text = "data"
               PROVE  /\ OuterIndex(data[n]) \in {data[n].outer, None}
                      /\ room = Unlimited /\ "begins" \notin data[n].spoiled =>
                           OuterIndex(data[n]) = data[n].outer
    BY DEF OuterFound
  <2>1. CASE "begins" \in data[n].spoiled  BY <2>1, UnknownIsNone
  <2>2. CASE "begins" \notin data[n].spoiled
    <3>1. OuterIndex(data[n]) \in {data[n].outer, None}  BY <2>2, CountedIsOwn
    <3>2. room = Unlimited => \A p \in Logging : AllSeen(p)
      BY DEF IInv, Complete, Lengths, Unlimited, AllSeen, At, Positions, BeginsOf
    <3> QED  BY <2>2, <3>1, <3>2, CountedIsOwn
  <2> QED  BY <2>1, <2>2
<1> QED  BY <1>1, Invariance, PTL

(* A transaction that also makes the two lists of events writes its log like *)
(* any other: to the log, each of its steps is one step of LogScope or none. *)
THEOREM TransactionIsLogged == TransactionSpec => Spec
<1>1. BeginTransaction => Init  BY DEF BeginTransaction
<1>2. [Step]_all => [Next]_vars
  <2>1. Silent => Next  BY DEF Next
  <2>2. ASSUME NEW k, NEW s, NEW seen, Does(k, s, seen)  PROVE [Next]_vars
    <3>1. CASE Unlogged(k, s, seen)  BY <3>1 DEF Unlogged
    <3>2. CASE Logged(k, s, seen)
      <4>1. PICK text \in IF k = "liquidity" THEN {"short", "data"} ELSE {"data"} :
              Tell(text, k = "create") \/ TellUnseen(text)
        BY <3>2 DEF Logged
      <4>2. text \in {"short", "data"}  BY <4>1
      <4>3. CASE TellUnseen(text)  BY <4>2, <4>3 DEF Next
      <4>4. CASE Tell(text, k = "create")
        <5>1. CASE k = "create"
          <6>1. text = "data" /\ (k = "create") = TRUE  BY <4>1, <5>1
          <6> QED  BY <4>4, <6>1 DEF Next
        <5>2. CASE k # "create"
          <6>1. (k = "create") = FALSE  BY <5>2
          <6> QED  BY <4>2, <4>4, <6>1 DEF Next
        <5> QED  BY <5>1, <5>2
      <4> QED  BY <4>1, <4>3, <4>4
    <3> QED  BY <2>2, <3>1, <3>2 DEF Does
  <2>3. UNCHANGED all => UNCHANGED vars  BY DEF all
  <2> QED  BY <2>1, <2>2, <2>3 DEF Step
<1> QED  BY <1>1, <1>2, PTL DEF TransactionSpec, Spec

(* So its lines are attributed rightly, too.                                 *)
THEOREM TransactionAttributed ==
  TransactionSpec => [](OwnScope /\ OuterFound /\ CreateDetected)
BY TransactionIsLogged, OwnScopeHolds, OuterFoundHolds, CreateDetectedHolds, PTL

-----------------------------------------------------------------------------
(* Numbers and lists                                                         *)

(* The members of a set that are less than i.                                *)
Under(S, i) == {j \in S : j < i}

(* Of a larger member, more members are less.                                *)
LEMMA UnderGrows ==
  ASSUME NEW S \in SUBSET Nat, IsFiniteSet(S)
  PROVE  /\ \A i : /\ IsFiniteSet(Under(S, i)) /\ Cardinality(Under(S, i)) \in Nat
                   /\ Cardinality(Under(S, i)) <= Cardinality(S)
         /\ \A i \in S : Cardinality(Under(S, i)) < Cardinality(S)
         /\ \A i \in S, j \in Nat : i < j => Cardinality(Under(S, i)) < Cardinality(Under(S, j))
         /\ \A i \in S, j \in S : Cardinality(Under(S, i)) = Cardinality(Under(S, j)) => i = j
<1>1. \A i : Under(S, i) \in SUBSET S  BY DEF Under
<1>2. ASSUME NEW i
      PROVE  /\ IsFiniteSet(Under(S, i)) /\ Cardinality(Under(S, i)) \in Nat
             /\ Cardinality(Under(S, i)) <= Cardinality(S)
             /\ Cardinality(Under(S, i)) = Cardinality(S) => Under(S, i) = S
  <2>1. IsFiniteSet(Under(S, i))  BY <1>1, FS_Subset
  <2>2. Cardinality(Under(S, i)) <= Cardinality(S)  BY <1>1, FS_Subset
  <2>3. Cardinality(Under(S, i)) = Cardinality(S) => Under(S, i) = S  BY <1>1, FS_Subset
  <2>4. Cardinality(Under(S, i)) \in Nat  BY <2>1, FS_CardinalityType
  <2> QED  BY <2>1, <2>2, <2>3, <2>4
<1>3. Cardinality(S) \in Nat  BY FS_CardinalityType
<1>4. ASSUME NEW i \in S  PROVE Cardinality(Under(S, i)) < Cardinality(S)
  <2>1. i \notin Under(S, i)  BY DEF Under
  <2> QED  BY <1>2, <1>3, <2>1
<1>5. ASSUME NEW i \in S, NEW j \in Nat, i < j
      PROVE  Cardinality(Under(S, i)) < Cardinality(Under(S, j))
  <2>1. Under(S, i) \in SUBSET Under(S, j)
    <3>1. i \in Nat /\ \A x \in S : x \in Nat  OBVIOUS
    <3>2. \A x \in S : x < i => x < j  BY <1>5, <3>1
    <3> QED  BY <3>2 DEF Under
  <2>2. i \in Under(S, j) /\ i \notin Under(S, i)  BY <1>5 DEF Under
  <2>3. Cardinality(Under(S, i)) <= Cardinality(Under(S, j))  BY <1>2, <2>1, FS_Subset
  <2>4. Cardinality(Under(S, i)) # Cardinality(Under(S, j))
    BY <1>2, <2>1, <2>2, FS_Subset
  <2>5. Cardinality(Under(S, i)) \in Nat /\ Cardinality(Under(S, j)) \in Nat  BY <1>2
  <2> QED  BY <2>3, <2>4, <2>5
<1>6. ASSUME NEW i \in S, NEW j \in S, Cardinality(Under(S, i)) = Cardinality(Under(S, j))
      PROVE  i = j
  <2>1. i \in Nat /\ j \in Nat /\ Cardinality(Under(S, i)) \in Nat  BY <1>2
  <2>2. ~ i < j  BY <1>5, <1>6, <2>1
  <2>3. ~ j < i  BY <1>5, <1>6, <2>1
  <2> QED  BY <2>1, <2>2, <2>3
<1> QED  BY <1>2, <1>4, <1>5, <1>6

(* Different things have as many images, if these differ.                    *)
LEMMA AsManyImages ==
  ASSUME NEW J, IsFiniteSet(J), NEW f, NEW T,
         \A j \in J : f[j] \in T,
         \A t \in T : \E j \in J : f[j] = t,
         \A i, j \in J : f[i] = f[j] => i = j
  PROVE  IsFiniteSet(T) /\ Cardinality(T) = Cardinality(J)
<1> DEFINE g == [j \in J |-> f[j]]
<1>1. g \in [J -> T]  OBVIOUS
<1>2. \A i, j \in J : g[i] = g[j] => i = j  OBVIOUS
<1>3. \A t \in T : \E j \in J : g[j] = t  OBVIOUS
<1> HIDE DEF g
<1>4. g \in Injection(J, T)  BY <1>1, <1>2 DEF Injection, IsInjective
<1>5. g \in Surjection(J, T)  BY <1>1, <1>3 DEF Surjection
<1>6. ExistsBijection(J, T)  BY <1>4, <1>5 DEF ExistsBijection, Bijection
<1> QED  BY <1>6, FS_Bijection

(* Ascending lists every member once, the smaller first.                     *)
LEMMA AscendingLists ==
  ASSUME NEW S \in SUBSET Nat, IsFiniteSet(S), NEW f, f = Ascending(S)
  PROVE  /\ Cardinality(S) \in Nat /\ f \in [1 .. Cardinality(S) -> S]
         /\ Len(f) = Cardinality(S) /\ DOMAIN f = 1 .. Cardinality(S)
         /\ \A m, n \in 1 .. Cardinality(S) : m < n => f[m] < f[n]
         /\ \A i \in S : \E n \in 1 .. Cardinality(S) : f[n] = i
         /\ \A n \in 1 .. Cardinality(S) : Cardinality(Under(S, f[n])) = n - 1
<1> DEFINE N == Cardinality(S)
           R == [i \in S |-> Cardinality(Under(S, i)) + 1]
<1>1. N \in Nat  BY FS_CardinalityType
<1>2. R \in [S -> 1 .. N]
  <2>1. ASSUME NEW i \in S  PROVE Cardinality(Under(S, i)) + 1 \in 1 .. N
    <3>1. Cardinality(Under(S, i)) \in Nat /\ Cardinality(Under(S, i)) < N  BY UnderGrows
    <3> QED  BY <1>1, <3>1
  <2> QED  BY <2>1
<1>3. ASSUME NEW i \in S, NEW j \in S, R[i] = R[j]  PROVE i = j
  <2>1. Cardinality(Under(S, i)) \in Nat /\ Cardinality(Under(S, j)) \in Nat  BY UnderGrows
  <2>2. Cardinality(Under(S, i)) = Cardinality(Under(S, j))  BY <1>3, <2>1
  <2> QED  BY <2>2, UnderGrows
<1>4. \A n \in 1 .. N : \E i \in S : R[i] = n
  <2> DEFINE T == 1 .. N
  <2>1. IsFiniteSet(T) /\ Cardinality(T) = N  BY <1>1, FS_Interval
  <2>2. R \in Injection(S, T)  BY <1>2, <1>3 DEF Injection, IsInjective
  <2>3. R \in Surjection(S, T)  BY <2>1, <2>2, FS_Injection
  <2> QED  BY <2>3 DEF Surjection
<1>5. ASSUME NEW n \in 1 .. N  PROVE f[n] \in S /\ Cardinality(Under(S, f[n])) = n - 1
  <2>1. f[n] = CHOOSE i \in S : Cardinality({j \in S : j < i}) = n - 1  BY DEF Ascending
  <2>2. \A i : {j \in S : j < i} = Under(S, i)  BY DEF Under
  <2>3. f[n] = CHOOSE i \in S : Cardinality(Under(S, i)) = n - 1  BY <2>1, <2>2
  <2>4. PICK i \in S : R[i] = n  BY <1>4
  <2>5. Cardinality(Under(S, i)) = n - 1
    <3>1. Cardinality(Under(S, i)) \in Nat /\ R[i] = Cardinality(Under(S, i)) + 1  BY UnderGrows
    <3> QED  BY <2>4, <3>1
  <2> QED  BY <2>3, <2>5
<1>6. DOMAIN f = 1 .. N  BY DEF Ascending
<1>7. f \in [1 .. N -> S]
  <2> DEFINE g == [n \in 1 .. N |-> CHOOSE i \in S : Cardinality({j \in S : j < i}) = n - 1]
  <2>1. f = g  BY DEF Ascending
  <2>2. \A n \in 1 .. N : g[n] \in S  BY <1>5, <2>1
  <2>3. g \in [1 .. N -> S]  BY <2>2
  <2> QED  BY <2>1, <2>3
<1>8. Len(f) = N
  <2>1. f \in Seq(S)  BY <1>1, <1>7
  <2> QED  BY <1>1, <1>6, <2>1
<1>9. ASSUME NEW m \in 1 .. N, NEW n \in 1 .. N, m < n  PROVE f[m] < f[n]
  <2>1. f[m] \in S /\ f[n] \in S /\ f[m] \in Nat /\ f[n] \in Nat  BY <1>5
  <2>2. Cardinality(Under(S, f[m])) = m - 1 /\ Cardinality(Under(S, f[n])) = n - 1  BY <1>5
  <2>3. f[m] # f[n]
    <3>1. m - 1 # n - 1  BY <1>9
    <3> QED  BY <2>2, <3>1
  <2>4. f[n] < f[m] => n - 1 < m - 1  BY <2>1, <2>2, UnderGrows
  <2>5. ~ f[n] < f[m]
    <3>1. ~ n - 1 < m - 1  BY <1>1, <1>9
    <3> QED  BY <2>4, <3>1
  <2> QED  BY <2>1, <2>3, <2>5
<1>10. ASSUME NEW i \in S  PROVE \E n \in 1 .. N : f[n] = i
  <2> DEFINE n == R[i]
  <2>1. n \in 1 .. N /\ Cardinality(Under(S, i)) = n - 1
    <3>1. Cardinality(Under(S, i)) \in Nat /\ R[i] = Cardinality(Under(S, i)) + 1  BY UnderGrows
    <3> QED  BY <1>2, <3>1
  <2> HIDE DEF n
  <2>2. f[n] \in S /\ Cardinality(Under(S, f[n])) = n - 1  BY <1>5, <2>1
  <2>3. f[n] = i  BY <2>1, <2>2, UnderGrows
  <2> QED  BY <2>1, <2>3
<1> QED  BY <1>1, <1>5, <1>6, <1>7, <1>8, <1>9, <1>10

-----------------------------------------------------------------------------
(* What the lists of events show                                             *)

AnyKind == UNION {DOMAIN s.seen : s \in Settings}
AnySubject == UNION {s.subjects : s \in Settings}
AnySource == {"log", "ix", "old", "current"}

Invocation == [kind : AnyKind, subject : AnySubject, seen : SUBSET AnySource]
Event == [kind : AnyKind, subject : AnySubject, source : AnySource, inv : Nat]

(* An event shows an invocation where that is seen.                          *)
Shows(e, made, sources) ==
  /\ e.inv \in DOMAIN made
  /\ e.kind = made[e.inv].kind /\ e.subject = made[e.inv].subject
  /\ e.source \in made[e.inv].seen \cap sources

(* The events of one invocation have their order, too.                       *)
Precedes(e, f) == e.inv < f.inv \/ (e.inv = f.inv /\ e.source = "old" /\ f.source = "current")

Ordered(list) == \A i, j \in DOMAIN list : i < j => Precedes(list[i], list[j])

ListTypes ==
  /\ invocations \in Seq(Invocation) /\ logs \in Seq(Event) /\ instructions \in Seq(Event)
  /\ \A i \in DOMAIN invocations : invocations[i].seen \subseteq Sources(invocations[i].kind)

OwnEvents ==
  /\ \A l \in DOMAIN logs : Shows(logs[l], invocations, {"log"})
  /\ \A i \in DOMAIN instructions : Shows(instructions[i], invocations, AnySource \ {"log"})

InSequence == Ordered(logs) /\ Ordered(instructions)

(* What is seen is in a list.                                                *)
AllShown ==
  \A i \in DOMAIN invocations : \A source \in invocations[i].seen :
    IF source = "log" THEN \E l \in DOMAIN logs : logs[l].inv = i
    ELSE \E j \in DOMAIN instructions : instructions[j].inv = i /\ instructions[j].source = source

CreatedOnce ==
  \A i, j \in DOMAIN invocations :
    i < j /\ invocations[i].subject = invocations[j].subject /\ invocations[j].kind = "create" =>
      invocations[i].kind \notin {"create", "trade"}

ListInv == ListTypes /\ OwnEvents /\ InSequence /\ AllShown /\ CreatedOnce

(* A list is made longer by one event, or not.                               *)
LEMMA Extended ==
  ASSUME NEW S, NEW list \in Seq(S), NEW e, NEW c \in BOOLEAN, c => e \in S,
         NEW more, more = list \o (IF c THEN <<e>> ELSE <<>>)
  PROVE  /\ more \in Seq(S) /\ Len(list) \in Nat /\ Len(more) \in Nat
         /\ DOMAIN list = 1 .. Len(list) /\ DOMAIN more = 1 .. Len(more)
         /\ Len(more) = IF c THEN Len(list) + 1 ELSE Len(list)
         /\ \A i \in DOMAIN list : i \in DOMAIN more /\ more[i] = list[i]
         /\ c => more[Len(list) + 1] = e /\ Len(list) + 1 \in DOMAIN more
         /\ \A i \in DOMAIN more : i \in DOMAIN list \/ (c /\ i = Len(list) + 1)
<1>1. CASE c
  <2>1. <<e>> \in Seq(S)  BY <1>1
  <2>2. more = list \o <<e>>  BY <1>1
  <2> QED  BY <1>1, <2>1, <2>2
<1>2. CASE ~ c
  <2>1. more = list \o <<>>  BY <1>2
  <2>2. more = list  BY <2>1
  <2> QED  BY <1>2, <2>2
<1> QED  BY <1>1, <1>2

(* It stays in order if what is added is later than all before.              *)
LEMMA StaysOrdered ==
  ASSUME NEW S, NEW list \in Seq(S), NEW e, NEW c \in BOOLEAN, c => e \in S,
         NEW more, more = list \o (IF c THEN <<e>> ELSE <<>>),
         Ordered(list), c => \A i \in DOMAIN list : Precedes(list[i], e)
  PROVE  Ordered(more)
<1> SUFFICES ASSUME NEW i \in DOMAIN more, NEW j \in DOMAIN more, i < j
             PROVE  Precedes(more[i], more[j])
  BY DEF Ordered
<1>1. /\ Len(list) \in Nat /\ DOMAIN list = 1 .. Len(list) /\ DOMAIN more = 1 .. Len(more)
      /\ Len(more) \in Nat
      /\ \A k \in DOMAIN list : more[k] = list[k]
      /\ c => more[Len(list) + 1] = e
      /\ \A k \in DOMAIN more : k \in DOMAIN list \/ (c /\ k = Len(list) + 1)
  BY Extended, SMTT(30)
<1>2. CASE j \in DOMAIN list
  <2>1. i \in DOMAIN list  BY <1>1, <1>2
  <2> QED  BY <1>1, <1>2, <2>1 DEF Ordered
<1>3. CASE j \notin DOMAIN list
  <2>1. c /\ j = Len(list) + 1  BY <1>1, <1>3
  <2>2. i \in DOMAIN list
    <3>1. i # Len(list) + 1  BY <1>1, <2>1
    <3> QED  BY <1>1, <3>1
  <2> QED  BY <1>1, <2>1, <2>2
<1> QED  BY <1>2, <1>3

(* The three lists after an invocation.                                      *)
NewEvent(k, s, source) == [kind |-> k, subject |-> s, source |-> source, inv |-> Len(invocations) + 1]

NewEvents(k, s, seen, source) == IF source \in seen THEN <<NewEvent(k, s, source)>> ELSE <<>>

LEMMA InvokedLists ==
  ASSUME ListTypes, NEW k \in AnyKind, NEW s \in AnySubject, NEW seen \in SUBSET Sources(k),
         Invoke(k, s, seen)
  PROVE  /\ seen \in SUBSET AnySource
         /\ \A source \in AnySource : NewEvent(k, s, source) \in Event
         /\ invocations' = Append(invocations, [kind |-> k, subject |-> s, seen |-> seen])
         /\ invocations' \in Seq(Invocation)
         /\ logs' = logs \o NewEvents(k, s, seen, "log")
         /\ k # "dbc" => instructions' = instructions \o NewEvents(k, s, seen, "ix")
         /\ k = "dbc" =>
              \E half \in Seq(Event) :
                /\ half = instructions \o NewEvents(k, s, seen, "old")
                /\ instructions' = half \o NewEvents(k, s, seen, "current")
<1>1. Len(invocations) + 1 \in Nat /\ seen \in SUBSET AnySource
      /\ (k # "dbc" => seen \subseteq {"log", "ix"})
      /\ (k = "dbc" => seen \subseteq {"old", "current"})
  BY DEF ListTypes, Sources, AnySource
<1>2. \A source \in AnySource : NewEvent(k, s, source) \in Event  BY <1>1 DEF Event, NewEvent
<1>3. /\ invocations' = Append(invocations, [kind |-> k, subject |-> s, seen |-> seen])
      /\ logs' = logs \o NewEvents(k, s, seen, "log")
      /\ instructions' = instructions \o NewEvents(k, s, seen, "ix") \o NewEvents(k, s, seen, "old")
                                      \o NewEvents(k, s, seen, "current")
  BY DEF Invoke, NewEvent, NewEvents
<1>4. [kind |-> k, subject |-> s, seen |-> seen] \in Invocation  BY <1>1 DEF Invocation
<1>5. invocations' \in Seq(Invocation)  BY <1>3, <1>4 DEF ListTypes
<1>6. \A source \in AnySource : NewEvents(k, s, seen, source) \in Seq(Event)  BY <1>2 DEF NewEvents
<1>7. instructions \in Seq(Event)  BY DEF ListTypes
<1>8. ASSUME k # "dbc"  PROVE instructions' = instructions \o NewEvents(k, s, seen, "ix")
  <2>1. NewEvents(k, s, seen, "old") = <<>> /\ NewEvents(k, s, seen, "current") = <<>>
    BY <1>1, <1>8 DEF NewEvents
  <2>2. NewEvents(k, s, seen, "ix") \in Seq(Event)  BY <1>6 DEF AnySource
  <2> DEFINE longer == instructions \o NewEvents(k, s, seen, "ix")
  <2>3. longer \in Seq(Event)  BY <1>7, <2>2
  <2>4. instructions' = longer \o <<>> \o <<>>  BY <1>3, <2>1
  <2> HIDE DEF longer
  <2>5. instructions' = longer  BY <2>3, <2>4
  <2> QED  BY <2>5 DEF longer
<1>9. ASSUME k = "dbc"
      PROVE  \E half \in Seq(Event) :
               /\ half = instructions \o NewEvents(k, s, seen, "old")
               /\ instructions' = half \o NewEvents(k, s, seen, "current")
  <2>1. NewEvents(k, s, seen, "ix") = <<>>  BY <1>1, <1>9 DEF NewEvents
  <2>2. NewEvents(k, s, seen, "old") \in Seq(Event)  BY <1>6 DEF AnySource
  <2> DEFINE half == instructions \o NewEvents(k, s, seen, "old")
  <2>3. instructions \o NewEvents(k, s, seen, "ix") = instructions  BY <1>7, <2>1
  <2>4. half \in Seq(Event)  BY <1>7, <2>2
  <2>5. instructions' = half \o NewEvents(k, s, seen, "current")  BY <1>3, <2>3
  <2> QED  BY <2>4, <2>5
<1> QED  BY <1>1, <1>2, <1>3, <1>5, <1>8, <1>9

(* What a source adds to a list, if it is seen.                              *)
Follows(list, e) == \A i \in DOMAIN list : Precedes(list[i], e)

Adds(list, e, seen, more) ==
  /\ more \in Seq(Event) /\ Ordered(more)
  /\ \A i \in DOMAIN list : i \in DOMAIN more /\ more[i] = list[i]
  /\ \A i \in DOMAIN more : (i \in DOMAIN list /\ more[i] = list[i]) \/ (seen /\ more[i] = e)
  /\ seen => \E i \in DOMAIN more : more[i] = e

LEMMA Longer ==
  ASSUME NEW k, NEW s, NEW seen, NEW source, NewEvent(k, s, source) \in Event,
         NEW list \in Seq(Event), Ordered(list), Follows(list, NewEvent(k, s, source))
  PROVE  Adds(list, NewEvent(k, s, source), source \in seen, list \o NewEvents(k, s, seen, source))
<1> DEFINE e == NewEvent(k, s, source)
           c == source \in seen
           more == list \o NewEvents(k, s, seen, source)
<1>1. more = list \o (IF c THEN <<e>> ELSE <<>>)  BY DEF NewEvents
<1>2. c \in BOOLEAN /\ e \in Event /\ Follows(list, e)  OBVIOUS
<1> HIDE DEF e, c, more
<1>3. /\ more \in Seq(Event)
      /\ \A i \in DOMAIN list : i \in DOMAIN more /\ more[i] = list[i]
      /\ c => more[Len(list) + 1] = e /\ Len(list) + 1 \in DOMAIN more
      /\ \A i \in DOMAIN more : i \in DOMAIN list \/ (c /\ i = Len(list) + 1)
  BY <1>1, <1>2, Extended
<1>4. Ordered(more)
  <2>1. \A i \in DOMAIN list : Precedes(list[i], e)  BY <1>2 DEF Follows
  <2> QED  BY <1>1, <1>2, <2>1, StaysOrdered
<1>5. \A i \in DOMAIN more : (i \in DOMAIN list /\ more[i] = list[i]) \/ (c /\ more[i] = e)
  BY <1>3
<1>6. c => \E i \in DOMAIN more : more[i] = e  BY <1>3
<1>7. Adds(list, e, c, more)  BY <1>3, <1>4, <1>5, <1>6 DEF Adds
<1> QED  BY <1>7 DEF e, c, more

(* Every conjunct survives an invocation.                                    *)
LEMMA ListStep ==
  ASSUME ListInv, NEW k \in AnyKind, NEW s \in AnySubject, NEW seen \in SUBSET Sources(k),
         Invoke(k, s, seen)
  PROVE  ListInv'
<1> DEFINE n == Len(invocations) + 1
<1>1. /\ invocations \in Seq(Invocation) /\ logs \in Seq(Event) /\ instructions \in Seq(Event)
      /\ \A i \in DOMAIN invocations : invocations[i].seen \subseteq Sources(invocations[i].kind)
  BY DEF ListInv, ListTypes
<1>2. /\ seen \in SUBSET AnySource
      /\ \A source \in AnySource : NewEvent(k, s, source) \in Event
      /\ invocations' = Append(invocations, [kind |-> k, subject |-> s, seen |-> seen])
      /\ invocations' \in Seq(Invocation)
      /\ logs' = logs \o NewEvents(k, s, seen, "log")
      /\ k # "dbc" => instructions' = instructions \o NewEvents(k, s, seen, "ix")
      /\ k = "dbc" =>
           \E half \in Seq(Event) :
             /\ half = instructions \o NewEvents(k, s, seen, "old")
             /\ instructions' = half \o NewEvents(k, s, seen, "current")
  BY InvokedLists DEF ListInv
<1>3. /\ n \in Nat /\ DOMAIN invocations = 1 .. n - 1 /\ DOMAIN invocations' = 1 .. n
      /\ n \in DOMAIN invocations' /\ n \notin DOMAIN invocations
      /\ invocations'[n] = [kind |-> k, subject |-> s, seen |-> seen]
      /\ \A i \in DOMAIN invocations : i \in DOMAIN invocations' /\ invocations'[i] = invocations[i]
      /\ \A i \in DOMAIN invocations' : i \in DOMAIN invocations \/ i = n
  BY <1>1, <1>2
<1>4. \A source : /\ NewEvent(k, s, source).inv = n /\ NewEvent(k, s, source).source = source
                  /\ NewEvent(k, s, source).kind = k /\ NewEvent(k, s, source).subject = s
  BY DEF NewEvent
<1> HIDE DEF n
<1>5. "log" \in AnySource /\ "ix" \in AnySource /\ "old" \in AnySource /\ "current" \in AnySource
  BY DEF AnySource
<1>6. \A e, f : e.inv \in DOMAIN invocations /\ f.inv = n => Precedes(e, f)
  BY <1>3 DEF Precedes
<1>7. /\ \A l \in DOMAIN logs : Shows(logs[l], invocations, {"log"})
      /\ \A i \in DOMAIN instructions : Shows(instructions[i], invocations, AnySource \ {"log"})
  BY DEF ListInv, OwnEvents
<1>8. \A e, sources : Shows(e, invocations, sources) => e.inv \in DOMAIN invocations /\ Shows(e, invocations', sources)
  BY <1>3 DEF Shows
<1>9. \A sources : \A source \in seen : source \in sources => Shows(NewEvent(k, s, source), invocations', sources)
  BY <1>3, <1>4 DEF Shows
<1>10. /\ \A source : Follows(logs, NewEvent(k, s, source))
       /\ \A source : Follows(instructions, NewEvent(k, s, source))
  BY <1>4, <1>6, <1>7, <1>8 DEF Follows
<1>11. Adds(logs, NewEvent(k, s, "log"), "log" \in seen, logs')
  <2>1. Ordered(logs)  BY DEF ListInv, InSequence
  <2> QED  BY <1>1, <1>2, <1>5, <1>10, <2>1, Longer
<1>12. /\ instructions' \in Seq(Event) /\ Ordered(instructions')
       /\ \A i \in DOMAIN instructions : i \in DOMAIN instructions' /\ instructions'[i] = instructions[i]
       /\ \A i \in DOMAIN instructions' :
            \/ i \in DOMAIN instructions /\ instructions'[i] = instructions[i]
            \/ \E source \in seen \ {"log"} : instructions'[i] = NewEvent(k, s, source)
       /\ \A source \in seen \ {"log"} : \E i \in DOMAIN instructions' : instructions'[i] = NewEvent(k, s, source)
  <2>1. Ordered(instructions)  BY DEF ListInv, InSequence
  <2>2. CASE k # "dbc"
    <3>1. instructions' = instructions \o NewEvents(k, s, seen, "ix")  BY <1>2, <2>2
    <3>2. Adds(instructions, NewEvent(k, s, "ix"), "ix" \in seen, instructions')
      BY <1>1, <1>2, <1>5, <1>10, <2>1, <3>1, Longer
    <3>3. seen \ {"log"} = seen \cap {"ix"}  BY <2>2 DEF Sources
    <3> QED  BY <3>2, <3>3 DEF Adds
  <2>3. CASE k = "dbc"
    <3>1. PICK half \in Seq(Event) : /\ half = instructions \o NewEvents(k, s, seen, "old")
                                     /\ instructions' = half \o NewEvents(k, s, seen, "current")
      BY <1>2, <2>3
    <3>2. Adds(instructions, NewEvent(k, s, "old"), "old" \in seen, half)
      BY <1>1, <1>2, <1>5, <1>10, <2>1, <3>1, Longer
    <3>3. Precedes(NewEvent(k, s, "old"), NewEvent(k, s, "current"))  BY <1>4 DEF Precedes
    <3>4. Follows(half, NewEvent(k, s, "current"))
      BY <1>10, <3>2, <3>3 DEF Adds, Follows
    <3>5. Adds(half, NewEvent(k, s, "current"), "current" \in seen, instructions')
      <4>1. Ordered(half)  BY <3>2 DEF Adds
      <4> QED  BY <1>2, <1>5, <3>1, <3>4, <4>1, Longer
    <3>6. seen \ {"log"} = seen \cap {"old", "current"}  BY <2>3 DEF Sources
    <3>7. "old" \in seen => \E i \in DOMAIN instructions' : instructions'[i] = NewEvent(k, s, "old")
      BY <3>2, <3>5 DEF Adds
    <3>8. \A i \in DOMAIN instructions' :
            \/ i \in DOMAIN instructions /\ instructions'[i] = instructions[i]
            \/ \E source \in seen \ {"log"} : instructions'[i] = NewEvent(k, s, source)
      BY <3>2, <3>5, <3>6 DEF Adds
    <3>9. \A source \in seen \ {"log"} : \E i \in DOMAIN instructions' : instructions'[i] = NewEvent(k, s, source)
      BY <3>5, <3>6, <3>7 DEF Adds
    <3>10. \A i \in DOMAIN instructions : i \in DOMAIN instructions' /\ instructions'[i] = instructions[i]
      BY <3>2, <3>5 DEF Adds
    <3> QED  BY <3>5, <3>8, <3>9, <3>10 DEF Adds
  <2> QED  BY <2>2, <2>3
<1>13. ListTypes'
  <2>1. ASSUME NEW i \in DOMAIN invocations'
        PROVE  invocations'[i].seen \subseteq Sources(invocations'[i].kind)
    <3>1. CASE i \in DOMAIN invocations
      <4>1. invocations'[i] = invocations[i]  BY <1>3, <3>1
      <4> QED  BY <1>1, <3>1, <4>1
    <3>2. CASE i = n
      <4>1. invocations'[i].seen = seen /\ invocations'[i].kind = k  BY <1>3, <3>2
      <4> QED  BY <4>1
    <3> QED  BY <1>3, <3>1, <3>2
  <2>2. /\ invocations' \in Seq(Invocation) /\ logs' \in Seq(Event) /\ instructions' \in Seq(Event)
    BY <1>2, <1>11, <1>12 DEF Adds
  <2> QED  BY <2>1, <2>2 DEF ListTypes
<1>14. OwnEvents'
  <2>1. \A l \in DOMAIN logs' : Shows(logs'[l], invocations', {"log"})
    BY <1>7, <1>8, <1>9, <1>11 DEF Adds
  <2>2. \A i \in DOMAIN instructions' : Shows(instructions'[i], invocations', AnySource \ {"log"})
    <3> SUFFICES ASSUME NEW i \in DOMAIN instructions'
                 PROVE  Shows(instructions'[i], invocations', AnySource \ {"log"})
      OBVIOUS
    <3>1. CASE i \in DOMAIN instructions /\ instructions'[i] = instructions[i]
      BY <1>7, <1>8, <3>1
    <3>2. CASE \E source \in seen \ {"log"} : instructions'[i] = NewEvent(k, s, source)
      BY <1>2, <1>9, <3>2
    <3> QED  BY <1>12, <3>1, <3>2
  <2> QED  BY <2>1, <2>2 DEF OwnEvents
<1>15. InSequence'
  BY <1>11, <1>12 DEF InSequence, Ordered, Precedes, Adds
<1>16. AllShown'
  <2> SUFFICES ASSUME NEW i \in DOMAIN invocations', NEW source \in invocations'[i].seen
               PROVE  IF source = "log" THEN \E l \in DOMAIN logs' : logs'[l].inv = i
                      ELSE \E j \in DOMAIN instructions' :
                             instructions'[j].inv = i /\ instructions'[j].source = source
    BY DEF AllShown
  <2>1. CASE i \in DOMAIN invocations
    <3>1. IF source = "log" THEN \E l \in DOMAIN logs : logs[l].inv = i
          ELSE \E j \in DOMAIN instructions : instructions[j].inv = i /\ instructions[j].source = source
      BY <1>3, <2>1 DEF ListInv, AllShown
    <3> QED  BY <1>11, <1>12, <3>1 DEF Adds
  <2>2. CASE i = n
    <3>1. source \in seen  BY <1>3, <2>2
    <3> QED  BY <1>4, <1>11, <1>12, <2>2, <3>1 DEF Adds
  <2> QED  BY <1>3, <2>1, <2>2
<1>17. CreatedOnce'
  <2> SUFFICES ASSUME NEW i \in DOMAIN invocations', NEW j \in DOMAIN invocations', i < j,
                      invocations'[i].subject = invocations'[j].subject, invocations'[j].kind = "create"
               PROVE  invocations'[i].kind \notin {"create", "trade"}
    BY DEF CreatedOnce
  <2>1. i # n  BY <1>3
  <2>2. i \in DOMAIN invocations /\ invocations'[i] = invocations[i]  BY <1>3, <2>1
  <2>3. CASE j \in DOMAIN invocations
    BY <1>3, <2>2, <2>3 DEF ListInv, CreatedOnce
  <2>4. CASE j = n
    <3>1. k = "create" /\ invocations[i].subject = s  BY <1>3, <2>2, <2>4
    <3> QED  BY <2>2, <3>1 DEF Invoke, MayHappen
  <2> QED  BY <1>3, <2>3, <2>4
<1> QED  BY <1>13, <1>14, <1>15, <1>16, <1>17 DEF ListInv

(* No other step touches the lists.                                          *)
THEOREM ListsInvariant == TransactionSpec => []ListInv
<1>1. BeginTransaction => ListInv
  <2> SUFFICES ASSUME BeginTransaction  PROVE ListInv
    OBVIOUS
  <2>1. invocations = <<>> /\ logs = <<>> /\ instructions = <<>>  BY DEF BeginTransaction, NoEvents
  <2>2. \A S : <<>> \in Seq(S)  OBVIOUS
  <2>3. DOMAIN invocations = {} /\ DOMAIN logs = {} /\ DOMAIN instructions = {}  BY <2>1
  <2> QED  BY <2>1, <2>2, <2>3 DEF ListInv, ListTypes, OwnEvents, InSequence, Ordered, AllShown, CreatedOnce
<1>2. ASSUME ListInv, TypeOK, [Step]_all  PROVE ListInv'
  <2>1. ASSUME NEW k \in DOMAIN setting.seen, NEW s \in setting.subjects, NEW seen \in setting.seen[k],
               Does(k, s, seen)
        PROVE  ListInv'
    <3>1. setting \in Settings  BY <1>2 DEF TypeOK
    <3>2. k \in AnyKind /\ s \in AnySubject  BY <3>1 DEF AnyKind, AnySubject
    <3>3. seen \in SUBSET Sources(k)  BY <3>1, SeenAssumption
    <3>4. seen \ {"log"} \in SUBSET Sources(k)  BY <3>3
    <3>5. Invoke(k, s, seen) \/ Invoke(k, s, seen \ {"log"})
      BY <2>1 DEF Does, Logged, Unlogged
    <3> QED  BY <1>2, <3>2, <3>3, <3>4, <3>5, ListStep
  <2>2. CASE Silent /\ UNCHANGED lists
    BY <1>2, <2>2 DEF lists, ListInv, ListTypes, OwnEvents, InSequence, AllShown, CreatedOnce, Shows
  <2>3. CASE UNCHANGED all
    BY <1>2, <2>3 DEF all, lists, ListInv, ListTypes, OwnEvents, InSequence, AllShown, CreatedOnce, Shows
  <2> QED  BY <1>2, <2>1, <2>2, <2>3 DEF Step
<1>3. TransactionSpec => []TypeOK
  BY TransactionIsLogged, Invariance, PTL DEF IInv
<1> QED  BY <1>1, <1>2, <1>3, PTL DEF TransactionSpec

-----------------------------------------------------------------------------
(* Keys                                                                      *)

Shown(k, s, source) == {i \in Invocations(k, s) : source \in invocations[i].seen}

(* A list shows the invocations of a kind that one source tells, in order.   *)
Covers(list, source, k) ==
  /\ list \in Seq(Event)
  /\ \A l \in DOMAIN list : list[l].kind = k => list[l].inv \in Shown(k, list[l].subject, source)
  /\ \A s : \A i \in Shown(k, s, source) :
       \E l \in DOMAIN list : list[l].inv = i /\ list[l].kind = k /\ list[l].subject = s
  /\ \A l, m \in DOMAIN list : l < m /\ list[l].kind = k /\ list[m].kind = k => list[l].inv < list[m].inv

LEMMA InvocationsFinite ==
  ASSUME ListInv, NEW k, NEW s
  PROVE  /\ Invocations(k, s) \subseteq Nat /\ IsFiniteSet(Invocations(k, s))
         /\ \A source : /\ Shown(k, s, source) \subseteq Invocations(k, s)
                        /\ Shown(k, s, source) \in SUBSET Nat /\ IsFiniteSet(Shown(k, s, source))
<1>1. Len(invocations) \in Nat /\ DOMAIN invocations = 1 .. Len(invocations)
  BY DEF ListInv, ListTypes
<1>2. IsFiniteSet(1 .. Len(invocations))  BY <1>1, FS_Interval
<1>3. Invocations(k, s) \subseteq 1 .. Len(invocations)  BY <1>1 DEF Invocations
<1>4. IsFiniteSet(Invocations(k, s))  BY <1>2, <1>3, FS_Subset
<1>5. \A source : Shown(k, s, source) \subseteq Invocations(k, s)  BY DEF Shown
<1>6. \A source : IsFiniteSet(Shown(k, s, source))  BY <1>4, <1>5, FS_Subset
<1> QED  BY <1>3, <1>4, <1>5, <1>6

LEMMA ListsCover ==
  ASSUME ListInv, NEW k, k # "dbc"
  PROVE  Covers(logs, "log", k) /\ Covers(instructions, "ix", k)
<1>1. /\ logs \in Seq(Event) /\ instructions \in Seq(Event) /\ invocations \in Seq(Invocation)
      /\ \A i \in DOMAIN invocations : invocations[i].seen \subseteq Sources(invocations[i].kind)
  BY DEF ListInv, ListTypes
<1>2. /\ \A l \in DOMAIN logs : Shows(logs[l], invocations, {"log"})
      /\ \A i \in DOMAIN instructions : Shows(instructions[i], invocations, AnySource \ {"log"})
  BY DEF ListInv, OwnEvents
<1>3. \A i \in DOMAIN instructions : instructions[i].kind = k => instructions[i].source = "ix"
  BY <1>1, <1>2 DEF Shows, Sources, AnySource
<1>4. ASSUME NEW l \in DOMAIN logs, logs[l].kind = k
      PROVE  logs[l].inv \in Shown(k, logs[l].subject, "log")
  BY <1>2, <1>4 DEF Shows, Shown, Invocations
<1>5. ASSUME NEW i \in DOMAIN instructions, instructions[i].kind = k
      PROVE  instructions[i].inv \in Shown(k, instructions[i].subject, "ix")
  BY <1>2, <1>3, <1>5 DEF Shows, Shown, Invocations
<1>6. ASSUME NEW s, NEW i \in Shown(k, s, "log")
      PROVE  \E l \in DOMAIN logs : logs[l].inv = i /\ logs[l].kind = k /\ logs[l].subject = s
  <2>1. /\ i \in DOMAIN invocations /\ "log" \in invocations[i].seen
        /\ invocations[i].kind = k /\ invocations[i].subject = s
    BY <1>6 DEF Shown, Invocations
  <2>2. PICK l \in DOMAIN logs : logs[l].inv = i  BY <2>1 DEF ListInv, AllShown
  <2> QED  BY <1>2, <2>1, <2>2 DEF Shows
<1>7. ASSUME NEW s, NEW i \in Shown(k, s, "ix")
      PROVE  \E j \in DOMAIN instructions :
               instructions[j].inv = i /\ instructions[j].kind = k /\ instructions[j].subject = s
  <2>1. /\ i \in DOMAIN invocations /\ "ix" \in invocations[i].seen
        /\ invocations[i].kind = k /\ invocations[i].subject = s
    BY <1>7 DEF Shown, Invocations
  <2>2. PICK j \in DOMAIN instructions : instructions[j].inv = i  BY <2>1 DEF ListInv, AllShown
  <2> QED  BY <1>2, <2>1, <2>2 DEF Shows
<1>8. ASSUME NEW l \in DOMAIN logs, NEW m \in DOMAIN logs, l < m  PROVE logs[l].inv < logs[m].inv
  <2>1. Precedes(logs[l], logs[m])  BY <1>8 DEF ListInv, InSequence, Ordered
  <2>2. logs[l].source = "log"  BY <1>2 DEF Shows
  <2> QED  BY <2>1, <2>2 DEF Precedes
<1>9. ASSUME NEW l \in DOMAIN instructions, NEW m \in DOMAIN instructions, l < m,
             instructions[l].kind = k
      PROVE  instructions[l].inv < instructions[m].inv
  <2>1. Precedes(instructions[l], instructions[m])  BY <1>9 DEF ListInv, InSequence, Ordered
  <2>2. instructions[l].source = "ix"  BY <1>3, <1>9
  <2> QED  BY <2>1, <2>2 DEF Precedes
<1> QED  BY <1>1, <1>4, <1>5, <1>6, <1>7, <1>8, <1>9 DEF Covers

(* The ordinal of an event is that of its invocation among those shown.      *)
LEMMA OrdinalIsRank ==
  ASSUME ListInv, NEW list, NEW source, NEW k, Covers(list, source, k),
         NEW l \in DOMAIN list, list[l].kind = k
  PROVE  Cardinality({j \in 1 .. l - 1 : Same(list[j], list[l])})
           = Cardinality(Under(Shown(k, list[l].subject, source), list[l].inv))
<1> DEFINE J == {j \in 1 .. l - 1 : Same(list[j], list[l])}
           S == Shown(k, list[l].subject, source)
           T == Under(S, list[l].inv)
           f == [j \in J |-> list[j].inv]
<1>1. Len(list) \in Nat /\ DOMAIN list = 1 .. Len(list) /\ l \in Nat
  BY DEF Covers
<1>2. \A j \in J : j \in DOMAIN list /\ j \in Nat /\ j < l /\ list[j].kind = k
                   /\ list[j].subject = list[l].subject
  BY <1>1 DEF Same
<1>3. IsFiniteSet(J)
  <2>1. IsFiniteSet(1 .. l - 1)  BY <1>1, FS_Interval
  <2> QED  BY <2>1, FS_Subset
<1>4. S \in SUBSET Nat  BY InvocationsFinite
<1>5. ASSUME NEW j \in J  PROVE f[j] \in T
  <2>1. list[j].inv \in S  BY <1>2 DEF Covers
  <2>2. list[j].inv < list[l].inv  BY <1>2 DEF Covers
  <2> QED  BY <2>1, <2>2 DEF Under
<1>6. ASSUME NEW t \in T  PROVE \E j \in J : f[j] = t
  <2>1. t \in S /\ t < list[l].inv /\ t \in Nat  BY <1>4 DEF Under
  <2>2. PICK j \in DOMAIN list : list[j].inv = t /\ list[j].kind = k /\ list[j].subject = list[l].subject
    BY <2>1 DEF Covers
  <2>3. list[l].inv \in Nat
    <3>1. list[l].inv \in S  BY DEF Covers
    <3> QED  BY <1>4, <3>1
  <2>4. ~ l < j
    <3>1. l < j => list[l].inv < t  BY <2>2 DEF Covers
    <3> QED  BY <2>1, <2>3, <3>1
  <2>5. j # l  BY <2>1, <2>2, <2>3
  <2>6. j \in 1 .. l - 1  BY <1>1, <2>4, <2>5
  <2>7. j \in J  BY <2>2, <2>6 DEF Same
  <2> QED  BY <2>2, <2>7
<1>7. ASSUME NEW i \in J, NEW j \in J, f[i] = f[j]  PROVE i = j
  <2>1. list[i].inv = list[j].inv /\ list[i].inv \in Nat
    <3>1. list[i].inv \in S  BY <1>2 DEF Covers
    <3> QED  BY <1>4, <1>7, <3>1
  <2>2. i < j => list[i].inv < list[j].inv  BY <1>2 DEF Covers
  <2>3. j < i => list[j].inv < list[i].inv  BY <1>2 DEF Covers
  <2> QED  BY <1>2, <2>1, <2>2, <2>3
<1> HIDE DEF J, T, f
<1>8. Cardinality(T) = Cardinality(J)  BY <1>3, <1>5, <1>6, <1>7, AsManyImages
<1> QED  BY <1>8 DEF J, T

(* There are as many events of a key as invocations shown.                   *)
LEMMA OccurrencesAreShown ==
  ASSUME ListInv, NEW list, NEW source, NEW e, Covers(list, source, e.kind)
  PROVE  Occurrences(list, e) = Cardinality(Shown(e.kind, e.subject, source))
<1> DEFINE J == {j \in DOMAIN list : Same(list[j], e)}
           T == Shown(e.kind, e.subject, source)
           f == [j \in J |-> list[j].inv]
<1>1. Len(list) \in Nat /\ DOMAIN list = 1 .. Len(list)
  BY DEF Covers
<1>2. \A j \in J : j \in DOMAIN list /\ j \in Nat /\ list[j].kind = e.kind /\ list[j].subject = e.subject
  BY <1>1 DEF Same
<1>3. IsFiniteSet(J)
  <2>1. IsFiniteSet(1 .. Len(list))  BY <1>1, FS_Interval
  <2> QED  BY <1>1, <2>1, FS_Subset
<1>4. T \in SUBSET Nat  BY InvocationsFinite
<1>5. \A j \in J : f[j] \in T  BY <1>2 DEF Covers
<1>6. ASSUME NEW t \in T  PROVE \E j \in J : f[j] = t
  <2>1. PICK j \in DOMAIN list : list[j].inv = t /\ list[j].kind = e.kind /\ list[j].subject = e.subject
    BY DEF Covers
  <2> QED  BY <2>1 DEF Same
<1>7. ASSUME NEW i \in J, NEW j \in J, f[i] = f[j]  PROVE i = j
  <2>1. list[i].inv = list[j].inv /\ list[i].inv \in Nat  BY <1>4, <1>5, <1>7
  <2>2. i < j => list[i].inv < list[j].inv  BY <1>2 DEF Covers
  <2>3. j < i => list[j].inv < list[i].inv  BY <1>2 DEF Covers
  <2> QED  BY <1>2, <2>1, <2>2, <2>3
<1> HIDE DEF T, f
<1>8. Cardinality(T) = Cardinality(J)
  <2> HIDE DEF J
  <2> QED  BY <1>3, <1>5, <1>6, <1>7, AsManyImages
<1> QED  BY <1>8 DEF J, T, Occurrences

(* A creation is the only one of its subject, and so is liquidity that is    *)
(* not taken for another.                                                    *)
LEMMA OneOfAKind ==
  ASSUME ListInv, NEW k \in {"create", "liquidity"}, NEW s, ~ TakenForOne(k, s),
         NEW i \in Invocations(k, s), NEW j \in Invocations(k, s)
  PROVE  i = j
<1>1. Invocations(k, s) \subseteq Nat /\ IsFiniteSet(Invocations(k, s))  BY InvocationsFinite
<1>2. CASE k = "create"
  <2>1. /\ i \in DOMAIN invocations /\ j \in DOMAIN invocations
        /\ invocations[i].kind = "create" /\ invocations[j].kind = "create"
        /\ invocations[i].subject = invocations[j].subject
    BY <1>2 DEF Invocations
  <2>2. ~ i < j /\ ~ j < i  BY <2>1 DEF ListInv, CreatedOnce
  <2> QED  BY <1>1, <2>2
<1>3. CASE k = "liquidity"
  <2> SUFFICES ASSUME i # j  PROVE FALSE
    OBVIOUS
  <2> DEFINE I == Invocations(k, s)
  <2>1. Cardinality(I) \in Nat  BY <1>1, FS_CardinalityType
  <2>2. Cardinality(I) <= 1  BY <1>3, <2>1 DEF TakenForOne
  <2>3. IsFiniteSet(I \ {i}) /\ Cardinality(I \ {i}) = Cardinality(I) - 1  BY <1>1, FS_RemoveElement
  <2>4. Cardinality(I \ {i}) \in Nat  BY <2>3, FS_CardinalityType
  <2>5. Cardinality(I \ {i}) = 0  BY <2>1, <2>2, <2>3, <2>4
  <2>6. I \ {i} = {}  BY <2>3, <2>5, FS_EmptySet
  <2> QED  BY <2>6
<1> QED  BY <1>2, <1>3

(* Events of the lists are of invocations of their kind and subject.         *)
LEMMA EventsAreOf ==
  ASSUME ListInv
  PROVE  /\ \A l \in DOMAIN logs : /\ logs[l] \in Event /\ logs[l].source = "log"
                                   /\ logs[l].inv \in Invocations(logs[l].kind, logs[l].subject)
                                   /\ logs[l].inv \in Nat /\ logs[l].kind \in Kinds \ {"dbc"}
         /\ \A j \in DOMAIN instructions :
              /\ instructions[j] \in Event /\ instructions[j].source # "log"
              /\ instructions[j].inv \in Invocations(instructions[j].kind, instructions[j].subject)
              /\ instructions[j].inv \in Nat /\ instructions[j].kind \in Kinds
              /\ instructions[j].source \in Sources(instructions[j].kind)
              /\ instructions[j].source \in invocations[instructions[j].inv].seen
<1>1. /\ logs \in Seq(Event) /\ instructions \in Seq(Event) /\ invocations \in Seq(Invocation)
      /\ \A i \in DOMAIN invocations : invocations[i].seen \subseteq Sources(invocations[i].kind)
  BY DEF ListInv, ListTypes
<1>2. /\ \A l \in DOMAIN logs : Shows(logs[l], invocations, {"log"})
      /\ \A i \in DOMAIN instructions : Shows(instructions[i], invocations, AnySource \ {"log"})
  BY DEF ListInv, OwnEvents
<1>3. AnyKind \subseteq Kinds  BY SeenAssumption DEF AnyKind
<1>4. \A e \in Event : e.inv \in Nat /\ e.kind \in Kinds  BY <1>3 DEF Event
<1>5. \A l \in DOMAIN logs : logs[l] \in Event  BY <1>1
<1>6. \A l \in DOMAIN instructions : instructions[l] \in Event  BY <1>1
<1>7. ASSUME NEW l \in DOMAIN logs
      PROVE  /\ logs[l].source = "log" /\ logs[l].kind # "dbc"
             /\ logs[l].inv \in Invocations(logs[l].kind, logs[l].subject)
  <2>1. Shows(logs[l], invocations, {"log"})  BY <1>2
  <2>2. invocations[logs[l].inv].seen \subseteq Sources(logs[l].kind)  BY <1>1, <2>1 DEF Shows
  <2>3. logs[l].source = "log" /\ "log" \in invocations[logs[l].inv].seen  BY <2>1 DEF Shows
  <2>4. logs[l].inv \in Invocations(logs[l].kind, logs[l].subject)  BY <2>1 DEF Shows, Invocations
  <2> QED  BY <2>2, <2>3, <2>4 DEF Sources
<1>8. ASSUME NEW j \in DOMAIN instructions
      PROVE  /\ instructions[j].source # "log"
             /\ instructions[j].inv \in Invocations(instructions[j].kind, instructions[j].subject)
             /\ instructions[j].source \in Sources(instructions[j].kind)
             /\ instructions[j].source \in invocations[instructions[j].inv].seen
  <2>1. Shows(instructions[j], invocations, AnySource \ {"log"})  BY <1>2
  <2>2. invocations[instructions[j].inv].seen \subseteq Sources(instructions[j].kind)  BY <1>1, <2>1 DEF Shows
  <2> QED  BY <2>1, <2>2 DEF Shows, Invocations
<1> QED  BY <1>4, <1>5, <1>6, <1>7, <1>8

(* Of trades, the invocations shown and their number say the same.           *)
LEMMA TradesPaired ==
  ASSUME ListInv, NEW s, OneSideComplete("trade", s),
         Cardinality(Shown("trade", s, "log")) = Cardinality(Shown("trade", s, "ix"))
  PROVE  /\ Shown("trade", s, "log") = Invocations("trade", s)
         /\ Shown("trade", s, "ix") = Invocations("trade", s)
<1> DEFINE I == Invocations("trade", s)
           S(source) == Shown("trade", s, source)
<1>1. IsFiniteSet(I) /\ S("log") \in SUBSET I /\ S("ix") \in SUBSET I  BY InvocationsFinite
<1>2. S("log") = I \/ S("ix") = I
  BY DEF OneSideComplete, Sources, Shown
<1> HIDE DEF S, I
<1>3. Cardinality(S("log")) = Cardinality(S("ix"))  BY DEF S
<1>4. /\ Cardinality(I) = Cardinality(S("log")) => I = S("log")
      /\ Cardinality(I) = Cardinality(S("ix")) => I = S("ix")
  BY <1>1, FS_Subset
<1>5. S("log") = I /\ S("ix") = I  BY <1>2, <1>3, <1>4
<1> QED  BY <1>5 DEF S, I

(* Log and instruction of one key are of one invocation, unless two sides    *)
(* miss some or the key takes them for one.                                  *)
LEMMA KeyIsInvocation ==
  ASSUME ListInv, NEW i \in DOMAIN instructions, NEW l \in LogsFor(i),
         OneSideComplete(instructions[i].kind, instructions[i].subject),
         ~ TakenForOne(instructions[i].kind, instructions[i].subject)
  PROVE  l \in DOMAIN logs /\ logs[l].inv = instructions[i].inv
<1> DEFINE e == instructions[i]
<1>1. l \in DOMAIN logs /\ ~ Ambiguous(e) /\ SameKey(instructions, i, logs, l)
  BY DEF LogsFor
<1>2. /\ e.kind \in {"trade", "create", "liquidity"} /\ logs[l].kind = e.kind /\ logs[l].subject = e.subject
      /\ Ordinal(instructions, i) = Ordinal(logs, l)
  BY <1>1 DEF SameKey, Keyed, Same
<1>3. e.inv \in Invocations(e.kind, e.subject) /\ logs[l].inv \in Invocations(e.kind, e.subject)
  BY <1>1, <1>2, EventsAreOf
<1>4. CASE e.kind = "trade"
  <2>1. Covers(logs, "log", "trade") /\ Covers(instructions, "ix", "trade")  BY ListsCover
  <2>2. Cardinality(Shown("trade", e.subject, "log")) = Cardinality(Shown("trade", e.subject, "ix"))
    <3>1. Occurrences(logs, e) = Occurrences(instructions, e)  BY <1>1, <1>4 DEF Ambiguous, Counted
    <3> QED  BY <1>4, <2>1, <3>1, OccurrencesAreShown
  <2>3. /\ Shown("trade", e.subject, "log") = Invocations("trade", e.subject)
        /\ Shown("trade", e.subject, "ix") = Invocations("trade", e.subject)
    BY <1>4, <2>2, TradesPaired
  <2> DEFINE I == Invocations("trade", e.subject)
  <2>4. Ordinal(instructions, i) = Cardinality(Under(I, e.inv))
    BY <1>4, <2>1, <2>3, OrdinalIsRank DEF Ordinal, Counted
  <2>5. Ordinal(logs, l) = Cardinality(Under(I, logs[l].inv))
    BY <1>1, <1>2, <1>4, <2>1, <2>3, OrdinalIsRank DEF Ordinal, Counted
  <2>6. I \in SUBSET Nat /\ IsFiniteSet(I)  BY InvocationsFinite
  <2>7. e.inv \in I /\ logs[l].inv \in I  BY <1>3, <1>4
  <2> HIDE DEF I, e
  <2>8. Cardinality(Under(I, e.inv)) = Cardinality(Under(I, logs[l].inv))  BY <1>2, <2>4, <2>5
  <2> QED  BY <1>1, <2>6, <2>7, <2>8, UnderGrows DEF e
<1>5. CASE e.kind \in {"create", "liquidity"}
  BY <1>1, <1>3, <1>5, OneOfAKind
<1> QED  BY <1>2, <1>4, <1>5

(* So are two instructions of one key.                                       *)
LEMMA SameKeySameInvocation ==
  ASSUME ListInv, NEW i \in DOMAIN instructions, NEW j \in DOMAIN instructions,
         SameKey(instructions, i, instructions, j),
         ~ TakenForOne(instructions[i].kind, instructions[i].subject)
  PROVE  instructions[j].inv = instructions[i].inv
<1> DEFINE e == instructions[i]
           f == instructions[j]
<1>1. /\ e.kind \in {"trade", "create", "liquidity"} /\ f.kind = e.kind /\ f.subject = e.subject
      /\ Ordinal(instructions, i) = Ordinal(instructions, j)
  BY DEF SameKey, Keyed, Same
<1>2. e.inv \in Invocations(e.kind, e.subject) /\ f.inv \in Invocations(e.kind, e.subject)
  BY <1>1, EventsAreOf
<1>3. CASE e.kind = "trade"
  <2>1. Covers(instructions, "ix", "trade")  BY ListsCover
  <2> DEFINE S == Shown("trade", e.subject, "ix")
  <2>2. Ordinal(instructions, i) = Cardinality(Under(S, e.inv))
    BY <1>3, <2>1, OrdinalIsRank DEF Ordinal, Counted
  <2>3. Ordinal(instructions, j) = Cardinality(Under(S, f.inv))
    BY <1>1, <1>3, <2>1, OrdinalIsRank DEF Ordinal, Counted
  <2>4. S \in SUBSET Nat /\ IsFiniteSet(S)  BY InvocationsFinite
  <2>5. e.inv \in S /\ f.inv \in S  BY <1>1, <1>3, <2>1 DEF Covers
  <2> HIDE DEF S, e, f
  <2>6. Cardinality(Under(S, e.inv)) = Cardinality(Under(S, f.inv))  BY <1>1, <2>2, <2>3
  <2>7. e.inv = f.inv  BY <2>4, <2>5, <2>6, UnderGrows
  <2> QED  BY <2>7 DEF e, f
<1>4. CASE e.kind \in {"create", "liquidity"}
  <2>1. ~ TakenForOne(e.kind, e.subject)  OBVIOUS
  <2> QED  BY <1>2, <1>4, <2>1, OneOfAKind
<1> QED  BY <1>1, <1>3, <1>4

-----------------------------------------------------------------------------
(* Matching                                                                  *)

LEMMA MinIsLeast ==
  ASSUME NEW S \in SUBSET Nat, S # {}
  PROVE  Min(S) \in S /\ \A x \in S : Min(S) <= x
<1>1. IsWellFoundedOn(OpToRel(<, Nat), Nat)  BY NatLessThanWellFounded
<1>2. PICK d \in S : \A e \in S : <<e, d>> \notin OpToRel(<, Nat)
  BY <1>1, WFMin
<1>3. \A e \in S : ~ (e < d) /\ e \in Nat /\ d \in Nat  BY <1>2 DEF OpToRel
<1>4. \A e \in S : d <= e  BY <1>3
<1> QED  BY <1>4 DEF Min

(* Instruction events of their own: in no log, and the first of their key.   *)
Alone == {i \in DOMAIN instructions : LogsFor(i) = {} /\ StandsFor(i) = i}

LEMMA StandsForOne ==
  ASSUME ListInv, NEW i \in DOMAIN instructions
  PROVE  /\ StandsFor(i) \in DOMAIN instructions /\ i \in Nat /\ StandsFor(i) \in Nat
         /\ StandsFor(i) <= i
         /\ IF Keyed(instructions[i]) THEN SameKey(instructions, i, instructions, StandsFor(i))
            ELSE StandsFor(i) = i
         /\ LogsFor(i) = {} => StandsFor(i) \in Alone
<1> DEFINE T(j) == {m \in 1 .. j : SameKey(instructions, j, instructions, m)}
           j == StandsFor(i)
<1>1. Len(instructions) \in Nat /\ DOMAIN instructions = 1 .. Len(instructions) /\ i \in Nat /\ i >= 1
  BY DEF ListInv, ListTypes
<1>2. CASE ~ Keyed(instructions[i])
  <2>1. StandsFor(i) = i  BY <1>2 DEF StandsFor
  <2> QED  BY <1>1, <1>2, <2>1 DEF Alone
<1>3. CASE Keyed(instructions[i])
  <2>1. j = Min(T(i))  BY <1>3 DEF StandsFor
  <2>2. i \in T(i) /\ T(i) \in SUBSET Nat  BY <1>1, <1>3 DEF SameKey, Same
  <2>3. j \in T(i) /\ \A m \in T(i) : j <= m
    <3> HIDE DEF T, j
    <3> QED  BY <2>1, <2>2, MinIsLeast
  <2>4. /\ j \in DOMAIN instructions /\ j \in Nat /\ j <= i /\ j >= 1
        /\ SameKey(instructions, i, instructions, j)
    BY <1>1, <2>3
  <2> HIDE DEF j
  <2>5. /\ Keyed(instructions[j]) /\ instructions[j].kind = instructions[i].kind
        /\ instructions[j].subject = instructions[i].subject
        /\ Ordinal(instructions, j) = Ordinal(instructions, i)
    BY <2>4 DEF SameKey, Keyed, Same
  <2>6. \A list, m : SameKey(instructions, j, list, m) <=> SameKey(instructions, i, list, m)
    BY <1>3, <2>5 DEF SameKey, Same
  <2>7. LogsFor(j) = LogsFor(i)
    <3>1. \A list : Occurrences(list, instructions[j]) = Occurrences(list, instructions[i])
      BY <2>5 DEF Occurrences, Same
    <3>2. Ambiguous(instructions[j]) <=> Ambiguous(instructions[i])
      BY <2>5, <3>1 DEF Ambiguous, Counted
    <3> QED  BY <2>6, <3>2 DEF LogsFor
  <2>8. StandsFor(j) = j
    <3>1. StandsFor(j) = Min(T(j))  BY <2>5 DEF StandsFor
    <3>2. T(j) \in SUBSET Nat /\ j \in T(j)  BY <2>4, <2>6
    <3>3. \A m \in T(j) : m \in T(i) /\ m <= j /\ m \in Nat  BY <1>1, <2>4, <2>6
    <3>4. \A m \in T(j) : m = j  BY <2>3, <2>4, <3>3
    <3> HIDE DEF T
    <3>5. Min(T(j)) \in T(j)  BY <3>2, MinIsLeast
    <3> QED  BY <3>1, <3>4, <3>5
  <2>9. LogsFor(i) = {} => j \in Alone  BY <2>4, <2>7, <2>8 DEF Alone
  <2>10. /\ j \in DOMAIN instructions /\ i \in Nat /\ j \in Nat /\ j <= i
         /\ IF Keyed(instructions[i]) THEN SameKey(instructions, i, instructions, j) ELSE j = i
         /\ LogsFor(i) = {} => j \in Alone
    BY <1>1, <1>3, <2>4, <2>9
  <2> QED  BY <2>10 DEF j
<1> QED  BY <1>2, <1>3

(* An event that is told, and the invocations it took in.                    *)
Output == [event : Event, took : SUBSET Nat]

LEMMA OutputTypes ==
  ASSUME ListInv
  PROVE  /\ \A l \in DOMAIN logs : FromLog(l) \in Output /\ FromLog(l).event = logs[l]
         /\ \A i \in DOMAIN instructions : /\ FromInstruction(i) \in Output
                                           /\ FromInstruction(i).event = instructions[i]
<1>1. \A j \in DOMAIN instructions : instructions[j].inv \in Nat  BY EventsAreOf
<1>2. ASSUME NEW l \in DOMAIN logs  PROVE FromLog(l) \in Output /\ FromLog(l).event = logs[l]
  <2> DEFINE took == {instructions[i].inv : i \in {j \in DOMAIN instructions : LogsFor(j) # {} /\ Max(LogsFor(j)) = l}}
  <2>1. took \in SUBSET Nat  BY <1>1
  <2>2. FromLog(l) = [event |-> logs[l], took |-> took]  BY DEF FromLog
  <2>3. logs[l] \in Event  BY EventsAreOf
  <2> HIDE DEF took
  <2> QED  BY <2>1, <2>2, <2>3 DEF Output
<1>3. ASSUME NEW i \in DOMAIN instructions
      PROVE  FromInstruction(i) \in Output /\ FromInstruction(i).event = instructions[i]
  <2> DEFINE took == {instructions[j].inv :
                        j \in {k \in i + 1 .. Len(instructions) : LogsFor(k) = {} /\ StandsFor(k) = i}}
  <2>1. Len(instructions) \in Nat /\ DOMAIN instructions = 1 .. Len(instructions)
    BY DEF ListInv, ListTypes
  <2>2. \A j \in i + 1 .. Len(instructions) : j \in DOMAIN instructions  BY <2>1
  <2>3. took \in SUBSET Nat  BY <1>1, <2>2
  <2>4. FromInstruction(i) = [event |-> instructions[i], took |-> took]  BY DEF FromInstruction
  <2>5. instructions[i] \in Event  BY EventsAreOf
  <2> HIDE DEF took
  <2> QED  BY <2>3, <2>4, <2>5 DEF Output
<1> QED  BY <1>2, <1>3

LEMMA Concatenated ==
  ASSUME NEW s \in Seq(Output), NEW t \in Seq(Output)
  PROVE  /\ s \o t \in Seq(Output) /\ Len(s \o t) = Len(s) + Len(t)
         /\ DOMAIN (s \o t) = 1 .. Len(s \o t)
         /\ \A n \in 1 .. Len(s) : (s \o t)[n] = s[n]
         /\ \A n \in 1 .. Len(t) : (s \o t)[Len(s) + n] = t[n]
  OBVIOUS

(* The joined list: the events of the logs, then those of Alone.             *)
LEMMA MatchedLists ==
  ASSUME ListInv
  PROVE  LET L == Len(Matched)
         IN  /\ L \in Nat /\ DOMAIN Matched = 1 .. L /\ Matched \in [1 .. L -> Output]
             /\ \A l \in DOMAIN logs : l \in 1 .. L /\ Matched[l] = FromLog(l)
             /\ \A i \in Alone : \E n \in 1 .. L : n \notin DOMAIN logs /\ Matched[n] = FromInstruction(i)
             /\ \A n \in 1 .. L : \/ n \in DOMAIN logs
                                  \/ \E i \in Alone : Matched[n] = FromInstruction(i)
             /\ \A m, n \in (1 .. L) \ DOMAIN logs : Matched[m].event = Matched[n].event => m = n
<1> DEFINE alone == Ascending(Alone)
           N == Len(logs)
           first == [l \in 1 .. N |-> FromLog(l)]
           K == Cardinality(Alone)
           second == [n \in 1 .. K |-> FromInstruction(alone[n])]
<1>1. N \in Nat /\ DOMAIN logs = 1 .. N /\ Len(instructions) \in Nat /\ DOMAIN instructions = 1 .. Len(instructions)
  BY DEF ListInv, ListTypes
<1>2. Alone \in SUBSET Nat /\ IsFiniteSet(Alone) /\ Alone \subseteq DOMAIN instructions
  <2>1. Alone \subseteq 1 .. Len(instructions)  BY <1>1 DEF Alone
  <2>2. IsFiniteSet(1 .. Len(instructions))  BY <1>1, FS_Interval
  <2>3. IsFiniteSet(Alone)  BY <2>1, <2>2, FS_Subset
  <2> QED  BY <1>1, <2>1, <2>3
<1>3. /\ K \in Nat /\ alone \in [1 .. K -> Alone] /\ Len(alone) = K
      /\ \A m, n \in 1 .. K : m < n => alone[m] < alone[n]
      /\ \A i \in Alone : \E n \in 1 .. K : alone[n] = i
  BY <1>2, AscendingLists
<1>4. Matched = first \o second
  BY <1>3 DEF Matched, Alone
<1>5. \A l \in 1 .. N : FromLog(l) \in Output  BY <1>1, OutputTypes
<1>6. \A n \in 1 .. K : FromInstruction(alone[n]) \in Output /\ FromInstruction(alone[n]).event = instructions[alone[n]]
  BY <1>2, <1>3, OutputTypes
<1>7. first \in Seq(Output) /\ Len(first) = N  BY <1>1, <1>5
<1>8. second \in Seq(Output) /\ Len(second) = K  BY <1>3, <1>6
<1>9. /\ \A l \in 1 .. N : first[l] = FromLog(l)
      /\ \A n \in 1 .. K : second[n] = FromInstruction(alone[n])
  OBVIOUS
<1> HIDE DEF first, second, alone, K, N
<1> DEFINE L == Len(Matched)
<1>10. /\ Matched \in Seq(Output) /\ L = N + K /\ L \in Nat /\ DOMAIN Matched = 1 .. L
       /\ \A l \in 1 .. N : Matched[l] = first[l]
       /\ \A n \in 1 .. K : Matched[N + n] = second[n]
  <2> DEFINE M == Matched
  <2>1. M = first \o second  BY <1>4
  <2> HIDE DEF M
  <2>2. /\ M \in Seq(Output) /\ Len(M) = Len(first) + Len(second) /\ DOMAIN M = 1 .. Len(M)
        /\ \A n \in 1 .. Len(first) : M[n] = first[n]
        /\ \A n \in 1 .. Len(second) : M[Len(first) + n] = second[n]
    BY <1>7, <1>8, <2>1, Concatenated
  <2> QED  BY <1>1, <1>3, <1>7, <1>8, <2>2 DEF M
<1> HIDE DEF L
<1>11. Matched \in [1 .. L -> Output]  BY <1>10
<1>12. \A l \in DOMAIN logs : l \in 1 .. L /\ Matched[l] = FromLog(l)
  BY <1>1, <1>3, <1>9, <1>10
<1>13. ASSUME NEW i \in Alone
       PROVE  \E n \in 1 .. L : n \notin DOMAIN logs /\ Matched[n] = FromInstruction(i)
  <2>1. PICK n \in 1 .. K : alone[n] = i  BY <1>3
  <2>2. N + n \in 1 .. L /\ N + n \notin DOMAIN logs  BY <1>1, <1>3, <1>10
  <2>3. Matched[N + n] = FromInstruction(i)  BY <1>9, <1>10, <2>1
  <2> QED  BY <2>2, <2>3
<1>14. ASSUME NEW n \in (1 .. L) \ DOMAIN logs
       PROVE  n - N \in 1 .. K /\ Matched[n] = FromInstruction(alone[n - N])
  <2>1. n - N \in 1 .. K /\ N + (n - N) = n  BY <1>1, <1>3, <1>10
  <2>2. Matched[N + (n - N)] = second[n - N]  BY <1>10, <2>1
  <2> QED  BY <1>9, <2>1, <2>2
<1>15. \A n \in 1 .. L : n \in DOMAIN logs \/ \E i \in Alone : Matched[n] = FromInstruction(i)
  BY <1>3, <1>14
<1>16. ASSUME NEW m \in (1 .. L) \ DOMAIN logs, NEW n \in (1 .. L) \ DOMAIN logs,
              Matched[m].event = Matched[n].event
       PROVE  m = n
  <2> DEFINE a == alone[m - N]
             b == alone[n - N]
  <2>1. a \in Alone /\ b \in Alone  BY <1>3, <1>14
  <2>2. instructions[a] = instructions[b]  BY <1>6, <1>14, <1>16
  <2>3. a \in DOMAIN instructions /\ b \in DOMAIN instructions /\ a \in Nat /\ b \in Nat  BY <1>2, <2>1
  <2>4. instructions[a].inv \in Nat /\ instructions[b].inv \in Nat  BY <2>3, EventsAreOf
  <2>5. ~ a < b /\ ~ b < a
    BY <2>2, <2>3, <2>4 DEF ListInv, InSequence, Ordered, Precedes
  <2>6. a = b  BY <2>3, <2>5
  <2>7. m - N \in 1 .. K /\ n - N \in 1 .. K  BY <1>14
  <2>8. ~ m - N < n - N /\ ~ n - N < m - N  BY <1>3, <2>3, <2>6, <2>7
  <2>9. m \in Nat /\ n \in Nat  BY <1>10
  <2> HIDE DEF a, b
  <2> QED  BY <1>1, <2>8, <2>9
<1> QED  BY <1>10, <1>11, <1>12, <1>13, <1>15, <1>16 DEF L

-----------------------------------------------------------------------------
(* Creations go first                                                        *)

(* Counting from 0 to L, one comes past everything. *)
LEMMA Counting ==
  ASSUME NEW L \in Nat, NEW T, 0 \in T, \A n \in 1..L : n - 1 \in T => n \in T
  PROVE  \A n \in 0..L : n \in T
<1> DEFINE U == {n \in Nat : n <= L /\ n \notin T}
<1>1. SUFFICES ASSUME U # {} PROVE FALSE
  OBVIOUS
<1>2. IsWellFoundedOn(OpToRel(<, Nat), Nat)
  BY NatLessThanWellFounded
<1>3. PICK n \in U : \A m \in U : <<m, n>> \notin OpToRel(<, Nat)
  BY <1>1, <1>2, WFMin
<1>4. n # 0 /\ n - 1 \in Nat /\ n - 1 < n /\ n \in 1..L
  OBVIOUS
<1>5. n - 1 \notin U
  BY <1>3, <1>4 DEF OpToRel
<1> QED
  BY <1>4, <1>5

(* L steps that never leave S. *)
Stays(S, L, step) == \A n \in 1..L : \A x \in S : step[n][x] \in S

(* Steps that stay in a set can be taken one after another. *)
LEMMA Stepwise ==
  ASSUME NEW S, NEW c \in S, NEW L \in Nat, NEW step, Stays(S, L, step)
  PROVE  \E f \in [0..L -> S] : f[0] = c /\ \A n \in 1..L : f[n] = step[n][f[n - 1]]
<1> DEFINE Taken(m, f) == f[0] = c /\ \A n \in 1..m : f[n] = step[n][f[n - 1]]
           T == {m \in 0..L : \E f \in [0..m -> S] : Taken(m, f)}
<1>1. 0 \in T
  <2> DEFINE f == [n \in 0..0 |-> c]
  <2>1. f \in [0..0 -> S] /\ f[0] = c /\ 0 \in 0..L /\ 1..0 = {}
    OBVIOUS
  <2> HIDE DEF f
  <2> QED
    BY <2>1
<1>2. ASSUME NEW m \in 1..L, m - 1 \in T PROVE m \in T
  <2>1. PICK f \in [0..(m - 1) -> S] : Taken(m - 1, f)
    BY <1>2
  <2> DEFINE g == [n \in 0..m |-> IF n = m THEN step[m][f[m - 1]] ELSE f[n]]
  <2>2. m \in Nat /\ m - 1 \in 0..(m - 1) /\ m # 0
    OBVIOUS
  <2>3. step[m][f[m - 1]] \in S
    BY <2>1, <2>2 DEF Stays
  <2>4. g \in [0..m -> S]
    BY <2>1, <2>2, <2>3
  <2>5. g[0] = c
    BY <2>1, <2>2
  <2>6. ASSUME NEW n \in 1..m PROVE g[n] = step[n][g[n - 1]]
    <3>1. n - 1 \in 0..m /\ n - 1 # m /\ g[n - 1] = f[n - 1]
      BY <2>2
    <3>2. CASE n = m
      BY <3>1, <3>2
    <3>3. CASE n # m
      <4>1. n \in 1..(m - 1) /\ g[n] = f[n]
        BY <3>3, <2>2
      <4> QED
        BY <4>1, <3>1, <2>1
    <3> QED
      BY <3>2, <3>3
  <2> HIDE DEF g
  <2> QED
    BY <2>4, <2>5, <2>6
<1> HIDE DEF T
<1>3. \A n \in 0..L : n \in T
  BY <1>1, <1>2, Counting
<1>4. L \in T
  BY <1>3
<1> QED
  BY <1>4 DEF T

(* Where the n-th element comes from, when the i-th is moved to p.           *)
From(n, i, p) == IF n < p \/ n > i THEN n ELSE IF n = p THEN i ELSE n - 1

(* Each from its own place, and only the moved one passes others.            *)
LEMMA FromPlaces ==
  ASSUME NEW L \in Nat, NEW i \in 1 .. L, NEW p \in 1 .. i - 1
  PROVE  /\ \A n \in 1 .. L : From(n, i, p) \in 1 .. L
         /\ \A m, n \in 1 .. L : From(m, i, p) = From(n, i, p) => m = n
         /\ \A m \in 1 .. L : \E n \in 1 .. L : From(n, i, p) = m
         /\ \A m, n \in 1 .. L : m < n /\ From(m, i, p) # i /\ From(n, i, p) # i =>
                                   From(m, i, p) < From(n, i, p)
         /\ \A n \in 1 .. L : /\ n <= i => From(n, i, p) <= i
                              /\ From(n, i, p) = i => n = p
                              /\ n < p => From(n, i, p) = n
<1>1. \A n \in 1 .. L : From(n, i, p) \in 1 .. L  BY DEF From
<1>2. \A m, n \in 1 .. L : From(m, i, p) = From(n, i, p) => m = n  BY DEF From
<1>3. ASSUME NEW m \in 1 .. L  PROVE \E n \in 1 .. L : From(n, i, p) = m
  <2>1. CASE m < p \/ m > i
    <3>1. From(m, i, p) = m  BY <2>1 DEF From
    <3> QED  BY <3>1
  <2>2. CASE m = i
    <3>1. From(p, i, p) = m /\ p \in 1 .. L  BY <2>2 DEF From
    <3> QED  BY <3>1
  <2>3. CASE m >= p /\ m < i
    <3>1. m + 1 \in 1 .. L /\ From(m + 1, i, p) = m  BY <2>3 DEF From
    <3> QED  BY <3>1
  <2> QED  BY <2>1, <2>2, <2>3
<1>4. \A m, n \in 1 .. L : m < n /\ From(m, i, p) # i /\ From(n, i, p) # i =>
                             From(m, i, p) < From(n, i, p)
  BY DEF From
<1>5. \A n \in 1 .. L : /\ n <= i => From(n, i, p) <= i
                        /\ From(n, i, p) = i => n = p
                        /\ n < p => From(n, i, p) = n
  BY DEF From
<1> QED  BY <1>1, <1>2, <1>3, <1>4, <1>5

(* x has the elements of out, where "at" says; but for creations they are in *)
(* the same order.                                                           *)
Rearranges(L, out, x, at) ==
  /\ at \in [1 .. L -> 1 .. L]
  /\ \A a, b \in 1 .. L : at[a] = at[b] => a = b
  /\ \A b \in 1 .. L : \E a \in 1 .. L : at[a] = b
  /\ \A a \in 1 .. L : x[a] = out[at[a]]
  /\ \A a, b \in 1 .. L : a < b /\ x[a].event.kind # "create" /\ x[b].event.kind # "create" => at[a] < at[b]

TradeBeforeCreate(d, e) == d.kind = "trade" /\ e.kind = "create" /\ d.subject = e.subject

(* Up to the n-th, no creation comes after a trade of its mint.              *)
Arranged(L, out, x, n) ==
  /\ \E at : Rearranges(L, out, x, at)
  /\ \A a, b \in 1 .. n : a < b => ~ TradeBeforeCreate(x[a].event, x[b].event)

(* F says where each comes from when the i-th is moved to p.                  *)
Shifts(L, i, p, F) ==
  /\ \A a \in 1 .. L : F[a] \in 1 .. L
  /\ \A a, b \in 1 .. L : F[a] = F[b] => a = b
  /\ \A b \in 1 .. L : \E a \in 1 .. L : F[a] = b
  /\ \A a, b \in 1 .. L : a < b /\ F[a] # i /\ F[b] # i => F[a] < F[b]
  /\ \A a \in 1 .. L : a <= i => F[a] <= i
  /\ \A a \in 1 .. L : F[a] = i => a = p
  /\ \A a \in 1 .. L : a < p => F[a] = a

LEMMA MovedShifts ==
  ASSUME NEW L \in Nat, NEW i \in 1 .. L, NEW p \in 1 .. i - 1, NEW x \in [1 .. L -> Output]
  PROVE  /\ Moved(x, i, p) \in [1 .. L -> Output]
         /\ \E F : Shifts(L, i, p, F) /\ \A a \in 1 .. L : Moved(x, i, p)[a] = x[F[a]]
<1> DEFINE F == [a \in 1 .. L |-> From(a, i, p)]
           y == Moved(x, i, p)
<1>1. \A a \in 1 .. L : F[a] = From(a, i, p)  OBVIOUS
<1>2. DOMAIN x = 1 .. L  OBVIOUS
<1>3. y = [a \in 1 .. L |-> x[From(a, i, p)]]  BY <1>2 DEF Moved, From
<1> HIDE DEF F, y
<1>4. \A a \in 1 .. L : y[a] = x[F[a]]  BY <1>1, <1>3
<1>5. \A a \in 1 .. L : From(a, i, p) \in 1 .. L  BY FromPlaces
<1>6. y \in [1 .. L -> Output]  BY <1>3, <1>5
<1>7. \A a \in 1 .. L : F[a] \in 1 .. L  BY <1>1, <1>5
<1>8. \A a, b \in 1 .. L : From(a, i, p) = From(b, i, p) => a = b  BY FromPlaces
<1>9. \A a, b \in 1 .. L : F[a] = F[b] => a = b  BY <1>1, <1>8
<1>10. \A b \in 1 .. L : \E a \in 1 .. L : From(a, i, p) = b  BY FromPlaces
<1>11. \A b \in 1 .. L : \E a \in 1 .. L : F[a] = b  BY <1>1, <1>10
<1>12. \A a, b \in 1 .. L : a < b /\ From(a, i, p) # i /\ From(b, i, p) # i => From(a, i, p) < From(b, i, p)
  BY FromPlaces
<1>13. \A a, b \in 1 .. L : a < b /\ F[a] # i /\ F[b] # i => F[a] < F[b]  BY <1>1, <1>12
<1>14. \A a \in 1 .. L : a <= i => From(a, i, p) <= i  BY FromPlaces
<1>15. \A a \in 1 .. L : From(a, i, p) = i => a = p  BY FromPlaces
<1>16. \A a \in 1 .. L : a < p => From(a, i, p) = a  BY FromPlaces
<1>17. \A a \in 1 .. L : a <= i => F[a] <= i  BY <1>1, <1>14
<1>18. \A a \in 1 .. L : F[a] = i => a = p  BY <1>1, <1>15
<1>19. \A a \in 1 .. L : a < p => F[a] = a  BY <1>1, <1>16
<1>20. Shifts(L, i, p, F)  BY <1>7, <1>9, <1>11, <1>13, <1>17, <1>18, <1>19 DEF Shifts
<1> QED  BY <1>4, <1>6, <1>20 DEF y

(* A creation that is moved leaves the others in order.                      *)
LEMMA ShiftRearranges ==
  ASSUME NEW L \in Nat, NEW out, NEW x, NEW y, NEW i \in 1 .. L, NEW p, NEW F, NEW at,
         x[i].event.kind = "create", Shifts(L, i, p, F), Rearranges(L, out, x, at),
         \A a \in 1 .. L : y[a] = x[F[a]]
  PROVE  \E to : Rearranges(L, out, y, to)
<1> DEFINE to == [a \in 1 .. L |-> at[F[a]]]
<1>1. \A a \in 1 .. L : F[a] \in 1 .. L  BY DEF Shifts
<1>2. at \in [1 .. L -> 1 .. L]  BY DEF Rearranges
<1>3. to \in [1 .. L -> 1 .. L]  BY <1>1, <1>2
<1>4. \A a \in 1 .. L : to[a] = at[F[a]]  OBVIOUS
<1> HIDE DEF to
<1>5. ASSUME NEW a \in 1 .. L, NEW b \in 1 .. L, to[a] = to[b]  PROVE a = b
  <2>1. F[a] \in 1 .. L /\ F[b] \in 1 .. L /\ at[F[a]] = at[F[b]]  BY <1>1, <1>4, <1>5
  <2>2. \A c, d \in 1 .. L : at[c] = at[d] => c = d  BY DEF Rearranges
  <2>3. F[a] = F[b]  BY <2>1, <2>2, Zenon
  <2> QED  BY <2>3 DEF Shifts
<1>6. ASSUME NEW b \in 1 .. L  PROVE \E a \in 1 .. L : to[a] = b
  <2>1. PICK c \in 1 .. L : at[c] = b  BY DEF Rearranges
  <2>2. PICK a \in 1 .. L : F[a] = c  BY DEF Shifts
  <2> QED  BY <1>4, <2>1, <2>2
<1>7. ASSUME NEW a \in 1 .. L  PROVE y[a] = out[to[a]]
  <2>1. F[a] \in 1 .. L /\ to[a] = at[F[a]] /\ y[a] = x[F[a]]  BY <1>1, <1>4
  <2>2. x[F[a]] = out[at[F[a]]]  BY <2>1 DEF Rearranges
  <2> QED  BY <2>1, <2>2
<1>8. ASSUME NEW a \in 1 .. L, NEW b \in 1 .. L, a < b,
             y[a].event.kind # "create", y[b].event.kind # "create"
      PROVE  to[a] < to[b]
  <2>1. /\ F[a] \in 1 .. L /\ F[b] \in 1 .. L /\ to[a] = at[F[a]] /\ to[b] = at[F[b]]
        /\ y[a] = x[F[a]] /\ y[b] = x[F[b]]
    BY <1>1, <1>4
  <2>2. F[a] # i /\ F[b] # i  BY <1>8, <2>1
  <2>3. F[a] < F[b]  BY <1>8, <2>2 DEF Shifts
  <2>4. at[F[a]] < at[F[b]]  BY <1>8, <2>1, <2>3 DEF Rearranges
  <2> QED  BY <2>1, <2>4
<1>9. Rearranges(L, out, y, to)  BY <1>3, <1>5, <1>6, <1>7, <1>8 DEF Rearranges
<1> QED  BY <1>9

LEMMA MoveArranges ==
  ASSUME NEW L \in Nat, NEW out, NEW x \in [1 .. L -> Output], NEW n \in 1 .. L,
         Arranged(L, out, x, n - 1)
  PROVE  /\ MoveCreate(x, n) \in [1 .. L -> Output]
         /\ Arranged(L, out, MoveCreate(x, n), n)
<1> DEFINE E == EarlierTrades(x, n)
<1>1. E = {j \in 1 .. n - 1 : x[j].event.kind = "trade" /\ x[j].event.subject = x[n].event.subject}
  BY DEF EarlierTrades
<1> HIDE DEF E
<1>2. CASE x[n].event.kind # "create" \/ E = {}
  <2>1. MoveCreate(x, n) = x  BY <1>2 DEF MoveCreate, E
  <2>2. ASSUME NEW a \in 1 .. n, NEW b \in 1 .. n, a < b
        PROVE  ~ TradeBeforeCreate(x[a].event, x[b].event)
    <3>1. CASE b = n
      <4>1. a \in 1 .. n - 1  BY <2>2, <3>1
      <4> QED  BY <1>1, <1>2, <3>1, <4>1 DEF TradeBeforeCreate
    <3>2. CASE b # n
      <4>1. a \in 1 .. n - 1 /\ b \in 1 .. n - 1  BY <2>2, <3>2
      <4> QED  BY <2>2, <4>1 DEF Arranged
    <3> QED  BY <3>1, <3>2
  <2>3. \E at : Rearranges(L, out, x, at)  BY DEF Arranged
  <2>4. Arranged(L, out, x, n)  BY <2>2, <2>3 DEF Arranged
  <2> QED  BY <2>1, <2>4
<1>3. CASE x[n].event.kind = "create" /\ E # {}
  <2> DEFINE p == Min(E)
             y == Moved(x, n, p)
  <2>1. E \in SUBSET Nat  BY <1>1
  <2>2. p \in E /\ \A a \in E : p <= a  BY <1>3, <2>1, MinIsLeast
  <2>3. MoveCreate(x, n) = y  BY <1>3 DEF MoveCreate, E
  <2> HIDE DEF p
  <2>4. p \in 1 .. n - 1  BY <1>1, <2>2
  <2>5. y \in [1 .. L -> Output]  BY <2>4, MovedShifts
  <2>6. PICK F : Shifts(L, n, p, F) /\ \A a \in 1 .. L : y[a] = x[F[a]]  BY <2>4, MovedShifts
  <2> HIDE DEF y
  <2>7. \E at : Rearranges(L, out, y, at)
    <3>1. PICK at : Rearranges(L, out, x, at)  BY DEF Arranged
    <3> QED  BY <1>3, <2>6, <3>1, ShiftRearranges
  <2>8. ASSUME NEW a \in 1 .. n, NEW b \in 1 .. n, a < b
        PROVE  ~ TradeBeforeCreate(y[a].event, y[b].event)
    <3>1. a \in 1 .. L /\ b \in 1 .. L /\ a <= n /\ b <= n  OBVIOUS
    <3>2. y[a] = x[F[a]] /\ y[b] = x[F[b]]  BY <2>6, <3>1
    <3>3. F[a] \in 1 .. L /\ F[b] \in 1 .. L /\ F[a] <= n /\ F[b] <= n  BY <2>6, <3>1 DEF Shifts
    <3>4. CASE F[a] = n
      BY <1>3, <3>2, <3>4 DEF TradeBeforeCreate
    <3>5. CASE F[b] = n
      <4>1. b = p  BY <2>6, <3>1, <3>5 DEF Shifts
      <4>2. a < p  BY <2>8, <4>1
      <4>3. F[a] = a  BY <2>6, <3>1, <4>2 DEF Shifts
      <4>4. a \in 1 .. n - 1 /\ a \notin E  BY <2>2, <2>4, <4>2
      <4> QED  BY <1>1, <3>2, <3>5, <4>3, <4>4 DEF TradeBeforeCreate
    <3>6. CASE F[a] # n /\ F[b] # n
      <4>1. F[a] < F[b]  BY <2>6, <2>8, <3>1, <3>6 DEF Shifts
      <4>2. F[a] \in 1 .. n - 1 /\ F[b] \in 1 .. n - 1  BY <3>3, <3>6
      <4> QED  BY <3>2, <4>1, <4>2 DEF Arranged
    <3> QED  BY <3>4, <3>5, <3>6
  <2>9. Arranged(L, out, y, n)  BY <2>7, <2>8 DEF Arranged
  <2> QED  BY <2>3, <2>5, <2>9
<1> QED  BY <1>2, <1>3

(* All creations are in their place when each was moved once.                *)
LEMMA CreatesArranged ==
  ASSUME NEW L \in Nat, NEW out \in [1 .. L -> Output]
  PROVE  /\ CreatesFirst(out) \in [1 .. L -> Output]
         /\ Arranged(L, out, CreatesFirst(out), L)
<1> DEFINE S(n) == {x \in [1 .. L -> Output] : Arranged(L, out, x, n)}
           All == [1 .. L -> Output]
           step == [n \in 1 .. L |-> [x \in All |-> IF x \in S(n - 1) THEN MoveCreate(x, n) ELSE x]]
           d == CHOOSE d : d = [n \in 0 .. L |-> IF n = 0 THEN out ELSE MoveCreate(d[n - 1], n)]
<1>1. \A n \in 1 .. L : \A x \in S(n - 1) : MoveCreate(x, n) \in S(n)
  BY MoveArranges
<1>2. \A n \in 1 .. L : \A x \in All : step[n][x] = IF x \in S(n - 1) THEN MoveCreate(x, n) ELSE x
  OBVIOUS
<1>3. \A n : S(n) \subseteq All
  OBVIOUS
<1>4. out \in S(0) /\ out \in All
  <2> DEFINE at == [a \in 1 .. L |-> a]
  <2>1. at \in [1 .. L -> 1 .. L] /\ \A a \in 1 .. L : at[a] = a  OBVIOUS
  <2> HIDE DEF at
  <2>2. Rearranges(L, out, out, at)  BY <2>1 DEF Rearranges
  <2>3. 1 .. 0 = {}  OBVIOUS
  <2> QED  BY <2>2, <2>3 DEF Arranged
<1>5. Len(out) = L  OBVIOUS
<1>6. CreatesFirst(out) = d[L]  BY <1>5 DEF CreatesFirst
<1> HIDE DEF S, All, step
<1>7. Stays(All, L, step)
  <2>1. \A n \in 1 .. L : \A x \in All : step[n][x] \in All  BY <1>1, <1>2, <1>3
  <2> QED  BY <2>1 DEF Stays
<1>8. PICK f \in [0 .. L -> All] : f[0] = out /\ \A n \in 1 .. L : f[n] = step[n][f[n - 1]]
  BY <1>4, <1>7, Stepwise
<1>9. \A n \in 0 .. L : f[n] \in S(n)
  <2> DEFINE T == {n \in 0 .. L : f[n] \in S(n)}
  <2>1. 0 \in T  BY <1>4, <1>8
  <2>2. ASSUME NEW n \in 1 .. L, n - 1 \in T  PROVE n \in T
    <3>1. n - 1 \in 0 .. L /\ n \in 0 .. L /\ f[n - 1] \in S(n - 1)  BY <2>2
    <3> QED  BY <1>1, <1>2, <1>3, <1>8, <3>1
  <2> HIDE DEF T
  <2>3. \A n \in 0 .. L : n \in T  BY <2>1, <2>2, Counting
  <2> QED  BY <2>3 DEF T
<1>10. f = [n \in 0 .. L |-> IF n = 0 THEN out ELSE MoveCreate(f[n - 1], n)]
  <2>1. ASSUME NEW n \in 0 .. L, n # 0  PROVE f[n] = MoveCreate(f[n - 1], n)
    <3>1. n \in 1 .. L /\ n - 1 \in 0 .. L  BY <2>1
    <3>2. f[n - 1] \in S(n - 1) /\ f[n - 1] \in All  BY <1>3, <1>9, <3>1
    <3> QED  BY <1>2, <1>8, <3>1, <3>2
  <2> QED  BY <1>8, <2>1
<1>11. d = [n \in 0 .. L |-> IF n = 0 THEN out ELSE MoveCreate(d[n - 1], n)]
  BY <1>10
<1> HIDE DEF d
<1>12. \A n \in 0 .. L : d[n] = f[n]
  <2> DEFINE T == {n \in 0 .. L : d[n] = f[n]}
  <2>1. 0 \in T  BY <1>8, <1>11
  <2>2. ASSUME NEW n \in 1 .. L, n - 1 \in T  PROVE n \in T
    <3>1. n \in 0 .. L /\ n # 0 /\ n - 1 \in 0 .. L  OBVIOUS
    <3>2. d[n] = MoveCreate(d[n - 1], n) /\ f[n] = MoveCreate(f[n - 1], n)  BY <1>10, <1>11, <3>1
    <3> QED  BY <2>2, <3>1, <3>2
  <2> HIDE DEF T
  <2>3. \A n \in 0 .. L : n \in T  BY <2>1, <2>2, Counting
  <2> QED  BY <2>3 DEF T
<1>13. d[L] \in S(L)
  <2>1. L \in 0 .. L  OBVIOUS
  <2> QED  BY <1>9, <1>12, <2>1
<1> QED  BY <1>6, <1>13 DEF S

-----------------------------------------------------------------------------
(* DBC swaps                                                                 *)

VersionsAt(out, s, source) ==
  {n \in DOMAIN out : /\ out[n].event.kind = "dbc"
                      /\ out[n].event.subject = s
                      /\ out[n].event.source = source}

DroppedAt(out, n)  == Paired(out, n) /\ out[n].event.source = "current"
ReplacedAt(out, n) == Paired(out, n) /\ out[n].event.source = "old"

LEMMA VersionsAscend ==
  ASSUME NEW L \in Nat, NEW out \in [1 .. L -> Output], NEW s, NEW source
  PROVE  LET S == VersionsAt(out, s, source)
             f == Versions(out, s, source)
         IN  /\ S \in SUBSET (1 .. L) /\ S \in SUBSET Nat /\ IsFiniteSet(S)
             /\ Cardinality(S) \in Nat /\ Len(f) = Cardinality(S)
             /\ f \in [1 .. Len(f) -> S]
             /\ \A m, n \in 1 .. Len(f) : f[m] = f[n] => m = n
             /\ \A i \in S : \E n \in 1 .. Len(f) : f[n] = i
<1> DEFINE S == VersionsAt(out, s, source)
           f == Versions(out, s, source)
<1>1. f = Ascending(S)  BY DEF Versions, VersionsAt
<1>2. S \subseteq 1 .. L  BY DEF VersionsAt
<1>3. IsFiniteSet(1 .. L)  BY FS_Interval
<1> HIDE DEF S, f
<1>4. S \in SUBSET Nat /\ IsFiniteSet(S)
  <2>1. IsFiniteSet(S)  BY <1>2, <1>3, FS_Subset
  <2>2. \A n \in 1 .. L : n \in Nat  OBVIOUS
  <2> QED  BY <1>2, <2>1, <2>2
<1>5. /\ Cardinality(S) \in Nat /\ f \in [1 .. Cardinality(S) -> S] /\ Len(f) = Cardinality(S)
      /\ \A m, n \in 1 .. Cardinality(S) : m < n => f[m] < f[n]
      /\ \A i \in S : \E n \in 1 .. Cardinality(S) : f[n] = i
  BY <1>1, <1>4, AscendingLists
<1>6. ASSUME NEW m \in 1 .. Cardinality(S), NEW n \in 1 .. Cardinality(S), f[m] = f[n]
      PROVE  m = n
  <2>1. f[m] \in Nat /\ f[n] \in Nat  BY <1>4, <1>5
  <2>2. ~ m < n /\ ~ n < m  BY <1>5, <1>6, <2>1
  <2> QED  BY <1>5, <2>2
<1> QED  BY <1>2, <1>4, <1>5, <1>6 DEF S, f

(* Each old event has a current one of its pool, and each its own.           *)
LEMMA CurrentsReplace ==
  ASSUME NEW L \in Nat, NEW out \in [1 .. L -> Output]
  PROVE  /\ \A n \in 1 .. L : ReplacedAt(out, n) =>
              CurrentOf(out, n) \in VersionsAt(out, out[n].event.subject, "current")
         /\ \A m, n \in 1 .. L :
              ReplacedAt(out, m) /\ ReplacedAt(out, n) /\ CurrentOf(out, m) = CurrentOf(out, n) => m = n
         /\ \A c \in 1 .. L : DroppedAt(out, c) => \E n \in 1 .. L : ReplacedAt(out, n) /\ CurrentOf(out, n) = c
<1> DEFINE s(n) == out[n].event.subject
           old(t) == Versions(out, t, "old")
           current(t) == Versions(out, t, "current")
           Place(n) == CHOOSE k \in 1 .. Len(old(s(n))) : old(s(n))[k] = n
<1>1. DOMAIN out = 1 .. L  BY Zenon
<1>2. ASSUME NEW n \in 1 .. L, ReplacedAt(out, n)
      PROVE  /\ Place(n) \in 1 .. Len(old(s(n))) /\ old(s(n))[Place(n)] = n
             /\ Place(n) \in 1 .. Len(current(s(n)))
             /\ CurrentOf(out, n) = current(s(n))[Place(n)]
             /\ CurrentOf(out, n) \in VersionsAt(out, s(n), "current")
  <2>1. n \in VersionsAt(out, s(n), "old")  BY <1>1, <1>2 DEF ReplacedAt, Paired, VersionsAt
  <2>2. \E k \in 1 .. Len(old(s(n))) : old(s(n))[k] = n  BY <2>1, VersionsAscend
  <2>3. Place(n) \in 1 .. Len(old(s(n))) /\ old(s(n))[Place(n)] = n  BY <2>2
  <2>4. Len(old(s(n))) = Len(current(s(n)))  BY <1>2 DEF ReplacedAt, Paired
  <2>5. CurrentOf(out, n) = current(s(n))[Place(n)]  BY DEF CurrentOf
  <2> DEFINE p == Place(n)
             f == current(s(n))
             S == VersionsAt(out, s(n), "current")
  <2>6. f \in [1 .. Len(f) -> S]  BY VersionsAscend
  <2>7. p \in 1 .. Len(f)  BY <2>3, <2>4
  <2> HIDE DEF p, f, S
  <2>8. f[p] \in S  BY <2>6, <2>7
  <2> QED  BY <2>3, <2>5, <2>7, <2>8, Zenon DEF p, f, S
<1>3. ASSUME NEW m \in 1 .. L, NEW n \in 1 .. L, ReplacedAt(out, m), ReplacedAt(out, n),
             CurrentOf(out, m) = CurrentOf(out, n)
      PROVE  m = n
  <2> DEFINE c == CurrentOf(out, m)
             f == current(s(m))
             p == Place(m)
             q == Place(n)
  <2>1. c \in VersionsAt(out, s(m), "current") /\ c \in VersionsAt(out, s(n), "current")  BY <1>2, <1>3
  <2>2. s(m) = s(n)  BY <2>1 DEF VersionsAt
  <2>3. /\ p \in 1 .. Len(f) /\ q \in 1 .. Len(f) /\ f[p] = f[q]
        /\ old(s(m))[p] = m /\ old(s(m))[q] = n
    BY <1>2, <1>3, <2>2, SMTT(30)
  <2>4. \A i, j \in 1 .. Len(f) : f[i] = f[j] => i = j  BY VersionsAscend
  <2> HIDE DEF p, q, f
  <2>5. p = q  BY <2>3, <2>4
  <2> QED  BY <2>3, <2>5
<1>4. ASSUME NEW c \in 1 .. L, DroppedAt(out, c)
      PROVE  \E n \in 1 .. L : ReplacedAt(out, n) /\ CurrentOf(out, n) = c
  <2> DEFINE t == s(c)
             f == current(t)
             g == old(t)
  <2>1. c \in VersionsAt(out, t, "current")  BY <1>1, <1>4 DEF DroppedAt, Paired, VersionsAt
  <2>2. PICK k \in 1 .. Len(f) : f[k] = c  BY <2>1, VersionsAscend
  <2>3. Len(g) = Len(f)  BY <1>4 DEF DroppedAt, Paired
  <2>4. k \in 1 .. Len(g)  BY <2>2, <2>3
  <2>5. g \in [1 .. Len(g) -> VersionsAt(out, t, "old")]  BY VersionsAscend
  <2> DEFINE n == g[k]
  <2>6. n \in VersionsAt(out, t, "old")
    <3> DEFINE S == VersionsAt(out, t, "old")
    <3> HIDE DEF S, g
    <3> QED  BY <2>4, <2>5
  <2>7. n \in 1 .. L /\ s(n) = t /\ out[n].event.kind = "dbc" /\ out[n].event.source = "old"
    <3> HIDE DEF n
    <3> QED  BY <1>1, <2>6 DEF VersionsAt
  <2> HIDE DEF n
  <2>8. ReplacedAt(out, n)  BY <2>3, <2>7 DEF ReplacedAt, Paired
  <2>9. Place(n) \in 1 .. Len(g) /\ g[Place(n)] = n /\ CurrentOf(out, n) = f[Place(n)]
    BY <1>2, <2>7, <2>8
  <2>10. \A i, j \in 1 .. Len(g) : g[i] = g[j] => i = j  BY VersionsAscend
  <2>11. g[k] = n  BY DEF n
  <2> DEFINE p == Place(n)
  <2> HIDE DEF g, f, p
  <2>12. p = k  BY <2>4, <2>9, <2>10, <2>11 DEF p
  <2> QED  BY <2>2, <2>7, <2>8, <2>9, <2>12 DEF p
<1> QED  BY <1>2, <1>3, <1>4

(* kept says where the events come from that are told.                       *)
Prefers(L, N, out, told, kept) ==
  /\ kept \in [1 .. N -> 1 .. L]
  /\ \A m, n \in 1 .. N : m < n => kept[m] < kept[n]
  /\ \A m \in 1 .. N : ~ DroppedAt(out, kept[m])
  /\ \A n \in 1 .. L : ~ DroppedAt(out, n) => \E m \in 1 .. N : kept[m] = n
  /\ \A m \in 1 .. N : ReplacedAt(out, kept[m]) => told[m] = out[CurrentOf(out, kept[m])]
  /\ \A m \in 1 .. N : ~ ReplacedAt(out, kept[m]) => told[m] = out[kept[m]]

LEMMA PreferCurrentKeeps ==
  ASSUME NEW L \in Nat, NEW out \in [1 .. L -> Output]
  PROVE  LET told == PreferCurrent(out)
         IN  /\ Len(told) \in Nat /\ DOMAIN told = 1 .. Len(told)
             /\ \E kept : Prefers(L, Len(told), out, told, kept)
<1> DEFINE K == {n \in 1 .. L : ~ DroppedAt(out, n)}
           kept == Ascending(K)
           N == Cardinality(K)
           told == PreferCurrent(out)
<1>1. DOMAIN out = 1 .. L  OBVIOUS
<1>2. K \in SUBSET Nat /\ IsFiniteSet(K) /\ K \subseteq 1 .. L
  <2>1. IsFiniteSet(1 .. L)  BY FS_Interval
  <2>2. K \subseteq 1 .. L  OBVIOUS
  <2> HIDE DEF K
  <2>3. IsFiniteSet(K)  BY <2>1, <2>2, FS_Subset
  <2>4. \A n \in 1 .. L : n \in Nat  OBVIOUS
  <2> QED  BY <2>2, <2>3, <2>4
<1>3. /\ N \in Nat /\ kept \in [1 .. N -> K] /\ DOMAIN kept = 1 .. N
      /\ \A m, n \in 1 .. N : m < n => kept[m] < kept[n]
      /\ \A i \in K : \E n \in 1 .. N : kept[n] = i
  <2> HIDE DEF K
  <2> QED  BY <1>2, AscendingLists
<1>4. K = {n \in DOMAIN out : ~ (Paired(out, n) /\ out[n].event.source = "current")}
  BY <1>1 DEF DroppedAt
<1>5. told = [m \in DOMAIN kept |-> IF ReplacedAt(out, kept[m]) THEN out[CurrentOf(out, kept[m])] ELSE out[kept[m]]]
  <2> HIDE DEF K
  <2> QED  BY <1>4 DEF PreferCurrent, ReplacedAt
<1>6. \A n \in 1 .. L : n \in K <=> ~ DroppedAt(out, n)  OBVIOUS
<1> HIDE DEF K, kept, N, told
<1>7. \A m \in 1 .. N : told[m] = IF ReplacedAt(out, kept[m]) THEN out[CurrentOf(out, kept[m])] ELSE out[kept[m]]
  BY <1>3, <1>5
<1>8. DOMAIN told = 1 .. N /\ Len(told) = N  BY <1>3, <1>5
<1>9. Prefers(L, N, out, told, kept)
  <2>1. kept \in [1 .. N -> 1 .. L]  BY <1>2, <1>3
  <2>2. \A m \in 1 .. N : ~ DroppedAt(out, kept[m])  BY <1>3, <1>6, <2>1
  <2>3. \A n \in 1 .. L : ~ DroppedAt(out, n) => \E m \in 1 .. N : kept[m] = n  BY <1>3, <1>6
  <2> QED  BY <1>3, <1>7, <2>1, <2>2, <2>3 DEF Prefers
<1> QED  BY <1>3, <1>8, <1>9 DEF told

-----------------------------------------------------------------------------
(* What is told comes from the joined list                                   *)

(* DBC swaps are in the joined list as in the instructions.                  *)
LEMMA SwapsAreAlone ==
  ASSUME ListInv, NEW j \in DOMAIN instructions, ~ Keyed(instructions[j])
  PROVE  j \in Alone
<1>1. LogsFor(j) = {}  BY DEF LogsFor, SameKey
<1> QED  BY <1>1 DEF Alone, StandsFor

(* An element of the joined list shows an event of one of the two lists.     *)
LEMMA MatchedEvents ==
  ASSUME ListInv
  PROVE  /\ \A a \in 1 .. Len(Matched) :
              \/ a \in DOMAIN logs /\ Matched[a].event = logs[a]
              \/ a \notin DOMAIN logs /\ \E i \in Alone : /\ Matched[a] = FromInstruction(i)
                                                          /\ Matched[a].event = instructions[i]
         /\ Alone \subseteq DOMAIN instructions
<1>1. Alone \subseteq DOMAIN instructions  BY DEF Alone
<1>2. ASSUME NEW a \in 1 .. Len(Matched)
      PROVE  \/ a \in DOMAIN logs /\ Matched[a].event = logs[a]
             \/ a \notin DOMAIN logs /\ \E i \in Alone : /\ Matched[a] = FromInstruction(i)
                                                         /\ Matched[a].event = instructions[i]
  <2>1. CASE a \in DOMAIN logs
    <3>1. Matched[a] = FromLog(a)  BY <2>1, MatchedLists
    <3> QED  BY <2>1, <3>1, OutputTypes
  <2>2. CASE a \notin DOMAIN logs
    <3>1. PICK i \in Alone : Matched[a] = FromInstruction(i)  BY <2>2, MatchedLists
    <3> QED  BY <1>1, <2>2, <3>1, OutputTypes
  <2> QED  BY <2>1, <2>2
<1> QED  BY <1>1, <1>2

(* As many versions of a pool's swaps are listed as show.                    *)
LEMMA VersionsAreShown ==
  ASSUME ListInv, NEW out, NEW at, Rearranges(Len(Matched), Matched, out, at),
         DOMAIN out = 1 .. Len(Matched), NEW s, NEW source \in {"old", "current"}
  PROVE  Cardinality(VersionsAt(out, s, source)) = Cardinality(Shown("dbc", s, source))
<1> DEFINE L == Len(Matched)
           M == Matched
           V == VersionsAt(out, s, source)
           T == Shown("dbc", s, source)
           f == [n \in V |-> out[n].event.inv]
<1>1. L \in Nat  BY MatchedLists
<1>2. V \subseteq 1 .. L /\ IsFiniteSet(V)
  <2>1. V \subseteq 1 .. L  BY DEF VersionsAt
  <2>2. IsFiniteSet(1 .. L)  BY <1>1, FS_Interval
  <2> HIDE DEF V, L
  <2> QED  BY <2>1, <2>2, FS_Subset
<1>3. ASSUME NEW n \in V
      PROVE  /\ n \in 1 .. L /\ at[n] \in 1 .. L /\ at[n] \notin DOMAIN logs
             /\ out[n] = M[at[n]]
             /\ \E j \in DOMAIN instructions :
                  /\ out[n].event = instructions[j] /\ instructions[j].kind = "dbc"
                  /\ instructions[j].subject = s /\ instructions[j].source = source
  <2>1. n \in 1 .. L  BY <1>2
  <2>2. out[n] = M[at[n]] /\ at[n] \in 1 .. L  BY <2>1 DEF Rearranges
  <2>3. /\ M[at[n]].event.kind = "dbc" /\ M[at[n]].event.subject = s /\ M[at[n]].event.source = source
    BY <2>2 DEF VersionsAt
  <2>4. at[n] \notin DOMAIN logs
    <3>1. ASSUME at[n] \in DOMAIN logs  PROVE FALSE
      <4>1. M[at[n]].event = logs[at[n]]  BY <2>2, <3>1, MatchedEvents
      <4>2. logs[at[n]].source = "log"  BY <3>1, EventsAreOf
      <4> QED  BY <2>3, <4>1, <4>2
    <3> QED  BY <3>1
  <2>5. PICK i \in Alone : M[at[n]].event = instructions[i]  BY <2>2, <2>4, MatchedEvents
  <2>6. i \in DOMAIN instructions  BY MatchedEvents
  <2> QED  BY <2>1, <2>2, <2>3, <2>4, <2>5, <2>6
<1> HIDE DEF L, M
<1>4. ASSUME NEW n \in V  PROVE f[n] \in T
  <2>1. PICK j \in DOMAIN instructions :
          /\ out[n].event = instructions[j] /\ instructions[j].kind = "dbc"
          /\ instructions[j].subject = s /\ instructions[j].source = source
    BY <1>3
  <2>2. /\ instructions[j].inv \in Invocations("dbc", s)
        /\ source \in invocations[instructions[j].inv].seen
    BY <2>1, EventsAreOf
  <2> QED  BY <2>1, <2>2 DEF Shown
<1>5. ASSUME NEW i \in T  PROVE \E n \in V : f[n] = i
  <2>1. i \in Invocations("dbc", s) /\ source \in invocations[i].seen /\ i \in DOMAIN invocations
    BY DEF Shown, Invocations
  <2>2. PICK j \in DOMAIN instructions : instructions[j].inv = i /\ instructions[j].source = source
    BY <2>1 DEF ListInv, AllShown
  <2>3. instructions[j].kind = "dbc" /\ instructions[j].subject = s
    BY <2>1, <2>2, EventsAreOf DEF Invocations
  <2>4. j \in Alone  BY <2>3, SwapsAreAlone DEF Keyed
  <2>5. PICK a \in 1 .. L : M[a] = FromInstruction(j)  BY <2>4, MatchedLists DEF L, M
  <2>6. M[a].event = instructions[j]  BY <2>5, OutputTypes
  <2>7. PICK n \in 1 .. L : at[n] = a  BY DEF Rearranges, L
  <2>8. out[n] = M[a]  BY <2>7 DEF Rearranges, L, M
  <2>9. n \in V  BY <2>2, <2>3, <2>6, <2>8 DEF VersionsAt, L
  <2> QED  BY <2>2, <2>6, <2>8, <2>9
<1>6. ASSUME NEW m \in V, NEW n \in V, f[m] = f[n]  PROVE m = n
  <2>1. PICK j \in DOMAIN instructions :
          /\ out[m].event = instructions[j] /\ instructions[j].kind = "dbc"
          /\ instructions[j].subject = s /\ instructions[j].source = source
    BY <1>3
  <2>2. PICK k \in DOMAIN instructions :
          /\ out[n].event = instructions[k] /\ instructions[k].kind = "dbc"
          /\ instructions[k].subject = s /\ instructions[k].source = source
    BY <1>3
  <2>3. instructions[j].inv = instructions[k].inv  BY <1>6, <2>1, <2>2
  <2>4. instructions[j] \in Event /\ instructions[k] \in Event  BY EventsAreOf
  <2>5. instructions[j] = instructions[k]  BY <2>1, <2>2, <2>3, <2>4 DEF Event
  <2>6. M[at[m]].event = M[at[n]].event  BY <1>3, <2>1, <2>2, <2>5
  <2>7. /\ m \in 1 .. L /\ n \in 1 .. L /\ at[m] \in (1 .. L) \ DOMAIN logs /\ at[n] \in (1 .. L) \ DOMAIN logs
    BY <1>3
  <2>8. at[m] = at[n]
    <3>1. \A a, b \in (1 .. L) \ DOMAIN logs : M[a].event = M[b].event => a = b
      BY MatchedLists DEF L, M
    <3> QED  BY <2>6, <2>7, <3>1
  <2> QED  BY <2>7, <2>8 DEF Rearranges, L
<1> HIDE DEF f, V, T
<1>7. \A t \in T : \E n \in V : f[n] = t  BY <1>5
<1>8. \A n \in V : f[n] \in T  BY <1>4
<1>9. \A m, n \in V : f[m] = f[n] => m = n  BY <1>6
<1>10. Cardinality(T) = Cardinality(V)  BY <1>2, <1>7, <1>8, <1>9, AsManyImages
<1> QED  BY <1>10 DEF T, V

(* Both events of each of a pool's swaps are there, as far as counting tells.*)
BothShown(s) == Cardinality(Shown("dbc", s, "old")) = Cardinality(Shown("dbc", s, "current"))

(* from says where in the joined list what is told comes from: all of it is  *)
(* told but for old events that have current ones; what is no creation and   *)
(* no DBC swap keeps its order, and no creation follows a trade of its mint. *)
Tells(L, N, told, from) ==
  /\ from \in [1 .. N -> 1 .. L]
  /\ \A m, n \in 1 .. N : from[m] = from[n] => m = n
  /\ \A m \in 1 .. N : told[m] = Matched[from[m]]
  /\ \A a \in 1 .. L :
       ~ (/\ Matched[a].event.kind = "dbc" /\ Matched[a].event.source = "old"
          /\ BothShown(Matched[a].event.subject)) =>
         \E m \in 1 .. N : from[m] = a
  /\ \A m \in 1 .. N : told[m].event.kind = "dbc" /\ BothShown(told[m].event.subject) =>
                         told[m].event.source # "old"
  /\ \A m, n \in 1 .. N :
       m < n /\ told[m].event.kind = "trade" /\ told[n].event.kind = "trade" => from[m] < from[n]
  /\ \A m, n \in 1 .. N : m < n => ~ TradeBeforeCreate(told[m].event, told[n].event)

(* Pairing the versions after the creations were moved.                      *)
LEMMA PreferenceTells ==
  ASSUME ListInv, NEW L, L = Len(Matched), NEW out \in [1 .. L -> Output], Arranged(L, Matched, out, L),
         NEW N \in Nat, NEW told, NEW kept, Prefers(L, N, out, told, kept)
  PROVE  \E from : Tells(L, N, told, from)
<1> DEFINE M == Matched
           p == [m \in 1 .. N |-> IF ReplacedAt(out, kept[m]) THEN CurrentOf(out, kept[m]) ELSE kept[m]]
<1>1. L \in Nat /\ DOMAIN out = 1 .. L  BY MatchedLists
<1>2. PICK at : Rearranges(L, Matched, out, at)  BY DEF Arranged
<1>3. \A n \in 1 .. L : Paired(out, n) <=> out[n].event.kind = "dbc" /\ BothShown(out[n].event.subject)
  <2> TAKE n \in 1 .. L
  <2> DEFINE s == out[n].event.subject
  <2>1. \A source : Len(Versions(out, s, source)) = Cardinality(VersionsAt(out, s, source))
    BY <1>1, VersionsAscend
  <2>2. \A source \in {"old", "current"} : Cardinality(VersionsAt(out, s, source)) = Cardinality(Shown("dbc", s, source))
    BY <1>1, <1>2, VersionsAreShown
  <2>3. Paired(out, n) <=> out[n].event.kind = "dbc" /\ Len(Versions(out, s, "old")) = Len(Versions(out, s, "current"))
    BY DEF Paired
  <2> HIDE DEF s
  <2> QED  BY <2>1, <2>2, <2>3 DEF BothShown, s
<1>4. \A m \in 1 .. N : kept[m] \in 1 .. L /\ ~ DroppedAt(out, kept[m])  BY DEF Prefers
<1>5. ASSUME NEW m \in 1 .. N, ReplacedAt(out, kept[m])
      PROVE  /\ p[m] = CurrentOf(out, kept[m]) /\ p[m] \in 1 .. L /\ told[m] = out[p[m]]
             /\ out[p[m]].event.kind = "dbc" /\ out[p[m]].event.source = "current"
             /\ DroppedAt(out, p[m])
  <2> DEFINE q == kept[m]
             c == CurrentOf(out, q)
  <2>1. q \in 1 .. L /\ p[m] = c /\ told[m] = out[c]  BY <1>4, <1>5 DEF Prefers
  <2>2. c \in VersionsAt(out, out[q].event.subject, "current")  BY <1>1, <1>5, <2>1, CurrentsReplace
  <2>3. /\ c \in 1 .. L /\ out[c].event.kind = "dbc" /\ out[c].event.source = "current"
        /\ out[c].event.subject = out[q].event.subject
    <3> HIDE DEF c, q
    <3> QED  BY <1>1, <2>2 DEF VersionsAt
  <2>4. BothShown(out[q].event.subject)  BY <1>3, <1>5, <2>1 DEF ReplacedAt
  <2>5. Paired(out, c)
    <3> HIDE DEF c, q
    <3> QED  BY <1>3, <2>3, <2>4
  <2>6. DroppedAt(out, c)  BY <2>3, <2>5 DEF DroppedAt
  <2> QED  BY <2>1, <2>3, <2>6
<1>6. ASSUME NEW m \in 1 .. N, ~ ReplacedAt(out, kept[m])
      PROVE  p[m] = kept[m] /\ p[m] \in 1 .. L /\ told[m] = out[p[m]] /\ ~ DroppedAt(out, p[m])
  <2>1. p[m] = kept[m]  BY <1>6
  <2> QED  BY <1>4, <1>6, <2>1 DEF Prefers
<1> HIDE DEF p
<1>7. \A m \in 1 .. N : p[m] \in 1 .. L /\ told[m] = out[p[m]]  BY <1>5, <1>6
<1>8. ASSUME NEW m \in 1 .. N, NEW n \in 1 .. N, p[m] = p[n]  PROVE m = n
  <2>1. kept[m] = kept[n]
    <3>1. CASE ReplacedAt(out, kept[m])
      <4>1. ReplacedAt(out, kept[n])  BY <1>5, <1>6, <1>8, <3>1
      <4>2. CurrentOf(out, kept[m]) = CurrentOf(out, kept[n])  BY <1>5, <1>8, <3>1, <4>1
      <4> QED  BY <1>1, <1>4, <3>1, <4>1, <4>2, CurrentsReplace
    <3>2. CASE ~ ReplacedAt(out, kept[m])
      <4>1. ~ ReplacedAt(out, kept[n])  BY <1>5, <1>6, <1>8, <3>2
      <4> QED  BY <1>6, <1>8, <3>2, <4>1
    <3> QED  BY <3>1, <3>2
  <2>2. ~ kept[m] < kept[n] /\ ~ kept[n] < kept[m]  BY <1>4, <2>1
  <2>3. ~ m < n /\ ~ n < m  BY <2>2 DEF Prefers
  <2> QED  BY <2>3
<1>9. ASSUME NEW b \in 1 .. L, ~ ReplacedAt(out, b)  PROVE \E m \in 1 .. N : p[m] = b
  <2>1. CASE DroppedAt(out, b)
    <3>1. PICK n \in 1 .. L : ReplacedAt(out, n) /\ CurrentOf(out, n) = b  BY <1>1, <2>1, CurrentsReplace
    <3>2. ~ DroppedAt(out, n)  BY <3>1 DEF ReplacedAt, DroppedAt
    <3>3. PICK m \in 1 .. N : kept[m] = n  BY <3>2 DEF Prefers
    <3> QED  BY <1>5, <3>1, <3>3
  <2>2. CASE ~ DroppedAt(out, b)
    <3>1. PICK m \in 1 .. N : kept[m] = b  BY <2>2 DEF Prefers
    <3> QED  BY <1>6, <1>9, <3>1
  <2> QED  BY <2>1, <2>2
<1> DEFINE from == [m \in 1 .. N |-> at[p[m]]]
<1>10. at \in [1 .. L -> 1 .. L] /\ \A b \in 1 .. L : at[b] \in 1 .. L /\ out[b] = M[at[b]]
  BY <1>2 DEF Rearranges
<1>11. from \in [1 .. N -> 1 .. L] /\ \A m \in 1 .. N : from[m] = at[p[m]]  BY <1>7, <1>10
<1> HIDE DEF from
<1>12. ASSUME NEW m \in 1 .. N, NEW n \in 1 .. N, from[m] = from[n]  PROVE m = n
  <2>1. p[m] \in 1 .. L /\ p[n] \in 1 .. L /\ at[p[m]] = at[p[n]]  BY <1>7, <1>11, <1>12
  <2>2. \A c, d \in 1 .. L : at[c] = at[d] => c = d  BY <1>2 DEF Rearranges
  <2>3. p[m] = p[n]  BY <2>1, <2>2, Zenon
  <2> QED  BY <1>8, <2>3
<1>13. \A m \in 1 .. N : told[m] = M[from[m]]
  <2> TAKE m \in 1 .. N
  <2>1. p[m] \in 1 .. L /\ told[m] = out[p[m]] /\ from[m] = at[p[m]]  BY <1>7, <1>11
  <2> QED  BY <1>10, <2>1
<1>14. ASSUME NEW a \in 1 .. L,
              ~ (M[a].event.kind = "dbc" /\ M[a].event.source = "old" /\ BothShown(M[a].event.subject))
       PROVE  \E m \in 1 .. N : from[m] = a
  <2>1. PICK b \in 1 .. L : at[b] = a  BY <1>2 DEF Rearranges
  <2>2. out[b] = M[a]  BY <1>10, <2>1
  <2>3. ~ ReplacedAt(out, b)  BY <1>3, <1>14, <2>2 DEF ReplacedAt
  <2>4. PICK m \in 1 .. N : p[m] = b  BY <1>9, <2>3
  <2> QED  BY <1>11, <2>1, <2>4
<1>15. ASSUME NEW m \in 1 .. N, told[m].event.kind = "dbc", BothShown(told[m].event.subject)
       PROVE  told[m].event.source # "old"
  <2>1. CASE ReplacedAt(out, kept[m])
    BY <1>5, <2>1
  <2>2. CASE ~ ReplacedAt(out, kept[m])
    <3>1. told[m] = out[kept[m]] /\ kept[m] \in 1 .. L  BY <1>6, <2>2
    <3>2. Paired(out, kept[m])  BY <1>3, <1>15, <3>1
    <3> QED  BY <2>2, <3>1, <3>2 DEF ReplacedAt
  <2> QED  BY <2>1, <2>2
<1>16. ASSUME NEW m \in 1 .. N, told[m].event.kind # "dbc"
       PROVE  p[m] = kept[m] /\ told[m] = out[kept[m]]
  BY <1>5, <1>6, <1>16
<1>17. ASSUME NEW m \in 1 .. N, NEW n \in 1 .. N, m < n,
              told[m].event.kind = "trade", told[n].event.kind = "trade"
       PROVE  from[m] < from[n]
  <2>1. p[m] \in 1 .. L /\ p[n] \in 1 .. L /\ told[m] = out[p[m]] /\ told[n] = out[p[n]]  BY <1>7
  <2>2. p[m] < p[n]
    <3>1. p[m] = kept[m] /\ p[n] = kept[n]  BY <1>16, <1>17
    <3>2. kept[m] < kept[n]  BY <1>17 DEF Prefers
    <3> QED  BY <3>1, <3>2
  <2>3. at[p[m]] < at[p[n]]
    <3> DEFINE a == p[m]
               b == p[n]
    <3>1. a \in 1 .. L /\ b \in 1 .. L /\ a < b /\ out[a].event.kind # "create" /\ out[b].event.kind # "create"
      BY <1>17, <2>1, <2>2
    <3> HIDE DEF a, b
    <3>2. at[a] < at[b]  BY <1>2, <3>1 DEF Rearranges
    <3>3. at[p[m]] < at[p[n]]  BY <3>2 DEF a, b
    <3> QED  BY <3>3
  <2> QED  BY <1>11, <2>3
<1>18. ASSUME NEW m \in 1 .. N, NEW n \in 1 .. N, m < n  PROVE ~ TradeBeforeCreate(told[m].event, told[n].event)
  <2> SUFFICES ASSUME told[m].event.kind = "trade", told[n].event.kind = "create"
               PROVE  ~ TradeBeforeCreate(told[m].event, told[n].event)
    BY DEF TradeBeforeCreate
  <2>1. told[m] = out[kept[m]] /\ told[n] = out[kept[n]]  BY <1>16
  <2>2. kept[m] \in 1 .. L /\ kept[n] \in 1 .. L /\ kept[m] < kept[n]  BY <1>4, <1>18 DEF Prefers
  <2> DEFINE a == kept[m]
             b == kept[n]
  <2>3. a \in 1 .. L /\ b \in 1 .. L /\ a < b  BY <2>2
  <2> HIDE DEF a, b
  <2>4. ~ TradeBeforeCreate(out[a].event, out[b].event)  BY <2>3 DEF Arranged
  <2> QED  BY <2>1, <2>4 DEF a, b
<1>19. Tells(L, N, told, from)
  BY <1>11, <1>12, <1>13, <1>14, <1>15, <1>17, <1>18 DEF Tells
<1> QED  BY <1>19

LEMMA DeduplicatedTells ==
  ASSUME ListInv
  PROVE  /\ Len(Deduplicated) \in Nat /\ DOMAIN Deduplicated = 1 .. Len(Deduplicated)
         /\ \E from : Tells(Len(Matched), Len(Deduplicated), Deduplicated, from)
<1> DEFINE L == Len(Matched)
           out == CreatesFirst(Matched)
           told == PreferCurrent(out)
<1>1. L \in Nat /\ Matched \in [1 .. L -> Output]  BY MatchedLists
<1>2. Deduplicated = told  BY DEF Deduplicated
<1>3. L = Len(Matched)  OBVIOUS
<1> HIDE DEF L
<1>4. out \in [1 .. L -> Output] /\ Arranged(L, Matched, out, L)  BY <1>1, CreatesArranged
<1> HIDE DEF out
<1>5. Len(told) \in Nat /\ DOMAIN told = 1 .. Len(told)  BY <1>1, <1>4, PreferCurrentKeeps
<1>6. PICK kept : Prefers(L, Len(told), out, told, kept)  BY <1>1, <1>4, PreferCurrentKeeps
<1> DEFINE N == Len(told)
<1>7. N \in Nat /\ Prefers(L, N, out, told, kept)  BY <1>5, <1>6
<1> HIDE DEF N, told
<1>8. \E from : Tells(L, N, told, from)  BY <1>3, <1>4, <1>7, PreferenceTells
<1> QED  BY <1>2, <1>5, <1>8 DEF N, L

-----------------------------------------------------------------------------
(* Own counterparts                                                          *)

LEMMA LastLog ==
  ASSUME ListInv, NEW i \in DOMAIN instructions, LogsFor(i) # {}
  PROVE  Max(LogsFor(i)) \in LogsFor(i)
<1>1. LogsFor(i) \subseteq DOMAIN logs  BY DEF LogsFor
<1>2. DOMAIN logs = 1 .. Len(logs) /\ Len(logs) \in Nat  BY DEF ListInv, ListTypes
<1> QED  BY <1>1, <1>2, MaxIsIn

LEMMA TookOwn ==
  ASSUME ListInv, NEW a \in 1 .. Len(Matched),
         OneSideComplete(Matched[a].event.kind, Matched[a].event.subject),
         ~ TakenForOne(Matched[a].event.kind, Matched[a].event.subject)
  PROVE  Matched[a].took \subseteq {Matched[a].event.inv}
<1>1. CASE a \in DOMAIN logs
  <2>1. Matched[a] = FromLog(a) /\ Matched[a].event = logs[a]  BY <1>1, MatchedLists, OutputTypes
  <2>2. ASSUME NEW j \in DOMAIN instructions, LogsFor(j) # {}, Max(LogsFor(j)) = a
        PROVE  instructions[j].inv = logs[a].inv
    <3>1. a \in LogsFor(j)  BY <2>2, LastLog
    <3>2. instructions[j].kind = logs[a].kind /\ instructions[j].subject = logs[a].subject
      BY <3>1 DEF LogsFor, SameKey, Same
    <3> QED  BY <2>1, <3>1, <3>2, KeyIsInvocation
  <2> QED  BY <2>1, <2>2 DEF FromLog
<1>2. CASE a \notin DOMAIN logs
  <2>1. PICK i \in Alone : Matched[a] = FromInstruction(i) /\ Matched[a].event = instructions[i]
    BY <1>2, MatchedEvents
  <2>2. Len(instructions) \in Nat /\ DOMAIN instructions = 1 .. Len(instructions)
    BY DEF ListInv, ListTypes
  <2>3. i \in DOMAIN instructions  BY MatchedEvents
  <2>4. ASSUME NEW j \in i + 1 .. Len(instructions), StandsFor(j) = i
        PROVE  instructions[j].inv = instructions[i].inv
    <3>1. j \in DOMAIN instructions /\ j # i  BY <2>2, <2>3
    <3>2. SameKey(instructions, j, instructions, i)  BY <2>4, <3>1, StandsForOne
    <3>3. instructions[j].kind = instructions[i].kind /\ instructions[j].subject = instructions[i].subject
      BY <3>2 DEF SameKey, Same
    <3> QED  BY <2>1, <2>3, <3>1, <3>2, <3>3, SameKeySameInvocation
  <2> QED  BY <2>1, <2>4 DEF FromInstruction
<1> QED  BY <1>1, <1>2

(* An event takes in its own instruction only, if not both sides miss some:  *)
(* the merging of dedupe_log_instruction_events never crosses invocations.   *)
THEOREM OwnCounterpartHolds == TransactionSpec => []OwnCounterpart
<1>1. ListInv => OwnCounterpart
  <2> SUFFICES ASSUME ListInv, NEW n \in DOMAIN Deduplicated,
                      OneSideComplete(Deduplicated[n].event.kind, Deduplicated[n].event.subject),
                      ~ TakenForOne(Deduplicated[n].event.kind, Deduplicated[n].event.subject)
               PROVE  Deduplicated[n].took \subseteq {Deduplicated[n].event.inv}
    BY DEF OwnCounterpart
  <2>1. DOMAIN Deduplicated = 1 .. Len(Deduplicated)  BY DeduplicatedTells
  <2>2. PICK from : Tells(Len(Matched), Len(Deduplicated), Deduplicated, from)  BY DeduplicatedTells
  <2>3. Deduplicated[n] = Matched[from[n]] /\ from[n] \in 1 .. Len(Matched)  BY <2>1, <2>2 DEF Tells
  <2> QED  BY <2>3, TookOwn
<1> QED  BY <1>1, ListsInvariant, PTL

-----------------------------------------------------------------------------
(* Told once and in order                                                    *)

(* A mint is created before it is traded, and trades of the logs keep their  *)
(* order, for any creations and trades of a transaction.                     *)
THEOREM ToldInOrderHolds == TransactionSpec => []ToldInOrder
<1>1. ListInv => ToldInOrder
  <2> DEFINE D == Deduplicated
  <2> SUFFICES ASSUME ListInv, NEW m \in DOMAIN D, NEW n \in DOMAIN D, m < n
               PROVE  /\ ~ TradeBeforeCreate(D[m].event, D[n].event)
                      /\ D[m].event.kind = "trade" /\ D[m].event.source = "log"
                           /\ D[n].event.kind = "trade" /\ D[n].event.source = "log" =>
                         D[m].event.inv < D[n].event.inv
    BY DEF ToldInOrder, TradeBeforeCreate
  <2>1. DOMAIN D = 1 .. Len(D)  BY DeduplicatedTells
  <2>2. PICK from : Tells(Len(Matched), Len(D), D, from)  BY DeduplicatedTells
  <2> HIDE DEF D
  <2>3. ~ TradeBeforeCreate(D[m].event, D[n].event)  BY <2>1, <2>2 DEF Tells
  <2>4. ASSUME NEW k \in DOMAIN D, D[k].event.source = "log"
        PROVE  from[k] \in DOMAIN logs /\ D[k].event = logs[from[k]]
    <3>1. from[k] \in 1 .. Len(Matched) /\ D[k] = Matched[from[k]]  BY <2>1, <2>2 DEF Tells
    <3>2. CASE from[k] \in DOMAIN logs
      BY <3>1, <3>2, MatchedEvents
    <3>3. CASE from[k] \notin DOMAIN logs
      <4>1. PICK i \in Alone : Matched[from[k]].event = instructions[i]  BY <3>1, <3>3, MatchedEvents
      <4>2. instructions[i].source # "log"  BY MatchedEvents, EventsAreOf
      <4> QED  BY <2>4, <3>1, <4>1, <4>2
    <3> QED  BY <3>2, <3>3
  <2>5. ASSUME D[m].event.kind = "trade", D[m].event.source = "log",
               D[n].event.kind = "trade", D[n].event.source = "log"
        PROVE  D[m].event.inv < D[n].event.inv
    <3>1. from[m] < from[n]  BY <2>1, <2>2, <2>5 DEF Tells
    <3>2. /\ from[m] \in DOMAIN logs /\ D[m].event = logs[from[m]]
          /\ from[n] \in DOMAIN logs /\ D[n].event = logs[from[n]]
      BY <2>4, <2>5
    <3>3. Precedes(logs[from[m]], logs[from[n]])  BY <3>1, <3>2 DEF ListInv, InSequence, Ordered
    <3> QED  BY <2>5, <3>2, <3>3 DEF Precedes
  <2> QED  BY <2>3, <2>5
<1> QED  BY <1>1, ListsInvariant, PTL

(* An event of an invocation is of its kind and subject.                     *)
LEMMA MatchedOf ==
  ASSUME ListInv, NEW a \in 1 .. Len(Matched), NEW i \in DOMAIN invocations, Matched[a].event.inv = i
  PROVE  Matched[a].event.kind = invocations[i].kind /\ Matched[a].event.subject = invocations[i].subject
<1>1. CASE a \in DOMAIN logs
  <2>1. Matched[a].event = logs[a]  BY <1>1, MatchedEvents
  <2> QED  BY <1>1, <2>1, EventsAreOf DEF Invocations
<1>2. CASE a \notin DOMAIN logs
  <2>1. PICK j \in Alone : Matched[a].event = instructions[j]  BY <1>2, MatchedEvents
  <2>2. j \in DOMAIN instructions  BY MatchedEvents
  <2> QED  BY <2>1, <2>2, EventsAreOf DEF Invocations
<1> QED  BY <1>1, <1>2

(* Complete sides pair a pool's swaps, and only they do.                     *)
LEMMA SwapsPaired ==
  ASSUME ListInv, NEW s, OneSideComplete("dbc", s)
  PROVE  /\ BothShown(s) => \A i \in Invocations("dbc", s) : {"old", "current"} \subseteq invocations[i].seen
         /\ (\A i \in Invocations("dbc", s) : {"old", "current"} \subseteq invocations[i].seen) => BothShown(s)
<1> DEFINE I == Invocations("dbc", s)
           S(source) == Shown("dbc", s, source)
<1>1. IsFiniteSet(I) /\ S("old") \in SUBSET I /\ S("current") \in SUBSET I  BY InvocationsFinite
<1>2. S("old") = I \/ S("current") = I
  BY DEF OneSideComplete, Sources, Shown
<1>3. ASSUME \A i \in I : {"old", "current"} \subseteq invocations[i].seen
      PROVE  BothShown(s)
  <2>1. S("old") = I /\ S("current") = I  BY <1>3 DEF Shown
  <2> QED  BY <2>1 DEF BothShown
<1>4. ASSUME BothShown(s), NEW i \in I  PROVE {"old", "current"} \subseteq invocations[i].seen
  <2>1. Cardinality(S("old")) = Cardinality(S("current"))  BY <1>4 DEF BothShown
  <2>2. S("old") = I /\ S("current") = I
    <3> HIDE DEF S, I
    <3>1. /\ Cardinality(I) = Cardinality(S("old")) => I = S("old")
          /\ Cardinality(I) = Cardinality(S("current")) => I = S("current")
      BY <1>1, FS_Subset
    <3> QED  BY <1>2, <2>1, <3>1
  <2>3. i \in S("old") /\ i \in S("current")  BY <2>2
  <2> QED  BY <2>3 DEF Shown
<1> QED  BY <1>3, <1>4

(* An instruction event of a complete kind has its log.                      *)
LEMMA CompleteHasLog ==
  ASSUME ListInv, NEW j \in DOMAIN instructions, NEW l \in DOMAIN logs, Keyed(instructions[j]),
         logs[l].inv = instructions[j].inv,
         \A i \in Invocations(instructions[j].kind, instructions[j].subject) :
           {"log", "ix"} \subseteq invocations[i].seen
  PROVE  l \in LogsFor(j)
<1> DEFINE e == instructions[j]
           k == e.kind
           s == e.subject
           I == Invocations(k, s)
<1>1. k \in {"trade", "create", "liquidity"} /\ k # "dbc"  BY DEF Keyed
<1>2. logs[l].kind = k /\ logs[l].subject = s
  <2>1. e.inv \in I /\ logs[l].inv \in Invocations(logs[l].kind, logs[l].subject)  BY EventsAreOf
  <2> QED  BY <2>1 DEF Invocations
<1>3. Shown(k, s, "log") = I /\ Shown(k, s, "ix") = I  BY DEF Shown
<1>4. Covers(logs, "log", k) /\ Covers(instructions, "ix", k)  BY <1>1, ListsCover
<1>5. Occurrences(logs, e) = Occurrences(instructions, e)
  <2>1. Occurrences(logs, e) = Cardinality(Shown(k, s, "log"))  BY <1>4, OccurrencesAreShown
  <2>2. Occurrences(instructions, e) = Cardinality(Shown(k, s, "ix"))  BY <1>4, OccurrencesAreShown
  <2> QED  BY <1>3, <2>1, <2>2
<1>6. Ordinal(instructions, j) = Ordinal(logs, l)
  <2>1. CASE k # "trade"
    BY <1>2, <2>1 DEF Ordinal, Counted
  <2>2. CASE k = "trade"
    <3>1. Ordinal(instructions, j) = Cardinality(Under(Shown(k, s, "ix"), e.inv))
      BY <1>4, <2>2, OrdinalIsRank DEF Ordinal, Counted
    <3>2. Ordinal(logs, l) = Cardinality(Under(Shown(k, s, "log"), logs[l].inv))
      BY <1>2, <1>4, <2>2, OrdinalIsRank DEF Ordinal, Counted
    <3> QED  BY <1>3, <3>1, <3>2
  <2> QED  BY <2>1, <2>2
<1>7. SameKey(instructions, j, logs, l)  BY <1>2, <1>6 DEF SameKey, Same
<1>8. ~ Ambiguous(e)  BY <1>5 DEF Ambiguous
<1> QED  BY <1>7, <1>8 DEF LogsFor

(* What was seen of an invocation is in the joined list; of a DBC swap, an   *)
(* event that is told.                                                       *)
LEMMA SeenIsMatched ==
  ASSUME ListInv, NEW i \in DOMAIN invocations, invocations[i].seen # {},
         OneSideComplete(invocations[i].kind, invocations[i].subject),
         ~ TakenForOne(invocations[i].kind, invocations[i].subject)
  PROVE  \E a \in 1 .. Len(Matched) :
           /\ Matched[a].event.inv = i
           /\ ~ (/\ Matched[a].event.kind = "dbc" /\ Matched[a].event.source = "old"
                 /\ BothShown(Matched[a].event.subject))
<1> DEFINE k == invocations[i].kind
           s == invocations[i].subject
           L == Len(Matched)
<1>1. invocations[i].seen \subseteq Sources(k)  BY DEF ListInv, ListTypes
<1>2. ASSUME NEW j \in DOMAIN instructions, instructions[j].inv = i, j \in Alone
      PROVE  \E a \in 1 .. L : Matched[a].event = instructions[j]
  BY <1>2, MatchedLists, OutputTypes
<1>3. CASE k # "dbc"
  <2>1. ASSUME NEW a \in 1 .. L, Matched[a].event.inv = i  PROVE Matched[a].event.kind # "dbc"
    BY <1>3, <2>1, MatchedOf
  <2>2. ASSUME NEW l \in DOMAIN logs, logs[l].inv = i
        PROVE  \E a \in 1 .. L : Matched[a].event.inv = i
    <3>1. l \in 1 .. L /\ Matched[l].event = logs[l]  BY MatchedLists, OutputTypes
    <3> QED  BY <2>2, <3>1
  <2>3. ASSUME NEW j \in DOMAIN instructions, instructions[j].inv = i
        PROVE  \E a \in 1 .. L : Matched[a].event.inv = i
    <3>1. instructions[j].kind = k /\ instructions[j].subject = s
      BY <2>3, EventsAreOf DEF Invocations
    <3>2. CASE LogsFor(j) # {}
      <4>1. PICK l \in LogsFor(j) : TRUE  BY <3>2
      <4>2. l \in DOMAIN logs /\ logs[l].inv = instructions[j].inv  BY <3>1, KeyIsInvocation
      <4> QED  BY <2>2, <2>3, <4>2
    <3>3. CASE LogsFor(j) = {}
      <4> DEFINE g == StandsFor(j)
      <4>1. g \in DOMAIN instructions /\ g \in Alone  BY <3>3, StandsForOne
      <4>2. instructions[g].inv = instructions[j].inv
        <5>1. CASE Keyed(instructions[j])
          <6>1. SameKey(instructions, j, instructions, g)  BY <5>1, StandsForOne
          <6> HIDE DEF g
          <6> QED  BY <3>1, <4>1, <6>1, SameKeySameInvocation
        <5>2. CASE ~ Keyed(instructions[j])
          BY <5>2, StandsForOne
        <5> QED  BY <5>1, <5>2
      <4> HIDE DEF g
      <4> QED  BY <1>2, <2>3, <4>1, <4>2
    <3> QED  BY <3>2, <3>3
  <2>4. PICK source \in invocations[i].seen : TRUE  OBVIOUS
  <2>5. \/ \E l \in DOMAIN logs : logs[l].inv = i
        \/ \E j \in DOMAIN instructions : instructions[j].inv = i
    BY DEF ListInv, AllShown
  <2> QED  BY <2>1, <2>2, <2>3, <2>5
<1>4. CASE k = "dbc"
  <2>1. ASSUME NEW source \in invocations[i].seen
        PROVE  \E a \in 1 .. L : /\ Matched[a].event.inv = i /\ Matched[a].event.source = source
                                 /\ Matched[a].event.kind = "dbc" /\ Matched[a].event.subject = s
    <3>1. source # "log"  BY <1>1, <1>4 DEF Sources
    <3>2. PICK j \in DOMAIN instructions : instructions[j].inv = i /\ instructions[j].source = source
      BY <3>1 DEF ListInv, AllShown
    <3>3. instructions[j].kind = "dbc" /\ instructions[j].subject = s
      BY <1>4, <3>2, EventsAreOf DEF Invocations
    <3>4. j \in Alone  BY <3>3, SwapsAreAlone DEF Keyed
    <3> QED  BY <1>2, <3>2, <3>3, <3>4
  <2>2. CASE ~ BothShown(s)
    <3>1. PICK source \in invocations[i].seen : TRUE  OBVIOUS
    <3> QED  BY <2>1, <2>2, <3>1
  <2>3. CASE BothShown(s)
    <3>1. i \in Invocations("dbc", s)  BY <1>4 DEF Invocations
    <3>2. "current" \in invocations[i].seen  BY <1>4, <2>3, <3>1, SwapsPaired
    <3> QED  BY <2>1, <3>2
  <2> QED  BY <2>2, <2>3
<1> QED  BY <1>3, <1>4

(* Where nothing is missing, one element that can be told is of an           *)
(* invocation.                                                               *)
LEMMA MatchedOnce ==
  ASSUME ListInv, NEW i \in DOMAIN invocations,
         \A j \in Invocations(invocations[i].kind, invocations[i].subject) :
           invocations[j].seen = Sources(invocations[i].kind),
         invocations[i].kind # "keyless",
         NEW a \in 1 .. Len(Matched), NEW b \in 1 .. Len(Matched),
         Matched[a].event.inv = i, Matched[b].event.inv = i,
         Matched[a].event.kind = "dbc" => Matched[a].event.source # "old",
         Matched[b].event.kind = "dbc" => Matched[b].event.source # "old"
  PROVE  a = b
<1> DEFINE k == invocations[i].kind
           s == invocations[i].subject
           M == Matched
           L == Len(Matched)
<1>1. i \in Invocations(k, s)  BY DEF Invocations
<1>2. /\ M[a].event.kind = k /\ M[a].event.subject = s /\ M[b].event.kind = k /\ M[b].event.subject = s
  BY MatchedOf
<1>3. CASE k # "dbc"
  <2>1. k \in {"trade", "create", "liquidity"}
    <3>1. invocations[i].kind \in AnyKind
      <4>1. invocations \in Seq(Invocation)  BY DEF ListInv, ListTypes
      <4>2. invocations[i] \in Invocation  BY <4>1
      <4> QED  BY <4>2 DEF Invocation
    <3>2. AnyKind \subseteq Kinds  BY SeenAssumption DEF AnyKind
    <3> QED  BY <1>3, <3>1, <3>2 DEF Kinds
  <2>2. \A j \in Invocations(k, s) : {"log", "ix"} \subseteq invocations[j].seen
    BY <1>3 DEF Sources
  <2>3. PICK l \in DOMAIN logs : logs[l].inv = i
    BY <1>1, <2>2 DEF ListInv, AllShown
  <2>4. ASSUME NEW c \in 1 .. L, M[c].event.inv = i  PROVE c = l
    <3>1. CASE c \in DOMAIN logs
      <4>1. logs[c].inv = i  BY <2>4, <3>1, MatchedEvents
      <4>2. DOMAIN logs = 1 .. Len(logs) /\ Len(logs) \in Nat  BY DEF ListInv, ListTypes
      <4>3. logs[c].inv \in Nat /\ logs[c].source = "log" /\ logs[l].source = "log"  BY <3>1, EventsAreOf
      <4>4. ~ c < l /\ ~ l < c
        BY <2>3, <3>1, <4>1, <4>3 DEF ListInv, InSequence, Ordered, Precedes
      <4> QED  BY <3>1, <4>2, <4>4
    <3>2. CASE c \notin DOMAIN logs
      <4>1. PICK j \in Alone : M[c].event = instructions[j]  BY <3>2, MatchedEvents
      <4>2. j \in DOMAIN instructions /\ LogsFor(j) = {}  BY DEF Alone
      <4>3. /\ instructions[j].inv = i
            /\ instructions[j].kind = k /\ instructions[j].subject = s
        BY <2>4, <4>1, <4>2, EventsAreOf DEF Invocations
      <4>4. Keyed(instructions[j])  BY <2>1, <4>3 DEF Keyed
      <4>5. l \in LogsFor(j)  BY <2>2, <2>3, <4>2, <4>3, <4>4, CompleteHasLog
      <4> QED  BY <4>2, <4>5
    <3> QED  BY <3>1, <3>2
  <2> QED  BY <2>4
<1>4. CASE k = "dbc"
  <2>1. ASSUME NEW c \in 1 .. L, M[c].event.inv = i, M[c].event.kind = "dbc", M[c].event.source # "old"
        PROVE  c \notin DOMAIN logs /\ M[c].event \in Event /\ M[c].event.source = "current"
    <3>1. ASSUME c \in DOMAIN logs  PROVE FALSE
      <4>1. M[c].event = logs[c]  BY <3>1, MatchedEvents
      <4>2. logs[c].kind # "dbc"  BY <3>1, EventsAreOf
      <4> QED  BY <2>1, <4>1, <4>2
    <3>2. PICK j \in Alone : M[c].event = instructions[j]  BY <3>1, MatchedEvents
    <3>3. j \in DOMAIN instructions  BY MatchedEvents
    <3>4. instructions[j] \in Event /\ instructions[j].source \in Sources(instructions[j].kind)
      BY <3>3, EventsAreOf
    <3> QED  BY <2>1, <3>1, <3>2, <3>4 DEF Sources
  <2>2. M[a].event = M[b].event
    <3>1. M[a].event \in Event /\ M[b].event \in Event /\ M[a].event.source = M[b].event.source
      BY <1>2, <1>4, <2>1
    <3> QED  BY <1>2, <3>1 DEF Event
  <2>3. a \notin DOMAIN logs /\ b \notin DOMAIN logs  BY <1>2, <1>4, <2>1
  <2> QED  BY <2>2, <2>3, MatchedLists
<1> QED  BY <1>3, <1>4

(* If one source has events of all invocations of a kind about a subject, no *)
(* two of them taken for one, each that was seen is told, and once if every  *)
(* source has all of them and the kind has a key.                            *)
THEOREM ToldOnceHolds == TransactionSpec => []ToldOnce
<1>1. ListInv => ToldOnce
  <2> DEFINE D == Deduplicated
             L == Len(Matched)
             told(i) == {n \in DOMAIN D : D[n].event.inv = i}
  <2> SUFFICES ASSUME ListInv, NEW i \in DOMAIN invocations, invocations[i].seen # {},
                      ~ TakenForOne(invocations[i].kind, invocations[i].subject),
                      OneSideComplete(invocations[i].kind, invocations[i].subject)
               PROVE  /\ told(i) # {}
                      /\ (\A j \in Invocations(invocations[i].kind, invocations[i].subject) :
                            invocations[j].seen = Sources(invocations[i].kind))
                           /\ invocations[i].kind # "keyless" =>
                         Cardinality(told(i)) = 1
    BY DEF ToldOnce
  <2>1. DOMAIN D = 1 .. Len(D)  BY DeduplicatedTells
  <2>2. PICK from : Tells(L, Len(D), D, from)  BY DeduplicatedTells
  <2> HIDE DEF D
  <2>3. PICK n \in DOMAIN D : D[n].event.inv = i
    <3>1. PICK a \in 1 .. L :
            /\ Matched[a].event.inv = i
            /\ ~ (/\ Matched[a].event.kind = "dbc" /\ Matched[a].event.source = "old"
                  /\ BothShown(Matched[a].event.subject))
      BY SeenIsMatched
    <3>2. PICK m \in 1 .. Len(D) : from[m] = a  BY <2>2, <3>1 DEF Tells
    <3>3. D[m] = Matched[a]  BY <2>2, <3>2 DEF Tells
    <3> QED  BY <2>1, <3>1, <3>3
  <2>4. ASSUME \A j \in Invocations(invocations[i].kind, invocations[i].subject) :
                 invocations[j].seen = Sources(invocations[i].kind),
               invocations[i].kind # "keyless"
        PROVE  Cardinality(told(i)) = 1
    <3>1. ASSUME NEW m \in told(i)
          PROVE  /\ m \in 1 .. Len(D) /\ from[m] \in 1 .. L /\ D[m] = Matched[from[m]] /\ D[m].event.inv = i
                 /\ D[m].event.kind = "dbc" => D[m].event.source # "old"
      <4>1. m \in 1 .. Len(D) /\ from[m] \in 1 .. L /\ D[m] = Matched[from[m]] /\ D[m].event.inv = i
        BY <2>1, <2>2 DEF Tells
      <4>2. D[m].event.kind = invocations[i].kind /\ D[m].event.subject = invocations[i].subject
        BY <4>1, MatchedOf
      <4>3. ASSUME D[m].event.kind = "dbc"  PROVE D[m].event.source # "old"
        <5>1. BothShown(D[m].event.subject)
          <6>1. \A j \in Invocations("dbc", invocations[i].subject) : {"old", "current"} \subseteq invocations[j].seen
            BY <2>4, <4>2, <4>3 DEF Sources
          <6> QED  BY <4>2, <4>3, <6>1, SwapsPaired
        <5> QED  BY <2>2, <4>1, <4>3, <5>1 DEF Tells
      <4> QED  BY <4>1, <4>3
    <3>2. ASSUME NEW m \in told(i)  PROVE m = n
      <4>1. n \in told(i)  BY <2>3
      <4>2. from[m] = from[n]  BY <2>4, <3>1, <4>1, MatchedOnce, SMTT(30)
      <4> QED  BY <2>2, <3>1, <4>1, <4>2 DEF Tells
    <3>3. told(i) = {n}  BY <2>3, <3>2
    <3> QED  BY <3>3, FS_Singleton
  <2> QED  BY <2>3, <2>4
<1> QED  BY <1>1, ListsInvariant, PTL
=============================================================================
