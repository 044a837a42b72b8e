----------------------- MODULE InstructionMergeProofs -----------------------
(***************************************************************************)
(* Which call an execution is joined with: for any number and nesting of   *)
(* calls, with stack heights or without, an event that shows a call and an *)
(* execution shows one call's, and every execution is in the result once;  *)
(* of DLMM, if every DLMM call was decoded.                                *)
(***************************************************************************)
EXTENDS InstructionMerge, FiniteSetTheorems, SequenceTheorems, WellFoundedInduction, TLAPS

TypeOK ==
  /\ heights \in BOOLEAN
  /\ running \in Seq(Nat \ {0})
  /\ calls \in Seq(Call) /\ Len(calls) <= MaxCalls
  /\ outer \in Nat
  /\ result \in Seq(Event)
  /\ outerTarget \in [outer : Nat, at : Nat]
  /\ pumpTargets \in Seq(Target)
  /\ dlmmTargets \in Seq(Target)

(* No program but a router runs twice at a time, and the first call that     *)
(* runs is the outermost.                                                    *)
Nested ==
  /\ Len(running) <= MaxDepth
  /\ \A k \in DOMAIN running :
       /\ running[k] \in DOMAIN calls
       /\ k > 1 => calls[running[k]].inner
  /\ \A k, l \in DOMAIN running :
       /\ calls[running[k]].program = calls[running[l]].program
       /\ calls[running[k]].program # "router"
       => k = l
  /\ \A i \in DOMAIN calls : calls[i].program = "router" => ~ calls[i].decoded

(* An event shows what it stems from.                                        *)
Stem(r) ==
  /\ r.call # None =>
       /\ r.call \in DOMAIN calls
       /\ calls[r.call].decoded
       /\ calls[r.call].program = r.program
       /\ calls[r.call].identity = r.identity
  /\ r.execution # None =>
       /\ r.execution \in DOMAIN calls
       /\ calls[r.execution].emitted
       /\ calls[r.execution].program = r.program

Stems == \A n \in DOMAIN result : Stem(result[n])

(* No two events show one execution.                                         *)
Single ==
  \A m, n \in DOMAIN result :
    result[m].execution = result[n].execution /\ result[m].execution # None => m = n

(* The outer target is the event of the outer instruction that runs.         *)
OuterRuns ==
  /\ outerTarget.outer <= outer
  /\ outerTarget.at \in 0 .. Len(result)
  /\ running # <<>> =>
       /\ outerTarget.outer = outer /\ outerTarget.at # 0 =>
            result[outerTarget.at].call = running[1]
       /\ calls[running[1]].decoded => outerTarget.outer = outer /\ outerTarget.at # 0

(* Targets are of decoded calls under one outer instruction, each higher     *)
(* than the one before; without heights the newest is the only one.          *)
StackedIn(targets, events, o, reported) ==
  /\ \A n \in DOMAIN targets :
       /\ targets[n].at \in DOMAIN events
       /\ events[targets[n].at].call # None
       /\ targets[n].outer <= o
       /\ reported => targets[n].height # Unknown
  /\ \A m, n \in DOMAIN targets :
       /\ targets[m].outer = targets[n].outer
       /\ m < n => reported /\ targets[m].height < targets[n].height

Stacked(targets) == StackedIn(targets, result, outer, heights)

(* The target is that of the k-th call that runs.                            *)
Own(t, k) ==
  /\ t.outer = outer
  /\ result[t.at].call = running[k]
  /\ heights => t.height = k

(* A target that can still be taken is of a call that runs and has not       *)
(* emitted its event.                                                        *)
UnusedRuns ==
  \A n \in DOMAIN pumpTargets :
    pumpTargets[n].outer = outer /\ ~ pumpTargets[n].used =>
      \E k \in DOMAIN running :
        /\ Own(pumpTargets[n], k)
        /\ calls[running[k]].program \in Trades /\ ~ calls[running[k]].emitted

(* The decoded calls of a program that run have their targets.               *)
Held(targets, k) ==
  \E n \in DOMAIN targets :
    Own(targets[n], k) /\ (~ calls[running[k]].emitted => ~ targets[n].used)

PumpHeld ==
  heights =>
    \A k \in DOMAIN running :
      calls[running[k]].program \in Trades /\ calls[running[k]].decoded => Held(pumpTargets, k)

DlmmHeld ==
  AllDecoded("dlmm") =>
    \A k \in DOMAIN running : calls[running[k]].program = "dlmm" => Held(dlmmTargets, k)

(* An execution is in the result, with its call if that can be known.        *)
Present ==
  \A i \in DOMAIN calls :
    calls[i].emitted /\ Separable(calls[i].program) =>
      \E n \in DOMAIN result :
        result[n].execution = i /\ (Awaited(i) => result[n].call = i)

IInv ==
  /\ TypeOK /\ Nested /\ Stems /\ Single /\ OuterRuns
  /\ Stacked(pumpTargets) /\ Stacked(dlmmTargets)
  /\ UnusedRuns /\ PumpHeld /\ DlmmHeld
  /\ OwnExecution /\ Present

-----------------------------------------------------------------------------
(* Operators *)

(* A non-empty set of naturals up to n has a greatest and a least element.   *)
LEMMA Greatest ==
  ASSUME NEW n \in Nat, NEW S \in SUBSET (0 .. n), S # {}
  PROVE  Max(S) \in S /\ \A y \in S : y <= Max(S)
<1> DEFINE T == {n - i : i \in S}
<1>1. T \in SUBSET Nat /\ T # {}
  <2>1. \A i \in S : n - i \in Nat  OBVIOUS
  <2> QED  BY <2>1
<1>2. IsWellFoundedOn(OpToRel(<, Nat), Nat)  BY NatLessThanWellFounded
<1>3. PICK d \in T : \A e \in T : <<e, d>> \notin OpToRel(<, Nat)
  BY <1>1, <1>2, WFMin
<1>4. \A e \in T : ~ (e < d)  BY <1>1, <1>3 DEF OpToRel
<1>5. PICK i \in S : d = n - i  OBVIOUS
<1>6. \A j \in S : i >= j
  <2> SUFFICES ASSUME NEW j \in S  PROVE i >= j
    OBVIOUS
  <2>1. ~ (n - j < n - i)  BY <1>4, <1>5
  <2> QED  BY <2>1
<1>7. Max(S) \in S /\ \A y \in S : Max(S) >= y  BY <1>5, <1>6 DEF Max
<1> QED  BY <1>7

LEMMA Lowest ==
  ASSUME NEW n \in Nat, NEW S \in SUBSET (1 .. n), S # {}
  PROVE  Min(S) \in S
<1>1. S \in SUBSET Nat  OBVIOUS
<1>2. IsWellFoundedOn(OpToRel(<, Nat), Nat)  BY NatLessThanWellFounded
<1>3. PICK d \in S : \A e \in S : <<e, d>> \notin OpToRel(<, Nat)
  BY <1>1, <1>2, WFMin
<1>4. \A e \in S : ~ (e < d)  BY <1>1, <1>3 DEF OpToRel
<1>5. \A e \in S : d <= e  BY <1>1, <1>4
<1> QED  BY <1>5 DEF Min

(* The latest of some positions is one of them, and 0 if there are none.     *)
LEMMA LatestIs ==
  ASSUME NEW n \in Nat, NEW S \in SUBSET (1 .. n)
  PROVE  /\ Latest(S) \in 0 .. n
         /\ Latest(S) = 0 <=> S = {}
         /\ Latest(S) # 0 => Latest(S) \in S
         /\ \A y \in S : y <= Latest(S)
<1>1. S \cup {0} \in SUBSET (0 .. n) /\ S \cup {0} # {}  OBVIOUS
<1>2. Max(S \cup {0}) \in S \cup {0} /\ \A y \in S \cup {0} : y <= Max(S \cup {0})
  BY <1>1, Greatest
<1>3. Latest(S) \in S \cup {0} /\ \A y \in S \cup {0} : y <= Latest(S)
  BY <1>2 DEF Latest
<1> DEFINE l == Latest(S)
<1>4. l \in S \cup {0} /\ \A y \in S \cup {0} : y <= l  BY <1>3
<1> HIDE DEF l
<1>5. \A y \in S : y \in Nat /\ y # 0 /\ y \in 0 .. n  OBVIOUS
<1>6. l \in 0 .. n  BY <1>4, <1>5
<1>7. l = 0 <=> S = {}
  <2>1. ASSUME l = 0, NEW y \in S  PROVE FALSE
    <3>1. y <= 0 /\ y \in Nat /\ y # 0  BY <1>4, <1>5, <2>1
    <3> QED  BY <3>1
  <2> QED  BY <1>4, <2>1
<1> QED  BY <1>4, <1>6, <1>7 DEF l

(* The first positions of a sequence.                                        *)
LEMMA FirstOnes ==
  ASSUME NEW S, NEW s \in Seq(S), NEW m \in 0 .. Len(s)
  PROVE  /\ SubSeq(s, 1, m) \in Seq(S) /\ Len(SubSeq(s, 1, m)) = m
         /\ DOMAIN SubSeq(s, 1, m) = 1 .. m
         /\ \A i \in 1 .. m : SubSeq(s, 1, m)[i] = s[i]
<1>1. \A i \in 1 .. m : s[i] \in S  OBVIOUS
<1>2. /\ SubSeq(s, 1, m) \in Seq(S) /\ Len(SubSeq(s, 1, m)) = IF 1 <= m THEN m - 1 + 1 ELSE 0
      /\ \A i \in 1 .. m - 1 + 1 : SubSeq(s, 1, m)[i] = s[1 + i - 1]
  BY <1>1, SubSeqProperties
<1>3. m \in Nat /\ m - 1 + 1 = m  OBVIOUS
<1>4. Len(SubSeq(s, 1, m)) = m  BY <1>2, <1>3
<1>5. \A i \in 1 .. m : SubSeq(s, 1, m)[i] = s[i]
  <2> SUFFICES ASSUME NEW i \in 1 .. m  PROVE SubSeq(s, 1, m)[i] = s[i]
    OBVIOUS
  <2>1. 1 + i - 1 = i  OBVIOUS
  <2> QED  BY <1>2, <1>3, <2>1
<1>6. DOMAIN SubSeq(s, 1, m) = 1 .. m  BY <1>2, <1>4
<1> QED  BY <1>2, <1>4, <1>5, <1>6

(* A sequence and one more.                                                  *)
LEMMA OneMore ==
  ASSUME NEW S, NEW s \in Seq(S), NEW e \in S
  PROVE  /\ Append(s, e) \in Seq(S) /\ Len(Append(s, e)) = Len(s) + 1
         /\ Len(s) \in Nat /\ DOMAIN s = 1 .. Len(s)
         /\ DOMAIN Append(s, e) = DOMAIN s \cup {Len(s) + 1}
         /\ Append(s, e)[Len(s) + 1] = e
         /\ \A i \in DOMAIN s : Append(s, e)[i] = s[i]
         /\ Append(s, e) # <<>> /\ Len(s) + 1 \notin DOMAIN s
<1>1. Len(s) \in Nat /\ DOMAIN s = 1 .. Len(s) /\ DOMAIN Append(s, e) = 1 .. Len(s) + 1  OBVIOUS
<1>2. 1 .. Len(s) + 1 = 1 .. Len(s) \cup {Len(s) + 1}  BY <1>1
<1>3. Append(s, e) \in Seq(S) /\ Len(Append(s, e)) = Len(s) + 1 /\ Append(s, e)[Len(s) + 1] = e
  OBVIOUS
<1>4. \A i \in DOMAIN s : Append(s, e)[i] = s[i]  OBVIOUS
<1>5. Append(s, e) # <<>>  BY AppendProperties
<1> QED  BY <1>1, <1>2, <1>3, <1>4, <1>5

(* Of stacked targets, those of open calls above a height are the lower ones *)
(* of the outer instruction that runs; without heights there are none.       *)
LEMMA OpenOnes ==
  ASSUME NEW targets \in Seq(Target), Stacked(targets), heights \in BOOLEAN, outer \in Nat,
         NEW h \in Nat, heights => h # Unknown, ~ heights => h = Unknown
  PROVE  \E m \in 0 .. Len(targets) :
           /\ OpenAbove(targets, h) = SubSeq(targets, 1, m)
           /\ ~ heights => m = 0
           /\ \A n \in 1 .. m : targets[n].outer = outer /\ targets[n].height < h
           /\ \A n \in DOMAIN targets : heights /\ targets[n].outer = outer /\ targets[n].height < h
                => n \in 1 .. m
<1> DEFINE Below == {n \in DOMAIN targets :
                       /\ targets[n].outer = outer
                       /\ targets[n].height = Unknown \/ targets[n].height < h}
           m == Latest(Below)
<1>1. Len(targets) \in Nat /\ DOMAIN targets = 1 .. Len(targets)
      /\ \A n \in DOMAIN targets : targets[n] \in Target
  OBVIOUS
<1>2. \A n \in DOMAIN targets : targets[n].height \in Nat
  BY <1>1, InstructionMergeAssumption DEF Target
<1>3. CASE ~ heights
  <2>1. OpenAbove(targets, h) = <<>>  BY <1>3 DEF OpenAbove
  <2>2. SubSeq(targets, 1, 0) = <<>>  BY SubSeqEmpty
  <2>3. 0 \in 0 .. Len(targets) /\ 1 .. 0 = {}  BY <1>1
  <2> QED  BY <1>3, <2>1, <2>2, <2>3
<1>4. CASE heights
  <2>1. Below \in SUBSET (1 .. Len(targets))  BY <1>1
  <2> HIDE DEF Below
  <2>2. /\ m \in 0 .. Len(targets) /\ (m # 0 => m \in Below) /\ \A y \in Below : y <= m
    BY <1>1, <2>1, LatestIs
  <2> HIDE DEF m
  <2>3. OpenAbove(targets, h) = SubSeq(targets, 1, m)
    BY <1>4 DEF OpenAbove, m, Below
  <2>4. ASSUME NEW n \in 1 .. m  PROVE targets[n].outer = outer /\ targets[n].height < h
    <3>1. n \in DOMAIN targets /\ m \in DOMAIN targets /\ m # 0  BY <1>1, <2>2, <2>4
    <3>2. m \in Below  BY <2>2, <3>1
    <3>3. targets[m].outer = outer /\ targets[m].height < h
      BY <1>4, <3>1, <3>2 DEF Below, Stacked, StackedIn
    <3>4. targets[n].outer = outer  BY <3>1, <3>3 DEF Stacked, StackedIn
    <3>5. CASE n = m  BY <3>3, <3>5
    <3>6. CASE n < m
      <4>1. targets[n].height < targets[m].height  BY <3>1, <3>6 DEF Stacked, StackedIn
      <4> QED  BY <1>2, <3>1, <3>3, <3>4, <4>1
    <3> QED  BY <2>2, <2>4, <3>5, <3>6
  <2>5. ASSUME NEW n \in DOMAIN targets, targets[n].outer = outer, targets[n].height < h
        PROVE  n \in 1 .. m
    <3>1. n \in Below  BY <2>5 DEF Below
    <3> QED  BY <1>1, <2>2, <3>1
  <2> QED  BY <1>4, <2>2, <2>3, <2>4, <2>5
<1> QED  BY <1>3, <1>4

(* The latest target that an event at a height may be a child of, if any; of *)
(* a call that runs on top it is its own.                                    *)
LEMMA LatestCaller ==
  ASSUME NEW targets \in Seq(Target), Stacked(targets), heights \in BOOLEAN,
         NEW k \in Nat, NEW h, heights => h = k + 1, ~ heights => h = Unknown
  PROVE  /\ Callers(targets, h) \in SUBSET DOMAIN targets
         /\ \A n \in Callers(targets, h) : targets[n].outer = outer /\ (heights => targets[n].height = k)
         /\ \A n \in DOMAIN targets :
              targets[n].outer = outer /\ (heights => targets[n].height = k) =>
                Callers(targets, h) = {n}
<1>1. Len(targets) \in Nat /\ DOMAIN targets = 1 .. Len(targets)
      /\ \A n \in DOMAIN targets : targets[n] \in Target
  OBVIOUS
<1>2. \A n \in DOMAIN targets : targets[n].height \in Nat
  BY <1>1, InstructionMergeAssumption DEF Target
<1>3. ASSUME NEW n \in DOMAIN targets
      PROVE  n \in Callers(targets, h) <=>
               targets[n].outer = outer /\ (heights => targets[n].height = k)
  <2>1. heights => targets[n].height # Unknown  BY <1>3 DEF Stacked, StackedIn
  <2>2. CASE heights
    <3>1. h = k + 1 /\ h # Unknown  BY <2>2 DEF Unknown
    <3>2. h = targets[n].height + 1 <=> targets[n].height = k  BY <1>2, <1>3, <3>1
    <3> QED  BY <1>3, <2>1, <2>2, <3>1, <3>2 DEF Callers
  <2>3. CASE ~ heights  BY <1>3, <2>3 DEF Callers
  <2> QED  BY <2>2, <2>3
<1>4. Callers(targets, h) \in SUBSET DOMAIN targets  BY DEF Callers
<1>5. ASSUME NEW m \in DOMAIN targets, NEW n \in DOMAIN targets,
             heights => targets[m].height = targets[n].height
      PROVE  m = n
  <2>1. ~ m < n  BY <1>2, <1>5 DEF Stacked, StackedIn
  <2>2. ~ n < m  BY <1>2, <1>5 DEF Stacked, StackedIn
  <2> QED  BY <1>1, <2>1, <2>2
<1>6. ASSUME NEW n \in DOMAIN targets, targets[n].outer = outer, heights => targets[n].height = k
      PROVE  Callers(targets, h) = {n}
  <2>1. n \in Callers(targets, h)  BY <1>3, <1>6
  <2>2. \A m \in Callers(targets, h) : m = n  BY <1>3, <1>4, <1>5, <1>6
  <2> QED  BY <2>1, <2>2
<1> QED  BY <1>3, <1>4, <1>6

-----------------------------------------------------------------------------
(* The runtime *)

(* A call is one more call, on top of the stack and new to it.               *)
LEMMA InvokeStep ==
  ASSUME TypeOK, Nested, NEW p \in Programs, NEW id \in Identities, NEW decoded \in BOOLEAN,
         Invoke(p, id, decoded),
         decoded => p # "router"
  PROVE  /\ Len(calls) + 1 \in 1 .. MaxCalls /\ Len(running) + 1 \in 1 .. MaxDepth
         /\ calls' \in Seq(Call) /\ Len(calls') <= MaxCalls
         /\ DOMAIN calls' = DOMAIN calls \cup {Len(calls) + 1}
         /\ Len(calls) + 1 \notin DOMAIN calls
         /\ calls'[Len(calls) + 1] =
              [program |-> p, identity |-> id, inner |-> running # <<>>, decoded |-> decoded,
               emitted |-> FALSE]
         /\ \A i \in DOMAIN calls : calls'[i] = calls[i]
         /\ running' \in Seq(Nat \ {0}) /\ running' # <<>>
         /\ DOMAIN running' = DOMAIN running \cup {Len(running) + 1}
         /\ Len(running) + 1 \notin DOMAIN running
         /\ running'[Len(running) + 1] = Len(calls) + 1
         /\ \A k \in DOMAIN running : running'[k] = running[k]
         /\ heights' = heights /\ outer' \in Nat
         /\ outer' = IF running = <<>> THEN outer + 1 ELSE outer
         /\ p # "router" => \A k \in DOMAIN running : calls[running[k]].program # p
         /\ Nested'
<1> DEFINE call == [program |-> p, identity |-> id, inner |-> running # <<>>,
                    decoded |-> decoded, emitted |-> FALSE]
           new == Len(calls) + 1
           top == Len(running) + 1
<1>1. /\ Len(calls) < MaxCalls /\ Len(running) < MaxDepth
      /\ p = "router" \/ ~ Running(p)
      /\ calls' = Append(calls, call)
      /\ running' = Append(running, new)
      /\ outer' = IF running = <<>> THEN outer + 1 ELSE outer
      /\ heights' = heights
  BY DEF Invoke
<1>2. /\ calls \in Seq(Call) /\ running \in Seq(Nat \ {0}) /\ outer \in Nat
      /\ Len(calls) \in Nat /\ Len(running) \in Nat /\ MaxCalls \in Nat /\ MaxDepth \in Nat
  BY InstructionMergeAssumption DEF TypeOK
<1>3. call \in Call  BY DEF Call
<1> HIDE DEF call
<1>4. new \in Nat \ {0} /\ new \in 1 .. MaxCalls /\ top \in 1 .. MaxDepth  BY <1>1, <1>2
<1>5. /\ calls' \in Seq(Call) /\ Len(calls') = new
      /\ DOMAIN calls' = DOMAIN calls \cup {new} /\ new \notin DOMAIN calls
      /\ calls'[new] = call /\ \A i \in DOMAIN calls : calls'[i] = calls[i]
  BY <1>1, <1>2, <1>3, OneMore
<1>6. /\ running' \in Seq(Nat \ {0}) /\ running' # <<>> /\ Len(running') = top
      /\ DOMAIN running' = DOMAIN running \cup {top} /\ top \notin DOMAIN running
      /\ running'[top] = new /\ \A k \in DOMAIN running : running'[k] = running[k]
  BY <1>1, <1>2, <1>4, OneMore
<1>7. Len(calls') <= MaxCalls  BY <1>4, <1>5
<1>8. p # "router" => \A k \in DOMAIN running : calls[running[k]].program # p
  BY <1>1 DEF Running
<1>9. call.program = p /\ call.decoded = decoded /\ call.inner = (running # <<>>)  BY DEF call
<1> HIDE DEF new, top
<1>10. Nested'
  <2>1. Len(running') <= MaxDepth  BY <1>4, <1>6
  <2>2. ASSUME NEW k \in DOMAIN running'
        PROVE  /\ running'[k] \in DOMAIN calls'
               /\ k > 1 => calls'[running'[k]].inner
    <3>1. CASE k \in DOMAIN running
      <4>1. running'[k] = running[k] /\ running[k] \in DOMAIN calls  BY <1>6, <3>1 DEF Nested
      <4> QED  BY <1>5, <3>1, <4>1 DEF Nested
    <3>2. CASE k = top
      <4>1. k > 1 => running # <<>>  BY <1>2, <3>2 DEF top
      <4> QED  BY <1>5, <1>6, <1>9, <3>2, <4>1
    <3> QED  BY <1>6, <2>2, <3>1, <3>2
  <2>3. ASSUME NEW k \in DOMAIN running', NEW l \in DOMAIN running',
               calls'[running'[k]].program = calls'[running'[l]].program,
               calls'[running'[k]].program # "router"
        PROVE  k = l
    <3>1. \A j \in DOMAIN running : running'[j] = running[j] /\ calls'[running'[j]] = calls[running[j]]
      BY <1>5, <1>6 DEF Nested
    <3>2. calls'[running'[top]].program = p  BY <1>5, <1>6, <1>9
    <3>3. CASE k = top /\ l = top  BY <3>3
    <3>4. CASE k \in DOMAIN running /\ l \in DOMAIN running  BY <2>3, <3>1, <3>4 DEF Nested
    <3>5. CASE k = top /\ l \in DOMAIN running  BY <1>8, <2>3, <3>1, <3>2, <3>5
    <3>6. CASE k \in DOMAIN running /\ l = top  BY <1>8, <2>3, <3>1, <3>2, <3>6
    <3> QED  BY <1>6, <2>3, <3>3, <3>4, <3>5, <3>6
  <2>4. \A i \in DOMAIN calls' : calls'[i].program = "router" => ~ calls'[i].decoded
    BY <1>5, <1>9 DEF Nested
  <2> QED  BY <2>1, <2>2, <2>3, <2>4 DEF Nested
<1> QED
  BY <1>1, <1>2, <1>4, <1>5, <1>6, <1>7, <1>8, <1>10 DEF new, top, call

(* The call on top emits its event; nothing else changes of the calls.       *)
LEMMA EmitStep ==
  ASSUME TypeOK, Nested, Emit
  PROVE  LET k == Len(running)
             i == running[k]
         IN /\ k \in DOMAIN running /\ i \in DOMAIN calls
            /\ calls[i].program # "router" /\ ~ calls[i].emitted
            /\ calls' \in Seq(Call) /\ Len(calls') = Len(calls) /\ DOMAIN calls' = DOMAIN calls
            /\ calls'[i].emitted
            /\ \A j \in DOMAIN calls :
                 /\ calls'[j].program = calls[j].program /\ calls'[j].identity = calls[j].identity
                 /\ calls'[j].decoded = calls[j].decoded /\ calls'[j].inner = calls[j].inner
                 /\ j # i => calls'[j].emitted = calls[j].emitted
            /\ UNCHANGED <<heights, running, outer>>
            /\ Nested'
<1> DEFINE k == Len(running)
           i == running[k]
<1>1. /\ running # <<>> /\ calls[i].program # "router" /\ ~ calls[i].emitted
      /\ calls' = [calls EXCEPT ![i].emitted = TRUE]
      /\ UNCHANGED <<heights, running, outer>>
  BY DEF Emit
<1>2. calls \in Seq(Call) /\ running \in Seq(Nat \ {0})  BY DEF TypeOK
<1>3. k \in DOMAIN running  BY <1>1, <1>2
<1> HIDE DEF k
<1>4. i \in DOMAIN calls  BY <1>3 DEF Nested
<1> HIDE DEF i
<1>5. calls[i] \in Call /\ [calls[i] EXCEPT !.emitted = TRUE] \in Call
  <2>1. calls[i] \in Call  BY <1>2, <1>4
  <2>2. \A c \in Call : [c EXCEPT !.emitted = TRUE] \in Call  BY DEF Call
  <2> QED  BY <2>1, <2>2
<1>6. calls' = [calls EXCEPT ![i] = [calls[i] EXCEPT !.emitted = TRUE]]  BY <1>1
<1>7. calls' \in Seq(Call) /\ Len(calls') = Len(calls) /\ DOMAIN calls' = DOMAIN calls
  BY <1>2, <1>4, <1>5, <1>6, ExceptSeq
<1>8. calls'[i] = [calls[i] EXCEPT !.emitted = TRUE] /\ \A j \in DOMAIN calls : j # i => calls'[j] = calls[j]
  BY <1>2, <1>4, <1>6
<1>9. ASSUME NEW j \in DOMAIN calls
      PROVE  /\ calls'[j].program = calls[j].program /\ calls'[j].identity = calls[j].identity
             /\ calls'[j].decoded = calls[j].decoded /\ calls'[j].inner = calls[j].inner
             /\ j # i => calls'[j].emitted = calls[j].emitted
  <2>1. CASE j = i
    <3>1. \A c \in Call : LET d == [c EXCEPT !.emitted = TRUE]
                          IN /\ d.program = c.program /\ d.identity = c.identity
                             /\ d.decoded = c.decoded /\ d.inner = c.inner
      BY DEF Call
    <3> QED  BY <1>5, <1>8, <2>1, <3>1
  <2>2. CASE j # i  BY <1>8, <1>9, <2>2
  <2> QED  BY <2>1, <2>2
<1>10. calls'[i].emitted  BY <1>5, <1>8 DEF Call
<1>11. Nested'
  <2>1. running' = running  BY <1>1
  <2> QED  BY <1>7, <1>9, <2>1 DEF Nested
<1> QED  BY <1>1, <1>3, <1>4, <1>7, <1>9, <1>10, <1>11 DEF i, k

(* The call on top has emitted, or emits nothing, and returns.               *)
LEMMA ReturnStep ==
  ASSUME TypeOK, Nested, Return
  PROVE  LET k == Len(running)
         IN /\ k \in DOMAIN running
            /\ calls[running[k]].emitted \/ ~ calls[running[k]].decoded
            /\ running' \in Seq(Nat \ {0}) /\ Len(running') = k - 1
            /\ DOMAIN running' = DOMAIN running \ {k}
            /\ running' # <<>> => running # <<>> /\ running'[1] = running[1]
            /\ \A j \in DOMAIN running' : running'[j] = running[j]
            /\ UNCHANGED <<heights, calls, outer, merger>>
            /\ Nested'
<1> DEFINE k == Len(running)
<1>1. /\ running # <<>>
      /\ calls[running[k]].emitted \/ calls[running[k]].program = "router"
      /\ running' = SubSeq(running, 1, k - 1)
      /\ UNCHANGED <<heights, calls, outer, merger>>
  BY DEF Return
<1>2. running \in Seq(Nat \ {0})  BY DEF TypeOK
<1>3. k \in Nat /\ k # 0 /\ DOMAIN running = 1 .. k /\ k - 1 \in 0 .. k  BY <1>1, <1>2
<1>4. /\ running' \in Seq(Nat \ {0}) /\ Len(running') = k - 1 /\ DOMAIN running' = 1 .. k - 1
      /\ \A j \in 1 .. k - 1 : running'[j] = running[j]
  BY <1>1, <1>2, <1>3, FirstOnes
<1> HIDE DEF k
<1>5. k \in DOMAIN running /\ DOMAIN running' = DOMAIN running \ {k}  BY <1>3, <1>4
<1>6. calls[running[k]].emitted \/ ~ calls[running[k]].decoded  BY <1>1, <1>5 DEF Nested
<1>7. running' # <<>> => running'[1] = running[1]
  <2>1. running' # <<>> => 1 \in DOMAIN running'  BY <1>4
  <2> QED  BY <1>4, <2>1
<1>8. \A j \in DOMAIN running' : j \in DOMAIN running /\ running'[j] = running[j]  BY <1>4, <1>5
<1>9. Nested'
  <2>1. Len(running') <= MaxDepth
    <3>1. k <= MaxDepth /\ MaxDepth \in Nat  BY InstructionMergeAssumption DEF Nested, k
    <3> QED  BY <1>3, <1>4, <3>1
  <2>2. calls' = calls  BY <1>1
  <2> QED  BY <1>8, <2>1, <2>2 DEF Nested
<1> QED  BY <1>1, <1>4, <1>5, <1>6, <1>7, <1>8, <1>9 DEF k

-----------------------------------------------------------------------------
(* Where an execution lands *)

(* The event of the execution of call i is added or goes to an event of its  *)
(* own program: that of call i if the program's events can be told apart.    *)
Lands(i) ==
  \/ /\ result' = Append(result, [program |-> calls[i].program, identity |-> calls[i].identity,
                                  call |-> None, execution |-> i])
     /\ ~ (Awaited(i) /\ Separable(calls[i].program))
  \/ \E a \in DOMAIN result :
       /\ result' = [result EXCEPT ![a].execution = i]
       /\ result[a].program = calls[i].program
       /\ Separable(calls[i].program) => result[a].call = i

(* What is known of the call on top when it emits.                           *)
LEMMA OnTop ==
  ASSUME IInv, Emit
  PROVE  LET k == Len(running)
             i == running[k]
         IN /\ k \in DOMAIN running /\ k \in Nat /\ i \in DOMAIN calls /\ i \in Nat \ {0}
            /\ calls[i].program # "router" /\ ~ calls[i].emitted
            /\ Height = IF heights THEN k + 1 ELSE Unknown
            /\ running # <<>> /\ heights \in BOOLEAN
            /\ \A l \in DOMAIN running :
                 calls[running[l]].program = calls[i].program => l = k
<1>1. TypeOK /\ Nested  BY DEF IInv
<1>2. running \in Seq(Nat \ {0}) /\ heights \in BOOLEAN /\ running # <<>>  BY <1>1 DEF TypeOK, Emit
<1> DEFINE k == Len(running)
           i == running[k]
<1>3. /\ k \in DOMAIN running /\ i \in DOMAIN calls
      /\ calls[i].program # "router" /\ ~ calls[i].emitted
  BY <1>1, EmitStep
<1>4. k \in Nat /\ i \in Nat \ {0}  BY <1>2, <1>3
<1>5. Height = IF heights THEN k + 1 ELSE Unknown  BY DEF Height
<1>6. \A l \in DOMAIN running : calls[running[l]].program = calls[i].program => l = k
  BY <1>1, <1>3 DEF Nested
<1> QED  BY <1>2, <1>3, <1>4, <1>5, <1>6

(* An event of the call that emits fits what it emits.                       *)
LEMMA OwnFits ==
  ASSUME IInv, NEW a \in DOMAIN result, NEW i \in Nat \ {0}, result[a].call = i
  PROVE  /\ i \in DOMAIN calls /\ calls[i].decoded
         /\ result[a].program = calls[i].program /\ result[a].identity = calls[i].identity
BY DEF IInv, Stems, Stem, None

(* A trade lands in its own call's event, which the latest caller is.        *)
LEMMA TradeLands ==
  ASSUME IInv, Emit, calls[running[Len(running)]].program \in Trades
  PROVE  LET k == Len(running)
             n == Latest(Callers(pumpTargets, Height))
         IN /\ Lands(running[k])
            /\ n \in 0 .. Len(pumpTargets)
            /\ n # 0 => pumpTargets[n].outer = outer /\ (heights => pumpTargets[n].height = k)
            /\ \A m \in DOMAIN pumpTargets : Own(pumpTargets[m], k) => n = m
            /\ pumpTargets' = IF n = 0 THEN pumpTargets ELSE [pumpTargets EXCEPT ![n].used = TRUE]
            /\ UNCHANGED <<outerTarget, dlmmTargets>>
<1> DEFINE k == Len(running)
           i == running[k]
           n == Latest(Callers(pumpTargets, Height))
           e == [program |-> calls[i].program, identity |-> calls[i].identity,
                 call |-> None, execution |-> i]
<1>1. /\ k \in DOMAIN running /\ k \in Nat /\ i \in DOMAIN calls /\ i \in Nat \ {0}
      /\ calls[i].program # "router" /\ ~ calls[i].emitted
      /\ Height = (IF heights THEN k + 1 ELSE Unknown) /\ heights \in BOOLEAN
      /\ \A l \in DOMAIN running : calls[running[l]].program = calls[i].program => l = k
  BY OnTop
<1>2. TakeTradeExecution(e, Height)  BY DEF Emit
<1>3. /\ result' = IF n # 0 /\ ~ pumpTargets[n].used /\ Compatible(result[pumpTargets[n].at], e)
                   THEN MergedInto(pumpTargets[n].at, e)
                   ELSE Append(result, e)
      /\ pumpTargets' = IF n = 0 THEN pumpTargets ELSE [pumpTargets EXCEPT ![n].used = TRUE]
      /\ UNCHANGED <<outerTarget, dlmmTargets>>
  BY <1>2 DEF TakeTradeExecution
<1>4. e.program = calls[i].program /\ e.identity = calls[i].identity /\ e.execution = i
  OBVIOUS
<1>5. pumpTargets \in Seq(Target) /\ Stacked(pumpTargets)  BY DEF IInv, TypeOK
<1>6. Len(pumpTargets) \in Nat /\ DOMAIN pumpTargets = 1 .. Len(pumpTargets)  BY <1>5
<1> DEFINE C == Callers(pumpTargets, Height)
<1> HIDE DEF k, i, e
<1>7. /\ C \in SUBSET DOMAIN pumpTargets
      /\ \A m \in C : pumpTargets[m].outer = outer /\ (heights => pumpTargets[m].height = k)
      /\ \A m \in DOMAIN pumpTargets :
           pumpTargets[m].outer = outer /\ (heights => pumpTargets[m].height = k) => C = {m}
  <2>1. (heights => Height = k + 1) /\ (~ heights => Height = Unknown)  BY <1>1
  <2>2. k \in Nat /\ heights \in BOOLEAN  BY <1>1
  <2> QED  BY ONLY <1>5, <2>1, <2>2, LatestCaller
<1> HIDE DEF C
<1>8. n \in 0 .. Len(pumpTargets) /\ (n # 0 => n \in C) /\ (n = 0 <=> C = {})
  BY <1>6, <1>7, LatestIs DEF C
<1> HIDE DEF n
<1>9. ASSUME NEW m \in DOMAIN pumpTargets, Own(pumpTargets[m], k)  PROVE n = m
  <2>1. C = {m}  BY <1>7, <1>9 DEF Own
  <2> QED  BY <1>8, <2>1
<1>10. CASE n # 0 /\ ~ pumpTargets[n].used /\ Compatible(result[pumpTargets[n].at], e)
  <2> DEFINE t == pumpTargets[n]
  <2>1. n \in DOMAIN pumpTargets /\ t.outer = outer  BY <1>7, <1>8, <1>10
  <2>2. t.at \in DOMAIN result  BY <1>5, <2>1 DEF Stacked, StackedIn
  <2>3. PICK l \in DOMAIN running : Own(t, l)  BY <1>10, <2>1 DEF IInv, UnusedRuns
  <2>4. result[t.at].call = running[l] /\ running[l] \in Nat \ {0}
    BY <2>3 DEF Own, IInv, TypeOK
  <2>5. result[t.at].program = calls[i].program  BY <1>4, <1>10 DEF Compatible
  <2>6. calls[running[l]].program = calls[i].program  BY <2>2, <2>4, <2>5, OwnFits
  <2>7. result[t.at].call = i  BY <1>1, <2>4, <2>6 DEF i
  <2>8. result' = [result EXCEPT ![t.at].execution = i]  BY <1>3, <1>4, <1>10 DEF MergedInto
  <2>9. Lands(i)  BY <2>2, <2>5, <2>7, <2>8 DEF Lands
  <2> QED  BY <1>3, <1>7, <1>8, <1>9, <2>9 DEF k, i, n
<1>11. CASE ~ (n # 0 /\ ~ pumpTargets[n].used /\ Compatible(result[pumpTargets[n].at], e))
  <2>1. result' = Append(result, e)  BY <1>3, <1>11
  <2>2. ASSUME Awaited(i)  PROVE FALSE
    <3>0. heights /\ calls[i].decoded /\ calls[i].program # "lone"
      BY <2>2 DEF Awaited, Trades, i, k
    <3>1. Held(pumpTargets, k)  BY <1>1, <3>0 DEF IInv, PumpHeld, i, k
    <3>2. PICK m \in DOMAIN pumpTargets : Own(pumpTargets[m], k) /\ ~ pumpTargets[m].used
      BY <1>1, <3>1 DEF Held, i
    <3>3. m = n /\ n # 0  BY <1>6, <1>9, <3>2
    <3>4. pumpTargets[n].at \in DOMAIN result /\ result[pumpTargets[n].at].call = i
      BY <1>5, <3>2, <3>3 DEF Stacked, StackedIn, Own, i
    <3>5. Compatible(result[pumpTargets[n].at], e)
      BY <1>1, <1>4, <3>0, <3>4, OwnFits DEF Compatible
    <3> QED  BY <1>11, <3>2, <3>3, <3>5
  <2>3. Lands(i)  BY <2>1, <2>2 DEF Lands, e
  <2> QED  BY <1>3, <1>7, <1>8, <1>9, <2>3 DEF k, i, n
<1> QED  BY <1>10, <1>11

(* A DLMM event lands in its own call's event, if every DLMM call was        *)
(* decoded; the targets up to that of the call are kept.                     *)
LEMMA DlmmLands ==
  ASSUME IInv, Emit, calls[running[Len(running)]].program = "dlmm"
  PROVE  LET k == Len(running)
         IN /\ Lands(running[k])
            /\ \E c \in 0 .. Len(dlmmTargets) :
                 /\ dlmmTargets' = SubSeq(dlmmTargets, 1, c)
                 /\ AllDecoded("dlmm") =>
                      \E n \in 1 .. c : Own(dlmmTargets[n], k) /\ ~ calls[running[k]].emitted
            /\ UNCHANGED <<outerTarget, pumpTargets>>
<1> DEFINE k == Len(running)
           i == running[k]
           e == [program |-> calls[i].program, identity |-> calls[i].identity,
                 call |-> None, execution |-> i]
           callers == Callers(dlmmTargets, Height)
           fitting == {n \in callers : Compatible(result[dlmmTargets[n].at], e)}
<1>1. /\ k \in DOMAIN running /\ k \in Nat /\ i \in DOMAIN calls /\ i \in Nat \ {0}
      /\ ~ calls[i].emitted
      /\ (heights => Height = k + 1) /\ (~ heights => Height = Unknown) /\ heights \in BOOLEAN
  BY OnTop
<1>2. TakeDlmmExecution(e, Height)  BY DEF Emit, Trades
<1>3. /\ result' = IF fitting = {} THEN Append(result, e)
                   ELSE MergedInto(dlmmTargets[Max(fitting)].at, e)
      /\ dlmmTargets' = IF callers = {} THEN dlmmTargets
                        ELSE SubSeq(dlmmTargets, 1,
                                    IF fitting = {} THEN Min(callers) ELSE Max(fitting))
      /\ UNCHANGED <<outerTarget, pumpTargets>>
  BY <1>2 DEF TakeDlmmExecution
<1>4. e.program = calls[i].program /\ e.identity = calls[i].identity /\ e.execution = i
      /\ calls[i].program = "dlmm"
  OBVIOUS
<1>5. dlmmTargets \in Seq(Target) /\ Stacked(dlmmTargets)  BY DEF IInv, TypeOK
<1>6. Len(dlmmTargets) \in Nat /\ DOMAIN dlmmTargets = 1 .. Len(dlmmTargets)  BY <1>5
<1>7. Separable("dlmm") <=> AllDecoded("dlmm")  BY DEF Separable
<1>8. /\ \A n \in fitting : n \in callers /\ Compatible(result[dlmmTargets[n].at], e)
      /\ \A n \in callers : Compatible(result[dlmmTargets[n].at], e) => n \in fitting
  OBVIOUS
<1>9. callers \in SUBSET DOMAIN dlmmTargets  BY DEF Callers
<1>10. \A n \in DOMAIN dlmmTargets : Own(dlmmTargets[n], k) => callers = {n}
  <2> SUFFICES ASSUME NEW n \in DOMAIN dlmmTargets, Own(dlmmTargets[n], k)  PROVE callers = {n}
    OBVIOUS
  <2>1. dlmmTargets[n].outer = outer /\ (heights => dlmmTargets[n].height = k)  BY DEF Own
  <2> HIDE DEF k
  <2> QED  BY <1>1, <1>5, <2>1, LatestCaller
<1>11. AllDecoded("dlmm") =>
         \E n \in DOMAIN dlmmTargets : Own(dlmmTargets[n], k) /\ n \in fitting /\ callers = {n}
  <2> SUFFICES ASSUME AllDecoded("dlmm")
               PROVE  \E n \in DOMAIN dlmmTargets :
                        Own(dlmmTargets[n], k) /\ n \in fitting /\ callers = {n}
    OBVIOUS
  <2>1. Held(dlmmTargets, k)  BY <1>1, <1>4 DEF IInv, DlmmHeld
  <2>2. PICK n \in DOMAIN dlmmTargets : Own(dlmmTargets[n], k)  BY <2>1 DEF Held
  <2>3. callers = {n}  BY <1>10, <2>2
  <2>4. dlmmTargets[n].at \in DOMAIN result /\ result[dlmmTargets[n].at].call = i
    BY <1>5, <2>2 DEF Stacked, StackedIn, Own
  <2>5. Compatible(result[dlmmTargets[n].at], e)  BY <1>1, <1>4, <2>4, OwnFits DEF Compatible
  <2>6. n \in fitting  BY <1>8, <2>3, <2>5
  <2> QED  BY <2>2, <2>3, <2>6
<1> HIDE DEF k, i, e, callers, fitting
<1>12. CASE fitting # {}
  <2> DEFINE c == Max(fitting)
  <2>1. fitting \in SUBSET (0 .. Len(dlmmTargets))  BY <1>6, <1>8, <1>9
  <2>2. c \in fitting  BY <1>6, <1>12, <2>1, Greatest
  <2> HIDE DEF c
  <2>3. c \in DOMAIN dlmmTargets /\ c \in callers  BY <1>8, <1>9, <2>2
  <2>4. dlmmTargets[c].at \in DOMAIN result  BY <1>5, <2>3 DEF Stacked, StackedIn
  <2>5. result[dlmmTargets[c].at].program = calls[i].program  BY <1>4, <1>8, <2>2 DEF Compatible
  <2>6. AllDecoded("dlmm") => Own(dlmmTargets[c], k)  BY <1>8, <1>11, <2>2, <2>3
  <2>7. result' = [result EXCEPT ![dlmmTargets[c].at].execution = i]
    BY <1>3, <1>4, <1>12 DEF MergedInto, c
  <2>8. Lands(i)  BY <1>4, <1>7, <2>4, <2>5, <2>6, <2>7 DEF Lands, Own, i
  <2>9. dlmmTargets' = SubSeq(dlmmTargets, 1, c)  BY <1>3, <1>12, <2>3 DEF c
  <2>10. c \in 0 .. Len(dlmmTargets) /\ c \in 1 .. c  BY <1>6, <2>3
  <2> QED  BY <1>1, <1>3, <2>6, <2>8, <2>9, <2>10 DEF k, i
<1>13. CASE fitting = {}
  <2>1. ~ AllDecoded("dlmm")  BY <1>11, <1>13
  <2>2. Lands(i)  BY <1>3, <1>4, <1>7, <1>13, <2>1 DEF Lands, e
  <2>3. \E c \in 0 .. Len(dlmmTargets) : dlmmTargets' = SubSeq(dlmmTargets, 1, c)
    <3>1. CASE callers = {}
      <4>1. dlmmTargets = SubSeq(dlmmTargets, 1, Len(dlmmTargets))  BY <1>5, SubSeqFull
      <4>2. dlmmTargets' = SubSeq(dlmmTargets, 1, Len(dlmmTargets))  BY <1>3, <3>1, <4>1
      <4>3. Len(dlmmTargets) \in 0 .. Len(dlmmTargets)  BY <1>6
      <4> QED  BY <4>2, <4>3
    <3>2. CASE callers # {}
      <4>1. Min(callers) \in callers  BY <1>6, <1>9, <3>2, Lowest
      <4>2. Min(callers) \in 0 .. Len(dlmmTargets)  BY <1>6, <1>9, <4>1
      <4>3. dlmmTargets' = SubSeq(dlmmTargets, 1, Min(callers))  BY <1>3, <1>13, <3>2
      <4> QED  BY <4>2, <4>3
    <3> QED  BY <3>1, <3>2
  <2> QED  BY <1>3, <2>1, <2>2, <2>3 DEF k, i
<1> QED  BY <1>12, <1>13

(* Any other event lands in the outer event, if that is of its own call.     *)
LEMMA OtherLands ==
  ASSUME IInv, Emit, calls[running[Len(running)]].program \notin Trades \cup {"dlmm"}
  PROVE  Lands(running[Len(running)]) /\ UNCHANGED <<outerTarget, pumpTargets, dlmmTargets>>
<1> DEFINE k == Len(running)
           i == running[k]
           e == [program |-> calls[i].program, identity |-> calls[i].identity,
                 call |-> None, execution |-> i]
           a == outerTarget.at
<1>1. /\ k \in DOMAIN running /\ k \in Nat /\ i \in DOMAIN calls /\ i \in Nat \ {0}
      /\ running # <<>>
      /\ \A l \in DOMAIN running : calls[running[l]].program = calls[i].program => l = k
  BY OnTop
<1>2. TakeOther(e, Height)  BY DEF Emit
<1>3. e.program = calls[i].program /\ e.identity = calls[i].identity /\ e.execution = i
      /\ e.program # "dlmm"
  OBVIOUS
<1>4. /\ result' = IF OuterTakes(e) THEN MergedInto(a, e) ELSE Append(result, e)
      /\ UNCHANGED <<outerTarget, pumpTargets, dlmmTargets>>
  BY <1>2, <1>3 DEF TakeOther
<1>5. /\ a \in 0 .. Len(result)
      /\ outerTarget.outer = outer /\ a # 0 => result[a].call = running[1]
      /\ calls[running[1]].decoded => outerTarget.outer = outer /\ a # 0
  BY <1>1 DEF IInv, OuterRuns
<1>6. /\ result \in Seq(Event) /\ running \in Seq(Nat \ {0})
      /\ Len(result) \in Nat /\ DOMAIN result = 1 .. Len(result)
      /\ 1 \in DOMAIN running /\ running[1] \in Nat \ {0}
  BY <1>1 DEF IInv, TypeOK
<1> HIDE DEF a, e, i
<1>7. CASE OuterTakes(e)
  <2>1. outerTarget.outer = outer /\ a # 0 /\ Compatible(result[a], e)
    BY <1>7 DEF OuterTakes, a
  <2>2. a \in DOMAIN result /\ result[a].call = running[1]  BY <1>5, <1>6, <2>1
  <2>3. result[a].program = calls[i].program  BY <1>3, <2>1 DEF Compatible
  <2>4. calls[running[1]].program = calls[i].program  BY <1>6, <2>2, <2>3, OwnFits
  <2>5. result[a].call = i  BY <1>1, <1>6, <2>2, <2>4 DEF i
  <2>6. result' = [result EXCEPT ![a].execution = i]  BY <1>3, <1>4, <1>7 DEF MergedInto
  <2> QED  BY <1>4, <2>2, <2>3, <2>5, <2>6 DEF Lands, i
<1>8. CASE ~ OuterTakes(e)
  <2>1. ASSUME Awaited(i)  PROVE FALSE
    <3>0. calls[i].decoded /\ calls[i].program = "plain" /\ ~ calls[i].inner
      BY <2>1 DEF Awaited, i
    <3>1. k = 1
      <4>1. ~ k > 1  BY <1>1, <3>0 DEF IInv, Nested, i
      <4>3. k \in 1 .. Len(running)  BY <1>1, <1>6
      <4> HIDE DEF k
      <4>4. k >= 1 /\ k \in Nat  BY <1>1, <4>3
      <4> QED  BY <4>1, <4>4
    <3>2. outerTarget.outer = outer /\ a # 0 /\ a \in DOMAIN result /\ result[a].call = i
      BY <1>5, <1>6, <3>0, <3>1 DEF i
    <3>3. Compatible(result[a], e)  BY <1>1, <1>3, <3>0, <3>2, OwnFits DEF Compatible
    <3> QED  BY <1>8, <3>2, <3>3 DEF OuterTakes, a
  <2> QED  BY <1>4, <1>8, <2>1 DEF Lands, e, i
<1> QED  BY <1>7, <1>8

(* Wherever it lands: the event is in the result then.                       *)
LEMMA EmitLands ==
  ASSUME IInv, Emit
  PROVE  Lands(running[Len(running)]) /\ UNCHANGED outerTarget
BY TradeLands, DlmmLands, OtherLands

-----------------------------------------------------------------------------
(* The results *)

CallsGrow ==
  \A j \in DOMAIN calls :
    /\ j \in DOMAIN calls'
    /\ calls'[j].program = calls[j].program /\ calls'[j].identity = calls[j].identity
    /\ calls'[j].decoded = calls[j].decoded /\ calls'[j].inner = calls[j].inner
    /\ calls[j].emitted => calls'[j].emitted

EventsStay ==
  /\ Len(result') >= Len(result)
  /\ \A n \in DOMAIN result : n \in DOMAIN result' /\ result'[n].call = result[n].call

(* What can be told apart later can be told apart before.                    *)
LEMMA SeparableBefore ==
  ASSUME CallsGrow
  PROVE  /\ \A p : AllDecoded(p)' => AllDecoded(p)
         /\ \A p : Separable(p)' => Separable(p)
<1>1. \A p : AllDecoded(p)' => AllDecoded(p)  BY DEF CallsGrow, AllDecoded
<1> QED  BY <1>1 DEF Separable

(* Merging changes the execution that an event shows, and nothing else.      *)
LEMMA Merged ==
  ASSUME result \in Seq(Event), NEW a \in DOMAIN result, NEW i \in 0 .. MaxCalls,
         result' = [result EXCEPT ![a].execution = i]
  PROVE  /\ result' \in Seq(Event) /\ Len(result') = Len(result) /\ DOMAIN result' = DOMAIN result
         /\ \A n \in DOMAIN result :
              /\ result'[n].program = result[n].program /\ result'[n].identity = result[n].identity
              /\ result'[n].call = result[n].call
              /\ n # a => result'[n] = result[n]
         /\ result'[a].execution = i
<1> DEFINE r == [result[a] EXCEPT !.execution = i]
<1>1. result[a] \in Event  OBVIOUS
<1>2. \A e \in Event : LET f == [e EXCEPT !.execution = i]
                       IN /\ f \in Event /\ f.execution = i /\ f.program = e.program
                          /\ f.identity = e.identity /\ f.call = e.call
  BY DEF Event
<1>3. /\ r \in Event /\ r.execution = i /\ r.program = result[a].program
      /\ r.identity = result[a].identity /\ r.call = result[a].call
  BY <1>1, <1>2
<1>4. result' = [result EXCEPT ![a] = r]  OBVIOUS
<1> HIDE DEF r
<1>5. result' \in Seq(Event) /\ Len(result') = Len(result) /\ DOMAIN result' = DOMAIN result
  BY <1>3, <1>4, ExceptSeq
<1>6. result'[a] = r /\ \A n \in DOMAIN result : n # a => result'[n] = result[n]
  BY <1>4
<1>7. ASSUME NEW n \in DOMAIN result
      PROVE  /\ result'[n].program = result[n].program /\ result'[n].identity = result[n].identity
             /\ result'[n].call = result[n].call
  <2>1. CASE n = a  BY <1>3, <1>6, <2>1
  <2>2. CASE n # a  BY <1>6, <1>7, <2>2
  <2> QED  BY <2>1, <2>2
<1> QED  BY <1>3, <1>5, <1>6, <1>7

(* A new call, and its event if it is decoded.                               *)
LEMMA InvokeResults ==
  ASSUME IInv, NEW p \in Programs, NEW id \in Identities, NEW decoded \in BOOLEAN,
         Invoke(p, id, decoded),
         decoded => p # "router",
         result' = IF decoded THEN Append(result, CallEvent(p, id)) ELSE result
  PROVE  /\ CallsGrow /\ EventsStay /\ result' \in Seq(Event)
         /\ decoded => Len(result) + 1 \in DOMAIN result'
                       /\ result'[Len(result) + 1].call = Len(calls) + 1
         /\ Stems' /\ Single' /\ OwnExecution' /\ Present'
<1> DEFINE new == Len(calls) + 1
           e == CallEvent(p, id)
           last == Len(result) + 1
<1>1. /\ TypeOK /\ Nested /\ Stems /\ Single /\ OwnExecution /\ Present
      /\ result \in Seq(Event) /\ heights' = heights
  BY DEF IInv, TypeOK, Invoke
<1>2. /\ new \in 1 .. MaxCalls /\ new \notin DOMAIN calls
      /\ DOMAIN calls' = DOMAIN calls \cup {new}
      /\ calls'[new] = [program |-> p, identity |-> id, inner |-> running # <<>>,
                        decoded |-> decoded, emitted |-> FALSE]
      /\ \A i \in DOMAIN calls : calls'[i] = calls[i]
  BY <1>1, InvokeStep
<1>3. MaxCalls \in Nat  BY InstructionMergeAssumption
<1> HIDE DEF new
<1>4. e = [program |-> p, identity |-> id, call |-> new, execution |-> None]
  BY DEF CallEvent, new
<1>5. e \in Event  BY <1>2, <1>3, <1>4 DEF Event, None
<1>6. /\ e.program = p /\ e.identity = id /\ e.call = new /\ e.execution = None
      /\ new # None
  BY <1>2, <1>4 DEF None
<1> HIDE DEF e
<1>7. CallsGrow  BY <1>2 DEF CallsGrow
<1>8. /\ result' \in Seq(Event) /\ \A n \in DOMAIN result : n \in DOMAIN result' /\ result'[n] = result[n]
      /\ \A n \in DOMAIN result' : n \in DOMAIN result \/ (n = last /\ decoded /\ result'[n] = e)
      /\ decoded => last \in DOMAIN result' /\ result'[last] = e
      /\ Len(result') >= Len(result)
  <2>1. CASE decoded
    <3>1. result' = Append(result, e)  BY <2>1 DEF e
    <3>2. /\ Append(result, e) \in Seq(Event) /\ Len(Append(result, e)) = Len(result) + 1
          /\ Len(result) \in Nat /\ DOMAIN Append(result, e) = DOMAIN result \cup {last}
          /\ Append(result, e)[last] = e
          /\ \A i \in DOMAIN result : Append(result, e)[i] = result[i]
      BY <1>1, <1>5, OneMore
    <3>3. Len(result') >= Len(result)  BY <3>1, <3>2
    <3> QED  BY <2>1, <3>1, <3>2, <3>3
  <2>2. CASE ~ decoded
    <3>1. Len(result) \in Nat  BY <1>1
    <3> QED  BY <1>1, <2>2, <3>1
  <2> QED  BY <2>1, <2>2
<1> HIDE DEF last
<1>9. EventsStay  BY <1>8 DEF EventsStay
<1>10. Stems'
  <2>1. ASSUME NEW n \in DOMAIN result'  PROVE Stem(result[n])'
    <3>1. CASE n \in DOMAIN result
      <4>1. Stem(result[n])  BY <1>1, <3>1 DEF Stems
      <4> QED  BY <1>7, <1>8, <3>1, <4>1 DEF CallsGrow, Stem
    <3>2. CASE n = last /\ decoded /\ result'[n] = e  BY <1>2, <1>6, <3>2 DEF Stem
    <3> QED  BY <1>8, <2>1, <3>1, <3>2
  <2> QED  BY <2>1 DEF Stems
<1>11. Single'  BY <1>1, <1>6, <1>8 DEF Single
<1>12. OwnExecution'
  <2>1. \A q : Separable(q)' => Separable(q)  BY <1>7, SeparableBefore
  <2> QED  BY <1>1, <1>6, <1>8, <2>1 DEF OwnExecution
<1>13. Present'
  <2>1. \A q : Separable(q)' => Separable(q)  BY <1>7, SeparableBefore
  <2> SUFFICES ASSUME NEW i \in DOMAIN calls', calls'[i].emitted, Separable(calls[i].program)'
               PROVE  \E n \in DOMAIN result' :
                        result'[n].execution = i
                        /\ (Awaited(i)' => result'[n].call = i)
    BY DEF Present
  <2>2. i \in DOMAIN calls /\ calls[i].emitted /\ calls'[i] = calls[i]  BY <1>2
  <2>3. Separable(calls[i].program)
    <3> DEFINE q == calls'[i].program
    <3>1. Separable(q)  BY <2>1
    <3> QED  BY <2>2, <3>1
  <2>4. PICK n \in DOMAIN result :
          result[n].execution = i /\ (Awaited(i) => result[n].call = i)
    BY <1>1, <2>2, <2>3 DEF Present
  <2> QED  BY <1>1, <1>8, <2>2, <2>4 DEF Awaited
<1> QED  BY <1>6, <1>7, <1>8, <1>9, <1>10, <1>11, <1>12, <1>13 DEF last, new

(* A new execution, in a new event or in one that showed none of its own     *)
(* kind that can be told apart.                                              *)
LEMMA EmitResults ==
  ASSUME IInv, Emit
  PROVE  /\ CallsGrow /\ EventsStay /\ result' \in Seq(Event)
         /\ Stems' /\ Single' /\ OwnExecution' /\ Present'
<1> DEFINE k == Len(running)
           i == running[k]
           e == [program |-> calls[i].program, identity |-> calls[i].identity,
                 call |-> None, execution |-> i]
           last == Len(result) + 1
<1>1. /\ TypeOK /\ Nested /\ Stems /\ Single /\ OwnExecution /\ Present
      /\ result \in Seq(Event) /\ Lands(i)
  BY EmitLands DEF IInv, TypeOK
<1>2. /\ i \in DOMAIN calls /\ ~ calls[i].emitted
      /\ DOMAIN calls' = DOMAIN calls /\ calls'[i].emitted
      /\ \A j \in DOMAIN calls :
           /\ calls'[j].program = calls[j].program /\ calls'[j].identity = calls[j].identity
           /\ calls'[j].decoded = calls[j].decoded /\ calls'[j].inner = calls[j].inner
           /\ j # i => calls'[j].emitted = calls[j].emitted
      /\ heights' = heights
  BY <1>1, EmitStep
<1>3. i \in 1 .. MaxCalls /\ i # None /\ calls[i] \in Call
  <2>1. calls \in Seq(Call) /\ Len(calls) <= MaxCalls /\ MaxCalls \in Nat
    BY <1>1, InstructionMergeAssumption DEF TypeOK
  <2> HIDE DEF i
  <2>2. Len(calls) \in Nat /\ i \in 1 .. Len(calls) /\ calls[i] \in Call  BY <1>2, <2>1
  <2> QED  BY <2>1, <2>2 DEF None
<1>4. e \in Event
  <2>1. calls[i].program \in Programs /\ calls[i].identity \in Identities  BY <1>3 DEF Call
  <2>2. i \in 0 .. MaxCalls /\ 0 \in 0 .. MaxCalls  BY <1>3, InstructionMergeAssumption
  <2> HIDE DEF i
  <2> QED  BY <2>1, <2>2 DEF Event, None
<1>5. /\ e.program = calls[i].program /\ e.call = None /\ e.execution = i
  OBVIOUS
<1>6. CallsGrow  BY <1>2 DEF CallsGrow
<1>7. \A q : Separable(q)' => Separable(q)  BY <1>6, SeparableBefore
<1>8. \A n \in DOMAIN result : result[n].execution # i  BY <1>1, <1>2, <1>3 DEF Stems, Stem
<1>9. \A n \in DOMAIN result : Stem(result[n])  BY <1>1 DEF Stems
<1>10. ASSUME NEW j \in DOMAIN calls', calls'[j].emitted, Separable(calls[j].program)'
       PROVE  /\ j \in DOMAIN calls /\ Separable(calls[j].program)
              /\ j # i => calls[j].emitted
              /\ Awaited(j)' = Awaited(j)
  <2> DEFINE q == calls'[j].program
  <2>1. Separable(q)  BY <1>7, <1>10
  <2>2. Awaited(j)' = Awaited(j)  BY <1>2, <1>10 DEF Awaited
  <2> QED  BY <1>2, <1>10, <2>1, <2>2
<1> HIDE DEF i, e
<1>11. CASE /\ result' = Append(result, e)
            /\ ~ (Awaited(i) /\ Separable(calls[i].program))
  <2>1. /\ result' \in Seq(Event) /\ Len(result') = last /\ Len(result) \in Nat
        /\ DOMAIN result' = DOMAIN result \cup {last} /\ last \notin DOMAIN result
        /\ result'[last] = e /\ \A n \in DOMAIN result : result'[n] = result[n]
    BY <1>1, <1>4, <1>11, OneMore
  <2> HIDE DEF last
  <2>2. EventsStay
    <3>1. last >= Len(result)  BY <2>1 DEF last
    <3> QED  BY <2>1, <3>1 DEF EventsStay
  <2>3. Stems'
    <3> SUFFICES ASSUME NEW n \in DOMAIN result'  PROVE Stem(result[n])'
      BY DEF Stems
    <3>1. CASE n \in DOMAIN result
      <4>1. Stem(result[n])  BY <1>9, <3>1
      <4> QED  BY <1>6, <2>1, <3>1, <4>1 DEF CallsGrow, Stem
    <3>2. CASE n = last
      <4>1. calls'[i].program = calls[i].program  BY <1>2
      <4> QED  BY <1>2, <1>5, <2>1, <3>2, <4>1 DEF Stem
    <3> QED  BY <2>1, <3>1, <3>2
  <2>4. Single'  BY <1>1, <1>5, <1>8, <2>1 DEF Single
  <2>5. OwnExecution'  BY <1>1, <1>5, <1>7, <2>1 DEF OwnExecution
  <2>6. Present'
    <3> SUFFICES ASSUME NEW j \in DOMAIN calls', calls'[j].emitted, Separable(calls[j].program)'
                 PROVE  \E n \in DOMAIN result' :
                          result'[n].execution = j
                          /\ (Awaited(j)' => result'[n].call = j)
      BY DEF Present
    <3>1. CASE j = i  BY <1>2, <1>5, <1>10, <1>11, <2>1, <3>1
    <3>2. CASE j # i
      <4>1. PICK n \in DOMAIN result :
              result[n].execution = j /\ (Awaited(j) => result[n].call = j)
        BY <1>1, <1>10, <3>2 DEF Present
      <4> QED  BY <1>2, <1>10, <2>1, <4>1
    <3> QED  BY <3>1, <3>2
  <2> QED  BY <1>6, <2>1, <2>2, <2>3, <2>4, <2>5, <2>6
<1>12. ASSUME NEW a \in DOMAIN result, result' = [result EXCEPT ![a].execution = i],
              result[a].program = calls[i].program,
              Separable(calls[i].program) => result[a].call = i
       PROVE  /\ EventsStay /\ result' \in Seq(Event)
              /\ Stems' /\ Single' /\ OwnExecution' /\ Present'
  <2>1. /\ result' \in Seq(Event) /\ Len(result') = Len(result) /\ DOMAIN result' = DOMAIN result
        /\ \A n \in DOMAIN result :
             /\ result'[n].program = result[n].program /\ result'[n].identity = result[n].identity
             /\ result'[n].call = result[n].call
             /\ n # a => result'[n] = result[n]
        /\ result'[a].execution = i
    <3>1. i \in 0 .. MaxCalls  BY <1>3
    <3> QED  BY <1>1, <1>12, <3>1, Merged
  <2>2. EventsStay
    <3>1. Len(result) \in Nat  BY <1>1
    <3> QED  BY <2>1, <3>1 DEF EventsStay
  <2>3. Stems'
    <3> SUFFICES ASSUME NEW n \in DOMAIN result'  PROVE Stem(result[n])'
      BY DEF Stems
    <3>1. Stem(result[n])  BY <1>9, <2>1
    <3>2. CASE n # a  BY <1>6, <2>1, <3>1, <3>2 DEF CallsGrow, Stem
    <3>3. CASE n = a
      <4>1. calls'[i].program = calls[i].program  BY <1>2
      <4>2. /\ result'[a].execution = i /\ i \in DOMAIN calls' /\ calls'[i].emitted
            /\ calls'[i].program = result'[a].program
        BY <1>2, <1>12, <2>1, <4>1
      <4>3. /\ result'[a].call = result[a].call /\ result'[a].program = result[a].program
            /\ result'[a].identity = result[a].identity
        BY <2>1
      <4>4. result[a].call # None =>
              /\ result[a].call \in DOMAIN calls' /\ calls'[result[a].call].decoded
              /\ calls'[result[a].call].program = result[a].program
              /\ calls'[result[a].call].identity = result[a].identity
        BY <1>6, <3>1, <3>3 DEF CallsGrow, Stem
      <4> QED  BY <3>3, <4>2, <4>3, <4>4 DEF Stem
    <3> QED  BY <3>2, <3>3
  <2>4. Single'  BY <1>1, <1>8, <2>1 DEF Single
  <2>5. OwnExecution'
    <3> SUFFICES ASSUME NEW n \in DOMAIN result', result'[n].call # None, result'[n].execution # None,
                        Separable(result[n].program)'
                 PROVE  result'[n].execution = result'[n].call
      BY DEF OwnExecution
    <3>1. n \in DOMAIN result /\ result'[n].program = result[n].program
          /\ result'[n].call = result[n].call
      BY <2>1
    <3>2. Separable(result[n].program)
      <4> DEFINE q == result'[n].program
      <4>1. Separable(q)  BY <1>7
      <4> QED  BY <3>1, <4>1
    <3>3. CASE n = a  BY <1>12, <2>1, <3>1, <3>2, <3>3
    <3>4. CASE n # a  BY <1>1, <2>1, <3>1, <3>2, <3>4 DEF OwnExecution
    <3> QED  BY <3>3, <3>4
  <2>6. Present'
    <3> SUFFICES ASSUME NEW j \in DOMAIN calls', calls'[j].emitted, Separable(calls[j].program)'
                 PROVE  \E n \in DOMAIN result' :
                          result'[n].execution = j
                          /\ (Awaited(j)' => result'[n].call = j)
      BY DEF Present
    <3>1. CASE j = i
      <4>1. result[a].call = i  BY <1>10, <1>12, <3>1
      <4> QED  BY <2>1, <3>1, <4>1
    <3>2. CASE j # i
      <4>1. PICK n \in DOMAIN result :
              result[n].execution = j /\ (Awaited(j) => result[n].call = j)
        BY <1>1, <1>10, <3>2 DEF Present
      <4>2. n # a
        <5> SUFFICES ASSUME n = a  PROVE FALSE
          OBVIOUS
        <5>1. j # None
          <6>1. DOMAIN calls = 1 .. Len(calls)  BY <1>1 DEF TypeOK
          <6> QED  BY <1>10, <6>1 DEF None
        <5>2. calls[j].program = calls[i].program
          BY <1>9, <1>12, <4>1, <5>1 DEF Stem
        <5>3. Separable(calls[i].program) /\ result[a].call = i  BY <1>10, <1>12, <5>2
        <5> QED  BY <1>1, <1>3, <1>12, <3>2, <4>1, <5>1, <5>3 DEF OwnExecution
      <4> QED  BY <1>2, <1>10, <2>1, <4>1, <4>2
    <3> QED  BY <3>1, <3>2
  <2> QED  BY <2>1, <2>2, <2>3, <2>4, <2>5, <2>6
<1> QED  BY <1>1, <1>6, <1>11, <1>12 DEF Lands, e

-----------------------------------------------------------------------------
(* The targets *)

(* Some of the stacked targets are stacked, as events are added and outer    *)
(* instructions run.                                                         *)
LEMMA FewerStacked ==
  ASSUME NEW t \in Seq(Target), NEW u \in Seq(Target), NEW r, NEW r2,
         NEW o \in Nat, NEW o2 \in Nat, NEW reported,
         StackedIn(t, r, o, reported), o <= o2,
         \A n \in DOMAIN r : n \in DOMAIN r2 /\ r2[n].call = r[n].call,
         \A n \in DOMAIN u : /\ n \in DOMAIN t /\ u[n].outer = t[n].outer
                             /\ u[n].height = t[n].height /\ u[n].at = t[n].at
  PROVE  StackedIn(u, r2, o2, reported)
<1>1. \A n \in DOMAIN t : t[n].outer \in Nat
  <2>1. \A n \in DOMAIN t : t[n] \in Target  OBVIOUS
  <2> QED  BY <2>1 DEF Target
<1>2. ASSUME NEW n \in DOMAIN u
      PROVE  /\ u[n].at \in DOMAIN r2 /\ r2[u[n].at].call # None
             /\ u[n].outer <= o2 /\ (reported => u[n].height # Unknown)
  <2>1. /\ t[n].at \in DOMAIN r /\ r[t[n].at].call # None
        /\ t[n].outer <= o /\ (reported => t[n].height # Unknown) /\ t[n].outer \in Nat
    BY <1>1 DEF StackedIn
  <2>2. t[n].outer <= o2  BY <2>1
  <2> QED  BY <2>1, <2>2
<1>3. ASSUME NEW m \in DOMAIN u, NEW n \in DOMAIN u
      PROVE  /\ u[m].outer = u[n].outer
             /\ m < n => reported /\ u[m].height < u[n].height
  <2>1. m \in DOMAIN t /\ n \in DOMAIN t  OBVIOUS
  <2>2. t[m].outer = t[n].outer /\ (m < n => reported /\ t[m].height < t[n].height)
    BY <2>1 DEF StackedIn
  <2> QED  BY <2>2
<1> QED  BY <1>2, <1>3 DEF StackedIn

(* A target on top of higher ones of its outer instruction is stacked.       *)
LEMMA PushedStacked ==
  ASSUME NEW u \in Seq(Target), NEW e \in Target, NEW r, NEW o \in Nat, NEW reported,
         StackedIn(u, r, o, reported),
         e.at \in DOMAIN r, r[e.at].call # None, e.outer <= o, reported => e.height # Unknown,
         \A n \in DOMAIN u : reported /\ u[n].outer = e.outer /\ u[n].height < e.height
  PROVE  StackedIn(Append(u, e), r, o, reported)
<1> DEFINE v == Append(u, e)
           l == Len(u) + 1
<1>1. /\ Len(u) \in Nat /\ DOMAIN u = 1 .. Len(u)
      /\ DOMAIN v = DOMAIN u \cup {l} /\ v[l] = e /\ \A n \in DOMAIN u : v[n] = u[n]
      /\ l \notin DOMAIN u
  BY OneMore
<1>2. \A m, n \in DOMAIN v : m < n => m \in DOMAIN u  BY <1>1
<1> HIDE DEF v, l
<1>3. ASSUME NEW n \in DOMAIN v
      PROVE  /\ v[n].at \in DOMAIN r /\ r[v[n].at].call # None
             /\ v[n].outer <= o /\ (reported => v[n].height # Unknown)
  <2>1. CASE n \in DOMAIN u  BY <1>1, <2>1 DEF StackedIn
  <2>2. CASE n = l  BY <1>1, <2>2
  <2> QED  BY <1>1, <2>1, <2>2
<1>4. ASSUME NEW m \in DOMAIN v, NEW n \in DOMAIN v
      PROVE  /\ v[m].outer = v[n].outer
             /\ m < n => reported /\ v[m].height < v[n].height
  <2>1. CASE m \in DOMAIN u /\ n \in DOMAIN u  BY <1>1, <2>1 DEF StackedIn
  <2>2. CASE m \in DOMAIN u /\ n = l  BY <1>1, <2>2
  <2>3. CASE m = l
    <3>1. ~ m < n  BY <1>1, <1>2, <2>3
    <3> QED  BY <1>1, <2>3, <3>1
  <2> QED  BY <1>1, <2>1, <2>2, <2>3
<1>5. StackedIn(v, r, o, reported)  BY <1>3, <1>4 DEF StackedIn
<1> QED  BY <1>5 DEF v

PumpOK == pumpTargets \in Seq(Target) /\ Stacked(pumpTargets) /\ UnusedRuns /\ PumpHeld

DlmmOK == dlmmTargets \in Seq(Target) /\ Stacked(dlmmTargets) /\ DlmmHeld

(* What it takes for the trades that run to have their targets after a step. *)
LEMMA PumpHeldNext ==
  PumpHeld' <=>
    (heights' =>
       \A k \in DOMAIN running' :
         calls'[running'[k]].program \in Trades /\ calls'[running'[k]].decoded =>
           \E n \in DOMAIN pumpTargets' :
             /\ pumpTargets'[n].outer = outer'
             /\ result'[pumpTargets'[n].at].call = running'[k]
             /\ heights' => pumpTargets'[n].height = k
             /\ ~ calls'[running'[k]].emitted => ~ pumpTargets'[n].used)
BY DEF PumpHeld, Held, Own

(* The same for DLMM calls, if all of them were decoded.                     *)
LEMMA DlmmHeldNext ==
  DlmmHeld' <=>
    (AllDecoded("dlmm")' =>
       \A k \in DOMAIN running' :
         calls'[running'[k]].program = "dlmm" =>
           \E n \in DOMAIN dlmmTargets' :
             /\ dlmmTargets'[n].outer = outer'
             /\ result'[dlmmTargets'[n].at].call = running'[k]
             /\ heights' => dlmmTargets'[n].height = k
             /\ ~ calls'[running'[k]].emitted => ~ dlmmTargets'[n].used)
BY DEF DlmmHeld, Held, Own

(* A call puts its target, if it is a decoded trade, on those of the calls   *)
(* that run above it.                                                        *)
LEMMA InvokePump ==
  ASSUME IInv, NEW p \in Programs, NEW id \in Identities, NEW decoded \in BOOLEAN,
         Invoke(p, id, decoded),
         decoded => p # "router",
         result' = IF decoded THEN Append(result, CallEvent(p, id)) ELSE result,
         NEW m \in 0 .. Len(pumpTargets), NEW h \in 0 .. MaxDepth, NEW e,
         e = [outer |-> outer', height |-> h, at |-> Len(result) + 1, used |-> FALSE],
         heights => h = Len(running) + 1,
         pumpTargets' = IF decoded /\ p \in Trades THEN Append(SubSeq(pumpTargets, 1, m), e)
                        ELSE SubSeq(pumpTargets, 1, m),
         running # <<>> =>
           \A n \in DOMAIN pumpTargets :
             /\ heights /\ pumpTargets[n].outer = outer
             /\ pumpTargets[n].height < Len(running) + 1
             => n \in 1 .. m,
         decoded /\ p \in Trades =>
           \A n \in 1 .. m :
             heights /\ pumpTargets[n].outer = outer' /\ pumpTargets[n].height < h
  PROVE  PumpOK'
<1> DEFINE new == Len(calls) + 1
           top == Len(running) + 1
           last == Len(result) + 1
           u == SubSeq(pumpTargets, 1, m)
           pushed == decoded /\ p \in Trades
<1>1. /\ TypeOK /\ Nested /\ Stacked(pumpTargets) /\ UnusedRuns /\ PumpHeld
      /\ pumpTargets \in Seq(Target) /\ outer \in Nat /\ running \in Seq(Nat \ {0})
      /\ heights \in BOOLEAN /\ result \in Seq(Event)
  BY DEF IInv, TypeOK
<1>2. /\ new \notin DOMAIN calls
      /\ calls'[new] = [program |-> p, identity |-> id, inner |-> running # <<>>,
                        decoded |-> decoded, emitted |-> FALSE]
      /\ \A i \in DOMAIN calls : calls'[i] = calls[i]
      /\ DOMAIN running' = DOMAIN running \cup {top} /\ top \notin DOMAIN running
      /\ running'[top] = new
      /\ \A k \in DOMAIN running : running'[k] = running[k]
      /\ heights' = heights /\ outer' \in Nat
      /\ outer' = IF running = <<>> THEN outer + 1 ELSE outer
  BY <1>1, InvokeStep
<1>3. /\ EventsStay
      /\ decoded => last \in DOMAIN result' /\ result'[last].call = new
  BY InvokeResults
<1>4. new # None  BY <1>1 DEF TypeOK, None
<1>5. /\ u \in Seq(Target) /\ Len(u) = m /\ DOMAIN u = 1 .. m
      /\ \A n \in 1 .. m : u[n] = pumpTargets[n]
      /\ \A n \in 1 .. m : n \in DOMAIN pumpTargets /\ pumpTargets[n] \in Target
      /\ DOMAIN pumpTargets = 1 .. Len(pumpTargets) /\ Len(pumpTargets) \in Nat
  BY <1>1, FirstOnes
<1>6. e \in Target /\ e.outer = outer' /\ e.height = h /\ e.at = last /\ ~ e.used
  <2>1. last \in Nat \ {0}  BY <1>1
  <2> QED  BY <1>2, <2>1 DEF Target
<1>7. calls'[new].program = p /\ calls'[new].decoded = decoded /\ ~ calls'[new].emitted
  BY <1>2
<1>8. outer <= outer' /\ (running # <<>> => outer' = outer)
  BY <1>1, <1>2
<1>9. \A n \in DOMAIN pumpTargets : running = <<>> => pumpTargets[n].outer # outer'
  <2> SUFFICES ASSUME NEW n \in DOMAIN pumpTargets, running = <<>>, pumpTargets[n].outer = outer'
               PROVE  FALSE
    OBVIOUS
  <2>1. outer' <= outer  BY <1>1 DEF Stacked, StackedIn
  <2> QED  BY <1>1, <1>2, <2>1
<1>10. heights => h # Unknown /\ top # Unknown  BY <1>1 DEF Unknown
<1> HIDE DEF new, last, u, top
<1>11. pumpTargets' = IF pushed THEN Append(u, e) ELSE u  BY DEF u
<1> DEFINE v == IF pushed THEN Append(u, e) ELSE u
<1>12. /\ \A n \in 1 .. m : n \in DOMAIN v /\ v[n] = pumpTargets[n]
       /\ v \in Seq(Target)
       /\ \A n \in DOMAIN v : n \in 1 .. m \/ (pushed /\ n = m + 1 /\ v[n] = e)
       /\ pushed => m + 1 \in DOMAIN v /\ v[m + 1] = e
  <2>1. CASE pushed
    <3>1. v = Append(u, e)  BY <2>1
    <3>2. /\ Append(u, e) \in Seq(Target) /\ DOMAIN Append(u, e) = DOMAIN u \cup {m + 1}
          /\ Append(u, e)[m + 1] = e /\ \A n \in DOMAIN u : Append(u, e)[n] = u[n]
      BY ONLY <1>5, <1>6, OneMore
    <3> QED  BY <1>5, <2>1, <3>1, <3>2
  <2>2. CASE ~ pushed  BY <1>5, <2>2
  <2> QED  BY <2>1, <2>2
<1> DEFINE r == result'
           o == outer'
<1>13. StackedIn(v, result', outer', heights)
  <2>1. StackedIn(u, r, o, heights)
    <3>1. StackedIn(pumpTargets, result, outer, heights)  BY <1>1 DEF Stacked
    <3>2. \A n \in DOMAIN result : n \in DOMAIN r /\ r[n].call = result[n].call
      BY <1>3 DEF EventsStay
    <3>3. \A n \in DOMAIN u : /\ n \in DOMAIN pumpTargets /\ u[n].outer = pumpTargets[n].outer
                              /\ u[n].height = pumpTargets[n].height
                              /\ u[n].at = pumpTargets[n].at
      BY <1>5
    <3>4. outer <= o /\ o \in Nat /\ outer \in Nat  BY <1>1, <1>2, <1>8
    <3> HIDE DEF r, o
    <3> QED  BY ONLY <1>1, <1>5, <3>1, <3>2, <3>3, <3>4, FewerStacked, ZenonT(30)
  <2>2. CASE pushed
    <3>1. e.at \in DOMAIN r /\ r[e.at].call # None  BY <1>3, <1>4, <1>6, <2>2
    <3>2. e.outer <= o /\ (heights => e.height # Unknown) /\ o \in Nat  BY <1>2, <1>6, <1>10
    <3>3. \A n \in DOMAIN u : heights /\ u[n].outer = e.outer /\ u[n].height < e.height
      BY <1>5, <1>6, <2>2
    <3> HIDE DEF r, o, v
    <3>4. StackedIn(Append(u, e), r, o, heights)
      BY ONLY <1>5, <1>6, <2>1, <3>1, <3>2, <3>3, PushedStacked
    <3> QED  BY <2>2, <3>4 DEF v, r, o
  <2>3. CASE ~ pushed  BY <2>1, <2>3
  <2> QED  BY <2>2, <2>3
<1> HIDE DEF v, r, o, pushed
<1>14. Stacked(pumpTargets)'  BY <1>2, <1>11, <1>13 DEF Stacked, v
<1>15. pumpTargets' = v  BY <1>11 DEF v
<1>16. ASSUME NEW n \in DOMAIN pumpTargets, NEW k \in DOMAIN running, Own(pumpTargets[n], k)
       PROVE  /\ pumpTargets[n].outer = outer' /\ result'[pumpTargets[n].at].call = running'[k]
              /\ heights' => pumpTargets[n].height = k
              /\ calls'[running'[k]] = calls[running[k]]
  <2>1. running # <<>>
    <3>1. DOMAIN running = 1 .. Len(running)  BY <1>1
    <3>2. running = <<>> => Len(running) = 0  OBVIOUS
    <3> QED  BY <1>16, <3>1, <3>2
  <2>2. pumpTargets[n].at \in DOMAIN result  BY <1>1 DEF Stacked, StackedIn
  <2>3. running[k] \in DOMAIN calls /\ running'[k] = running[k]  BY <1>1, <1>2 DEF Nested
  <2> QED  BY <1>2, <1>3, <1>8, <1>16, <2>1, <2>2, <2>3 DEF Own, EventsStay
<1>17. UnusedRuns'
  <2> SUFFICES ASSUME NEW n \in DOMAIN v, v[n].outer = outer', ~ v[n].used
               PROVE  \E k \in DOMAIN running' :
                        /\ v[n].outer = outer' /\ result'[v[n].at].call = running'[k]
                        /\ heights' => v[n].height = k
                        /\ calls'[running'[k]].program \in Trades /\ ~ calls'[running'[k]].emitted
    BY <1>15 DEF UnusedRuns, Own
  <2>1. CASE n \in 1 .. m
    <3>1. v[n] = pumpTargets[n] /\ n \in DOMAIN pumpTargets  BY <1>5, <1>12, <2>1
    <3>2. running # <<>>  BY <1>9, <3>1
    <3>3. PICK k \in DOMAIN running :
            /\ Own(pumpTargets[n], k)
            /\ calls[running[k]].program \in Trades /\ ~ calls[running[k]].emitted
      BY <1>1, <1>8, <3>1, <3>2 DEF UnusedRuns
    <3>4. k \in DOMAIN running'  BY <1>2
    <3>5. /\ result'[pumpTargets[n].at].call = running'[k]
          /\ heights' => pumpTargets[n].height = k
          /\ calls'[running'[k]] = calls[running[k]]
      BY <1>16, <3>1, <3>3
    <3>6. v[n].outer = outer'  OBVIOUS
    <3> QED  BY ONLY <3>1, <3>3, <3>4, <3>5, <3>6
  <2>2. CASE pushed /\ v[n] = e
    <3>1. /\ top \in DOMAIN running' /\ running'[top] = new
          /\ calls'[new].program \in Trades /\ ~ calls'[new].emitted
      BY <1>2, <1>7, <2>2 DEF pushed
    <3>2. result'[e.at].call = new  BY <1>3, <1>6, <2>2 DEF pushed
    <3>3. heights' => e.height = top  BY <1>2, <1>6 DEF top
    <3> QED  BY <1>6, <2>2, <3>1, <3>2, <3>3
  <2> QED  BY <1>12, <2>1, <2>2
<1>18. ASSUME heights, NEW k \in DOMAIN running', calls'[running'[k]].program \in Trades,
              calls'[running'[k]].decoded
       PROVE  \E n \in DOMAIN v :
                /\ v[n].outer = outer' /\ result'[v[n].at].call = running'[k]
                /\ heights' => v[n].height = k
                /\ ~ calls'[running'[k]].emitted => ~ v[n].used
  <2>1. CASE k \in DOMAIN running
    <3>1. running # <<>> /\ k < top
      <4>1. DOMAIN running = 1 .. Len(running) /\ Len(running) \in Nat  BY <1>1
      <4>2. running = <<>> => Len(running) = 0  OBVIOUS
      <4> QED  BY <2>1, <4>1, <4>2 DEF top
    <3>2. running[k] \in DOMAIN calls /\ calls'[running'[k]] = calls[running[k]]
      BY <1>1, <1>2, <2>1 DEF Nested
    <3>3. PICK n \in DOMAIN pumpTargets :
            Own(pumpTargets[n], k) /\ (~ calls[running[k]].emitted => ~ pumpTargets[n].used)
      BY <1>1, <1>18, <2>1, <3>2 DEF PumpHeld, Held
    <3>4. n \in 1 .. m  BY <1>18, <3>1, <3>3 DEF Own, top
    <3>5. n \in DOMAIN v /\ v[n] = pumpTargets[n]  BY <1>12, <3>4
    <3>6. /\ pumpTargets[n].outer = outer' /\ result'[pumpTargets[n].at].call = running'[k]
          /\ heights' => pumpTargets[n].height = k
      BY <1>16, <2>1, <3>3
    <3> QED  BY ONLY <3>2, <3>3, <3>5, <3>6
  <2>2. CASE k = top
    <3>1. pushed  BY <1>2, <1>7, <1>18, <2>2 DEF pushed
    <3>2. result'[e.at].call = new  BY <1>3, <1>6, <3>1 DEF pushed
    <3>3. heights' => e.height = top  BY <1>2, <1>6 DEF top
    <3>4. running'[top] = new  BY <1>2
    <3>5. m + 1 \in DOMAIN v /\ v[m + 1] = e  BY <1>12, <3>1
    <3> QED  BY ONLY <1>6, <2>2, <3>2, <3>3, <3>4, <3>5
  <2> QED  BY <1>2, <1>18, <2>1, <2>2
<1>19. PumpHeld'
  <2>1. heights' = heights  BY <1>2
  <2> QED  BY ONLY <1>15, <1>18, <2>1, PumpHeldNext
<1> QED  BY <1>12, <1>14, <1>15, <1>17, <1>19 DEF PumpOK

(* A DLMM call that is decoded puts its target on; of DLMM only one runs.    *)
LEMMA InvokeDlmm ==
  ASSUME IInv, NEW p \in Programs, NEW id \in Identities, NEW decoded \in BOOLEAN,
         Invoke(p, id, decoded),
         decoded => p # "router",
         result' = IF decoded THEN Append(result, CallEvent(p, id)) ELSE result,
         NEW m \in 0 .. Len(dlmmTargets), NEW h \in 0 .. MaxDepth, NEW e,
         e = [outer |-> outer', height |-> h, at |-> Len(result) + 1, used |-> FALSE],
         heights => h = Len(running) + 1,
         dlmmTargets' = IF decoded /\ p = "dlmm" THEN Append(SubSeq(dlmmTargets, 1, m), e)
                        ELSE SubSeq(dlmmTargets, 1, m),
         running # <<>> /\ ~ (decoded /\ p = "dlmm") => m = Len(dlmmTargets),
         decoded /\ p = "dlmm" =>
           \A n \in 1 .. m :
             heights /\ dlmmTargets[n].outer = outer' /\ dlmmTargets[n].height < h
  PROVE  DlmmOK'
<1> DEFINE new == Len(calls) + 1
           top == Len(running) + 1
           last == Len(result) + 1
           u == SubSeq(dlmmTargets, 1, m)
           pushed == decoded /\ p = "dlmm"
<1>1. /\ TypeOK /\ Nested /\ Stacked(dlmmTargets) /\ DlmmHeld
      /\ dlmmTargets \in Seq(Target) /\ outer \in Nat /\ running \in Seq(Nat \ {0})
      /\ heights \in BOOLEAN /\ result \in Seq(Event)
  BY DEF IInv, TypeOK
<1>2. /\ new \notin DOMAIN calls /\ DOMAIN calls' = DOMAIN calls \cup {new}
      /\ calls'[new] = [program |-> p, identity |-> id, inner |-> running # <<>>,
                        decoded |-> decoded, emitted |-> FALSE]
      /\ \A i \in DOMAIN calls : calls'[i] = calls[i]
      /\ DOMAIN running' = DOMAIN running \cup {top} /\ top \notin DOMAIN running
      /\ running'[top] = new
      /\ \A k \in DOMAIN running : running'[k] = running[k]
      /\ heights' = heights /\ outer' \in Nat
      /\ outer' = IF running = <<>> THEN outer + 1 ELSE outer
      /\ p # "router" => \A k \in DOMAIN running : calls[running[k]].program # p
  BY <1>1, InvokeStep
<1>3. /\ EventsStay /\ CallsGrow
      /\ decoded => last \in DOMAIN result' /\ result'[last].call = new
  BY InvokeResults
<1>4. new # None  BY <1>1 DEF TypeOK, None
<1>5. /\ u \in Seq(Target) /\ Len(u) = m /\ DOMAIN u = 1 .. m
      /\ \A n \in 1 .. m : u[n] = dlmmTargets[n]
      /\ \A n \in 1 .. m : n \in DOMAIN dlmmTargets /\ dlmmTargets[n] \in Target
      /\ DOMAIN dlmmTargets = 1 .. Len(dlmmTargets) /\ Len(dlmmTargets) \in Nat
  BY <1>1, FirstOnes
<1>6. e \in Target /\ e.outer = outer' /\ e.height = h /\ e.at = last /\ ~ e.used
  <2>1. last \in Nat \ {0}  BY <1>1
  <2> QED  BY <1>2, <2>1 DEF Target
<1>7. calls'[new].program = p /\ calls'[new].decoded = decoded
  BY <1>2
<1>8. outer <= outer' /\ (running # <<>> => outer' = outer)
  BY <1>1, <1>2
<1>9. heights => h # Unknown  BY <1>1 DEF Unknown
<1> HIDE DEF new, last, u, top
<1>10. dlmmTargets' = IF pushed THEN Append(u, e) ELSE u  BY DEF u
<1> DEFINE v == IF pushed THEN Append(u, e) ELSE u
<1>11. /\ \A n \in 1 .. m : n \in DOMAIN v /\ v[n] = dlmmTargets[n]
       /\ v \in Seq(Target)
       /\ pushed => m + 1 \in DOMAIN v /\ v[m + 1] = e
  <2>1. CASE pushed
    <3>1. v = Append(u, e)  BY <2>1, SMTT(30)
    <3>2. /\ Append(u, e) \in Seq(Target) /\ DOMAIN Append(u, e) = DOMAIN u \cup {m + 1}
          /\ Append(u, e)[m + 1] = e /\ \A n \in DOMAIN u : Append(u, e)[n] = u[n]
      BY ONLY <1>5, <1>6, OneMore
    <3> QED  BY <1>5, <2>1, <3>1, <3>2
  <2>2. CASE ~ pushed  BY <1>5, <2>2
  <2> QED  BY <2>1, <2>2
<1> DEFINE r == result'
           o == outer'
<1>12. StackedIn(v, result', outer', heights)
  <2>1. StackedIn(u, r, o, heights)
    <3>1. StackedIn(dlmmTargets, result, outer, heights)  BY <1>1 DEF Stacked
    <3>2. \A n \in DOMAIN result : n \in DOMAIN r /\ r[n].call = result[n].call
      BY <1>3 DEF EventsStay
    <3>3. \A n \in DOMAIN u : /\ n \in DOMAIN dlmmTargets /\ u[n].outer = dlmmTargets[n].outer
                              /\ u[n].height = dlmmTargets[n].height
                              /\ u[n].at = dlmmTargets[n].at
      BY <1>5
    <3>4. outer <= o /\ o \in Nat /\ outer \in Nat  BY <1>1, <1>2, <1>8
    <3> HIDE DEF r, o
    <3> QED  BY ONLY <1>1, <1>5, <3>1, <3>2, <3>3, <3>4, FewerStacked, ZenonT(30)
  <2>2. CASE pushed
    <3>1. e.at \in DOMAIN r /\ r[e.at].call # None  BY <1>3, <1>4, <1>6, <2>2
    <3>2. e.outer <= o /\ (heights => e.height # Unknown) /\ o \in Nat  BY <1>2, <1>6, <1>9
    <3>3. \A n \in DOMAIN u : heights /\ u[n].outer = e.outer /\ u[n].height < e.height
      BY <1>5, <1>6, <2>2
    <3> HIDE DEF r, o, v
    <3>4. StackedIn(Append(u, e), r, o, heights)
      BY ONLY <1>5, <1>6, <2>1, <3>1, <3>2, <3>3, PushedStacked
    <3> QED  BY <2>2, <3>4 DEF v, r, o
  <2>3. CASE ~ pushed  BY <2>1, <2>3
  <2> QED  BY <2>2, <2>3
<1> HIDE DEF v, r, o, pushed
<1>13. Stacked(dlmmTargets)'  BY <1>2, <1>10, <1>12 DEF Stacked, v
<1>14. dlmmTargets' = v  BY <1>10 DEF v
<1>15. ASSUME AllDecoded("dlmm")', NEW k \in DOMAIN running',
              calls'[running'[k]].program = "dlmm"
       PROVE  \E n \in DOMAIN v :
                /\ v[n].outer = outer' /\ result'[v[n].at].call = running'[k]
                /\ heights' => v[n].height = k
                /\ ~ calls'[running'[k]].emitted => ~ v[n].used
  <2>1. AllDecoded("dlmm")  BY <1>3, <1>15, SeparableBefore
  <2>2. CASE k \in DOMAIN running
    <3>1. running # <<>>
      <4>1. DOMAIN running = 1 .. Len(running)  BY <1>1
      <4>2. running = <<>> => Len(running) = 0  OBVIOUS
      <4> QED  BY <2>2, <4>1, <4>2
    <3>2. running[k] \in DOMAIN calls /\ calls'[running'[k]] = calls[running[k]]
          /\ running'[k] = running[k]
      BY <1>1, <1>2, <2>2 DEF Nested
    <3>3. ~ pushed /\ m = Len(dlmmTargets)  BY <1>2, <1>15, <2>2, <3>1, <3>2 DEF pushed
    <3>4. PICK n \in DOMAIN dlmmTargets :
            Own(dlmmTargets[n], k) /\ (~ calls[running[k]].emitted => ~ dlmmTargets[n].used)
      BY <1>1, <1>15, <2>1, <2>2, <3>2 DEF DlmmHeld, Held
    <3>5. n \in DOMAIN v /\ v[n] = dlmmTargets[n]  BY <1>5, <1>11, <3>3
    <3>6. dlmmTargets[n].at \in DOMAIN result  BY <1>1 DEF Stacked, StackedIn
    <3> QED  BY <1>2, <1>3, <1>8, <3>1, <3>2, <3>4, <3>5, <3>6 DEF Own, EventsStay
  <2>3. CASE k = top
    <3>1. pushed  BY <1>2, <1>7, <1>15, <2>3 DEF pushed, AllDecoded
    <3>2. result'[e.at].call = new  BY <1>3, <1>6, <3>1 DEF pushed
    <3>3. heights' => e.height = top  BY <1>2, <1>6 DEF top
    <3> QED  BY <1>2, <1>6, <1>11, <2>3, <3>1, <3>2, <3>3
  <2> QED  BY <1>2, <1>15, <2>2, <2>3
<1>16. DlmmHeld'  BY ONLY <1>14, <1>15, DlmmHeldNext
<1> QED  BY <1>11, <1>13, <1>14, <1>16 DEF DlmmOK

OuterOK == outerTarget \in [outer : Nat, at : Nat] /\ OuterRuns

(* The event of an outer call, if it is decoded, becomes the outer target.   *)
LEMMA InvokeOuter ==
  ASSUME IInv, NEW p \in Programs, NEW id \in Identities, NEW decoded \in BOOLEAN,
         Invoke(p, id, decoded),
         decoded => p # "router",
         result' = IF decoded THEN Append(result, CallEvent(p, id)) ELSE result,
         outerTarget' = IF decoded /\ running = <<>>
                        THEN [outer |-> outer', at |-> Len(result) + 1] ELSE outerTarget
  PROVE  OuterOK'
<1> DEFINE new == Len(calls) + 1
           last == Len(result) + 1
<1>1. /\ TypeOK /\ Nested /\ OuterRuns
      /\ outer \in Nat /\ running \in Seq(Nat \ {0}) /\ outerTarget \in [outer : Nat, at : Nat]
      /\ result \in Seq(Event)
  BY DEF IInv, TypeOK
<1>2. /\ new \notin DOMAIN calls
      /\ calls'[new] = [program |-> p, identity |-> id, inner |-> running # <<>>,
                        decoded |-> decoded, emitted |-> FALSE]
      /\ \A i \in DOMAIN calls : calls'[i] = calls[i]
      /\ running'[Len(running) + 1] = new
      /\ \A k \in DOMAIN running : running'[k] = running[k]
      /\ outer' \in Nat
      /\ outer' = IF running = <<>> THEN outer + 1 ELSE outer
  BY <1>1, InvokeStep
<1>3. /\ EventsStay /\ result' \in Seq(Event)
      /\ decoded => last \in DOMAIN result' /\ result'[last].call = new
  BY InvokeResults
<1>4. calls'[new].decoded = decoded  BY <1>2
<1>5. running = <<>> => Len(running) + 1 = 1  OBVIOUS
<1>6. running # <<>> => 1 \in DOMAIN running  BY <1>1
<1>7. /\ Len(result) \in Nat /\ Len(result') \in Nat
      /\ DOMAIN result = 1 .. Len(result) /\ DOMAIN result' = 1 .. Len(result')
  BY <1>1, <1>3
<1> HIDE DEF new
<1>8. CASE running = <<>> /\ decoded
  <2>1. last \in Nat /\ last \in 0 .. Len(result') /\ last # 0  BY <1>3, <1>7, <1>8
  <2>2. outerTarget' = [outer |-> outer', at |-> last]  BY <1>8
  <2> HIDE DEF last
  <2>3. /\ outerTarget'.outer = outer' /\ outerTarget'.at = last
        /\ outerTarget' \in [outer : Nat, at : Nat]
    BY <1>2, <2>1, <2>2
  <2>4. result'[last].call = running'[1]  BY <1>2, <1>3, <1>5, <1>8
  <2>5. outer' <= outer'  BY <1>2
  <2> QED  BY <2>1, <2>3, <2>4, <2>5 DEF OuterOK, OuterRuns
<1>9. CASE running = <<>> /\ ~ decoded
  <2>1. outerTarget' = outerTarget /\ outer' = outer + 1  BY <1>2, <1>9
  <2>2. outerTarget'.outer <= outer /\ outerTarget'.at \in 0 .. Len(result)
    BY <1>1, <2>1 DEF OuterRuns
  <2>3. outerTarget'.outer \in Nat /\ outerTarget'.at \in Nat  BY <1>1, <2>1
  <2>4. outerTarget'.outer <= outer' /\ outerTarget'.outer # outer'  BY <1>1, <2>1, <2>2, <2>3
  <2>5. outerTarget'.at \in 0 .. Len(result')  BY <1>3, <1>7, <2>2 DEF EventsStay
  <2>6. ~ calls'[running'[1]].decoded  BY <1>2, <1>4, <1>5, <1>9
  <2> QED  BY <1>1, <2>1, <2>4, <2>5, <2>6 DEF OuterOK, OuterRuns
<1>10. CASE running # <<>>
  <2>1. outerTarget' = outerTarget /\ outer' = outer  BY <1>2, <1>10
  <2>2. /\ outerTarget.outer <= outer /\ outerTarget.at \in 0 .. Len(result)
        /\ outerTarget.outer = outer /\ outerTarget.at # 0 =>
             result[outerTarget.at].call = running[1]
        /\ calls[running[1]].decoded => outerTarget.outer = outer /\ outerTarget.at # 0
    BY <1>1, <1>10 DEF OuterRuns
  <2>3. running'[1] = running[1] /\ calls'[running'[1]] = calls[running[1]]
    BY <1>1, <1>2, <1>6, <1>10 DEF Nested
  <2>4. outerTarget.at \in 0 .. Len(result')  BY <1>3, <1>7, <2>2 DEF EventsStay
  <2>5. outerTarget.at # 0 => result'[outerTarget.at].call = result[outerTarget.at].call
    BY <1>3, <1>7, <2>2 DEF EventsStay
  <2> QED  BY <1>1, <2>1, <2>2, <2>3, <2>4, <2>5 DEF OuterOK, OuterRuns
<1> QED  BY <1>8, <1>9, <1>10

(* The parts of the invariant after a call.                                  *)
LEMMA InvokeInv ==
  ASSUME IInv, NEW p \in Programs, NEW id \in Identities, NEW decoded \in BOOLEAN,
         Invoke(p, id, decoded),
         decoded => p # "router",
         result' = IF decoded THEN Append(result, CallEvent(p, id)) ELSE result,
         OuterOK', PumpOK', DlmmOK'
  PROVE  IInv'
<1>1. TypeOK /\ Nested  BY DEF IInv
<1>2. /\ running' \in Seq(Nat \ {0}) /\ calls' \in Seq(Call) /\ Len(calls') <= MaxCalls
      /\ heights' = heights /\ outer' \in Nat /\ Nested'
  BY <1>1, InvokeStep
<1>3. result' \in Seq(Event) /\ Stems' /\ Single' /\ OwnExecution' /\ Present'
  BY InvokeResults
<1>4. TypeOK'  BY <1>1, <1>2, <1>3 DEF TypeOK, OuterOK, PumpOK, DlmmOK
<1> QED  BY <1>2, <1>3, <1>4 DEF IInv, OuterOK, PumpOK, DlmmOK

(* A call that is not decoded leaves the loop as it was.                     *)
LEMMA CallUndecodedInv ==
  ASSUME IInv, NEW p \in Programs, NEW id \in Identities, CallUndecoded(p, id)
  PROVE  IInv'
<1> DEFINE m1 == Len(pumpTargets)
           m2 == Len(dlmmTargets)
           h == IF heights THEN Len(running) + 1 ELSE 0
           e == [outer |-> outer', height |-> h, at |-> Len(result) + 1, used |-> FALSE]
<1>1. /\ Invoke(p, id, FALSE) /\ result' = result /\ outerTarget' = outerTarget
      /\ pumpTargets' = pumpTargets /\ dlmmTargets' = dlmmTargets
  BY DEF CallUndecoded, merger
<1>2. TypeOK /\ Nested  BY DEF IInv
<1>3. pumpTargets \in Seq(Target) /\ dlmmTargets \in Seq(Target)  BY <1>2 DEF TypeOK
<1>4. pumpTargets' = SubSeq(pumpTargets, 1, m1) /\ dlmmTargets' = SubSeq(dlmmTargets, 1, m2)
  BY <1>1, <1>3, SubSeqFull
<1>5. /\ m1 \in 0 .. Len(pumpTargets) /\ m2 \in 0 .. Len(dlmmTargets)
      /\ DOMAIN pumpTargets = 1 .. m1
  BY <1>3
<1>6. h \in 0 .. MaxDepth /\ (heights => h = Len(running) + 1)
  <2>1. Len(running) + 1 \in 1 .. MaxDepth /\ MaxDepth \in Nat
    BY <1>1, <1>2, InvokeStep, InstructionMergeAssumption
  <2> QED  BY <2>1
<1> HIDE DEF m1, m2, h
<1>7. PumpOK'  BY <1>1, <1>4, <1>5, <1>6, InvokePump
<1>8. DlmmOK'  BY <1>1, <1>4, <1>5, <1>6, InvokeDlmm DEF m2
<1>9. OuterOK'  BY <1>1, InvokeOuter
<1> QED  BY <1>1, <1>7, <1>8, <1>9, InvokeInv

(* An outer call starts with no targets but its own.                         *)
LEMMA CallOuterInv ==
  ASSUME IInv, NEW p \in Programs, NEW id \in Identities, CallOuter(p, id)
  PROVE  IInv'
<1> DEFINE e == [outer |-> outer', height |-> 1, at |-> Len(result) + 1, used |-> FALSE]
<1>1. /\ Invoke(p, id, TRUE) /\ running = <<>> /\ p # "router"
      /\ TakeOuter(CallEvent(p, id), outer + 1)
  BY DEF CallOuter
<1>2. TypeOK /\ Nested  BY DEF IInv
<1>3. Len(running) + 1 \in 1 .. MaxDepth /\ outer' = outer + 1  BY <1>1, <1>2, InvokeStep
<1>4. /\ result' = Append(result, CallEvent(p, id))
      /\ outerTarget' = [outer |-> outer', at |-> Len(result) + 1]
      /\ pumpTargets' = IF p \in Trades THEN <<e>> ELSE <<>>
      /\ dlmmTargets' = IF p = "dlmm" THEN <<e>> ELSE <<>>
  BY <1>1, <1>3 DEF TakeOuter, NewTarget, CallEvent
<1>5. /\ pumpTargets \in Seq(Target) /\ dlmmTargets \in Seq(Target)
      /\ Len(pumpTargets) \in Nat /\ Len(dlmmTargets) \in Nat
  BY <1>2 DEF TypeOK
<1>6. SubSeq(pumpTargets, 1, 0) = <<>> /\ SubSeq(dlmmTargets, 1, 0) = <<>>
  BY <1>5, SubSeqEmpty
<1>7. Len(running) = 0 /\ 0 + 1 = 1  BY <1>1
<1>8. 1 \in 0 .. MaxDepth /\ 0 \in 0 .. Len(pumpTargets) /\ 0 \in 0 .. Len(dlmmTargets)
      /\ 1 .. 0 = {}
  BY <1>3, <1>5, <1>7, InstructionMergeAssumption
<1> HIDE DEF e
<1>9. Append(<<>>, e) = <<e>>  OBVIOUS
<1>10. PumpOK'
  <2>1. pumpTargets' = IF TRUE /\ p \in Trades THEN Append(SubSeq(pumpTargets, 1, 0), e)
                       ELSE SubSeq(pumpTargets, 1, 0)
    BY <1>4, <1>6, <1>9
  <2> QED  BY <1>1, <1>4, <1>7, <1>8, <2>1, InvokePump DEF e
<1>11. DlmmOK'
  <2>1. dlmmTargets' = IF TRUE /\ p = "dlmm" THEN Append(SubSeq(dlmmTargets, 1, 0), e)
                       ELSE SubSeq(dlmmTargets, 1, 0)
    BY <1>4, <1>6, <1>9
  <2> QED  BY <1>1, <1>4, <1>7, <1>8, <2>1, InvokeDlmm DEF e
<1>12. OuterOK'  BY <1>1, <1>4, InvokeOuter
<1> QED  BY <1>1, <1>4, <1>10, <1>11, <1>12, InvokeInv

(* An inner call comes below the calls that run, and cannot be taken for the *)
(* outer one.                                                                *)
LEMMA CallInnerInv ==
  ASSUME IInv, NEW p \in Programs, NEW id \in Identities, CallInner(p, id)
  PROVE  IInv'
<1> DEFINE m1 == Len(pumpTargets)
           m2 == Len(dlmmTargets)
           h == Height
           c == CallEvent(p, id)
           e == [outer |-> outer', height |-> h, at |-> Len(result) + 1, used |-> FALSE]
<1>1. /\ Invoke(p, id, TRUE) /\ running # <<>> /\ p # "router"
      /\ IF p \in Trades THEN TakeTradeCall(c, h) ELSE TakeOther(c, h)
  BY DEF CallInner
<1>2. TypeOK /\ Nested /\ Stacked(pumpTargets) /\ Stacked(dlmmTargets) /\ OuterRuns  BY DEF IInv
<1>3. /\ pumpTargets \in Seq(Target) /\ dlmmTargets \in Seq(Target)
      /\ heights \in BOOLEAN /\ outer \in Nat /\ result \in Seq(Event)
      /\ Len(running) \in Nat /\ MaxDepth \in Nat /\ running \in Seq(Nat \ {0})
  BY <1>2, InstructionMergeAssumption DEF TypeOK
<1>4. /\ Len(running) + 1 \in 1 .. MaxDepth /\ outer' = outer
      /\ \A k \in DOMAIN running : calls[running[k]].program # p
  BY <1>1, <1>2, InvokeStep
<1>5. /\ h \in 0 .. MaxDepth /\ h \in Nat /\ (heights => h = Len(running) + 1)
      /\ (heights => h # Unknown) /\ (~ heights => h = Unknown)
  BY <1>3, <1>4 DEF Height, Unknown
<1>6. /\ m1 \in 0 .. Len(pumpTargets) /\ m2 \in 0 .. Len(dlmmTargets)
      /\ DOMAIN pumpTargets = 1 .. m1
      /\ SubSeq(pumpTargets, 1, m1) = pumpTargets /\ SubSeq(dlmmTargets, 1, m2) = dlmmTargets
  BY <1>3, SubSeqFull
<1>7. c.program = p /\ c.identity = id  BY DEF CallEvent
<1>8. e = NewTarget(outer, h)  BY <1>4 DEF NewTarget
<1>9. p \in Trades => p # "dlmm"  BY DEF Trades
<1> HIDE DEF m1, h, c, e
<1>10. CASE p \in Trades
  <2>1. /\ result' = Append(result, c) /\ outerTarget' = outerTarget /\ dlmmTargets' = dlmmTargets
        /\ pumpTargets' = Append(OpenAbove(pumpTargets, h), e)
    BY <1>1, <1>8, <1>9, <1>10 DEF TakeTradeCall
  <2>2. PICK m \in 0 .. Len(pumpTargets) :
          /\ OpenAbove(pumpTargets, h) = SubSeq(pumpTargets, 1, m)
          /\ ~ heights => m = 0
          /\ \A n \in 1 .. m : pumpTargets[n].outer = outer /\ pumpTargets[n].height < h
          /\ \A n \in DOMAIN pumpTargets :
               heights /\ pumpTargets[n].outer = outer /\ pumpTargets[n].height < h => n \in 1 .. m
    BY <1>2, <1>3, <1>5, OpenOnes
  <2>3. ~ heights => 1 .. m = {}  BY <2>2
  <2>4. \A n \in 1 .. m :
          heights /\ pumpTargets[n].outer = outer' /\ pumpTargets[n].height < h
    BY <1>4, <2>2, <2>3
  <2>5. pumpTargets' = IF TRUE /\ p \in Trades THEN Append(SubSeq(pumpTargets, 1, m), e)
                       ELSE SubSeq(pumpTargets, 1, m)
    BY <1>10, <2>1, <2>2
  <2>6. PumpOK'
    BY <1>1, <1>5, <2>1, <2>2, <2>4, <2>5, InvokePump DEF e, c
  <2>7. DlmmOK'
    <3>1. dlmmTargets' = IF TRUE /\ p = "dlmm" THEN Append(SubSeq(dlmmTargets, 1, m2), e)
                         ELSE SubSeq(dlmmTargets, 1, m2)
      BY <1>6, <1>9, <1>10, <2>1
    <3> QED  BY <1>1, <1>5, <1>6, <1>9, <1>10, <2>1, <3>1, InvokeDlmm DEF e, c
  <2>8. OuterOK'  BY <1>1, <2>1, InvokeOuter DEF c
  <2> QED  BY <1>1, <2>1, <2>6, <2>7, <2>8, InvokeInv DEF c
<1>11. CASE p \notin Trades
  <2>1. ~ OuterTakes(c)
    <3> SUFFICES ASSUME OuterTakes(c)  PROVE FALSE
      OBVIOUS
    <3>1. outerTarget.outer = outer /\ outerTarget.at # 0 /\ result[outerTarget.at].program = p
      BY <1>7 DEF OuterTakes, Compatible
    <3>2. result[outerTarget.at].call = running[1] /\ outerTarget.at \in 0 .. Len(result)
      BY <1>1, <1>2, <3>1 DEF OuterRuns
    <3>3. outerTarget.at \in DOMAIN result  BY <1>3, <3>1, <3>2
    <3>4. 1 \in DOMAIN running /\ running[1] \in Nat \ {0}  BY <1>1, <1>3
    <3>5. calls[running[1]].program = p  BY <3>1, <3>2, <3>3, <3>4, OwnFits
    <3> QED  BY <1>4, <3>4, <3>5
  <2>2. [NewTarget(outer, h) EXCEPT !.at = Len(result) + 1] = e
    <3>1. e = [outer |-> outer, height |-> h, at |-> Len(result) + 1, used |-> FALSE]
      BY <1>8 DEF NewTarget
    <3>2. Len(result) + 1 \in Nat \ {0}  BY <1>3
    <3>3. e \in Target /\ e.at = Len(result) + 1  BY <1>3, <1>5, <3>1, <3>2 DEF Target
    <3>4. \A t \in Target : [t EXCEPT !.at = t.at] = t  BY DEF Target
    <3>5. [e EXCEPT !.at = e.at] = e  BY <3>3, <3>4
    <3> QED  BY <1>8, <3>3, <3>5
  <2>3. /\ result' = Append(result, c) /\ outerTarget' = outerTarget /\ pumpTargets' = pumpTargets
        /\ dlmmTargets' = IF p = "dlmm" THEN Append(OpenAbove(dlmmTargets, h), e) ELSE dlmmTargets
    BY <1>1, <1>7, <1>11, <2>1, <2>2 DEF TakeOther
  <2>4. PICK m \in 0 .. Len(dlmmTargets) :
          /\ OpenAbove(dlmmTargets, h) = SubSeq(dlmmTargets, 1, m)
          /\ ~ heights => m = 0
          /\ \A n \in 1 .. m : dlmmTargets[n].outer = outer /\ dlmmTargets[n].height < h
    BY <1>2, <1>3, <1>5, OpenOnes
  <2>5. ~ heights => 1 .. m = {}  BY <2>4
  <2>6. \A n \in 1 .. m :
          heights /\ dlmmTargets[n].outer = outer' /\ dlmmTargets[n].height < h
    BY <1>4, <2>4, <2>5
  <2>7. ASSUME p = "dlmm"  PROVE DlmmOK'
    <3>1. dlmmTargets' = IF TRUE /\ p = "dlmm" THEN Append(SubSeq(dlmmTargets, 1, m), e)
                         ELSE SubSeq(dlmmTargets, 1, m)
      BY <2>3, <2>4, <2>7
    <3> QED  BY <1>1, <1>5, <2>3, <2>4, <2>6, <2>7, <3>1, InvokeDlmm DEF e, c
  <2>8. ASSUME p # "dlmm"  PROVE DlmmOK'
    <3>1. dlmmTargets' = IF TRUE /\ p = "dlmm" THEN Append(SubSeq(dlmmTargets, 1, m2), e)
                         ELSE SubSeq(dlmmTargets, 1, m2)
      BY <1>6, <2>3, <2>8
    <3> QED  BY <1>1, <1>5, <1>6, <2>3, <2>8, <3>1, InvokeDlmm DEF e, c, m2
  <2>9. PumpOK'
    <3>1. pumpTargets' = IF TRUE /\ p \in Trades THEN Append(SubSeq(pumpTargets, 1, m1), e)
                         ELSE SubSeq(pumpTargets, 1, m1)
      BY <1>6, <1>9, <1>11, <2>3
    <3> QED  BY <1>1, <1>5, <1>6, <1>9, <1>11, <2>3, <3>1, InvokePump DEF e, c
  <2>10. OuterOK'  BY <1>1, <2>3, InvokeOuter DEF c
  <2> QED  BY <1>1, <2>3, <2>7, <2>8, <2>9, <2>10, InvokeInv DEF c
<1> QED  BY <1>1, <1>10, <1>11

(* The trade that emits uses up the target that is its own, if there is one. *)
LEMMA EmitPump ==
  ASSUME IInv, Emit
  PROVE  PumpOK'
<1> DEFINE k == Len(running)
           i == running[k]
           n == Latest(Callers(pumpTargets, Height))
           v == pumpTargets'
<1>1. /\ TypeOK /\ Nested /\ Stacked(pumpTargets) /\ UnusedRuns /\ PumpHeld
      /\ pumpTargets \in Seq(Target) /\ outer \in Nat
  BY DEF IInv, TypeOK
<1>2. /\ k \in DOMAIN running /\ i \in DOMAIN calls
      /\ \A j \in DOMAIN calls :
           /\ calls'[j].program = calls[j].program /\ calls'[j].decoded = calls[j].decoded
           /\ j # i => calls'[j].emitted = calls[j].emitted
      /\ calls'[i].emitted
      /\ heights' = heights /\ running' = running /\ outer' = outer
  BY <1>1, EmitStep
<1>3. EventsStay  BY EmitResults
<1>4. \A l \in DOMAIN running : running[l] \in DOMAIN calls
      /\ (calls[running[l]].program = calls[i].program => l = k)
  BY <1>1, OnTop DEF Nested
<1>5. /\ Len(pumpTargets) \in Nat /\ DOMAIN pumpTargets = 1 .. Len(pumpTargets)
      /\ \A q \in DOMAIN pumpTargets : pumpTargets[q] \in Target
  BY <1>1
<1>6. /\ v \in Seq(Target) /\ DOMAIN v = DOMAIN pumpTargets
      /\ \A q \in DOMAIN pumpTargets :
           /\ v[q].outer = pumpTargets[q].outer /\ v[q].height = pumpTargets[q].height
           /\ v[q].at = pumpTargets[q].at
           /\ ~ v[q].used => ~ pumpTargets[q].used
           /\ v[q].used /\ ~ pumpTargets[q].used => calls[i].program \in Trades /\ q = n
      /\ calls[i].program \in Trades /\ n # 0 =>
           /\ n \in DOMAIN pumpTargets /\ v[n].used
           /\ heights => pumpTargets[n].height = k
      /\ calls[i].program \in Trades =>
           \A q \in DOMAIN pumpTargets : Own(pumpTargets[q], k) => n = q
  <2>1. CASE calls[i].program \in Trades
    <3>1. /\ n \in 0 .. Len(pumpTargets)
          /\ n # 0 => pumpTargets[n].outer = outer /\ (heights => pumpTargets[n].height = k)
          /\ \A q \in DOMAIN pumpTargets : Own(pumpTargets[q], k) => n = q
          /\ v = IF n = 0 THEN pumpTargets ELSE [pumpTargets EXCEPT ![n].used = TRUE]
      BY <2>1, TradeLands
    <3> HIDE DEF n, k, i, v
    <3>2. CASE n = 0  BY <1>1, <1>5, <2>1, <3>1, <3>2
    <3>3. CASE n # 0
      <4> DEFINE t == [pumpTargets[n] EXCEPT !.used = TRUE]
      <4>1. n \in DOMAIN pumpTargets /\ pumpTargets[n] \in Target  BY <1>5, <3>1, <3>3
      <4>2. \A s \in Target : LET w == [s EXCEPT !.used = TRUE]
                              IN /\ w \in Target /\ w.outer = s.outer /\ w.height = s.height
                                 /\ w.at = s.at /\ w.used
        BY DEF Target
      <4>3. /\ t \in Target /\ t.outer = pumpTargets[n].outer /\ t.height = pumpTargets[n].height
            /\ t.at = pumpTargets[n].at /\ t.used
        BY <4>1, <4>2
      <4>4. v = [pumpTargets EXCEPT ![n] = t]  BY <3>1, <3>3
      <4> HIDE DEF t
      <4>5. /\ v \in Seq(Target) /\ DOMAIN v = DOMAIN pumpTargets /\ v[n] = t
            /\ \A q \in DOMAIN pumpTargets : q # n => v[q] = pumpTargets[q]
        BY <1>1, <4>1, <4>3, <4>4, ExceptSeq
      <4> QED  BY <2>1, <3>1, <4>1, <4>3, <4>5
    <3> QED  BY <3>2, <3>3
  <2>2. CASE calls[i].program \notin Trades
    <3>1. v = pumpTargets  BY <2>2, DlmmLands, OtherLands
    <3> QED  BY <1>1, <2>2, <3>1
  <2> QED  BY <2>1, <2>2
<1> DEFINE r == result'
<1> HIDE DEF n, v
<1>7. Stacked(pumpTargets)'
  <2>1. StackedIn(pumpTargets, result, outer, heights)  BY <1>1 DEF Stacked
  <2>2. \A q \in DOMAIN result : q \in DOMAIN r /\ r[q].call = result[q].call
    BY <1>3 DEF EventsStay
  <2>3. outer <= outer  BY <1>1
  <2>4. \A q \in DOMAIN v : /\ q \in DOMAIN pumpTargets /\ v[q].outer = pumpTargets[q].outer
                            /\ v[q].height = pumpTargets[q].height
                            /\ v[q].at = pumpTargets[q].at
    BY <1>6
  <2>5. v \in Seq(Target)  BY <1>6
  <2> HIDE DEF r
  <2>6. StackedIn(v, r, outer, heights)
    BY ONLY <1>1, <2>1, <2>2, <2>3, <2>4, <2>5, FewerStacked
  <2> QED  BY <1>2, <2>6 DEF Stacked, r, v
<1> HIDE DEF k, i
<1>8. ASSUME NEW q \in DOMAIN pumpTargets, NEW l \in DOMAIN running, Own(pumpTargets[q], l)
      PROVE  /\ q \in DOMAIN v /\ v[q].outer = outer /\ result'[v[q].at].call = running[l]
             /\ heights => v[q].height = l
  <2>1. pumpTargets[q].at \in DOMAIN result  BY <1>1 DEF Stacked, StackedIn
  <2> QED  BY <1>3, <1>6, <1>8, <2>1 DEF Own, EventsStay
<1>9. UnusedRuns'
  <2> SUFFICES ASSUME NEW q \in DOMAIN v, v[q].outer = outer, ~ v[q].used
               PROVE  \E l \in DOMAIN running :
                        /\ v[q].outer = outer /\ result'[v[q].at].call = running[l]
                        /\ heights => v[q].height = l
                        /\ calls'[running[l]].program \in Trades /\ ~ calls'[running[l]].emitted
    BY <1>2 DEF UnusedRuns, Own, v
  <2>1. q \in DOMAIN pumpTargets /\ pumpTargets[q].outer = outer /\ ~ pumpTargets[q].used
    BY <1>6
  <2>2. PICK l \in DOMAIN running :
          /\ Own(pumpTargets[q], l)
          /\ calls[running[l]].program \in Trades /\ ~ calls[running[l]].emitted
    BY <1>1, <2>1 DEF UnusedRuns
  <2>3. running[l] # i
    <3> SUFFICES ASSUME running[l] = i  PROVE FALSE
      OBVIOUS
    <3>1. l = k  BY <1>4
    <3>2. calls[i].program \in Trades  BY <2>2
    <3>3. n = q  BY <1>6, <2>1, <2>2, <3>1, <3>2
    <3>4. n # 0  BY <1>5, <2>1, <3>3
    <3>5. v[n].used  BY <1>6, <3>2, <3>4
    <3> QED  BY <3>3, <3>5
  <2>4. calls'[running[l]].program \in Trades /\ ~ calls'[running[l]].emitted
    BY <1>2, <1>4, <2>2, <2>3
  <2> QED  BY <1>8, <2>1, <2>2, <2>4
<1>10. PumpHeld'
  <2> SUFFICES ASSUME heights, NEW l \in DOMAIN running, calls'[running[l]].program \in Trades,
                      calls'[running[l]].decoded
               PROVE  \E q \in DOMAIN v :
                        /\ v[q].outer = outer /\ result'[v[q].at].call = running[l]
                        /\ heights => v[q].height = l
                        /\ ~ calls'[running[l]].emitted => ~ v[q].used
    BY <1>2, PumpHeldNext DEF v
  <2>1. calls[running[l]].program \in Trades /\ calls[running[l]].decoded  BY <1>2, <1>4
  <2>2. PICK q \in DOMAIN pumpTargets :
          Own(pumpTargets[q], l) /\ (~ calls[running[l]].emitted => ~ pumpTargets[q].used)
    BY <1>1, <2>1 DEF PumpHeld, Held
  <2>3. ~ calls'[running[l]].emitted => ~ v[q].used
    <3> SUFFICES ASSUME ~ calls'[running[l]].emitted, v[q].used  PROVE FALSE
      OBVIOUS
    <3>1. running[l] # i /\ l # k  BY <1>2 DEF i
    <3>2. ~ calls[running[l]].emitted /\ ~ pumpTargets[q].used  BY <1>2, <1>4, <2>2, <3>1
    <3>3. calls[i].program \in Trades /\ q = n  BY <1>6, <3>2
    <3>4. n # 0  BY <1>5, <3>3
    <3>5. pumpTargets[q].height = k  BY <1>6, <3>3, <3>4
    <3>6. pumpTargets[q].height = l  BY <2>2 DEF Own
    <3> QED  BY <3>1, <3>5, <3>6
  <2> QED  BY <1>8, <2>2, <2>3
<1> QED  BY <1>6, <1>7, <1>9, <1>10 DEF PumpOK, v

(* The DLMM call that emits keeps the targets up to its own.                 *)
LEMMA EmitDlmm ==
  ASSUME IInv, Emit
  PROVE  DlmmOK'
<1> DEFINE k == Len(running)
           i == running[k]
           v == dlmmTargets'
<1>1. /\ TypeOK /\ Nested /\ Stacked(dlmmTargets) /\ DlmmHeld
      /\ dlmmTargets \in Seq(Target) /\ outer \in Nat
  BY DEF IInv, TypeOK
<1>2. /\ k \in DOMAIN running /\ i \in DOMAIN calls
      /\ \A j \in DOMAIN calls :
           /\ calls'[j].program = calls[j].program
           /\ j # i => calls'[j].emitted = calls[j].emitted
      /\ calls'[i].emitted
      /\ heights' = heights /\ running' = running /\ outer' = outer
  BY <1>1, EmitStep
<1>3. EventsStay /\ CallsGrow  BY EmitResults
<1>4. \A l \in DOMAIN running : running[l] \in DOMAIN calls
      /\ (calls[running[l]].program = calls[i].program => l = k)
  BY <1>1, OnTop DEF Nested
<1>5. Len(dlmmTargets) \in Nat /\ DOMAIN dlmmTargets = 1 .. Len(dlmmTargets)  BY <1>1
<1>6. PICK c \in 0 .. Len(dlmmTargets) :
        /\ v = SubSeq(dlmmTargets, 1, c)
        /\ calls[i].program # "dlmm" => c = Len(dlmmTargets)
        /\ calls[i].program = "dlmm" /\ AllDecoded("dlmm") =>
             \E n \in 1 .. c : Own(dlmmTargets[n], k)
  <2>1. CASE calls[i].program = "dlmm"  BY <2>1, DlmmLands
  <2>2. CASE calls[i].program # "dlmm"
    <3>1. dlmmTargets' = dlmmTargets  BY <2>2, TradeLands, OtherLands
    <3>2. dlmmTargets = SubSeq(dlmmTargets, 1, Len(dlmmTargets))  BY <1>1, SubSeqFull
    <3>3. Len(dlmmTargets) \in 0 .. Len(dlmmTargets)  BY <1>5
    <3> QED  BY <2>2, <3>1, <3>2, <3>3
  <2> QED  BY <2>1, <2>2
<1>7. /\ v \in Seq(Target) /\ DOMAIN v = 1 .. c
      /\ \A n \in 1 .. c : n \in DOMAIN dlmmTargets /\ v[n] = dlmmTargets[n]
  <2> HIDE DEF v
  <2>1. c \in 0 .. Len(dlmmTargets) /\ v = SubSeq(dlmmTargets, 1, c)  BY <1>6
  <2> QED  BY ONLY <1>1, <1>5, <2>1, FirstOnes
<1> DEFINE r == result'
<1> HIDE DEF v, k, i
<1>8. Stacked(dlmmTargets)'
  <2>1. StackedIn(dlmmTargets, result, outer, heights)  BY <1>1 DEF Stacked
  <2>2. \A q \in DOMAIN result : q \in DOMAIN r /\ r[q].call = result[q].call
    BY <1>3 DEF EventsStay
  <2>3. outer <= outer  BY <1>1
  <2>4. \A q \in DOMAIN v : /\ q \in DOMAIN dlmmTargets /\ v[q].outer = dlmmTargets[q].outer
                            /\ v[q].height = dlmmTargets[q].height
                            /\ v[q].at = dlmmTargets[q].at
    BY <1>7
  <2> HIDE DEF r
  <2>5. StackedIn(v, r, outer, heights)
    BY ONLY <1>1, <1>7, <2>1, <2>2, <2>3, <2>4, FewerStacked, ZenonT(30)
  <2> QED  BY <1>2, <2>5 DEF Stacked, r, v
<1>9. DlmmHeld'
  <2> SUFFICES ASSUME AllDecoded("dlmm")', NEW l \in DOMAIN running,
                      calls'[running[l]].program = "dlmm"
               PROVE  \E q \in DOMAIN v :
                        /\ v[q].outer = outer /\ result'[v[q].at].call = running[l]
                        /\ heights => v[q].height = l
                        /\ ~ calls'[running[l]].emitted => ~ v[q].used
    BY <1>2, DlmmHeldNext DEF v
  <2>1. AllDecoded("dlmm") /\ calls[running[l]].program = "dlmm"
    BY <1>2, <1>3, <1>4, SeparableBefore
  <2>2. \E q \in 1 .. c :
          /\ Own(dlmmTargets[q], l)
          /\ ~ calls'[running[l]].emitted => ~ dlmmTargets[q].used
    <3>1. CASE calls[i].program = "dlmm"
      <4>1. l = k  BY <1>4, <2>1, <3>1
      <4>2. calls'[running[l]].emitted  BY <1>2, <4>1 DEF i
      <4> QED  BY <1>6, <2>1, <3>1, <4>1, <4>2
    <3>2. CASE calls[i].program # "dlmm"
      <4>1. PICK q \in DOMAIN dlmmTargets :
              Own(dlmmTargets[q], l) /\ (~ calls[running[l]].emitted => ~ dlmmTargets[q].used)
        BY <1>1, <2>1, SMTT(30) DEF DlmmHeld, Held
      <4>2. q \in 1 .. c  BY <1>5, <1>6, <3>2
      <4>3. calls'[running[l]].emitted = calls[running[l]].emitted
        BY <1>2, <1>4, <2>1, <3>2
      <4> QED  BY <4>1, <4>2, <4>3
    <3> QED  BY <3>1, <3>2
  <2>3. PICK q \in 1 .. c :
          Own(dlmmTargets[q], l) /\ (~ calls'[running[l]].emitted => ~ dlmmTargets[q].used)
    BY <2>2
  <2>4. q \in DOMAIN v /\ v[q] = dlmmTargets[q]  BY <1>7
  <2>5. dlmmTargets[q].at \in DOMAIN result  BY <1>1, <1>7 DEF Stacked, StackedIn
  <2> QED  BY <1>3, <2>3, <2>4, <2>5 DEF Own, EventsStay
<1> QED  BY <1>7, <1>8, <1>9 DEF DlmmOK, v

(* An execution, wherever it lands, keeps the invariant.                     *)
LEMMA EmitInv ==
  ASSUME IInv, Emit
  PROVE  IInv'
<1>1. TypeOK /\ Nested /\ OuterRuns  BY DEF IInv
<1>2. /\ calls' \in Seq(Call) /\ Len(calls') = Len(calls) /\ DOMAIN calls' = DOMAIN calls
      /\ \A j \in DOMAIN calls : calls'[j].decoded = calls[j].decoded
      /\ heights' = heights /\ running' = running /\ outer' = outer /\ Nested'
  BY <1>1, EmitStep
<1>3. /\ EventsStay /\ result' \in Seq(Event)
      /\ Stems' /\ Single' /\ OwnExecution' /\ Present'
  BY EmitResults
<1>4. outerTarget' = outerTarget  BY EmitLands
<1>5. PumpOK' /\ DlmmOK'  BY EmitPump, EmitDlmm
<1>6. TypeOK'  BY <1>1, <1>2, <1>3, <1>4, <1>5 DEF TypeOK, PumpOK, DlmmOK
<1>7. OuterRuns'
  <2>1. /\ outerTarget.outer <= outer /\ outerTarget.at \in 0 .. Len(result)
        /\ running # <<>> =>
             /\ outerTarget.outer = outer /\ outerTarget.at # 0 =>
                  result[outerTarget.at].call = running[1]
             /\ calls[running[1]].decoded => outerTarget.outer = outer /\ outerTarget.at # 0
    BY <1>1 DEF OuterRuns
  <2>2. /\ Len(result) \in Nat /\ Len(result') \in Nat /\ DOMAIN result = 1 .. Len(result)
    BY <1>1, <1>3 DEF TypeOK
  <2>3. outerTarget.at \in 0 .. Len(result')  BY <1>3, <2>1, <2>2 DEF EventsStay
  <2>4. outerTarget.at # 0 => result'[outerTarget.at].call = result[outerTarget.at].call
    BY <1>3, <2>1, <2>2 DEF EventsStay
  <2>5. running # <<>> => running[1] \in DOMAIN calls
    <3>1. running # <<>> => 1 \in DOMAIN running  BY <1>1 DEF TypeOK
    <3> QED  BY <1>1, <3>1 DEF Nested
  <2> QED  BY <1>2, <1>4, <2>1, <2>3, <2>4, <2>5 DEF OuterRuns
<1> QED  BY <1>2, <1>3, <1>5, <1>6, <1>7 DEF IInv, PumpOK, DlmmOK

(* What a return leaves runs below; the call that returns has emitted or has *)
(* no target to wait for.                                                    *)
LEMMA ReturnInv ==
  ASSUME IInv, Return
  PROVE  IInv'
<1> DEFINE k == Len(running)
<1>1. /\ TypeOK /\ Nested /\ OuterRuns /\ UnusedRuns /\ PumpHeld /\ DlmmHeld
      /\ Stacked(pumpTargets) /\ Stacked(dlmmTargets) /\ Stems
  BY DEF IInv
<1>2. /\ k \in DOMAIN running
      /\ calls[running[k]].emitted \/ ~ calls[running[k]].decoded
      /\ running' \in Seq(Nat \ {0}) /\ DOMAIN running' = DOMAIN running \ {k}
      /\ running' # <<>> => running # <<>> /\ running'[1] = running[1]
      /\ \A j \in DOMAIN running' : running'[j] = running[j]
      /\ UNCHANGED <<heights, calls, outer, merger>>
      /\ Nested'
  BY <1>1, ReturnStep
<1>3. /\ heights' = heights /\ calls' = calls /\ outer' = outer /\ result' = result
      /\ outerTarget' = outerTarget /\ pumpTargets' = pumpTargets /\ dlmmTargets' = dlmmTargets
  BY <1>2 DEF merger
<1> HIDE DEF k
<1>4. TypeOK'  BY <1>1, <1>2, <1>3 DEF TypeOK
<1>5. \A p : /\ AllDecoded(p)' => AllDecoded(p)
             /\ Separable(p)' => Separable(p)
  BY <1>3 DEF AllDecoded, Separable
<1> DEFINE waits == \A i \in DOMAIN calls : Awaited(i)' <=> Awaited(i)
<1>14. waits  BY <1>3 DEF Awaited
<1> HIDE DEF waits
<1>6. Stems' /\ Single'  BY <1>3 DEF IInv, Stems, Stem, Single
<1>7. OwnExecution'  BY <1>3, <1>5 DEF IInv, OwnExecution
<1>8. Present'  BY <1>3, <1>5, <1>14 DEF IInv, Present, waits
<1>9. OuterRuns'  BY <1>1, <1>2, <1>3 DEF OuterRuns
<1>10. Stacked(pumpTargets)' /\ Stacked(dlmmTargets)'
  BY <1>1, <1>3 DEF Stacked, StackedIn
<1>11. UnusedRuns'
  <2> SUFFICES ASSUME NEW n \in DOMAIN pumpTargets, pumpTargets[n].outer = outer,
                      ~ pumpTargets[n].used
               PROVE  \E l \in DOMAIN running' :
                        /\ pumpTargets[n].outer = outer
                        /\ result[pumpTargets[n].at].call = running'[l]
                        /\ heights => pumpTargets[n].height = l
                        /\ calls[running'[l]].program \in Trades /\ ~ calls[running'[l]].emitted
    BY <1>3 DEF UnusedRuns, Own
  <2>1. PICK l \in DOMAIN running :
          /\ Own(pumpTargets[n], l)
          /\ calls[running[l]].program \in Trades /\ ~ calls[running[l]].emitted
    BY <1>1 DEF UnusedRuns
  <2>2. calls[running[l]].decoded
    <3>1. /\ pumpTargets[n].at \in DOMAIN result
          /\ result[pumpTargets[n].at].call # None
          /\ result[pumpTargets[n].at].call = running[l]
      BY <1>1, <2>1 DEF Stacked, StackedIn, Own
    <3> QED  BY <1>1, <3>1 DEF Stems, Stem
  <2>3. l # k  BY <1>2, <2>1, <2>2
  <2>4. l \in DOMAIN running' /\ running'[l] = running[l]  BY <1>2, <2>3
  <2> QED  BY <2>1, <2>4 DEF Own
<1>12. PumpHeld'  BY <1>1, <1>2, <1>3 DEF PumpHeld, Held, Own
<1>13. DlmmHeld'  BY <1>1, <1>2, <1>3, <1>5 DEF DlmmHeld, Held, Own
<1> QED
  BY <1>2, <1>4, <1>6, <1>7, <1>8, <1>9, <1>10, <1>11, <1>12, <1>13 DEF IInv

(* At first nothing has run.                                                 *)
LEMMA InitInv ==
  ASSUME Init
  PROVE  IInv
<1>1. /\ heights \in BOOLEAN /\ running = <<>> /\ calls = <<>> /\ outer = 0 /\ result = <<>>
      /\ outerTarget = [outer |-> 0, at |-> 0] /\ pumpTargets = <<>> /\ dlmmTargets = <<>>
  BY InstructionMergeAssumption DEF Init
<1>2. Len(<<>>) = 0 /\ DOMAIN <<>> = {}  OBVIOUS
<1>3. TypeOK
  <2>1. \A S : <<>> \in Seq(S)  BY EmptySeq
  <2>2. 0 <= MaxCalls  BY InstructionMergeAssumption
  <2> QED  BY <1>1, <1>2, <2>1, <2>2 DEF TypeOK
<1>4. Nested /\ Stems /\ Single  BY <1>1, <1>2, InstructionMergeAssumption DEF Nested, Stems, Single
<1>5. OuterRuns  BY <1>1, <1>2 DEF OuterRuns
<1>6. Stacked(pumpTargets) /\ Stacked(dlmmTargets)  BY <1>1, <1>2 DEF Stacked, StackedIn
<1>7. UnusedRuns /\ PumpHeld /\ DlmmHeld  BY <1>1, <1>2 DEF UnusedRuns, PumpHeld, DlmmHeld
<1>8. OwnExecution /\ Present  BY <1>1, <1>2 DEF OwnExecution, Present
<1> QED  BY <1>3, <1>4, <1>5, <1>6, <1>7, <1>8 DEF IInv

(* Every step of the transaction and the loop keeps the invariant.           *)
LEMMA NextInv ==
  ASSUME IInv, [Next]_vars
  PROVE  IInv'
<1>1. ASSUME NEW p \in Programs, NEW id \in Identities, CallUndecoded(p, id)
      PROVE  IInv'
  BY <1>1, CallUndecodedInv
<1>2. ASSUME NEW p \in Programs, NEW id \in Identities, CallOuter(p, id)
      PROVE  IInv'
  BY <1>2, CallOuterInv
<1>3. ASSUME NEW p \in Programs, NEW id \in Identities, CallInner(p, id)
      PROVE  IInv'
  BY <1>3, CallInnerInv
<1>4. CASE Emit  BY <1>4, EmitInv
<1>5. CASE Return  BY <1>5, ReturnInv
<1>6. CASE UNCHANGED vars
  <2>1. /\ heights' = heights /\ running' = running /\ calls' = calls /\ outer' = outer
        /\ result' = result /\ outerTarget' = outerTarget
        /\ pumpTargets' = pumpTargets /\ dlmmTargets' = dlmmTargets
    BY <1>6 DEF vars, runtime, merger
  <2>2. TypeOK' /\ Nested' /\ Stems' /\ Single' /\ OuterRuns'
    BY <2>1 DEF IInv, TypeOK, Nested, Stems, Stem, Single, OuterRuns
  <2>3. Stacked(pumpTargets)' /\ Stacked(dlmmTargets)' /\ UnusedRuns' /\ PumpHeld'
    BY <2>1 DEF IInv, Stacked, StackedIn, UnusedRuns, PumpHeld, Held, Own
  <2>4. DlmmHeld' /\ OwnExecution' /\ Present'
    BY <2>1 DEF IInv, DlmmHeld, Held, Own, OwnExecution, Present, Separable, AllDecoded, Awaited
  <2> QED  BY <2>2, <2>3, <2>4 DEF IInv
<1> QED  BY <1>1, <1>2, <1>3, <1>4, <1>5, <1>6 DEF Next

-----------------------------------------------------------------------------
(* Theorems *)

(* The invariant holds throughout merge_instruction_events.                  *)
THEOREM Invariance == Spec => []IInv
<1>1. Init => IInv  BY InitInv
<1>2. IInv /\ [Next]_vars => IInv'  BY NextInv
<1> QED  BY <1>1, <1>2, PTL DEF Spec

(* No event shows the accounts of one call and the execution of another,     *)
(* however calls nest and whichever of them could not be decoded.            *)
THEOREM OwnExecutionHolds == Spec => []OwnExecution
<1>1. IInv => OwnExecution  BY DEF IInv
<1> QED  BY <1>1, Invariance, PTL

(* Every execution is in the result, once; and with its call, if the event   *)
(* of that waits for it.                                                     *)
THEOREM ExecutedOnceHolds == Spec => []ExecutedOnce
<1>1. ASSUME IInv  PROVE ExecutedOnce
  <2> SUFFICES ASSUME NEW i \in DOMAIN calls, calls[i].emitted, Separable(calls[i].program)
               PROVE  \E n \in DOMAIN result :
                        /\ \A m \in DOMAIN result : result[m].execution = i <=> m = n
                        /\ Awaited(i) => result[n].call = i
    BY DEF ExecutedOnce
  <2>1. PICK n \in DOMAIN result :
          result[n].execution = i /\ (Awaited(i) => result[n].call = i)
    BY <1>1 DEF IInv, Present
  <2>2. i # None  BY <1>1 DEF IInv, TypeOK, None
  <2>3. \A m \in DOMAIN result : result[m].execution = i => m = n
    BY <1>1, <2>1, <2>2 DEF IInv, Single
  <2> QED  BY <2>1, <2>3
<1> QED  BY <1>1, Invariance, PTL
=============================================================================
