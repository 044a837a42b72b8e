------------------------ MODULE StonkFunRegistryProofs ------------------------
(***************************************************************************)
(* Proofs about StonkFunRegistry: batches of any length over any pools are  *)
(* atomic, and saved provenance is permanent.                               *)
(***************************************************************************)
EXTENDS StonkFunRegistry, FiniteSetTheorems, TLAPS

(* The entries the loop is past. *)
Passed == {given[i] : i \in {j \in 1 .. next - 1 : given[j].migration}}

(* pending stands for the passed entries, which agree with each other and   *)
(* are valid; an observed batch agrees with the registry as well.           *)
PendingIsPassed ==
  /\ IsFiniteSet(DOMAIN pending)
  /\ running =>
       /\ pools = before
       /\ DOMAIN pending = {e.pool : e \in Passed}
       /\ \A e \in Passed :
            /\ e.valid
            /\ pending[e.pool] = e.provenance
            /\ call = "observe" /\ e.pool \in DOMAIN before => before[e.pool] = e.provenance

(* A load that runs was given what was saved.                               *)
LoadIsOfSaved ==
  running /\ call = "load" =>
    Range(given) = {[pool |-> p, provenance |-> saved[p], valid |-> TRUE, migration |-> TRUE] :
                      p \in DOMAIN saved}

IInv ==
  /\ TypeOK
  /\ PendingIsPassed
  /\ LoadIsOfSaved
  /\ RaisesExactlyOnConflict
  /\ AllOrNothing
  /\ SavedSurvives
  /\ LoadRestores

LEMMA BatchIsSeq == \A items \in Batches : items \in Seq(Item)
BY DEF Batches

LEMMA EmptyIsRegistry == IsRegistry(Empty)
BY DEF IsRegistry, Empty

LEMMA InitInv == Init => IInv
<1> SUFFICES ASSUME Init  PROVE IInv
  OBVIOUS
<1> USE DEF Init, Empty
<1>1. given = <<>> /\ Len(given) = 0 /\ Range(given) = {}  BY DEF Range
<1>2. IsFiniteSet(DOMAIN pending) /\ Cardinality({}) = 0  BY FS_EmptySet
<1>3. TypeOK
  <2>1. IsRegistry(Empty)  BY EmptyIsRegistry
  <2>2. given \in Seq(Item) /\ next \in 1 .. Len(given) + 1  BY <1>1
  <2> QED  BY <2>1, <2>2 DEF TypeOK
<1>4. PendingIsPassed /\ LoadIsOfSaved  BY <1>2 DEF PendingIsPassed, LoadIsOfSaved
<1>5. RaisesExactlyOnConflict
  BY <1>1 DEF RaisesExactlyOnConflict, Migrations, Raised
<1>6. AllOrNothing
  <2>1. DOMAIN pools \ DOMAIN before = {}  OBVIOUS
  <2> QED  BY <1>1, <1>2, <2>1 DEF AllOrNothing, Migrations
<1>7. SavedSurvives /\ LoadRestores  BY DEF SavedSurvives, LoadRestores
<1> QED  BY <1>3, <1>4, <1>5, <1>6, <1>7 DEF IInv

LEMMA BeginInv ==
  ASSUME IInv, NEW c \in {"observe", "load"}, NEW items \in Batches, Begin(c, items),
         c = "load" => Load(items)
  PROVE  IInv'
<1>1. /\ call' = c /\ running' = TRUE /\ given' = items /\ next' = 1
      /\ pending' = Empty /\ before' = pools
      /\ pools' = pools /\ result' = result /\ saved' = saved
  BY DEF Begin
<1>2. TypeOK'
  <2>1. items \in Seq(Item) /\ Len(items) \in Nat  BY BatchIsSeq
  <2> QED  BY <1>1, <2>1 DEF IInv, TypeOK, IsRegistry, Empty
<1>3. PendingIsPassed'
  BY <1>1, FS_EmptySet DEF PendingIsPassed, Passed, Empty
<1>4. LoadIsOfSaved'  BY <1>1 DEF LoadIsOfSaved, Load
<1>5. RaisesExactlyOnConflict' /\ LoadRestores'
  BY <1>1 DEF RaisesExactlyOnConflict, LoadRestores
<1>6. AllOrNothing'  BY <1>1 DEF AllOrNothing
<1>7. SavedSurvives'  BY <1>1 DEF IInv, SavedSurvives
<1> QED  BY <1>2, <1>3, <1>4, <1>5, <1>6, <1>7 DEF IInv

LEMMA ObserveFailedInv == IInv /\ ObserveFailed => IInv'
<1> SUFFICES ASSUME IInv, ObserveFailed  PROVE IInv'
  OBVIOUS
<1>1. /\ call' = "observe" /\ running' = FALSE /\ given' = <<>> /\ next' = 1
      /\ pending' = Empty /\ before' = pools /\ result' = 0
      /\ pools' = pools /\ saved' = saved
  BY DEF ObserveFailed, IInv, TypeOK
<1>2. Len(given') = 0 /\ Migrations' = {}  BY <1>1 DEF Migrations, Range
<1>3. TypeOK'
  <2>1. IsRegistry(Empty)  BY EmptyIsRegistry
  <2>2. given' \in Seq(Item) /\ next' \in 1 .. Len(given') + 1  BY <1>1, <1>2
  <2>3. IsRegistry(pools)' /\ IsRegistry(saved)'  BY <1>1 DEF IInv, TypeOK, IsRegistry
  <2>4. IsRegistry(pending)' /\ IsRegistry(before)'
    BY <1>1, <2>1 DEF IInv, TypeOK, IsRegistry
  <2> QED  BY <1>1, <2>2, <2>3, <2>4 DEF IInv, TypeOK
<1>4. PendingIsPassed' /\ LoadIsOfSaved'
  BY <1>1, FS_EmptySet DEF PendingIsPassed, LoadIsOfSaved, Empty
<1>5. RaisesExactlyOnConflict'  BY <1>1, <1>2 DEF RaisesExactlyOnConflict, Raised
<1>6. AllOrNothing'
  <2>1. DOMAIN pools' \ DOMAIN before' = {}  BY <1>1
  <2>2. Cardinality({}) = 0  BY FS_EmptySet
  <2> QED  BY <1>1, <1>2, <2>1, <2>2 DEF AllOrNothing
<1>7. SavedSurvives' /\ LoadRestores'  BY <1>1 DEF IInv, SavedSurvives, LoadRestores
<1> QED  BY <1>3, <1>4, <1>5, <1>6, <1>7 DEF IInv

LEMMA SaveInv == IInv /\ Save => IInv'
<1> SUFFICES ASSUME IInv, Save  PROVE IInv'
  OBVIOUS
<1> USE DEF Save
<1>1. TypeOK'  BY DEF IInv, TypeOK, IsRegistry
<1>2. PendingIsPassed' /\ LoadIsOfSaved'
  BY DEF IInv, PendingIsPassed, LoadIsOfSaved, Passed
<1>3. RaisesExactlyOnConflict' /\ AllOrNothing'
  BY DEF IInv, RaisesExactlyOnConflict, AllOrNothing, Migrations
<1>4. SavedSurvives' /\ LoadRestores'  BY DEF SavedSurvives, LoadRestores
<1> QED  BY <1>1, <1>2, <1>3, <1>4 DEF IInv

-----------------------------------------------------------------------------
(* The loop *)

(* Passing one more item changes the passed entries by that item at most.   *)
LEMMA PassedGrows ==
  ASSUME TypeOK, next <= Len(given), next' = next + 1, given' = given
  PROVE  /\ given[next] \in Item
         /\ next' \in 1 .. Len(given') + 1
         /\ ~ given[next].migration => Passed' = Passed
         /\ given[next].migration => Passed' = Passed \cup {given[next]}
         /\ Passed \subseteq Item
<1>1. /\ next \in Nat \ {0} /\ Len(given) \in Nat /\ given \in Seq(Item)
      /\ \A i \in 1 .. Len(given) : given[i] \in Item
  BY DEF TypeOK
<1>2. 1 .. next' - 1 = (1 .. next - 1) \cup {next}  BY <1>1
<1>3. given[next] \in Item /\ next' \in 1 .. Len(given') + 1  BY <1>1
<1>4. Passed \subseteq Item  BY <1>1 DEF Passed
<1>5. ~ given[next].migration => Passed' = Passed  BY <1>1, <1>2 DEF Passed
<1>6. given[next].migration => Passed' = Passed \cup {given[next]}
  BY <1>1, <1>2 DEF Passed
<1> QED  BY <1>3, <1>4, <1>5, <1>6

LEMMA PassOverInv == IInv /\ PassOver => IInv'
<1> SUFFICES ASSUME IInv, PassOver  PROVE IInv'
  OBVIOUS
<1>1. /\ running /\ next <= Len(given) /\ ~ given[next].migration /\ next' = next + 1
      /\ UNCHANGED <<pools, call, running, given, pending, result, before, saved>>
  BY DEF PassOver
<1>2. Passed' = Passed /\ next' \in 1 .. Len(given') + 1
  BY <1>1, PassedGrows DEF IInv
<1>3. TypeOK'  BY <1>1, <1>2 DEF IInv, TypeOK, IsRegistry
<1>4. PendingIsPassed'  BY <1>1, <1>2 DEF IInv, PendingIsPassed
<1>5. LoadIsOfSaved' /\ SavedSurvives' /\ LoadRestores'
  BY <1>1 DEF IInv, LoadIsOfSaved, SavedSurvives, LoadRestores
<1>6. RaisesExactlyOnConflict' /\ AllOrNothing'
  BY <1>1 DEF IInv, RaisesExactlyOnConflict, AllOrNothing
<1> QED  BY <1>3, <1>4, <1>5, <1>6 DEF IInv

LEMMA PassEntryInv == IInv /\ PassEntry => IInv'
<1> SUFFICES ASSUME IInv, PassEntry  PROVE IInv'
  OBVIOUS
<1> DEFINE e == given[next]
<1>1. /\ running /\ next <= Len(given) /\ e.migration /\ ~ Refused(e) /\ next' = next + 1
      /\ pending' = Put(pending, e.pool, e.provenance)
      /\ UNCHANGED <<pools, call, running, given, result, before, saved>>
  BY DEF PassEntry, Stage
<1>2. /\ e \in Item /\ next' \in 1 .. Len(given') + 1
      /\ Passed' = Passed \cup {e} /\ Passed \subseteq Item
  BY <1>1, PassedGrows DEF IInv
<1>3. /\ pools = before /\ IsFiniteSet(DOMAIN pending)
      /\ DOMAIN pending = {f.pool : f \in Passed}
      /\ \A f \in Passed :
            /\ f.valid
            /\ pending[f.pool] = f.provenance
            /\ call = "observe" /\ f.pool \in DOMAIN before => before[f.pool] = f.provenance
  BY <1>1 DEF IInv, PendingIsPassed
<1>4. call \in {"observe", "load"}  BY DEF IInv, TypeOK
<1> HIDE DEF e
<1>5. /\ DOMAIN pending' = DOMAIN pending \cup {e.pool}
      /\ pending'[e.pool] = e.provenance
      /\ \A p \in DOMAIN pending : p # e.pool => pending'[p] = pending[p]
  BY <1>1 DEF Put
<1>6. e.pool \in DOMAIN pending => pending[e.pool] = e.provenance
  BY <1>1, <1>4 DEF Refused, Conflicts
<1>7. /\ e.valid
      /\ call = "observe" /\ e.pool \in DOMAIN before => before[e.pool] = e.provenance
  <2>1. e.valid  BY <1>1 DEF Refused
  <2>2. ASSUME call = "observe", e.pool \in DOMAIN before  PROVE before[e.pool] = e.provenance
    <3>1. ~ Conflicts(e)  BY <1>1, <2>2 DEF Refused
    <3>2. CASE e.pool \notin DOMAIN pending  BY <1>3, <2>2, <3>1, <3>2 DEF Conflicts
    <3>3. CASE e.pool \in DOMAIN pending
      <4>1. PICK f \in Passed : f.pool = e.pool  BY <1>3, <3>3
      <4> QED  BY <1>3, <1>6, <2>2, <3>3, <4>1
    <3> QED  BY <3>2, <3>3
  <2> QED  BY <2>1, <2>2
<1>8. PendingIsPassed'
  <2>1. IsFiniteSet(DOMAIN pending')  BY <1>3, <1>5, FS_AddElement
  <2>2. DOMAIN pending' = {f.pool : f \in Passed'}  BY <1>2, <1>3, <1>5
  <2>3. ASSUME NEW f \in Passed'
        PROVE  /\ f.valid
               /\ pending'[f.pool] = f.provenance
               /\ call = "observe" /\ f.pool \in DOMAIN before => before[f.pool] = f.provenance
    <3>1. CASE f = e  BY <1>5, <1>7, <3>1
    <3>2. CASE f \in Passed
      <4>1. f.pool \in DOMAIN pending  BY <1>3, <3>2
      <4>2. pending'[f.pool] = pending[f.pool]  BY <1>5, <1>6, <4>1
      <4> QED  BY <1>3, <3>2, <4>2
    <3> QED  BY <1>2, <3>1, <3>2
  <2> QED  BY <1>1, <1>3, <2>1, <2>2, <2>3 DEF PendingIsPassed
<1>9. TypeOK'
  <2>1. IsRegistry(pending')
    BY <1>1, <1>2 DEF IInv, TypeOK, IsRegistry, Put, Item
  <2> QED  BY <1>1, <1>2, <2>1 DEF IInv, TypeOK, IsRegistry
<1>10. LoadIsOfSaved' /\ SavedSurvives' /\ LoadRestores'
  BY <1>1 DEF IInv, LoadIsOfSaved, SavedSurvives, LoadRestores
<1>11. RaisesExactlyOnConflict' /\ AllOrNothing'
  BY <1>1 DEF IInv, RaisesExactlyOnConflict, AllOrNothing
<1> QED  BY <1>8, <1>9, <1>10, <1>11 DEF IInv

LEMMA RaiseInv == IInv /\ Raise => IInv'
<1> SUFFICES ASSUME IInv, Raise  PROVE IInv'
  OBVIOUS
<1> DEFINE e == given[next]
<1>1. /\ running /\ next <= Len(given) /\ e.migration /\ Refused(e)
      /\ running' = FALSE /\ result' = Raised
      /\ UNCHANGED <<pools, call, given, next, pending, before, saved>>
  BY DEF Raise, Return
<1>2. /\ e \in Migrations /\ Passed \subseteq Migrations
  <2>1. /\ next \in Nat \ {0} /\ Len(given) \in Nat
        /\ \A i \in 1 .. Len(given) : i \in DOMAIN given
    BY DEF IInv, TypeOK
  <2> QED  BY <1>1, <2>1 DEF Migrations, Passed, Range
<1>3. /\ pools = before
      /\ DOMAIN pending = {f.pool : f \in Passed}
      /\ \A f \in Passed : pending[f.pool] = f.provenance
  BY <1>1 DEF IInv, PendingIsPassed
<1> HIDE DEF e
<1>4. RaisesExactlyOnConflict'
  <2> SUFFICES ASSUME call = "observe"
               PROVE  \/ \E f \in Migrations : ~ f.valid
                      \/ \E f, g \in Migrations : f.pool = g.pool /\ f.provenance # g.provenance
                      \/ \E f \in Migrations :
                           f.pool \in DOMAIN before /\ before[f.pool] # f.provenance
    BY <1>1 DEF RaisesExactlyOnConflict, Migrations
  <2>1. CASE ~ e.valid  BY <1>2, <2>1
  <2>2. CASE e.pool \in DOMAIN pending /\ pending[e.pool] # e.provenance
    <3>1. PICK f \in Passed : f.pool = e.pool  BY <1>3, <2>2
    <3> QED  BY <1>2, <1>3, <2>2, <3>1
  <2>3. CASE e.pool \in DOMAIN pools /\ pools[e.pool] # e.provenance  BY <1>2, <1>3, <2>3
  <2> QED  BY <1>1, <2>1, <2>2, <2>3 DEF Refused, Conflicts
<1>5. AllOrNothing'  BY <1>1, <1>3 DEF AllOrNothing
<1>6. TypeOK'  BY <1>1 DEF IInv, TypeOK, IsRegistry
<1>7. PendingIsPassed' /\ LoadIsOfSaved'
  BY <1>1 DEF IInv, PendingIsPassed, LoadIsOfSaved
<1>8. SavedSurvives' /\ LoadRestores'
  BY <1>1 DEF IInv, SavedSurvives, LoadRestores
<1> QED  BY <1>4, <1>5, <1>6, <1>7, <1>8 DEF IInv

LEMMA CommitInv == IInv /\ Commit => IInv'
<1> SUFFICES ASSUME IInv, Commit  PROVE IInv'
  OBVIOUS
<1>1. /\ running /\ next > Len(given)
      /\ running' = FALSE /\ result' = NewPools
      /\ pools' = Committed
      /\ UNCHANGED <<call, given, next, pending, before, saved>>
  BY DEF Commit, Return
<1>2. Passed = Migrations
  <2>1. next = Len(given) + 1 /\ Len(given) \in Nat /\ DOMAIN given = 1 .. Len(given)
    BY <1>1 DEF IInv, TypeOK
  <2>2. 1 .. next - 1 = DOMAIN given  BY <2>1
  <2> QED  BY <2>2 DEF Passed, Migrations, Range
<1>3. /\ pools = before /\ IsFiniteSet(DOMAIN pending)
      /\ DOMAIN pending = {f.pool : f \in Migrations}
      /\ \A f \in Migrations :
            /\ f.valid
            /\ pending[f.pool] = f.provenance
            /\ call = "observe" /\ f.pool \in DOMAIN before => before[f.pool] = f.provenance
  BY <1>1, <1>2 DEF IInv, PendingIsPassed
<1>4. NewPools \in Nat /\ NewPools # Raised
  <2>1. IsFiniteSet(DOMAIN pending \ DOMAIN pools)  BY <1>3, FS_Difference
  <2>2. NewPools \in Nat  BY <2>1, FS_CardinalityType DEF NewPools
  <2> QED  BY <2>2 DEF Raised
<1>5. call = "observe" => /\ DOMAIN pools' = DOMAIN pools \cup DOMAIN pending
                          /\ \A p \in DOMAIN pending : pools'[p] = pending[p]
                          /\ \A p \in DOMAIN pools \ DOMAIN pending : pools'[p] = pools[p]
  BY <1>1 DEF Committed, Updated
<1>6. call = "load" => pools' = pending  BY <1>1 DEF Committed
<1>7. ASSUME call = "observe"
      PROVE  \A p \in DOMAIN before : pools'[p] = before[p]
  <2> TAKE p \in DOMAIN before
  <2>1. CASE p \in DOMAIN pending
    <3>1. PICK f \in Migrations : f.pool = p  BY <1>3, <2>1
    <3> QED  BY <1>3, <1>5, <1>7, <2>1, <3>1
  <2>2. CASE p \notin DOMAIN pending  BY <1>3, <1>5, <1>7, <2>2
  <2> QED  BY <2>1, <2>2
<1>8. Migrations' = Migrations  BY <1>1 DEF Migrations
<1>9. RaisesExactlyOnConflict'
  <2> SUFFICES ASSUME call = "observe"
               PROVE  /\ \A f \in Migrations : f.valid
                      /\ \A f, g \in Migrations : f.pool = g.pool => f.provenance = g.provenance
                      /\ \A f \in Migrations :
                           f.pool \in DOMAIN before => before[f.pool] = f.provenance
    BY <1>1, <1>4, <1>8 DEF RaisesExactlyOnConflict
  <2> QED  BY <1>3
<1>10. AllOrNothing'
  <2> SUFFICES ASSUME call = "observe"
               PROVE  /\ DOMAIN pools' = DOMAIN before \cup {f.pool : f \in Migrations}
                      /\ \A p \in DOMAIN before : pools'[p] = before[p]
                      /\ \A f \in Migrations : pools'[f.pool] = f.provenance
                      /\ result' = Cardinality(DOMAIN pools' \ DOMAIN before)
    BY <1>1, <1>4, <1>8 DEF AllOrNothing
  <2>1. DOMAIN pools' \ DOMAIN before = DOMAIN pending \ DOMAIN pools  BY <1>3, <1>5
  <2>2. result' = Cardinality(DOMAIN pools' \ DOMAIN before)  BY <1>1, <2>1 DEF NewPools
  <2> QED  BY <1>3, <1>5, <1>7, <2>2
<1>11. ASSUME call = "load"  PROVE pools' = saved
  <2>1. Range(given) = {[pool |-> p, provenance |-> saved[p], valid |-> TRUE,
                         migration |-> TRUE] : p \in DOMAIN saved}
    BY <1>1, <1>11 DEF IInv, LoadIsOfSaved
  <2>2. Migrations = Range(given)  BY <2>1 DEF Migrations
  <2>3. DOMAIN pending = DOMAIN saved
    <3>1. ASSUME NEW p \in DOMAIN pending  PROVE p \in DOMAIN saved
      <4>1. PICK f \in Migrations : f.pool = p  BY <1>3
      <4> QED  BY <2>1, <2>2, <4>1
    <3>2. ASSUME NEW p \in DOMAIN saved  PROVE p \in DOMAIN pending
      <4> DEFINE f == [pool |-> p, provenance |-> saved[p], valid |-> TRUE, migration |-> TRUE]
      <4>1. f \in Migrations  BY <2>1, <2>2
      <4>2. f.pool = p  OBVIOUS
      <4> HIDE DEF f
      <4> QED  BY <1>3, <4>1, <4>2
    <3> QED  BY <3>1, <3>2
  <2>4. ASSUME NEW p \in DOMAIN saved  PROVE pending[p] = saved[p]
    <3>1. [pool |-> p, provenance |-> saved[p], valid |-> TRUE, migration |-> TRUE]
             \in Migrations
      BY <2>1, <2>2
    <3> QED  BY <1>3, <3>1
  <2>5. /\ pending \in [DOMAIN pending -> Provenances]
        /\ saved \in [DOMAIN saved -> Provenances]
    BY DEF IInv, TypeOK, IsRegistry
  <2> QED  BY <1>6, <1>11, <2>3, <2>4, <2>5
<1>12. call \in {"observe", "load"}  BY DEF IInv, TypeOK
<1>13. SavedSurvives'
  <2>1. CASE call = "load"  BY <1>1, <1>11, <2>1 DEF SavedSurvives
  <2>2. CASE call = "observe"
    <3>1. \A p \in DOMAIN saved : p \in DOMAIN before /\ before[p] = saved[p]
      BY <1>3 DEF IInv, SavedSurvives
    <3> QED  BY <1>1, <1>3, <1>5, <1>7, <2>2, <3>1 DEF SavedSurvives
  <2> QED  BY <1>12, <2>1, <2>2
<1>14. LoadRestores'  BY <1>1, <1>11 DEF LoadRestores
<1>15. TypeOK'
  <2>1. IsRegistry(pools) /\ IsRegistry(pending)  BY DEF IInv, TypeOK
  <2>2. IsRegistry(pools')
    <3>1. CASE call = "load"  BY <1>6, <2>1, <3>1
    <3>2. CASE call = "observe"
      <4>1. pools' = [p \in DOMAIN pools \cup DOMAIN pending |->
                        IF p \in DOMAIN pending THEN pending[p] ELSE pools[p]]
        BY <1>1, <3>2 DEF Committed, Updated
      <4>2. \A p \in DOMAIN pools \cup DOMAIN pending :
              (IF p \in DOMAIN pending THEN pending[p] ELSE pools[p]) \in Provenances
        BY <2>1 DEF IsRegistry
      <4> QED  BY <2>1, <4>1, <4>2 DEF IsRegistry
    <3> QED  BY <1>12, <3>1, <3>2
  <2> QED  BY <1>1, <1>4, <2>2 DEF IInv, TypeOK, IsRegistry
<1>16. PendingIsPassed' /\ LoadIsOfSaved'
  BY <1>1, <1>3 DEF PendingIsPassed, LoadIsOfSaved
<1> QED  BY <1>9, <1>10, <1>13, <1>14, <1>15, <1>16 DEF IInv

-----------------------------------------------------------------------------

(* The inductive invariant of the registry and the loops over a batch.       *)
THEOREM Invariance == Spec => []IInv
<1>1. IInv /\ [Next]_vars => IInv'
  <2> SUFFICES ASSUME IInv, [Next]_vars  PROVE IInv'
    OBVIOUS
  <2>1. ASSUME NEW items \in Batches, Observe(items)  PROVE IInv'
    BY <2>1, BeginInv DEF Observe
  <2>2. ASSUME NEW items \in Batches, Load(items)  PROVE IInv'
    <3>1. Begin("load", items)  BY <2>2 DEF Load
    <3> QED  BY <2>2, <3>1, BeginInv
  <2>3. CASE ObserveFailed  BY <2>3, ObserveFailedInv
  <2>4. CASE Save  BY <2>4, SaveInv
  <2>5. CASE PassOver  BY <2>5, PassOverInv
  <2>6. CASE PassEntry  BY <2>6, PassEntryInv
  <2>7. CASE Raise  BY <2>7, RaiseInv
  <2>8. CASE Commit  BY <2>8, CommitInv
  <2>9. CASE UNCHANGED vars
    BY <2>9 DEF vars, IInv, TypeOK, IsRegistry, PendingIsPassed, Passed, LoadIsOfSaved,
                RaisesExactlyOnConflict, AllOrNothing, SavedSurvives, LoadRestores, Migrations
  <2> QED  BY <2>1, <2>2, <2>3, <2>4, <2>5, <2>6, <2>7, <2>8, <2>9 DEF Next
<1> QED  BY <1>1, InitInv, PTL DEF Spec

(* The types of the registry and of a running call (TypeOK).                 *)
THEOREM TypeCorrect == Spec => []TypeOK
<1>1. IInv => TypeOK  BY DEF IInv
<1> QED  BY <1>1, Invariance, PTL

(* observe_migrations raises exactly for invalid or conflicting batches.     *)
THEOREM RejectionExact == Spec => []RaisesExactlyOnConflict
<1>1. IInv => RaisesExactlyOnConflict  BY DEF IInv
<1> QED  BY <1>1, Invariance, PTL

(* A batch is observed as a whole or not at all.                             *)
THEOREM Atomic == Spec => []AllOrNothing
<1>1. IInv => AllOrNothing  BY DEF IInv
<1> QED  BY <1>1, Invariance, PTL

(* Saved provenance is never lost or changed, and loading it restores it.    *)
THEOREM Durable == Spec => []SavedAndRestored
<1>1. IInv => SavedAndRestored  BY DEF IInv, SavedAndRestored
<1> QED  BY <1>1, Invariance, PTL
=============================================================================
