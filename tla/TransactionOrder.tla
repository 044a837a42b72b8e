-------------------------- MODULE TransactionOrder --------------------------
(***************************************************************************)
(* The order of transaction batches: by slot, then by index within the      *)
(* slot, then by arrival number (order_buffer.py, _batch_key).              *)
(***************************************************************************)
EXTENDS Integers, FiniteSets, Functions

(* The place of a in the chain is strictly before the place of b. *)
KeyLess(a, b) ==
  \/ a.slot < b.slot
  \/ a.slot = b.slot /\ a.tx < b.tx

(* Two arrivals for one place are ordered by arrival. *)
Before(a, b) ==
  \/ KeyLess(a, b)
  \/ a.slot = b.slot /\ a.tx = b.tx /\ a.seq < b.seq

InOrder(s) == \A i, j \in DOMAIN s : i < j => Before(s[i], s[j])

(***************************************************************************)
(* list.sort(key=_batch_key) on a finite set of batches. Rank counts the    *)
(* members at or before b, so Sorted(S)[i] is the member of rank i.         *)
(***************************************************************************)
Rank(b, S) == Cardinality({c \in S : ~ Before(b, c)})

Sorted(S) == [i \in 1 .. Cardinality(S) |-> CHOOSE b \in S : Rank(b, S) = i]
=============================================================================
