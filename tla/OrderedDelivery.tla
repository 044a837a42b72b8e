--------------------------- MODULE OrderedDelivery ---------------------------
(***************************************************************************)
(* What an ordered subscription promises its consumer, with no slots table, *)
(* watermark, pending set or timer: transactions wait, are handed over in   *)
(* key order, and are refused only once a transaction at or past their      *)
(* place has been taken.                                                    *)
(***************************************************************************)
EXTENDS TransactionOrder, Sequences

CONSTANT Arrivals  (* the batches that can arrive, told apart by their seq *)

VARIABLES
  waiting,    (* batches accepted and not handed over                       *)
  delivered,  (* batches handed to the consumer, in order                   *)
  refused     (* batches the subscription will never hand over              *)

vars == <<waiting, delivered, refused>>

Init ==
  /\ waiting   = {}
  /\ delivered = <<>>
  /\ refused   = {}

(***************************************************************************)
(* Hand over S, a set of batches of W none of which has an earlier one left *)
(* behind in W: the consumer receives exactly S, in key order.              *)
(***************************************************************************)
HandOver(W, S) ==
  /\ S \subseteq W
  /\ \A b \in S, c \in W \ S : Before(b, c)
  /\ \E out \in {SubSeq(delivered', Len(delivered) + 1, Len(delivered'))} :
       /\ delivered' = delivered \o out
       /\ InOrder(out)
       /\ Range(out) = S
  /\ waiting' = W \ S

Taken == waiting \cup Range(delivered)

(* A transaction arrives, and it and any earlier ones may be handed over. *)
Accept(b) ==
  /\ \A i \in DOMAIN delivered : Before(delivered[i], b)
  /\ \E S \in SUBSET (waiting \cup {b}) : HandOver(waiting \cup {b}, S)
  /\ UNCHANGED refused

(* A transaction arrives when its place, or a later one, is already taken. *)
Refuse(b) ==
  /\ \E c \in Taken : ~ KeyLess(c, b)
  /\ refused' = refused \cup {b}
  /\ UNCHANGED <<waiting, delivered>>

(* Waiting transactions are handed over although none arrived. *)
Release ==
  /\ \E S \in SUBSET waiting : HandOver(waiting, S)
  /\ UNCHANGED refused

Next ==
  \/ \E b \in Arrivals : Accept(b) \/ Refuse(b)
  \/ Release

Spec == Init /\ [][Next]_vars
=============================================================================
