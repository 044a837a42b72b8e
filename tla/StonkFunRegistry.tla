--------------------------- MODULE StonkFunRegistry ---------------------------
(***************************************************************************)
(* StonkFunPoolRegistry (sol_parser/stonkfun_registry.py): which pools come *)
(* from which migration. Batches of migrations are observed again and again *)
(* (replays after a reconnect, overlapping sources), and the caller saves   *)
(* the registry and loads it after a restart. The loops over a batch are    *)
(* steps, so that what a failure in the middle leaves behind is visible.    *)
(***************************************************************************)
EXTENDS Integers, Sequences, FiniteSets, Functions

CONSTANTS
  Pools,
  Provenances,  (* the other fields of an entry, curve to slot, taken as one *)
  MaxBatch      (* bound: entries of a batch, instructions of a transaction  *)

ASSUME StonkFunRegistryAssumption == MaxBatch \in Nat

VARIABLES
  pools,    (* _pools: pool -> provenance                                    *)
  call,     (* the call that runs, or ran last                               *)
  running,  (* it has not returned                                           *)
  given,    (* its batch                                                     *)
  next,     (* the entry its loop is at                                      *)
  pending,  (* the entries it has passed, pool -> provenance                 *)
  result,   (* what it returned: a count, or Raised                          *)
  before,   (* history: pools when it was called                             *)
  saved     (* the last to_dict() the caller kept                            *)

vars == <<pools, call, running, given, next, pending, result, before, saved>>

(* An item that is no migration is an instruction the scan of a transaction  *)
(* passes over.                                                              *)
Item == [pool : Pools, provenance : Provenances, valid : BOOLEAN, migration : BOOLEAN]

Batches == UNION {[1 .. n -> Item] : n \in 0 .. MaxBatch}

Raised == -1

Empty == [p \in {} |-> p]

IsRegistry(f) == DOMAIN f \subseteq Pools /\ f \in [DOMAIN f -> Provenances]

Init ==
  /\ pools = Empty
  /\ call = "observe"
  /\ running = FALSE
  /\ given = <<>>
  /\ next = 1
  /\ pending = Empty
  /\ result = 0
  /\ before = Empty
  /\ saved = Empty

(* f.update(g) *)
Updated(f, g) ==
  [p \in DOMAIN f \cup DOMAIN g |-> IF p \in DOMAIN g THEN g[p] ELSE f[p]]

Put(f, p, v) == [q \in DOMAIN f \cup {p} |-> IF q = p THEN v ELSE f[q]]

Begin(c, items) ==
  /\ ~ running
  /\ call' = c
  /\ running' = TRUE
  /\ given' = items
  /\ next' = 1
  /\ pending' = Empty
  /\ before' = pools
  /\ UNCHANGED <<pools, result, saved>>

(* observe_migrations, by itself or for the instructions of a transaction *)
Observe(items) == Begin("observe", items)

(* Neither does anything for a transaction that failed. *)
ObserveFailed ==
  /\ ~ running
  /\ call' = "observe"
  /\ given' = <<>>
  /\ next' = 1
  /\ pending' = Empty
  /\ before' = pools
  /\ result' = 0
  /\ UNCHANGED <<pools, running, saved>>

(* from_dict of what to_dict gave, in which entries may have been repeated. *)
Load(items) ==
  /\ Range(items) = {[pool |-> p, provenance |-> saved[p], valid |-> TRUE, migration |-> TRUE] :
                       p \in DOMAIN saved}
  /\ Begin("load", items)

(* to_dict *)
Save ==
  /\ ~ running
  /\ saved' = pools
  /\ UNCHANGED <<pools, call, running, given, next, pending, result, before>>

-----------------------------------------------------------------------------

(* Mutant: only the registry is asked for a prior entry. *)
ConflictsWithPools(e) == e.pool \in DOMAIN pools /\ pools[e.pool] # e.provenance

(* The prior entry of the pool, in this batch or the registry, is another. *)
Conflicts(e) ==
  \/ e.pool \in DOMAIN pending /\ pending[e.pool] # e.provenance
  \/ e.pool \notin DOMAIN pending /\ e.pool \in DOMAIN pools /\ pools[e.pool] # e.provenance

(* What the constructor refuses: an entry twice, be it the same. *)
Refused(e) ==
  \/ ~ e.valid
  \/ call = "observe" /\ Conflicts(e)
  \/ call = "load" /\ e.pool \in DOMAIN pending

Return(r) ==
  /\ running' = FALSE
  /\ result' = r
  /\ UNCHANGED <<call, given, next, before, saved>>

PassOver ==
  /\ running /\ next <= Len(given)
  /\ ~ given[next].migration
  /\ next' = next + 1
  /\ UNCHANGED <<pools, call, running, given, pending, result, before, saved>>

(* Mutant: an entry goes into the registry as soon as it is checked. *)
StageAtOnce(e) ==
  /\ pending' = Put(pending, e.pool, e.provenance)
  /\ pools' = IF call = "observe" THEN Put(pools, e.pool, e.provenance) ELSE pools

Stage(e) ==
  /\ pending' = Put(pending, e.pool, e.provenance)
  /\ UNCHANGED pools

PassEntry ==
  /\ running /\ next <= Len(given)
  /\ given[next].migration
  /\ ~ Refused(given[next])
  /\ Stage(given[next])
  /\ next' = next + 1
  /\ UNCHANGED <<call, running, given, result, before, saved>>

Raise ==
  /\ running /\ next <= Len(given)
  /\ given[next].migration
  /\ Refused(given[next])
  /\ Return(Raised)
  /\ UNCHANGED <<pools, pending>>

NewPools == Cardinality(DOMAIN pending \ DOMAIN pools)

(* Mutant: a batch replaces the registry. *)
CommittedByReplacing == pending

Committed == IF call = "load" THEN pending ELSE Updated(pools, pending)

Commit ==
  /\ running /\ next > Len(given)
  /\ Return(NewPools)
  /\ pools' = Committed
  /\ UNCHANGED pending

Next ==
  \/ \E items \in Batches : Observe(items) \/ Load(items)
  \/ ObserveFailed
  \/ Save
  \/ PassOver
  \/ PassEntry
  \/ Raise
  \/ Commit

Spec == Init /\ [][Next]_vars

-----------------------------------------------------------------------------
(* Properties *)

TypeOK ==
  /\ IsRegistry(pools) /\ IsRegistry(pending) /\ IsRegistry(before) /\ IsRegistry(saved)
  /\ call \in {"observe", "load"}
  /\ running \in BOOLEAN
  /\ given \in Seq(Item)
  /\ next \in 1 .. Len(given) + 1
  /\ result \in Nat \cup {Raised}

Migrations == {e \in Range(given) : e.migration}

(* observe_migrations, whatever the order and repetitions of a batch, raises *)
(* exactly if an entry is invalid or two of the batch and the registry name  *)
(* different provenances of one pool.                                        *)
RaisesExactlyOnConflict ==
  ~ running /\ call = "observe" =>
    (result = Raised <=>
       \/ \E e \in Migrations : ~ e.valid
       \/ \E e, f \in Migrations : e.pool = f.pool /\ e.provenance # f.provenance
       \/ \E e \in Migrations : e.pool \in DOMAIN before /\ before[e.pool] # e.provenance)

(* A batch counts as a whole or not at all: while it is checked and when it  *)
(* is refused the registry is as it was, else it has grown by all of it, and *)
(* by as many pools as the call returns.                                     *)
AllOrNothing ==
  call = "observe" =>
    IF running \/ result = Raised THEN pools = before
    ELSE /\ DOMAIN pools = DOMAIN before \cup {e.pool : e \in Migrations}
         /\ \A p \in DOMAIN before : pools[p] = before[p]
         /\ \A e \in Migrations : pools[e.pool] = e.provenance
         /\ result = Cardinality(DOMAIN pools \ DOMAIN before)

(* What was saved stays true, across later batches, failed loads and loads:  *)
(* a saved pool never changes its provenance and is never lost.              *)
SavedSurvives ==
  \A p \in DOMAIN saved : p \in DOMAIN pools /\ pools[p] = saved[p]

(* A load that returns restores what was saved, no more and no less.         *)
LoadRestores ==
  ~ running /\ call = "load" /\ result # Raised => pools = saved

(* So what its owner writes down and reads back is not lost or made up.      *)
SavedAndRestored == SavedSurvives /\ LoadRestores
=============================================================================
