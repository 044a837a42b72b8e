----------------------------- MODULE StockPrices -----------------------------
(***************************************************************************)
(* StockPriceTracker (sol_parser/stock_prices.py): it turns executed swaps  *)
(* of known pools into prices, converts them with the last SOL/USDC swap    *)
(* and attaches the liquidity it was last told of. Swaps come from streams  *)
(* that reorder, repeat and lose them; the caller's clock may step back.    *)
(* Amounts and prices are left out: which inputs a price rests on is not.   *)
(***************************************************************************)
EXTENDS TransactionOrder

CONSTANTS
  SolPools,       (* the catalog's pools quoted in wrapped SOL              *)
  UsdcPools,      (* the catalog's pools quoted in USDC                     *)
  ReferencePool,  (* sol_usdc_pool, no pool of the catalog                  *)
  Slots,
  TxIndexes,
  Times,          (* values of now_us, and of times of receipt              *)
  MaxAge,         (* max_age_us                                             *)
  MaxSlotLag,     (* max_slot_lag                                           *)
  MaxFacts        (* bound: swaps and snapshots taken since the last reset  *)

Pools == SolPools \cup UsdcPools

(* What the constructor checks, and the types of event metadata. *)
ASSUME StockPricesAssumption ==
  /\ ReferencePool \notin Pools
  /\ SolPools \cap UsdcPools = {}
  /\ Slots \subseteq Nat /\ TxIndexes \subseteq Nat /\ Times \subseteq Nat
  /\ MaxAge \in Nat \ {0}
  /\ MaxSlotLag \in Nat
  /\ MaxFacts \in Nat

VARIABLES
  reference,   (* _reference: the swap it was taken from                     *)
  positions,   (* _positions: pool -> the place of its last swap             *)
  liquidity,   (* _liquidity: pool -> its last snapshot                      *)
  result,      (* what the last call returned                                *)
  accepted,    (* history: swaps taken since the last reset                  *)
  supplied     (* history: snapshots taken since the last reset              *)

vars == <<reference, positions, liquidity, result, accepted, supplied>>

(***************************************************************************)
(* A swap as _executed_swap sees it. Only an executed one of the dex and    *)
(* the mints the pool is known for counts; the others are of one of the     *)
(* forms that are told apart on the way.                                    *)
(***************************************************************************)
Forms == {"executed", "noEvidence", "otherDex", "otherMints"}

Swap == [pool : Pools \cup {ReferencePool}, form : Forms, slot : Slots, tx : TxIndexes,
         recv : Times]

Snapshot == [pool : Pools \cup {ReferencePool}, valid : BOOLEAN, slot : Slots, observed : Times]

None == [pool |-> "none"]

Price == [swap : Swap, reference : Swap \cup {None}, liquidity : Snapshot \cup {None},
          denominations : SUBSET {"SOL", "USDC"}]

NoPrice == [swap |-> None]

Raised == [swap |-> None, error |-> "ValueError"]

Place(e) == [slot |-> e.slot, tx |-> e.tx]

Nothing == [p \in {} |-> None]

Init ==
  /\ reference = None
  /\ positions = Nothing
  /\ liquidity = Nothing
  /\ result = NoPrice
  /\ accepted = {}
  /\ supplied = {}

(* f with f[p] = v *)
Put(f, p, v) == [q \in DOMAIN f \cup {p} |-> IF q = p THEN v ELSE f[q]]

Room == Cardinality(accepted) + Cardinality(supplied) < MaxFacts

-----------------------------------------------------------------------------
(* Mutant: liquidity outlives a reset. *)
ForgetPrices == positions' = Nothing /\ reference' = None /\ UNCHANGED liquidity

Forget == positions' = Nothing /\ liquidity' = Nothing /\ reference' = None

Reset ==
  /\ Forget
  /\ result' = NoPrice
  /\ accepted' = {}
  /\ supplied' = {}

-----------------------------------------------------------------------------
(* update_liquidity *)

(* Mutant: out of order only when both slot and time are. *)
OutOfOrderInBoth(s) ==
  /\ s.pool \in DOMAIN liquidity
  /\ s.slot < liquidity[s.pool].slot
  /\ s.observed < liquidity[s.pool].observed

OutOfOrder(s) ==
  /\ s.pool \in DOMAIN liquidity
  /\ \/ s.slot < liquidity[s.pool].slot
     \/ s.observed < liquidity[s.pool].observed

Acceptable(s) == s.valid /\ s.pool \in Pools /\ s.observed > 0

UpdateLiquidity(s) ==
  /\ Room
  /\ Acceptable(s)
  /\ ~ OutOfOrder(s)
  /\ liquidity' = Put(liquidity, s.pool, s)
  /\ supplied' = supplied \cup {s}
  /\ result' = NoPrice
  /\ UNCHANGED <<reference, positions, accepted>>

RefuseLiquidity(s) ==
  /\ ~ Acceptable(s) \/ OutOfOrder(s)
  /\ result' = Raised
  /\ UNCHANGED <<reference, positions, liquidity, accepted, supplied>>

-----------------------------------------------------------------------------
(* process *)

Fresh(time, slot, at, now) ==
  /\ 0 < time /\ time <= now
  /\ now - time <= MaxAge
  /\ slot <= at
  /\ at - slot <= MaxSlotLag

(* Mutant: a swap older than the pool's last one is taken too. *)
CountsUnordered(e, now) ==
  /\ Pools # {}
  /\ e.form = "executed"
  /\ Fresh(e.recv, e.slot, e.slot, now)

(* A swap older than the last one of its pool does not count. *)
Counts(e, now) ==
  /\ Pools # {}
  /\ e.form = "executed"
  /\ Fresh(e.recv, e.slot, e.slot, now)
  /\ e.pool \in DOMAIN positions => ~ KeyLess(e, positions[e.pool])

Take(e) ==
  /\ positions' = Put(positions, e.pool, Place(e))
  /\ accepted' = accepted \cup {e}
  /\ UNCHANGED <<liquidity, supplied>>

TakeReference(e, now) ==
  /\ Room
  /\ Counts(e, now)
  /\ e.pool = ReferencePool
  /\ reference' = e
  /\ result' = NoPrice
  /\ Take(e)

(* Mutant: a reference of the same transaction converts. *)
ReferenceForSame(e, now) ==
  IF reference # None /\ ~ KeyLess(e, reference) /\ Fresh(reference.recv, reference.slot, e.slot, now)
  THEN reference ELSE None

(* The reference must be of an earlier transaction, and fresh. *)
ReferenceFor(e, now) ==
  IF reference # None /\ KeyLess(reference, e) /\ Fresh(reference.recv, reference.slot, e.slot, now)
  THEN reference ELSE None

LiquidityFor(e, now) ==
  IF /\ e.pool \in DOMAIN liquidity
     /\ Fresh(liquidity[e.pool].observed, liquidity[e.pool].slot, e.slot, now)
  THEN liquidity[e.pool] ELSE None

Quote(e, now) ==
  /\ Room
  /\ Counts(e, now)
  /\ e.pool \in Pools
  /\ result' = [swap |-> e, reference |-> ReferenceFor(e, now), liquidity |-> LiquidityFor(e, now),
                denominations |-> {IF e.pool \in SolPools THEN "SOL" ELSE "USDC"}
                                  \cup IF ReferenceFor(e, now) # None THEN {"SOL", "USDC"} ELSE {}]
  /\ Take(e)
  /\ UNCHANGED reference

Ignore(e, now) ==
  /\ ~ Counts(e, now)
  /\ result' = NoPrice
  /\ UNCHANGED <<reference, positions, liquidity, accepted, supplied>>

Process(e, now) == TakeReference(e, now) \/ Quote(e, now) \/ Ignore(e, now)

Next ==
  \/ Reset
  \/ \E s \in Snapshot : UpdateLiquidity(s) \/ RefuseLiquidity(s)
  \/ \E e \in Swap, now \in Times : Process(e, now)

Spec == Init /\ [][Next]_vars

-----------------------------------------------------------------------------
(* Properties *)

Places == [slot : Slots, tx : TxIndexes]

TypeOK ==
  /\ reference \in Swap \cup {None}
  /\ DOMAIN positions \subseteq Pools \cup {ReferencePool}
  /\ positions \in [DOMAIN positions -> Places]
  /\ DOMAIN liquidity \subseteq Pools
  /\ liquidity \in [DOMAIN liquidity -> Snapshot]
  /\ result \in Price \cup {NoPrice, Raised}
  /\ accepted \subseteq Swap
  /\ supplied \subseteq Snapshot

(* The swaps of pool p taken since the last reset. *)
SwapsOf(p) == {e \in accepted : e.pool = p}

(* Whatever order swaps arrive in, a pool's position is the latest place it  *)
(* was seen at since the last reset: no price is ever out of date when given.*)
PositionsAreLatest ==
  /\ DOMAIN positions = {e.pool : e \in accepted}
  /\ \A p \in DOMAIN positions :
       /\ positions[p] \in {Place(e) : e \in SwapsOf(p)}
       /\ \A e \in SwapsOf(p) : ~ KeyLess(positions[p], e)

(* The snapshot kept for a pool is the newest it was given since the last    *)
(* reset, by slot and by time of observation alike.                          *)
LiquidityIsNewest ==
  /\ DOMAIN liquidity = {s.pool : s \in supplied}
  /\ \A p \in DOMAIN liquidity :
       /\ liquidity[p] \in supplied /\ liquidity[p].pool = p
       /\ \A s \in supplied : s.pool = p =>
            s.slot <= liquidity[p].slot /\ s.observed <= liquidity[p].observed

(* docs/cross-language-sync.md: a price is converted with a SOL/USDC swap    *)
(* seen since the last reset, of an earlier transaction, near in slots, and  *)
(* with the latest such swap: never with one that a later one has replaced.  *)
ConvertedByThePast ==
  result.swap # None /\ result.reference # None =>
    /\ result.reference \in SwapsOf(ReferencePool)
    /\ KeyLess(result.reference, result.swap)
    /\ result.swap.slot - result.reference.slot <= MaxSlotLag
    /\ \A e \in SwapsOf(ReferencePool) : ~ KeyLess(result.reference, e)

(* A price is only given for a swap that no earlier-taken swap of its pool   *)
(* follows, and only with liquidity supplied since the last reset for that   *)
(* pool, of no later slot than the swap.                                     *)
PricedInContext ==
  result.swap # None =>
    /\ \A e \in SwapsOf(result.swap.pool) : ~ KeyLess(result.swap, e)
    /\ result.liquidity # None =>
         /\ result.liquidity \in supplied
         /\ result.liquidity.pool = result.swap.pool
         /\ result.liquidity.slot <= result.swap.slot
=============================================================================
