-------------------------- MODULE StockPricesProofs --------------------------
(***************************************************************************)
(* Proofs about StockPrices: prices never rest on stale, future or          *)
(* forgotten inputs, for any catalog, limits, order of swaps and clock.     *)
(***************************************************************************)
EXTENDS StockPrices, TLAPS

(* The reference in use is the latest SOL/USDC swap taken since the reset.   *)
ReferenceIsLatest ==
  reference # None =>
    /\ reference \in SwapsOf(ReferencePool)
    /\ \A e \in SwapsOf(ReferencePool) : ~ KeyLess(reference, e)

IInv ==
  /\ TypeOK
  /\ PositionsAreLatest
  /\ LiquidityIsNewest
  /\ ReferenceIsLatest
  /\ ConvertedByThePast
  /\ PricedInContext

LEMMA InitInv == Init => IInv
<1> SUFFICES ASSUME Init  PROVE IInv
  OBVIOUS
<1> USE DEF Init, Nothing
<1>1. TypeOK  BY DEF TypeOK
<1>2. PositionsAreLatest  BY DEF PositionsAreLatest, SwapsOf
<1>3. LiquidityIsNewest  BY DEF LiquidityIsNewest
<1>4. ReferenceIsLatest  BY DEF ReferenceIsLatest
<1>5. result.swap = None  BY DEF NoPrice
<1>6. ConvertedByThePast /\ PricedInContext  BY <1>5 DEF ConvertedByThePast, PricedInContext
<1> QED  BY <1>1, <1>2, <1>3, <1>4, <1>6 DEF IInv

(* A call that gives no price establishes both properties of prices.        *)
LEMMA NoPriceStep ==
  ASSUME result' \in {NoPrice, Raised}
  PROVE  ConvertedByThePast' /\ PricedInContext'
<1>1. result'.swap = None  BY DEF NoPrice, Raised
<1> QED  BY <1>1 DEF ConvertedByThePast, PricedInContext

LEMMA ResetInv == IInv /\ Reset => IInv'
<1> SUFFICES ASSUME IInv, Reset  PROVE IInv'
  OBVIOUS
<1> USE DEF Reset, Forget, Nothing
<1>1. TypeOK'  BY DEF TypeOK
<1>2. PositionsAreLatest'  BY DEF PositionsAreLatest, SwapsOf
<1>3. LiquidityIsNewest'  BY DEF LiquidityIsNewest
<1>4. ReferenceIsLatest'  BY DEF ReferenceIsLatest
<1> QED  BY <1>1, <1>2, <1>3, <1>4, NoPriceStep DEF IInv

-----------------------------------------------------------------------------
(* Liquidity *)

LEMMA UpdateLiquidityInv ==
  ASSUME IInv, NEW s \in Snapshot, UpdateLiquidity(s)
  PROVE  IInv'
<1>1. /\ s.pool \in Pools /\ s.slot \in Nat /\ s.observed \in Nat
      /\ ~ OutOfOrder(s)
      /\ DOMAIN liquidity' = DOMAIN liquidity \cup {s.pool}
      /\ liquidity'[s.pool] = s
      /\ \A p \in DOMAIN liquidity : p # s.pool => liquidity'[p] = liquidity[p]
      /\ supplied' = supplied \cup {s}
      /\ result' = NoPrice
      /\ UNCHANGED <<reference, positions, accepted>>
  BY StockPricesAssumption DEF UpdateLiquidity, Acceptable, Snapshot, Put
<1>2. /\ DOMAIN liquidity = {t.pool : t \in supplied}
      /\ \A p \in DOMAIN liquidity :
           /\ liquidity[p] \in supplied /\ liquidity[p].pool = p
           /\ \A t \in supplied : t.pool = p =>
                t.slot <= liquidity[p].slot /\ t.observed <= liquidity[p].observed
  BY DEF IInv, LiquidityIsNewest
<1>3. \A t \in supplied : t.slot \in Nat /\ t.observed \in Nat
  BY StockPricesAssumption DEF IInv, TypeOK, Snapshot
<1>4. TypeOK'
  <2>1. liquidity' = Put(liquidity, s.pool, s)  BY DEF UpdateLiquidity
  <2>2. liquidity' \in [DOMAIN liquidity' -> Snapshot]
    BY <1>1, <2>1 DEF IInv, TypeOK, Put
  <2> QED  BY <1>1, <2>2 DEF IInv, TypeOK
<1>5. LiquidityIsNewest'
  <2>1. ASSUME NEW t \in supplied, t.pool = s.pool
        PROVE  t.slot <= s.slot /\ t.observed <= s.observed
    <3>1. /\ s.pool \in DOMAIN liquidity
          /\ t.slot <= liquidity[s.pool].slot /\ t.observed <= liquidity[s.pool].observed
          /\ liquidity[s.pool].slot \in Nat /\ liquidity[s.pool].observed \in Nat
      BY <1>2, <1>3, <2>1
    <3> QED  BY <1>1, <1>3, <3>1 DEF OutOfOrder
  <2>2. ASSUME NEW p \in DOMAIN liquidity'
        PROVE  /\ liquidity'[p] \in supplied' /\ liquidity'[p].pool = p
               /\ \A t \in supplied' : t.pool = p =>
                    t.slot <= liquidity'[p].slot /\ t.observed <= liquidity'[p].observed
    <3>1. CASE p = s.pool  BY <1>1, <2>1, <3>1
    <3>2. CASE p # s.pool  BY <1>1, <1>2, <3>2
    <3> QED  BY <3>1, <3>2
  <2>3. DOMAIN liquidity' = {t.pool : t \in supplied'}  BY <1>1, <1>2
  <2> QED  BY <2>2, <2>3 DEF LiquidityIsNewest
<1>6. PositionsAreLatest' /\ ReferenceIsLatest'
  BY <1>1 DEF IInv, PositionsAreLatest, ReferenceIsLatest, SwapsOf
<1> QED  BY <1>1, <1>4, <1>5, <1>6, NoPriceStep DEF IInv

(* A call that changes nothing but its result.                              *)
LEMMA QuietStep ==
  ASSUME IInv, UNCHANGED <<reference, positions, liquidity, accepted, supplied>>,
         result' \in {NoPrice, Raised}
  PROVE  IInv'
<1>1. TypeOK'  BY DEF IInv, TypeOK
<1>2. PositionsAreLatest' /\ LiquidityIsNewest' /\ ReferenceIsLatest'
  BY DEF IInv, PositionsAreLatest, LiquidityIsNewest, ReferenceIsLatest, SwapsOf
<1> QED  BY <1>1, <1>2, NoPriceStep DEF IInv

-----------------------------------------------------------------------------
(* Swaps *)

LEMMA SwapTypes ==
  ASSUME TypeOK
  PROVE  /\ \A e \in Swap : e.slot \in Nat /\ e.tx \in Nat
         /\ \A p \in DOMAIN positions : positions[p].slot \in Nat /\ positions[p].tx \in Nat
BY StockPricesAssumption DEF TypeOK, Swap, Places

(* A swap that counts is not earlier than any swap taken of its pool.       *)
LEMMA CountsIsLatest ==
  ASSUME IInv, NEW e \in Swap, NEW now \in Times, Counts(e, now)
  PROVE  \A c \in SwapsOf(e.pool) : ~ KeyLess(e, c)
<1> SUFFICES ASSUME NEW c \in SwapsOf(e.pool), KeyLess(e, c)
             PROVE  FALSE
  OBVIOUS
<1>1. c \in accepted /\ c.pool = e.pool /\ c \in Swap  BY DEF SwapsOf, IInv, TypeOK
<1>2. e.pool \in DOMAIN positions  BY <1>1 DEF IInv, PositionsAreLatest
<1>3. ~ KeyLess(positions[e.pool], c)  BY <1>2 DEF IInv, PositionsAreLatest
<1>4. ~ KeyLess(e, positions[e.pool])  BY <1>2 DEF Counts
<1>5. /\ e.slot \in Nat /\ e.tx \in Nat /\ c.slot \in Nat /\ c.tx \in Nat
      /\ positions[e.pool].slot \in Nat /\ positions[e.pool].tx \in Nat
  BY <1>1, <1>2, SwapTypes DEF IInv
<1> QED  BY <1>3, <1>4, <1>5 DEF KeyLess

(* What taking a swap does to positions, whichever pool it is of.           *)
LEMMA TakeStep ==
  ASSUME IInv, NEW e \in Swap, NEW now \in Times, Counts(e, now), Take(e)
  PROVE  /\ accepted' = accepted \cup {e} /\ accepted' \subseteq Swap
         /\ DOMAIN positions' \subseteq Pools \cup {ReferencePool}
         /\ positions' \in [DOMAIN positions' -> Places]
         /\ PositionsAreLatest'
         /\ LiquidityIsNewest'
<1>1. /\ DOMAIN positions' = DOMAIN positions \cup {e.pool}
      /\ positions' \in [DOMAIN positions' -> Places]
      /\ positions'[e.pool] = Place(e)
      /\ \A p \in DOMAIN positions : p # e.pool => positions'[p] = positions[p]
      /\ accepted' = accepted \cup {e}
      /\ liquidity' = liquidity /\ supplied' = supplied
  BY DEF Take, Put, Place, Places, Swap, IInv, TypeOK
<1>2. /\ DOMAIN positions = {c.pool : c \in accepted}
      /\ \A p \in DOMAIN positions :
           /\ positions[p] \in {Place(c) : c \in SwapsOf(p)}
           /\ \A c \in SwapsOf(p) : ~ KeyLess(positions[p], c)
  BY DEF IInv, PositionsAreLatest
<1>3. ~ KeyLess(e, e)  BY SwapTypes DEF IInv, KeyLess
<1>4. \A c : KeyLess(Place(e), c) <=> KeyLess(e, c)  BY DEF KeyLess, Place
<1>5. SwapsOf(e.pool)' = SwapsOf(e.pool) \cup {e}  BY <1>1 DEF SwapsOf
<1>6. \A p : p # e.pool => SwapsOf(p)' = SwapsOf(p)  BY <1>1 DEF SwapsOf
<1>7. PositionsAreLatest'
  <2>1. DOMAIN positions' = {c.pool : c \in accepted'}  BY <1>1, <1>2
  <2>2. ASSUME NEW p \in DOMAIN positions'
        PROVE  /\ positions'[p] \in {Place(c) : c \in SwapsOf(p)'}
               /\ \A c \in SwapsOf(p)' : ~ KeyLess(positions'[p], c)
    <3>1. CASE p = e.pool
      BY <1>1, <1>3, <1>4, <1>5, <3>1, CountsIsLatest
    <3>2. CASE p # e.pool
      <4>1. p \in DOMAIN positions /\ positions'[p] = positions[p]  BY <1>1, <3>2
      <4> QED  BY <1>2, <1>6, <3>2, <4>1
    <3> QED  BY <3>1, <3>2
  <2> QED  BY <2>1, <2>2 DEF PositionsAreLatest
<1>8. LiquidityIsNewest'  BY <1>1 DEF IInv, LiquidityIsNewest
<1>9. DOMAIN positions' \subseteq Pools \cup {ReferencePool}
  BY <1>1 DEF IInv, TypeOK, Swap
<1> QED  BY <1>1, <1>7, <1>8, <1>9 DEF IInv, TypeOK

LEMMA TakeReferenceInv ==
  ASSUME IInv, NEW e \in Swap, NEW now \in Times, TakeReference(e, now)
  PROVE  IInv'
<1>1. /\ Counts(e, now) /\ e.pool = ReferencePool
      /\ reference' = e /\ result' = NoPrice
      /\ Take(e)
  BY DEF TakeReference
<1>2. /\ accepted' = accepted \cup {e} /\ accepted' \subseteq Swap
      /\ DOMAIN positions' \subseteq Pools \cup {ReferencePool}
      /\ positions' \in [DOMAIN positions' -> Places]
      /\ PositionsAreLatest' /\ LiquidityIsNewest'
  BY <1>1, TakeStep
<1>3. TypeOK'
  <2>1. liquidity' = liquidity /\ supplied' = supplied  BY <1>1 DEF Take
  <2> QED  BY <1>1, <1>2, <2>1 DEF IInv, TypeOK
<1>4. ReferenceIsLatest'
  <2>1. ~ KeyLess(e, e)  BY SwapTypes DEF IInv, KeyLess
  <2>2. \A c \in SwapsOf(ReferencePool) : ~ KeyLess(e, c)  BY <1>1, CountsIsLatest
  <2> QED  BY <1>1, <1>2, <2>1, <2>2 DEF ReferenceIsLatest, SwapsOf
<1> QED  BY <1>1, <1>2, <1>3, <1>4, NoPriceStep DEF IInv

LEMMA QuoteInv ==
  ASSUME IInv, NEW e \in Swap, NEW now \in Times, Quote(e, now)
  PROVE  IInv'
<1> DEFINE r == ReferenceFor(e, now)
           l == LiquidityFor(e, now)
           d == {IF e.pool \in SolPools THEN "SOL" ELSE "USDC"}
                  \cup IF r # None THEN {"SOL", "USDC"} ELSE {}
<1>1. /\ Counts(e, now) /\ e.pool \in Pools
      /\ result' = [swap |-> e, reference |-> r, liquidity |-> l, denominations |-> d]
      /\ Take(e)
      /\ reference' = reference
  BY DEF Quote
<1>2. /\ accepted' = accepted \cup {e} /\ accepted' \subseteq Swap
      /\ DOMAIN positions' \subseteq Pools \cup {ReferencePool}
      /\ positions' \in [DOMAIN positions' -> Places]
      /\ PositionsAreLatest' /\ LiquidityIsNewest'
  BY <1>1, TakeStep
<1>3. liquidity' = liquidity /\ supplied' = supplied  BY <1>1 DEF Take
<1>4. r # None => /\ r = reference /\ r \in Swap
                  /\ KeyLess(r, e) /\ e.slot - r.slot <= MaxSlotLag
  BY DEF ReferenceFor, Fresh, IInv, TypeOK
<1>5. l # None => /\ e.pool \in DOMAIN liquidity /\ l = liquidity[e.pool]
                  /\ l \in Snapshot /\ l.slot <= e.slot
  BY DEF LiquidityFor, Fresh, IInv, TypeOK
<1>6. d \subseteq {"SOL", "USDC"}  OBVIOUS
<1> HIDE DEF r, l, d
<1>7. result' \in Price
  BY <1>1, <1>4, <1>5, <1>6 DEF Price
<1>8. TypeOK'  BY <1>1, <1>2, <1>3, <1>7 DEF IInv, TypeOK
<1>9. SwapsOf(ReferencePool)' = SwapsOf(ReferencePool)
  BY <1>1, <1>2, StockPricesAssumption DEF SwapsOf
<1>10. ReferenceIsLatest'  BY <1>1, <1>9 DEF IInv, ReferenceIsLatest
<1>11. ConvertedByThePast'
  BY <1>1, <1>4, <1>9 DEF ConvertedByThePast, IInv, ReferenceIsLatest
<1>12. PricedInContext'
  <2>1. ~ KeyLess(e, e)  BY SwapTypes DEF IInv, KeyLess
  <2>2. \A c \in SwapsOf(e.pool) : ~ KeyLess(e, c)  BY <1>1, CountsIsLatest
  <2>3. SwapsOf(e.pool)' = SwapsOf(e.pool) \cup {e}  BY <1>2 DEF SwapsOf
  <2>4. l # None => l \in supplied /\ l.pool = e.pool
    BY <1>5 DEF IInv, LiquidityIsNewest
  <2> QED  BY <1>1, <1>3, <1>5, <2>1, <2>2, <2>3, <2>4 DEF PricedInContext
<1> QED  BY <1>2, <1>8, <1>10, <1>11, <1>12 DEF IInv

-----------------------------------------------------------------------------

(* The inductive invariant of the tracker: types, and that positions,        *)
(* reference and liquidity are the latest inputs taken since the reset.      *)
THEOREM Invariance == Spec => []IInv
<1>1. IInv /\ [Next]_vars => IInv'
  <2> SUFFICES ASSUME IInv, [Next]_vars  PROVE IInv'
    OBVIOUS
  <2>1. CASE Reset  BY <2>1, ResetInv
  <2>2. ASSUME NEW s \in Snapshot, UpdateLiquidity(s)  PROVE IInv'
    BY <2>2, UpdateLiquidityInv
  <2>3. ASSUME NEW s \in Snapshot, RefuseLiquidity(s)  PROVE IInv'
    BY <2>3, QuietStep DEF RefuseLiquidity
  <2>4. ASSUME NEW e \in Swap, NEW now \in Times, Process(e, now)  PROVE IInv'
    <3>1. CASE TakeReference(e, now)  BY <3>1, TakeReferenceInv
    <3>2. CASE Quote(e, now)  BY <3>2, QuoteInv
    <3>3. CASE Ignore(e, now)  BY <3>3, QuietStep DEF Ignore
    <3> QED  BY <2>4, <3>1, <3>2, <3>3 DEF Process
  <2>5. CASE UNCHANGED vars
    BY <2>5 DEF vars, IInv, TypeOK, PositionsAreLatest, LiquidityIsNewest, ReferenceIsLatest,
                ConvertedByThePast, PricedInContext, SwapsOf
  <2> QED  BY <2>1, <2>2, <2>3, <2>4, <2>5 DEF Next
<1> QED  BY <1>1, InitInv, PTL DEF Spec

(* The types of the tracker's tables (TypeOK).                               *)
THEOREM TypeCorrect == Spec => []TypeOK
<1>1. IInv => TypeOK  BY DEF IInv
<1> QED  BY <1>1, Invariance, PTL

(* Reordered and repeated swaps never take a pool back (_positions).         *)
THEOREM PositionsCorrect == Spec => []PositionsAreLatest
<1>1. IInv => PositionsAreLatest  BY DEF IInv
<1> QED  BY <1>1, Invariance, PTL

(* update_liquidity keeps the newest snapshot of each pool.                  *)
THEOREM LiquidityCorrect == Spec => []LiquidityIsNewest
<1>1. IInv => LiquidityIsNewest  BY DEF IInv
<1> QED  BY <1>1, Invariance, PTL

(* Conversions only use the latest reference, of an earlier transaction.     *)
THEOREM ConversionCorrect == Spec => []ConvertedByThePast
<1>1. IInv => ConvertedByThePast  BY DEF IInv
<1> QED  BY <1>1, Invariance, PTL

(* Prices are not given out of order, nor with liquidity of another context. *)
THEOREM PriceCorrect == Spec => []PricedInContext
<1>1. IInv => PricedInContext  BY DEF IInv
<1> QED  BY <1>1, Invariance, PTL
=============================================================================
