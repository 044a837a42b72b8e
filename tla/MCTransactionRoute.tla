------------------------- MODULE MCTransactionRoute -------------------------
(***************************************************************************)
(* Families of transactions for TransactionRoute: nested swaps and unknown *)
(* programs, transfers with fees, a bonding curve paid in lamports, and    *)
(* mints told from one account to the next.                                *)
(***************************************************************************)
EXTENDS TransactionRoute

(* The user's accounts, those of the pool, and one more of the input mint. *)
FiveAccounts == {"userIn", "userOut", "vaultIn", "vaultOut", "wrapped"}
TwoMints ==
  [a \in FiveAccounts |-> IF a \in {"userOut", "vaultOut"} THEN "token" ELSE "wsol"]

PowerOfTwo(i) == 2 ^ i

Token(kind, source, target, fee) ==
  [kind |-> kind, source |-> source, target |-> target, mint |-> TwoMints[source], fee |-> fee]

Swap(pair) == [kind |-> "swap", source |-> "userIn", target |-> "userOut", pair |-> pair]
Curve ==
  [kind |-> "curve", source |-> "trader", target |-> "userOut", mint |-> "wsol", pair |-> TRUE]
Other == [kind |-> "other"]
Open(account) == [kind |-> "open", target |-> account, mint |-> TwoMints[account]]
Pay(source, target) == [kind |-> "pay", source |-> source, target |-> target]

Paid == Token("plain", "userIn", "vaultIn", 0)
Given == Token("plain", "vaultOut", "userOut", 0)

Nesting ==
  [calls |-> {Swap(TRUE), Other, Paid, Given},
   length |-> 5, listed |-> {FiveAccounts}]

Fees ==
  [calls |-> {Swap(TRUE), Given, Token("withFee", "vaultOut", "userOut", 1),
              Token("withFee", "vaultOut", "userOut", 5)}
             \cup {Token("checked2022", "vaultOut", "userOut", fee) : fee \in 0..1},
   length |-> 4, listed |-> {{}}]

Lamports ==
  [calls |-> {Curve, Other, Given, Pay("trader", "pool"), Pay("trader", "fee"),
              Pay("trader", "rent"), Pay("payer", "pool")},
   length |-> 4, listed |-> {{}}]

Joins ==
  [calls |-> {Swap(FALSE), Open("userOut"), Paid, Given,
              Token("plain", "wrapped", "userIn", 0), Token("checked", "vaultIn", "userIn", 0)},
   length |-> 4, listed |-> {{}, {"wrapped"}, {"vaultIn", "vaultOut"}}]

AllSettings == {Nesting, Fees, Lamports, Joins}
=============================================================================
