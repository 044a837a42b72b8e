-------------------------- MODULE MCTransactionLogs --------------------------
(***************************************************************************)
(* Families of transactions for TransactionLogs: many lists of events from *)
(* plain logs, and few events from logs of many shapes.                    *)
(***************************************************************************)
EXTENDS TransactionLogs

Lists ==
  [programs |-> {"pumpfun"}, calls |-> 1, depth |-> 1, truncated |-> FALSE, messages |-> FALSE,
   invocations |-> 3, subjects |-> {"m", "n"},
   tells |-> [p \in {"pumpfun"} |-> Kinds],
   seen |-> [k \in Kinds |-> SUBSET Sources(k)]]

Shapes(programs, n, depth) ==
  [programs |-> programs, calls |-> n, depth |-> depth, truncated |-> FALSE, messages |-> FALSE,
   invocations |-> 1, subjects |-> {"m"},
   tells |-> [p \in {"pumpfun", "pumpswap", "router"} |->
                CASE p = "pumpfun" -> {"trade", "create"}
                  [] p = "pumpswap" -> {"trade", "liquidity"}
                  [] p = "router" -> {"create"}],
   seen |-> [k \in {"trade", "create", "liquidity"} |-> {{"log", "ix"}}]]

FourPrograms == {"pumpfun", "pumpswap", "router", "ed25519"}
TwoPrograms == {"pumpfun", "router"}

AllSettings ==
  {Lists,
   [Shapes(FourPrograms, 4, 3) EXCEPT !.invocations = 2],
   [Shapes(FourPrograms, 4, 3) EXCEPT !.truncated = TRUE],
   [Shapes(TwoPrograms, 3, 3) EXCEPT !.messages = TRUE],
   [Shapes(TwoPrograms, 3, 2) EXCEPT !.truncated = TRUE, !.messages = TRUE]}
=============================================================================
