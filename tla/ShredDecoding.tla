---------------------------- MODULE ShredDecoding ----------------------------
(***************************************************************************)
(* The operators of _parse_decoded_shred (shredstream_client.py) and of     *)
(* parse_pumpfun_shred_ix (shredstream_pumpfun.py) for one instruction of a *)
(* transaction that has not run yet. There are no logs, and accounts from a *)
(* lookup table are only known if a resolver has them. The forms of a shred:*)
(*   shred        all accounts of the instruction are known                 *)
(*   unresolved   some account is not                                       *)
(*   best_effort  nor here, and the caller takes the default key for it     *)
(* An instruction of a program that is not decoded and that is given        *)
(* pump.fun is told as it is (Foreign), and so are the curves in a route of *)
(* PumpSwap (parse_curve_hops): as trades of unknown amounts.               *)
(***************************************************************************)
EXTENDS InstructionDecoding

ShredForms == {"shred", "unresolved", "best_effort"}

-----------------------------------------------------------------------------
(* Decoders that only shreds have *)

(* One to three hops, of five accounts each; none is told if its keys do not *)
(* fit together.                                                            *)
MultiHop == Safe("PUMP_FUN_TRADE", {16 + 5 * hops : hops \in 1 .. 3}, <<Exactly(16), Words(2), Refusal>>)

Foreign == Safe("PUMP_FUN_TRADE", From(1), <<>>)

RawInstructions == {<<"pumpswap", "multi_hop_swap">>, <<"other", "given_pumpfun">>}

IsRaw(p, d) == <<p, d>> \in RawInstructions

(* parse_pumpfun_trade_v2: a trade with fewer accounts than the decoder of   *)
(* instructions wants.                                                      *)
Short(decoder) == [decoder EXCEPT !.accounts = (2 .. MaxAccounts) \ decoder.accounts]

IsShort(p, d) == p = "pumpfun" /\ d \in {"buy_v2", "buy_exact_quote_in_v2", "sell_v2"}

(* Of the decoders for different numbers of accounts, one has its turn.      *)
ShredDecoders(p, d) ==
  IF IsRaw(p, d) THEN <<IF p = "other" THEN Foreign ELSE MultiHop>>
  ELSE IF IsShort(p, d) THEN <<PumpFunTrades[d], Short(PumpFunTrades[d])>>
  ELSE CompiledDecoders(p, d)

MakesOfShred(decoders, length) ==
  LET Turn(k) == {[j \in DOMAIN decoders |-> IF j = k THEN r ELSE Nothing] :
                    r \in MakesOfAccounts(decoders[k], length)}
  IN (UNION {Turn(k) : k \in DOMAIN decoders}) \cup (IF decoders = <<>> THEN {<<>>} ELSE {})

-----------------------------------------------------------------------------
(* The filter *)

(* A trade of unknown direction is only for who names trades, by the letter. *)
WantsRaw(f) ==
  CASE f.mode = "all" -> TRUE
    [] f.mode = "only" -> "PUMP_FUN_TRADE" \in f.types
    [] f.mode = "except" -> "PUMP_FUN_TRADE" \notin f.types

(* Who asks for all trades by their common type gets them under this type.   *)
Renamed(f, p, r) ==
  IF /\ p = "pumpfun" /\ r.is = "event" /\ r.type \in TradeFamily
     /\ f.mode = "only" /\ "PUMP_FUN_TRADE" \in f.types /\ ~ Meet(f.types, TradeFamily)
  THEN [r EXCEPT !.type = "PUMP_FUN_TRADE"] ELSE r

(* An unknown account: pump.fun's own instructions are decoded nevertheless, *)
(* but for short trades.                                                    *)
Resolved(form, p, made) ==
  IF form # "unresolved" THEN made
  ELSE IF p = "pumpfun" THEN [k \in DOMAIN made |-> IF k = 1 THEN made[k] ELSE Nothing]
  ELSE <<>>

(* A filter that wants raw trades allows instructions, so the early return of *)
(* _should_parse_shred_instructions is that of ParsedInstruction.           *)
ParsedShred(f, form, p, d, made) ==
  IF IsRaw(p, d) THEN (IF WantsRaw(f) THEN FirstOf(made) ELSE Nothing)
  ELSE Renamed(f, p, ParsedInstruction(f, p, FirstOf(Resolved(form, p, made))))
=============================================================================
