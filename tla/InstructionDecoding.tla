------------------------ MODULE InstructionDecoding ------------------------
(***************************************************************************)
(* The operators of parse_instruction_unified and of                        *)
(* parse_inner_compiled_instruction_if_supported (instructions.py), and of  *)
(* parse_inner_instruction (inner_instruction_parser.py), which decodes the *)
(* events that a program tells by calling itself. Of an instruction a       *)
(* program makes, grpc_instruction_parser.py tries both.                    *)
(*                                                                         *)
(* Such an event has sixteen bytes before its fields: in the prefixed form  *)
(* a mark and the discriminator of the event, in the suffixed form the      *)
(* discriminator and a mark. Its data here is what is behind the first      *)
(* eight, as for an instruction.                                            *)
(***************************************************************************)
EXTENDS LogDecoding, InstructionLayouts

-----------------------------------------------------------------------------
(* parse_instruction_unified: the dispatch by program and discriminator,    *)
(* and the filter before and after it.                                      *)

InstructionTypes == UNION {FilterTypes(p) : p \in Programs}

AllowsInstructions(f) == f.mode = "only" => Meet(f.types, InstructionTypes)

ParsedInstruction(f, p, made) ==
  IF AllowsInstructions(f) /\ IncludesProgram(f, p) THEN Applied(f, made) ELSE Nothing

(* The first decoder that makes something of the data has it. *)
FirstOf(made) ==
  LET some == {k \in DOMAIN made : made[k].is # "none"}
  IN IF some # {} THEN made[Min(some)] ELSE IF made = <<>> THEN Nothing ELSE Last(made)

(* What a decoder makes of data of a length and any accounts. *)
MakesOfAccounts(decoder, length) ==
  Makes(decoder, length)
  \cup {Nothing : a \in AnyAccounts \ decoder.accounts}
  \cup {[Nothing EXCEPT !.is = "raised"] : a \in {b \in decoder.accounts : b < decoder.direct}}

(* normal_instruction_data_may_parse: a list of its own. *)
InnerInstructions == [
  pumpfun |-> {"buy_v3", "buy_exact_quote_in_v3", "sell_v3", "create", "create_v2", "buy", "sell",
               "buy_exact_sol_in", "buy_v2", "buy_exact_quote_in_v2", "sell_v2"},
  pumpswap |-> {"buy", "sell", "buy_v3", "buy_exact_quote_in_v3", "sell_v3", "create_pool",
                "buy_exact_quote_in", "deposit", "withdraw"},
  pump_fees |-> DOMAIN PumpFeesInstructions,
  damm_v2 |-> {"init"},
  pools |-> {"swap", "add_liquidity", "remove_liquidity", "create_pool", "create_pool_config2"},
  dlmm |-> DOMAIN DlmmInstructions,
  clmm |-> {"swap", "swap_v2", "inc_liq", "dec_liq", "create", "create_customizable_pool", "open_position",
            "open_position_v2", "open_position_with_token_22_nft", "close_position"},
  cpmm |-> {"swap", "swap_out", "initialize", "initialize_permission", "deposit", "withdraw"},
  amm_v4 |-> {"initialize2", "deposit", "withdraw", "withdraw_pnl", "swap_base_in", "swap_base_out",
              "swap_base_in_v2", "swap_base_out_v2"},
  launchlab |-> {"buy_exact_in", "buy_exact_out", "sell_exact_in", "sell_exact_out", "initialize",
                 "initialize_v2", "initialize_with_token_2022"},
  orca |-> {"swap", "swap_v2", "inc_liq", "inc_liq_v2", "dec_liq", "dec_liq_v2", "init_pool"}]

(* Mutant: the third version of the trades is missing in the list. *)
MayParseOlder(p, d) ==
  p \in DOMAIN InnerInstructions /\ d \in InnerInstructions[p] \ {"buy_v3", "buy_exact_quote_in_v3", "sell_v3"}

MayParse(p, d) == p \in DOMAIN InnerInstructions /\ d \in InnerInstructions[p]

-----------------------------------------------------------------------------
(* parse_inner_instruction. The discriminators are those of the log lines.  *)

Prefixed == [
  pumpfun   |-> PumpFunUpgrades \cup {"trade", "create", "migrate"},
  pumpswap  |-> {"sweep_pool_fee", "ps_buy", "ps_sell", "ps_create_pool", "ps_add_liq", "ps_remove_liq"},
  pump_fees |-> DOMAIN PumpFeesDecoders,
  dbc       |-> DOMAIN ScopedDecoder.dbc,
  damm_v2   |-> DOMAIN DammDecoders,
  dlmm      |-> DOMAIN ScopedDecoder.dlmm]

Suffixed == [
  pumpfun   |-> Prefixed.pumpfun,
  pumpswap  |-> {"sweep_pool_fee"},
  pump_fees |-> Prefixed.pump_fees,
  clmm      |-> DOMAIN ClmmDecoders,
  cpmm      |-> {"cpmm_swap_in", "cpmm_swap_out", "cpmm_create", "cpmm_deposit", "cpmm_withdraw"},
  amm_v4    |-> {"amm_swap_in", "amm_swap_out", "amm_deposit", "amm_withdraw", "amm_init2", "amm_withdraw_pnl"},
  orca      |-> DOMAIN OrcaDecoders,
  pools     |-> DOMAIN PoolsDecoders,
  launchlab |-> {"trade", "launchlab_pool_create"},
  dlmm      |-> Prefixed.dlmm]

EventForms == [prefixed |-> Prefixed, suffixed |-> Suffixed]

TellsEvent(form, p, d) == p \in DOMAIN EventForms[form] /\ d \in EventForms[form][p]

(* _meteora_pools_swap_inner, after the full decoder *)
ShortSwap == Decoder({"METEORA_POOLS_SWAP"}, <<Need(16), Words(2)>>)

(* The other half of the sixteen bytes is in front of the fields. *)
Behind(decoder) == Decoder(decoder.types, <<Need(8), Skip(8)>> \o decoder.layout)

EventDecoders(form, p, d) ==
  IF ~TellsEvent(form, p, d) THEN <<>>
  ELSE <<Behind(Decoders[ScopedDecoder[p][d]])>>
       \o (IF p = "pools" /\ d = "meteora_swap" THEN <<Behind(ShortSwap)>> ELSE <<>>)

(* Those of pump_upgrade.py come before the programs' turn. *)
ParsedEvent(f, p, d, made) ==
  IF d \in Upgrades \/ IncludesProgram(f, p) THEN Applied(f, made) ELSE Nothing

-----------------------------------------------------------------------------
(* An instruction of the suffixed form whose discriminator is that of an    *)
(* instruction of the program is taken for it.                              *)
SameBytes == [
  cpmm |-> [cpmm_swap_in |-> "swap", cpmm_swap_out |-> "swap_out", cpmm_deposit |-> "deposit",
            cpmm_withdraw |-> "withdraw"],
  damm_v2 |-> [damm_initialize_pool |-> "init"],
  dlmm |-> [dlmm_legacy_add_liq |-> "add_liquidity"]]

TakenFor(p, d) == IF p \in DOMAIN SameBytes /\ d \in DOMAIN SameBytes[p] THEN SameBytes[p][d] ELSE "none"

CompiledDecoders(p, d) ==
  IF p \in DOMAIN InstructionDecoders /\ d \in DOMAIN InstructionDecoders[p]
  THEN <<InstructionDecoders[p][d]>> ELSE <<>>
=============================================================================
