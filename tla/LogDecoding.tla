---------------------------- MODULE LogDecoding ----------------------------
(***************************************************************************)
(* The operators of parse_log_optimized (sol_parser/parser.py), which       *)
(* decodes one "Program data" line:                                         *)
(* the filter is asked about the discriminator, before the line is decoded  *)
(* (dex_parsers.py: event_type_for_program_discriminator and the filter_*   *)
(* functions); dispatch_program_data chooses the decoder; and the filter is *)
(* asked about the event.                                                   *)
(*                                                                         *)
(* A discriminator is named after the decoder that a line of unknown origin *)
(* gets for it, or after its only one; programs share some of them. What is *)
(* known of the data is what the decoders in question make of it.           *)
(***************************************************************************)
EXTENDS LogLayouts

-----------------------------------------------------------------------------
(* The decoders of dispatch_program_data *)

Same(S) == [d \in S |-> d]

PumpFunUpgrades == {"post_complete_buy", "sweep_bonding_curve_fee", "complete"}

ScopedDecoder == [
  pumpfun   |-> Same(DOMAIN PumpFunDecoders \cup PumpFunUpgrades),
  pump_fees |-> Same(DOMAIN PumpFeesDecoders),
  pumpswap  |-> Same(DOMAIN PumpSwapDecoders \cup {"sweep_pool_fee"}),
  launchlab |-> [trade |-> "launchlab_trade", launchlab_pool_create |-> "launchlab_pool_create"],
  clmm      |-> Same(DOMAIN ClmmDecoders),
  cpmm      |-> Merge([clmm_swap |-> "cpmm_swap_event"], Same(DOMAIN CpmmDecoders \ {"cpmm_swap_event"})),
  amm_v4    |-> Same(DOMAIN AmmDecoders),
  orca      |-> Same(DOMAIN OrcaDecoders),
  pools     |-> Same(DOMAIN PoolsDecoders),
  damm_v2   |-> Same(DOMAIN DammDecoders),
  dbc       |-> [damm_swap |-> "dbc_swap", damm_swap2 |-> "dbc_swap2",
                 dbc_swap2_transfer_hook |-> "dbc_swap2", damm_initialize_pool |-> "dbc_init_pool",
                 dbc_curve_complete |-> "dbc_curve_complete"],
  dlmm      |-> Merge([meteora_swap |-> "dlmm_swap", cpmm_swap_in |-> "dlmm_swap",
                       meteora_add |-> "dlmm_add_liq", dlmm_legacy_add_liq |-> "dlmm_add_liq",
                       meteora_remove |-> "dlmm_remove_liq", dlmm_legacy_remove_liq |-> "dlmm_remove_liq",
                       dlmm_legacy_claim_fee |-> "dlmm_claim_fee"],
                      Same(DOMAIN DlmmDecoders \ {"dlmm_swap", "dlmm_add_liq", "dlmm_remove_liq"}))]

Programs == DOMAIN ScopedDecoder
Discs    == UNION {DOMAIN ScopedDecoder[p] : p \in Programs}
Upgrades == DOMAIN PumpUpgradeDecoders

(* Without a program, these have no decoder; amm_ray_log is another kind of line. *)
ScopedOnly == {"amm_ray_log", "cpmm_create", "dbc_swap2_transfer_hook", "dbc_curve_complete", "unknown"}

(* The decoders a line may be given to, in the order they are tried. *)
Candidates(p, d) ==
  IF p \notin {"none", "other"} THEN IF d \in DOMAIN ScopedDecoder[p] THEN <<ScopedDecoder[p][d]>> ELSE <<>>
  ELSE IF d \in ScopedOnly \/ (p = "other" /\ d \in Upgrades) THEN <<>>
  ELSE IF d = "trade" THEN <<"trade", "launchlab_trade">>
  ELSE IF d \in {"dlmm_legacy_add_liq", "dlmm_legacy_remove_liq", "dlmm_legacy_claim_fee"}
       THEN <<ScopedDecoder["dlmm"][d]>>
  ELSE <<d>>

-----------------------------------------------------------------------------
(* Filters (grpc_types.py) *)

All == [mode |-> "all", types |-> {}]
BuyFamily    == {"PUMP_FUN_BUY", "PUMP_FUN_BUY_EXACT_SOL_IN"}
TradeFamily  == BuyFamily \cup {"PUMP_FUN_SELL"}
CreateFamily == {"PUMP_FUN_CREATE", "PUMP_FUN_CREATE_V2"}
Families     == {BuyFamily, CreateFamily}

Meet(S, T) == S \cap T # {}

(* A type stands for itself, its family, or, a trade type, all trades. *)
Covers(types, t) ==
  \/ t \in types
  \/ \E F \in Families : t \in F /\ Meet(types, F)
  \/ t \in TradeFamily /\ "PUMP_FUN_TRADE" \in types
  \/ t \in {"PUMP_SWAP_BUY", "PUMP_SWAP_SELL"} /\ "PUMP_SWAP_TRADE" \in types

ShouldInclude(f, t) ==
  CASE f.mode = "all"    -> TRUE
    [] f.mode = "only"   -> \/ Covers(f.types, t)
                            \/ t = "PUMP_FUN_TRADE" /\ Meet(f.types, TradeFamily)
    [] f.mode = "except" -> ~Covers(f.types, t)

(* The *_FILTER_TYPES of a program: those of its log events, and a few more. *)
FilterTypes(p) ==
  (UNION {Decoders[d].types : d \in Range(ScopedDecoder[p])})
  \cup (CASE p = "pumpfun"  -> {"PUMP_FUN_CREATE_V2"}
          [] p = "pumpswap" -> {"PUMP_SWAP_TRADE"}
          [] p = "clmm"     -> {"RAYDIUM_CLMM_OPEN_POSITION", "RAYDIUM_CLMM_CLOSE_POSITION",
                                "RAYDIUM_CLMM_OPEN_POSITION_WITH_TOKEN_EXT_NFT"}
          [] p = "launchlab" -> {"RAYDIUM_LAUNCHLAB_MIGRATE_AMM"}
          [] OTHER -> {})

(* By a list only the types it names count, not their families. *)
IncludesProgram(f, p) ==
  IF p = "other" THEN f.mode # "only"
  ELSE \E t \in FilterTypes(p) : IF f.mode = "only" THEN t \in f.types ELSE ShouldInclude(f, t)

-----------------------------------------------------------------------------
(* The event type a discriminator announces *)

(* _LOG_DISCRIMINATOR_EVENT_TYPES, and pump_upgrade_event_type *)
UpgradeTypes == [d \in Upgrades |-> CHOOSE t \in PumpUpgradeDecoders[d].types : TRUE]

PumpTypes == [
  create |-> "PUMP_FUN_CREATE", trade |-> "PUMP_FUN_TRADE", migrate |-> "PUMP_FUN_MIGRATE",
  migrate_bonding_curve_creator |-> "PUMP_FUN_MIGRATE_BONDING_CURVE_CREATOR",
  create_fee_sharing_config |-> "PUMP_FEES_CREATE_FEE_SHARING_CONFIG",
  initialize_fee_config |-> "PUMP_FEES_INITIALIZE_FEE_CONFIG",
  reset_fee_sharing_config |-> "PUMP_FEES_RESET_FEE_SHARING_CONFIG",
  revoke_fee_sharing_authority |-> "PUMP_FEES_REVOKE_FEE_SHARING_AUTHORITY",
  transfer_fee_sharing_authority |-> "PUMP_FEES_TRANSFER_FEE_SHARING_AUTHORITY",
  update_admin |-> "PUMP_FEES_UPDATE_ADMIN", update_fee_config |-> "PUMP_FEES_UPDATE_FEE_CONFIG",
  update_fee_shares |-> "PUMP_FEES_UPDATE_FEE_SHARES", upsert_fee_tiers |-> "PUMP_FEES_UPSERT_FEE_TIERS",
  ps_buy |-> "PUMP_SWAP_BUY", ps_sell |-> "PUMP_SWAP_SELL", ps_create_pool |-> "PUMP_SWAP_CREATE_POOL",
  ps_add_liq |-> "PUMP_SWAP_LIQUIDITY_ADDED", ps_remove_liq |-> "PUMP_SWAP_LIQUIDITY_REMOVED"]

RaydiumTypes == [
  clmm_swap |-> "RAYDIUM_CLMM_SWAP", clmm_create |-> "RAYDIUM_CLMM_CREATE_POOL",
  clmm_inc |-> "RAYDIUM_CLMM_INCREASE_LIQUIDITY", clmm_dec |-> "RAYDIUM_CLMM_DECREASE_LIQUIDITY",
  clmm_liquidity_change |-> "RAYDIUM_CLMM_LIQUIDITY_CHANGE",
  clmm_config_change |-> "RAYDIUM_CLMM_CONFIG_CHANGE",
  clmm_create_personal_position |-> "RAYDIUM_CLMM_CREATE_PERSONAL_POSITION",
  clmm_liquidity_calculate |-> "RAYDIUM_CLMM_LIQUIDITY_CALCULATE",
  clmm_open_limit_order |-> "RAYDIUM_CLMM_OPEN_LIMIT_ORDER",
  clmm_increase_limit_order |-> "RAYDIUM_CLMM_INCREASE_LIMIT_ORDER",
  clmm_decrease_limit_order |-> "RAYDIUM_CLMM_DECREASE_LIMIT_ORDER",
  clmm_settle_limit_order |-> "RAYDIUM_CLMM_SETTLE_LIMIT_ORDER",
  clmm_update_reward_infos |-> "RAYDIUM_CLMM_UPDATE_REWARD_INFOS",
  clmm_collect_personal |-> "RAYDIUM_CLMM_COLLECT_FEE", clmm_collect_protocol |-> "RAYDIUM_CLMM_COLLECT_FEE",
  cpmm_swap_in |-> "RAYDIUM_CPMM_SWAP", cpmm_swap_out |-> "RAYDIUM_CPMM_SWAP",
  cpmm_create |-> "RAYDIUM_CPMM_INITIALIZE", cpmm_deposit |-> "RAYDIUM_CPMM_DEPOSIT",
  cpmm_withdraw |-> "RAYDIUM_CPMM_WITHDRAW",
  amm_swap_in |-> "RAYDIUM_AMM_V4_SWAP", amm_swap_out |-> "RAYDIUM_AMM_V4_SWAP",
  amm_deposit |-> "RAYDIUM_AMM_V4_DEPOSIT", amm_withdraw |-> "RAYDIUM_AMM_V4_WITHDRAW",
  amm_withdraw_pnl |-> "RAYDIUM_AMM_V4_WITHDRAW_PNL", amm_init2 |-> "RAYDIUM_AMM_V4_INITIALIZE2",
  launchlab_pool_create |-> "RAYDIUM_LAUNCHLAB_POOL_CREATE"]

OrcaPoolsTypes == [
  orca_traded |-> "ORCA_WHIRLPOOL_SWAP", orca_liq_inc |-> "ORCA_WHIRLPOOL_LIQUIDITY_INCREASED",
  orca_liq_dec |-> "ORCA_WHIRLPOOL_LIQUIDITY_DECREASED", orca_pool_init |-> "ORCA_WHIRLPOOL_POOL_INITIALIZED",
  meteora_swap |-> "METEORA_POOLS_SWAP", meteora_add |-> "METEORA_POOLS_ADD_LIQUIDITY",
  meteora_remove |-> "METEORA_POOLS_REMOVE_LIQUIDITY",
  meteora_bootstrap |-> "METEORA_POOLS_BOOTSTRAP_LIQUIDITY",
  meteora_pool_created |-> "METEORA_POOLS_POOL_CREATED",
  meteora_set_pool_fees |-> "METEORA_POOLS_SET_POOL_FEES"]

DammTypes == [
  damm_swap |-> "METEORA_DAMM_V2_SWAP", damm_swap2 |-> "METEORA_DAMM_V2_SWAP",
  damm_add_liquidity |-> "METEORA_DAMM_V2_ADD_LIQUIDITY",
  damm_remove_liquidity |-> "METEORA_DAMM_V2_REMOVE_LIQUIDITY",
  damm_liquidity_change |-> "METEORA_DAMM_V2_ADD_LIQUIDITY",
  damm_initialize_pool |-> "METEORA_DAMM_V2_INITIALIZE_POOL",
  damm_create_position |-> "METEORA_DAMM_V2_CREATE_POSITION",
  damm_claim_position_fee |-> "METEORA_DAMM_V2_CLAIM_POSITION_FEE",
  damm_claim_reward |-> "METEORA_DAMM_V2_CLAIM_REWARD",
  damm_close_position |-> "METEORA_DAMM_V2_CLOSE_POSITION",
  damm_update_delegate_permission |-> "METEORA_DAMM_V2_UPDATE_DELEGATE_PERMISSION",
  damm_withdraw_dead_liquidity_reward |-> "METEORA_DAMM_V2_WITHDRAW_DEAD_LIQUIDITY_REWARD",
  damm_withdraw_ineligible_reward |-> "METEORA_DAMM_V2_WITHDRAW_INELIGIBLE_REWARD",
  damm_update_reward_funder |-> "METEORA_DAMM_V2_UPDATE_REWARD_FUNDER",
  damm_update_reward_duration |-> "METEORA_DAMM_V2_UPDATE_REWARD_DURATION",
  damm_initialize_reward |-> "METEORA_DAMM_V2_INITIALIZE_REWARD",
  damm_fund_reward |-> "METEORA_DAMM_V2_FUND_REWARD",
  damm_create_config |-> "METEORA_DAMM_V2_CREATE_CONFIG",
  damm_create_dynamic_config |-> "METEORA_DAMM_V2_CREATE_DYNAMIC_CONFIG"]

DlmmTypes == [
  meteora_add |-> "METEORA_DLMM_ADD_LIQUIDITY", meteora_remove |-> "METEORA_DLMM_REMOVE_LIQUIDITY",
  dlmm_init_pool |-> "METEORA_DLMM_INITIALIZE_POOL", dlmm_init_bin |-> "METEORA_DLMM_INITIALIZE_BIN_ARRAY",
  dlmm_create_pos |-> "METEORA_DLMM_CREATE_POSITION", dlmm_close_pos |-> "METEORA_DLMM_CLOSE_POSITION",
  dlmm_claim_fee |-> "METEORA_DLMM_CLAIM_FEE", dlmm_claim_reward2 |-> "METEORA_DLMM_CLAIM_REWARD"]

(* The later entry of a key counts. *)
LogTypes == Merge(Merge(DlmmTypes, DammTypes), Merge(OrcaPoolsTypes, Merge(RaydiumTypes, PumpTypes)))

(* event_type_for_program_discriminator *)
ScopedTypes == [
  pumpfun   |-> Merge(Restrict(PumpTypes, DOMAIN PumpFunDecoders), Restrict(UpgradeTypes, PumpFunUpgrades)),
  pump_fees |-> Restrict(PumpTypes, DOMAIN PumpFeesDecoders),
  pumpswap  |-> Merge(Restrict(PumpTypes, DOMAIN PumpSwapDecoders), Restrict(UpgradeTypes, {"sweep_pool_fee"})),
  launchlab |-> [trade |-> "RAYDIUM_LAUNCHLAB_TRADE", launchlab_pool_create |-> "RAYDIUM_LAUNCHLAB_POOL_CREATE"],
  clmm      |-> Restrict(RaydiumTypes, DOMAIN ClmmDecoders),
  cpmm      |-> Merge([clmm_swap |-> "RAYDIUM_CPMM_SWAP"],
                      Restrict(RaydiumTypes, DOMAIN CpmmDecoders \ {"cpmm_swap_event"})),
  amm_v4    |-> Merge([amm_ray_log |-> "RAYDIUM_AMM_V4_SWAP"],
                      Restrict(RaydiumTypes, DOMAIN AmmDecoders \ {"amm_ray_log"})),
  orca      |-> Restrict(OrcaPoolsTypes, DOMAIN OrcaDecoders),
  pools     |-> Restrict(OrcaPoolsTypes, DOMAIN PoolsDecoders),
  damm_v2   |-> DammTypes,
  dbc       |-> [damm_swap |-> "METEORA_DBC_SWAP", damm_swap2 |-> "METEORA_DBC_SWAP",
                 dbc_swap2_transfer_hook |-> "METEORA_DBC_SWAP",
                 damm_initialize_pool |-> "METEORA_DBC_INITIALIZE_POOL",
                 dbc_curve_complete |-> "METEORA_DBC_CURVE_COMPLETE"],
  dlmm      |-> Merge(DlmmTypes,
                [meteora_swap |-> "METEORA_DLMM_SWAP", dlmm_swap2 |-> "METEORA_DLMM_SWAP",
                 cpmm_swap_in |-> "METEORA_DLMM_SWAP",
                 dlmm_legacy_add_liq |-> "METEORA_DLMM_ADD_LIQUIDITY",
                 dlmm_legacy_remove_liq |-> "METEORA_DLMM_REMOVE_LIQUIDITY",
                 dlmm_legacy_init_pool |-> "METEORA_DLMM_INITIALIZE_POOL",
                 dlmm_legacy_create_pos |-> "METEORA_DLMM_CREATE_POSITION",
                 dlmm_legacy_close_pos |-> "METEORA_DLMM_CLOSE_POSITION",
                 dlmm_claim_fee2 |-> "METEORA_DLMM_CLAIM_FEE", dlmm_legacy_claim_fee |-> "METEORA_DLMM_CLAIM_FEE"])]

(* Mutant: the table of a line's discriminator alone decides. *)
AnnouncedUnscoped(p) == IF p = "none" THEN Merge(UpgradeTypes, LogTypes) ELSE LogTypes

Announced(p) ==
  CASE p = "none" -> Merge(UpgradeTypes, LogTypes)
    [] p = "other" -> LogTypes
    [] OTHER -> ScopedTypes[p]

-----------------------------------------------------------------------------
(* Is the line decoded at all? *)

WantsPumpFunTrade(f)   == \E t \in PumpFunTradeTypes : ShouldInclude(f, t)
WantsLaunchlabTrade(f) == ShouldInclude(f, "RAYDIUM_LAUNCHLAB_TRADE")

(* filter_allows_unscoped_discriminator *)
AllowsUnscoped(f, d) ==
  IF d = "trade" THEN WantsPumpFunTrade(f) \/ WantsLaunchlabTrade(f)
  ELSE IF d \in {"meteora_swap", "dlmm_swap2", "cpmm_swap_in"}
  THEN ShouldInclude(f, "RAYDIUM_CPMM_SWAP") \/ ShouldInclude(f, "METEORA_DLMM_SWAP")
  ELSE IF d \in DOMAIN LogTypes THEN ShouldInclude(f, LogTypes[d])
  ELSE \E p \in Programs : IncludesProgram(f, p)

(* The filter's part before the data is decoded, in parse_log_optimized. *)
Allowed(f, p, d) ==
  LET Asked(types) ==
        IF d \in DOMAIN types /\ ~(p = "none" /\ d \in {"trade", "cpmm_swap_in"})
        THEN ShouldInclude(f, types[d])
        ELSE IF p = "none" THEN AllowsUnscoped(f, d) ELSE IncludesProgram(f, p)
  IN IF f = All THEN TRUE
     ELSE IF p = "pumpfun" /\ d = "trade" THEN WantsPumpFunTrade(f)
     ELSE Asked(Announced(p))

-----------------------------------------------------------------------------
(* The decoders' results and the filter's second part *)

Nothing == [is |-> "none", type |-> "none", flaws |-> {}]

(* apply_event_type_filter *)
Applied(f, r) == IF r.is = "event" /\ ~ShouldInclude(f, r.type) THEN Nothing ELSE r

(* apply_pumpfun_secondary_filter: a list that names a kind of trade, or     *)
(* creations, is taken by the letter.                                       *)
Secondary(f, r) ==
  IF r.is = "event" /\ f.mode = "only" /\ Meet(f.types, TradeFamily \cup CreateFamily)
     /\ ~(r.type \in f.types \/ (r.type \in BuyFamily /\ Meet(f.types, BuyFamily)))
  THEN Nothing ELSE Applied(f, r)

(* dispatch_unscoped_pumpfun_launchlab_trade *)
UnscopedTrade(f, made) ==
  LET pumpfun == IF WantsPumpFunTrade(f) THEN Applied(f, made[1]) ELSE Nothing
  IN IF pumpfun.is # "none" THEN pumpfun
     ELSE IF WantsLaunchlabTrade(f) THEN Applied(f, made[2]) ELSE Nothing

Dispatched(f, p, d, made) ==
  IF made = <<>> THEN Nothing
  ELSE IF Len(made) = 2 THEN UnscopedTrade(f, made)
  ELSE IF p = "pumpfun" /\ d = "trade" THEN Secondary(f, made[1])
  ELSE made[1]

Parsed(f, p, d, made) == IF Allowed(f, p, d) THEN Applied(f, Dispatched(f, p, d, made)) ELSE Nothing

-----------------------------------------------------------------------------
(* What a decoder makes of data of a length. *)
Makes(decoder, length) ==
  UNION {IF o.is = "event" THEN {[is |-> "event", type |-> t, flaws |-> o.flaws] : t \in decoder.types}
         ELSE {[Nothing EXCEPT !.is = o.is, !.flaws = o.flaws \cap {"lost"}]} :
           o \in Outcomes(decoder.layout, length)}
=============================================================================
