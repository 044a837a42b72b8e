----------------------------- MODULE LogLayouts -----------------------------
(***************************************************************************)
(* The layouts of the events that programs log as "Program data: ...", one  *)
(* row per decoder of sol_parser/dex_parsers.py (and pump_upgrade.py): the  *)
(* event types it may return, and its reads in order, without the eight     *)
(* bytes of the discriminator. The names are those of the decoders.         *)
(***************************************************************************)
EXTENDS Layouts

-----------------------------------------------------------------------------
(* PumpFun *)

PumpFunTradeTypes ==
  {"PUMP_FUN_BUY", "PUMP_FUN_SELL", "PUMP_FUN_BUY_EXACT_SOL_IN", "PUMP_FUN_TRADE"}

(* The guard is shorter than the fields that are always read. *)
TradeLayout ==
  <<Need(200), Pubs(1), Words(2), Bytes(1), Pubs(1), Words(5), Pubs(1), Words(2), Pubs(1), Words(2),
    Later(1), Later(8), Later(8), Later(8), Later(8), OptionalString, Later(1), Later(8), Later(8),
    Optional(8, 2), OptionalVector(34), Optional(32, 1), Optional(8, 6)>>

CreateLayout ==
  <<TryString, TryString, TryString, EventIf(96), Need(201), Pubs(4), Words(5),
    Later(32), Later(1), Later(1), Later(32), Later(8), Later(8), Later(1), Later(1)>>

PumpFunDecoders == [
  trade |-> Decoder(PumpFunTradeTypes, TradeLayout),
  create |-> Decoder({"PUMP_FUN_CREATE"}, CreateLayout),
  migrate |-> Decoder({"PUMP_FUN_MIGRATE"},
    <<Need(160), Pubs(2), Words(3), Pubs(1), Words(1), Pubs(1)>>),
  migrate_bonding_curve_creator |-> Decoder({"PUMP_FUN_MIGRATE_BONDING_CURVE_CREATOR"},
    <<Need(168), Words(1), Pubs(5)>>)]

FeeConfigDecoders == [
  create_fee_sharing_config |-> Decoder({"PUMP_FEES_CREATE_FEE_SHARING_CONFIG"},
    <<Need(142), Words(1), Pubs(2), Need(1), Option(32), Pubs(2), Vector(34), Need(1), Flag, AtEnd>>),
  initialize_fee_config |-> Decoder({"PUMP_FEES_INITIALIZE_FEE_CONFIG"},
    <<Exactly(72), Words(1), Pubs(2)>>),
  reset_fee_sharing_config |-> Decoder({"PUMP_FEES_RESET_FEE_SHARING_CONFIG"},
    <<Need(144), Words(1), Pubs(3), Vector(34), Pubs(1), Vector(34), AtEnd>>)]

FeeSharingDecoders == [
  revoke_fee_sharing_authority |-> Decoder({"PUMP_FEES_REVOKE_FEE_SHARING_AUTHORITY"},
    <<Exactly(104), Words(1), Pubs(3)>>),
  transfer_fee_sharing_authority |-> Decoder({"PUMP_FEES_TRANSFER_FEE_SHARING_AUTHORITY"},
    <<Exactly(136), Words(1), Pubs(4)>>),
  update_admin |-> Decoder({"PUMP_FEES_UPDATE_ADMIN"}, <<Exactly(72), Words(1), Pubs(2)>>),
  update_fee_config |-> Decoder({"PUMP_FEES_UPDATE_FEE_CONFIG"},
    <<Need(100), Words(1), Pubs(2), Vector(40), Need(24), Words(3), AtEnd>>),
  update_fee_shares |-> Decoder({"PUMP_FEES_UPDATE_FEE_SHARES"},
    <<Need(108), Words(1), Pubs(3), Vector(34), AtEnd>>),
  upsert_fee_tiers |-> Decoder({"PUMP_FEES_UPSERT_FEE_TIERS"},
    <<Need(77), Words(1), Pubs(2), Vector(40), Need(1), Bytes(1), AtEnd>>)]

PumpFeesDecoders == Merge(FeeConfigDecoders, FeeSharingDecoders)

(* pump_upgrade.py: every field must be whole, and nothing may be left. *)
PumpUpgradeDecoders == [
  post_complete_buy |-> Decoder({"PUMP_FUN_POST_COMPLETE_BUY"},
    <<Need(224), Pubs(4), Words(12), AtEnd>>),
  sweep_bonding_curve_fee |-> Decoder({"PUMP_FUN_SWEEP_BONDING_CURVE_FEE"},
    <<Need(145), Words(1), Pubs(4), Words(1), Bytes(1), AtEnd>>),
  complete |-> Decoder({"PUMP_FUN_COMPLETE"},
    <<Need(104), Pubs(3), Words(1), EventIf(0), Need(32), Pubs(1), AtEnd>>),
  sweep_pool_fee |-> Decoder({"PUMP_SWAP_SWEEP_POOL_FEE"},
    <<Need(177), Words(1), Pubs(5), Words(1), Bytes(1), AtEnd>>)]

-----------------------------------------------------------------------------
(* PumpSwap *)

(* _parse_pumpswap_trade_tail: one of the tails ever used, or a longer one. *)
TradeTail ==
  <<Sizes({0, 16, 32, 57, 73}, 81), Later(16), Later(16), Later(16), LaterFlag, Later(8), Later(16),
    Later(8)>>

SwapTradeDecoders == [
  ps_buy |-> Decoder({"PUMP_SWAP_BUY"},
    <<Sizes({385}, 397), Words(14), Pubs(7), Words(2), Flag, Words(4), EventIf(0),
      Words(1), Need(4), Text>> \o TradeTail),
  ps_sell |-> Decoder({"PUMP_SWAP_SELL"}, <<Need(352), Words(14), Pubs(7), Words(2)>> \o TradeTail)]

SwapPoolDecoders == [
  ps_create_pool |-> Decoder({"PUMP_SWAP_CREATE_POOL"},
    <<Sizes({326}, 335), Words(1), Bytes(2), Pubs(3), Bytes(2), Words(7), Bytes(1), Pubs(5), Later(1),
      Later(8), Later(1), Later(1)>>),
  ps_add_liq |-> Decoder({"PUMP_SWAP_LIQUIDITY_ADDED"}, <<Need(248), Words(11), Pubs(5)>>),
  ps_remove_liq |-> Decoder({"PUMP_SWAP_LIQUIDITY_REMOVED"}, <<Need(248), Words(11), Pubs(5)>>)]

PumpSwapDecoders == Merge(SwapTradeDecoders, SwapPoolDecoders)

-----------------------------------------------------------------------------
(* Raydium *)

ClmmLiquidityDecoders == [
  clmm_swap |-> Decoder({"RAYDIUM_CLMM_SWAP"},
    <<Need(197), Pubs(4), Words(4), Bytes(1), U128s(2), Halves(1)>>),
  clmm_inc |-> Decoder({"RAYDIUM_CLMM_INCREASE_LIQUIDITY"}, <<Need(80), Pubs(1), U128s(1), Words(4)>>),
  clmm_dec |-> Decoder({"RAYDIUM_CLMM_DECREASE_LIQUIDITY"}, <<Need(120), Pubs(1), U128s(1), Words(9)>>)]

ClmmPoolDecoders == [
  clmm_create |-> Decoder({"RAYDIUM_CLMM_CREATE_POOL"},
    <<Need(182), Pubs(2), Bytes(2), Pubs(1), U128s(1), Halves(1), Pubs(2)>>),
  clmm_collect_personal |-> Decoder({"RAYDIUM_CLMM_COLLECT_FEE"}, <<Need(112), Pubs(3), Words(2)>>),
  clmm_collect_protocol |-> Decoder({"RAYDIUM_CLMM_COLLECT_FEE"}, <<Need(112), Pubs(3), Words(2)>>),
  clmm_liquidity_change |-> Decoder({"RAYDIUM_CLMM_LIQUIDITY_CHANGE"},
    <<Need(76), Pubs(1), Halves(3), U128s(2)>>)]

ClmmPositionDecoders == [
  clmm_config_change |-> Decoder({"RAYDIUM_CLMM_CONFIG_CHANGE"},
    <<Need(80), Bytes(2), Pubs(1), Halves(2), Bytes(2), Halves(1), Pubs(1)>>),
  clmm_create_personal_position |-> Decoder({"RAYDIUM_CLMM_CREATE_PERSONAL_POSITION"},
    <<Need(152), Pubs(3), Halves(2), U128s(1), Words(4)>>),
  clmm_liquidity_calculate |-> Decoder({"RAYDIUM_CLMM_LIQUIDITY_CALCULATE"},
    <<Need(84), U128s(2), Halves(1), Words(6)>>)]

ClmmOrderDecoders == [
  clmm_open_limit_order |-> Decoder({"RAYDIUM_CLMM_OPEN_LIMIT_ORDER"},
    <<Need(85), Pubs(2), Bytes(1), Halves(1), Words(2)>>),
  clmm_increase_limit_order |-> Decoder({"RAYDIUM_CLMM_INCREASE_LIMIT_ORDER"},
    <<Need(93), Pubs(2), Bytes(1), Halves(1), Words(3)>>),
  clmm_decrease_limit_order |-> Decoder({"RAYDIUM_CLMM_DECREASE_LIMIT_ORDER"},
    <<Need(101), Pubs(2), Bytes(1), Halves(1), Words(4)>>),
  clmm_settle_limit_order |-> Decoder({"RAYDIUM_CLMM_SETTLE_LIMIT_ORDER"},
    <<Need(93), Pubs(2), Bytes(1), Halves(1), Words(3)>>),
  clmm_update_reward_infos |-> Decoder({"RAYDIUM_CLMM_UPDATE_REWARD_INFOS"}, <<Need(48), U128s(3)>>)]

ClmmDecoders ==
  Merge(Merge(ClmmLiquidityDecoders, ClmmPoolDecoders), Merge(ClmmPositionDecoders, ClmmOrderDecoders))

(* amm_ray_log is the line "ray_log: ...", whose first byte is its tag. *)
AmmDecoders == [
  amm_swap_in |-> Decoder({"RAYDIUM_AMM_V4_SWAP"}, <<Need(80), Pubs(2), Words(2)>>),
  amm_swap_out |-> Decoder({"RAYDIUM_AMM_V4_SWAP"}, <<Need(80), Pubs(2), Words(2)>>),
  amm_ray_log |-> Decoder({"RAYDIUM_AMM_V4_SWAP"}, <<Exactly(57), Flag, Words(2), Skip(32), Words(1)>>),
  amm_deposit |-> Decoder({"RAYDIUM_AMM_V4_DEPOSIT"}, <<Need(88), Pubs(2), Words(3)>>),
  amm_withdraw |-> Decoder({"RAYDIUM_AMM_V4_WITHDRAW"}, <<Need(72), Pubs(2), Words(1)>>),
  amm_withdraw_pnl |-> Decoder({"RAYDIUM_AMM_V4_WITHDRAW_PNL"}, <<Need(64), Pubs(2)>>),
  amm_init2 |-> Decoder({"RAYDIUM_AMM_V4_INITIALIZE2"}, <<Need(89), Pubs(2), Bytes(1), Words(3)>>)]

CpmmDecoders == [
  cpmm_swap_event |-> Decoder({"RAYDIUM_CPMM_SWAP"},
    <<Sizes({81}, 162), Pubs(1), Words(6), Flag, Later(64), Later(16), LaterFlag>>),
  cpmm_swap_in |-> Decoder({"RAYDIUM_CPMM_SWAP"},
    <<Need(89), Pubs(1), Skip(32), Words(1), Skip(8), Words(1), Bytes(1)>>),
  cpmm_swap_out |-> Decoder({"RAYDIUM_CPMM_SWAP"}, <<Need(89), Pubs(1), Skip(40), Words(2), Bytes(1)>>),
  cpmm_create |-> Decoder({"RAYDIUM_CPMM_INITIALIZE"}, <<Need(144), Pubs(1), Skip(64), Pubs(1), Words(2)>>),
  cpmm_deposit |-> Decoder({"RAYDIUM_CPMM_DEPOSIT"}, <<Need(88), Pubs(2), Words(3)>>),
  cpmm_withdraw |-> Decoder({"RAYDIUM_CPMM_WITHDRAW"}, <<Need(88), Pubs(2), Words(3)>>)]

LaunchlabDecoders == [
  launchlab_trade |-> Decoder({"RAYDIUM_LAUNCHLAB_TRADE"},
    <<Exactly(139), Pubs(1), Words(13), Flag, Flag, Flag>>),
  launchlab_pool_create |-> Decoder({"RAYDIUM_LAUNCHLAB_POOL_CREATE"},
    <<Need(97), Pubs(2), Skip(32), Bytes(1), TryString, TryString, TryString>>)]

-----------------------------------------------------------------------------
(* Orca *)

OrcaDecoders == [
  orca_traded |-> Decoder({"ORCA_WHIRLPOOL_SWAP"}, <<Need(113), Pubs(1), Bytes(1), U128s(2), Words(6)>>),
  orca_liq_inc |-> Decoder({"ORCA_WHIRLPOOL_LIQUIDITY_INCREASED"},
    <<Need(120), Pubs(2), Halves(2), U128s(1), Words(4)>>),
  orca_liq_dec |-> Decoder({"ORCA_WHIRLPOOL_LIQUIDITY_DECREASED"},
    <<Need(120), Pubs(2), Halves(2), U128s(1), Words(4)>>),
  (* six keys are read; the guard counts five *)
  orca_pool_init |-> Decoder({"ORCA_WHIRLPOOL_POOL_INITIALIZED"},
    <<Need(180), Pubs(4), Bytes(2), Pubs(2), Bytes(2), U128s(1)>>)]

-----------------------------------------------------------------------------
(* Meteora *)

PoolsDecoders == [
  meteora_swap |-> Decoder({"METEORA_POOLS_SWAP"}, <<Need(40), Words(5)>>),
  meteora_add |-> Decoder({"METEORA_POOLS_ADD_LIQUIDITY"}, <<Need(24), Words(3)>>),
  meteora_remove |-> Decoder({"METEORA_POOLS_REMOVE_LIQUIDITY"}, <<Need(24), Words(3)>>),
  meteora_bootstrap |-> Decoder({"METEORA_POOLS_BOOTSTRAP_LIQUIDITY"}, <<Need(56), Words(3), Pubs(1)>>),
  meteora_pool_created |-> Decoder({"METEORA_POOLS_POOL_CREATED"}, <<Need(129), Pubs(3), Bytes(1), Pubs(1)>>),
  meteora_set_pool_fees |-> Decoder({"METEORA_POOLS_SET_POOL_FEES"}, <<Need(64), Words(4), Pubs(1)>>)]

DbcSwap2Layout ==
  <<Need(179), Pubs(2), Flag, Flag, Words(2), Flag, Words(4), U128s(1), Words(6)>>

DbcDecoders == [
  dbc_swap |-> Decoder({"METEORA_DBC_SWAP"},
    <<Need(154), Pubs(2), Bytes(2), Words(4), U128s(1), Words(3), Later(8), Words(1)>>),
  dbc_swap2 |-> Decoder({"METEORA_DBC_SWAP"}, DbcSwap2Layout),
  dbc_init_pool |-> Decoder({"METEORA_DBC_INITIALIZE_POOL"}, <<Need(137), Pubs(4), Bytes(1), Words(1)>>),
  dbc_curve_complete |-> Decoder({"METEORA_DBC_CURVE_COMPLETE"}, <<Need(80), Pubs(2), Words(2)>>)]

(* The dynamic fee a pool or a config may have, and what follows it. *)
DammPoolFees == <<Need(30), Slice(27), Bytes(3), Option(32)>>

DammSwapDecoders == [
  damm_swap |-> Decoder({"METEORA_DAMM_V2_SWAP"},
    <<Need(178), Pubs(1), Skip(32), Bytes(2), Words(4), U128s(1), Words(3), Skip(8), Words(1)>>),
  damm_swap2 |-> Decoder({"METEORA_DAMM_V2_SWAP"},
    <<Need(180), Pubs(1), Bytes(3), Words(2), Flag, Words(4), U128s(1), Words(10)>>)]

DammPositionDecoders == [
  damm_create_position |-> Decoder({"METEORA_DAMM_V2_CREATE_POSITION"}, <<Need(128), Pubs(4)>>),
  damm_close_position |-> Decoder({"METEORA_DAMM_V2_CLOSE_POSITION"}, <<Need(128), Pubs(4)>>),
  damm_add_liquidity |-> Decoder({"METEORA_DAMM_V2_ADD_LIQUIDITY"}, <<Need(160), Pubs(3), U128s(1), Words(6)>>)]

DammPoolDecoders == [
  damm_remove_liquidity |-> Decoder({"METEORA_DAMM_V2_REMOVE_LIQUIDITY"},
    <<Need(144), Pubs(3), U128s(1), Words(4)>>),
  damm_liquidity_change |-> Decoder({"METEORA_DAMM_V2_ADD_LIQUIDITY", "METEORA_DAMM_V2_REMOVE_LIQUIDITY"},
    <<Need(177), Pubs(3), Words(6), U128s(1), Words(2), Flag>>),
  damm_initialize_pool |-> Decoder({"METEORA_DAMM_V2_INITIALIZE_POOL"},
    <<Need(332), Pubs(6)>> \o DammPoolFees
    \o <<Need(109), U128s(2), Bytes(2), U128s(2), Words(1), Bytes(2), Words(4), Bytes(1)>>)]

DammClaimDecoders == [
  damm_claim_position_fee |-> Decoder({"METEORA_DAMM_V2_CLAIM_POSITION_FEE"}, <<Need(112), Pubs(3), Slice(16)>>),
  damm_claim_reward |-> Decoder({"METEORA_DAMM_V2_CLAIM_REWARD"}, <<Need(137), Pubs(4), Bytes(1), Slice(8)>>)]

DammRewardDecoders == [
  damm_update_delegate_permission |-> Decoder({"METEORA_DAMM_V2_UPDATE_DELEGATE_PERMISSION"},
    <<Need(69), Pubs(2), Halves(1), LooseOption(32)>>),
  damm_withdraw_dead_liquidity_reward |-> Decoder({"METEORA_DAMM_V2_WITHDRAW_DEAD_LIQUIDITY_REWARD"},
    <<Need(72), Pubs(2), Words(1)>>),
  damm_withdraw_ineligible_reward |-> Decoder({"METEORA_DAMM_V2_WITHDRAW_INELIGIBLE_REWARD"},
    <<Need(72), Pubs(2), Words(1)>>),
  damm_update_reward_funder |-> Decoder({"METEORA_DAMM_V2_UPDATE_REWARD_FUNDER"},
    <<Need(97), Pubs(1), Bytes(1), Pubs(2)>>),
  damm_update_reward_duration |-> Decoder({"METEORA_DAMM_V2_UPDATE_REWARD_DURATION"},
    <<Need(49), Pubs(1), Bytes(1), Words(2)>>),
  damm_initialize_reward |-> Decoder({"METEORA_DAMM_V2_INITIALIZE_REWARD"},
    <<Need(137), Pubs(4), Bytes(1), Words(1)>>),
  damm_fund_reward |-> Decoder({"METEORA_DAMM_V2_FUND_REWARD"},
    <<Need(153), Pubs(3), Bytes(1), Words(3), U128s(2)>>)]

DammConfigDecoders == [
  damm_create_config |-> Decoder({"METEORA_DAMM_V2_CREATE_CONFIG"},
    <<Need(27), Slice(27), Need(4), Bytes(3), LooseOption(32), Need(154), Pubs(2), Bytes(1), U128s(2),
      Bytes(1), Words(1), Pubs(1), U128s(1)>>),
  damm_create_dynamic_config |-> Decoder({"METEORA_DAMM_V2_CREATE_DYNAMIC_CONFIG"},
    <<Need(88), Pubs(2), Words(1), U128s(1)>>)]

DammDecoders ==
  Merge(Merge(DammSwapDecoders, Merge(DammPositionDecoders, DammPoolDecoders)),
        Merge(DammClaimDecoders, Merge(DammRewardDecoders, DammConfigDecoders)))

DlmmSwapDecoders == [
  dlmm_swap |-> Decoder({"METEORA_DLMM_SWAP"},
    <<Need(129), Pubs(2), Halves(2), Words(2), Bytes(1), Words(2), U128s(1), Words(1)>>),
  dlmm_swap2 |-> Decoder({"METEORA_DLMM_SWAP"},
    <<Need(147), Pubs(2), Halves(2), Flag, U128s(1), Words(7), Flag, Flag, Refusal>>)]

DlmmPoolDecoders == [
  dlmm_add_liq |-> Decoder({"METEORA_DLMM_ADD_LIQUIDITY"}, <<Need(116), Pubs(3), Words(2), Halves(1)>>),
  dlmm_remove_liq |-> Decoder({"METEORA_DLMM_REMOVE_LIQUIDITY"}, <<Need(116), Pubs(3), Words(2), Halves(1)>>),
  dlmm_init_pool |-> Decoder({"METEORA_DLMM_INITIALIZE_POOL"}, <<Need(98), Pubs(1), Bytes(2)>>),
  dlmm_legacy_init_pool |-> Decoder({"METEORA_DLMM_INITIALIZE_POOL"},
    <<Need(70), Pubs(2), Halves(1), Bytes(2)>>),
  dlmm_init_bin |-> Decoder({"METEORA_DLMM_INITIALIZE_BIN_ARRAY"}, <<Need(72), Pubs(2), Words(1)>>)]

DlmmPositionDecoders == [
  dlmm_create_pos |-> Decoder({"METEORA_DLMM_CREATE_POSITION"}, <<Need(96), Pubs(3)>>),
  dlmm_legacy_create_pos |-> Decoder({"METEORA_DLMM_CREATE_POSITION"}, <<Need(104), Pubs(3), Halves(2)>>),
  dlmm_close_pos |-> Decoder({"METEORA_DLMM_CLOSE_POSITION"}, <<Need(64), Pubs(2)>>),
  dlmm_legacy_close_pos |-> Decoder({"METEORA_DLMM_CLOSE_POSITION"}, <<Need(96), Pubs(3)>>),
  dlmm_claim_reward2 |-> Decoder({"METEORA_DLMM_CLAIM_REWARD"}, <<Need(116), Pubs(3), Words(2), Slice(4)>>),
  dlmm_claim_fee |-> Decoder({"METEORA_DLMM_CLAIM_FEE"}, <<Need(112), Pubs(3), Words(2)>>),
  dlmm_claim_fee2 |-> Decoder({"METEORA_DLMM_CLAIM_FEE"}, <<Need(116), Pubs(3), Words(2)>>)]

DlmmDecoders == Merge(DlmmSwapDecoders, Merge(DlmmPoolDecoders, DlmmPositionDecoders))

PumpDecoders ==
  Merge(Merge(PumpFunDecoders, PumpFeesDecoders), Merge(PumpUpgradeDecoders, PumpSwapDecoders))

RaydiumDecoders == Merge(Merge(ClmmDecoders, AmmDecoders), Merge(CpmmDecoders, LaunchlabDecoders))

MeteoraDecoders == Merge(Merge(PoolsDecoders, DbcDecoders), Merge(DammDecoders, DlmmDecoders))

Decoders == Merge(Merge(PumpDecoders, RaydiumDecoders), Merge(OrcaDecoders, MeteoraDecoders))
=============================================================================
