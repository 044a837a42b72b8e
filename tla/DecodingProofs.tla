--------------------------- MODULE DecodingProofs ---------------------------
(***************************************************************************)
(* The filter of event types, asked before decoding, and the instructions   *)
(* that are decoded within programs and from shreds. What they depend on is *)
(* no layout but the tables: which decoder a discriminator has, by program; *)
(* which types each decoder tells, the discriminator announces and the      *)
(* program has; and how types stand for their families. So first the tables *)
(* are read off, then what a decoder tells is followed to the result.       *)
(*                                                                          *)
(* That no data is read but that which is there depends on every layout. So *)
(* from "Reading of data" on, each read has the number of bytes before it   *)
(* that it needs and that which it leaves; each layout is certified with    *)
(* these numbers, whatever the length of its data; and what the decoders    *)
(* make is followed through the tables and the filter to the result.        *)
(***************************************************************************)
EXTENDS Decoding, SequenceTheorems, WellFoundedInduction, TLAPS
-----------------------------------------------------------------------------
(* Filters *)

IsFilter(f) == f = All \/ f.mode = "only" \/ f.mode = "except"

Grouped == TradeFamily \cup CreateFamily \cup {"PUMP_FUN_TRADE", "PUMP_SWAP_BUY", "PUMP_SWAP_SELL"}

Closed(T) ==
  /\ Meet(T, TradeFamily \cup {"PUMP_FUN_TRADE"}) => TradeFamily \cup {"PUMP_FUN_TRADE"} \subseteq T
  /\ Meet(T, CreateFamily) => CreateFamily \subseteq T
  /\ Meet(T, {"PUMP_SWAP_BUY", "PUMP_SWAP_SELL"}) => "PUMP_SWAP_TRADE" \in T

(* A list that includes a type names one of a set of types that has its families whole. *)
LEMMA ListsNameIt ==
  ASSUME NEW f, IsFilter(f), NEW T, Closed(T), NEW t \in T, ShouldInclude(f, t)
  PROVE  \E u \in T : IF f.mode = "only" THEN u \in f.types ELSE ShouldInclude(f, u)
<1>1. CASE f.mode # "only"
  BY <1>1
<1>2. CASE f.mode = "only"
  <2>1. Covers(f.types, t) \/ (t = "PUMP_FUN_TRADE" /\ Meet(f.types, TradeFamily))
    BY <1>2 DEF ShouldInclude
  <2>2. CASE t \in f.types
    BY <2>2, <1>2
  <2>3. ASSUME NEW F \in Families, t \in F, Meet(f.types, F)
        PROVE  \E u \in T : u \in f.types
    BY <2>3 DEF Families, BuyFamily, CreateFamily, Closed, Meet, TradeFamily
  <2>4. ASSUME t \in TradeFamily, "PUMP_FUN_TRADE" \in f.types
        PROVE  \E u \in T : u \in f.types
    BY <2>4 DEF Closed, Meet
  <2>5. ASSUME t \in {"PUMP_SWAP_BUY", "PUMP_SWAP_SELL"}, "PUMP_SWAP_TRADE" \in f.types
        PROVE  \E u \in T : u \in f.types
    BY <2>5 DEF Closed, Meet
  <2>6. ASSUME t = "PUMP_FUN_TRADE", Meet(f.types, TradeFamily)
        PROVE  \E u \in T : u \in f.types
    BY <2>6 DEF Closed, Meet
  <2> QED BY <1>2, <2>1, <2>2, <2>3, <2>4, <2>5, <2>6 DEF Covers
<1> QED BY <1>1, <1>2

-----------------------------------------------------------------------------
(* The decoders of log lines: the event types of each row *)

(* The rows of PumpFunDecoders. *)
LEMMA PumpFunRows ==
  /\ DOMAIN PumpFunDecoders = {"trade", "create", "migrate", "migrate_bonding_curve_creator"}
  /\ PumpFunDecoders["trade"].types = PumpFunTradeTypes
  /\ PumpFunDecoders["create"].types = {"PUMP_FUN_CREATE"}
  /\ PumpFunDecoders["migrate"].types = {"PUMP_FUN_MIGRATE"}
  /\ PumpFunDecoders["migrate_bonding_curve_creator"].types = {"PUMP_FUN_MIGRATE_BONDING_CURVE_CREATOR"}
BY DEF PumpFunDecoders, Decoder

(* The rows of FeeConfigDecoders. *)
LEMMA FeeConfigRows ==
  /\ DOMAIN FeeConfigDecoders = {"create_fee_sharing_config", "initialize_fee_config",
        "reset_fee_sharing_config"}
  /\ FeeConfigDecoders["create_fee_sharing_config"].types = {"PUMP_FEES_CREATE_FEE_SHARING_CONFIG"}
  /\ FeeConfigDecoders["initialize_fee_config"].types = {"PUMP_FEES_INITIALIZE_FEE_CONFIG"}
  /\ FeeConfigDecoders["reset_fee_sharing_config"].types = {"PUMP_FEES_RESET_FEE_SHARING_CONFIG"}
BY DEF FeeConfigDecoders, Decoder

(* The rows of FeeSharingDecoders. *)
LEMMA FeeSharingRows ==
  /\ DOMAIN FeeSharingDecoders = {"revoke_fee_sharing_authority", "transfer_fee_sharing_authority",
        "update_admin", "update_fee_config", "update_fee_shares", "upsert_fee_tiers"}
  /\ FeeSharingDecoders["revoke_fee_sharing_authority"].types = {"PUMP_FEES_REVOKE_FEE_SHARING_AUTHORITY"}
  /\ FeeSharingDecoders["transfer_fee_sharing_authority"].types = {"PUMP_FEES_TRANSFER_FEE_SHARING_AUTHORITY"}
  /\ FeeSharingDecoders["update_admin"].types = {"PUMP_FEES_UPDATE_ADMIN"}
  /\ FeeSharingDecoders["update_fee_config"].types = {"PUMP_FEES_UPDATE_FEE_CONFIG"}
  /\ FeeSharingDecoders["update_fee_shares"].types = {"PUMP_FEES_UPDATE_FEE_SHARES"}
  /\ FeeSharingDecoders["upsert_fee_tiers"].types = {"PUMP_FEES_UPSERT_FEE_TIERS"}
BY DEF FeeSharingDecoders, Decoder

(* The rows of PumpUpgradeDecoders. *)
LEMMA PumpUpgradeRows ==
  /\ DOMAIN PumpUpgradeDecoders = {"post_complete_buy", "sweep_bonding_curve_fee", "complete",
        "sweep_pool_fee"}
  /\ PumpUpgradeDecoders["post_complete_buy"].types = {"PUMP_FUN_POST_COMPLETE_BUY"}
  /\ PumpUpgradeDecoders["sweep_bonding_curve_fee"].types = {"PUMP_FUN_SWEEP_BONDING_CURVE_FEE"}
  /\ PumpUpgradeDecoders["complete"].types = {"PUMP_FUN_COMPLETE"}
  /\ PumpUpgradeDecoders["sweep_pool_fee"].types = {"PUMP_SWAP_SWEEP_POOL_FEE"}
BY DEF PumpUpgradeDecoders, Decoder

(* The rows of SwapTradeDecoders. *)
LEMMA SwapTradeRows ==
  /\ DOMAIN SwapTradeDecoders = {"ps_buy", "ps_sell"}
  /\ SwapTradeDecoders["ps_buy"].types = {"PUMP_SWAP_BUY"}
  /\ SwapTradeDecoders["ps_sell"].types = {"PUMP_SWAP_SELL"}
BY DEF SwapTradeDecoders, Decoder

(* The rows of SwapPoolDecoders. *)
LEMMA SwapPoolRows ==
  /\ DOMAIN SwapPoolDecoders = {"ps_create_pool", "ps_add_liq", "ps_remove_liq"}
  /\ SwapPoolDecoders["ps_create_pool"].types = {"PUMP_SWAP_CREATE_POOL"}
  /\ SwapPoolDecoders["ps_add_liq"].types = {"PUMP_SWAP_LIQUIDITY_ADDED"}
  /\ SwapPoolDecoders["ps_remove_liq"].types = {"PUMP_SWAP_LIQUIDITY_REMOVED"}
BY DEF SwapPoolDecoders, Decoder

(* The rows of ClmmLiquidityDecoders. *)
LEMMA ClmmLiquidityRows ==
  /\ DOMAIN ClmmLiquidityDecoders = {"clmm_swap", "clmm_inc", "clmm_dec"}
  /\ ClmmLiquidityDecoders["clmm_swap"].types = {"RAYDIUM_CLMM_SWAP"}
  /\ ClmmLiquidityDecoders["clmm_inc"].types = {"RAYDIUM_CLMM_INCREASE_LIQUIDITY"}
  /\ ClmmLiquidityDecoders["clmm_dec"].types = {"RAYDIUM_CLMM_DECREASE_LIQUIDITY"}
BY DEF ClmmLiquidityDecoders, Decoder

(* The rows of ClmmPoolDecoders. *)
LEMMA ClmmPoolRows ==
  /\ DOMAIN ClmmPoolDecoders = {"clmm_create", "clmm_collect_personal", "clmm_collect_protocol",
        "clmm_liquidity_change"}
  /\ ClmmPoolDecoders["clmm_create"].types = {"RAYDIUM_CLMM_CREATE_POOL"}
  /\ ClmmPoolDecoders["clmm_collect_personal"].types = {"RAYDIUM_CLMM_COLLECT_FEE"}
  /\ ClmmPoolDecoders["clmm_collect_protocol"].types = {"RAYDIUM_CLMM_COLLECT_FEE"}
  /\ ClmmPoolDecoders["clmm_liquidity_change"].types = {"RAYDIUM_CLMM_LIQUIDITY_CHANGE"}
BY DEF ClmmPoolDecoders, Decoder

(* The rows of ClmmPositionDecoders. *)
LEMMA ClmmPositionRows ==
  /\ DOMAIN ClmmPositionDecoders = {"clmm_config_change", "clmm_create_personal_position",
        "clmm_liquidity_calculate"}
  /\ ClmmPositionDecoders["clmm_config_change"].types = {"RAYDIUM_CLMM_CONFIG_CHANGE"}
  /\ ClmmPositionDecoders["clmm_create_personal_position"].types = {"RAYDIUM_CLMM_CREATE_PERSONAL_POSITION"}
  /\ ClmmPositionDecoders["clmm_liquidity_calculate"].types = {"RAYDIUM_CLMM_LIQUIDITY_CALCULATE"}
BY DEF ClmmPositionDecoders, Decoder

(* The rows of ClmmOrderDecoders. *)
LEMMA ClmmOrderRows ==
  /\ DOMAIN ClmmOrderDecoders = {"clmm_open_limit_order", "clmm_increase_limit_order",
        "clmm_decrease_limit_order", "clmm_settle_limit_order", "clmm_update_reward_infos"}
  /\ ClmmOrderDecoders["clmm_open_limit_order"].types = {"RAYDIUM_CLMM_OPEN_LIMIT_ORDER"}
  /\ ClmmOrderDecoders["clmm_increase_limit_order"].types = {"RAYDIUM_CLMM_INCREASE_LIMIT_ORDER"}
  /\ ClmmOrderDecoders["clmm_decrease_limit_order"].types = {"RAYDIUM_CLMM_DECREASE_LIMIT_ORDER"}
  /\ ClmmOrderDecoders["clmm_settle_limit_order"].types = {"RAYDIUM_CLMM_SETTLE_LIMIT_ORDER"}
  /\ ClmmOrderDecoders["clmm_update_reward_infos"].types = {"RAYDIUM_CLMM_UPDATE_REWARD_INFOS"}
BY DEF ClmmOrderDecoders, Decoder

(* The rows of AmmDecoders. *)
LEMMA AmmRows ==
  /\ DOMAIN AmmDecoders = {"amm_swap_in", "amm_swap_out", "amm_ray_log", "amm_deposit", "amm_withdraw",
        "amm_withdraw_pnl", "amm_init2"}
  /\ AmmDecoders["amm_swap_in"].types = {"RAYDIUM_AMM_V4_SWAP"}
  /\ AmmDecoders["amm_swap_out"].types = {"RAYDIUM_AMM_V4_SWAP"}
  /\ AmmDecoders["amm_ray_log"].types = {"RAYDIUM_AMM_V4_SWAP"}
  /\ AmmDecoders["amm_deposit"].types = {"RAYDIUM_AMM_V4_DEPOSIT"}
  /\ AmmDecoders["amm_withdraw"].types = {"RAYDIUM_AMM_V4_WITHDRAW"}
  /\ AmmDecoders["amm_withdraw_pnl"].types = {"RAYDIUM_AMM_V4_WITHDRAW_PNL"}
  /\ AmmDecoders["amm_init2"].types = {"RAYDIUM_AMM_V4_INITIALIZE2"}
BY DEF AmmDecoders, Decoder

(* The rows of CpmmDecoders. *)
LEMMA CpmmRows ==
  /\ DOMAIN CpmmDecoders = {"cpmm_swap_event", "cpmm_swap_in", "cpmm_swap_out", "cpmm_create",
        "cpmm_deposit", "cpmm_withdraw"}
  /\ CpmmDecoders["cpmm_swap_event"].types = {"RAYDIUM_CPMM_SWAP"}
  /\ CpmmDecoders["cpmm_swap_in"].types = {"RAYDIUM_CPMM_SWAP"}
  /\ CpmmDecoders["cpmm_swap_out"].types = {"RAYDIUM_CPMM_SWAP"}
  /\ CpmmDecoders["cpmm_create"].types = {"RAYDIUM_CPMM_INITIALIZE"}
  /\ CpmmDecoders["cpmm_deposit"].types = {"RAYDIUM_CPMM_DEPOSIT"}
  /\ CpmmDecoders["cpmm_withdraw"].types = {"RAYDIUM_CPMM_WITHDRAW"}
BY DEF CpmmDecoders, Decoder

(* The rows of LaunchlabDecoders. *)
LEMMA LaunchlabRows ==
  /\ DOMAIN LaunchlabDecoders = {"launchlab_trade", "launchlab_pool_create"}
  /\ LaunchlabDecoders["launchlab_trade"].types = {"RAYDIUM_LAUNCHLAB_TRADE"}
  /\ LaunchlabDecoders["launchlab_pool_create"].types = {"RAYDIUM_LAUNCHLAB_POOL_CREATE"}
BY DEF LaunchlabDecoders, Decoder

(* The rows of OrcaDecoders. *)
LEMMA OrcaRows ==
  /\ DOMAIN OrcaDecoders = {"orca_traded", "orca_liq_inc", "orca_liq_dec", "orca_pool_init"}
  /\ OrcaDecoders["orca_traded"].types = {"ORCA_WHIRLPOOL_SWAP"}
  /\ OrcaDecoders["orca_liq_inc"].types = {"ORCA_WHIRLPOOL_LIQUIDITY_INCREASED"}
  /\ OrcaDecoders["orca_liq_dec"].types = {"ORCA_WHIRLPOOL_LIQUIDITY_DECREASED"}
  /\ OrcaDecoders["orca_pool_init"].types = {"ORCA_WHIRLPOOL_POOL_INITIALIZED"}
BY DEF OrcaDecoders, Decoder

(* The rows of PoolsDecoders. *)
LEMMA PoolsRows ==
  /\ DOMAIN PoolsDecoders = {"meteora_swap", "meteora_add", "meteora_remove", "meteora_bootstrap",
        "meteora_pool_created", "meteora_set_pool_fees"}
  /\ PoolsDecoders["meteora_swap"].types = {"METEORA_POOLS_SWAP"}
  /\ PoolsDecoders["meteora_add"].types = {"METEORA_POOLS_ADD_LIQUIDITY"}
  /\ PoolsDecoders["meteora_remove"].types = {"METEORA_POOLS_REMOVE_LIQUIDITY"}
  /\ PoolsDecoders["meteora_bootstrap"].types = {"METEORA_POOLS_BOOTSTRAP_LIQUIDITY"}
  /\ PoolsDecoders["meteora_pool_created"].types = {"METEORA_POOLS_POOL_CREATED"}
  /\ PoolsDecoders["meteora_set_pool_fees"].types = {"METEORA_POOLS_SET_POOL_FEES"}
BY DEF PoolsDecoders, Decoder

(* The rows of DbcDecoders. *)
LEMMA DbcRows ==
  /\ DOMAIN DbcDecoders = {"dbc_swap", "dbc_swap2", "dbc_init_pool", "dbc_curve_complete"}
  /\ DbcDecoders["dbc_swap"].types = {"METEORA_DBC_SWAP"}
  /\ DbcDecoders["dbc_swap2"].types = {"METEORA_DBC_SWAP"}
  /\ DbcDecoders["dbc_init_pool"].types = {"METEORA_DBC_INITIALIZE_POOL"}
  /\ DbcDecoders["dbc_curve_complete"].types = {"METEORA_DBC_CURVE_COMPLETE"}
BY DEF DbcDecoders, Decoder

(* The rows of DammSwapDecoders. *)
LEMMA DammSwapRows ==
  /\ DOMAIN DammSwapDecoders = {"damm_swap", "damm_swap2"}
  /\ DammSwapDecoders["damm_swap"].types = {"METEORA_DAMM_V2_SWAP"}
  /\ DammSwapDecoders["damm_swap2"].types = {"METEORA_DAMM_V2_SWAP"}
BY DEF DammSwapDecoders, Decoder

(* The rows of DammPositionDecoders. *)
LEMMA DammPositionRows ==
  /\ DOMAIN DammPositionDecoders = {"damm_create_position", "damm_close_position", "damm_add_liquidity"}
  /\ DammPositionDecoders["damm_create_position"].types = {"METEORA_DAMM_V2_CREATE_POSITION"}
  /\ DammPositionDecoders["damm_close_position"].types = {"METEORA_DAMM_V2_CLOSE_POSITION"}
  /\ DammPositionDecoders["damm_add_liquidity"].types = {"METEORA_DAMM_V2_ADD_LIQUIDITY"}
BY DEF DammPositionDecoders, Decoder

(* The rows of DammPoolDecoders. *)
LEMMA DammPoolRows ==
  /\ DOMAIN DammPoolDecoders = {"damm_remove_liquidity", "damm_liquidity_change", "damm_initialize_pool"}
  /\ DammPoolDecoders["damm_remove_liquidity"].types = {"METEORA_DAMM_V2_REMOVE_LIQUIDITY"}
  /\ DammPoolDecoders["damm_liquidity_change"].types = {"METEORA_DAMM_V2_ADD_LIQUIDITY", "METEORA_DAMM_V2_REMOVE_LIQUIDITY"}
  /\ DammPoolDecoders["damm_initialize_pool"].types = {"METEORA_DAMM_V2_INITIALIZE_POOL"}
BY DEF DammPoolDecoders, Decoder

(* The rows of DammClaimDecoders. *)
LEMMA DammClaimRows ==
  /\ DOMAIN DammClaimDecoders = {"damm_claim_position_fee", "damm_claim_reward"}
  /\ DammClaimDecoders["damm_claim_position_fee"].types = {"METEORA_DAMM_V2_CLAIM_POSITION_FEE"}
  /\ DammClaimDecoders["damm_claim_reward"].types = {"METEORA_DAMM_V2_CLAIM_REWARD"}
BY DEF DammClaimDecoders, Decoder

(* The rows of DammRewardDecoders. *)
LEMMA DammRewardRows ==
  /\ DOMAIN DammRewardDecoders = {"damm_update_delegate_permission", "damm_withdraw_dead_liquidity_reward",
        "damm_withdraw_ineligible_reward", "damm_update_reward_funder", "damm_update_reward_duration",
        "damm_initialize_reward", "damm_fund_reward"}
  /\ DammRewardDecoders["damm_update_delegate_permission"].types = {"METEORA_DAMM_V2_UPDATE_DELEGATE_PERMISSION"}
  /\ DammRewardDecoders["damm_withdraw_dead_liquidity_reward"].types = {"METEORA_DAMM_V2_WITHDRAW_DEAD_LIQUIDITY_REWARD"}
  /\ DammRewardDecoders["damm_withdraw_ineligible_reward"].types = {"METEORA_DAMM_V2_WITHDRAW_INELIGIBLE_REWARD"}
  /\ DammRewardDecoders["damm_update_reward_funder"].types = {"METEORA_DAMM_V2_UPDATE_REWARD_FUNDER"}
  /\ DammRewardDecoders["damm_update_reward_duration"].types = {"METEORA_DAMM_V2_UPDATE_REWARD_DURATION"}
  /\ DammRewardDecoders["damm_initialize_reward"].types = {"METEORA_DAMM_V2_INITIALIZE_REWARD"}
  /\ DammRewardDecoders["damm_fund_reward"].types = {"METEORA_DAMM_V2_FUND_REWARD"}
BY DEF DammRewardDecoders, Decoder

(* The rows of DammConfigDecoders. *)
LEMMA DammConfigRows ==
  /\ DOMAIN DammConfigDecoders = {"damm_create_config", "damm_create_dynamic_config"}
  /\ DammConfigDecoders["damm_create_config"].types = {"METEORA_DAMM_V2_CREATE_CONFIG"}
  /\ DammConfigDecoders["damm_create_dynamic_config"].types = {"METEORA_DAMM_V2_CREATE_DYNAMIC_CONFIG"}
BY DEF DammConfigDecoders, Decoder

(* The rows of DlmmSwapDecoders. *)
LEMMA DlmmSwapRows ==
  /\ DOMAIN DlmmSwapDecoders = {"dlmm_swap", "dlmm_swap2"}
  /\ DlmmSwapDecoders["dlmm_swap"].types = {"METEORA_DLMM_SWAP"}
  /\ DlmmSwapDecoders["dlmm_swap2"].types = {"METEORA_DLMM_SWAP"}
BY DEF DlmmSwapDecoders, Decoder

(* The rows of DlmmPoolDecoders. *)
LEMMA DlmmPoolRows ==
  /\ DOMAIN DlmmPoolDecoders = {"dlmm_add_liq", "dlmm_remove_liq", "dlmm_init_pool",
        "dlmm_legacy_init_pool", "dlmm_init_bin"}
  /\ DlmmPoolDecoders["dlmm_add_liq"].types = {"METEORA_DLMM_ADD_LIQUIDITY"}
  /\ DlmmPoolDecoders["dlmm_remove_liq"].types = {"METEORA_DLMM_REMOVE_LIQUIDITY"}
  /\ DlmmPoolDecoders["dlmm_init_pool"].types = {"METEORA_DLMM_INITIALIZE_POOL"}
  /\ DlmmPoolDecoders["dlmm_legacy_init_pool"].types = {"METEORA_DLMM_INITIALIZE_POOL"}
  /\ DlmmPoolDecoders["dlmm_init_bin"].types = {"METEORA_DLMM_INITIALIZE_BIN_ARRAY"}
BY DEF DlmmPoolDecoders, Decoder

(* The rows of DlmmPositionDecoders. *)
LEMMA DlmmPositionRows ==
  /\ DOMAIN DlmmPositionDecoders = {"dlmm_create_pos", "dlmm_legacy_create_pos", "dlmm_close_pos",
        "dlmm_legacy_close_pos", "dlmm_claim_reward2", "dlmm_claim_fee", "dlmm_claim_fee2"}
  /\ DlmmPositionDecoders["dlmm_create_pos"].types = {"METEORA_DLMM_CREATE_POSITION"}
  /\ DlmmPositionDecoders["dlmm_legacy_create_pos"].types = {"METEORA_DLMM_CREATE_POSITION"}
  /\ DlmmPositionDecoders["dlmm_close_pos"].types = {"METEORA_DLMM_CLOSE_POSITION"}
  /\ DlmmPositionDecoders["dlmm_legacy_close_pos"].types = {"METEORA_DLMM_CLOSE_POSITION"}
  /\ DlmmPositionDecoders["dlmm_claim_reward2"].types = {"METEORA_DLMM_CLAIM_REWARD"}
  /\ DlmmPositionDecoders["dlmm_claim_fee"].types = {"METEORA_DLMM_CLAIM_FEE"}
  /\ DlmmPositionDecoders["dlmm_claim_fee2"].types = {"METEORA_DLMM_CLAIM_FEE"}
BY DEF DlmmPositionDecoders, Decoder

-----------------------------------------------------------------------------
(* The tables they are merged of *)

Part(f, g) == DOMAIN f \subseteq DOMAIN g /\ \A d \in DOMAIN f : g[d] = f[d]

Joins(h, f, g) == DOMAIN h = DOMAIN f \cup DOMAIN g /\ Part(f, h) /\ Part(g, h)

(* Two tables without a common key are parts of the merged one. *)
LEMMA MergeParts ==
  ASSUME NEW f, NEW g, DOMAIN f \cap DOMAIN g = {}
  PROVE  Joins(Merge(f, g), f, g)
BY DEF Merge, Part, Joins

(* The decoders of pump.fun fees, with the tables they are from. *)
LEMMA PumpFeesParts ==
  /\ DOMAIN PumpFeesDecoders = {"create_fee_sharing_config", "initialize_fee_config",
        "reset_fee_sharing_config", "revoke_fee_sharing_authority", "transfer_fee_sharing_authority",
        "update_admin", "update_fee_config", "update_fee_shares", "upsert_fee_tiers"}
  /\ Part(FeeConfigDecoders, PumpFeesDecoders)
  /\ Part(FeeSharingDecoders, PumpFeesDecoders)
<1>1. Joins(PumpFeesDecoders, FeeConfigDecoders, FeeSharingDecoders)
  <2>1. DOMAIN FeeConfigDecoders \cap DOMAIN FeeSharingDecoders = {}
    BY FeeConfigRows, FeeSharingRows
  <2> QED BY <2>1, MergeParts DEF PumpFeesDecoders
<1>2. /\ Part(FeeConfigDecoders, PumpFeesDecoders)
      /\ Part(FeeSharingDecoders, PumpFeesDecoders)
  BY <1>1 DEF Joins, Part
<1> QED BY <1>1, <1>2, FeeConfigRows, FeeSharingRows DEF Joins

(* The decoders of PumpSwap, with the tables they are from. *)
LEMMA PumpSwapParts ==
  /\ DOMAIN PumpSwapDecoders = {"ps_buy", "ps_sell", "ps_create_pool", "ps_add_liq", "ps_remove_liq"}
  /\ Part(SwapTradeDecoders, PumpSwapDecoders)
  /\ Part(SwapPoolDecoders, PumpSwapDecoders)
<1>1. Joins(PumpSwapDecoders, SwapTradeDecoders, SwapPoolDecoders)
  <2>1. DOMAIN SwapTradeDecoders \cap DOMAIN SwapPoolDecoders = {}
    BY SwapTradeRows, SwapPoolRows
  <2> QED BY <2>1, MergeParts DEF PumpSwapDecoders
<1>2. /\ Part(SwapTradeDecoders, PumpSwapDecoders)
      /\ Part(SwapPoolDecoders, PumpSwapDecoders)
  BY <1>1 DEF Joins, Part
<1> QED BY <1>1, <1>2, SwapTradeRows, SwapPoolRows DEF Joins

(* The decoders of CLMM, with the tables they are from. *)
LEMMA ClmmParts ==
  /\ DOMAIN ClmmDecoders = {"clmm_swap", "clmm_inc", "clmm_dec", "clmm_create", "clmm_collect_personal",
        "clmm_collect_protocol", "clmm_liquidity_change", "clmm_config_change",
        "clmm_create_personal_position", "clmm_liquidity_calculate", "clmm_open_limit_order",
        "clmm_increase_limit_order", "clmm_decrease_limit_order", "clmm_settle_limit_order",
        "clmm_update_reward_infos"}
  /\ Part(ClmmLiquidityDecoders, ClmmDecoders)
  /\ Part(ClmmPoolDecoders, ClmmDecoders)
  /\ Part(ClmmPositionDecoders, ClmmDecoders)
  /\ Part(ClmmOrderDecoders, ClmmDecoders)
<1> DEFINE A == Merge(ClmmLiquidityDecoders, ClmmPoolDecoders)
           B == Merge(ClmmPositionDecoders, ClmmOrderDecoders)
<1>1. ClmmDecoders = Merge(A, B)
  BY DEF ClmmDecoders
<1>2. Joins(A, ClmmLiquidityDecoders, ClmmPoolDecoders)
  <2>1. DOMAIN ClmmLiquidityDecoders \cap DOMAIN ClmmPoolDecoders = {}
    BY ClmmLiquidityRows, ClmmPoolRows
  <2> QED BY <2>1, MergeParts
<1> HIDE DEF A
<1>3. Joins(B, ClmmPositionDecoders, ClmmOrderDecoders)
  <2>1. DOMAIN ClmmPositionDecoders \cap DOMAIN ClmmOrderDecoders = {}
    BY ClmmPositionRows, ClmmOrderRows
  <2> QED BY <2>1, MergeParts
<1> HIDE DEF B
<1>4. Joins(ClmmDecoders, A, B)
  <2>1. DOMAIN A \cap DOMAIN B = {}
    BY <1>2, <1>3, ClmmLiquidityRows, ClmmPoolRows, ClmmPositionRows, ClmmOrderRows DEF Joins
  <2> QED BY <1>1, <2>1, MergeParts
<1>5. /\ Part(ClmmLiquidityDecoders, ClmmDecoders)
      /\ Part(ClmmPoolDecoders, ClmmDecoders)
      /\ Part(ClmmPositionDecoders, ClmmDecoders)
      /\ Part(ClmmOrderDecoders, ClmmDecoders)
  BY <1>2, <1>3, <1>4 DEF Joins, Part
<1> QED BY <1>2, <1>3, <1>4, <1>5, ClmmLiquidityRows, ClmmPoolRows, ClmmPositionRows, ClmmOrderRows
           DEF Joins

(* The decoders of DAMM v2, with the tables they are from. *)
LEMMA DammParts ==
  /\ DOMAIN DammDecoders = {"damm_swap", "damm_swap2", "damm_create_position", "damm_close_position",
        "damm_add_liquidity", "damm_remove_liquidity", "damm_liquidity_change", "damm_initialize_pool",
        "damm_claim_position_fee", "damm_claim_reward", "damm_update_delegate_permission",
        "damm_withdraw_dead_liquidity_reward", "damm_withdraw_ineligible_reward",
        "damm_update_reward_funder", "damm_update_reward_duration", "damm_initialize_reward",
        "damm_fund_reward", "damm_create_config", "damm_create_dynamic_config"}
  /\ Part(DammSwapDecoders, DammDecoders)
  /\ Part(DammPositionDecoders, DammDecoders)
  /\ Part(DammPoolDecoders, DammDecoders)
  /\ Part(DammClaimDecoders, DammDecoders)
  /\ Part(DammRewardDecoders, DammDecoders)
  /\ Part(DammConfigDecoders, DammDecoders)
<1> DEFINE A == Merge(DammPositionDecoders, DammPoolDecoders)
           B == Merge(DammSwapDecoders, A)
           C == Merge(DammRewardDecoders, DammConfigDecoders)
           D == Merge(DammClaimDecoders, C)
<1>1. DammDecoders = Merge(B, D)
  BY DEF DammDecoders
<1>2. Joins(A, DammPositionDecoders, DammPoolDecoders)
  <2>1. DOMAIN DammPositionDecoders \cap DOMAIN DammPoolDecoders = {}
    BY DammPositionRows, DammPoolRows
  <2> QED BY <2>1, MergeParts
<1> HIDE DEF A
<1>3. Joins(B, DammSwapDecoders, A)
  <2>1. DOMAIN DammSwapDecoders \cap DOMAIN A = {}
    BY <1>2, DammSwapRows, DammPositionRows, DammPoolRows DEF Joins
  <2> QED BY <2>1, MergeParts
<1> HIDE DEF B
<1>4. Joins(C, DammRewardDecoders, DammConfigDecoders)
  <2>1. DOMAIN DammRewardDecoders \cap DOMAIN DammConfigDecoders = {}
    BY DammRewardRows, DammConfigRows
  <2> QED BY <2>1, MergeParts
<1> HIDE DEF C
<1>5. Joins(D, DammClaimDecoders, C)
  <2>1. DOMAIN DammClaimDecoders \cap DOMAIN C = {}
    BY <1>4, DammClaimRows, DammRewardRows, DammConfigRows DEF Joins
  <2> QED BY <2>1, MergeParts
<1> HIDE DEF D
<1>6. Joins(DammDecoders, B, D)
  <2>1. DOMAIN B \cap DOMAIN D = {}
    BY <1>2, <1>3, <1>4, <1>5, DammSwapRows, DammPositionRows, DammPoolRows, DammClaimRows,
       DammRewardRows, DammConfigRows DEF Joins
  <2> QED BY <1>1, <2>1, MergeParts
<1>7. /\ Part(DammSwapDecoders, DammDecoders)
      /\ Part(DammPositionDecoders, DammDecoders)
      /\ Part(DammPoolDecoders, DammDecoders)
      /\ Part(DammClaimDecoders, DammDecoders)
      /\ Part(DammRewardDecoders, DammDecoders)
      /\ Part(DammConfigDecoders, DammDecoders)
  BY <1>2, <1>3, <1>4, <1>5, <1>6 DEF Joins, Part
<1> QED BY <1>2, <1>3, <1>4, <1>5, <1>6, <1>7, DammSwapRows, DammPositionRows, DammPoolRows,
           DammClaimRows, DammRewardRows, DammConfigRows DEF Joins

(* The decoders of DLMM, with the tables they are from. *)
LEMMA DlmmParts ==
  /\ DOMAIN DlmmDecoders = {"dlmm_swap", "dlmm_swap2", "dlmm_add_liq", "dlmm_remove_liq", "dlmm_init_pool",
        "dlmm_legacy_init_pool", "dlmm_init_bin", "dlmm_create_pos", "dlmm_legacy_create_pos",
        "dlmm_close_pos", "dlmm_legacy_close_pos", "dlmm_claim_reward2", "dlmm_claim_fee", "dlmm_claim_fee2"}
  /\ Part(DlmmSwapDecoders, DlmmDecoders)
  /\ Part(DlmmPoolDecoders, DlmmDecoders)
  /\ Part(DlmmPositionDecoders, DlmmDecoders)
<1> DEFINE A == Merge(DlmmPoolDecoders, DlmmPositionDecoders)
<1>1. DlmmDecoders = Merge(DlmmSwapDecoders, A)
  BY DEF DlmmDecoders
<1>2. Joins(A, DlmmPoolDecoders, DlmmPositionDecoders)
  <2>1. DOMAIN DlmmPoolDecoders \cap DOMAIN DlmmPositionDecoders = {}
    BY DlmmPoolRows, DlmmPositionRows
  <2> QED BY <2>1, MergeParts
<1> HIDE DEF A
<1>3. Joins(DlmmDecoders, DlmmSwapDecoders, A)
  <2>1. DOMAIN DlmmSwapDecoders \cap DOMAIN A = {}
    BY <1>2, DlmmSwapRows, DlmmPoolRows, DlmmPositionRows DEF Joins
  <2> QED BY <1>1, <2>1, MergeParts
<1>4. /\ Part(DlmmSwapDecoders, DlmmDecoders)
      /\ Part(DlmmPoolDecoders, DlmmDecoders)
      /\ Part(DlmmPositionDecoders, DlmmDecoders)
  BY <1>2, <1>3 DEF Joins, Part
<1> QED BY <1>2, <1>3, <1>4, DlmmSwapRows, DlmmPoolRows, DlmmPositionRows DEF Joins

(* The decoders of the pump programs, with the tables they are from. *)
LEMMA PumpParts ==
  /\ DOMAIN PumpDecoders = {"trade", "create", "migrate", "migrate_bonding_curve_creator",
        "create_fee_sharing_config", "initialize_fee_config", "reset_fee_sharing_config",
        "revoke_fee_sharing_authority", "transfer_fee_sharing_authority", "update_admin",
        "update_fee_config", "update_fee_shares", "upsert_fee_tiers", "post_complete_buy",
        "sweep_bonding_curve_fee", "complete", "sweep_pool_fee", "ps_buy", "ps_sell", "ps_create_pool",
        "ps_add_liq", "ps_remove_liq"}
  /\ Part(PumpFunDecoders, PumpDecoders)
  /\ Part(PumpFeesDecoders, PumpDecoders)
  /\ Part(PumpUpgradeDecoders, PumpDecoders)
  /\ Part(PumpSwapDecoders, PumpDecoders)
<1> DEFINE A == Merge(PumpFunDecoders, PumpFeesDecoders)
           B == Merge(PumpUpgradeDecoders, PumpSwapDecoders)
<1>1. PumpDecoders = Merge(A, B)
  BY DEF PumpDecoders
<1>2. Joins(A, PumpFunDecoders, PumpFeesDecoders)
  <2>1. DOMAIN PumpFunDecoders \cap DOMAIN PumpFeesDecoders = {}
    BY PumpFunRows, PumpFeesParts
  <2> QED BY <2>1, MergeParts
<1> HIDE DEF A
<1>3. Joins(B, PumpUpgradeDecoders, PumpSwapDecoders)
  <2>1. DOMAIN PumpUpgradeDecoders \cap DOMAIN PumpSwapDecoders = {}
    BY PumpUpgradeRows, PumpSwapParts
  <2> QED BY <2>1, MergeParts
<1> HIDE DEF B
<1>4. Joins(PumpDecoders, A, B)
  <2>1. DOMAIN A \cap DOMAIN B = {}
    BY <1>2, <1>3, PumpFunRows, PumpFeesParts, PumpUpgradeRows, PumpSwapParts DEF Joins
  <2> QED BY <1>1, <2>1, MergeParts
<1>5. /\ Part(PumpFunDecoders, PumpDecoders)
      /\ Part(PumpFeesDecoders, PumpDecoders)
      /\ Part(PumpUpgradeDecoders, PumpDecoders)
      /\ Part(PumpSwapDecoders, PumpDecoders)
  BY <1>2, <1>3, <1>4 DEF Joins, Part
<1> QED BY <1>2, <1>3, <1>4, <1>5, PumpFunRows, PumpFeesParts, PumpUpgradeRows, PumpSwapParts
           DEF Joins

(* The decoders of Raydium, with the tables they are from. *)
LEMMA RaydiumParts ==
  /\ DOMAIN RaydiumDecoders = {"clmm_swap", "clmm_inc", "clmm_dec", "clmm_create", "clmm_collect_personal",
        "clmm_collect_protocol", "clmm_liquidity_change", "clmm_config_change",
        "clmm_create_personal_position", "clmm_liquidity_calculate", "clmm_open_limit_order",
        "clmm_increase_limit_order", "clmm_decrease_limit_order", "clmm_settle_limit_order",
        "clmm_update_reward_infos", "amm_swap_in", "amm_swap_out", "amm_ray_log", "amm_deposit",
        "amm_withdraw", "amm_withdraw_pnl", "amm_init2", "cpmm_swap_event", "cpmm_swap_in",
        "cpmm_swap_out", "cpmm_create", "cpmm_deposit", "cpmm_withdraw", "launchlab_trade",
        "launchlab_pool_create"}
  /\ Part(ClmmDecoders, RaydiumDecoders)
  /\ Part(AmmDecoders, RaydiumDecoders)
  /\ Part(CpmmDecoders, RaydiumDecoders)
  /\ Part(LaunchlabDecoders, RaydiumDecoders)
<1> DEFINE A == Merge(ClmmDecoders, AmmDecoders)
           B == Merge(CpmmDecoders, LaunchlabDecoders)
<1>1. RaydiumDecoders = Merge(A, B)
  BY DEF RaydiumDecoders
<1>2. Joins(A, ClmmDecoders, AmmDecoders)
  <2>1. DOMAIN ClmmDecoders \cap DOMAIN AmmDecoders = {}
    BY ClmmParts, AmmRows
  <2> QED BY <2>1, MergeParts
<1> HIDE DEF A
<1>3. Joins(B, CpmmDecoders, LaunchlabDecoders)
  <2>1. DOMAIN CpmmDecoders \cap DOMAIN LaunchlabDecoders = {}
    BY CpmmRows, LaunchlabRows
  <2> QED BY <2>1, MergeParts
<1> HIDE DEF B
<1>4. Joins(RaydiumDecoders, A, B)
  <2>1. DOMAIN A \cap DOMAIN B = {}
    BY <1>2, <1>3, ClmmParts, AmmRows, CpmmRows, LaunchlabRows DEF Joins
  <2> QED BY <1>1, <2>1, MergeParts
<1>5. /\ Part(ClmmDecoders, RaydiumDecoders)
      /\ Part(AmmDecoders, RaydiumDecoders)
      /\ Part(CpmmDecoders, RaydiumDecoders)
      /\ Part(LaunchlabDecoders, RaydiumDecoders)
  BY <1>2, <1>3, <1>4 DEF Joins, Part
<1> QED BY <1>2, <1>3, <1>4, <1>5, ClmmParts, AmmRows, CpmmRows, LaunchlabRows DEF Joins

(* The decoders of Meteora, with the tables they are from. *)
LEMMA MeteoraParts ==
  /\ DOMAIN MeteoraDecoders = {"meteora_swap", "meteora_add", "meteora_remove", "meteora_bootstrap",
        "meteora_pool_created", "meteora_set_pool_fees", "dbc_swap", "dbc_swap2", "dbc_init_pool",
        "dbc_curve_complete", "damm_swap", "damm_swap2", "damm_create_position", "damm_close_position",
        "damm_add_liquidity", "damm_remove_liquidity", "damm_liquidity_change", "damm_initialize_pool",
        "damm_claim_position_fee", "damm_claim_reward", "damm_update_delegate_permission",
        "damm_withdraw_dead_liquidity_reward", "damm_withdraw_ineligible_reward",
        "damm_update_reward_funder", "damm_update_reward_duration", "damm_initialize_reward",
        "damm_fund_reward", "damm_create_config", "damm_create_dynamic_config", "dlmm_swap", "dlmm_swap2",
        "dlmm_add_liq", "dlmm_remove_liq", "dlmm_init_pool", "dlmm_legacy_init_pool", "dlmm_init_bin",
        "dlmm_create_pos", "dlmm_legacy_create_pos", "dlmm_close_pos", "dlmm_legacy_close_pos",
        "dlmm_claim_reward2", "dlmm_claim_fee", "dlmm_claim_fee2"}
  /\ Part(PoolsDecoders, MeteoraDecoders)
  /\ Part(DbcDecoders, MeteoraDecoders)
  /\ Part(DammDecoders, MeteoraDecoders)
  /\ Part(DlmmDecoders, MeteoraDecoders)
<1> DEFINE A == Merge(PoolsDecoders, DbcDecoders)
           B == Merge(DammDecoders, DlmmDecoders)
<1>1. MeteoraDecoders = Merge(A, B)
  BY DEF MeteoraDecoders
<1>2. Joins(A, PoolsDecoders, DbcDecoders)
  <2>1. DOMAIN PoolsDecoders \cap DOMAIN DbcDecoders = {}
    BY PoolsRows, DbcRows
  <2> QED BY <2>1, MergeParts
<1> HIDE DEF A
<1>3. Joins(B, DammDecoders, DlmmDecoders)
  <2>1. DOMAIN DammDecoders \cap DOMAIN DlmmDecoders = {}
    BY DammParts, DlmmParts
  <2> QED BY <2>1, MergeParts
<1> HIDE DEF B
<1>4. Joins(MeteoraDecoders, A, B)
  <2>1. DOMAIN A \cap DOMAIN B = {}
    BY <1>2, <1>3, PoolsRows, DbcRows, DammParts, DlmmParts DEF Joins
  <2> QED BY <1>1, <2>1, MergeParts
<1>5. /\ Part(PoolsDecoders, MeteoraDecoders)
      /\ Part(DbcDecoders, MeteoraDecoders)
      /\ Part(DammDecoders, MeteoraDecoders)
      /\ Part(DlmmDecoders, MeteoraDecoders)
  BY <1>2, <1>3, <1>4 DEF Joins, Part
<1> QED BY <1>2, <1>3, <1>4, <1>5, PoolsRows, DbcRows, DammParts, DlmmParts DEF Joins

(* The table of all decoders. *)
LEMMA DecodersParts ==
  /\ Part(PumpDecoders, Decoders)
  /\ Part(RaydiumDecoders, Decoders)
  /\ Part(OrcaDecoders, Decoders)
  /\ Part(MeteoraDecoders, Decoders)
<1> DEFINE A == Merge(PumpDecoders, RaydiumDecoders)
           B == Merge(OrcaDecoders, MeteoraDecoders)
<1>1. Decoders = Merge(A, B)
  BY DEF Decoders
<1>2. Joins(A, PumpDecoders, RaydiumDecoders)
  <2>1. DOMAIN PumpDecoders \cap DOMAIN RaydiumDecoders = {}
    BY PumpParts, RaydiumParts
  <2> QED BY <2>1, MergeParts
<1> HIDE DEF A
<1>3. Joins(B, OrcaDecoders, MeteoraDecoders)
  <2>1. DOMAIN OrcaDecoders \cap DOMAIN MeteoraDecoders = {}
    BY OrcaRows, MeteoraParts
  <2> QED BY <2>1, MergeParts
<1> HIDE DEF B
<1>4. Joins(Decoders, A, B)
  <2>1. DOMAIN A \cap DOMAIN B = {}
    BY <1>2, <1>3, PumpParts, RaydiumParts, OrcaRows, MeteoraParts DEF Joins
  <2> QED BY <1>1, <2>1, MergeParts
<1> QED BY <1>2, <1>3, <1>4 DEF Joins, Part

-----------------------------------------------------------------------------
(* The programs: their decoders of log lines, and their event types *)

(* Names for themselves. *)
LEMMA SameRange == ASSUME NEW S PROVE DOMAIN Same(S) = S /\ Range(Same(S)) = S /\ \A d \in S : Same(S)[d] = d
BY DEF Same, Range

(* The programs that have decoders. *)
LEMMA ProgramNames ==
  Programs = {"pumpfun", "pump_fees", "pumpswap", "launchlab", "clmm", "cpmm", "amm_v4", "orca",
              "pools", "damm_v2", "dbc", "dlmm"}
BY DEF Programs, ScopedDecoder

(* What the decoders of some log lines tell. *)
TypesIn(S) == UNION {Decoders[d].types : d \in S}

(* A part tells what it tells as part of the whole, *)
LEMMA PartTypes == ASSUME NEW f, Part(f, Decoders) PROVE TypesIn(DOMAIN f) = TypesOf(f)
BY DEF Part, TypesIn, TypesOf

(* two parts tell what either tells, *)
LEMMA JoinedTypes == ASSUME NEW S, NEW T PROVE TypesIn(S \cup T) = TypesIn(S) \cup TypesIn(T)
BY DEF TypesIn

(* and the upgrade events are a part. *)
LEMMA UpgradeParts == Part(PumpUpgradeDecoders, Decoders)
BY DecodersParts, PumpParts DEF Part

(* The decoders that lines of pump.fun have. *)
LEMMA PumpFunScope ==
  /\ ScopedDecoder["pumpfun"] = Same(DOMAIN PumpFunDecoders \cup PumpFunUpgrades)
  /\ Range(ScopedDecoder["pumpfun"]) = DOMAIN PumpFunDecoders \cup PumpFunUpgrades
<1>1. ScopedDecoder["pumpfun"] = Same(DOMAIN PumpFunDecoders \cup PumpFunUpgrades)
  BY DEF ScopedDecoder
<1> QED BY <1>1, SameRange

(* The event types of pump.fun. *)
LEMMA PumpFunFilterTypes ==
  FilterTypes("pumpfun") = {"PUMP_FUN_BUY", "PUMP_FUN_SELL", "PUMP_FUN_BUY_EXACT_SOL_IN", "PUMP_FUN_TRADE",
      "PUMP_FUN_CREATE", "PUMP_FUN_MIGRATE", "PUMP_FUN_MIGRATE_BONDING_CURVE_CREATOR"}
    \cup {"PUMP_FUN_POST_COMPLETE_BUY", "PUMP_FUN_SWEEP_BONDING_CURVE_FEE", "PUMP_FUN_COMPLETE"}
    \cup {"PUMP_FUN_CREATE_V2"}
<1>1. TypesIn(DOMAIN PumpFunDecoders) = TypesOf(PumpFunDecoders)
  <2>1. Part(PumpFunDecoders, Decoders)
    BY DecodersParts, PumpParts DEF Part
  <2> QED BY <2>1, PartTypes
<1>2. TypesOf(PumpFunDecoders) =
        {"PUMP_FUN_BUY", "PUMP_FUN_SELL", "PUMP_FUN_BUY_EXACT_SOL_IN", "PUMP_FUN_TRADE", "PUMP_FUN_CREATE",
         "PUMP_FUN_MIGRATE", "PUMP_FUN_MIGRATE_BONDING_CURVE_CREATOR"}
  BY PumpFunRows DEF Part, TypesOf, PumpFunTradeTypes
<1>3. TypesIn(PumpFunUpgrades) = {"PUMP_FUN_POST_COMPLETE_BUY", "PUMP_FUN_SWEEP_BONDING_CURVE_FEE",
         "PUMP_FUN_COMPLETE"}
  BY UpgradeParts, PumpUpgradeRows DEF PumpFunUpgrades, TypesIn, Part
<1>4. FilterTypes("pumpfun") = TypesIn(DOMAIN PumpFunDecoders \cup PumpFunUpgrades) \cup {"PUMP_FUN_CREATE_V2"}
  <2>1. FilterTypes("pumpfun") = TypesIn(Range(ScopedDecoder["pumpfun"])) \cup {"PUMP_FUN_CREATE_V2"}
    BY DEF FilterTypes, TypesIn
  <2> QED BY <2>1, PumpFunScope
<1>5. TypesIn(DOMAIN PumpFunDecoders \cup PumpFunUpgrades) = TypesIn(DOMAIN PumpFunDecoders) \cup TypesIn(PumpFunUpgrades)
  BY JoinedTypes
<1> QED BY <1>1, <1>2, <1>3, <1>4, <1>5

(* The decoders that lines of pump.fun fees have. *)
LEMMA PumpFeesScope ==
  /\ ScopedDecoder["pump_fees"] = Same(DOMAIN PumpFeesDecoders)
  /\ Range(ScopedDecoder["pump_fees"]) = DOMAIN PumpFeesDecoders
<1>1. ScopedDecoder["pump_fees"] = Same(DOMAIN PumpFeesDecoders)
  BY DEF ScopedDecoder
<1> QED BY <1>1, SameRange

(* The event types of pump.fun fees. *)
LEMMA PumpFeesFilterTypes ==
  FilterTypes("pump_fees") = {"PUMP_FEES_CREATE_FEE_SHARING_CONFIG", "PUMP_FEES_INITIALIZE_FEE_CONFIG",
      "PUMP_FEES_RESET_FEE_SHARING_CONFIG", "PUMP_FEES_REVOKE_FEE_SHARING_AUTHORITY",
      "PUMP_FEES_TRANSFER_FEE_SHARING_AUTHORITY", "PUMP_FEES_UPDATE_ADMIN", "PUMP_FEES_UPDATE_FEE_CONFIG",
      "PUMP_FEES_UPDATE_FEE_SHARES", "PUMP_FEES_UPSERT_FEE_TIERS"}
<1>1. TypesIn(DOMAIN PumpFeesDecoders) = TypesOf(PumpFeesDecoders)
  <2>1. Part(PumpFeesDecoders, Decoders)
    BY DecodersParts, PumpParts DEF Part
  <2> QED BY <2>1, PartTypes
<1>2. TypesOf(PumpFeesDecoders) =
        {"PUMP_FEES_CREATE_FEE_SHARING_CONFIG", "PUMP_FEES_INITIALIZE_FEE_CONFIG",
         "PUMP_FEES_RESET_FEE_SHARING_CONFIG", "PUMP_FEES_REVOKE_FEE_SHARING_AUTHORITY",
         "PUMP_FEES_TRANSFER_FEE_SHARING_AUTHORITY", "PUMP_FEES_UPDATE_ADMIN",
         "PUMP_FEES_UPDATE_FEE_CONFIG", "PUMP_FEES_UPDATE_FEE_SHARES", "PUMP_FEES_UPSERT_FEE_TIERS"}
  BY PumpFeesParts, FeeConfigRows, FeeSharingRows DEF Part, TypesOf
<1> QED BY <1>1, <1>2, PumpFeesScope DEF FilterTypes, TypesIn

(* The decoders that lines of PumpSwap have. *)
LEMMA PumpSwapScope ==
  /\ ScopedDecoder["pumpswap"] = Same(DOMAIN PumpSwapDecoders \cup {"sweep_pool_fee"})
  /\ Range(ScopedDecoder["pumpswap"]) = DOMAIN PumpSwapDecoders \cup {"sweep_pool_fee"}
<1>1. ScopedDecoder["pumpswap"] = Same(DOMAIN PumpSwapDecoders \cup {"sweep_pool_fee"})
  BY DEF ScopedDecoder
<1> QED BY <1>1, SameRange

(* The event types of PumpSwap. *)
LEMMA PumpSwapFilterTypes ==
  FilterTypes("pumpswap") = {"PUMP_SWAP_BUY", "PUMP_SWAP_SELL", "PUMP_SWAP_CREATE_POOL",
      "PUMP_SWAP_LIQUIDITY_ADDED", "PUMP_SWAP_LIQUIDITY_REMOVED"}
    \cup {"PUMP_SWAP_SWEEP_POOL_FEE"}
    \cup {"PUMP_SWAP_TRADE"}
<1>1. TypesIn(DOMAIN PumpSwapDecoders) = TypesOf(PumpSwapDecoders)
  <2>1. Part(PumpSwapDecoders, Decoders)
    BY DecodersParts, PumpParts DEF Part
  <2> QED BY <2>1, PartTypes
<1>2. TypesOf(PumpSwapDecoders) =
        {"PUMP_SWAP_BUY", "PUMP_SWAP_SELL", "PUMP_SWAP_CREATE_POOL", "PUMP_SWAP_LIQUIDITY_ADDED",
         "PUMP_SWAP_LIQUIDITY_REMOVED"}
  BY PumpSwapParts, SwapTradeRows, SwapPoolRows DEF Part, TypesOf
<1>3. TypesIn({"sweep_pool_fee"}) = {"PUMP_SWAP_SWEEP_POOL_FEE"}
  BY UpgradeParts, PumpUpgradeRows DEF PumpFunUpgrades, TypesIn, Part
<1>4. FilterTypes("pumpswap") = TypesIn(DOMAIN PumpSwapDecoders \cup {"sweep_pool_fee"}) \cup {"PUMP_SWAP_TRADE"}
  <2>1. FilterTypes("pumpswap") = TypesIn(Range(ScopedDecoder["pumpswap"])) \cup {"PUMP_SWAP_TRADE"}
    BY DEF FilterTypes, TypesIn
  <2> QED BY <2>1, PumpSwapScope
<1>5. TypesIn(DOMAIN PumpSwapDecoders \cup {"sweep_pool_fee"}) = TypesIn(DOMAIN PumpSwapDecoders) \cup TypesIn({"sweep_pool_fee"})
  BY JoinedTypes
<1> QED BY <1>1, <1>2, <1>3, <1>4, <1>5

(* The decoders that lines of LaunchLab have. *)
LEMMA LaunchlabScope ==
  /\ Range(ScopedDecoder["launchlab"]) = DOMAIN LaunchlabDecoders
BY LaunchlabRows DEF ScopedDecoder, Range, Merge, Same

(* The event types of LaunchLab. *)
LEMMA LaunchlabFilterTypes ==
  FilterTypes("launchlab") = {"RAYDIUM_LAUNCHLAB_TRADE", "RAYDIUM_LAUNCHLAB_POOL_CREATE"}
    \cup {"RAYDIUM_LAUNCHLAB_MIGRATE_AMM"}
<1>1. TypesIn(DOMAIN LaunchlabDecoders) = TypesOf(LaunchlabDecoders)
  <2>1. Part(LaunchlabDecoders, Decoders)
    BY DecodersParts, RaydiumParts DEF Part
  <2> QED BY <2>1, PartTypes
<1>2. TypesOf(LaunchlabDecoders) =
        {"RAYDIUM_LAUNCHLAB_TRADE", "RAYDIUM_LAUNCHLAB_POOL_CREATE"}
  BY LaunchlabRows DEF Part, TypesOf
<1> QED BY <1>1, <1>2, LaunchlabScope DEF FilterTypes, TypesIn

(* The decoders that lines of CLMM have. *)
LEMMA ClmmScope ==
  /\ ScopedDecoder["clmm"] = Same(DOMAIN ClmmDecoders)
  /\ Range(ScopedDecoder["clmm"]) = DOMAIN ClmmDecoders
<1>1. ScopedDecoder["clmm"] = Same(DOMAIN ClmmDecoders)
  BY DEF ScopedDecoder
<1> QED BY <1>1, SameRange

(* The event types of CLMM. *)
LEMMA ClmmFilterTypes ==
  FilterTypes("clmm") = {"RAYDIUM_CLMM_SWAP", "RAYDIUM_CLMM_INCREASE_LIQUIDITY",
      "RAYDIUM_CLMM_DECREASE_LIQUIDITY", "RAYDIUM_CLMM_CREATE_POOL", "RAYDIUM_CLMM_COLLECT_FEE",
      "RAYDIUM_CLMM_LIQUIDITY_CHANGE", "RAYDIUM_CLMM_CONFIG_CHANGE",
      "RAYDIUM_CLMM_CREATE_PERSONAL_POSITION", "RAYDIUM_CLMM_LIQUIDITY_CALCULATE",
      "RAYDIUM_CLMM_OPEN_LIMIT_ORDER", "RAYDIUM_CLMM_INCREASE_LIMIT_ORDER",
      "RAYDIUM_CLMM_DECREASE_LIMIT_ORDER", "RAYDIUM_CLMM_SETTLE_LIMIT_ORDER",
      "RAYDIUM_CLMM_UPDATE_REWARD_INFOS"}
    \cup {"RAYDIUM_CLMM_OPEN_POSITION", "RAYDIUM_CLMM_CLOSE_POSITION",
      "RAYDIUM_CLMM_OPEN_POSITION_WITH_TOKEN_EXT_NFT"}
<1>1. TypesIn(DOMAIN ClmmDecoders) = TypesOf(ClmmDecoders)
  <2>1. Part(ClmmDecoders, Decoders)
    BY DecodersParts, RaydiumParts DEF Part
  <2> QED BY <2>1, PartTypes
<1>2. TypesOf(ClmmDecoders) =
        {"RAYDIUM_CLMM_SWAP", "RAYDIUM_CLMM_INCREASE_LIQUIDITY", "RAYDIUM_CLMM_DECREASE_LIQUIDITY",
         "RAYDIUM_CLMM_CREATE_POOL", "RAYDIUM_CLMM_COLLECT_FEE", "RAYDIUM_CLMM_LIQUIDITY_CHANGE",
         "RAYDIUM_CLMM_CONFIG_CHANGE", "RAYDIUM_CLMM_CREATE_PERSONAL_POSITION",
         "RAYDIUM_CLMM_LIQUIDITY_CALCULATE", "RAYDIUM_CLMM_OPEN_LIMIT_ORDER",
         "RAYDIUM_CLMM_INCREASE_LIMIT_ORDER", "RAYDIUM_CLMM_DECREASE_LIMIT_ORDER",
         "RAYDIUM_CLMM_SETTLE_LIMIT_ORDER", "RAYDIUM_CLMM_UPDATE_REWARD_INFOS"}
  BY ClmmParts, ClmmLiquidityRows, ClmmPoolRows, ClmmPositionRows, ClmmOrderRows DEF Part, TypesOf
<1> QED BY <1>1, <1>2, ClmmScope DEF FilterTypes, TypesIn

(* The decoders that lines of CPMM have. *)
LEMMA CpmmScope ==
  /\ Range(ScopedDecoder["cpmm"]) = DOMAIN CpmmDecoders
  /\ DOMAIN ScopedDecoder["cpmm"] = {"clmm_swap"} \cup (DOMAIN CpmmDecoders \ {"cpmm_swap_event"})
<1>1. ScopedDecoder["cpmm"] =
        Merge([clmm_swap |-> "cpmm_swap_event"], Same(DOMAIN CpmmDecoders \ {"cpmm_swap_event"}))
  BY DEF ScopedDecoder
<1>2. DOMAIN Same(DOMAIN CpmmDecoders \ {"cpmm_swap_event"}) = DOMAIN CpmmDecoders \ {"cpmm_swap_event"}
  BY SameRange
<1>3. DOMAIN ScopedDecoder["cpmm"] = {"clmm_swap"} \cup (DOMAIN CpmmDecoders \ {"cpmm_swap_event"})
  BY <1>1, <1>2 DEF Merge
<1>4. ScopedDecoder["cpmm"]["clmm_swap"] = "cpmm_swap_event"
  BY <1>1 DEF Merge
<1>5. \A d \in DOMAIN CpmmDecoders \ {"cpmm_swap_event"} : ScopedDecoder["cpmm"][d] = d
  BY <1>1, CpmmRows DEF Merge, Same
<1> QED BY <1>3, <1>4, <1>5, CpmmRows DEF Range

(* The event types of CPMM. *)
LEMMA CpmmFilterTypes ==
  FilterTypes("cpmm") = {"RAYDIUM_CPMM_SWAP", "RAYDIUM_CPMM_INITIALIZE", "RAYDIUM_CPMM_DEPOSIT",
      "RAYDIUM_CPMM_WITHDRAW"}
<1>1. TypesIn(DOMAIN CpmmDecoders) = TypesOf(CpmmDecoders)
  <2>1. Part(CpmmDecoders, Decoders)
    BY DecodersParts, RaydiumParts DEF Part
  <2> QED BY <2>1, PartTypes
<1>2. TypesOf(CpmmDecoders) =
        {"RAYDIUM_CPMM_SWAP", "RAYDIUM_CPMM_INITIALIZE", "RAYDIUM_CPMM_DEPOSIT", "RAYDIUM_CPMM_WITHDRAW"}
  BY CpmmRows DEF Part, TypesOf
<1> QED BY <1>1, <1>2, CpmmScope DEF FilterTypes, TypesIn

(* The decoders that lines of AMM v4 have. *)
LEMMA AmmScope ==
  /\ ScopedDecoder["amm_v4"] = Same(DOMAIN AmmDecoders)
  /\ Range(ScopedDecoder["amm_v4"]) = DOMAIN AmmDecoders
<1>1. ScopedDecoder["amm_v4"] = Same(DOMAIN AmmDecoders)
  BY DEF ScopedDecoder
<1> QED BY <1>1, SameRange

(* The event types of AMM v4. *)
LEMMA AmmFilterTypes ==
  FilterTypes("amm_v4") = {"RAYDIUM_AMM_V4_SWAP", "RAYDIUM_AMM_V4_DEPOSIT", "RAYDIUM_AMM_V4_WITHDRAW",
      "RAYDIUM_AMM_V4_WITHDRAW_PNL", "RAYDIUM_AMM_V4_INITIALIZE2"}
<1>1. TypesIn(DOMAIN AmmDecoders) = TypesOf(AmmDecoders)
  <2>1. Part(AmmDecoders, Decoders)
    BY DecodersParts, RaydiumParts DEF Part
  <2> QED BY <2>1, PartTypes
<1>2. TypesOf(AmmDecoders) =
        {"RAYDIUM_AMM_V4_SWAP", "RAYDIUM_AMM_V4_DEPOSIT", "RAYDIUM_AMM_V4_WITHDRAW",
         "RAYDIUM_AMM_V4_WITHDRAW_PNL", "RAYDIUM_AMM_V4_INITIALIZE2"}
  BY AmmRows DEF Part, TypesOf
<1> QED BY <1>1, <1>2, AmmScope DEF FilterTypes, TypesIn

(* The decoders that lines of Orca have. *)
LEMMA OrcaScope ==
  /\ ScopedDecoder["orca"] = Same(DOMAIN OrcaDecoders)
  /\ Range(ScopedDecoder["orca"]) = DOMAIN OrcaDecoders
<1>1. ScopedDecoder["orca"] = Same(DOMAIN OrcaDecoders)
  BY DEF ScopedDecoder
<1> QED BY <1>1, SameRange

(* The event types of Orca. *)
LEMMA OrcaFilterTypes ==
  FilterTypes("orca") = {"ORCA_WHIRLPOOL_SWAP", "ORCA_WHIRLPOOL_LIQUIDITY_INCREASED",
      "ORCA_WHIRLPOOL_LIQUIDITY_DECREASED", "ORCA_WHIRLPOOL_POOL_INITIALIZED"}
<1>1. TypesIn(DOMAIN OrcaDecoders) = TypesOf(OrcaDecoders)
  <2>1. Part(OrcaDecoders, Decoders)
    BY DecodersParts DEF Part
  <2> QED BY <2>1, PartTypes
<1>2. TypesOf(OrcaDecoders) =
        {"ORCA_WHIRLPOOL_SWAP", "ORCA_WHIRLPOOL_LIQUIDITY_INCREASED", "ORCA_WHIRLPOOL_LIQUIDITY_DECREASED",
         "ORCA_WHIRLPOOL_POOL_INITIALIZED"}
  BY OrcaRows DEF Part, TypesOf
<1> QED BY <1>1, <1>2, OrcaScope DEF FilterTypes, TypesIn

(* The decoders that lines of the Meteora pools have. *)
LEMMA PoolsScope ==
  /\ ScopedDecoder["pools"] = Same(DOMAIN PoolsDecoders)
  /\ Range(ScopedDecoder["pools"]) = DOMAIN PoolsDecoders
<1>1. ScopedDecoder["pools"] = Same(DOMAIN PoolsDecoders)
  BY DEF ScopedDecoder
<1> QED BY <1>1, SameRange

(* The event types of the Meteora pools. *)
LEMMA PoolsFilterTypes ==
  FilterTypes("pools") = {"METEORA_POOLS_SWAP", "METEORA_POOLS_ADD_LIQUIDITY",
      "METEORA_POOLS_REMOVE_LIQUIDITY", "METEORA_POOLS_BOOTSTRAP_LIQUIDITY", "METEORA_POOLS_POOL_CREATED",
      "METEORA_POOLS_SET_POOL_FEES"}
<1>1. TypesIn(DOMAIN PoolsDecoders) = TypesOf(PoolsDecoders)
  <2>1. Part(PoolsDecoders, Decoders)
    BY DecodersParts, MeteoraParts DEF Part
  <2> QED BY <2>1, PartTypes
<1>2. TypesOf(PoolsDecoders) =
        {"METEORA_POOLS_SWAP", "METEORA_POOLS_ADD_LIQUIDITY", "METEORA_POOLS_REMOVE_LIQUIDITY",
         "METEORA_POOLS_BOOTSTRAP_LIQUIDITY", "METEORA_POOLS_POOL_CREATED", "METEORA_POOLS_SET_POOL_FEES"}
  BY PoolsRows DEF Part, TypesOf
<1> QED BY <1>1, <1>2, PoolsScope DEF FilterTypes, TypesIn

(* The decoders that lines of DAMM v2 have. *)
LEMMA DammScope ==
  /\ ScopedDecoder["damm_v2"] = Same(DOMAIN DammDecoders)
  /\ Range(ScopedDecoder["damm_v2"]) = DOMAIN DammDecoders
<1>1. ScopedDecoder["damm_v2"] = Same(DOMAIN DammDecoders)
  BY DEF ScopedDecoder
<1> QED BY <1>1, SameRange

(* The event types of DAMM v2. *)
LEMMA DammFilterTypes ==
  FilterTypes("damm_v2") = {"METEORA_DAMM_V2_SWAP", "METEORA_DAMM_V2_CREATE_POSITION",
      "METEORA_DAMM_V2_CLOSE_POSITION", "METEORA_DAMM_V2_ADD_LIQUIDITY",
      "METEORA_DAMM_V2_REMOVE_LIQUIDITY", "METEORA_DAMM_V2_INITIALIZE_POOL",
      "METEORA_DAMM_V2_CLAIM_POSITION_FEE", "METEORA_DAMM_V2_CLAIM_REWARD",
      "METEORA_DAMM_V2_UPDATE_DELEGATE_PERMISSION", "METEORA_DAMM_V2_WITHDRAW_DEAD_LIQUIDITY_REWARD",
      "METEORA_DAMM_V2_WITHDRAW_INELIGIBLE_REWARD", "METEORA_DAMM_V2_UPDATE_REWARD_FUNDER",
      "METEORA_DAMM_V2_UPDATE_REWARD_DURATION", "METEORA_DAMM_V2_INITIALIZE_REWARD",
      "METEORA_DAMM_V2_FUND_REWARD", "METEORA_DAMM_V2_CREATE_CONFIG",
      "METEORA_DAMM_V2_CREATE_DYNAMIC_CONFIG"}
<1>1. TypesIn(DOMAIN DammDecoders) = TypesOf(DammDecoders)
  <2>1. Part(DammDecoders, Decoders)
    BY DecodersParts, MeteoraParts DEF Part
  <2> QED BY <2>1, PartTypes
<1>2. TypesOf(DammDecoders) =
        {"METEORA_DAMM_V2_SWAP", "METEORA_DAMM_V2_CREATE_POSITION", "METEORA_DAMM_V2_CLOSE_POSITION",
         "METEORA_DAMM_V2_ADD_LIQUIDITY", "METEORA_DAMM_V2_REMOVE_LIQUIDITY",
         "METEORA_DAMM_V2_INITIALIZE_POOL", "METEORA_DAMM_V2_CLAIM_POSITION_FEE",
         "METEORA_DAMM_V2_CLAIM_REWARD", "METEORA_DAMM_V2_UPDATE_DELEGATE_PERMISSION",
         "METEORA_DAMM_V2_WITHDRAW_DEAD_LIQUIDITY_REWARD", "METEORA_DAMM_V2_WITHDRAW_INELIGIBLE_REWARD",
         "METEORA_DAMM_V2_UPDATE_REWARD_FUNDER", "METEORA_DAMM_V2_UPDATE_REWARD_DURATION",
         "METEORA_DAMM_V2_INITIALIZE_REWARD", "METEORA_DAMM_V2_FUND_REWARD",
         "METEORA_DAMM_V2_CREATE_CONFIG", "METEORA_DAMM_V2_CREATE_DYNAMIC_CONFIG"}
  BY DammParts, DammSwapRows, DammPositionRows, DammPoolRows, DammClaimRows, DammRewardRows,
     DammConfigRows DEF Part, TypesOf
<1> QED BY <1>1, <1>2, DammScope DEF FilterTypes, TypesIn

(* The decoders that lines of DBC have. *)
LEMMA DbcScope ==
  /\ Range(ScopedDecoder["dbc"]) = DOMAIN DbcDecoders
BY DbcRows DEF ScopedDecoder, Range, Merge, Same

(* The event types of DBC. *)
LEMMA DbcFilterTypes ==
  FilterTypes("dbc") = {"METEORA_DBC_SWAP", "METEORA_DBC_INITIALIZE_POOL", "METEORA_DBC_CURVE_COMPLETE"}
<1>1. TypesIn(DOMAIN DbcDecoders) = TypesOf(DbcDecoders)
  <2>1. Part(DbcDecoders, Decoders)
    BY DecodersParts, MeteoraParts DEF Part
  <2> QED BY <2>1, PartTypes
<1>2. TypesOf(DbcDecoders) =
        {"METEORA_DBC_SWAP", "METEORA_DBC_INITIALIZE_POOL", "METEORA_DBC_CURVE_COMPLETE"}
  BY DbcRows DEF Part, TypesOf
<1> QED BY <1>1, <1>2, DbcScope DEF FilterTypes, TypesIn

(* The decoders that lines of DLMM have. *)
LEMMA DlmmScope ==
  /\ Range(ScopedDecoder["dlmm"]) = DOMAIN DlmmDecoders
  /\ DOMAIN ScopedDecoder["dlmm"] =
       {"meteora_swap", "cpmm_swap_in", "meteora_add", "dlmm_legacy_add_liq", "meteora_remove",
        "dlmm_legacy_remove_liq", "dlmm_legacy_claim_fee"}
       \cup (DOMAIN DlmmDecoders \ {"dlmm_swap", "dlmm_add_liq", "dlmm_remove_liq"})
<1> DEFINE Aliases == [meteora_swap |-> "dlmm_swap", cpmm_swap_in |-> "dlmm_swap",
                       meteora_add |-> "dlmm_add_liq", dlmm_legacy_add_liq |-> "dlmm_add_liq",
                       meteora_remove |-> "dlmm_remove_liq", dlmm_legacy_remove_liq |-> "dlmm_remove_liq",
                       dlmm_legacy_claim_fee |-> "dlmm_claim_fee"]
           Rest == DOMAIN DlmmDecoders \ {"dlmm_swap", "dlmm_add_liq", "dlmm_remove_liq"}
<1>1. ScopedDecoder["dlmm"] = Merge(Aliases, Same(Rest))
  BY DEF ScopedDecoder
<1>2. DOMAIN Aliases = {"meteora_swap", "cpmm_swap_in", "meteora_add", "dlmm_legacy_add_liq",
                       "meteora_remove", "dlmm_legacy_remove_liq", "dlmm_legacy_claim_fee"}
  OBVIOUS
<1>3. \A d \in DOMAIN Aliases : ScopedDecoder["dlmm"][d] = Aliases[d] /\ d \in DOMAIN ScopedDecoder["dlmm"]
  BY <1>1 DEF Merge
<1>4. DOMAIN Aliases \cap Rest = {}
  BY <1>2, DlmmParts
<1> HIDE DEF Aliases, Rest
<1>5. DOMAIN Same(Rest) = Rest /\ \A d \in Rest : Same(Rest)[d] = d
  BY SameRange
<1>6. /\ DOMAIN ScopedDecoder["dlmm"] = DOMAIN Aliases \cup Rest
      /\ \A d \in Rest : ScopedDecoder["dlmm"][d] = d
  BY <1>1, <1>4, <1>5 DEF Merge
<1>7. \A d \in DOMAIN Aliases :
        Aliases[d] \in {"dlmm_swap", "dlmm_add_liq", "dlmm_remove_liq", "dlmm_claim_fee"}
  BY DEF Aliases
<1>8. /\ Aliases["meteora_swap"] = "dlmm_swap"
      /\ Aliases["meteora_add"] = "dlmm_add_liq"
      /\ Aliases["meteora_remove"] = "dlmm_remove_liq"
  BY DEF Aliases
<1>9. Range(ScopedDecoder["dlmm"]) = {Aliases[d] : d \in DOMAIN Aliases} \cup Rest
  BY <1>3, <1>6 DEF Range
<1>10. {"dlmm_swap", "dlmm_add_liq", "dlmm_remove_liq", "dlmm_claim_fee"} \subseteq DOMAIN DlmmDecoders
  BY DlmmParts
<1>11. Range(ScopedDecoder["dlmm"]) =
         {"dlmm_swap", "dlmm_add_liq", "dlmm_remove_liq", "dlmm_claim_fee"} \cup Rest
  BY <1>2, <1>7, <1>8, <1>9, <1>10 DEF Rest
<1>12. Range(ScopedDecoder["dlmm"]) = DOMAIN DlmmDecoders
  BY <1>10, <1>11 DEF Rest
<1> QED BY <1>2, <1>6, <1>12 DEF Rest

(* The event types of DLMM. *)
LEMMA DlmmFilterTypes ==
  FilterTypes("dlmm") = {"METEORA_DLMM_SWAP", "METEORA_DLMM_ADD_LIQUIDITY",
      "METEORA_DLMM_REMOVE_LIQUIDITY", "METEORA_DLMM_INITIALIZE_POOL", "METEORA_DLMM_INITIALIZE_BIN_ARRAY",
      "METEORA_DLMM_CREATE_POSITION", "METEORA_DLMM_CLOSE_POSITION", "METEORA_DLMM_CLAIM_REWARD",
      "METEORA_DLMM_CLAIM_FEE"}
<1>1. TypesIn(DOMAIN DlmmDecoders) = TypesOf(DlmmDecoders)
  <2>1. Part(DlmmDecoders, Decoders)
    BY DecodersParts, MeteoraParts DEF Part
  <2> QED BY <2>1, PartTypes
<1>2. TypesOf(DlmmDecoders) =
        {"METEORA_DLMM_SWAP", "METEORA_DLMM_ADD_LIQUIDITY", "METEORA_DLMM_REMOVE_LIQUIDITY",
         "METEORA_DLMM_INITIALIZE_POOL", "METEORA_DLMM_INITIALIZE_BIN_ARRAY",
         "METEORA_DLMM_CREATE_POSITION", "METEORA_DLMM_CLOSE_POSITION", "METEORA_DLMM_CLAIM_REWARD",
         "METEORA_DLMM_CLAIM_FEE"}
  BY DlmmParts, DlmmSwapRows, DlmmPoolRows, DlmmPositionRows DEF Part, TypesOf
<1> QED BY <1>1, <1>2, DlmmScope DEF FilterTypes, TypesIn

-----------------------------------------------------------------------------
(* The types that discriminators announce *)

Tells(T, S) == \A d \in S : Decoders[d].types = {T[d]}

(* What the upgrade events are announced as is their only type. *)
LEMMA UpgradeTypesNamed ==
  /\ DOMAIN UpgradeTypes = {"post_complete_buy", "sweep_bonding_curve_fee", "complete", "sweep_pool_fee"}
  /\ Tells(UpgradeTypes, DOMAIN UpgradeTypes)
<1>1. ASSUME NEW t PROVE (CHOOSE u \in {t} : TRUE) = t
  OBVIOUS
<1>2. DOMAIN UpgradeTypes = DOMAIN PumpUpgradeDecoders
  BY DEF UpgradeTypes, Upgrades
<1>3. \A d \in DOMAIN PumpUpgradeDecoders : Decoders[d] = PumpUpgradeDecoders[d]
  BY DecodersParts, PumpParts DEF Part
<1>4. ASSUME NEW d \in DOMAIN PumpUpgradeDecoders
      PROVE  PumpUpgradeDecoders[d].types = {UpgradeTypes[d]}
  <2>1. \E t : PumpUpgradeDecoders[d].types = {t}
    BY PumpUpgradeRows
  <2>2. UpgradeTypes[d] = CHOOSE t \in PumpUpgradeDecoders[d].types : TRUE
    BY DEF UpgradeTypes, Upgrades
  <2> QED BY <1>1, <2>1, <2>2
<1> QED BY <1>2, <1>3, <1>4, PumpUpgradeRows DEF Tells

(* A row of the announced types is the only type of the decoder of that name: but for a *)
(* trade.                                                                               *)
LEMMA PumpTold == Tells(PumpTypes, DOMAIN PumpTypes \ {"trade"})
<1>1. \A d \in DOMAIN PumpTypes \ {"trade"} : PumpDecoders[d].types = {PumpTypes[d]}
  BY PumpParts, PumpFunRows, PumpFeesParts, FeeConfigRows, FeeSharingRows, PumpSwapParts, SwapTradeRows,
     SwapPoolRows DEF Part, PumpTypes
<1>2. DOMAIN PumpTypes \subseteq DOMAIN PumpDecoders
  BY PumpParts DEF PumpTypes
<1> QED BY <1>1, <1>2, DecodersParts DEF Part, Tells

(* The same of Raydium. *)
LEMMA RaydiumTold == Tells(RaydiumTypes, DOMAIN RaydiumTypes)
<1>1. \A d \in DOMAIN RaydiumTypes : RaydiumDecoders[d].types = {RaydiumTypes[d]}
  BY RaydiumParts, ClmmParts, ClmmLiquidityRows, ClmmPoolRows, ClmmPositionRows, ClmmOrderRows,
     CpmmRows, AmmRows, LaunchlabRows DEF Part, RaydiumTypes
<1>2. DOMAIN RaydiumTypes \subseteq DOMAIN RaydiumDecoders
  BY RaydiumParts DEF RaydiumTypes
<1> QED BY <1>1, <1>2, DecodersParts DEF Part, Tells

(* The same of Orca and the Meteora pools. *)
LEMMA OrcaPoolsTold == Tells(OrcaPoolsTypes, DOMAIN OrcaPoolsTypes)
<1>1. \A d \in DOMAIN PoolsDecoders : Decoders[d] = PoolsDecoders[d]
  BY DecodersParts, MeteoraParts DEF Part
<1>2. \A d \in DOMAIN OrcaDecoders : Decoders[d] = OrcaDecoders[d]
  BY DecodersParts DEF Part
<1> QED BY <1>1, <1>2, PoolsRows, OrcaRows DEF OrcaPoolsTypes, Tells

(* The same of DAMM v2, but for the change of a liquidity, which may go either way. *)
LEMMA DammTold == Tells(DammTypes, DOMAIN DammTypes \ {"damm_liquidity_change"})
<1>1. \A d \in DOMAIN DammDecoders : Decoders[d] = DammDecoders[d]
  BY DecodersParts, MeteoraParts DEF Part
<1>2. \A d \in DOMAIN DammTypes \ {"damm_liquidity_change"} : DammDecoders[d].types = {DammTypes[d]}
  BY DammParts, DammSwapRows, DammPositionRows, DammPoolRows, DammClaimRows, DammRewardRows,
     DammConfigRows DEF Part, DammTypes
<1>3. DOMAIN DammTypes \subseteq DOMAIN DammDecoders
  BY DammParts DEF DammTypes
<1> QED BY <1>1, <1>2, <1>3 DEF Tells

(* The same of DLMM, but for the two names that lines of the pools have too. *)
LEMMA DlmmTold == Tells(DlmmTypes, DOMAIN DlmmTypes \ {"meteora_add", "meteora_remove"})
<1>1. \A d \in DOMAIN DlmmDecoders : Decoders[d] = DlmmDecoders[d]
  BY DecodersParts, MeteoraParts DEF Part
<1>2. \A d \in DOMAIN DlmmTypes \ {"meteora_add", "meteora_remove"} : DlmmDecoders[d].types = {DlmmTypes[d]} /\ d \in DOMAIN DlmmDecoders
  BY DlmmParts, DlmmSwapRows, DlmmPoolRows, DlmmPositionRows DEF Part, DlmmTypes
<1> QED BY <1>1, <1>2 DEF Tells

Shared == {"trade", "meteora_add", "meteora_remove", "damm_liquidity_change"}

(* A table of some rows of another. *)
LEMMA RestrictEntries ==
  ASSUME NEW f, NEW S
  PROVE  DOMAIN Restrict(f, S) = S /\ \A d \in S : Restrict(f, S)[d] = f[d]
BY DEF Restrict

(* Of a key in both, a merged table has the row of the first. *)
LEMMA MergeEntries ==
  ASSUME NEW f, NEW g
  PROVE  /\ DOMAIN Merge(f, g) = DOMAIN f \cup DOMAIN g
         /\ \A d \in DOMAIN f : Merge(f, g)[d] = f[d]
         /\ \A d \in DOMAIN g : d \notin DOMAIN f => Merge(f, g)[d] = g[d]
BY DEF Merge

(* Merging tables that are right leaves them right. *)
LEMMA MergeTells ==
  ASSUME NEW f, NEW g, NEW E, Tells(f, DOMAIN f \ E), Tells(g, DOMAIN g \ E)
  PROVE  Tells(Merge(f, g), DOMAIN Merge(f, g) \ E)
<1> SUFFICES ASSUME NEW d \in DOMAIN Merge(f, g) \ E
             PROVE  Decoders[d].types = {Merge(f, g)[d]}
  BY DEF Tells
<1>1. DOMAIN Merge(f, g) = DOMAIN f \cup DOMAIN g
  BY MergeEntries
<1>2. CASE d \in DOMAIN f
  <2>1. Merge(f, g)[d] = f[d]
    BY <1>2 DEF Merge
  <2> QED BY <1>2, <2>1 DEF Tells
<1>3. CASE d \notin DOMAIN f
  <2>1. d \in DOMAIN g
    BY <1>1, <1>3
  <2>2. Merge(f, g)[d] = g[d]
    BY <1>3, <2>1 DEF Merge
  <2> QED BY <2>1, <2>2 DEF Tells
<1> QED BY <1>2, <1>3

(* Without a program, what a discriminator announces is all that its decoder tells: but *)
(* for the discriminators that programs share.                                          *)
LEMMA UnscopedTold ==
  /\ Tells(LogTypes, DOMAIN LogTypes \ Shared)
  /\ Tells(Merge(UpgradeTypes, LogTypes), DOMAIN Merge(UpgradeTypes, LogTypes) \ Shared)
<1>1. /\ Tells(DlmmTypes, DOMAIN DlmmTypes \ Shared)
      /\ Tells(DammTypes, DOMAIN DammTypes \ Shared)
      /\ Tells(OrcaPoolsTypes, DOMAIN OrcaPoolsTypes \ Shared)
      /\ Tells(RaydiumTypes, DOMAIN RaydiumTypes \ Shared)
      /\ Tells(PumpTypes, DOMAIN PumpTypes \ Shared)
      /\ Tells(UpgradeTypes, DOMAIN UpgradeTypes \ Shared)
  BY UpgradeTypesNamed, PumpTold, RaydiumTold, OrcaPoolsTold, DammTold, DlmmTold DEF Tells, Shared
<1> DEFINE A == Merge(DlmmTypes, DammTypes)
           B == Merge(RaydiumTypes, PumpTypes)
           C == Merge(OrcaPoolsTypes, B)
<1>2. Tells(A, DOMAIN A \ Shared)
  BY <1>1, MergeTells
<1>3. Tells(B, DOMAIN B \ Shared)
  BY <1>1, MergeTells
<1> HIDE DEF A, B
<1>4. Tells(C, DOMAIN C \ Shared)
  BY <1>1, <1>3, MergeTells
<1> HIDE DEF C
<1>5. Tells(Merge(A, C), DOMAIN Merge(A, C) \ Shared)
  BY <1>2, <1>4, MergeTells
<1>6. LogTypes = Merge(A, C)
  BY DEF LogTypes, A, B, C
<1>7. Tells(LogTypes, DOMAIN LogTypes \ Shared)
  BY <1>5, <1>6
<1> QED BY <1>1, <1>7, MergeTells

AnnouncedOf(p) ==
  \A d \in DOMAIN ScopedDecoder[p] \cap DOMAIN ScopedTypes[p] :
    \/ p = "pumpfun" /\ d = "trade"
    \/ d = "damm_liquidity_change"
    \/ Decoders[ScopedDecoder[p][d]].types = {ScopedTypes[p][d]}

(* What a line of pump.fun announces is what its decoder tells. *)
LEMMA PumpFunAnnounced == AnnouncedOf("pumpfun")
<1> DEFINE F == Restrict(PumpTypes, DOMAIN PumpFunDecoders)
           G == Restrict(UpgradeTypes, PumpFunUpgrades)
<1>1. ScopedTypes["pumpfun"] = Merge(F, G)
  BY DEF ScopedTypes
<1>2. \A d \in DOMAIN ScopedDecoder["pumpfun"] : ScopedDecoder["pumpfun"][d] = d
  BY PumpFunScope, SameRange
<1>3. DOMAIN PumpFunDecoders \subseteq DOMAIN PumpTypes /\ PumpFunUpgrades \subseteq DOMAIN UpgradeTypes
  BY PumpFunRows, UpgradeTypesNamed DEF PumpTypes, PumpFunUpgrades
<1>4. \A d \in DOMAIN PumpFunDecoders \ {"trade"} : Decoders[d].types = {PumpTypes[d]}
  BY <1>3, PumpTold DEF Tells
<1>5. \A d \in PumpFunUpgrades : Decoders[d].types = {UpgradeTypes[d]}
  BY <1>3, UpgradeTypesNamed DEF Tells
<1>6. /\ DOMAIN F = DOMAIN PumpFunDecoders
      /\ \A d \in DOMAIN PumpFunDecoders : F[d] = PumpTypes[d]
      /\ DOMAIN G = PumpFunUpgrades
      /\ \A d \in PumpFunUpgrades : G[d] = UpgradeTypes[d]
  BY RestrictEntries
<1> HIDE DEF F, G
<1>7. Tells(F, DOMAIN F \ {"trade"}) /\ Tells(G, DOMAIN G \ {"trade"})
  BY <1>4, <1>5, <1>6 DEF Tells
<1>8. Tells(Merge(F, G), DOMAIN Merge(F, G) \ {"trade"})
  BY <1>7, MergeTells
<1>9. \A d \in DOMAIN ScopedTypes["pumpfun"] \ {"trade"} : Decoders[d].types = {ScopedTypes["pumpfun"][d]}
  BY <1>1, <1>8 DEF Tells
<1> QED BY <1>2, <1>9 DEF AnnouncedOf

(* What a line of PumpSwap announces is what its decoder tells. *)
LEMMA PumpSwapAnnounced == AnnouncedOf("pumpswap")
<1> DEFINE F == Restrict(PumpTypes, DOMAIN PumpSwapDecoders)
           G == Restrict(UpgradeTypes, {"sweep_pool_fee"})
<1>1. ScopedTypes["pumpswap"] = Merge(F, G)
  BY DEF ScopedTypes
<1>2. \A d \in DOMAIN ScopedDecoder["pumpswap"] : ScopedDecoder["pumpswap"][d] = d
  BY PumpSwapScope, SameRange
<1>3. DOMAIN PumpSwapDecoders \subseteq DOMAIN PumpTypes /\ {"sweep_pool_fee"} \subseteq DOMAIN UpgradeTypes
  BY PumpSwapParts, UpgradeTypesNamed DEF PumpTypes, PumpFunUpgrades
<1>4. \A d \in DOMAIN PumpSwapDecoders \ {"trade"} : Decoders[d].types = {PumpTypes[d]}
  BY <1>3, PumpTold DEF Tells
<1>5. \A d \in {"sweep_pool_fee"} : Decoders[d].types = {UpgradeTypes[d]}
  BY <1>3, UpgradeTypesNamed DEF Tells
<1>6. /\ DOMAIN F = DOMAIN PumpSwapDecoders
      /\ \A d \in DOMAIN PumpSwapDecoders : F[d] = PumpTypes[d]
      /\ DOMAIN G = {"sweep_pool_fee"}
      /\ \A d \in {"sweep_pool_fee"} : G[d] = UpgradeTypes[d]
  BY RestrictEntries
<1> HIDE DEF F, G
<1>7. Tells(F, DOMAIN F \ {"trade"}) /\ Tells(G, DOMAIN G \ {"trade"})
  BY <1>4, <1>5, <1>6 DEF Tells
<1>8. Tells(Merge(F, G), DOMAIN Merge(F, G) \ {"trade"})
  BY <1>7, MergeTells
<1>9. \A d \in DOMAIN ScopedTypes["pumpswap"] \ {"trade"} : Decoders[d].types = {ScopedTypes["pumpswap"][d]}
  BY <1>1, <1>8 DEF Tells
<1>10. "trade" \notin DOMAIN ScopedTypes["pumpswap"]
  <2>1. DOMAIN ScopedTypes["pumpswap"] = DOMAIN F \cup DOMAIN G
    BY <1>1, MergeEntries
  <2> QED BY <1>6, <2>1, PumpSwapParts
<1> QED BY <1>2, <1>9, <1>10 DEF AnnouncedOf

(* What a line of CLMM announces is what its decoder tells. *)
LEMMA ClmmAnnounced == AnnouncedOf("clmm")
<1>1. ScopedTypes["clmm"] = Restrict(RaydiumTypes, DOMAIN ClmmDecoders)
  BY DEF ScopedTypes
<1>2. \A d \in DOMAIN ScopedDecoder["clmm"] : ScopedDecoder["clmm"][d] = d
  BY ClmmScope, SameRange
<1>3. DOMAIN ClmmDecoders \subseteq DOMAIN RaydiumTypes \ {"trade"}
  BY ClmmParts DEF RaydiumTypes
<1> QED BY <1>1, <1>2, <1>3, RaydiumTold, RestrictEntries DEF AnnouncedOf, Tells

(* What a line of Orca announces is what its decoder tells. *)
LEMMA OrcaAnnounced == AnnouncedOf("orca")
<1>1. ScopedTypes["orca"] = Restrict(OrcaPoolsTypes, DOMAIN OrcaDecoders)
  BY DEF ScopedTypes
<1>2. \A d \in DOMAIN ScopedDecoder["orca"] : ScopedDecoder["orca"][d] = d
  BY OrcaScope, SameRange
<1>3. DOMAIN OrcaDecoders \subseteq DOMAIN OrcaPoolsTypes \ {"trade"}
  BY OrcaRows DEF OrcaPoolsTypes
<1> QED BY <1>1, <1>2, <1>3, OrcaPoolsTold, RestrictEntries DEF AnnouncedOf, Tells

(* What a line of the Meteora pools announces is what its decoder tells. *)
LEMMA PoolsAnnounced == AnnouncedOf("pools")
<1>1. ScopedTypes["pools"] = Restrict(OrcaPoolsTypes, DOMAIN PoolsDecoders)
  BY DEF ScopedTypes
<1>2. \A d \in DOMAIN ScopedDecoder["pools"] : ScopedDecoder["pools"][d] = d
  BY PoolsScope, SameRange
<1>3. DOMAIN PoolsDecoders \subseteq DOMAIN OrcaPoolsTypes \ {"trade"}
  BY PoolsRows DEF OrcaPoolsTypes
<1> QED BY <1>1, <1>2, <1>3, OrcaPoolsTold, RestrictEntries DEF AnnouncedOf, Tells

(* What a line of pump.fun fees announces is what its decoder tells. *)
LEMMA PumpFeesAnnounced == AnnouncedOf("pump_fees")
<1>1. ScopedTypes["pump_fees"] = Restrict(PumpTypes, DOMAIN PumpFeesDecoders)
  BY DEF ScopedTypes
<1>2. \A d \in DOMAIN ScopedDecoder["pump_fees"] : ScopedDecoder["pump_fees"][d] = d
  BY PumpFeesScope, SameRange
<1>3. DOMAIN PumpFeesDecoders \subseteq DOMAIN PumpTypes \ {"trade"}
  BY PumpFeesParts DEF PumpTypes
<1> QED BY <1>1, <1>2, <1>3, PumpTold, RestrictEntries DEF AnnouncedOf, Tells

(* What a line of DBC announces is what its decoder tells. *)
LEMMA DbcAnnounced == AnnouncedOf("dbc")
<1>1. \A d \in DOMAIN DbcDecoders : Decoders[d] = DbcDecoders[d]
  BY DecodersParts, MeteoraParts DEF Part
<1> QED BY <1>1, DbcRows DEF AnnouncedOf, ScopedTypes, ScopedDecoder

(* What a line of LaunchLab announces is what its decoder tells. *)
LEMMA LaunchlabAnnounced == AnnouncedOf("launchlab")
<1>1. \A d \in DOMAIN LaunchlabDecoders : Decoders[d] = LaunchlabDecoders[d]
  BY DecodersParts, RaydiumParts DEF Part
<1> QED BY <1>1, LaunchlabRows DEF AnnouncedOf, ScopedTypes, ScopedDecoder

(* What a line of DAMM v2 announces is what its decoder tells. *)
LEMMA DammAnnounced == AnnouncedOf("damm_v2")
<1>1. \A d \in DOMAIN ScopedDecoder["damm_v2"] : ScopedDecoder["damm_v2"][d] = d
  BY DammScope, SameRange
<1>2. ScopedTypes["damm_v2"] = DammTypes
  BY DEF ScopedTypes
<1> QED BY <1>1, <1>2, DammTold DEF AnnouncedOf, Tells

(* What a line of AMM v4 announces is what its decoder tells. *)
LEMMA AmmAnnounced == AnnouncedOf("amm_v4")
<1> DEFINE F == [amm_ray_log |-> "RAYDIUM_AMM_V4_SWAP"]
           S == DOMAIN AmmDecoders \ {"amm_ray_log"}
           G == Restrict(RaydiumTypes, S)
<1>1. ScopedTypes["amm_v4"] = Merge(F, G)
  BY DEF ScopedTypes
<1>2. \A d \in DOMAIN ScopedDecoder["amm_v4"] : ScopedDecoder["amm_v4"][d] = d
  BY AmmScope, SameRange
<1>3. S \subseteq DOMAIN RaydiumTypes
  BY AmmRows DEF RaydiumTypes
<1>4. Decoders["amm_ray_log"].types = {"RAYDIUM_AMM_V4_SWAP"}
  BY DecodersParts, RaydiumParts, AmmRows DEF Part
<1>5. Tells(F, DOMAIN F \ {})
  BY <1>4 DEF Tells
<1>6. Tells(G, DOMAIN G \ {})
  BY <1>3, RaydiumTold, RestrictEntries DEF Tells
<1> HIDE DEF F, G
<1>7. Tells(Merge(F, G), DOMAIN Merge(F, G) \ {})
  BY <1>5, <1>6, MergeTells
<1> QED BY <1>1, <1>2, <1>7 DEF AnnouncedOf, Tells

(* What a line of CPMM announces is what its decoder tells. *)
LEMMA CpmmAnnounced == AnnouncedOf("cpmm")
<1> DEFINE D == [clmm_swap |-> "cpmm_swap_event"]
           S == DOMAIN CpmmDecoders \ {"cpmm_swap_event"}
           F == [clmm_swap |-> "RAYDIUM_CPMM_SWAP"]
           G == Restrict(RaydiumTypes, S)
<1>1. ScopedTypes["cpmm"] = Merge(F, G) /\ ScopedDecoder["cpmm"] = Merge(D, Same(S))
  BY DEF ScopedTypes, ScopedDecoder
<1>2. S \subseteq DOMAIN RaydiumTypes /\ "clmm_swap" \notin S
  BY CpmmRows DEF RaydiumTypes
<1>3. Decoders["cpmm_swap_event"].types = {"RAYDIUM_CPMM_SWAP"}
  BY DecodersParts, RaydiumParts, CpmmRows DEF Part
<1>4. DOMAIN D = {"clmm_swap"} /\ D["clmm_swap"] = "cpmm_swap_event"
  OBVIOUS
<1>5. DOMAIN F = {"clmm_swap"} /\ F["clmm_swap"] = "RAYDIUM_CPMM_SWAP"
  OBVIOUS
<1>6. DOMAIN G = S /\ \A d \in S : G[d] = RaydiumTypes[d]
  BY RestrictEntries
<1>7. DOMAIN Same(S) = S /\ \A d \in S : Same(S)[d] = d
  BY SameRange
<1> HIDE DEF D, F, G, S
<1>8. ScopedDecoder["cpmm"]["clmm_swap"] = "cpmm_swap_event" /\ \A d \in S : ScopedDecoder["cpmm"][d] = d
  BY <1>1, <1>2, <1>4, <1>7 DEF Merge
<1>9. ScopedTypes["cpmm"]["clmm_swap"] = "RAYDIUM_CPMM_SWAP" /\ \A d \in S : ScopedTypes["cpmm"][d] = RaydiumTypes[d]
  BY <1>1, <1>2, <1>5, <1>6 DEF Merge
<1>10. DOMAIN ScopedTypes["cpmm"] = {"clmm_swap"} \cup S
  BY <1>1, <1>5, <1>6 DEF Merge
<1>11. \A d \in S : Decoders[d].types = {RaydiumTypes[d]}
  BY <1>2, RaydiumTold DEF Tells
<1> QED BY <1>3, <1>8, <1>9, <1>10, <1>11 DEF AnnouncedOf

(* What a line of DLMM announces is what its decoder tells. *)
LEMMA DlmmAnnounced == AnnouncedOf("dlmm")
<1> DEFINE Aliases == [meteora_swap |-> "dlmm_swap", cpmm_swap_in |-> "dlmm_swap",
                       meteora_add |-> "dlmm_add_liq", dlmm_legacy_add_liq |-> "dlmm_add_liq",
                       meteora_remove |-> "dlmm_remove_liq", dlmm_legacy_remove_liq |-> "dlmm_remove_liq",
                       dlmm_legacy_claim_fee |-> "dlmm_claim_fee"]
           Rest == DOMAIN DlmmDecoders \ {"dlmm_swap", "dlmm_add_liq", "dlmm_remove_liq"}
           G == [meteora_swap |-> "METEORA_DLMM_SWAP", dlmm_swap2 |-> "METEORA_DLMM_SWAP",
                 cpmm_swap_in |-> "METEORA_DLMM_SWAP",
                 dlmm_legacy_add_liq |-> "METEORA_DLMM_ADD_LIQUIDITY",
                 dlmm_legacy_remove_liq |-> "METEORA_DLMM_REMOVE_LIQUIDITY",
                 dlmm_legacy_init_pool |-> "METEORA_DLMM_INITIALIZE_POOL",
                 dlmm_legacy_create_pos |-> "METEORA_DLMM_CREATE_POSITION",
                 dlmm_legacy_close_pos |-> "METEORA_DLMM_CLOSE_POSITION",
                 dlmm_claim_fee2 |-> "METEORA_DLMM_CLAIM_FEE", dlmm_legacy_claim_fee |-> "METEORA_DLMM_CLAIM_FEE"]
<1>1. ScopedDecoder["dlmm"] = Merge(Aliases, Same(Rest)) /\ ScopedTypes["dlmm"] = Merge(DlmmTypes, G)
  BY DEF ScopedDecoder, ScopedTypes
<1>2. \A d \in DOMAIN DlmmDecoders : Decoders[d] = DlmmDecoders[d]
  BY DecodersParts, MeteoraParts DEF Part
<1>3. DOMAIN Aliases \cap Rest = {}
  BY DlmmParts
<1>4. \A d \in DOMAIN DlmmTypes \ {"meteora_add", "meteora_remove"} :
        d \notin DOMAIN Aliases /\ Decoders[d].types = {DlmmTypes[d]}
  BY DlmmTold DEF Tells, DlmmTypes
<1>5. \A d \in DOMAIN DlmmTypes \cap {"meteora_add", "meteora_remove"} :
        d \in DOMAIN Aliases /\ Decoders[Aliases[d]].types = {DlmmTypes[d]}
  BY <1>2, DlmmParts, DlmmPoolRows DEF DlmmTypes, Part
<1>6. \A d \in (DOMAIN G \ DOMAIN DlmmTypes) \cap DOMAIN Aliases : Decoders[Aliases[d]].types = {G[d]}
  BY <1>2, DlmmParts, DlmmPoolRows, DlmmSwapRows, DlmmPositionRows DEF Part
<1>7. \A d \in (DOMAIN G \ DOMAIN DlmmTypes) \ DOMAIN Aliases : Decoders[d].types = {G[d]}
  BY <1>2, DlmmParts, DlmmPoolRows, DlmmSwapRows, DlmmPositionRows DEF Part
<1> HIDE DEF Aliases, Rest, G
<1>8. DOMAIN Same(Rest) = Rest /\ \A d \in Rest : Same(Rest)[d] = d
  BY SameRange
<1>9. /\ DOMAIN ScopedDecoder["dlmm"] = DOMAIN Aliases \cup Rest
      /\ \A d \in DOMAIN Aliases : ScopedDecoder["dlmm"][d] = Aliases[d]
      /\ \A d \in Rest : ScopedDecoder["dlmm"][d] = d
  BY <1>1, <1>3, <1>8 DEF Merge
<1>10. /\ DOMAIN ScopedTypes["dlmm"] = DOMAIN DlmmTypes \cup DOMAIN G
       /\ \A d \in DOMAIN DlmmTypes : ScopedTypes["dlmm"][d] = DlmmTypes[d]
       /\ \A d \in DOMAIN G : d \notin DOMAIN DlmmTypes => ScopedTypes["dlmm"][d] = G[d]
  BY <1>1 DEF Merge
<1> SUFFICES ASSUME NEW d \in DOMAIN ScopedDecoder["dlmm"] \cap DOMAIN ScopedTypes["dlmm"]
             PROVE  Decoders[ScopedDecoder["dlmm"][d]].types = {ScopedTypes["dlmm"][d]}
  BY DEF AnnouncedOf
<1>11. CASE d \in DOMAIN DlmmTypes
  <2>1. CASE d \in {"meteora_add", "meteora_remove"}
    BY <1>11, <2>1, <1>5, <1>9, <1>10
  <2>2. CASE d \notin {"meteora_add", "meteora_remove"}
    BY <1>11, <2>2, <1>4, <1>9, <1>10
  <2> QED BY <2>1, <2>2
<1>12. CASE d \notin DOMAIN DlmmTypes
  BY <1>12, <1>6, <1>7, <1>9, <1>10
<1> QED BY <1>11, <1>12

(* The same of every program. *)
LEMMA AllAnnounced == \A p \in Programs : AnnouncedOf(p)
BY ProgramNames, PumpFunAnnounced, PumpFeesAnnounced, DbcAnnounced, LaunchlabAnnounced,
   PumpSwapAnnounced, ClmmAnnounced, OrcaAnnounced, PoolsAnnounced, DammAnnounced, AmmAnnounced,
   CpmmAnnounced, DlmmAnnounced

-----------------------------------------------------------------------------
(* Instructions *)

(* The types of a program have the families of the filters whole, so asking a list for *)
(* the exact types of the program is enough.                                           *)
LEMMA FilterTypesClosed == \A p \in Programs : Closed(FilterTypes(p)) /\ FilterTypes(p) # {}
<1> USE DEF Closed, Meet, TradeFamily, BuyFamily, CreateFamily
<1>1. Closed(FilterTypes("pumpfun")) /\ FilterTypes("pumpfun") # {}
  BY PumpFunFilterTypes
<1>2. Closed(FilterTypes("pump_fees")) /\ FilterTypes("pump_fees") # {}
  BY PumpFeesFilterTypes
<1>3. Closed(FilterTypes("pumpswap")) /\ FilterTypes("pumpswap") # {}
  BY PumpSwapFilterTypes
<1>4. Closed(FilterTypes("launchlab")) /\ FilterTypes("launchlab") # {}
  BY LaunchlabFilterTypes
<1>5. Closed(FilterTypes("clmm")) /\ FilterTypes("clmm") # {}
  BY ClmmFilterTypes
<1>6. Closed(FilterTypes("cpmm")) /\ FilterTypes("cpmm") # {}
  BY CpmmFilterTypes
<1>7. Closed(FilterTypes("amm_v4")) /\ FilterTypes("amm_v4") # {}
  BY AmmFilterTypes
<1>8. Closed(FilterTypes("orca")) /\ FilterTypes("orca") # {}
  BY OrcaFilterTypes
<1>9. Closed(FilterTypes("pools")) /\ FilterTypes("pools") # {}
  BY PoolsFilterTypes
<1>10. Closed(FilterTypes("damm_v2")) /\ FilterTypes("damm_v2") # {}
  BY DammFilterTypes
<1>11. Closed(FilterTypes("dbc")) /\ FilterTypes("dbc") # {}
  BY DbcFilterTypes
<1>12. Closed(FilterTypes("dlmm")) /\ FilterTypes("dlmm") # {}
  BY DlmmFilterTypes
<1> HIDE DEF Closed, Meet, TradeFamily, BuyFamily, CreateFamily
<1> QED BY ProgramNames, <1>1, <1>2, <1>3, <1>4, <1>5, <1>6, <1>7, <1>8, <1>9, <1>10, <1>11, <1>12

OfProgram(X, p) == \A d \in DOMAIN X : X[d].types \subseteq FilterTypes(p)

(* Instructions of pump.fun tell types of the program. *)
LEMMA PumpFunCalls == OfProgram(PumpFunInstructions, "pumpfun")
<1>1. OfProgram(PumpFunTrades, "pumpfun")
  BY PumpFunFilterTypes DEF OfProgram, PumpFunTrades, TradeV3, Safe, Instruction
<1>2. OfProgram(PumpFunCreates, "pumpfun")
  BY PumpFunFilterTypes DEF OfProgram, PumpFunCreates, Safe, Instruction
<1> QED BY <1>1, <1>2 DEF OfProgram, PumpFunInstructions, Merge

(* Instructions of PumpSwap tell types of the program. *)
LEMMA PumpSwapCalls == OfProgram(PumpSwapInstructions, "pumpswap")
BY PumpSwapFilterTypes DEF OfProgram, PumpSwapInstructions, SwapV3, SwapOf, Safe, Instruction

(* Instructions of pump.fun fees tell types of the program. *)
LEMMA PumpFeesCalls == OfProgram(PumpFeesInstructions, "pump_fees")
BY PumpFeesFilterTypes DEF OfProgram, PumpFeesInstructions, FeeShares, FeeReset, Safe, Instruction

(* Instructions of DAMM v2 tell types of the program. *)
LEMMA DammCalls == OfProgram(DammInstructions, "damm_v2")
BY DammFilterTypes DEF OfProgram, DammInstructions, Bare, Safe, Instruction

(* Instructions of the Meteora pools tell types of the program. *)
LEMMA PoolsCalls == OfProgram(PoolsInstructions, "pools")
BY PoolsFilterTypes DEF OfProgram, PoolsInstructions, Safe, Instruction

(* Instructions of DLMM tell types of the program. *)
LEMMA DlmmCalls == OfProgram(DlmmInstructions, "dlmm")
<1>1. OfProgram(DlmmPoolInstructions, "dlmm")
  BY DlmmFilterTypes DEF OfProgram, DlmmPoolInstructions, Dlmm, DlmmPosition, Safe, Instruction
<1>2. OfProgram(DlmmTradeInstructions, "dlmm")
  BY DlmmFilterTypes DEF OfProgram, DlmmTradeInstructions, Dlmm, DlmmSwap, DlmmExactOut, DlmmImpact,
     Safe, Instruction
<1> QED BY <1>1, <1>2 DEF OfProgram, DlmmInstructions, Merge

(* Instructions of CLMM tell types of the program. *)
LEMMA ClmmCalls == OfProgram(ClmmInstructions, "clmm")
BY ClmmFilterTypes DEF OfProgram, ClmmInstructions, ClmmSwap, ClmmOpen, Bare, Safe, Instruction

(* Instructions of CPMM tell types of the program. *)
LEMMA CpmmCalls == OfProgram(CpmmInstructions, "cpmm")
BY CpmmFilterTypes DEF OfProgram, CpmmInstructions, Safe, Instruction

(* Instructions of AMM v4 tell types of the program. *)
LEMMA AmmCalls == OfProgram(AmmInstructions, "amm_v4")
BY AmmFilterTypes DEF OfProgram, AmmInstructions, AmmSwap, Safe, Instruction

(* Instructions of LaunchLab tell types of the program. *)
LEMMA LaunchlabCalls == OfProgram(LaunchlabInstructions, "launchlab")
BY LaunchlabFilterTypes DEF OfProgram, LaunchlabInstructions, LaunchlabOrder, LaunchlabStart, Safe,
   Instruction

(* Instructions of Orca tell types of the program. *)
LEMMA OrcaCalls == OfProgram(OrcaInstructions, "orca")
BY OrcaFilterTypes DEF OfProgram, OrcaInstructions, OrcaSwap, OrcaLiquidity, Safe, Instruction

(* The programs with instructions, and that those only tell types of the program. *)
LEMMA InstructionNames ==
  /\ DOMAIN InstructionDecoders = {"pumpfun", "pump_fees", "pumpswap", "damm_v2", "pools", "dlmm", "clmm", "cpmm", "amm_v4", "launchlab", "orca"}
  /\ DOMAIN InstructionDecoders \subseteq Programs
  /\ \A p \in DOMAIN InstructionDecoders : OfProgram(InstructionDecoders[p], p)
<1>1. DOMAIN InstructionDecoders = {"pumpfun", "pump_fees", "pumpswap", "damm_v2", "pools", "dlmm", "clmm", "cpmm", "amm_v4", "launchlab", "orca"}
  BY DEF InstructionDecoders
<1>2. \A p \in DOMAIN InstructionDecoders : OfProgram(InstructionDecoders[p], p)
  BY PumpFunCalls, PumpSwapCalls, PumpFeesCalls, DammCalls, PoolsCalls, DlmmCalls, ClmmCalls, CpmmCalls,
     AmmCalls, LaunchlabCalls, OrcaCalls DEF InstructionDecoders
<1> QED BY <1>1, <1>2, ProgramNames

-----------------------------------------------------------------------------
(* Inputs and contents *)

(* Inputs of one origin. *)
LEMMA InputParts ==
  ASSUME NEW o, NEW S, NEW i \in Inputs(o, S)
  PROVE  i.origin = o /\ \E x \in S : i.program = x[1] /\ i.disc = x[2]
BY DEF Inputs

IsLogOf(i) ==
  \/ i.program \in Programs /\ i.disc \in DOMAIN ScopedDecoder[i.program] \cup {"unknown"}
  \/ i.program \in {"none", "other"} /\ i.disc \in Discs \cup {"unknown"}

IsEventOf(i) == i.program \in Programs /\ i.disc \in DOMAIN ScopedDecoder[i.program]

IsAccountOf(i) == i.program \in Owners /\ i.disc \in AccountDiscs(i.program)

(* The inputs of a state, by origin. *)
LEMMA InputKinds ==
  ASSUME NEW i \in AllInputs
  PROVE  \/ i.origin = "log" /\ IsLogOf(i)
         \/ i.origin \in {"instruction", "inner"}
         \/ i.origin \in {"prefixed", "suffixed"} /\ IsEventOf(i)
         \/ i.origin \in ShredForms
         \/ i.origin = "account" /\ IsAccountOf(i)
<1>1. CASE i \in LogInputs
  <2>1. i.origin = "log" /\ \E x \in (UNION {{p} \X (DOMAIN ScopedDecoder[p] \cup {"unknown"}) : p \in Programs})
                                      \cup {"none", "other"} \X (Discs \cup {"unknown"}) :
                               i.program = x[1] /\ i.disc = x[2]
    BY <1>1, InputParts DEF LogInputs
  <2> QED BY <2>1 DEF IsLogOf
<1>2. CASE i \in Inputs("instruction", Instructions)
  BY <1>2, InputParts
<1>3. CASE i \in Inputs("inner", Instructions)
  BY <1>3, InputParts
<1>4. ASSUME NEW form \in {"prefixed", "suffixed"}, i \in Inputs(form, Events)
      PROVE  i.origin = form /\ IsEventOf(i)
  <2>1. i.origin = form /\ \E x \in Events : i.program = x[1] /\ i.disc = x[2]
    BY <1>4, InputParts
  <2> QED BY <2>1 DEF Events, IsEventOf
<1>5. CASE i \in ShredInputs
  <2>1. PICK form \in ShredForms : i \in Inputs(form, Instructions \cup RawInstructions \cup {<<"other", "unknown">>})
    BY <1>5 DEF ShredInputs
  <2> QED BY <2>1, InputParts
<1>6. CASE i \in AccountInputs
  <2>1. i.origin = "account" /\ \E x \in UNION {{o} \X AccountDiscs(o) : o \in Owners} :
                                   i.program = x[1] /\ i.disc = x[2]
    BY <1>6, InputParts DEF AccountInputs
  <2> QED BY <2>1 DEF IsAccountOf
<1> QED BY <1>1, <1>2, <1>3, <1>4, <1>5, <1>6 DEF AllInputs, InnerInputs

Of(r, decoder) == r.is = "event" => r.type \in decoder.types

(* A decoder only tells its types. *)
LEMMA OfMakes == ASSUME NEW decoder, NEW n, NEW r \in Makes(decoder, n) PROVE Of(r, decoder)
<1>1. PICK o \in Outcomes(decoder.layout, n) :
        r \in IF o.is = "event" THEN {[is |-> "event", type |-> t, flaws |-> o.flaws] : t \in decoder.types}
              ELSE {[Nothing EXCEPT !.is = o.is, !.flaws = o.flaws \cap {"lost"}]}
  BY DEF Makes
<1>2. CASE o.is = "event"
  BY <1>1, <1>2 DEF Of
<1>3. CASE o.is # "event"
  <2>1. r = [Nothing EXCEPT !.is = o.is, !.flaws = o.flaws \cap {"lost"}]
    BY <1>1, <1>3
  <2>2. r.is = o.is
    BY <2>1 DEF Nothing
  <2> QED BY <1>3, <2>2 DEF Of
<1> QED BY <1>2, <1>3

(* Nothing is of every decoder. *)
LEMMA OfNothing == ASSUME NEW decoder PROVE Of(Nothing, decoder)
BY DEF Of, Nothing

(* Nor does a decoder of instructions tell other types. *)
LEMMA OfMakesOfAccounts ==
  ASSUME NEW decoder, NEW n, NEW r \in MakesOfAccounts(decoder, n) PROVE Of(r, decoder)
BY OfMakes, OfNothing DEF MakesOfAccounts, Of, Nothing

(* Nor does any, by origin. *)
LEMMA OfMakesOf == ASSUME NEW i, NEW decoder, NEW n, NEW r \in MakesOf(i, decoder, n) PROVE Of(r, decoder)
BY OfMakes, OfMakesOfAccounts DEF MakesOf

(* The first result of no decoder, *)
LEMMA FirstOfNone == FirstOf(<<>>) = Nothing
BY DEF FirstOf

(* of one, *)
LEMMA FirstOfOne == ASSUME NEW x PROVE FirstOf(<<x>>) = x
<1> DEFINE some == {k \in DOMAIN <<x>> : <<x>>[k].is # "none"}
<1>1. FirstOf(<<x>>) = IF some # {} THEN <<x>>[Min(some)] ELSE IF <<x>> = <<>> THEN Nothing ELSE Last(<<x>>)
  BY DEF FirstOf
<1>2. some = IF x.is # "none" THEN {1} ELSE {}
  OBVIOUS
<1>3. Min({1}) = 1
  BY DEF Min
<1>4. Last(<<x>>) = x
  BY DEF Last
<1> HIDE DEF some
<1> QED BY <1>1, <1>2, <1>3, <1>4

(* and of two. *)
LEMMA FirstOfTwo == ASSUME NEW x, NEW y PROVE FirstOf(<<x, y>>) = IF x.is # "none" THEN x ELSE y
<1> DEFINE some == {k \in DOMAIN <<x, y>> : <<x, y>>[k].is # "none"}
<1>1. FirstOf(<<x, y>>) = IF some # {} THEN <<x, y>>[Min(some)] ELSE IF <<x, y>> = <<>> THEN Nothing ELSE Last(<<x, y>>)
  BY DEF FirstOf
<1>2. some = (IF x.is # "none" THEN {1} ELSE {}) \cup (IF y.is # "none" THEN {2} ELSE {})
  OBVIOUS
<1>3. Min({1}) = 1 /\ Min({2}) = 2 /\ Min({1, 2}) = 1
  BY DEF Min
<1>4. Last(<<x, y>>) = y
  BY DEF Last
<1>5. some = {} \/ some = {1} \/ some = {2} \/ some = {1, 2}
  BY <1>2
<1> HIDE DEF some
<1>6. CASE x.is # "none" /\ y.is # "none"
  <2>1. some = {1, 2}  BY <1>2, <1>6
  <2> QED BY <2>1, <1>1, <1>3, <1>6
<1>7. CASE x.is # "none" /\ y.is = "none"
  <2>1. some = {1}  BY <1>2, <1>7
  <2> QED BY <2>1, <1>1, <1>3, <1>7
<1>8. CASE x.is = "none" /\ y.is # "none"
  <2>1. some = {2}  BY <1>2, <1>8
  <2> QED BY <2>1, <1>1, <1>3, <1>8
<1>9. CASE x.is = "none" /\ y.is = "none"
  <2>1. some = {}  BY <1>2, <1>9
  <2> QED BY <2>1, <1>1, <1>4, <1>9
<1> QED BY <1>6, <1>7, <1>8, <1>9

(* Results of no decoder, *)
LEMMA ProductNone == ASSUME NEW made \in Product(<<>>) PROVE made = <<>>
BY DEF Product

(* of one, *)
LEMMA ProductOne == ASSUME NEW S, NEW made \in Product(<<S>>) PROVE \E x \in S : made = <<x>>
<1>1. made \in [DOMAIN <<S>> -> UNION Range(<<S>>)] /\ \A k \in DOMAIN <<S>> : made[k] \in <<S>>[k]
  BY DEF Product
<1>2. made = <<made[1]>> /\ made[1] \in S
  BY <1>1
<1> QED BY <1>2

(* and of two. *)
LEMMA ProductTwo == ASSUME NEW S, NEW T, NEW made \in Product(<<S, T>>) PROVE \E x \in S, y \in T : made = <<x, y>>
<1>1. made \in [DOMAIN <<S, T>> -> UNION Range(<<S, T>>)] /\ \A k \in DOMAIN <<S, T>> : made[k] \in <<S, T>>[k]
  BY DEF Product
<1>2. made = <<made[1], made[2]>> /\ made[1] \in S /\ made[2] \in T
  BY <1>1
<1> QED BY <1>2

(* But for shreds and what may be taken for something else, contents are of the *)
(* decoders tried.                                                              *)
LEMMA ContentsOf ==
  ASSUME NEW i, i.origin \notin ShredForms, ~ MayBeTaken(i), NEW made \in Contents(i)
  PROVE  \E n : made \in Product([k \in DOMAIN <<>> |-> MakesOfAccounts(<<>>[k], n)]
                                 \o [k \in DOMAIN Attempts(i) |-> MakesOf(i, Attempts(i)[k], n)])
<1>1. Taken(i) = <<>>
  BY DEF Taken
<1> QED BY <1>1 DEF Contents

(* Contents where no decoder is tried, *)
LEMMA ContentsNone ==
  ASSUME NEW i, i.origin \notin ShredForms, ~ MayBeTaken(i), NEW made \in Contents(i), Attempts(i) = <<>>
  PROVE  made = <<>>
<1>1. PICK n : made \in Product([k \in DOMAIN <<>> |-> MakesOfAccounts(<<>>[k], n)]
                                 \o [k \in DOMAIN Attempts(i) |-> MakesOf(i, Attempts(i)[k], n)])
  BY ContentsOf
<1>2. [k \in DOMAIN <<>> |-> MakesOfAccounts(<<>>[k], n)] = <<>>
  OBVIOUS
<1>3. [k \in DOMAIN Attempts(i) |-> MakesOf(i, Attempts(i)[k], n)] = <<>>
  OBVIOUS
<1>4. <<>> \o <<>> = <<>>
  OBVIOUS
<1> QED BY <1>1, <1>2, <1>3, <1>4, ProductNone

(* one is, *)
LEMMA ContentsOne ==
  ASSUME NEW i, i.origin \notin ShredForms, ~ MayBeTaken(i), NEW made \in Contents(i),
         NEW a, Attempts(i) = <<a>>
  PROVE  \E n : \E x \in MakesOf(i, a, n) : made = <<x>>
<1>1. PICK n : made \in Product([k \in DOMAIN <<>> |-> MakesOfAccounts(<<>>[k], n)]
                                 \o [k \in DOMAIN Attempts(i) |-> MakesOf(i, Attempts(i)[k], n)])
  BY ContentsOf
<1>2. [k \in DOMAIN <<>> |-> MakesOfAccounts(<<>>[k], n)] = <<>>
  OBVIOUS
<1>3. [k \in DOMAIN Attempts(i) |-> MakesOf(i, Attempts(i)[k], n)] = <<MakesOf(i, a, n)>>
  OBVIOUS
<1>4. <<>> \o <<MakesOf(i, a, n)>> = <<MakesOf(i, a, n)>>
  OBVIOUS
<1>5. made \in Product(<<MakesOf(i, a, n)>>)
  BY <1>1, <1>2, <1>3, <1>4
<1> QED BY <1>5, ProductOne

(* and two are. *)
LEMMA ContentsTwo ==
  ASSUME NEW i, i.origin \notin ShredForms, ~ MayBeTaken(i), NEW made \in Contents(i),
         NEW a, NEW b, Attempts(i) = <<a, b>>
  PROVE  \E n : \E x \in MakesOf(i, a, n), y \in MakesOf(i, b, n) : made = <<x, y>>
<1>1. PICK n : made \in Product([k \in DOMAIN <<>> |-> MakesOfAccounts(<<>>[k], n)]
                                 \o [k \in DOMAIN Attempts(i) |-> MakesOf(i, Attempts(i)[k], n)])
  BY ContentsOf
<1>2. [k \in DOMAIN <<>> |-> MakesOfAccounts(<<>>[k], n)] = <<>>
  OBVIOUS
<1>3. [k \in DOMAIN Attempts(i) |-> MakesOf(i, Attempts(i)[k], n)] = <<MakesOf(i, a, n), MakesOf(i, b, n)>>
  OBVIOUS
<1>4. <<>> \o <<MakesOf(i, a, n), MakesOf(i, b, n)>> = <<MakesOf(i, a, n), MakesOf(i, b, n)>>
  OBVIOUS
<1>5. made \in Product(<<MakesOf(i, a, n), MakesOf(i, b, n)>>)
  BY <1>1, <1>2, <1>3, <1>4
<1> QED BY <1>5, ProductTwo

(* Contents of a shred, of no decoder, *)
LEMMA ShredNone ==
  ASSUME NEW n, NEW made \in MakesOfShred(<<>>, n) PROVE made = <<>>
BY DEF MakesOfShred

(* of one, *)
LEMMA ShredOne ==
  ASSUME NEW n, NEW a, NEW made \in MakesOfShred(<<a>>, n) PROVE \E x \in MakesOfAccounts(a, n) : made = <<x>>
BY DEF MakesOfShred

(* and of two, of which one has its turn. *)
LEMMA ShredTwo ==
  ASSUME NEW n, NEW a, NEW b, NEW made \in MakesOfShred(<<a, b>>, n)
  PROVE  \E x, y : made = <<x, y>> /\ Of(x, a) /\ Of(y, b) /\ (x = Nothing \/ y = Nothing)
BY OfMakesOfAccounts, OfNothing DEF MakesOfShred

-----------------------------------------------------------------------------
(* The filter before and after decoding: instructions and events *)

(* A pair from its halves. *)
LEMMA PairOf == ASSUME NEW a, NEW b PROVE <<a>> \o <<b>> = <<a, b>>
<1>1. <<a>> \in Seq({a, b}) /\ <<b>> \in Seq({a, b}) /\ <<a, b>> \in Seq({a, b})
  OBVIOUS
<1>2. Len(<<a>>) = 1 /\ Len(<<b>>) = 1 /\ Len(<<a, b>>) = 2
  OBVIOUS
<1>3. <<a>> \o <<b>> \in Seq({a, b}) /\ Len(<<a>> \o <<b>>) = 2
  BY <1>1, <1>2, ConcatProperties
<1>4. (<<a>> \o <<b>>)[1] = a /\ (<<a>> \o <<b>>)[2] = b
  BY <1>1, <1>2, ConcatProperties
<1>5. \A k \in 1 .. 2 : (<<a>> \o <<b>>)[k] = <<a, b>>[k]
  BY <1>4
<1> QED BY <1>1, <1>2, <1>3, <1>5, SeqEqual

Kept(f, u, r) == IF u.is = "event" /\ ShouldInclude(f, u.type) THEN r = u ELSE r.is # "event"

(* Without a filter everything is included. *)
LEMMA AllIncludes == IsFilter(All) /\ \A t : ShouldInclude(All, t)
BY DEF IsFilter, ShouldInclude, All

(* Where a first question refuses no event the filter includes, asking before and after *)
(* decoding is as good as asking after.                                                 *)
LEMMA KeptApplied ==
  ASSUME NEW f, NEW x, NEW wide, NEW narrow,
         x.is = "event" => wide,
         x.is = "event" /\ ShouldInclude(f, x.type) => narrow
  PROVE  Kept(f, IF wide THEN Applied(All, x) ELSE Nothing, IF narrow THEN Applied(f, x) ELSE Nothing)
<1>1. Applied(All, x) = x
  BY AllIncludes DEF Applied
<1>2. Nothing.is # "event"
  BY DEF Nothing
<1>3. CASE x.is = "event" /\ ShouldInclude(f, x.type)
  BY <1>1, <1>3 DEF Kept, Applied
<1>4. CASE x.is = "event" /\ ~ ShouldInclude(f, x.type)
  BY <1>1, <1>2, <1>4 DEF Kept, Applied
<1>5. CASE x.is # "event"
  BY <1>1, <1>2, <1>5 DEF Kept, Applied
<1> QED BY <1>3, <1>4, <1>5

(* A filter that includes a type of a program wants the program, and instructions. *)
LEMMA ProgramWanted ==
  ASSUME NEW f, IsFilter(f), NEW p \in Programs, NEW t \in FilterTypes(p), ShouldInclude(f, t)
  PROVE  IncludesProgram(f, p) /\ AllowsInstructions(f)
<1>1. PICK u \in FilterTypes(p) : IF f.mode = "only" THEN u \in f.types ELSE ShouldInclude(f, u)
  BY FilterTypesClosed, ListsNameIt
<1>2. p # "other"
  BY ProgramNames
<1>3. u \in InstructionTypes
  BY DEF InstructionTypes
<1> QED BY <1>1, <1>2, <1>3 DEF IncludesProgram, AllowsInstructions, Meet

OfPrograms(x, p) == x.is = "event" => p \in Programs /\ x.type \in FilterTypes(p)

(* Nothing is lost of an instruction, *)
LEMMA KeptInstruction ==
  ASSUME NEW f, IsFilter(f), NEW p, NEW x, OfPrograms(x, p)
  PROVE  Kept(f, ParsedInstruction(All, p, x), ParsedInstruction(f, p, x))
<1>1. x.is = "event" => AllowsInstructions(All) /\ IncludesProgram(All, p)
  BY ProgramWanted, AllIncludes DEF OfPrograms
<1>2. x.is = "event" /\ ShouldInclude(f, x.type) => AllowsInstructions(f) /\ IncludesProgram(f, p)
  BY ProgramWanted DEF OfPrograms
<1> QED BY <1>1, <1>2, KeptApplied DEF ParsedInstruction

(* nor of an event told by a call. *)
LEMMA KeptEvent ==
  ASSUME NEW f, IsFilter(f), NEW p, NEW d, NEW x, OfPrograms(x, p)
  PROVE  Kept(f, ParsedEvent(All, p, d, x), ParsedEvent(f, p, d, x))
<1>1. x.is = "event" => d \in Upgrades \/ IncludesProgram(All, p)
  BY ProgramWanted, AllIncludes DEF OfPrograms
<1>2. x.is = "event" /\ ShouldInclude(f, x.type) => d \in Upgrades \/ IncludesProgram(f, p)
  BY ProgramWanted DEF OfPrograms
<1> QED BY <1>1, <1>2, KeptApplied DEF ParsedEvent

(* The decoder of an instruction, if any, tells types of its program. *)
LEMMA CompiledOf ==
  ASSUME NEW p, NEW d
  PROVE  \/ CompiledDecoders(p, d) = <<>>
         \/ \E a : /\ CompiledDecoders(p, d) = <<a>> /\ a = InstructionDecoders[p][d]
                   /\ p \in DOMAIN InstructionDecoders /\ d \in DOMAIN InstructionDecoders[p]
                   /\ p \in Programs
                   /\ a.types \subseteq FilterTypes(p)
BY InstructionNames DEF CompiledDecoders, OfProgram

(* So does that of a log line. *)
LEMMA ScopedOf ==
  ASSUME NEW p \in Programs, NEW d \in DOMAIN ScopedDecoder[p]
  PROVE  Decoders[ScopedDecoder[p][d]].types \subseteq FilterTypes(p)
BY DEF FilterTypes, Range

(* So do the one or two of an event told by a call, *)
LEMMA EventOf ==
  ASSUME NEW form \in {"prefixed", "suffixed"}, NEW p \in Programs, NEW d \in DOMAIN ScopedDecoder[p]
  PROVE  \/ EventDecoders(form, p, d) = <<>>
         \/ \E a : EventDecoders(form, p, d) = <<a>> /\ a.types \subseteq FilterTypes(p)
         \/ \E a, b : EventDecoders(form, p, d) = <<a, b>> /\ a.types \subseteq FilterTypes(p) /\ b.types \subseteq FilterTypes(p)
<1> DEFINE a == Behind(Decoders[ScopedDecoder[p][d]])
           b == Behind(ShortSwap)
<1>1. a.types \subseteq FilterTypes(p)
  BY ScopedOf DEF Behind, Decoder
<1>2. b.types \subseteq FilterTypes("pools")
  BY PoolsFilterTypes DEF Behind, ShortSwap, Decoder
<1>3. EventDecoders(form, p, d) =
        IF ~TellsEvent(form, p, d) THEN <<>>
        ELSE <<a>> \o (IF p = "pools" /\ d = "meteora_swap" THEN <<b>> ELSE <<>>)
  BY DEF EventDecoders
<1> HIDE DEF a, b
<1>4. <<a>> \o <<>> = <<a>>
  OBVIOUS
<1> QED BY <1>1, <1>2, <1>3, <1>4, PairOf

(* and those of a shred, but for the raw ones. *)
LEMMA ShredOf ==
  ASSUME NEW p, NEW d, ~ IsRaw(p, d)
  PROVE  \/ ShredDecoders(p, d) = <<>>
         \/ \E a : ShredDecoders(p, d) = <<a>> /\ p \in Programs /\ a.types \subseteq FilterTypes(p)
         \/ \E a, b : /\ ShredDecoders(p, d) = <<a, b>> /\ p \in Programs /\ IsShort(p, d)
                      /\ a.types \subseteq FilterTypes(p) /\ b.types \subseteq FilterTypes(p)
<1>1. CASE IsShort(p, d)
  <2>1. ShredDecoders(p, d) = <<PumpFunTrades[d], Short(PumpFunTrades[d])>>
    BY <1>1 DEF ShredDecoders
  <2>2. p = "pumpfun" /\ p \in Programs
    BY <1>1, ProgramNames DEF IsShort
  <2>3. PumpFunTrades[d].types \subseteq FilterTypes(p)
    BY <1>1, <2>2, PumpFunFilterTypes DEF IsShort, PumpFunTrades, TradeV3, Safe, Instruction
  <2>4. Short(PumpFunTrades[d]).types = PumpFunTrades[d].types
    BY <1>1 DEF Short, IsShort, PumpFunTrades, Safe, Instruction
  <2> QED BY <1>1, <2>1, <2>2, <2>3, <2>4
<1>2. CASE ~ IsShort(p, d)
  <2>1. ShredDecoders(p, d) = CompiledDecoders(p, d)
    BY <1>2 DEF ShredDecoders
  <2> QED BY <2>1, CompiledOf
<1> QED BY <1>1, <1>2

(* What such a decoder makes is of the program. *)
LEMMA OfProgramsOne ==
  ASSUME NEW p, NEW x, NEW a, p \in Programs, a.types \subseteq FilterTypes(p), Of(x, a)
  PROVE  OfPrograms(x, p)
BY DEF Of, OfPrograms

(* So is nothing. *)
LEMMA OfProgramsNothing == ASSUME NEW p PROVE OfPrograms(Nothing, p)
BY DEF OfPrograms, Nothing

(* What is told of an instruction is of its program. *)
LEMMA InstructionContents ==
  ASSUME NEW i, i.origin \in {"instruction", "inner"}, NEW made \in Contents(i)
  PROVE  OfPrograms(FirstOf(made), i.program)
<1>1. i.origin \notin ShredForms /\ ~ MayBeTaken(i)
  BY DEF ShredForms, MayBeTaken
<1>2. Attempts(i) = CompiledDecoders(i.program, i.disc)
  BY DEF Attempts, ShredForms
<1>3. CASE CompiledDecoders(i.program, i.disc) = <<>>
  <2>1. made = <<>>
    BY <1>1, <1>2, <1>3, ContentsNone
  <2> QED BY <2>1, FirstOfNone, OfProgramsNothing
<1>4. ASSUME NEW a, CompiledDecoders(i.program, i.disc) = <<a>>, i.program \in Programs,
             a.types \subseteq FilterTypes(i.program)
      PROVE  OfPrograms(FirstOf(made), i.program)
  <2>1. PICK n : \E x \in MakesOf(i, a, n) : made = <<x>>
    BY <1>1, <1>2, <1>4, ContentsOne
  <2>2. PICK x \in MakesOf(i, a, n) : made = <<x>>
    BY <2>1
  <2>3. Of(x, a) /\ FirstOf(made) = x
    BY <2>2, OfMakesOf, FirstOfOne
  <2> QED BY <1>4, <2>3, OfProgramsOne
<1> QED BY <1>3, <1>4, CompiledOf

(* A short sequence is its longest part. *)
LEMMA WholeSubSeq == ASSUME NEW x, NEW y
                 PROVE  /\ SubSeq(<<>>, 1, Len(<<>>)) = <<>>
                        /\ SubSeq(<<x>>, 1, Len(<<x>>)) = <<x>>
                        /\ SubSeq(<<x, y>>, 1, Len(<<x, y>>)) = <<x, y>>
<1>1. <<x>> \in Seq({x, y})
  OBVIOUS
<1>2. <<x, y>> \in Seq({x, y})
  OBVIOUS
<1>3. SubSeq(<<x>>, 1, Len(<<x>>)) = <<x>>
  BY <1>1, SubSeqFull
<1>4. SubSeq(<<x, y>>, 1, Len(<<x, y>>)) = <<x, y>>
  BY <1>2, SubSeqFull
<1>5. SubSeq(<<>>, 1, Len(<<>>)) = <<>>
  OBVIOUS
<1> QED BY <1>3, <1>4, <1>5

(* So is what is told of an event, *)
LEMMA EventContents ==
  ASSUME NEW i, i.origin \in {"prefixed", "suffixed"}, IsEventOf(i), ~ MayBeTaken(i), NEW made \in Contents(i)
  PROVE  OfPrograms(FirstOf(SubSeq(made, 1, Len(made))), i.program)
<1>1. i.origin \notin ShredForms
  BY DEF ShredForms
<1>2. Attempts(i) = EventDecoders(i.origin, i.program, i.disc)
  BY DEF Attempts, ShredForms
<1>3. i.program \in Programs /\ i.disc \in DOMAIN ScopedDecoder[i.program]
  BY DEF IsEventOf
<1>4. CASE Attempts(i) = <<>>
  <2>1. made = <<>>
    BY <1>1, <1>4, ContentsNone
  <2> QED BY <2>1, WholeSubSeq, FirstOfNone, OfProgramsNothing
<1>5. ASSUME NEW a, Attempts(i) = <<a>>, a.types \subseteq FilterTypes(i.program)
      PROVE  OfPrograms(FirstOf(SubSeq(made, 1, Len(made))), i.program)
  <2>1. PICK n : \E x \in MakesOf(i, a, n) : made = <<x>>
    BY <1>1, <1>5, ContentsOne
  <2>2. PICK x \in MakesOf(i, a, n) : made = <<x>>
    BY <2>1
  <2>3. Of(x, a) /\ FirstOf(made) = x
    BY <2>2, OfMakesOf, FirstOfOne
  <2>4. SubSeq(made, 1, Len(made)) = made
    BY <2>2, WholeSubSeq
  <2> QED BY <1>3, <1>5, <2>3, <2>4, OfProgramsOne
<1>6. ASSUME NEW a, NEW b, Attempts(i) = <<a, b>>, a.types \subseteq FilterTypes(i.program),
             b.types \subseteq FilterTypes(i.program)
      PROVE  OfPrograms(FirstOf(SubSeq(made, 1, Len(made))), i.program)
  <2>1. PICK n : \E x \in MakesOf(i, a, n), y \in MakesOf(i, b, n) : made = <<x, y>>
    BY <1>1, <1>6, ContentsTwo
  <2>2. PICK x \in MakesOf(i, a, n), y \in MakesOf(i, b, n) : made = <<x, y>>
    BY <2>1
  <2>3. OfPrograms(x, i.program) /\ OfPrograms(y, i.program)
    BY <1>3, <1>6, OfMakesOf, OfProgramsOne
  <2>4. FirstOf(made) = x \/ FirstOf(made) = y
    BY <2>2, FirstOfTwo
  <2>5. SubSeq(made, 1, Len(made)) = made
    BY <2>2, WholeSubSeq
  <2> QED BY <2>3, <2>4, <2>5
<1> QED BY <1>2, <1>3, <1>4, <1>5, <1>6, EventOf

(* and of a shred, whatever is left out because an account is not known. *)
LEMMA ShredContents ==
  ASSUME NEW i, i.origin \in ShredForms, ~ IsRaw(i.program, i.disc), NEW made \in Contents(i)
  PROVE  OfPrograms(FirstOf(Resolved(i.origin, i.program, made)), i.program)
<1> DEFINE p == i.program
           Told == Resolved(i.origin, p, made)
<1>1. Attempts(i) = ShredDecoders(p, i.disc)
  BY DEF Attempts, ShredForms
<1>2. PICK n : made \in MakesOfShred(Attempts(i), n)
  BY DEF Contents
<1>3. CASE Attempts(i) = <<>>
  <2>1. made = <<>>
    BY <1>2, <1>3, ShredNone
  <2>2. Told = <<>>
    BY <2>1 DEF Resolved
  <2> QED BY <2>2, FirstOfNone, OfProgramsNothing
<1>4. ASSUME NEW a, Attempts(i) = <<a>>, p \in Programs, a.types \subseteq FilterTypes(p)
      PROVE  OfPrograms(FirstOf(Told), p)
  <2>1. PICK x \in MakesOfAccounts(a, n) : made = <<x>>
    BY <1>2, <1>4, ShredOne
  <2>2. OfPrograms(x, p)
    BY <1>4, OfMakesOfAccounts, OfProgramsOne
  <2>3. Told = <<x>> \/ Told = <<>>
    BY <2>1 DEF Resolved
  <2> QED BY <2>2, <2>3, FirstOfOne, FirstOfNone, OfProgramsNothing
<1>5. ASSUME NEW a, NEW b, Attempts(i) = <<a, b>>, p \in Programs,
             a.types \subseteq FilterTypes(p), b.types \subseteq FilterTypes(p)
      PROVE  OfPrograms(FirstOf(Told), p)
  <2>1. PICK x, y : made = <<x, y>> /\ Of(x, a) /\ Of(y, b) /\ (x = Nothing \/ y = Nothing)
    BY <1>2, <1>5, ShredTwo
  <2>2. OfPrograms(x, p) /\ OfPrograms(y, p)
    BY <1>5, <2>1, OfProgramsOne
  <2>3. Told = <<x, y>> \/ Told = <<x, Nothing>> \/ Told = <<>>
    BY <2>1 DEF Resolved
  <2> QED BY <2>2, <2>3, FirstOfTwo, FirstOfNone, OfProgramsNothing
<1> QED BY <1>1, <1>3, <1>4, <1>5, ShredOf

-----------------------------------------------------------------------------
(* Accounts *)

(* A list that includes a type of no family names it. *)
LEMMA UngroupedListed ==
  ASSUME NEW f, NEW t, t \notin Grouped, f.mode = "only", ShouldInclude(f, t)
  PROVE  t \in f.types
<1>1. \A F \in Families : F \subseteq Grouped
  BY DEF Families, Grouped, TradeFamily
<1> QED BY <1>1 DEF ShouldInclude, Covers, Grouped

Alone(decoders) == \A d \in DOMAIN decoders : decoders[d].types \cap Grouped = {}

(* The types of a decoder, whatever its layout. *)
LEMMA DecoderTypes == ASSUME NEW T, NEW layout PROVE Decoder(T, layout).types = T
BY DEF Decoder

(* The CLMM accounts, *)
LEMMA ClmmAccountTypes ==
  /\ DOMAIN ClmmAccounts = {"amm_config", "pool_state", "tick_array_state"}
  /\ ClmmAccounts["amm_config"].types = {"ACCOUNT_RAYDIUM_CLMM_AMM_CONFIG"}
  /\ ClmmAccounts["pool_state"].types = {"ACCOUNT_RAYDIUM_CLMM_POOL_STATE"}
  /\ ClmmAccounts["tick_array_state"].types = {"ACCOUNT_RAYDIUM_CLMM_TICK_ARRAY_STATE"}
<1>1. DOMAIN ClmmAccounts = {"amm_config", "pool_state", "tick_array_state"}
  BY DEF ClmmAccounts
<1>2. ClmmAccounts["amm_config"].types = {"ACCOUNT_RAYDIUM_CLMM_AMM_CONFIG"}
  BY DecoderTypes DEF ClmmAccounts
<1>3. ClmmAccounts["pool_state"].types = {"ACCOUNT_RAYDIUM_CLMM_POOL_STATE"}
  BY DecoderTypes DEF ClmmAccounts
<1>4. ClmmAccounts["tick_array_state"].types = {"ACCOUNT_RAYDIUM_CLMM_TICK_ARRAY_STATE"}
  BY DecoderTypes DEF ClmmAccounts
<1> QED BY <1>1, <1>2, <1>3, <1>4

(* and Orca's of pools. *)
LEMMA OrcaPoolAccountTypes ==
  /\ DOMAIN OrcaPoolAccounts = {"whirlpool", "tick_array"}
  /\ OrcaPoolAccounts["whirlpool"].types = {"ACCOUNT_ORCA_WHIRLPOOL"}
  /\ OrcaPoolAccounts["tick_array"].types = {"ACCOUNT_ORCA_TICK_ARRAY"}
<1>1. DOMAIN OrcaPoolAccounts = {"whirlpool", "tick_array"}
  BY DEF OrcaPoolAccounts
<1>2. OrcaPoolAccounts["whirlpool"].types = {"ACCOUNT_ORCA_WHIRLPOOL"}
  BY DecoderTypes DEF OrcaPoolAccounts
<1>3. OrcaPoolAccounts["tick_array"].types = {"ACCOUNT_ORCA_TICK_ARRAY"}
  BY DecoderTypes DEF OrcaPoolAccounts
<1> QED BY <1>1, <1>2, <1>3

(* Accounts have types of no family. *)
LEMMA AccountsAlone ==
  /\ DOMAIN AccountDecoders = {"pumpfun", "pump_fees", "pumpswap", "clmm", "cpmm", "orca"}
  /\ \A p \in DOMAIN AccountDecoders : Alone(AccountDecoders[p])
  /\ (Mint.types \cup TokenAccount.types \cup Nonce.types) \cap Grouped = {}
  /\ \A p \in DOMAIN AccountDecoders : "nonce" \notin DOMAIN AccountDecoders[p]
<1> USE DEF Alone, Decoder, Grouped, TradeFamily, BuyFamily, CreateFamily
<1>1. Alone(PumpFunAccounts)  BY DEF PumpFunAccounts
<1>2. Alone(PumpSwapAccounts)  BY DEF PumpSwapAccounts
<1>3. Alone(ClmmAccounts)  BY ClmmAccountTypes
<1>4. Alone(CpmmAccounts)  BY DEF CpmmAccounts
<1>5. Alone(OrcaPoolAccounts)  BY OrcaPoolAccountTypes
<1>6. Alone(OrcaOtherAccounts)  BY DEF OrcaOtherAccounts
<1>7. (Mint.types \cup TokenAccount.types \cup Nonce.types) \cap Grouped = {}
  BY DEF Mint, TokenAccount, Nonce
<1> HIDE DEF Decoder, Grouped, TradeFamily, BuyFamily, CreateFamily
<1>8. Alone(OrcaAccounts)
  BY <1>5, <1>6 DEF OrcaAccounts, Merge
<1> HIDE DEF Alone
<1>9. DOMAIN AccountDecoders = {"pumpfun", "pump_fees", "pumpswap", "clmm", "cpmm", "orca"}
  BY DEF AccountDecoders
<1>10. \A p \in DOMAIN AccountDecoders : Alone(AccountDecoders[p])
  BY <1>1, <1>2, <1>3, <1>4, <1>8 DEF AccountDecoders
<1>11. \A p \in DOMAIN AccountDecoders : "nonce" \notin DOMAIN AccountDecoders[p]
  BY <1>9, ClmmAccountTypes, OrcaPoolAccountTypes DEF AccountDecoders, PumpFunAccounts,
     PumpSwapAccounts, CpmmAccounts, OrcaAccounts, OrcaOtherAccounts, Merge
<1> QED BY <1>7, <1>9, <1>10, <1>11

(* Nor have those of the list that lets accounts be decoded at all. *)
LEMMA EventTypesAlone == AccountEventTypes \cap Grouped = {}
<1>1. \A p \in DOMAIN AccountDecoders : TypesOf(AccountDecoders[p]) \cap Grouped = {}
  BY AccountsAlone DEF TypesOf, Alone
<1> QED BY <1>1, AccountsAlone DEF AccountEventTypes

SnapshotsOnly(decoders) == \A d \in DOMAIN decoders : decoders[d].types = {"ACCOUNT_LIQUIDITY_SNAPSHOT"}

(* Snapshots have one type. *)
LEMMA SnapshotTypes == \A p \in DOMAIN SnapshotDecoders : SnapshotsOnly(SnapshotDecoders[p])
<1>1. DOMAIN SnapshotDecoders = {"launchlab", "dlmm", "orca", "clmm"}
  BY DEF SnapshotDecoders
<1>2. SnapshotsOnly(SnapshotDecoders["launchlab"])
  BY DEF SnapshotDecoders, SnapshotsOnly, Snapshot, Decoder
<1>3. SnapshotsOnly(SnapshotDecoders["dlmm"])
  BY DEF SnapshotDecoders, SnapshotsOnly, Snapshot, Decoder
<1>4. SnapshotsOnly(SnapshotDecoders["orca"])
  BY DEF SnapshotDecoders, SnapshotsOnly, Snapshot, Decoder
<1>5. SnapshotsOnly(SnapshotDecoders["clmm"])
  BY DEF SnapshotDecoders, SnapshotsOnly, Snapshot, Decoder
<1> QED BY <1>1, <1>2, <1>3, <1>4, <1>5

(* The types of the accounts that the filter is asked about by program. *)
OfOwner(x, owner, d) ==
  x.is = "event" =>
    /\ x.type \in AccountEventTypes
    /\ IF owner \in DOMAIN AccountDecoders THEN x.type \in TypesOf(AccountDecoders[owner]) /\ d # "nonce"
       ELSE IF d = "nonce" THEN x.type = "NONCE_ACCOUNT"
       ELSE x.type \in {"TOKEN_ACCOUNT", "TOKEN_INFO"}

(* A filter that includes an account wants accounts of its owner. *)
LEMMA AccountWanted ==
  ASSUME NEW f, IsFilter(f), NEW owner, NEW d, NEW x, OfOwner(x, owner, d), x.is = "event",
         ShouldInclude(f, x.type)
  PROVE  WantsAccount(f, owner, d)
<1>1. x.type \notin Grouped /\ x.type \in AccountEventTypes
  BY EventTypesAlone DEF OfOwner
<1>2. f.mode = "only" => Meet(f.types, AccountEventTypes)
  BY <1>1, UngroupedListed DEF Meet
<1>3. CASE owner \in DOMAIN AccountDecoders
  BY <1>2, <1>3 DEF OfOwner, WantsAccount
<1>4. CASE owner \notin DOMAIN AccountDecoders /\ d = "nonce"
  BY <1>2, <1>4 DEF OfOwner, WantsAccount
<1>5. CASE owner \notin DOMAIN AccountDecoders /\ d # "nonce"
  BY <1>2, <1>5 DEF OfOwner, WantsAccount
<1> QED BY <1>3, <1>4, <1>5

(* Nothing is lost of an account, *)
LEMMA KeptAccount ==
  ASSUME NEW f, IsFilter(f), NEW owner, NEW d, ~ IsSnapshot(owner, d), NEW x, OfOwner(x, owner, d)
  PROVE  Kept(f, ParsedAccount(All, owner, d, x), ParsedAccount(f, owner, d, x))
<1>1. x.is = "event" => WantsAccount(All, owner, d)
  BY AccountWanted, AllIncludes
<1>2. x.is = "event" /\ ShouldInclude(f, x.type) => WantsAccount(f, owner, d)
  BY AccountWanted
<1>3. CASE d # "nonce"
  <2>1. \A g : ParsedAccount(g, owner, d, x) = IF WantsAccount(g, owner, d) THEN Applied(g, x) ELSE Nothing
    BY <1>3 DEF ParsedAccount
  <2> QED BY <1>1, <1>2, <2>1, KeptApplied
<1>4. CASE d = "nonce"
  <2>1. \A g : ParsedAccount(g, owner, d, x) = IF WantsAccount(g, owner, d) THEN x ELSE Nothing
    BY <1>4 DEF ParsedAccount
  <2>2. x.is = "event" => owner \notin DOMAIN AccountDecoders /\ x.type = "NONCE_ACCOUNT"
    BY <1>4 DEF OfOwner
  <2>3. x.is = "event" /\ WantsAccount(f, owner, d) => ShouldInclude(f, x.type)
    BY <1>4, <2>2 DEF WantsAccount
  <2>4. Nothing.is # "event"
    BY DEF Nothing
  <2> QED BY <1>1, <1>2, <2>1, <2>3, <2>4 DEF Kept
<1> QED BY <1>3, <1>4

(* nor of a snapshot. *)
LEMMA KeptSnapshot ==
  ASSUME NEW f, NEW owner, NEW d, IsSnapshot(owner, d), NEW x,
         x.is = "event" => x.type = "ACCOUNT_LIQUIDITY_SNAPSHOT"
  PROVE  Kept(f, ParsedAccount(All, owner, d, x), ParsedAccount(f, owner, d, x))
BY AllIncludes DEF ParsedAccount, Kept, Nothing

AccountTold(x, owner, d) ==
  IF IsSnapshot(owner, d) THEN x.is = "event" => x.type = "ACCOUNT_LIQUIDITY_SNAPSHOT"
  ELSE OfOwner(x, owner, d)

(* The decoders tried on an account tell what its owner has. *)
LEMMA AccountOf ==
  ASSUME NEW owner, NEW d, d \in AccountDiscs(owner), NEW x
  PROVE  \/ AccountCandidates(owner, d) = <<>>
         \/ \E a : AccountCandidates(owner, d) = <<a>> /\ (Of(x, a) => AccountTold(x, owner, d))
         \/ \E a, b : /\ AccountCandidates(owner, d) = <<a, b>>
                      /\ Of(x, a) \/ Of(x, b) => AccountTold(x, owner, d)
<1>1. CASE IsSnapshot(owner, d)
  <2>1. SnapshotDecoders[owner][d].types = {"ACCOUNT_LIQUIDITY_SNAPSHOT"}
    BY <1>1, SnapshotTypes DEF SnapshotsOnly, IsSnapshot
  <2>2. AccountCandidates(owner, d) = <<SnapshotDecoders[owner][d]>>
    BY <1>1 DEF AccountCandidates
  <2> QED BY <1>1, <2>1, <2>2 DEF Of, AccountTold
<1>2. CASE ~ IsSnapshot(owner, d) /\ owner \in DOMAIN AccountDecoders
  <2>1. CASE d \in DOMAIN AccountDecoders[owner]
    <3>1. AccountCandidates(owner, d) = <<AccountDecoders[owner][d]>>
      BY <1>2, <2>1 DEF AccountCandidates
    <3>2. AccountDecoders[owner][d].types \subseteq TypesOf(AccountDecoders[owner])
      BY <2>1 DEF TypesOf
    <3>3. TypesOf(AccountDecoders[owner]) \subseteq AccountEventTypes
      BY <1>2 DEF AccountEventTypes
    <3>4. d # "nonce"
      BY <1>2, <2>1, AccountsAlone
    <3> QED BY <1>2, <3>1, <3>2, <3>3, <3>4 DEF Of, AccountTold, OfOwner
  <2>2. CASE d \notin DOMAIN AccountDecoders[owner]
    BY <1>2, <2>2 DEF AccountCandidates
  <2> QED BY <2>1, <2>2
<1>3. CASE ~ IsSnapshot(owner, d) /\ owner \notin DOMAIN AccountDecoders /\ d = "nonce"
  <2>1. AccountCandidates(owner, d) = <<Nonce>>
    BY <1>3 DEF AccountCandidates
  <2>2. Nonce.types = {"NONCE_ACCOUNT"} /\ Nonce.types \subseteq AccountEventTypes
    BY DEF Nonce, Decoder, AccountEventTypes
  <2> QED BY <1>3, <2>1, <2>2 DEF Of, AccountTold, OfOwner
<1>4. CASE ~ IsSnapshot(owner, d) /\ owner \notin DOMAIN AccountDecoders /\ d # "nonce"
  <2>1. AccountCandidates(owner, d) = IF owner = "token" THEN <<Mint, TokenAccount>> ELSE <<>>
    BY <1>4 DEF AccountCandidates
  <2>2. Mint.types = {"TOKEN_INFO"} /\ TokenAccount.types = {"TOKEN_ACCOUNT"}
    BY DEF Mint, TokenAccount, Decoder
  <2>3. {"TOKEN_INFO", "TOKEN_ACCOUNT"} \subseteq AccountEventTypes
    BY <2>2 DEF AccountEventTypes
  <2> QED BY <1>4, <2>1, <2>2, <2>3 DEF Of, AccountTold, OfOwner
<1> QED BY <1>1, <1>2, <1>3, <1>4

(* So does what is told of it. *)
LEMMA AccountContents ==
  ASSUME NEW i, i.origin = "account", IsAccountOf(i), NEW made \in Contents(i)
  PROVE  AccountTold(FirstOf(made), i.program, i.disc)
<1> DEFINE x == FirstOf(made)
<1>1. i.origin \notin ShredForms /\ ~ MayBeTaken(i)
  BY DEF ShredForms, MayBeTaken
<1>2. Attempts(i) = AccountCandidates(i.program, i.disc)
  BY DEF Attempts, ShredForms
<1>3. i.disc \in AccountDiscs(i.program)
  BY DEF IsAccountOf
<1>4. CASE Attempts(i) = <<>>
  <2>1. x = Nothing
    BY <1>1, <1>4, ContentsNone, FirstOfNone
  <2> QED BY <2>1 DEF AccountTold, OfOwner, Nothing
<1>5. ASSUME NEW a, Attempts(i) = <<a>> PROVE Of(x, a)
  <2>1. PICK n : \E y \in MakesOf(i, a, n) : made = <<y>>
    BY <1>1, <1>5, ContentsOne
  <2> QED BY <2>1, OfMakesOf, FirstOfOne
<1>6. ASSUME NEW a, NEW b, Attempts(i) = <<a, b>> PROVE Of(x, a) \/ Of(x, b)
  <2>1. PICK n : \E y \in MakesOf(i, a, n), z \in MakesOf(i, b, n) : made = <<y, z>>
    BY <1>1, <1>6, ContentsTwo
  <2>2. PICK y \in MakesOf(i, a, n), z \in MakesOf(i, b, n) : made = <<y, z>>
    BY <2>1
  <2>3. x = y \/ x = z
    BY <2>2, FirstOfTwo
  <2> QED BY <2>3, OfMakesOf
<1> HIDE DEF x
<1>7. \/ Attempts(i) = <<>>
      \/ \E a : Attempts(i) = <<a>> /\ (Of(x, a) => AccountTold(x, i.program, i.disc))
      \/ \E a, b : Attempts(i) = <<a, b>> /\ (Of(x, a) \/ Of(x, b) => AccountTold(x, i.program, i.disc))
  BY <1>2, <1>3, AccountOf
<1>8. ASSUME NEW a, Attempts(i) = <<a>>, Of(x, a) => AccountTold(x, i.program, i.disc)
      PROVE  AccountTold(x, i.program, i.disc)
  BY <1>5, <1>8
<1>9. ASSUME NEW a, NEW b, Attempts(i) = <<a, b>>, Of(x, a) \/ Of(x, b) => AccountTold(x, i.program, i.disc)
      PROVE  AccountTold(x, i.program, i.disc)
  BY <1>6, <1>9
<1>10. AccountTold(x, i.program, i.disc)
  BY <1>4, <1>7, <1>8, <1>9 DEF x
<1> QED BY <1>10 DEF x

-----------------------------------------------------------------------------
(* Log lines *)

(* Without a filter every line is decoded. *)
LEMMA AllAllowed == \A p, d : Allowed(All, p, d)
BY DEF Allowed

(* A line with one decoder, but for pump.fun's trades. *)
LEMMA DispatchedOne ==
  ASSUME NEW f, NEW p, NEW d, NEW x, ~ (p = "pumpfun" /\ d = "trade")
  PROVE  Parsed(f, p, d, <<x>>) = IF Allowed(f, p, d) THEN Applied(f, x) ELSE Nothing
<1>1. <<x>> # <<>> /\ Len(<<x>>) # 2 /\ <<x>>[1] = x
  OBVIOUS
<1>2. Dispatched(f, p, d, <<x>>) = x
  BY <1>1 DEF Dispatched
<1> QED BY <1>2 DEF Parsed

(* Nothing is lost of it if it is decoded whenever its event is included. *)
LEMMA KeptParsed ==
  ASSUME NEW f, NEW p, NEW d, NEW x, ~ (p = "pumpfun" /\ d = "trade"),
         x.is = "event" /\ ShouldInclude(f, x.type) => Allowed(f, p, d)
  PROVE  Kept(f, Parsed(All, p, d, <<x>>), Parsed(f, p, d, <<x>>))
<1>1. Parsed(f, p, d, <<x>>) = IF Allowed(f, p, d) THEN Applied(f, x) ELSE Nothing
  BY DispatchedOne
<1>2. Parsed(All, p, d, <<x>>) = IF Allowed(All, p, d) THEN Applied(All, x) ELSE Nothing
  BY DispatchedOne
<1>3. x.is = "event" => Allowed(All, p, d)
  BY AllAllowed
<1> QED BY <1>1, <1>2, <1>3, KeptApplied

(* Nothing is lost of a line without a decoder. *)
LEMMA KeptNone ==
  ASSUME NEW f, NEW p, NEW d
  PROVE  Kept(f, Parsed(All, p, d, <<>>), Parsed(f, p, d, <<>>))
<1>1. \A g : Parsed(g, p, d, <<>>).is # "event"
  BY DEF Parsed, Dispatched, Applied, Nothing
<1> QED BY <1>1 DEF Kept

(* Nothing is lost of a line of a known program. *)
LEMMA KeptScoped ==
  ASSUME NEW f, IsFilter(f), NEW p \in Programs, NEW d \in DOMAIN ScopedDecoder[p],
         ~ (p = "pumpfun" /\ d = "trade"), d # "damm_liquidity_change",
         NEW x, Of(x, Decoders[ScopedDecoder[p][d]])
  PROVE  Kept(f, Parsed(All, p, d, <<x>>), Parsed(f, p, d, <<x>>))
<1>1. p # "none" /\ p # "other"
  BY ProgramNames
<1>2. Announced(p) = ScopedTypes[p]
  BY <1>1 DEF Announced
<1> SUFFICES ASSUME x.is = "event", ShouldInclude(f, x.type)
             PROVE  Allowed(f, p, d)
  BY KeptParsed
<1>3. x.type \in Decoders[ScopedDecoder[p][d]].types
  BY DEF Of
<1>4. CASE d \in DOMAIN ScopedTypes[p]
  <2>1. Decoders[ScopedDecoder[p][d]].types = {ScopedTypes[p][d]}
    BY <1>4, AllAnnounced DEF AnnouncedOf
  <2>2. ShouldInclude(f, ScopedTypes[p][d])
    BY <1>3, <2>1
  <2> QED BY <1>1, <1>2, <1>4, <2>2 DEF Allowed
<1>5. CASE d \notin DOMAIN ScopedTypes[p]
  <2>1. IncludesProgram(f, p)
    BY <1>3, ScopedOf, ProgramWanted
  <2> QED BY <1>1, <1>2, <1>5, <2>1 DEF Allowed
<1> QED BY <1>4, <1>5

(* The decoder of a line of unknown origin. *)
Legacy == {"dlmm_legacy_add_liq", "dlmm_legacy_remove_liq", "dlmm_legacy_claim_fee"}
UnscopedDecoder(d) == IF d \in Legacy THEN ScopedDecoder["dlmm"][d] ELSE d

(* The decoder of a line of unknown origin is some program's. *)
LEMMA UnscopedScoped ==
  ASSUME NEW d \in Discs, d \notin ScopedOnly
  PROVE  \E q \in Programs : UnscopedDecoder(d) \in Range(ScopedDecoder[q])
<1>1. PICK p \in Programs : d \in DOMAIN ScopedDecoder[p]
  BY DEF Discs
<1>2. CASE d \in Legacy
  <2>1. d \in DOMAIN ScopedDecoder["dlmm"] /\ "dlmm" \in Programs
    BY <1>2, ProgramNames, DlmmScope DEF Legacy
  <2> QED BY <1>2, <2>1 DEF UnscopedDecoder, Range
<1>3. ASSUME d \notin Legacy PROVE \E q \in Programs : d \in Range(ScopedDecoder[q])
  <2>1. CASE p \in {"pumpfun", "pump_fees", "pumpswap", "clmm", "amm_v4", "orca", "pools", "damm_v2"}
    <3>1. ScopedDecoder[p][d] = d
      BY <1>1, <2>1, SameRange, PumpFunScope, PumpFeesScope, PumpSwapScope, ClmmScope, AmmScope,
         OrcaScope,
         PoolsScope, DammScope
    <3> QED BY <1>1, <3>1 DEF Range
  <2>2. CASE p = "launchlab"
    <3>1. d \in {"trade", "launchlab_pool_create"}
      BY <1>1, <2>2 DEF ScopedDecoder
    <3>2. "trade" \in Range(ScopedDecoder["pumpfun"])
      BY PumpFunScope, PumpFunRows
    <3>3. "launchlab_pool_create" \in Range(ScopedDecoder["launchlab"])
      BY LaunchlabScope, LaunchlabRows
    <3> QED BY <3>1, <3>2, <3>3, ProgramNames
  <2>3. CASE p = "dbc"
    <3>1. d \in {"damm_swap", "damm_swap2", "damm_initialize_pool"}
      BY <1>1, <2>3 DEF ScopedDecoder, ScopedOnly
    <3>2. d \in Range(ScopedDecoder["damm_v2"])
      BY <3>1, DammScope, DammParts
    <3> QED BY <3>2, ProgramNames
  <2>4. CASE p = "cpmm"
    <3>1. d = "clmm_swap" \/ d \in Range(ScopedDecoder["cpmm"])
      BY <1>1, <2>4, CpmmScope
    <3>2. "clmm_swap" \in Range(ScopedDecoder["clmm"])
      BY ClmmScope, ClmmParts
    <3> QED BY <3>1, <3>2, ProgramNames
  <2>5. CASE p = "dlmm"
    <3>1. d \in {"meteora_swap", "meteora_add", "meteora_remove", "cpmm_swap_in"} \/ d \in Range(ScopedDecoder["dlmm"])
      BY <1>1, <2>5, <1>3, DlmmScope DEF Legacy
    <3>2. {"meteora_swap", "meteora_add", "meteora_remove"} \subseteq Range(ScopedDecoder["pools"])
      BY PoolsScope, PoolsRows
    <3>3. "cpmm_swap_in" \in Range(ScopedDecoder["cpmm"])
      BY CpmmScope, CpmmRows
    <3> QED BY <3>1, <3>2, <3>3, ProgramNames
  <2> QED BY <1>1, <2>1, <2>2, <2>3, <2>4, <2>5, ProgramNames
<1> QED BY <1>2, <1>3 DEF UnscopedDecoder

(* What the decoder of a line of unknown origin tells is of some program. *)
LEMMA SomePrograms ==
  ASSUME NEW d \in Discs, d \notin ScopedOnly
  PROVE  \E p \in Programs : Decoders[UnscopedDecoder(d)].types \subseteq FilterTypes(p)
BY UnscopedScoped DEF FilterTypes

(* What is announced without a program. *)
LEMMA LogTypesNames ==
  /\ Legacy \cap DOMAIN LogTypes = {}
  /\ Legacy \cap DOMAIN Merge(UpgradeTypes, LogTypes) = {}
  /\ DOMAIN LogTypes \subseteq DOMAIN Merge(UpgradeTypes, LogTypes)
  /\ "meteora_swap" \in DOMAIN LogTypes
  /\ "trade" \in DOMAIN LogTypes
<1> DEFINE A == Merge(DlmmTypes, DammTypes)
           B == Merge(RaydiumTypes, PumpTypes)
           C == Merge(OrcaPoolsTypes, B)
<1>1. DOMAIN A = DOMAIN DlmmTypes \cup DOMAIN DammTypes
  BY MergeEntries
<1>2. DOMAIN B = DOMAIN RaydiumTypes \cup DOMAIN PumpTypes
  BY MergeEntries
<1> HIDE DEF A, B
<1>3. DOMAIN C = DOMAIN OrcaPoolsTypes \cup DOMAIN B
  BY MergeEntries
<1> HIDE DEF C
<1>4. DOMAIN Merge(A, C) = DOMAIN A \cup DOMAIN C
  BY MergeEntries
<1>5. LogTypes = Merge(A, C)
  BY DEF LogTypes, A, B, C
<1>6. DOMAIN LogTypes = DOMAIN DlmmTypes \cup DOMAIN DammTypes \cup DOMAIN OrcaPoolsTypes
                        \cup DOMAIN RaydiumTypes \cup DOMAIN PumpTypes
  BY <1>1, <1>2, <1>3, <1>4, <1>5
<1>7. Legacy \cap DOMAIN DlmmTypes = {}  BY DEF Legacy, DlmmTypes
<1>8. Legacy \cap DOMAIN DammTypes = {}  BY DEF Legacy, DammTypes
<1>9. Legacy \cap DOMAIN OrcaPoolsTypes = {} /\ "meteora_swap" \in DOMAIN OrcaPoolsTypes
  BY DEF Legacy, OrcaPoolsTypes
<1>10. Legacy \cap DOMAIN RaydiumTypes = {}  BY DEF Legacy, RaydiumTypes
<1>11. Legacy \cap DOMAIN PumpTypes = {} /\ "trade" \in DOMAIN PumpTypes
  BY DEF Legacy, PumpTypes
<1>12. Legacy \cap DOMAIN UpgradeTypes = {}
  BY UpgradeTypesNamed DEF Legacy
<1>13. DOMAIN Merge(UpgradeTypes, LogTypes) = DOMAIN UpgradeTypes \cup DOMAIN LogTypes
  BY MergeEntries
<1> QED BY <1>6, <1>7, <1>8, <1>9, <1>10, <1>11, <1>12, <1>13

(* Nothing is lost of a line of unknown origin, *)
LEMMA KeptUnscoped ==
  ASSUME NEW f, IsFilter(f), NEW p \in {"none", "other"}, NEW d \in Discs, d \notin ScopedOnly,
         d \notin Shared, p = "other" => d \in DOMAIN LogTypes,
         NEW x, Of(x, Decoders[UnscopedDecoder(d)])
  PROVE  Kept(f, Parsed(All, p, d, <<x>>), Parsed(f, p, d, <<x>>))
<1>1. d # "trade"
  BY DEF Shared
<1> SUFFICES ASSUME x.is = "event", ShouldInclude(f, x.type)
             PROVE  Allowed(f, p, d)
  BY <1>1, KeptParsed
<1>2. x.type \in Decoders[UnscopedDecoder(d)].types
  BY DEF Of
<1>3. CASE d \in DOMAIN Announced(p) /\ ~ (p = "none" /\ d = "cpmm_swap_in")
  <2>1. Announced(p) = LogTypes \/ Announced(p) = Merge(UpgradeTypes, LogTypes)
    BY DEF Announced
  <2>2. UnscopedDecoder(d) = d
    BY <1>3, <2>1, LogTypesNames DEF UnscopedDecoder
  <2>3. Decoders[d].types = {Announced(p)[d]}
    BY <1>3, <2>1, UnscopedTold DEF Tells
  <2>4. ShouldInclude(f, Announced(p)[d])
    BY <1>2, <2>2, <2>3
  <2> QED BY <1>1, <1>3, <2>4 DEF Allowed
<1>4. CASE p = "none" /\ d = "cpmm_swap_in"
  <2>1. Decoders[d].types = {"RAYDIUM_CPMM_SWAP"}
    BY <1>4, RaydiumTold DEF Tells, RaydiumTypes
  <2>2. UnscopedDecoder(d) = d
    BY <1>4 DEF UnscopedDecoder, Legacy
  <2>3. ShouldInclude(f, "RAYDIUM_CPMM_SWAP")
    BY <1>2, <2>1, <2>2
  <2>4. AllowsUnscoped(f, d)
    BY <1>4, <2>3 DEF AllowsUnscoped
  <2> QED BY <1>4, <2>4 DEF Allowed
<1>5. CASE d \notin DOMAIN Announced(p)
  <2>1. p = "none" /\ d \notin DOMAIN LogTypes
    BY <1>5, LogTypesNames DEF Announced
  <2>2. CASE d = "dlmm_swap2"
    <3>1. Decoders[d].types = {"METEORA_DLMM_SWAP"}
      BY <2>2, DecodersParts, MeteoraParts, DlmmParts, DlmmSwapRows DEF Part
    <3>2. UnscopedDecoder(d) = d
      BY <2>2 DEF UnscopedDecoder, Legacy
    <3>3. ShouldInclude(f, "METEORA_DLMM_SWAP")
      BY <1>2, <3>1, <3>2
    <3> QED BY <1>1, <1>5, <2>1, <2>2, <3>3 DEF Allowed, AllowsUnscoped
  <2>3. CASE d \notin {"dlmm_swap2", "cpmm_swap_in"}
    <3>1. d # "meteora_swap"
      BY <2>1, LogTypesNames
    <3>2. PICK q \in Programs : Decoders[UnscopedDecoder(d)].types \subseteq FilterTypes(q)
      BY SomePrograms
    <3>3. IncludesProgram(f, q)
      BY <1>2, <3>2, ProgramWanted
    <3>4. AllowsUnscoped(f, d)
      BY <1>1, <2>1, <2>3, <3>1, <3>3 DEF AllowsUnscoped
    <3> QED BY <1>5, <2>1, <3>4 DEF Allowed
  <2> QED BY <1>4, <2>1, <2>2, <2>3
<1> QED BY <1>3, <1>4, <1>5

(* The decoders of the two programs that share the discriminator of trades. *)
LEMMA TradesOf ==
  /\ Decoders["trade"] = PumpFunDecoders["trade"]
  /\ Decoders["launchlab_trade"] = LaunchlabDecoders["launchlab_trade"]
  /\ Decoders["trade"].types = PumpFunTradeTypes
  /\ Decoders["launchlab_trade"].types = {"RAYDIUM_LAUNCHLAB_TRADE"}
BY DecodersParts, PumpParts, PumpFunRows, RaydiumParts, LaunchlabRows DEF Part

(* A decoder whose first guard refuses the length makes nothing. *)
LEMMA RefusedMakes ==
  ASSUME NEW decoder, NEW n, decoder.layout # <<>>, Refuses(decoder.layout[1], n), NEW r \in Makes(decoder, n)
  PROVE  r.is = "none"
<1>1. Outcomes(decoder.layout, n) = {[is |-> "none", flaws |-> {}]}
  BY DEF Outcomes
<1>2. PICK o \in Outcomes(decoder.layout, n) :
        r \in IF o.is = "event" THEN {[is |-> "event", type |-> t, flaws |-> o.flaws] : t \in decoder.types}
              ELSE {[Nothing EXCEPT !.is = o.is, !.flaws = o.flaws \cap {"lost"}]}
  BY DEF Makes
<1>3. o.is = "none"
  BY <1>1, <1>2
<1>4. r = [Nothing EXCEPT !.is = o.is, !.flaws = o.flaws \cap {"lost"}]
  BY <1>2, <1>3
<1> QED BY <1>3, <1>4 DEF Nothing

(* A line is never a trade of both programs. *)
LEMMA TradesApart ==
  ASSUME NEW n, NEW x \in Makes(Decoders["trade"], n), NEW y \in Makes(Decoders["launchlab_trade"], n)
  PROVE  y.is = "event" => x.is = "none"
<1>1. /\ Decoders["launchlab_trade"].layout # <<>>
      /\ Decoders["launchlab_trade"].layout[1] = Exactly(139)
  BY TradesOf DEF LaunchlabDecoders, Decoder
<1>2. /\ Decoders["trade"].layout # <<>>
      /\ Decoders["trade"].layout[1] = Need(200)
  BY TradesOf DEF PumpFunDecoders, Decoder, TradeLayout
<1>3. n # 139 => Refuses(Exactly(139), n)
  BY DEF Refuses, Exactly, Item
<1>4. n = 139 => Refuses(Need(200), n)
  BY DEF Refuses, Need, Item
<1> QED BY <1>1, <1>2, <1>3, <1>4, RefusedMakes

(* The filter's second part. *)
LEMMA AppliedKeeps ==
  ASSUME NEW f, NEW r
  PROVE  /\ r.is # "event" => Applied(f, r) = r
         /\ ShouldInclude(f, r.type) => Applied(f, r) = r
         /\ r.is = "event" /\ ~ ShouldInclude(f, r.type) => Applied(f, r) = Nothing
BY DEF Applied

(* nor of a trade of unknown origin, which both programs' decoders may get: *)
LEMMA KeptUnscopedTrade ==
  ASSUME NEW f, NEW x, NEW y, Of(x, Decoders["trade"]), Of(y, Decoders["launchlab_trade"]),
         y.is = "event" => x.is = "none"
  PROVE  Kept(f, Parsed(All, "none", "trade", <<x, y>>), Parsed(f, "none", "trade", <<x, y>>))
<1> DEFINE u == IF x.is # "none" THEN x ELSE y
           r == UnscopedTrade(f, <<x, y>>)
           a == Allowed(f, "none", "trade")
<1>1. \A g : Parsed(g, "none", "trade", <<x, y>>) =
               IF Allowed(g, "none", "trade") THEN Applied(g, UnscopedTrade(g, <<x, y>>)) ELSE Nothing
  BY DEF Parsed, Dispatched
<1>2. \A g : UnscopedTrade(g, <<x, y>>) =
               IF (IF WantsPumpFunTrade(g) THEN Applied(g, x) ELSE Nothing).is # "none"
               THEN (IF WantsPumpFunTrade(g) THEN Applied(g, x) ELSE Nothing)
               ELSE IF WantsLaunchlabTrade(g) THEN Applied(g, y) ELSE Nothing
  BY DEF UnscopedTrade
<1>3. Nothing.is = "none"
  BY DEF Nothing
<1>4. WantsPumpFunTrade(All) /\ WantsLaunchlabTrade(All)
  BY AllIncludes DEF WantsPumpFunTrade, WantsLaunchlabTrade, PumpFunTradeTypes
<1>5. \A z : Applied(All, z) = z
  BY AllIncludes DEF Applied
<1>6. Parsed(All, "none", "trade", <<x, y>>) = u
  BY <1>1, <1>2, <1>4, <1>5, AllAllowed
<1>7. Parsed(f, "none", "trade", <<x, y>>) = IF a THEN Applied(f, r) ELSE Nothing
  BY <1>1
<1>8. r = IF (IF WantsPumpFunTrade(f) THEN Applied(f, x) ELSE Nothing).is # "none"
          THEN (IF WantsPumpFunTrade(f) THEN Applied(f, x) ELSE Nothing)
          ELSE IF WantsLaunchlabTrade(f) THEN Applied(f, y) ELSE Nothing
  BY <1>2
<1>9. WantsPumpFunTrade(f) \/ WantsLaunchlabTrade(f) => a
  <2>1. \A g : Allowed(g, "none", "trade") = IF g = All THEN TRUE ELSE AllowsUnscoped(g, "trade")
    BY DEF Allowed
  <2> QED BY <2>1 DEF AllowsUnscoped
<1>10. x.is = "event" /\ ShouldInclude(f, x.type) => WantsPumpFunTrade(f)
  BY TradesOf DEF Of, WantsPumpFunTrade
<1>11. y.is = "event" /\ ShouldInclude(f, y.type) => WantsLaunchlabTrade(f)
  BY TradesOf DEF Of, WantsLaunchlabTrade
<1> HIDE DEF r, a
<1>12. CASE x.is = "event" /\ ShouldInclude(f, x.type)
  <2>1. r = x
    BY <1>8, <1>10, <1>12, AppliedKeeps
  <2> QED BY <1>6, <1>7, <1>9, <1>10, <1>12, <2>1, AppliedKeeps DEF Kept
<1>13. CASE x.is = "none" /\ y.is = "event" /\ ShouldInclude(f, y.type)
  <2>1. (IF WantsPumpFunTrade(f) THEN Applied(f, x) ELSE Nothing).is = "none"
    BY <1>3, <1>13, AppliedKeeps
  <2>2. r = y
    BY <1>8, <1>11, <1>13, <2>1, AppliedKeeps
  <2> QED BY <1>6, <1>7, <1>9, <1>11, <1>13, <2>2, AppliedKeeps DEF Kept
<1>14. CASE /\ ~ (x.is = "event" /\ ShouldInclude(f, x.type))
            /\ ~ (x.is = "none" /\ y.is = "event" /\ ShouldInclude(f, y.type))
  <2>1. Applied(f, x).is # "event" /\ Applied(f, y).is # "event"
    BY <1>3, <1>14 DEF Applied
  <2>2. r.is # "event"
    BY <1>3, <1>8, <2>1
  <2>3. Parsed(f, "none", "trade", <<x, y>>).is # "event"
    BY <1>3, <1>7, <2>2, AppliedKeeps
  <2>4. ~ (u.is = "event" /\ ShouldInclude(f, u.type))
    BY <1>14
  <2> QED BY <1>6, <2>3, <2>4 DEF Kept
<1> QED BY <1>12, <1>13, <1>14

(* The second filter of a pump.fun trade takes a list by the letter. *)
ByTheLetter(f, t) ==
  IF "PUMP_FUN_TRADE" \in f.types THEN ~ Meet(f.types, TradeFamily \cup CreateFamily) ELSE t # "PUMP_FUN_TRADE"

(* The second filter of a pump.fun trade that is not misrouted leaves it. *)
LEMMA SecondaryKeeps ==
  ASSUME NEW f, NEW x, x.is = "event", x.type \in PumpFunTradeTypes, ShouldInclude(f, x.type), ByTheLetter(f, x.type)
  PROVE  Secondary(f, x) = x
<1> DEFINE letter == x.type \in f.types \/ (x.type \in BuyFamily /\ Meet(f.types, BuyFamily))
           strict == f.mode = "only" /\ Meet(f.types, TradeFamily \cup CreateFamily)
<1>1. Applied(f, x) = x
  BY DEF Applied
<1>2. Secondary(f, x) = IF strict /\ ~ letter THEN Nothing ELSE Applied(f, x)
  BY DEF Secondary
<1>3. CASE "PUMP_FUN_TRADE" \in f.types
  <2>1. ~ strict
    BY <1>3 DEF ByTheLetter
  <2> QED BY <1>1, <1>2, <2>1
<1>4. CASE "PUMP_FUN_TRADE" \notin f.types /\ strict
  <2>1. x.type \in TradeFamily
    BY <1>4 DEF ByTheLetter, PumpFunTradeTypes, TradeFamily, BuyFamily
  <2>2. Covers(f.types, x.type)
    BY <1>4, <2>1 DEF ShouldInclude, TradeFamily, BuyFamily
  <2>3. x.type \notin CreateFamily /\ x.type \notin {"PUMP_SWAP_BUY", "PUMP_SWAP_SELL"}
    BY <2>1 DEF TradeFamily, BuyFamily, CreateFamily
  <2>4. letter
    BY <1>4, <2>2, <2>3 DEF Covers, Families
  <2> QED BY <1>1, <1>2, <2>4
<1> QED BY <1>1, <1>2, <1>3, <1>4

(* So nothing is lost of a pump.fun trade. *)
LEMMA KeptPumpTrade ==
  ASSUME NEW f, NEW x, Of(x, Decoders["trade"]), x.is = "event" => ByTheLetter(f, x.type)
  PROVE  Kept(f, Parsed(All, "pumpfun", "trade", <<x>>), Parsed(f, "pumpfun", "trade", <<x>>))
<1>1. <<x>> # <<>> /\ Len(<<x>>) # 2 /\ <<x>>[1] = x
  OBVIOUS
<1>2. \A g : Dispatched(g, "pumpfun", "trade", <<x>>) = Secondary(g, x)
  BY <1>1 DEF Dispatched
<1>3. \A g : Parsed(g, "pumpfun", "trade", <<x>>) =
               IF Allowed(g, "pumpfun", "trade") THEN Applied(g, Secondary(g, x)) ELSE Nothing
  BY <1>2 DEF Parsed
<1>4. \A z : Applied(All, z) = z
  BY AllIncludes DEF Applied
<1>5. Secondary(All, x) = x
  <2>1. All.mode # "only"
    BY DEF All
  <2> QED BY <1>4, <2>1 DEF Secondary
<1>6. Parsed(All, "pumpfun", "trade", <<x>>) = x
  BY <1>3, <1>4, <1>5, AllAllowed
<1>7. Nothing.is # "event"
  BY DEF Nothing
<1>8. CASE x.is = "event" /\ ShouldInclude(f, x.type)
  <2>1. x.type \in PumpFunTradeTypes
    BY <1>8, TradesOf DEF Of
  <2>2. Secondary(f, x) = x
    BY <1>8, <2>1, SecondaryKeeps
  <2>3. WantsPumpFunTrade(f)
    BY <1>8, <2>1 DEF WantsPumpFunTrade
  <2>4. Allowed(f, "pumpfun", "trade")
    BY <2>3 DEF Allowed
  <2> QED BY <1>3, <1>6, <1>8, <2>2, <2>4, AppliedKeeps DEF Kept
<1>9. CASE ~ (x.is = "event" /\ ShouldInclude(f, x.type))
  <2>1. Applied(f, x).is # "event"
    BY <1>7, <1>9 DEF Applied
  <2>2. Secondary(f, x).is # "event"
    BY <1>7, <2>1 DEF Secondary
  <2>3. Applied(f, Secondary(f, x)).is # "event"
    BY <2>2, AppliedKeeps
  <2> QED BY <1>3, <1>6, <1>7, <1>9, <2>3 DEF Kept
<1> QED BY <1>8, <1>9

MisroutedBy(f, i, made) ==
  \/ i.program = "other" /\ (i.disc = "trade" \/ i.disc \notin DOMAIN LogTypes)
  \/ i.disc = "damm_liquidity_change"
  \/ i.program \in {"none", "other"} /\ i.disc \in {"meteora_add", "meteora_remove"}
  \/ /\ i.program = "pumpfun" /\ i.disc = "trade"
     /\ IF "PUMP_FUN_TRADE" \in f.types THEN Meet(f.types, TradeFamily \cup CreateFamily)
        ELSE made[1].type = "PUMP_FUN_TRADE"

(* Contents of a log line without a decoder, *)
LEMMA LogContentsNone ==
  ASSUME NEW i, i.origin = "log", NEW made \in Contents(i), Candidates(i.program, i.disc) = <<>>
  PROVE  made = <<>>
<1>1. i.origin \notin ShredForms /\ ~ MayBeTaken(i)
  BY DEF ShredForms, MayBeTaken
<1>2. Attempts(i) = <<>>
  BY DEF Attempts, LogAttempts, ShredForms
<1> QED BY <1>1, <1>2, ContentsNone

(* with one, *)
LEMMA LogContentsOne ==
  ASSUME NEW i, i.origin = "log", NEW made \in Contents(i), NEW c, Candidates(i.program, i.disc) = <<c>>
  PROVE  \E x : made = <<x>> /\ Of(x, Decoders[c])
<1>1. i.origin \notin ShredForms /\ ~ MayBeTaken(i)
  BY DEF ShredForms, MayBeTaken
<1>2. Attempts(i) = <<Decoders[c]>>
  BY DEF Attempts, LogAttempts, ShredForms
<1> QED BY <1>1, <1>2, ContentsOne, OfMakesOf

(* and of a trade of unknown origin. *)
LEMMA LogContentsTwo ==
  ASSUME NEW i, i.origin = "log", NEW made \in Contents(i),
         Candidates(i.program, i.disc) = <<"trade", "launchlab_trade">>
  PROVE  \E x, y : /\ made = <<x, y>>
                   /\ Of(x, Decoders["trade"]) /\ Of(y, Decoders["launchlab_trade"])
                   /\ y.is = "event" => x.is = "none"
<1>1. i.origin \notin ShredForms /\ ~ MayBeTaken(i)
  BY DEF ShredForms, MayBeTaken
<1>2. Attempts(i) = <<Decoders["trade"], Decoders["launchlab_trade"]>>
  BY DEF Attempts, LogAttempts, ShredForms
<1>3. PICK n : \E x \in MakesOf(i, Decoders["trade"], n), y \in MakesOf(i, Decoders["launchlab_trade"], n) :
                 made = <<x, y>>
  BY <1>1, <1>2, ContentsTwo
<1>4. \A decoder : MakesOf(i, decoder, n) = Makes(decoder, n)
  BY DEF MakesOf
<1> QED BY <1>3, <1>4, OfMakes, TradesApart

(* Nothing is lost of a log line. *)
LEMMA KeptLog ==
  ASSUME NEW f, IsFilter(f), NEW i, i.origin = "log", IsLogOf(i), NEW made \in Contents(i), ~ MisroutedBy(f, i, made)
  PROVE  Kept(f, Parsed(All, i.program, i.disc, made), Parsed(f, i.program, i.disc, made))
<1> DEFINE p == i.program
           d == i.disc
<1>1. CASE p \in Programs
  <2>1. p \notin {"none", "other"}
    BY <1>1, ProgramNames
  <2>2. CASE d \notin DOMAIN ScopedDecoder[p]
    <3>1. Candidates(p, d) = <<>>
      BY <2>1, <2>2 DEF Candidates
    <3> QED BY <3>1, LogContentsNone, KeptNone
  <2>3. CASE d \in DOMAIN ScopedDecoder[p]
    <3>1. Candidates(p, d) = <<ScopedDecoder[p][d]>>
      BY <2>1, <2>3 DEF Candidates
    <3>2. PICK x : made = <<x>> /\ Of(x, Decoders[ScopedDecoder[p][d]])
      BY <3>1, LogContentsOne
    <3>3. CASE p = "pumpfun" /\ d = "trade"
      <4>1. ScopedDecoder[p][d] = "trade"
        BY <2>3, <3>3, PumpFunScope, SameRange
      <4>2. ByTheLetter(f, x.type)
        BY <3>2, <3>3 DEF MisroutedBy, ByTheLetter
      <4> QED BY <3>2, <3>3, <4>1, <4>2, KeptPumpTrade
    <3>4. CASE ~ (p = "pumpfun" /\ d = "trade")
      <4>1. d # "damm_liquidity_change"
        BY DEF MisroutedBy
      <4> QED BY <1>1, <2>3, <3>2, <3>4, <4>1, KeptScoped
    <3> QED BY <3>3, <3>4
  <2> QED BY <2>2, <2>3
<1>2. CASE p \in {"none", "other"}
  <2>1. CASE Candidates(p, d) = <<>>
    BY <2>1, LogContentsNone, KeptNone
  <2>2. CASE Candidates(p, d) # <<>> /\ d = "trade"
    <3>1. p = "none"
      BY <1>2, <2>2 DEF MisroutedBy
    <3>2. Candidates(p, d) = <<"trade", "launchlab_trade">>
      BY <2>2, <3>1 DEF Candidates
    <3> QED BY <2>2, <3>1, <3>2, LogContentsTwo, KeptUnscopedTrade
  <2>3. CASE Candidates(p, d) # <<>> /\ d # "trade"
    <3>1. Candidates(p, d) = <<UnscopedDecoder(d)>> /\ d \notin ScopedOnly
      BY <1>2, <2>3 DEF Candidates, UnscopedDecoder, Legacy
    <3>2. PICK x : made = <<x>> /\ Of(x, Decoders[UnscopedDecoder(d)])
      BY <3>1, LogContentsOne
    <3>3. d \in Discs
      BY <1>2, <3>1, ProgramNames DEF IsLogOf, ScopedOnly
    <3>4. d \notin Shared /\ (p = "other" => d \in DOMAIN LogTypes)
      BY <1>2, <2>3 DEF MisroutedBy, Shared
    <3> QED BY <1>2, <3>1, <3>2, <3>3, <3>4, KeptUnscoped
  <2> QED BY <2>1, <2>2, <2>3
<1> QED BY <1>1, <1>2 DEF IsLogOf

-----------------------------------------------------------------------------
(* Shreds *)

(* What is kept, under the name it was asked for. *)
KeptAs(f, p, u, r) == IF u.is = "event" /\ ShouldInclude(f, u.type) THEN r = Renamed(f, p, u) ELSE r.is # "event"

(* A raw shred is told as a trade of unknown direction. *)
LEMMA RawContents ==
  ASSUME NEW i, i.origin \in ShredForms, IsRaw(i.program, i.disc), NEW made \in Contents(i)
  PROVE  \E x : made = <<x>> /\ (x.is = "event" => x.type = "PUMP_FUN_TRADE") /\ i.program # "pumpfun"
<1>1. Attempts(i) = ShredDecoders(i.program, i.disc)
  BY DEF Attempts, ShredForms
<1>2. PICK n : made \in MakesOfShred(Attempts(i), n)
  BY DEF Contents
<1>3. PICK a : ShredDecoders(i.program, i.disc) = <<a>> /\ a.types = {"PUMP_FUN_TRADE"}
  <2>1. Foreign.types = {"PUMP_FUN_TRADE"} /\ MultiHop.types = {"PUMP_FUN_TRADE"}
    BY DEF Foreign, MultiHop, Safe, Instruction
  <2>2. ShredDecoders(i.program, i.disc) = <<IF i.program = "other" THEN Foreign ELSE MultiHop>>
    BY DEF ShredDecoders
  <2> QED BY <2>1, <2>2
<1>4. PICK x \in MakesOfAccounts(a, n) : made = <<x>>
  BY <1>1, <1>2, <1>3, ShredOne
<1>5. Of(x, a)
  BY OfMakesOfAccounts
<1>6. i.program # "pumpfun"
  BY DEF IsRaw, RawInstructions
<1> QED BY <1>3, <1>4, <1>5, <1>6 DEF Of

(* Who names no direction and includes such trades gets them raw. *)
LEMMA RawTyped ==
  ASSUME NEW f, IsFilter(f), ~ (f.mode = "only" /\ Meet(f.types, TradeFamily))
  PROVE  ShouldInclude(f, "PUMP_FUN_TRADE") <=> WantsRaw(f)
<1>1. Covers(f.types, "PUMP_FUN_TRADE") <=> "PUMP_FUN_TRADE" \in f.types
  BY DEF Covers, Families, BuyFamily, CreateFamily, TradeFamily
<1>2. All.mode = "all"
  BY DEF All
<1> QED BY <1>1, <1>2 DEF IsFilter, ShouldInclude, WantsRaw

(* So nothing is lost of it, *)
LEMMA KeptRaw ==
  ASSUME NEW f, IsFilter(f), NEW i, i.origin \in ShredForms, IsRaw(i.program, i.disc), NEW made \in Contents(i),
         ~ (f.mode = "only" /\ Meet(f.types, TradeFamily))
  PROVE  KeptAs(f, i.program, ParsedShred(All, i.origin, i.program, i.disc, made),
                ParsedShred(f, i.origin, i.program, i.disc, made))
<1>1. PICK x : made = <<x>> /\ (x.is = "event" => x.type = "PUMP_FUN_TRADE") /\ i.program # "pumpfun"
  BY RawContents
<1>2. \A g : ParsedShred(g, i.origin, i.program, i.disc, made) = IF WantsRaw(g) THEN x ELSE Nothing
  BY <1>1, FirstOfOne DEF ParsedShred
<1>3. WantsRaw(All)
  BY DEF WantsRaw, All
<1>4. Nothing.is # "event"
  BY DEF Nothing
<1>5. Renamed(f, i.program, x) = x
  BY <1>1 DEF Renamed
<1> QED BY <1>1, <1>2, <1>3, <1>4, <1>5, RawTyped DEF KeptAs

(* nor of another shred. *)
LEMMA KeptShred ==
  ASSUME NEW f, IsFilter(f), NEW i, i.origin \in ShredForms, ~ IsRaw(i.program, i.disc), NEW made \in Contents(i)
  PROVE  KeptAs(f, i.program, ParsedShred(All, i.origin, i.program, i.disc, made),
                ParsedShred(f, i.origin, i.program, i.disc, made))
<1> DEFINE x == FirstOf(Resolved(i.origin, i.program, made))
<1>1. \A g : ParsedShred(g, i.origin, i.program, i.disc, made) =
               Renamed(g, i.program, ParsedInstruction(g, i.program, x))
  BY DEF ParsedShred
<1>2. OfPrograms(x, i.program)
  BY ShredContents
<1> HIDE DEF x
<1>3. Kept(f, ParsedInstruction(All, i.program, x), ParsedInstruction(f, i.program, x))
  BY <1>2, KeptInstruction
<1>4. \A r : Renamed(All, i.program, r) = r
  BY DEF Renamed, All
<1>5. \A r : r.is # "event" => Renamed(f, i.program, r) = r
  BY DEF Renamed
<1> QED BY <1>1, <1>3, <1>4, <1>5 DEF Kept, KeptAs

(* Nothing stays nothing. *)
LEMMA NothingPasses ==
  /\ Nothing.is = "none"
  /\ \A f : Applied(f, Nothing) = Nothing
  /\ \A f, p : ParsedInstruction(f, p, Nothing) = Nothing
  /\ \A f, p, d : ParsedEvent(f, p, d, Nothing) = Nothing
  /\ \A f, p : Renamed(f, p, Nothing) = Nothing
  /\ \A r : Or(r, Nothing) = r
<1>1. Nothing.is = "none"
  BY DEF Nothing
<1>2. \A f : Applied(f, Nothing) = Nothing
  BY <1>1 DEF Applied
<1> QED BY <1>1, <1>2 DEF ParsedInstruction, ParsedEvent, Renamed, Or

(* An instruction that a program makes, *)
LEMMA InnerIs ==
  ASSUME NEW f, NEW i, i.origin = "inner", NEW made
  PROVE  ParsedInner(f, i, made) =
           IF MayParse(i.program, i.disc) THEN ParsedInstruction(f, i.program, FirstOf(made)) ELSE Nothing
BY FirstOfNone, NothingPasses DEF ParsedInner

(* and an event it tells by a call. *)
LEMMA EventIs ==
  ASSUME NEW f, NEW i, i.origin \in {"prefixed", "suffixed"}, ~ MayBeTaken(i), NEW made
  PROVE  ParsedInner(f, i, made) =
           Or(Nothing, ParsedEvent(f, i.program, i.disc, FirstOf(SubSeq(made, 1, Len(made)))))
<1>1. SubSeq(made, 1, 0) = <<>>
  OBVIOUS
<1>2. 0 + 1 = 1
  OBVIOUS
<1> QED BY <1>1, <1>2, FirstOfNone, NothingPasses DEF ParsedInner

(* Nothing is lost of the first, *)
LEMMA KeptInner ==
  ASSUME NEW f, IsFilter(f), NEW i, i.origin = "inner", NEW made \in Contents(i)
  PROVE  Kept(f, ParsedInner(All, i, made), ParsedInner(f, i, made))
<1>1. OfPrograms(FirstOf(made), i.program)
  BY InstructionContents
<1>2. Kept(f, ParsedInstruction(All, i.program, FirstOf(made)), ParsedInstruction(f, i.program, FirstOf(made)))
  BY <1>1, KeptInstruction
<1> QED BY <1>2, InnerIs, NothingPasses DEF Kept

(* nor of the second, unless it is taken for an instruction. *)
LEMMA KeptEventForm ==
  ASSUME NEW f, IsFilter(f), NEW i, i.origin \in {"prefixed", "suffixed"}, IsEventOf(i), ~ MayBeTaken(i),
         NEW made \in Contents(i)
  PROVE  Kept(f, ParsedInner(All, i, made), ParsedInner(f, i, made))
<1> DEFINE x == FirstOf(SubSeq(made, 1, Len(made)))
<1>1. OfPrograms(x, i.program)
  BY EventContents
<1>2. \A g : ParsedInner(g, i, made) = Or(Nothing, ParsedEvent(g, i.program, i.disc, x))
  BY EventIs
<1> HIDE DEF x
<1>3. Kept(f, ParsedEvent(All, i.program, i.disc, x), ParsedEvent(f, i.program, i.disc, x))
  BY <1>1, KeptEvent
<1> QED BY <1>2, <1>3, NothingPasses DEF Kept, Or

-----------------------------------------------------------------------------
(* The specification *)

(* Nothing is lost, by origin. *)
LEMMA KeptResult ==
  ASSUME NEW f, IsFilter(f), NEW i \in AllInputs, NEW made \in Contents(i),
         ~ (i.origin = "log" /\ MisroutedBy(f, i, made)),
         ~ (i.origin \in ShredForms /\ IsRaw(i.program, i.disc) /\ f.mode = "only" /\ Meet(f.types, TradeFamily)),
         ~ MayBeTaken(i)
  PROVE  IF i.origin \in ShredForms THEN KeptAs(f, i.program, Returns(All, i, made), Returns(f, i, made))
         ELSE Kept(f, Returns(All, i, made), Returns(f, i, made))
<1>1. CASE i.origin = "log" /\ IsLogOf(i)
  <2>1. \A g : Returns(g, i, made) = Parsed(g, i.program, i.disc, made)
    BY <1>1 DEF Returns, ShredForms
  <2> QED BY <1>1, <2>1, KeptLog DEF ShredForms
<1>2. CASE i.origin = "instruction"
  <2>1. \A g : Returns(g, i, made) = ParsedInstruction(g, i.program, FirstOf(made))
    BY <1>2 DEF Returns, ShredForms
  <2> QED BY <1>2, <2>1, InstructionContents, KeptInstruction DEF ShredForms
<1>3. CASE i.origin = "inner"
  <2>1. \A g : Returns(g, i, made) = ParsedInner(g, i, made)
    BY <1>3 DEF Returns, ShredForms
  <2> QED BY <1>3, <2>1, KeptInner DEF ShredForms
<1>4. CASE i.origin \in {"prefixed", "suffixed"} /\ IsEventOf(i)
  <2>1. \A g : Returns(g, i, made) = ParsedInner(g, i, made)
    BY <1>4 DEF Returns, ShredForms
  <2> QED BY <1>4, <2>1, KeptEventForm DEF ShredForms
<1>5. CASE i.origin \in ShredForms
  <2>1. \A g : Returns(g, i, made) = ParsedShred(g, i.origin, i.program, i.disc, made)
    BY <1>5 DEF Returns, ShredForms
  <2> QED BY <1>5, <2>1, KeptRaw, KeptShred
<1>6. CASE i.origin = "account" /\ IsAccountOf(i)
  <2>1. \A g : Returns(g, i, made) = ParsedAccount(g, i.program, i.disc, FirstOf(made))
    BY <1>6 DEF Returns, ShredForms
  <2>2. AccountTold(FirstOf(made), i.program, i.disc)
    BY <1>6, AccountContents
  <2>3. CASE IsSnapshot(i.program, i.disc)
    BY <1>6, <2>1, <2>2, <2>3, KeptSnapshot DEF AccountTold, ShredForms
  <2>4. CASE ~ IsSnapshot(i.program, i.disc)
    BY <1>6, <2>1, <2>2, <2>4, KeptAccount DEF AccountTold, ShredForms
  <2> QED BY <2>3, <2>4
<1> QED BY <1>1, <1>2, <1>3, <1>4, <1>5, <1>6, InputKinds

IInv ==
  /\ input \in AllInputs
  /\ contents \in Contents(input)
  /\ IsFilter(filter)
  /\ result \in {Waiting, Returns(filter, input, contents)}

(* The filters of a state. *)
LEMMA FiltersOf == ASSUME NEW i, NEW f \in Filters(i) PROVE IsFilter(f)
BY DEF Filters, IsFilter

(* Inputs, filter and contents stay what they were at first, and the result is theirs. *)
LEMMA Invariance == Spec => []IInv
<1>1. Init => IInv
  BY FiltersOf DEF Init, IInv
<1>2. IInv /\ [Next]_vars => IInv'
  <2> SUFFICES ASSUME IInv, [Next]_vars PROVE IInv'
    OBVIOUS
  <2>1. CASE Parse
    BY <2>1 DEF Parse, IInv
  <2>2. CASE UNCHANGED vars
    BY <2>2 DEF vars, IInv
  <2> QED BY <2>1, <2>2 DEF Next
<1> QED BY <1>1, <1>2, PTL DEF Spec

(* So it is what the unfiltered result is, filtered. *)
LEMMA Soundness == IInv => PrefilterSound
<1> SUFFICES ASSUME IInv, result # Waiting,
                    ~ (input.origin = "log" /\ Misrouted(input.program, input.disc)),
                    ~ (input.origin \in ShredForms /\ IsRaw(input.program, input.disc) /\ DirectionWanted),
                    ~ MayBeTaken(input)
             PROVE  LET u == Returns(All, input, contents)
                    IN IF u.is = "event" /\ ShouldInclude(filter, u.type)
                       THEN result = AsAsked(u) ELSE result.is # "event"
  BY DEF PrefilterSound
<1>1. result = Returns(filter, input, contents)
  BY DEF IInv
<1>2. ~ (input.origin = "log" /\ MisroutedBy(filter, input, contents))
  BY DEF Misrouted, MisroutedBy
<1>3. ~ (input.origin \in ShredForms /\ IsRaw(input.program, input.disc)
         /\ filter.mode = "only" /\ Meet(filter.types, TradeFamily))
  BY DEF DirectionWanted
<1>4. IF input.origin \in ShredForms
      THEN KeptAs(filter, input.program, Returns(All, input, contents), Returns(filter, input, contents))
      ELSE Kept(filter, Returns(All, input, contents), Returns(filter, input, contents))
  BY <1>2, <1>3, KeptResult DEF IInv
<1> QED BY <1>1, <1>4 DEF KeptAs, Kept, AsAsked

(* Of data of any length, with strings of any sizes, under any list or exclusion of  *)
(* event types and by every decoder, asking the filter before decoding gives what    *)
(* filtering the decoded event would; the inputs named by Misrouted, DirectionWanted *)
(* and MayBeTaken, where it does not, are left out.                                  *)
THEOREM PrefilterSoundness == Spec => []PrefilterSound
BY Invariance, Soundness, PTL

-----------------------------------------------------------------------------
(* Instructions within programs, and shreds *)

LikeIt(p) == \A d \in DOMAIN InstructionDecoders[p] : MayParse(p, d) <=> ~ OnlyOuter(p, d)

(* The list has the instructions of pump.fun but for the outer ones. *)
LEMMA PumpFunLikeIt == LikeIt("pumpfun")
<1>1. InstructionDecoders["pumpfun"] = PumpFunInstructions
  BY DEF InstructionDecoders
<1>2. /\ "pumpfun" \in DOMAIN InnerInstructions
      /\ InnerInstructions["pumpfun"] =
        {"buy_v3", "buy_exact_quote_in_v3", "sell_v3", "create", "create_v2", "buy", "sell",
        "buy_exact_sol_in", "buy_v2", "buy_exact_quote_in_v2", "sell_v2"}
  BY DEF InnerInstructions
<1>3. \A d \in DOMAIN PumpFunInstructions : d \in InnerInstructions["pumpfun"] <=> ~ OnlyOuter("pumpfun", d)
  BY <1>2 DEF OnlyOuter, PumpFunInstructions, PumpFunTrades, PumpFunCreates, Merge
<1> QED BY <1>1, <1>2, <1>3 DEF LikeIt, MayParse

(* The list has the instructions of PumpSwap but for the outer ones. *)
LEMMA PumpSwapLikeIt == LikeIt("pumpswap")
<1>1. InstructionDecoders["pumpswap"] = PumpSwapInstructions
  BY DEF InstructionDecoders
<1>2. /\ "pumpswap" \in DOMAIN InnerInstructions
      /\ InnerInstructions["pumpswap"] =
        {"buy", "sell", "buy_v3", "buy_exact_quote_in_v3", "sell_v3", "create_pool",
        "buy_exact_quote_in", "deposit", "withdraw"}
  BY DEF InnerInstructions
<1>3. \A d \in DOMAIN PumpSwapInstructions : d \in InnerInstructions["pumpswap"] <=> ~ OnlyOuter("pumpswap", d)
  BY <1>2 DEF OnlyOuter, PumpSwapInstructions
<1> QED BY <1>1, <1>2, <1>3 DEF LikeIt, MayParse

(* The list has the instructions of pump.fun fees but for the outer ones. *)
LEMMA PumpFeesLikeIt == LikeIt("pump_fees")
<1>1. InstructionDecoders["pump_fees"] = PumpFeesInstructions
  BY DEF InstructionDecoders
<1>2. "pump_fees" \in DOMAIN InnerInstructions /\ InnerInstructions["pump_fees"] = DOMAIN PumpFeesInstructions
  BY DEF InnerInstructions
<1> QED BY <1>1, <1>2 DEF LikeIt, MayParse, OnlyOuter

(* The list has the instructions of DAMM v2 but for the outer ones. *)
LEMMA DammLikeIt == LikeIt("damm_v2")
<1>1. InstructionDecoders["damm_v2"] = DammInstructions
  BY DEF InstructionDecoders
<1>2. /\ "damm_v2" \in DOMAIN InnerInstructions
      /\ InnerInstructions["damm_v2"] =
        {"init"}
  BY DEF InnerInstructions
<1>3. \A d \in DOMAIN DammInstructions : d \in InnerInstructions["damm_v2"] <=> ~ OnlyOuter("damm_v2", d)
  BY <1>2 DEF OnlyOuter, DammInstructions
<1> QED BY <1>1, <1>2, <1>3 DEF LikeIt, MayParse

(* The list has the instructions of the Meteora pools but for the outer ones. *)
LEMMA PoolsLikeIt == LikeIt("pools")
<1>1. InstructionDecoders["pools"] = PoolsInstructions
  BY DEF InstructionDecoders
<1>2. /\ "pools" \in DOMAIN InnerInstructions
      /\ InnerInstructions["pools"] =
        {"swap", "add_liquidity", "remove_liquidity", "create_pool", "create_pool_config2"}
  BY DEF InnerInstructions
<1>3. \A d \in DOMAIN PoolsInstructions : d \in InnerInstructions["pools"] <=> ~ OnlyOuter("pools", d)
  BY <1>2 DEF OnlyOuter, PoolsInstructions
<1> QED BY <1>1, <1>2, <1>3 DEF LikeIt, MayParse

(* The list has the instructions of DLMM but for the outer ones. *)
LEMMA DlmmLikeIt == LikeIt("dlmm")
<1>1. InstructionDecoders["dlmm"] = DlmmInstructions
  BY DEF InstructionDecoders
<1>2. "dlmm" \in DOMAIN InnerInstructions /\ InnerInstructions["dlmm"] = DOMAIN DlmmInstructions
  BY DEF InnerInstructions
<1> QED BY <1>1, <1>2 DEF LikeIt, MayParse, OnlyOuter

(* The list has the instructions of CLMM but for the outer ones. *)
LEMMA ClmmLikeIt == LikeIt("clmm")
<1>1. InstructionDecoders["clmm"] = ClmmInstructions
  BY DEF InstructionDecoders
<1>2. /\ "clmm" \in DOMAIN InnerInstructions
      /\ InnerInstructions["clmm"] =
        {"swap", "swap_v2", "inc_liq", "dec_liq", "create", "create_customizable_pool",
        "open_position", "open_position_v2", "open_position_with_token_22_nft",
        "close_position"}
  BY DEF InnerInstructions
<1>3. \A d \in DOMAIN ClmmInstructions : d \in InnerInstructions["clmm"] <=> ~ OnlyOuter("clmm", d)
  BY <1>2 DEF OnlyOuter, ClmmInstructions
<1> QED BY <1>1, <1>2, <1>3 DEF LikeIt, MayParse

(* The list has the instructions of CPMM but for the outer ones. *)
LEMMA CpmmLikeIt == LikeIt("cpmm")
<1>1. InstructionDecoders["cpmm"] = CpmmInstructions
  BY DEF InstructionDecoders
<1>2. /\ "cpmm" \in DOMAIN InnerInstructions
      /\ InnerInstructions["cpmm"] =
        {"swap", "swap_out", "initialize", "initialize_permission", "deposit", "withdraw"}
  BY DEF InnerInstructions
<1>3. \A d \in DOMAIN CpmmInstructions : d \in InnerInstructions["cpmm"] <=> ~ OnlyOuter("cpmm", d)
  BY <1>2 DEF OnlyOuter, CpmmInstructions
<1> QED BY <1>1, <1>2, <1>3 DEF LikeIt, MayParse

(* The list has the instructions of AMM v4 but for the outer ones. *)
LEMMA AmmLikeIt == LikeIt("amm_v4")
<1>1. InstructionDecoders["amm_v4"] = AmmInstructions
  BY DEF InstructionDecoders
<1>2. /\ "amm_v4" \in DOMAIN InnerInstructions
      /\ InnerInstructions["amm_v4"] =
        {"initialize2", "deposit", "withdraw", "withdraw_pnl", "swap_base_in",
        "swap_base_out", "swap_base_in_v2", "swap_base_out_v2"}
  BY DEF InnerInstructions
<1>3. \A d \in DOMAIN AmmInstructions : d \in InnerInstructions["amm_v4"] <=> ~ OnlyOuter("amm_v4", d)
  BY <1>2 DEF OnlyOuter, AmmInstructions
<1> QED BY <1>1, <1>2, <1>3 DEF LikeIt, MayParse

(* The list has the instructions of LaunchLab but for the outer ones. *)
LEMMA LaunchlabLikeIt == LikeIt("launchlab")
<1>1. InstructionDecoders["launchlab"] = LaunchlabInstructions
  BY DEF InstructionDecoders
<1>2. /\ "launchlab" \in DOMAIN InnerInstructions
      /\ InnerInstructions["launchlab"] =
        {"buy_exact_in", "buy_exact_out", "sell_exact_in", "sell_exact_out", "initialize",
        "initialize_v2", "initialize_with_token_2022"}
  BY DEF InnerInstructions
<1>3. \A d \in DOMAIN LaunchlabInstructions : d \in InnerInstructions["launchlab"] <=> ~ OnlyOuter("launchlab", d)
  BY <1>2 DEF OnlyOuter, LaunchlabInstructions
<1> QED BY <1>1, <1>2, <1>3 DEF LikeIt, MayParse

(* The list has the instructions of Orca but for the outer ones. *)
LEMMA OrcaLikeIt == LikeIt("orca")
<1>1. InstructionDecoders["orca"] = OrcaInstructions
  BY DEF InstructionDecoders
<1>2. /\ "orca" \in DOMAIN InnerInstructions
      /\ InnerInstructions["orca"] =
        {"swap", "swap_v2", "inc_liq", "inc_liq_v2", "dec_liq", "dec_liq_v2", "init_pool"}
  BY DEF InnerInstructions
<1>3. \A d \in DOMAIN OrcaInstructions : d \in InnerInstructions["orca"] <=> ~ OnlyOuter("orca", d)
  BY <1>2 DEF OnlyOuter, OrcaInstructions
<1> QED BY <1>1, <1>2, <1>3 DEF LikeIt, MayParse

(* The list of instructions that are decoded when a program makes them has all but the *)
(* outer ones.                                                                         *)
LEMMA AllLikeIt == \A p \in DOMAIN InstructionDecoders : LikeIt(p)
BY InstructionNames, PumpFunLikeIt, PumpSwapLikeIt, PumpFeesLikeIt, DammLikeIt, PoolsLikeIt, DlmmLikeIt,
   ClmmLikeIt, CpmmLikeIt, AmmLikeIt, LaunchlabLikeIt, OrcaLikeIt

(* Instructions are of programs with decoders, *)
LEMMA InstructionsOf == ASSUME NEW x \in Instructions PROVE x[1] \in DOMAIN InstructionDecoders
BY DEF Instructions

(* and so are those a program makes. *)
LEMMA InnerInputsOf ==
  ASSUME NEW i \in AllInputs, i.origin = "inner"
  PROVE  i.program \in DOMAIN InstructionDecoders
<1>1. i \in Inputs("inner", Instructions)
  <2>1. \A o, S : i \in Inputs(o, S) => o = "inner"
    BY InputParts
  <2>2. i \notin LogInputs /\ i \notin AccountInputs
    BY <2>1 DEF LogInputs, AccountInputs
  <2>3. i \notin Inputs("instruction", Instructions) /\ i \notin Inputs("prefixed", Events)
        /\ i \notin Inputs("suffixed", Events)
    BY <2>1
  <2>4. i \notin ShredInputs
    <3>1. \A form \in ShredForms : form # "inner"
      BY DEF ShredForms
    <3> QED BY <2>1, <3>1 DEF ShredInputs
  <2> QED BY <2>2, <2>3, <2>4 DEF AllInputs, InnerInputs
<1>2. PICK x \in Instructions : i.program = x[1]
  BY <1>1, InputParts
<1> QED BY <1>2, InstructionsOf

(* What is told of an instruction a program makes. *)
LEMMA InnerTold ==
  ASSUME NEW f, NEW i \in AllInputs, i.origin = "inner", NEW made \in Contents(i)
  PROVE  Returns(f, i, made) =
           IF OnlyOuter(i.program, i.disc) THEN Nothing ELSE ParsedInstruction(f, i.program, FirstOf(made))
<1> DEFINE outer == ParsedInstruction(f, i.program, FirstOf(made))
<1>1. Returns(f, i, made) = ParsedInner(f, i, made)
  BY DEF Returns, ShredForms
<1>2. Returns(f, i, made) = IF MayParse(i.program, i.disc) THEN outer ELSE Nothing
  BY <1>1, InnerIs
<1>3. i.program \in DOMAIN InstructionDecoders
  BY InnerInputsOf
<1>4. CASE i.disc \in DOMAIN InstructionDecoders[i.program]
  BY <1>2, <1>3, <1>4, AllLikeIt DEF LikeIt
<1>5. CASE i.disc \notin DOMAIN InstructionDecoders[i.program]
  <2>1. Attempts(i) = <<>>
    BY <1>5 DEF Attempts, ShredForms, CompiledDecoders
  <2>2. i.origin \notin ShredForms /\ ~ MayBeTaken(i)
    BY DEF ShredForms, MayBeTaken
  <2>3. made = <<>>
    BY <2>1, <2>2, ContentsNone
  <2>4. outer = Nothing
    BY <2>3, FirstOfNone, NothingPasses
  <2> QED BY <1>2, <2>4
<1> QED BY <1>4, <1>5

(* What is left of the contents of a shred if an account is not known. *)
LEMMA ResolvedOf ==
  ASSUME NEW i, i.origin \in ShredForms, ~ IsRaw(i.program, i.disc), NEW made \in Contents(i),
         ~ (IsShort(i.program, i.disc) /\ made[2] # Nothing)
  PROVE  Resolved(i.origin, i.program, made) =
           IF i.origin = "unresolved" /\ i.program # "pumpfun" THEN <<>> ELSE made
<1>1. Attempts(i) = ShredDecoders(i.program, i.disc)
  BY DEF Attempts, ShredForms
<1>2. PICK n : made \in MakesOfShred(Attempts(i), n)
  BY DEF Contents
<1>3. CASE ~ (i.origin = "unresolved" /\ i.program = "pumpfun")
  BY <1>3 DEF Resolved
<1>4. ASSUME i.origin = "unresolved" /\ i.program = "pumpfun"
      PROVE  [k \in DOMAIN made |-> IF k = 1 THEN made[k] ELSE Nothing] = made
  <2>1. CASE ShredDecoders(i.program, i.disc) = <<>>
    <3>1. made = <<>>
      BY <1>1, <1>2, <2>1, ShredNone
    <3> QED BY <3>1
  <2>2. ASSUME NEW a, ShredDecoders(i.program, i.disc) = <<a>>
        PROVE  [k \in DOMAIN made |-> IF k = 1 THEN made[k] ELSE Nothing] = made
    <3>1. PICK x \in MakesOfAccounts(a, n) : made = <<x>>
      BY <1>1, <1>2, <2>2, ShredOne
    <3> QED BY <3>1
  <2>3. ASSUME NEW a, NEW b, ShredDecoders(i.program, i.disc) = <<a, b>>, IsShort(i.program, i.disc)
        PROVE  [k \in DOMAIN made |-> IF k = 1 THEN made[k] ELSE Nothing] = made
    <3>1. PICK x, y : made = <<x, y>>
      BY <1>1, <1>2, <2>3, ShredTwo
    <3>2. y = Nothing
      BY <2>3, <3>1
    <3> QED BY <3>1, <3>2
  <2> QED BY <2>1, <2>2, <2>3, ShredOf
<1>5. CASE i.origin = "unresolved" /\ i.program = "pumpfun"
  BY <1>4, <1>5 DEF Resolved
<1> QED BY <1>3, <1>5

(* What is told of a shred. *)
LEMMA ShredTold ==
  ASSUME NEW f, NEW i, i.origin \in ShredForms, ~ IsRaw(i.program, i.disc), NEW made \in Contents(i),
         ~ (IsShort(i.program, i.disc) /\ made[2] # Nothing)
  PROVE  Returns(f, i, made) =
           IF i.origin = "unresolved" /\ i.program # "pumpfun" THEN Nothing
           ELSE Renamed(f, i.program, ParsedInstruction(f, i.program, FirstOf(made)))
<1>1. Returns(f, i, made) = ParsedShred(f, i.origin, i.program, i.disc, made)
  BY DEF Returns, ShredForms
<1>2. Returns(f, i, made) =
        Renamed(f, i.program, ParsedInstruction(f, i.program, FirstOf(Resolved(i.origin, i.program, made))))
  BY <1>1 DEF ParsedShred
<1> QED BY <1>2, ResolvedOf, FirstOfNone, NothingPasses

(* Both are what the top-level instruction is told as. *)
LEMMA Likeness == IInv => LikeOuter
<1> SUFFICES ASSUME IInv, result # Waiting
             PROVE  InnerLikeOuter(AsOuter) /\ ShredLikeOuter(AsOuter)
  BY DEF LikeOuter
<1>1. result = Returns(filter, input, contents)
  BY DEF IInv
<1>2. InnerLikeOuter(AsOuter)
  BY <1>1, InnerTold DEF IInv, InnerLikeOuter, AsOuter
<1>3. ShredLikeOuter(AsOuter)
  <2> SUFFICES ASSUME input.origin \in ShredForms, ~ IsRaw(input.program, input.disc), ~ ShortlyTold
               PROVE  result = IF input.origin = "unresolved" /\ input.program # "pumpfun" THEN Nothing
                               ELSE AsAsked(AsOuter)
    BY DEF ShredLikeOuter
  <2>1. ~ (IsShort(input.program, input.disc) /\ contents[2] # Nothing)
    BY DEF ShortlyTold
  <2>2. AsAsked(AsOuter) =
          Renamed(filter, input.program, ParsedInstruction(filter, input.program, FirstOf(contents)))
    BY DEF AsAsked, AsOuter
  <2> QED BY <1>1, <2>1, <2>2, ShredTold DEF IInv
<1> QED BY <1>2, <1>3

(* Of data of any length and any accounts, an instruction made by a program is told as *)
(* at the top level, or not at all if it is an outer one; and so is a shred, under the *)
(* name it was asked for.                                                              *)
THEOREM LikeOuterHolds == Spec => []LikeOuter
BY Invariance, Likeness, PTL
-----------------------------------------------------------------------------
(* Reading of data: a reader in step with what is known of the data *)

Statuses == {"reading", "event", "none", "raised"}

ReaderRecords == [at : Nat, status : Statuses, missing : BOOLEAN, flaws : SUBSET {"cut", "shifted", "lost"}]

(* A reader of data of which at least b bytes are left, if b is no less than *)
(* 0. With b = -1 it may be beyond the data with every field whole or absent, *)
(* and with b = -2 also with a field that was cut off by the end.            *)
InStep(r, b, length) ==
  \/ ~ r.missing /\ r.flaws = {} /\ length - r.at >= 0 /\ length - r.at >= b
  \/ b <= -1 /\ length - r.at < 0 /\ (r.flaws = {} \/ (b <= -2 /\ r.flaws = {"cut"}))

(* It reads on, or has told an event without a flaw, or none.                *)
Tracked(r, b, length) ==
  /\ r \in ReaderRecords
  /\ \/ r.status = "reading" /\ InStep(r, b, length)
     \/ r.status = "event" /\ r.flaws = {}
     \/ r.status = "none" /\ "lost" \notin r.flaws

Reads ==
  {"word", "slice", "skip", "need", "sizes", "exactly", "one_of", "checked", "event_if", "flag", "later_flag",
   "later", "optional", "try_string", "loose_text", "optional_string", "text", "vector", "optional_vector",
   "option", "loose_option", "ticks"}

Items == [read : Reads, size : Nat, times : Nat, sizes : SUBSET Nat]

(* From b bytes that are left, what is read leaves e, or the reader stops.   *)
Keeps(item, b, e) ==
  /\ item \in Items
  /\ \/ item.read \in {"word", "slice", "skip", "flag", "checked"} /\ item.size <= b /\ e <= b - item.size
     \/ item.read = "slice" /\ b >= 0 /\ e <= -2
     \/ item.read \in {"need", "exactly"} /\ (e <= b \/ e <= item.size)
     \/ item.read = "event_if" /\ e <= b
     \/ item.read = "sizes" /\ e <= item.size /\ \A n \in item.sizes : e <= n
     \/ item.read = "one_of" /\ \A n \in item.sizes : e <= n
     \/ item.read \in {"later", "later_flag"} /\ item.size > 0 /\ b >= -1 /\ (e <= -1 \/ e <= b - item.size)
     \/ item.read = "try_string" /\ e <= -2
     \/ item.read \in {"text", "vector"} /\ e <= 0
     \/ item.read \in {"option", "loose_option"} /\ b >= 1 /\ e <= 0
     \/ item.read = "ticks" /\ b >= 0 /\ e <= 0

(* What a reader moved on is, *)
LEMMA MoveKeeps ==
  ASSUME NEW r \in ReaderRecords, NEW n \in Nat
  PROVE  /\ Move(r, n) \in ReaderRecords
         /\ Move(r, n).at = r.at + n /\ Move(r, n).status = r.status /\ Move(r, n).missing = r.missing
         /\ Move(r, n).flaws = r.flaws
<1>1. r.at + n \in Nat
  BY DEF ReaderRecords
<1> DEFINE at == r.at + n
<1>2. Move(r, n) = [r EXCEPT !.at = at]
  BY DEF Move
<1> HIDE DEF at
<1> QED BY <1>1, <1>2 DEF ReaderRecords, at

(* one that took bytes, *)
LEMMA TakeKeeps ==
  ASSUME NEW r \in ReaderRecords, NEW n \in Nat
  PROVE  /\ Take(r, n) \in ReaderRecords
         /\ Take(r, n).at = r.at + n /\ Take(r, n).status = r.status /\ Take(r, n).missing = r.missing
         /\ ~ r.missing => Take(r, n).flaws = r.flaws
<1> DEFINE m == Move(r, n) flaws == m.flaws \cup (IF r.missing THEN {"shifted"} ELSE {})
<1>1. m \in ReaderRecords /\ m.at = r.at + n /\ m.status = r.status /\ m.missing = r.missing /\ m.flaws = r.flaws
  BY MoveKeeps
<1>2. Take(r, n) = [m EXCEPT !.flaws = flaws]
  BY DEF Take
<1>3. flaws \in SUBSET {"cut", "shifted", "lost"} /\ (~ r.missing => flaws = r.flaws)
  BY <1>1 DEF ReaderRecords
<1> HIDE DEF m, flaws
<1> QED BY <1>1, <1>2, <1>3 DEF ReaderRecords

(* or took fewer than it asked for, *)
LEMMA TakeCutKeeps ==
  ASSUME NEW r \in ReaderRecords, NEW n \in Nat
  PROVE  /\ TakeCut(r, n) \in ReaderRecords
         /\ TakeCut(r, n).at = r.at + n /\ TakeCut(r, n).status = r.status /\ TakeCut(r, n).missing = r.missing
         /\ ~ r.missing => TakeCut(r, n).flaws = r.flaws \cup {"cut"}
<1> DEFINE t == Take(r, n) flaws == t.flaws \cup {"cut"}
<1>1. TakeCut(r, n) = [t EXCEPT !.flaws = flaws]
  BY DEF TakeCut
<1>2. flaws \in SUBSET {"cut", "shifted", "lost"} /\ (~ r.missing => flaws = r.flaws \cup {"cut"})
  BY TakeKeeps DEF ReaderRecords
<1>3. t \in ReaderRecords /\ t.at = r.at + n /\ t.status = r.status /\ t.missing = r.missing
  BY TakeKeeps
<1> HIDE DEF t, flaws
<1> QED BY <1>1, <1>2, <1>3 DEF ReaderRecords

(* one set beyond the data, *)
LEMMA BeyondKeeps ==
  ASSUME NEW r \in ReaderRecords, NEW n \in Nat
  PROVE  /\ Beyond(r, n) \in ReaderRecords
         /\ Beyond(r, n).at = r.at + n /\ Beyond(r, n).status = r.status /\ Beyond(r, n).flaws = r.flaws
<1> DEFINE m == Move(r, n)
<1>1. m \in ReaderRecords /\ m.at = r.at + n /\ m.status = r.status /\ m.flaws = r.flaws
  BY MoveKeeps
<1>2. Beyond(r, n) = [m EXCEPT !.missing = TRUE]
  BY DEF Beyond, Missing
<1> HIDE DEF m
<1> QED BY <1>1, <1>2 DEF ReaderRecords

(* and one that stopped. *)
LEMMA StopKeeps ==
  ASSUME NEW r \in ReaderRecords, NEW s \in Statuses
  PROVE  /\ Stop(r, s) \in ReaderRecords
         /\ Stop(r, s).status = s /\ Stop(r, s).flaws = r.flaws
BY DEF Stop, ReaderRecords, Statuses

(* What is taken of data that is there is in step. *)
LEMMA TakeTracked ==
  ASSUME NEW r \in ReaderRecords, r.status = "reading", NEW length \in Nat, NEW e \in Int, NEW n \in Nat,
         ~ r.missing, r.flaws = {}, length - r.at >= n, e <= 0 \/ length - r.at - n >= e
  PROVE  Tracked(Take(r, n), e, length)
BY TakeKeeps DEF Tracked, InStep, ReaderRecords

(* So is a reader that stops. *)
LEMMA NoneTracked ==
  ASSUME NEW r \in ReaderRecords, "lost" \notin r.flaws, NEW length, NEW e
  PROVE  Tracked(Stop(r, "none"), e, length)
BY StopKeeps DEF Tracked, Statuses

(* A reader in step is before the end of the data unless it may be beyond. *)
LEMMA InStepFacts ==
  ASSUME NEW r \in ReaderRecords, NEW length \in Nat, NEW b \in Int, InStep(r, b, length)
  PROVE  /\ length - r.at \in Int /\ "lost" \notin r.flaws
         /\ length - r.at >= 0 => ~ r.missing /\ r.flaws = {} /\ length - r.at >= b
         /\ length - r.at < 0 => b <= -1
         /\ b >= -1 => r.flaws = {}
<1>1. length - r.at \in Int
  BY DEF ReaderRecords
<1> QED BY <1>1 DEF InStep

(* Reads of fixed size keep readers in step, *)
LEMMA WordKeeps ==
  ASSUME NEW item, NEW r \in ReaderRecords, NEW length \in Nat, NEW b \in Int, NEW e \in Int,
         Keeps(item, b, e), InStep(r, b, length), r.status = "reading",
         item.read \in {"word", "slice", "skip", "flag", "checked"},
         NEW s \in After(item, r, length)
  PROVE  Tracked(s, e, length)
<1>l. PICK left \in Int : left = length - r.at
  BY InStepFacts
<1>m. PICK n \in Nat : n = item.size
  BY DEF Keeps, Items
<1>f. /\ left = length - r.at /\ n = item.size
      /\ left \in Int /\ n \in Nat /\ item.sizes \in SUBSET Nat /\ "lost" \notin r.flaws
      /\ left >= 0 => ~ r.missing /\ r.flaws = {} /\ left >= b
      /\ left < 0 => b <= -1
      /\ b >= -1 => r.flaws = {}
  BY <1>l, <1>m, InStepFacts DEF Keeps, Items
<1>a. left \in Int /\ n \in Nat /\ (left >= 0 => left >= b) /\ (left < 0 => b <= -1)
  BY <1>f
<1>r. left >= 0 => ~ r.missing /\ r.flaws = {}
  BY <1>f
<1>n. Tracked(Stop(r, "none"), e, length)
  BY <1>f, NoneTracked
<1>c. ASSUME item.read = "slice", b >= 0, e <= -2 PROVE Tracked(s, e, length)
  <2>1. s \in {IF left >= n THEN Take(r, n) ELSE TakeCut(r, n)}
    BY <1>f, <1>c DEF After
  <2>2. left >= 0 /\ ~ r.missing /\ r.flaws = {}
    BY <1>a, <1>r, <1>c
  <2>3. CASE left >= n
    <3>1. e <= 0 /\ length - r.at >= n
      BY <1>f, <1>c, <2>3
    <3> QED BY <2>1, <2>2, <2>3, <3>1, TakeTracked
  <2>4. CASE left < n
    <3>1. s = TakeCut(r, n)
      BY <2>1, <2>4, <1>a
    <3>2. s \in ReaderRecords /\ s.at = r.at + n /\ s.status = "reading" /\ s.flaws = {"cut"}
      BY <2>2, <3>1, TakeCutKeeps
    <3>3. PICK at \in Nat : at = r.at
      BY DEF ReaderRecords
    <3>4. length - (at + n) < 0
      BY <1>l, <1>a, <2>4, <3>3
    <3>5. e <= -1
      BY <1>c
    <3> QED BY <1>c, <3>2, <3>3, <3>4, <3>5 DEF Tracked, InStep
  <2> QED BY <2>3, <2>4, <1>a
<1>s. CASE item.read = "slice" /\ b >= 0 /\ e <= -2
  BY <1>c, <1>s
<1> SUFFICES ASSUME n <= b, e <= b - n PROVE Tracked(s, e, length)
  BY <1>f, <1>s DEF Keeps
<1>1. n <= b /\ e <= b - n
  OBVIOUS
<1>2. ~ r.missing /\ r.flaws = {} /\ left >= n /\ left - n >= e
  BY <1>f, <1>1
<1>3. Tracked(Take(r, n), e, length)
  BY <1>f, <1>2, TakeTracked
<1>4. CASE item.read = "word"
  <2>1. s \in {IF left >= n THEN Take(r, n) ELSE Stop(r, "raised")}
    BY <1>f, <1>4 DEF After
  <2> QED BY <2>1, <1>2, <1>3
<1>5. CASE item.read = "slice"
  <2>1. s \in {IF left >= n THEN Take(r, n) ELSE TakeCut(r, n)}
    BY <1>f, <1>5 DEF After
  <2> QED BY <2>1, <1>2, <1>3
<1>6. CASE item.read = "skip"
  <2>1. s \in {Move(r, n)}
    BY <1>f, <1>6 DEF After
  <2> QED BY <2>1, <1>f, <1>2, MoveKeeps DEF Tracked, InStep, ReaderRecords
<1>7. CASE item.read = "flag"
  <2>1. s \in IF left >= n THEN {Take(r, n), Stop(r, "none")} ELSE {Stop(r, "raised")}
    BY <1>f, <1>7 DEF After
  <2> QED BY <2>1, <1>n, <1>2, <1>3
<1>8. CASE item.read = "checked"
  <2>1. s \in {IF left >= n THEN Take(r, n) ELSE [Stop(r, "none") EXCEPT !.flaws = {"lost"}]}
    BY <1>f, <1>8 DEF After
  <2> QED BY <2>1, <1>2, <1>3
<1> QED BY <1>4, <1>5, <1>6, <1>7, <1>8

(* as do tests of the size, *)
LEMMA GuardKeeps ==
  ASSUME NEW item, NEW r \in ReaderRecords, NEW length \in Nat, NEW b \in Int, NEW e \in Int,
         Keeps(item, b, e), InStep(r, b, length), r.status = "reading",
         item.read \in {"need", "exactly", "sizes", "one_of"},
         NEW s \in After(item, r, length)
  PROVE  Tracked(s, e, length)
<1>l. PICK left \in Int : left = length - r.at
  BY InStepFacts
<1>m. PICK n \in Nat : n = item.size
  BY DEF Keeps, Items
<1>f. /\ left = length - r.at /\ n = item.size
      /\ left \in Int /\ n \in Nat /\ item.sizes \in SUBSET Nat /\ "lost" \notin r.flaws
      /\ left >= 0 => ~ r.missing /\ r.flaws = {} /\ left >= b
      /\ left < 0 => b <= -1
      /\ b >= -1 => r.flaws = {}
  BY <1>l, <1>m, InStepFacts DEF Keeps, Items
<1>a. left \in Int /\ n \in Nat /\ (left >= 0 => left >= b) /\ (left < 0 => b <= -1)
  BY <1>f
<1>r. left >= 0 => ~ r.missing /\ r.flaws = {}
  BY <1>f
<1>n. Tracked(Stop(r, "none"), e, length)
  BY <1>f, NoneTracked
<1>1. ASSUME left >= 0, left >= e PROVE Tracked(r, e, length)
  BY <1>f, <1>1 DEF Tracked, InStep
<1>2. CASE item.read = "need"
  <2>1. s \in {IF left >= n THEN r ELSE Stop(r, "none")}
    BY <1>f, <1>2 DEF After
  <2>2. e <= b \/ e <= n
    BY <1>f, <1>2 DEF Keeps
  <2>3. left >= n => left >= 0 /\ left >= e
    BY <2>2, <1>a
  <2> QED BY <2>1, <2>3, <1>n, <1>1
<1>3. CASE item.read = "exactly"
  <2>1. s \in {IF left = n THEN r ELSE Stop(r, "none")}
    BY <1>f, <1>3 DEF After
  <2>2. e <= b \/ e <= n
    BY <1>f, <1>3 DEF Keeps
  <2>3. left = n => left >= 0 /\ left >= e
    BY <2>2, <1>a
  <2> QED BY <2>1, <2>3, <1>n, <1>1
<1>4. CASE item.read = "sizes"
  <2>1. s \in {IF left >= n \/ left \in item.sizes THEN r ELSE Stop(r, "none")}
    BY <1>f, <1>4 DEF After
  <2>2. e <= n /\ \A k \in item.sizes : e <= k
    BY <1>f, <1>4 DEF Keeps
  <2>3. (left >= n \/ left \in item.sizes) => left >= 0 /\ left >= e
    BY <2>2, <1>a, <1>f
  <2> QED BY <2>1, <2>3, <1>n, <1>1
<1>5. CASE item.read = "one_of"
  <2>1. s \in {IF left \in item.sizes THEN r ELSE Stop(r, "none")}
    BY <1>f, <1>5 DEF After
  <2>2. \A k \in item.sizes : e <= k
    BY <1>f, <1>5 DEF Keeps
  <2>3. left \in item.sizes => left >= 0 /\ left >= e
    BY <2>2, <1>a, <1>f
  <2> QED BY <2>1, <2>3, <1>n, <1>1
<1> QED BY <1>2, <1>3, <1>4, <1>5

(* reads of what may be absent, *)
LEMMA LaterKeeps ==
  ASSUME NEW item, NEW r \in ReaderRecords, NEW length \in Nat, NEW b \in Int, NEW e \in Int,
         Keeps(item, b, e), InStep(r, b, length), r.status = "reading",
         item.read \in {"later", "later_flag"},
         NEW s \in After(item, r, length)
  PROVE  Tracked(s, e, length)
<1>l. PICK left \in Int : left = length - r.at
  BY InStepFacts
<1>m. PICK n \in Nat : n = item.size
  BY DEF Keeps, Items
<1>f. /\ left = length - r.at /\ n = item.size
      /\ left \in Int /\ n \in Nat /\ item.sizes \in SUBSET Nat /\ "lost" \notin r.flaws
      /\ left >= 0 => ~ r.missing /\ r.flaws = {} /\ left >= b
      /\ left < 0 => b <= -1
      /\ b >= -1 => r.flaws = {}
  BY <1>l, <1>m, InStepFacts DEF Keeps, Items
<1>a. left \in Int /\ n \in Nat /\ (left >= 0 => left >= b) /\ (left < 0 => b <= -1)
  BY <1>f
<1>r. left >= 0 => ~ r.missing /\ r.flaws = {}
  BY <1>f
<1>n. Tracked(Stop(r, "none"), e, length)
  BY <1>f, NoneTracked
<1>1. n > 0 /\ b >= -1 /\ (e <= -1 \/ e <= b - n)
  BY <1>f DEF Keeps
<1>2. r.flaws = {}
  BY <1>f, <1>1
<1>3. ASSUME left >= n PROVE Tracked(Take(r, n), e, length)
  <2>1. left >= 0 /\ (e <= 0 \/ left - n >= e)
    BY <1>a, <1>1, <1>3
  <2> QED BY <2>1, <1>f, <1>r, <1>2, <1>3, TakeTracked
<1>4. ASSUME left < n PROVE Tracked(Beyond(r, n), e, length)
  <2>1. e <= -1
    BY <1>a, <1>1, <1>4
  <2>2. Beyond(r, n) \in ReaderRecords /\ Beyond(r, n).status = "reading" /\ Beyond(r, n).flaws = {}
        /\ Beyond(r, n).at = r.at + n
    BY <1>f, <1>2, BeyondKeeps
  <2>3. PICK at \in Nat : at = r.at
    BY DEF ReaderRecords
  <2>4. length - (at + n) < 0
    BY <1>l, <1>a, <1>4, <2>3
  <2> QED BY <2>1, <2>2, <2>3, <2>4 DEF Tracked, InStep
<1>5. CASE item.read = "later"
  <2>1. s \in {IF left >= n THEN Take(r, n) ELSE Beyond(r, n)}
    BY <1>f, <1>5 DEF After
  <2> QED BY <2>1, <1>f, <1>3, <1>4
<1>6. CASE item.read = "later_flag"
  <2>1. s \in IF left >= n THEN {Take(r, n), Stop(r, "none")} ELSE {Beyond(r, n)}
    BY <1>f, <1>6 DEF After
  <2> QED BY <2>1, <1>f, <1>n, <1>3, <1>4
<1> QED BY <1>5, <1>6

(* What a string leaves: an exception, or a reader in step. *)
LEMMA StringsTracked ==
  ASSUME NEW r \in ReaderRecords, NEW length \in Nat, NEW b \in Int, InStep(r, b, length), r.status = "reading",
         NEW s \in Strings(r, length - r.at)
  PROVE  \/ s.status = "raised"
         \/ Tracked(s, 0, length) /\ s.status = "reading" /\ s.at <= length
         \/ Tracked(s, -2, length) /\ s.status = "reading" /\ s.at > length
<1>l. PICK left \in Int : left = length - r.at
  BY InStepFacts
<1>f. left = length - r.at /\ left \in Int /\ r.at \in Nat /\ (left >= 0 => ~ r.missing /\ r.flaws = {})
  BY <1>l, InStepFacts DEF ReaderRecords
<1>1. CASE left < 4
  <2>1. s = Stop(r, "raised")
    BY <1>f, <1>1 DEF Strings
  <2> QED BY <2>1, StopKeeps DEF Statuses
<1>2. CASE left >= 4
  <2>1. ~ r.missing /\ r.flaws = {}
    BY <1>f, <1>2
  <2>2. CASE s = TakeCut(r, left + 1)
    <3>1. left + 1 \in Nat /\ length - (r.at + (left + 1)) < 0 /\ r.at + (left + 1) > length
      BY <1>f, <1>2 DEF ReaderRecords
    <3>2. s \in ReaderRecords /\ s.at = r.at + (left + 1) /\ s.status = "reading" /\ s.flaws = {"cut"}
      BY <2>1, <2>2, <3>1, TakeCutKeeps
    <3>3. InStep(s, -2, length)
      BY <3>1, <3>2 DEF InStep
    <3> QED BY <3>1, <3>2, <3>3 DEF Tracked
  <2>3. ASSUME NEW n \in StringSizes \cup {left - 4}, n <= left - 4, s = Take(r, 4 + n)
        PROVE  Tracked(s, 0, length) /\ s.status = "reading" /\ s.at <= length
    <3>1. n \in Nat
      BY <2>3, <1>f, <1>2, LayoutsAssumption
    <3>2. PICK k \in Nat : k = 4 + n
      BY <3>1
    <3>3. left >= k /\ s = Take(r, k)
      BY <2>3, <1>f, <3>1, <3>2
    <3> DEFINE zero == 0
    <3>z. zero \in Int /\ zero <= 0 /\ length - r.at >= k
      BY <1>f, <3>3
    <3> HIDE DEF zero
    <3>y. Tracked(s, zero, length)
      BY <2>1, <3>3, <3>z, TakeTracked
    <3>4. Tracked(s, 0, length)
      BY <3>y DEF zero
    <3>5. s.at = r.at + k /\ s.status = "reading"
      BY <3>3, TakeKeeps
    <3>6. s.at <= length
      BY <1>f, <3>3, <3>5
    <3> QED BY <3>4, <3>5, <3>6
  <2>4. s \in {Take(r, 4 + n) : n \in {k \in StringSizes \cup {left - 4} : k <= left - 4}}
              \cup {TakeCut(r, left + 1)}
    <3>1. ~ left < 4
      BY <1>f, <1>2
    <3> QED BY <1>f, <3>1 DEF Strings
  <2> QED BY <2>2, <2>3, <2>4
<1> QED BY <1>f, <1>1, <1>2

(* So strings keep readers in step, *)
LEMMA TextKeeps ==
  ASSUME NEW item, NEW r \in ReaderRecords, NEW length \in Nat, NEW b \in Int, NEW e \in Int,
         Keeps(item, b, e), InStep(r, b, length), r.status = "reading",
         item.read \in {"try_string", "text"},
         NEW s \in After(item, r, length)
  PROVE  Tracked(s, e, length)
<1>l. PICK left \in Int : left = length - r.at
  BY InStepFacts
<1>m. PICK n \in Nat : n = item.size
  BY DEF Keeps, Items
<1>f. /\ left = length - r.at /\ n = item.size
      /\ left \in Int /\ n \in Nat /\ item.sizes \in SUBSET Nat /\ "lost" \notin r.flaws
      /\ left >= 0 => ~ r.missing /\ r.flaws = {} /\ left >= b
      /\ left < 0 => b <= -1
      /\ b >= -1 => r.flaws = {}
  BY <1>l, <1>m, InStepFacts DEF Keeps, Items
<1>a. left \in Int /\ n \in Nat /\ (left >= 0 => left >= b) /\ (left < 0 => b <= -1)
  BY <1>f
<1>r. left >= 0 => ~ r.missing /\ r.flaws = {}
  BY <1>f
<1>n. Tracked(Stop(r, "none"), e, length)
  BY <1>f, NoneTracked
<1>1. CASE item.read = "try_string"
  <2>1. e <= -2
    BY <1>f, <1>1 DEF Keeps
  <2>2. s \in {IF t.status = "raised" THEN Stop(r, "none") ELSE t : t \in Strings(r, left)}
    BY <1>f, <1>1 DEF After
  <2>3. ASSUME s \in Strings(r, left), s.status # "raised" PROVE Tracked(s, e, length)
    <3>1. s \in ReaderRecords /\ s.status = "reading" /\ (InStep(s, 0, length) \/ InStep(s, -2, length))
      BY <1>f, <2>3, StringsTracked DEF Tracked
    <3> QED BY <2>1, <3>1 DEF Tracked, InStep, ReaderRecords
  <2> QED BY <2>2, <2>3, <1>n
<1>2. CASE item.read = "text"
  <2>1. e <= 0
    BY <1>f, <1>2 DEF Keeps
  <2>2. s \in {Stop(r, "none")} \cup {t \in Strings(r, left) : t.status = "reading" /\ t.at <= length}
    BY <1>f, <1>2 DEF After
  <2>3. ASSUME s \in Strings(r, left), s.status = "reading", s.at <= length PROVE Tracked(s, e, length)
    <3>1. s \in ReaderRecords /\ (InStep(s, 0, length) \/ s.at > length)
      BY <1>f, <2>3, StringsTracked DEF Tracked
    <3>2. PICK at \in Nat : at = s.at
      BY <3>1 DEF ReaderRecords
    <3>4. InStep(s, 0, length)
      BY <2>3, <3>1, <3>2
    <3> QED BY <2>1, <2>3, <3>1, <3>4 DEF Tracked, InStep, ReaderRecords
  <2> QED BY <2>2, <2>3, <1>n
<1> QED BY <1>1, <1>2

(* as do reads of lengths that the data tells *)
LEMMA PartsKeeps ==
  ASSUME NEW item, NEW r \in ReaderRecords, NEW length \in Nat, NEW b \in Int, NEW e \in Int,
         Keeps(item, b, e), InStep(r, b, length), r.status = "reading",
         item.read \in {"vector", "option", "loose_option", "ticks"},
         NEW s \in After(item, r, length)
  PROVE  Tracked(s, e, length)
<1>l. PICK left \in Int : left = length - r.at
  BY InStepFacts
<1>m. PICK n \in Nat : n = item.size
  BY DEF Keeps, Items
<1>f. /\ left = length - r.at /\ n = item.size
      /\ left \in Int /\ n \in Nat /\ item.sizes \in SUBSET Nat /\ "lost" \notin r.flaws
      /\ left >= 0 => ~ r.missing /\ r.flaws = {} /\ left >= b
      /\ left < 0 => b <= -1
      /\ b >= -1 => r.flaws = {}
  BY <1>l, <1>m, InStepFacts DEF Keeps, Items
<1>a. left \in Int /\ n \in Nat /\ (left >= 0 => left >= b) /\ (left < 0 => b <= -1)
  BY <1>f
<1>r. left >= 0 => ~ r.missing /\ r.flaws = {}
  BY <1>f
<1>n. Tracked(Stop(r, "none"), e, length)
  BY <1>f, NoneTracked
<1>1. e <= 0
  BY DEF Keeps
<1>2. ASSUME NEW k \in Nat, k <= left, s = Take(r, k) PROVE Tracked(s, e, length)
  <2>1. ~ r.missing /\ r.flaws = {} /\ left >= k
    BY <1>2, <1>f
  <2> QED BY <1>f, <1>1, <1>2, <2>1, TakeTracked
<1>3. CASE item.read = "vector"
  <2>1. s \in Vectors(r, left, n)
    BY <1>f, <1>3 DEF After
  <2>2. s = Stop(r, "none") \/ s \in {Take(r, 4 + k * n) : k \in {i \in 0 .. MaxItems : 4 + i * n <= left}}
    BY <2>1 DEF Vectors
  <2>3. ASSUME NEW k \in 0 .. MaxItems, 4 + k * n <= left, s = Take(r, 4 + k * n) PROVE Tracked(s, e, length)
    <3>1. 4 + k * n \in Nat
      BY <1>f DEF MaxItems
    <3> QED BY <2>3, <3>1, <1>2
  <2> QED BY <2>2, <2>3, <1>n
<1>4. CASE item.read \in {"option", "loose_option"}
  <2>1. b >= 1
    BY <1>f, <1>4 DEF Keeps
  <2>2. left >= 1
    BY <2>1, <1>f
  <2>3. s \in Options(r, left, n) \cup (IF left < 1 THEN {} ELSE {Stop(r, "none")})
    BY <1>f, <1>4 DEF After
  <2>4. s = Stop(r, "none") \/ s = Take(r, 1) \/ (left >= 1 + n /\ s = Take(r, 1 + n))
    BY <1>f, <2>2, <2>3 DEF Options
  <2>5. 1 + n \in Nat /\ 1 <= left
    BY <1>f, <2>2
  <2>6. left >= 1 + n => 1 + n <= left
    BY <1>f
  <2> QED BY <2>4, <2>5, <2>6, <1>n, <1>2
<1>5. CASE item.read = "ticks"
  <2>1. s \in {Stop(r, "none")} \cup {Take(r, 88 + n * i) : i \in {k \in 0 .. 88 : 88 + n * k <= left}}
    BY <1>f, <1>5 DEF After
  <2>2. ASSUME NEW k \in 0 .. 88, 88 + n * k <= left, s = Take(r, 88 + n * k) PROVE Tracked(s, e, length)
    <3>1. 88 + n * k \in Nat
      BY <1>f
    <3> QED BY <2>2, <3>1, <1>2
  <2> QED BY <2>1, <2>2, <1>n
<1> QED BY <1>3, <1>4, <1>5

(* and the end of an event. *)
LEMMA EventIfKeeps ==
  ASSUME NEW item, NEW r \in ReaderRecords, NEW length \in Nat, NEW b \in Int, NEW e \in Int,
         Keeps(item, b, e), InStep(r, b, length), r.status = "reading",
         item.read = "event_if",
         NEW s \in After(item, r, length)
  PROVE  Tracked(s, e, length)
<1>l. PICK left \in Int : left = length - r.at
  BY InStepFacts
<1>m. PICK n \in Nat : n = item.size
  BY DEF Keeps, Items
<1>f. /\ left = length - r.at /\ n = item.size
      /\ left \in Int /\ n \in Nat /\ item.sizes \in SUBSET Nat /\ "lost" \notin r.flaws
      /\ left >= 0 => ~ r.missing /\ r.flaws = {} /\ left >= b
      /\ left < 0 => b <= -1
      /\ b >= -1 => r.flaws = {}
  BY <1>l, <1>m, InStepFacts DEF Keeps, Items
<1>a. left \in Int /\ n \in Nat /\ (left >= 0 => left >= b) /\ (left < 0 => b <= -1)
  BY <1>f
<1>r. left >= 0 => ~ r.missing /\ r.flaws = {}
  BY <1>f
<1>n. Tracked(Stop(r, "none"), e, length)
  BY <1>f, NoneTracked
<1>1. e <= b
  BY DEF Keeps
<1>2. s \in {IF left = n THEN Stop(Take(r, n), "event") ELSE r}
  BY <1>f DEF After
<1>3. ASSUME left = n, s = Stop(Take(r, n), "event") PROVE Tracked(s, e, length)
  <2>1. ~ r.missing /\ r.flaws = {}
    BY <1>f, <1>3
  <2>2. Take(r, n) \in ReaderRecords /\ Take(r, n).flaws = {}
    BY <1>f, <2>1, TakeKeeps
  <2> QED BY <1>3, <2>2, StopKeeps DEF Tracked, Statuses
<1>4. InStep(r, e, length)
  BY <1>1, <1>f DEF InStep
<1> QED BY <1>2, <1>3, <1>4 DEF Tracked

(* So whatever is read, readers stay in step. *)
LEMMA AfterKeeps ==
  ASSUME NEW item, NEW r, NEW length \in Nat, NEW b \in Int, NEW e \in Int,
         Keeps(item, b, e), Tracked(r, b, length), r.status = "reading",
         NEW s \in After(item, r, length)
  PROVE  Tracked(s, e, length)
<1>1. r \in ReaderRecords /\ InStep(r, b, length)
  BY DEF Tracked
<1>2. CASE item.read \in {"word", "slice", "skip", "flag", "checked"}
  BY <1>1, <1>2, WordKeeps
<1>3. CASE item.read \in {"need", "exactly", "sizes", "one_of"}
  BY <1>1, <1>3, GuardKeeps
<1>4. CASE item.read \in {"later", "later_flag"}
  BY <1>1, <1>4, LaterKeeps
<1>5. CASE item.read \in {"try_string", "text"}
  BY <1>1, <1>5, TextKeeps
<1>6. CASE item.read \in {"vector", "option", "loose_option", "ticks"}
  BY <1>1, <1>6, PartsKeeps
<1>7. CASE item.read = "event_if"
  BY <1>1, <1>7, EventIfKeeps
<1> QED BY <1>2, <1>3, <1>4, <1>5, <1>6, <1>7 DEF Keeps
-----------------------------------------------------------------------------
(* The bytes that each read of a layout needs and leaves *)

(* What a layout guarantees, read by read: c[k] bytes before its k-th. *)
Certified(layout, c) ==
  /\ layout \in Seq(Items) /\ c \in [1 .. Len(layout) + 1 -> Int]
  /\ \A k \in 1 .. Len(layout) : Keeps(layout[k], c[k], c[k + 1])

(* What an item is. *)
LEMMA ItemMakes ==
  ASSUME NEW read \in Reads, NEW n \in Nat
  PROVE  /\ Item(read, n) \in Items
         /\ Item(read, n).read = read /\ Item(read, n).size = n /\ Item(read, n).sizes = {}
BY DEF Item, Items

(* A read of n bytes that are known to be there leaves the rest. *)
LEMMA TakesKeep ==
  ASSUME NEW n \in Nat, NEW b \in Int, n <= b,
         NEW read \in {"word", "slice", "skip", "flag", "checked"}
  PROVE  Keeps(Item(read, n), b, b - n)
<1>1. read \in Reads
  BY DEF Reads
<1> QED BY <1>1, ItemMakes DEF Keeps

(* What is known of data before a read and after it. *)
LEMMA BytesKept == \A n \in Nat, b \in Int : n <= b => Keeps(Bytes(n), b, b - n)
BY TakesKeep DEF Bytes

(* Bytes skipped, *)
LEMMA SkipKept == \A n \in Nat, b \in Int : n <= b => Keeps(Skip(n), b, b - n)
BY TakesKeep DEF Skip

(* a slice, *)
LEMMA SliceKept == \A n \in Nat, b \in Int : n <= b => Keeps(Slice(n), b, b - n)
BY TakesKeep DEF Slice

(* a number that is checked, *)
LEMMA CheckedKept == \A n \in Nat, b \in Int : n <= b => Keeps(Checked(n), b, b - n)
BY TakesKeep DEF Checked

(* numbers of four bytes, *)
LEMMA HalvesKept == \A n \in Nat, b \in Int : 4 * n <= b => Keeps(Halves(n), b, b - 4 * n)
<1>1. ASSUME NEW n \in Nat, NEW b \in Int, 4 * n <= b PROVE Keeps(Halves(n), b, b - 4 * n)
  <2> DEFINE m == 4 * n
  <2>1. m \in Nat /\ m <= b
    BY <1>1
  <2>2. Halves(n) = Item("word", m)
    BY DEF Halves
  <2> HIDE DEF m
  <2>3. Keeps(Halves(n), b, b - m)
    BY <2>1, <2>2, TakesKeep
  <2> QED BY <2>3 DEF m
<1> QED BY <1>1

(* of eight, *)
LEMMA WordsKept == \A n \in Nat, b \in Int : 8 * n <= b => Keeps(Words(n), b, b - 8 * n)
<1>1. ASSUME NEW n \in Nat, NEW b \in Int, 8 * n <= b PROVE Keeps(Words(n), b, b - 8 * n)
  <2> DEFINE m == 8 * n
  <2>1. m \in Nat /\ m <= b
    BY <1>1
  <2>2. Words(n) = Item("word", m)
    BY DEF Words
  <2> HIDE DEF m
  <2>3. Keeps(Words(n), b, b - m)
    BY <2>1, <2>2, TakesKeep
  <2> QED BY <2>3 DEF m
<1> QED BY <1>1

(* public keys, *)
LEMMA PubsKept == \A n \in Nat, b \in Int : 32 * n <= b => Keeps(Pubs(n), b, b - 32 * n)
<1>1. ASSUME NEW n \in Nat, NEW b \in Int, 32 * n <= b PROVE Keeps(Pubs(n), b, b - 32 * n)
  <2> DEFINE m == 32 * n
  <2>1. m \in Nat /\ m <= b
    BY <1>1
  <2>2. Pubs(n) = Item("slice", m)
    BY DEF Pubs
  <2> HIDE DEF m
  <2>3. Keeps(Pubs(n), b, b - m)
    BY <2>1, <2>2, TakesKeep
  <2> QED BY <2>3 DEF m
<1> QED BY <1>1

(* and numbers of sixteen bytes. *)
LEMMA U128sKept == \A n \in Nat, b \in Int : 16 * n <= b => Keeps(U128s(n), b, b - 16 * n)
<1>1. ASSUME NEW n \in Nat, NEW b \in Int, 16 * n <= b PROVE Keeps(U128s(n), b, b - 16 * n)
  <2> DEFINE m == 16 * n
  <2>1. m \in Nat /\ m <= b
    BY <1>1
  <2>2. U128s(n) = Item("slice", m)
    BY DEF U128s
  <2> HIDE DEF m
  <2>3. Keeps(U128s(n), b, b - m)
    BY <2>1, <2>2, TakesKeep
  <2> QED BY <2>3 DEF m
<1> QED BY <1>1

(* What is left after a test of the size is known, or what was, *)
LEMMA NeedKept == \A n \in Nat, b \in Int : Keeps(Need(n), b, n) /\ Keeps(Need(n), b, b)
BY ItemMakes DEF Keeps, Reads, Need

(* as after one of the exact size. *)
LEMMA ExactlyKept == \A n \in Nat, b \in Int : Keeps(Exactly(n), b, n)
BY ItemMakes DEF Keeps, Reads, Exactly

(* At the end nothing need be left; *)
LEMMA AtEndKept == \A b \in Int : Keeps(AtEnd, b, 0)
BY ItemMakes DEF Keeps, Reads, AtEnd, Exactly

(* an event may end here, *)
LEMMA EventIfKept == \A n \in Nat, b \in Int : Keeps(EventIf(n), b, b)
BY ItemMakes DEF Keeps, Reads, EventIf

(* a flag takes a byte, *)
LEMMA FlagKept == \A b \in Int : 1 <= b => Keeps(Flag, b, b - 1)
BY TakesKeep DEF Flag

(* and a refusal nothing. *)
LEMMA RefusalKept == \A b \in Int : 0 <= b => Keeps(Refusal, b, b)
BY TakesKeep DEF Refusal

(* Fields of later versions may be beyond the data, *)
LEMMA LaterKept == \A n \in Nat, b \in Int :
  0 < n => (-1 <= b => Keeps(Later(n), b, -1)) /\ (n <= b => Keeps(Later(n), b, b - n))
BY ItemMakes DEF Keeps, Reads, Later

(* flags as well; *)
LEMMA LaterFlagKept == \A b \in Int : -1 <= b => Keeps(LaterFlag, b, -1)
BY ItemMakes DEF Keeps, Reads, LaterFlag

(* after a string that may be cut, nothing is known, *)
LEMMA TryStringKept == \A b \in Int : Keeps(TryString, b, -2)
BY ItemMakes DEF Keeps, Reads, TryString

(* and after a text, *)
LEMMA TextKept == \A b \in Int : Keeps(Text, b, 0)
BY ItemMakes DEF Keeps, Reads, Text

(* a vector, *)
LEMMA VectorKept == \A n \in Nat, b \in Int : Keeps(Vector(n), b, 0)
BY ItemMakes DEF Keeps, Reads, Vector

(* an option, *)
LEMMA OptionKept == \A n \in Nat, b \in Int : 1 <= b => Keeps(Option(n), b, 0)
BY ItemMakes DEF Keeps, Reads, Option

(* one that is not tested *)
LEMMA LooseOptionKept == \A n \in Nat, b \in Int : 1 <= b => Keeps(LooseOption(n), b, 0)
BY ItemMakes DEF Keeps, Reads, LooseOption

(* or ticks the rest is within the data. *)
LEMMA TicksKept == \A b \in Int : 0 <= b => Keeps(Ticks, b, 0)
BY ItemMakes DEF Keeps, Reads, Ticks

(* What keeps readers in step is an item. *)
LEMMA KeptItems == \A item, b, e : Keeps(item, b, e) => item \in Items
BY DEF Keeps
-----------------------------------------------------------------------------
(* Layouts: from each read to the next, to the outcome *)

(* Counting from 0 to L, one comes past everything. *)
LEMMA Counting ==
  ASSUME NEW L \in Nat, NEW T, 0 \in T, \A n \in 1..L : n - 1 \in T => n \in T
  PROVE  \A n \in 0..L : n \in T
<1> DEFINE U == {n \in Nat : n <= L /\ n \notin T}
<1>1. SUFFICES ASSUME U # {} PROVE FALSE
  OBVIOUS
<1>2. IsWellFoundedOn(OpToRel(<, Nat), Nat)
  BY NatLessThanWellFounded
<1>3. PICK n \in U : \A m \in U : <<m, n>> \notin OpToRel(<, Nat)
  BY <1>1, <1>2, WFMin
<1>4. n # 0 /\ n - 1 \in Nat /\ n - 1 < n /\ n \in 1..L
  OBVIOUS
<1>5. n - 1 \notin U
  BY <1>3, <1>4 DEF OpToRel
<1> QED
  BY <1>4, <1>5

(* L steps that never leave S. *)
Stays(S, L, step) == \A n \in 1..L : \A x \in S : step[n][x] \in S

(* Steps that stay in a set can be taken one after another. *)
LEMMA Stepwise ==
  ASSUME NEW S, NEW c \in S, NEW L \in Nat, NEW step, Stays(S, L, step)
  PROVE  \E f \in [0..L -> S] : f[0] = c /\ \A n \in 1..L : f[n] = step[n][f[n - 1]]
<1> DEFINE Stepped(m, f) == f[0] = c /\ \A n \in 1..m : f[n] = step[n][f[n - 1]]
           T == {m \in 0..L : \E f \in [0..m -> S] : Stepped(m, f)}
<1>1. 0 \in T
  <2> DEFINE f == [n \in 0..0 |-> c]
  <2>1. f \in [0..0 -> S] /\ f[0] = c /\ 0 \in 0..L /\ 1..0 = {}
    OBVIOUS
  <2> HIDE DEF f
  <2> QED
    BY <2>1
<1>2. ASSUME NEW m \in 1..L, m - 1 \in T PROVE m \in T
  <2>1. PICK f \in [0..(m - 1) -> S] : Stepped(m - 1, f)
    BY <1>2
  <2> DEFINE g == [n \in 0..m |-> IF n = m THEN step[m][f[m - 1]] ELSE f[n]]
  <2>2. m \in Nat /\ m - 1 \in 0..(m - 1) /\ m # 0
    OBVIOUS
  <2>3. step[m][f[m - 1]] \in S
    BY <2>1, <2>2 DEF Stays
  <2>4. g \in [0..m -> S]
    BY <2>1, <2>2, <2>3
  <2>5. g[0] = c
    BY <2>1, <2>2
  <2>6. ASSUME NEW n \in 1..m PROVE g[n] = step[n][g[n - 1]]
    <3>1. n - 1 \in 0..m /\ n - 1 # m /\ g[n - 1] = f[n - 1]
      BY <2>2
    <3>2. CASE n = m
      BY <3>1, <3>2
    <3>3. CASE n # m
      <4>1. n \in 1..(m - 1) /\ g[n] = f[n]
        BY <3>3, <2>2
      <4> QED
        BY <4>1, <3>1, <2>1
    <3> QED
      BY <3>2, <3>3
  <2> HIDE DEF g
  <2> QED
    BY <2>4, <2>5, <2>6
<1> HIDE DEF T
<1>3. \A n \in 0..L : n \in T
  BY <1>1, <1>2, Counting
<1>4. L \in T
  BY <1>3
<1> QED
  BY <1>4 DEF T

(* What a step of Readers makes of readers that are tracked. *)
Onward(layout, length, k, X) ==
  UNION {IF r.status = "reading" THEN After(layout[k], r, length) ELSE {r} : r \in X}

(* The readers of which b bytes are left.                                    *)
Held(b, length) == {r \in ReaderRecords : Tracked(r, b, length)}

(* A layout that has b bytes before it and e behind it, whatever it reads:   *)
(* there are sets of readers between, each of which a read leads to the next. *)
Leads(layout, b, e) ==
  /\ layout \in Seq(Items)
  /\ \A length \in Nat :
       \E T \in [1 .. Len(layout) + 1 -> SUBSET ReaderRecords] :
         /\ T[1] = Held(b, length) /\ T[Len(layout) + 1] = Held(e, length)
         /\ \A k \in 1 .. Len(layout) : Onward(layout, length, k, T[k]) \subseteq T[k + 1]

(* Layouts one after the other lead as far as both do. *)
LEMMA LeadsOn ==
  ASSUME NEW A, NEW B, NEW b, NEW m, NEW e, Leads(A, b, m), Leads(B, m, e)
  PROVE  Leads(A \o B, b, e)
<1>1. PICK p \in Nat, q \in Nat : p = Len(A) /\ q = Len(B)
  BY DEF Leads
<1>2. /\ A \o B \in Seq(Items) /\ Len(A \o B) = p + q
      /\ \A k \in 1 .. p : (A \o B)[k] = A[k]
      /\ \A k \in 1 .. q : (A \o B)[k + p] = B[k]
  BY <1>1 DEF Leads
<1>3. ASSUME NEW length \in Nat
      PROVE  \E T \in [1 .. Len(A \o B) + 1 -> SUBSET ReaderRecords] :
               /\ T[1] = Held(b, length) /\ T[Len(A \o B) + 1] = Held(e, length)
               /\ \A k \in 1 .. Len(A \o B) : Onward(A \o B, length, k, T[k]) \subseteq T[k + 1]
  <2>1. PICK C \in [1 .. p + 1 -> SUBSET ReaderRecords] :
          /\ C[1] = Held(b, length) /\ C[p + 1] = Held(m, length)
          /\ \A k \in 1 .. p : Onward(A, length, k, C[k]) \subseteq C[k + 1]
    BY <1>1 DEF Leads
  <2>2. PICK D \in [1 .. q + 1 -> SUBSET ReaderRecords] :
          /\ D[1] = Held(m, length) /\ D[q + 1] = Held(e, length)
          /\ \A k \in 1 .. q : Onward(B, length, k, D[k]) \subseteq D[k + 1]
    BY <1>1 DEF Leads
  <2> DEFINE T == [k \in 1 .. p + q + 1 |-> IF k <= p THEN C[k] ELSE D[k - p]]
  <2>3. T \in [1 .. p + q + 1 -> SUBSET ReaderRecords]
    BY <2>1, <2>2
  <2>4. T[1] = Held(b, length)
    BY <2>1, <2>2
  <2>5. T[p + q + 1] = Held(e, length)
    BY <2>2
  <2>6. ASSUME NEW k \in 1 .. p PROVE Onward(A \o B, length, k, T[k]) \subseteq T[k + 1]
    <3>1. T[k] = C[k] /\ T[k + 1] = C[k + 1]
      BY <2>1, <2>2
    <3>2. Onward(A \o B, length, k, C[k]) = Onward(A, length, k, C[k])
      BY <1>2 DEF Onward
    <3> QED BY <2>1, <3>1, <3>2
  <2>7. ASSUME NEW j \in 1 .. q PROVE Onward(A \o B, length, j + p, T[j + p]) \subseteq T[j + p + 1]
    <3>1. T[j + p] = D[j] /\ T[j + p + 1] = D[j + 1]
      BY <2>2
    <3>2. Onward(A \o B, length, j + p, D[j]) = Onward(B, length, j, D[j])
      BY <1>2 DEF Onward
    <3> QED BY <2>2, <3>1, <3>2
  <2> HIDE DEF T
  <2>8. ASSUME NEW k \in 1 .. p + q PROVE Onward(A \o B, length, k, T[k]) \subseteq T[k + 1]
    <3>1. CASE k \in 1 .. p
      BY <3>1, <2>6
    <3>2. CASE k \notin 1 .. p
      <4>1. k - p \in 1 .. q
        BY <3>2
      <4>2. PICK j \in 1 .. q : j = k - p
        BY <4>1
      <4>3. k = j + p
        BY <4>2
      <4> QED BY <2>7, <4>3
    <3> QED BY <3>1, <3>2
  <2> QED BY <1>2, <2>3, <2>4, <2>5, <2>8
<1> QED BY <1>2, <1>3 DEF Leads

(* A step of a certified layout keeps all readers tracked, *)
LEMMA StepTracked ==
  ASSUME NEW layout, NEW c, Certified(layout, c), NEW length \in Nat, NEW k \in 1 .. Len(layout),
         NEW X, \A r \in X : Tracked(r, c[k], length)
  PROVE  \A s \in Onward(layout, length, k, X) : Tracked(s, c[k + 1], length)
<1>1. /\ Keeps(layout[k], c[k], c[k + 1]) /\ c[k] \in Int /\ c[k + 1] \in Int
  BY DEF Certified
<1>2. ASSUME NEW r \in X, r.status = "reading", NEW s \in After(layout[k], r, length)
      PROVE  Tracked(s, c[k + 1], length)
  BY <1>1, <1>2, AfterKeeps
<1>3. ASSUME NEW r \in X, r.status # "reading"
      PROVE  Tracked(r, c[k + 1], length)
  BY <1>3 DEF Tracked
<1> QED BY <1>2, <1>3 DEF Onward

(* so it leads from its first number of bytes to its last. *)
LEMMA CertifiedLeads ==
  ASSUME NEW layout, NEW c, Certified(layout, c)
  PROVE  Leads(layout, c[1], c[Len(layout) + 1])
<1>1. PICK L \in Nat : L = Len(layout)
  BY DEF Certified
<1>2. ASSUME NEW length \in Nat
      PROVE  \E T \in [1 .. L + 1 -> SUBSET ReaderRecords] :
               /\ T[1] = Held(c[1], length) /\ T[L + 1] = Held(c[L + 1], length)
               /\ \A k \in 1 .. L : Onward(layout, length, k, T[k]) \subseteq T[k + 1]
  <2> DEFINE T == [k \in 1 .. L + 1 |-> Held(c[k], length)]
  <2>1. T \in [1 .. L + 1 -> SUBSET ReaderRecords]
    BY DEF Held
  <2>2. ASSUME NEW k \in 1 .. L PROVE Onward(layout, length, k, T[k]) \subseteq T[k + 1]
    <3>1. k + 1 \in 1 .. L + 1 /\ k \in 1 .. L + 1
      OBVIOUS
    <3>2. \A s \in Onward(layout, length, k, T[k]) : Tracked(s, c[k + 1], length)
      BY <1>1, <3>1, StepTracked DEF Held
    <3> QED BY <3>1, <3>2 DEF Tracked, Held
  <2>3. 1 \in 1 .. L + 1 /\ L + 1 \in 1 .. L + 1
    OBVIOUS
  <2> QED BY <2>1, <2>2, <2>3
<1> QED BY <1>1, <1>2 DEF Leads, Certified

(* Readers stay in sets that every read leads on from. *)
LEMMA ReadersStay ==
  ASSUME NEW layout, NEW L \in Nat, L = Len(layout), NEW length \in Nat,
         NEW T \in [1 .. L + 1 -> SUBSET ReaderRecords], Start \in T[1],
         \A k \in 1 .. L : Onward(layout, length, k, T[k]) \subseteq T[k + 1]
  PROVE  Readers(layout, length)[L] \subseteq T[L + 1]
<1> DEFINE S == SUBSET ReaderRecords
           B(k, X) == Onward(layout, length, k, X)
           step == [k \in 1 .. L |-> [X \in S |-> {s \in ReaderRecords : s \in B(k, X)}]]
           d == CHOOSE d : d = [k \in 0 .. L |-> IF k = 0 THEN {Start} ELSE B(k, d[k - 1])]
<1>1. Readers(layout, length) = d
  BY DEF Readers, Onward
<1>2. {Start} \in S
  BY DEF Start, ReaderRecords, Statuses
<1>3. Stays(S, L, step)
  BY DEF Stays
<1>4. \A k, X, Y : X \subseteq Y => B(k, X) \subseteq B(k, Y)
  BY DEF Onward
<1>5. ASSUME NEW n \in 1 .. L, NEW X, X \subseteq T[n] PROVE B(n, X) \subseteq T[n + 1] /\ B(n, X) \subseteq ReaderRecords
  <2>1. n + 1 \in 1 .. L + 1
    OBVIOUS
  <2>2. B(n, X) \subseteq B(n, T[n])
    BY <1>4, <1>5
  <2> QED BY <2>1, <2>2
<1>6. \A n \in 1 .. L : \A X \in S : step[n][X] = {s \in ReaderRecords : s \in B(n, X)}
  OBVIOUS
<1> HIDE DEF S, B, step, d
<1>7. PICK f \in [0 .. L -> S] : f[0] = {Start} /\ \A n \in 1 .. L : f[n] = step[n][f[n - 1]]
  BY <1>2, <1>3, Stepwise
<1> DEFINE U(g) == {n \in 0 .. L : g[n] \subseteq T[n + 1]}
<1>8. ASSUME NEW g, g[0] = {Start}, \A n \in 1 .. L : g[n] \subseteq B(n, g[n - 1])
      PROVE  \A n \in 0 .. L : n \in U(g)
  <2>1. 0 \in U(g)
    <3>1. g[0] \subseteq T[0 + 1]
      BY <1>8
    <3> QED BY <3>1
  <2>2. ASSUME NEW n \in 1 .. L, n - 1 \in U(g) PROVE n \in U(g)
    <3>1. n \in 0 .. L /\ g[n - 1] \subseteq T[n]
      BY <2>2
    <3> QED BY <3>1, <1>5, <1>8
  <2> HIDE DEF U
  <2> QED BY <2>1, <2>2, Counting
<1>9. \A n \in 1 .. L : f[n] \subseteq B(n, f[n - 1])
  <2>1. ASSUME NEW n \in 1 .. L PROVE f[n] \subseteq B(n, f[n - 1])
    <3>1. n - 1 \in 0 .. L
      OBVIOUS
    <3> QED BY <3>1, <1>6, <1>7
  <2> QED BY <2>1
<1>10. ASSUME NEW n \in 0 .. L PROVE f[n] = IF n = 0 THEN {Start} ELSE B(n, f[n - 1])
  <2>1. CASE n = 0
    BY <2>1, <1>7
  <2>2. CASE n # 0
    <3>1. n \in 1 .. L /\ n - 1 \in 0 .. L /\ (n - 1) + 1 = n
      BY <2>2
    <3>2. f[n - 1] \subseteq T[n] /\ f[n - 1] \in S
      BY <3>1, <1>7, <1>8, <1>9
    <3>3. B(n, f[n - 1]) \subseteq ReaderRecords
      BY <3>1, <3>2, <1>5
    <3>4. f[n] = {s \in ReaderRecords : s \in B(n, f[n - 1])}
      BY <3>1, <3>2, <1>6, <1>7
    <3>5. f[n] = B(n, f[n - 1])
      BY <3>3, <3>4
    <3> QED BY <2>2, <3>5
  <2> QED BY <2>1, <2>2
<1>11. f = [k \in 0 .. L |-> IF k = 0 THEN {Start} ELSE B(k, f[k - 1])]
  BY <1>7, <1>10
<1>12. d = [k \in 0 .. L |-> IF k = 0 THEN {Start} ELSE B(k, d[k - 1])]
  BY <1>11 DEF d
<1>13. d[0] = {Start} /\ \A n \in 1 .. L : d[n] \subseteq B(n, d[n - 1])
  <2>1. d[0] = {Start}
    BY <1>12
  <2>2. ASSUME NEW n \in 1 .. L PROVE d[n] \subseteq B(n, d[n - 1])
    <3>1. n \in 0 .. L /\ n # 0
      OBVIOUS
    <3>2. d[n] = B(n, d[n - 1])
      BY <3>1, <1>12
    <3> QED BY <3>2
  <2> QED BY <2>1, <2>2
<1>14. L \in U(d)
  BY <1>8, <1>13
<1> QED BY <1>1, <1>14

(* The reader at the start is in step, *)
LEMMA StartTracked == ASSUME NEW length \in Nat PROVE Start \in ReaderRecords /\ Tracked(Start, 0, length)
<1>1. Start \in ReaderRecords /\ Start.at = 0 /\ Start.status = "reading" /\ ~ Start.missing /\ Start.flaws = {}
  BY DEF Start, ReaderRecords, Statuses
<1>2. length - 0 >= 0
  OBVIOUS
<1> QED BY <1>1, <1>2 DEF Tracked, InStep

(* so all are after the last read, *)
LEMMA ReadersTracked ==
  ASSUME NEW layout, NEW e, Leads(layout, 0, e), NEW length \in Nat
  PROVE  \A r \in Readers(layout, length)[Len(layout)] : Tracked(r, e, length)
<1>1. PICK L \in Nat : L = Len(layout)
  BY DEF Leads
<1>2. PICK T \in [1 .. L + 1 -> SUBSET ReaderRecords] :
        /\ T[1] = Held(0, length) /\ T[L + 1] = Held(e, length)
        /\ \A k \in 1 .. L : Onward(layout, length, k, T[k]) \subseteq T[k + 1]
  BY <1>1 DEF Leads
<1>3. Start \in T[1]
  BY <1>2, StartTracked DEF Held
<1>4. Readers(layout, length)[L] \subseteq T[L + 1]
  BY <1>1, <1>2, <1>3, ReadersStay
<1> QED BY <1>1, <1>2, <1>4 DEF Held

(* No outcome is an exception, no event has a flaw and nothing is lost. *)
Sound(layout) ==
  \A length \in Nat : \A o \in Outcomes(layout, length) :
    \/ o.is = "event" /\ o.flaws = {}
    \/ o.is = "none" /\ "lost" \notin o.flaws

(* and what comes out is sound. *)
LEMMA LeadsSound ==
  ASSUME NEW layout, NEW e \in Int, e >= -1, Leads(layout, 0, e)
  PROVE  Sound(layout)
<1>2. ASSUME NEW length \in Nat, NEW o \in Outcomes(layout, length)
      PROVE  \/ o.is = "event" /\ o.flaws = {}
             \/ o.is = "none" /\ "lost" \notin o.flaws
  <2>1. CASE o = [is |-> "none", flaws |-> {}]
    BY <2>1
  <2>2. CASE o # [is |-> "none", flaws |-> {}]
    <3>1. PICK r \in Readers(layout, length)[Len(layout)] :
            o = [is |-> IF r.status = "reading" THEN "event" ELSE r.status, flaws |-> r.flaws]
      BY <1>2, <2>2 DEF Outcomes
    <3>2. Tracked(r, e, length)
      BY ReadersTracked
    <3>3. InStep(r, e, length) => r.flaws = {}
      BY DEF InStep
    <3> QED BY <3>1, <3>2, <3>3 DEF Tracked
  <2> QED BY <2>1, <2>2
<1> QED BY <1>2 DEF Sound

(* A layout that is always read within the data. *)
Within(layout) == \E e \in Int : e >= -1 /\ Leads(layout, 0, e)

(* A layout that reads within the data is sound. *)
LEMMA WithinSound == ASSUME NEW layout, Within(layout) PROVE Sound(layout)
BY LeadsSound DEF Within
-----------------------------------------------------------------------------
(* A layout that forks: the buy of PumpSwap *)

(* A buy of PumpSwap has one of two lengths, or is longer than the second:  *)
(* until a layout's fields end, n bytes are left, or 12 more at least.      *)
Forked(r, n, length) ==
  \/ r.status = "reading" /\ ~ r.missing /\ r.flaws = {} /\ (length - r.at = n \/ length - r.at >= n + 12)
  \/ r.status = "event" /\ r.flaws = {}
  \/ r.status = "none" /\ "lost" \notin r.flaws

Fork(n, length) == {r \in ReaderRecords : Forked(r, n, length)}

(* Both lengths lose what is taken. *)
LEMMA ForkTaken ==
  ASSUME NEW length \in Nat, NEW m \in Nat, NEW n \in Nat, n <= m,
         NEW r \in Fork(m, length), r.status = "reading",
         NEW read \in {"word", "slice", "flag"},
         NEW s \in After(Item(read, n), r, length)
  PROVE  s \in Fork(m - n, length)
<1>1. /\ Item(read, n).read = read /\ Item(read, n).size = n
      /\ r \in ReaderRecords /\ ~ r.missing /\ r.flaws = {}
  BY DEF Item, Fork, Forked
<1>2. PICK left \in Int : left = length - r.at
  BY <1>1 DEF ReaderRecords
<1>3. left = m \/ left >= m + 12
  BY <1>1, <1>2 DEF Fork, Forked
<1>4. left >= n
  BY <1>3
<1>5. s \in {Take(r, n), Stop(r, "none")}
  <2>1. length - r.at >= n
    BY <1>2, <1>4
  <2> DEFINE item == Item(read, n)
  <2>3. item.read = read /\ item.size = n /\ s \in After(item, r, length)
    BY <1>1
  <2> HIDE DEF item
  <2>4. CASE read = "word"
    BY <2>1, <2>3, <2>4 DEF After
  <2>5. CASE read = "slice"
    BY <2>1, <2>3, <2>5 DEF After
  <2>6. CASE read = "flag"
    BY <2>1, <2>3, <2>6 DEF After
  <2> QED BY <2>4, <2>5, <2>6
<1>6. Take(r, n) \in Fork(m - n, length)
  <2>1. /\ Take(r, n) \in ReaderRecords /\ Take(r, n).at = r.at + n /\ Take(r, n).status = "reading"
        /\ ~ Take(r, n).missing /\ Take(r, n).flaws = {}
    BY <1>1, TakeKeeps
  <2>2. r.at \in Nat
    BY <1>1 DEF ReaderRecords
  <2>3. length - (r.at + n) = left - n
    BY <1>2, <2>2
  <2>4. left - n = m - n \/ left - n >= (m - n) + 12
    BY <1>3
  <2> QED BY <2>1, <2>3, <2>4 DEF Fork, Forked
<1>7. Stop(r, "none") \in Fork(m - n, length)
  BY <1>1, StopKeeps DEF Fork, Forked, Statuses
<1> QED BY <1>5, <1>6, <1>7

(* The size of the data is asked first. *)
LEMMA ForkFound ==
  ASSUME NEW length \in Nat, NEW r \in Held(0, length), r.status = "reading", NEW n \in Nat,
         NEW s \in After(Sizes({n}, n + 12), r, length)
  PROVE  s \in Fork(n, length)
<1>0. PICK m \in Nat : m = n + 12
  OBVIOUS
<1>1. Sizes({n}, m).read = "sizes" /\ Sizes({n}, m).size = m /\ Sizes({n}, m).sizes = {n}
  BY DEF Sizes, Item
<1>2. r \in ReaderRecords /\ InStep(r, 0, length)
  BY DEF Held, Tracked
<1>3. ~ r.missing /\ r.flaws = {}
  BY <1>2 DEF InStep
<1> DEFINE item == Sizes({n}, m)
<1>4. item.read = "sizes" /\ item.size = m /\ item.sizes = {n} /\ s \in After(item, r, length)
  BY <1>0, <1>1
<1> HIDE DEF item
<1>5. s \in {IF length - r.at >= m \/ length - r.at \in {n} THEN r ELSE Stop(r, "none")}
  BY <1>4 DEF After
<1>6. Stop(r, "none") \in Fork(n, length)
  BY <1>2, <1>3, StopKeeps DEF Fork, Forked, Statuses
<1>7. length - r.at >= m \/ length - r.at \in {n} => r \in Fork(n, length)
  BY <1>0, <1>2, <1>3 DEF Fork, Forked
<1> QED BY <1>5, <1>6, <1>7

(* With none left, the event is told; of the longer one, 12 bytes are left. *)
LEMMA ForkJoined ==
  ASSUME NEW length \in Nat, NEW r \in Fork(0, length), r.status = "reading",
         NEW s \in After(EventIf(0), r, length)
  PROVE  s \in Held(12, length)
<1>1. EventIf(0).read = "event_if" /\ EventIf(0).size = 0
  BY DEF EventIf, Item
<1>2. r \in ReaderRecords /\ ~ r.missing /\ r.flaws = {}
  BY DEF Fork, Forked
<1>3. length - r.at = 0 \/ length - r.at >= 12
  BY <1>2 DEF Fork, Forked
<1>4. s \in {IF length - r.at = 0 THEN Stop(Take(r, 0), "event") ELSE r}
  <2> DEFINE item == EventIf(0)
  <2>1. item.read = "event_if" /\ item.size = 0 /\ s \in After(item, r, length)
    BY <1>1
  <2> HIDE DEF item
  <2> QED BY <2>1 DEF After
<1>5. Stop(Take(r, 0), "event") \in Held(12, length)
  <2>1. Take(r, 0) \in ReaderRecords /\ Take(r, 0).flaws = {}
    BY <1>2, TakeKeeps
  <2> QED BY <2>1, StopKeeps DEF Held, Tracked, Statuses
<1>6. length - r.at >= 12 => r \in Held(12, length)
  <2>1. length - r.at >= 12 => length - r.at >= 0
    BY <1>2 DEF ReaderRecords
  <2> QED BY <1>2, <2>1 DEF Held, Tracked, InStep
<1> QED BY <1>3, <1>4, <1>5, <1>6

(* Who has stopped, stays. *)
LEMMA ForkStopped ==
  ASSUME NEW length, NEW n, NEW m, NEW r \in ReaderRecords, r.status # "reading"
  PROVE  /\ r \in Fork(n, length) <=> r \in Fork(m, length)
         /\ r \in Held(n, length) <=> r \in Fork(m, length)
         /\ r \in Held(n, length) <=> r \in Held(m, length)
BY DEF Fork, Forked, Held, Tracked

(* One step of a layout in which what is read leads from X to Y. *)
LEMMA OnwardInto ==
  ASSUME NEW layout, NEW length, NEW k, NEW X, NEW Y,
         \A r \in X : r.status = "reading" => After(layout[k], r, length) \subseteq Y,
         \A r \in X : r.status # "reading" => r \in Y
  PROVE  Onward(layout, length, k, X) \subseteq Y
BY DEF Onward

(* One that keeps readers in step leads on, *)
LEMMA KeepsHeld ==
  ASSUME NEW layout, NEW length \in Nat, NEW k, NEW b \in Int, NEW e \in Int, Keeps(layout[k], b, e)
  PROVE  Onward(layout, length, k, Held(b, length)) \subseteq Held(e, length)
<1>1. ASSUME NEW r \in Held(b, length), r.status = "reading", NEW s \in After(layout[k], r, length)
      PROVE  s \in Held(e, length)
  BY <1>1, AfterKeeps DEF Held, Tracked
<1>2. ASSUME NEW r \in Held(b, length), r.status # "reading"
      PROVE  r \in Held(e, length)
  BY <1>2, ForkStopped DEF Held
<1> QED BY <1>1, <1>2, OnwardInto

(* and one of a known size does for both lengths. *)
LEMMA ForkHeld ==
  ASSUME NEW layout, NEW length \in Nat, NEW k, NEW m \in Nat, NEW n \in Nat, n <= m,
         NEW read \in {"word", "slice", "flag"}, layout[k] = Item(read, n)
  PROVE  Onward(layout, length, k, Fork(m, length)) \subseteq Fork(m - n, length)
<1>1. ASSUME NEW r \in Fork(m, length), r.status = "reading"
      PROVE  After(layout[k], r, length) \subseteq Fork(m - n, length)
  BY <1>1, ForkTaken
<1>2. ASSUME NEW r \in Fork(m, length), r.status # "reading"
      PROVE  r \in Fork(m - n, length)
  BY <1>2, ForkStopped DEF Fork
<1> QED BY <1>1, <1>2, OnwardInto

BuyFields ==
  <<Sizes({385}, 397), Words(14), Pubs(7), Words(2), Flag, Words(4), EventIf(0), Words(1), Need(4), Text>>

(* The fields of a buy are read within the data. *)
LEMMA BuyFieldsLead == Leads(BuyFields, 0, 0)
<1> DEFINE L == BuyFields
<1>1. /\ Len(L) = 10 /\ L[1] = Sizes({385}, 397) /\ L[2] = Words(14) /\ L[3] = Pubs(7) /\ L[4] = Words(2)
      /\ L[5] = Flag /\ L[6] = Words(4) /\ L[7] = EventIf(0) /\ L[8] = Words(1) /\ L[9] = Need(4) /\ L[10] = Text
  BY DEF BuyFields
<1>2. L \in Seq(Items)
  <2>1. Words(14) \in Items /\ Words(2) \in Items /\ Words(4) \in Items /\ Words(1) \in Items
    BY ItemMakes DEF Words, Reads
  <2>2. Pubs(7) \in Items /\ Flag \in Items /\ EventIf(0) \in Items /\ Need(4) \in Items /\ Text \in Items
    BY ItemMakes DEF Pubs, Flag, EventIf, Need, Text, Reads
  <2>3. Sizes({385}, 397) \in Items
    BY DEF Sizes, Item, Items, Reads
  <2> HIDE DEF Items
  <2> QED BY <2>1, <2>2, <2>3 DEF BuyFields
<1> HIDE DEF L
<1>3. ASSUME NEW length \in Nat
      PROVE  \E T \in [1 .. Len(L) + 1 -> SUBSET ReaderRecords] :
               /\ T[1] = Held(0, length) /\ T[Len(L) + 1] = Held(0, length)
               /\ \A k \in 1 .. Len(L) : Onward(L, length, k, T[k]) \subseteq T[k + 1]
  <2> DEFINE T == <<Held(0, length), Fork(385, length), Fork(273, length), Fork(49, length), Fork(33, length),
                    Fork(32, length), Fork(0, length), Held(12, length), Held(4, length), Held(4, length),
                    Held(0, length)>>
  <2>0. (\A n : Held(n, length) \in SUBSET ReaderRecords) /\ \A n : Fork(n, length) \in SUBSET ReaderRecords
    BY DEF Held, Fork
  <2>1. T \in [1 .. 11 -> SUBSET ReaderRecords]
    BY <2>0
  <2>2. Onward(L, length, 1, Held(0, length)) \subseteq Fork(385, length)
    <3>1. ASSUME NEW r \in Held(0, length), r.status = "reading"
          PROVE  After(L[1], r, length) \subseteq Fork(385, length)
      <4>1. PICK n \in Nat : n = 385
        OBVIOUS
      <4>2. n + 12 = 397 /\ L[1] = Sizes({n}, n + 12)
        BY <1>1, <4>1
      <4>3. ASSUME NEW s \in After(Sizes({n}, n + 12), r, length) PROVE s \in Fork(n, length)
        BY <3>1, <4>3, ForkFound
      <4> QED BY <4>1, <4>2, <4>3
    <3>2. ASSUME NEW r \in Held(0, length), r.status # "reading"
          PROVE  r \in Fork(385, length)
      BY <3>2, ForkStopped DEF Held
    <3> QED BY <3>1, <3>2, OnwardInto
  <2>3. Onward(L, length, 2, Fork(385, length)) \subseteq Fork(273, length)
    <3>1. L[2] = Item("word", 112) /\ 385 - 112 = 273
      BY <1>1 DEF Words
    <3> QED BY <3>1, ForkHeld
  <2>4. Onward(L, length, 3, Fork(273, length)) \subseteq Fork(49, length)
    <3>1. L[3] = Item("slice", 224) /\ 273 - 224 = 49
      BY <1>1 DEF Pubs
    <3> QED BY <3>1, ForkHeld
  <2>5. Onward(L, length, 4, Fork(49, length)) \subseteq Fork(33, length)
    <3>1. L[4] = Item("word", 16) /\ 49 - 16 = 33
      BY <1>1 DEF Words
    <3> QED BY <3>1, ForkHeld
  <2>6. Onward(L, length, 5, Fork(33, length)) \subseteq Fork(32, length)
    <3>1. L[5] = Item("flag", 1) /\ 33 - 1 = 32
      BY <1>1 DEF Flag
    <3> QED BY <3>1, ForkHeld
  <2>7. Onward(L, length, 6, Fork(32, length)) \subseteq Fork(0, length)
    <3>1. L[6] = Item("word", 32) /\ 32 - 32 = 0
      BY <1>1 DEF Words
    <3> QED BY <3>1, ForkHeld
  <2>8. Onward(L, length, 7, Fork(0, length)) \subseteq Held(12, length)
    <3>1. ASSUME NEW r \in Fork(0, length), r.status = "reading"
          PROVE  After(L[7], r, length) \subseteq Held(12, length)
      BY <1>1, <3>1, ForkJoined
    <3>2. ASSUME NEW r \in Fork(0, length), r.status # "reading"
          PROVE  r \in Held(12, length)
      BY <3>2, ForkStopped DEF Fork
    <3> QED BY <3>1, <3>2, OnwardInto
  <2>9. Onward(L, length, 8, Held(12, length)) \subseteq Held(4, length)
    <3>1. Keeps(Words(1), 12, 4)
      BY WordsKept
    <3> QED BY <1>1, <3>1, KeepsHeld
  <2>10. Onward(L, length, 9, Held(4, length)) \subseteq Held(4, length)
    <3>1. Keeps(Need(4), 4, 4)
      BY NeedKept
    <3> QED BY <1>1, <3>1, KeepsHeld
  <2>11. Onward(L, length, 10, Held(4, length)) \subseteq Held(0, length)
    <3>1. Keeps(Text, 4, 0)
      BY TextKept
    <3> QED BY <1>1, <3>1, KeepsHeld
  <2>12. /\ T[1] = Held(0, length) /\ T[2] = Fork(385, length) /\ T[3] = Fork(273, length)
         /\ T[4] = Fork(49, length) /\ T[5] = Fork(33, length) /\ T[6] = Fork(32, length)
         /\ T[7] = Fork(0, length) /\ T[8] = Held(12, length) /\ T[9] = Held(4, length)
         /\ T[10] = Held(4, length) /\ T[11] = Held(0, length)
    OBVIOUS
  <2> HIDE DEF T
  <2>13. ASSUME NEW k \in 1 .. 10 PROVE Onward(L, length, k, T[k]) \subseteq T[k + 1]
    <3>1. k \in {1, 2, 3, 4, 5, 6, 7, 8, 9, 10}
      OBVIOUS
    <3>2. CASE k \in {1, 2, 3, 4, 5}
      BY <3>2, <2>2, <2>3, <2>4, <2>5, <2>6, <2>12
    <3>3. CASE k \in {6, 7, 8, 9, 10}
      BY <3>3, <2>7, <2>8, <2>9, <2>10, <2>11, <2>12
    <3> QED BY <3>1, <3>2, <3>3
  <2>14. T[10 + 1] = Held(0, length) /\ Len(L) + 1 = 11 /\ 10 + 1 = 11
    BY <1>1, <2>12
  <2> QED BY <1>1, <2>1, <2>12, <2>13, <2>14
<1>4. Leads(L, 0, 0)
  BY <1>2, <1>3 DEF Leads
<1> QED BY <1>4 DEF L
-----------------------------------------------------------------------------
(* The tables: every layout, read by read *)

(* An instruction's decoder reads its data so, and no account it has not asked for. *)
Called(decoder) ==
  /\ Within(decoder.layout)
  /\ decoder.accounts \subseteq Nat /\ decoder.direct \in Nat /\ \A a \in decoder.accounts : decoder.direct <= a

(* What makes an instruction safe to decode. *)
LEMMA Callable ==
  ASSUME NEW type, NEW layout, Within(layout)
  PROVE  /\ Called(Safe(type, AnyAccounts, layout))
         /\ \A n \in Nat : Called(Safe(type, From(n), layout))
         /\ \A n \in Nat : Called(Instruction(type, From(n), n, layout))
         /\ \A n \in Nat : Called(Instruction(type, {n}, n, layout))
BY DEF Called, Safe, Instruction, AnyAccounts, From, MaxAccounts

(* Keys that are there, *)
LEMMA KeysKept == \A n \in Nat, b \in Int : 0 < n /\ 32 * n <= b => Keeps(Keys(n), b, b - 32 * n)
<1>1. ASSUME NEW n \in Nat, NEW b \in Int, 0 < n, 32 * n <= b PROVE Keeps(Keys(n), b, b - 32 * n)
  <2>1. PICK m \in Nat : m = 32 * n
    OBVIOUS
  <2>2. 0 < m /\ m <= b /\ Keys(n) = Later(m)
    BY <1>1, <2>1 DEF Keys
  <2>3. Keeps(Keys(n), b, b - m)
    BY <2>2, LaterKept
  <2> QED BY <2>1, <2>3
<1> QED BY <1>1

(* keys that may be absent *)
LEMMA KeysLate == \A n \in Nat, b \in Int : 0 < n /\ -1 <= b => Keeps(Keys(n), b, -1)
<1>1. ASSUME NEW n \in Nat, NEW b \in Int, 0 < n, -1 <= b PROVE Keeps(Keys(n), b, -1)
  <2>1. PICK m \in Nat : m = 32 * n
    OBVIOUS
  <2>2. 0 < m /\ Keys(n) = Later(m)
    BY <1>1, <2>1 DEF Keys
  <2> QED BY <1>1, <2>2, LaterKept
<1> QED BY <1>1

(* and keys taken as a slice that the data may cut. *)
LEMMA PubsCut == \A n \in Nat, b \in Int : 0 <= b => Keeps(Pubs(n), b, -2)
BY ItemMakes DEF Keeps, Reads, Pubs

(* A layout of no reads. *)
LEMMA Reads0 ==
  ASSUME NEW b0 \in Int
  PROVE  Leads(<<>>, b0, b0)
<1> DEFINE layout == <<>>
           c == <<b0>>
<1>1. Certified(layout, c)
  BY KeptItems DEF Certified
<1>2. Len(layout) = 0 /\ c[1] = b0 /\ c[1] = b0
  OBVIOUS
<1> HIDE DEF layout, c
<1>3. Leads(layout, c[1], c[Len(layout) + 1])
  BY <1>1, CertifiedLeads
<1>4. Len(layout) + 1 = 1
  BY <1>2
<1>5. Leads(layout, b0, b0)
  BY <1>2, <1>3, <1>4
<1> QED BY <1>5 DEF layout

(* A layout of one read. *)
LEMMA Reads1 ==
  ASSUME NEW x1, NEW b0 \in Int, NEW b1 \in Int, Keeps(x1, b0, b1)
  PROVE  Leads(<<x1>>, b0, b1)
<1> DEFINE layout == <<x1>>
           c == <<b0, b1>>
<1>1. Certified(layout, c)
  BY KeptItems DEF Certified
<1>2. Len(layout) = 1 /\ c[1] = b0 /\ c[2] = b1
  OBVIOUS
<1> HIDE DEF layout, c
<1>3. Leads(layout, c[1], c[Len(layout) + 1])
  BY <1>1, CertifiedLeads
<1>4. Len(layout) + 1 = 2
  BY <1>2
<1>5. Leads(layout, b0, b1)
  BY <1>2, <1>3, <1>4
<1> QED BY <1>5 DEF layout

(* A layout of 2 reads. *)
LEMMA Reads2 ==
  ASSUME NEW x1, NEW x2, NEW b0 \in Int, NEW b1 \in Int, NEW b2 \in Int, Keeps(x1, b0, b1),
         Keeps(x2, b1, b2)
  PROVE  Leads(<<x1, x2>>, b0, b2)
<1> DEFINE layout == <<x1, x2>>
           c == <<b0, b1, b2>>
<1>1. Certified(layout, c)
  BY KeptItems DEF Certified
<1>2. Len(layout) = 2 /\ c[1] = b0 /\ c[3] = b2
  OBVIOUS
<1> HIDE DEF layout, c
<1>3. Leads(layout, c[1], c[Len(layout) + 1])
  BY <1>1, CertifiedLeads
<1>4. Len(layout) + 1 = 3
  BY <1>2
<1>5. Leads(layout, b0, b2)
  BY <1>2, <1>3, <1>4
<1> QED BY <1>5 DEF layout

(* A layout of 3 reads. *)
LEMMA Reads3 ==
  ASSUME NEW x1, NEW x2, NEW x3, NEW b0 \in Int, NEW b1 \in Int, NEW b2 \in Int, NEW b3 \in Int,
         Keeps(x1, b0, b1), Keeps(x2, b1, b2), Keeps(x3, b2, b3)
  PROVE  Leads(<<x1, x2, x3>>, b0, b3)
<1> DEFINE layout == <<x1, x2, x3>>
           c == <<b0, b1, b2, b3>>
<1>1. Certified(layout, c)
  BY KeptItems DEF Certified
<1>2. Len(layout) = 3 /\ c[1] = b0 /\ c[4] = b3
  OBVIOUS
<1> HIDE DEF layout, c
<1>3. Leads(layout, c[1], c[Len(layout) + 1])
  BY <1>1, CertifiedLeads
<1>4. Len(layout) + 1 = 4
  BY <1>2
<1>5. Leads(layout, b0, b3)
  BY <1>2, <1>3, <1>4
<1> QED BY <1>5 DEF layout

(* A layout of 4 reads. *)
LEMMA Reads4 ==
  ASSUME NEW x1, NEW x2, NEW x3, NEW x4, NEW b0 \in Int, NEW b1 \in Int, NEW b2 \in Int, NEW b3 \in Int,
         NEW b4 \in Int, Keeps(x1, b0, b1), Keeps(x2, b1, b2), Keeps(x3, b2, b3), Keeps(x4, b3, b4)
  PROVE  Leads(<<x1, x2, x3, x4>>, b0, b4)
<1> DEFINE layout == <<x1, x2, x3, x4>>
           c == <<b0, b1, b2, b3, b4>>
<1>1. Certified(layout, c)
  BY KeptItems DEF Certified
<1>2. Len(layout) = 4 /\ c[1] = b0 /\ c[5] = b4
  OBVIOUS
<1> HIDE DEF layout, c
<1>3. Leads(layout, c[1], c[Len(layout) + 1])
  BY <1>1, CertifiedLeads
<1>4. Len(layout) + 1 = 5
  BY <1>2
<1>5. Leads(layout, b0, b4)
  BY <1>2, <1>3, <1>4
<1> QED BY <1>5 DEF layout

(* A layout of 5 reads. *)
LEMMA Reads5 ==
  ASSUME NEW x1, NEW x2, NEW x3, NEW x4, NEW x5, NEW b0 \in Int, NEW b1 \in Int, NEW b2 \in Int,
         NEW b3 \in Int, NEW b4 \in Int, NEW b5 \in Int, Keeps(x1, b0, b1), Keeps(x2, b1, b2),
         Keeps(x3, b2, b3), Keeps(x4, b3, b4), Keeps(x5, b4, b5)
  PROVE  Leads(<<x1, x2, x3, x4, x5>>, b0, b5)
<1> DEFINE layout == <<x1, x2, x3, x4, x5>>
           c == <<b0, b1, b2, b3, b4, b5>>
<1>1. Certified(layout, c)
  BY KeptItems DEF Certified
<1>2. Len(layout) = 5 /\ c[1] = b0 /\ c[6] = b5
  OBVIOUS
<1> HIDE DEF layout, c
<1>3. Leads(layout, c[1], c[Len(layout) + 1])
  BY <1>1, CertifiedLeads
<1>4. Len(layout) + 1 = 6
  BY <1>2
<1>5. Leads(layout, b0, b5)
  BY <1>2, <1>3, <1>4
<1> QED BY <1>5 DEF layout

(* A layout of 6 reads. *)
LEMMA Reads6 ==
  ASSUME NEW x1, NEW x2, NEW x3, NEW x4, NEW x5, NEW x6, NEW b0 \in Int, NEW b1 \in Int, NEW b2 \in Int,
         NEW b3 \in Int, NEW b4 \in Int, NEW b5 \in Int, NEW b6 \in Int, Keeps(x1, b0, b1),
         Keeps(x2, b1, b2), Keeps(x3, b2, b3), Keeps(x4, b3, b4), Keeps(x5, b4, b5), Keeps(x6, b5, b6)
  PROVE  Leads(<<x1, x2, x3, x4, x5, x6>>, b0, b6)
<1> DEFINE layout == <<x1, x2, x3, x4, x5, x6>>
           c == <<b0, b1, b2, b3, b4, b5, b6>>
<1>1. Certified(layout, c)
  BY KeptItems DEF Certified
<1>2. Len(layout) = 6 /\ c[1] = b0 /\ c[7] = b6
  OBVIOUS
<1> HIDE DEF layout, c
<1>3. Leads(layout, c[1], c[Len(layout) + 1])
  BY <1>1, CertifiedLeads
<1>4. Len(layout) + 1 = 7
  BY <1>2
<1>5. Leads(layout, b0, b6)
  BY <1>2, <1>3, <1>4
<1> QED BY <1>5 DEF layout

(* A layout of 7 reads. *)
LEMMA Reads7 ==
  ASSUME NEW x1, NEW x2, NEW x3, NEW x4, NEW x5, NEW x6, NEW x7, NEW b0 \in Int, NEW b1 \in Int,
         NEW b2 \in Int, NEW b3 \in Int, NEW b4 \in Int, NEW b5 \in Int, NEW b6 \in Int, NEW b7 \in Int,
         Keeps(x1, b0, b1), Keeps(x2, b1, b2), Keeps(x3, b2, b3), Keeps(x4, b3, b4), Keeps(x5, b4, b5),
         Keeps(x6, b5, b6), Keeps(x7, b6, b7)
  PROVE  Leads(<<x1, x2, x3, x4, x5, x6, x7>>, b0, b7)
<1> DEFINE layout == <<x1, x2, x3, x4, x5, x6, x7>>
           c == <<b0, b1, b2, b3, b4, b5, b6, b7>>
<1>1. Certified(layout, c)
  BY KeptItems DEF Certified
<1>2. Len(layout) = 7 /\ c[1] = b0 /\ c[8] = b7
  OBVIOUS
<1> HIDE DEF layout, c
<1>3. Leads(layout, c[1], c[Len(layout) + 1])
  BY <1>1, CertifiedLeads
<1>4. Len(layout) + 1 = 8
  BY <1>2
<1>5. Leads(layout, b0, b7)
  BY <1>2, <1>3, <1>4
<1> QED BY <1>5 DEF layout

(* A layout of 8 reads. *)
LEMMA Reads8 ==
  ASSUME NEW x1, NEW x2, NEW x3, NEW x4, NEW x5, NEW x6, NEW x7, NEW x8, NEW b0 \in Int, NEW b1 \in Int,
         NEW b2 \in Int, NEW b3 \in Int, NEW b4 \in Int, NEW b5 \in Int, NEW b6 \in Int, NEW b7 \in Int,
         NEW b8 \in Int, Keeps(x1, b0, b1), Keeps(x2, b1, b2), Keeps(x3, b2, b3), Keeps(x4, b3, b4),
         Keeps(x5, b4, b5), Keeps(x6, b5, b6), Keeps(x7, b6, b7), Keeps(x8, b7, b8)
  PROVE  Leads(<<x1, x2, x3, x4, x5, x6, x7, x8>>, b0, b8)
<1> DEFINE layout == <<x1, x2, x3, x4, x5, x6, x7, x8>>
           c == <<b0, b1, b2, b3, b4, b5, b6, b7, b8>>
<1>1. Certified(layout, c)
  BY KeptItems DEF Certified
<1>2. Len(layout) = 8 /\ c[1] = b0 /\ c[9] = b8
  OBVIOUS
<1> HIDE DEF layout, c
<1>3. Leads(layout, c[1], c[Len(layout) + 1])
  BY <1>1, CertifiedLeads
<1>4. Len(layout) + 1 = 9
  BY <1>2
<1>5. Leads(layout, b0, b8)
  BY <1>2, <1>3, <1>4
<1> QED BY <1>5 DEF layout

(* A layout of 9 reads. *)
LEMMA Reads9 ==
  ASSUME NEW x1, NEW x2, NEW x3, NEW x4, NEW x5, NEW x6, NEW x7, NEW x8, NEW x9, NEW b0 \in Int,
         NEW b1 \in Int, NEW b2 \in Int, NEW b3 \in Int, NEW b4 \in Int, NEW b5 \in Int, NEW b6 \in Int,
         NEW b7 \in Int, NEW b8 \in Int, NEW b9 \in Int, Keeps(x1, b0, b1), Keeps(x2, b1, b2),
         Keeps(x3, b2, b3), Keeps(x4, b3, b4), Keeps(x5, b4, b5), Keeps(x6, b5, b6), Keeps(x7, b6, b7),
         Keeps(x8, b7, b8), Keeps(x9, b8, b9)
  PROVE  Leads(<<x1, x2, x3, x4, x5, x6, x7, x8, x9>>, b0, b9)
<1> DEFINE layout == <<x1, x2, x3, x4, x5, x6, x7, x8, x9>>
           c == <<b0, b1, b2, b3, b4, b5, b6, b7, b8, b9>>
<1>1. Certified(layout, c)
  BY KeptItems DEF Certified
<1>2. Len(layout) = 9 /\ c[1] = b0 /\ c[10] = b9
  OBVIOUS
<1> HIDE DEF layout, c
<1>3. Leads(layout, c[1], c[Len(layout) + 1])
  BY <1>1, CertifiedLeads
<1>4. Len(layout) + 1 = 10
  BY <1>2
<1>5. Leads(layout, b0, b9)
  BY <1>2, <1>3, <1>4
<1> QED BY <1>5 DEF layout

(* A layout of 10 reads. *)
LEMMA Reads10 ==
  ASSUME NEW x1, NEW x2, NEW x3, NEW x4, NEW x5, NEW x6, NEW x7, NEW x8, NEW x9, NEW x10, NEW b0 \in Int,
         NEW b1 \in Int, NEW b2 \in Int, NEW b3 \in Int, NEW b4 \in Int, NEW b5 \in Int, NEW b6 \in Int,
         NEW b7 \in Int, NEW b8 \in Int, NEW b9 \in Int, NEW b10 \in Int, Keeps(x1, b0, b1),
         Keeps(x2, b1, b2), Keeps(x3, b2, b3), Keeps(x4, b3, b4), Keeps(x5, b4, b5), Keeps(x6, b5, b6),
         Keeps(x7, b6, b7), Keeps(x8, b7, b8), Keeps(x9, b8, b9), Keeps(x10, b9, b10)
  PROVE  Leads(<<x1, x2, x3, x4, x5, x6, x7, x8, x9, x10>>, b0, b10)
<1> DEFINE layout == <<x1, x2, x3, x4, x5, x6, x7, x8, x9, x10>>
           c == <<b0, b1, b2, b3, b4, b5, b6, b7, b8, b9, b10>>
<1>1. Certified(layout, c)
  BY KeptItems DEF Certified
<1>2. Len(layout) = 10 /\ c[1] = b0 /\ c[11] = b10
  OBVIOUS
<1> HIDE DEF layout, c
<1>3. Leads(layout, c[1], c[Len(layout) + 1])
  BY <1>1, CertifiedLeads
<1>4. Len(layout) + 1 = 11
  BY <1>2
<1>5. Leads(layout, b0, b10)
  BY <1>2, <1>3, <1>4
<1> QED BY <1>5 DEF layout

(* A layout of 11 reads. *)
LEMMA Reads11 ==
  ASSUME NEW x1, NEW x2, NEW x3, NEW x4, NEW x5, NEW x6, NEW x7, NEW x8, NEW x9, NEW x10, NEW x11,
         NEW b0 \in Int, NEW b1 \in Int, NEW b2 \in Int, NEW b3 \in Int, NEW b4 \in Int, NEW b5 \in Int,
         NEW b6 \in Int, NEW b7 \in Int, NEW b8 \in Int, NEW b9 \in Int, NEW b10 \in Int, NEW b11 \in Int,
         Keeps(x1, b0, b1), Keeps(x2, b1, b2), Keeps(x3, b2, b3), Keeps(x4, b3, b4), Keeps(x5, b4, b5),
         Keeps(x6, b5, b6), Keeps(x7, b6, b7), Keeps(x8, b7, b8), Keeps(x9, b8, b9), Keeps(x10, b9, b10),
         Keeps(x11, b10, b11)
  PROVE  Leads(<<x1, x2, x3, x4, x5, x6, x7, x8, x9, x10, x11>>, b0, b11)
<1> DEFINE layout == <<x1, x2, x3, x4, x5, x6, x7, x8, x9, x10, x11>>
           c == <<b0, b1, b2, b3, b4, b5, b6, b7, b8, b9, b10, b11>>
<1>1. Certified(layout, c)
  BY KeptItems DEF Certified
<1>2. Len(layout) = 11 /\ c[1] = b0 /\ c[12] = b11
  OBVIOUS
<1> HIDE DEF layout, c
<1>3. Leads(layout, c[1], c[Len(layout) + 1])
  BY <1>1, CertifiedLeads
<1>4. Len(layout) + 1 = 12
  BY <1>2
<1>5. Leads(layout, b0, b11)
  BY <1>2, <1>3, <1>4
<1> QED BY <1>5 DEF layout

(* A layout of 12 reads. *)
LEMMA Reads12 ==
  ASSUME NEW x1, NEW x2, NEW x3, NEW x4, NEW x5, NEW x6, NEW x7, NEW x8, NEW x9, NEW x10, NEW x11, NEW x12,
         NEW b0 \in Int, NEW b1 \in Int, NEW b2 \in Int, NEW b3 \in Int, NEW b4 \in Int, NEW b5 \in Int,
         NEW b6 \in Int, NEW b7 \in Int, NEW b8 \in Int, NEW b9 \in Int, NEW b10 \in Int, NEW b11 \in Int,
         NEW b12 \in Int, Keeps(x1, b0, b1), Keeps(x2, b1, b2), Keeps(x3, b2, b3), Keeps(x4, b3, b4),
         Keeps(x5, b4, b5), Keeps(x6, b5, b6), Keeps(x7, b6, b7), Keeps(x8, b7, b8), Keeps(x9, b8, b9),
         Keeps(x10, b9, b10), Keeps(x11, b10, b11), Keeps(x12, b11, b12)
  PROVE  Leads(<<x1, x2, x3, x4, x5, x6, x7, x8, x9, x10, x11, x12>>, b0, b12)
<1> DEFINE layout == <<x1, x2, x3, x4, x5, x6, x7, x8, x9, x10, x11, x12>>
           c == <<b0, b1, b2, b3, b4, b5, b6, b7, b8, b9, b10, b11, b12>>
<1>1. Certified(layout, c)
  BY KeptItems DEF Certified
<1>2. Len(layout) = 12 /\ c[1] = b0 /\ c[13] = b12
  OBVIOUS
<1> HIDE DEF layout, c
<1>3. Leads(layout, c[1], c[Len(layout) + 1])
  BY <1>1, CertifiedLeads
<1>4. Len(layout) + 1 = 13
  BY <1>2
<1>5. Leads(layout, b0, b12)
  BY <1>2, <1>3, <1>4
<1> QED BY <1>5 DEF layout

(* A layout of 13 reads. *)
LEMMA Reads13 ==
  ASSUME NEW x1, NEW x2, NEW x3, NEW x4, NEW x5, NEW x6, NEW x7, NEW x8, NEW x9, NEW x10, NEW x11, NEW x12,
         NEW x13, NEW b0 \in Int, NEW b1 \in Int, NEW b2 \in Int, NEW b3 \in Int, NEW b4 \in Int,
         NEW b5 \in Int, NEW b6 \in Int, NEW b7 \in Int, NEW b8 \in Int, NEW b9 \in Int, NEW b10 \in Int,
         NEW b11 \in Int, NEW b12 \in Int, NEW b13 \in Int, Keeps(x1, b0, b1), Keeps(x2, b1, b2),
         Keeps(x3, b2, b3), Keeps(x4, b3, b4), Keeps(x5, b4, b5), Keeps(x6, b5, b6), Keeps(x7, b6, b7),
         Keeps(x8, b7, b8), Keeps(x9, b8, b9), Keeps(x10, b9, b10), Keeps(x11, b10, b11),
         Keeps(x12, b11, b12), Keeps(x13, b12, b13)
  PROVE  Leads(<<x1, x2, x3, x4, x5, x6, x7, x8, x9, x10, x11, x12, x13>>, b0, b13)
<1> DEFINE layout == <<x1, x2, x3, x4, x5, x6, x7, x8, x9, x10, x11, x12, x13>>
           c == <<b0, b1, b2, b3, b4, b5, b6, b7, b8, b9, b10, b11, b12, b13>>
<1>1. Certified(layout, c)
  BY KeptItems DEF Certified
<1>2. Len(layout) = 13 /\ c[1] = b0 /\ c[14] = b13
  OBVIOUS
<1> HIDE DEF layout, c
<1>3. Leads(layout, c[1], c[Len(layout) + 1])
  BY <1>1, CertifiedLeads
<1>4. Len(layout) + 1 = 14
  BY <1>2
<1>5. Leads(layout, b0, b13)
  BY <1>2, <1>3, <1>4
<1> QED BY <1>5 DEF layout

(* A layout of 15 reads. *)
LEMMA Reads15 ==
  ASSUME NEW x1, NEW x2, NEW x3, NEW x4, NEW x5, NEW x6, NEW x7, NEW x8, NEW x9, NEW x10, NEW x11, NEW x12,
         NEW x13, NEW x14, NEW x15, NEW b0 \in Int, NEW b1 \in Int, NEW b2 \in Int, NEW b3 \in Int,
         NEW b4 \in Int, NEW b5 \in Int, NEW b6 \in Int, NEW b7 \in Int, NEW b8 \in Int, NEW b9 \in Int,
         NEW b10 \in Int, NEW b11 \in Int, NEW b12 \in Int, NEW b13 \in Int, NEW b14 \in Int,
         NEW b15 \in Int, Keeps(x1, b0, b1), Keeps(x2, b1, b2), Keeps(x3, b2, b3), Keeps(x4, b3, b4),
         Keeps(x5, b4, b5), Keeps(x6, b5, b6), Keeps(x7, b6, b7), Keeps(x8, b7, b8), Keeps(x9, b8, b9),
         Keeps(x10, b9, b10), Keeps(x11, b10, b11), Keeps(x12, b11, b12), Keeps(x13, b12, b13),
         Keeps(x14, b13, b14), Keeps(x15, b14, b15)
  PROVE  Leads(<<x1, x2, x3, x4, x5, x6, x7, x8, x9, x10, x11, x12, x13, x14, x15>>, b0, b15)
<1> DEFINE layout == <<x1, x2, x3, x4, x5, x6, x7, x8, x9, x10, x11, x12, x13, x14, x15>>
           c == <<b0, b1, b2, b3, b4, b5, b6, b7, b8, b9, b10, b11, b12, b13, b14, b15>>
<1>1. Certified(layout, c)
  BY KeptItems DEF Certified
<1>2. Len(layout) = 15 /\ c[1] = b0 /\ c[16] = b15
  OBVIOUS
<1> HIDE DEF layout, c
<1>3. Leads(layout, c[1], c[Len(layout) + 1])
  BY <1>1, CertifiedLeads
<1>4. Len(layout) + 1 = 16
  BY <1>2
<1>5. Leads(layout, b0, b15)
  BY <1>2, <1>3, <1>4
<1> QED BY <1>5 DEF layout

(* A layout of 21 reads. *)
LEMMA Reads21 ==
  ASSUME NEW x1, NEW x2, NEW x3, NEW x4, NEW x5, NEW x6, NEW x7, NEW x8, NEW x9, NEW x10, NEW x11, NEW x12,
         NEW x13, NEW x14, NEW x15, NEW x16, NEW x17, NEW x18, NEW x19, NEW x20, NEW x21, NEW b0 \in Int,
         NEW b1 \in Int, NEW b2 \in Int, NEW b3 \in Int, NEW b4 \in Int, NEW b5 \in Int, NEW b6 \in Int,
         NEW b7 \in Int, NEW b8 \in Int, NEW b9 \in Int, NEW b10 \in Int, NEW b11 \in Int, NEW b12 \in Int,
         NEW b13 \in Int, NEW b14 \in Int, NEW b15 \in Int, NEW b16 \in Int, NEW b17 \in Int,
         NEW b18 \in Int, NEW b19 \in Int, NEW b20 \in Int, NEW b21 \in Int, Keeps(x1, b0, b1),
         Keeps(x2, b1, b2), Keeps(x3, b2, b3), Keeps(x4, b3, b4), Keeps(x5, b4, b5), Keeps(x6, b5, b6),
         Keeps(x7, b6, b7), Keeps(x8, b7, b8), Keeps(x9, b8, b9), Keeps(x10, b9, b10), Keeps(x11, b10, b11),
         Keeps(x12, b11, b12), Keeps(x13, b12, b13), Keeps(x14, b13, b14), Keeps(x15, b14, b15),
         Keeps(x16, b15, b16), Keeps(x17, b16, b17), Keeps(x18, b17, b18), Keeps(x19, b18, b19),
         Keeps(x20, b19, b20), Keeps(x21, b20, b21)
  PROVE  Leads(<<x1, x2, x3, x4, x5, x6, x7, x8, x9, x10, x11, x12, x13, x14, x15, x16, x17, x18, x19, x20, x21>>, b0, b21)
<1> DEFINE layout == <<x1, x2, x3, x4, x5, x6, x7, x8, x9, x10, x11, x12, x13, x14, x15, x16, x17, x18, x19, x20, x21>>
           c == <<b0, b1, b2, b3, b4, b5, b6, b7, b8, b9, b10, b11, b12, b13, b14, b15, b16, b17, b18, b19, b20,
              b21>>
<1>1. Certified(layout, c)
  BY KeptItems DEF Certified
<1>2. Len(layout) = 21 /\ c[1] = b0 /\ c[22] = b21
  OBVIOUS
<1> HIDE DEF layout, c
<1>3. Leads(layout, c[1], c[Len(layout) + 1])
  BY <1>1, CertifiedLeads
<1>4. Len(layout) + 1 = 22
  BY <1>2
<1>5. Leads(layout, b0, b21)
  BY <1>2, <1>3, <1>4
<1> QED BY <1>5 DEF layout

(* Of PumpFunDecoders. *)
LEMMA PumpFunWithin == \A d \in DOMAIN PumpFunDecoders \ {"trade"} : Within(PumpFunDecoders[d].layout)
<1>1. Within(PumpFunDecoders.create.layout)
  <2>1. Keeps(TryString, 0, -2) /\ Keeps(TryString, -2, -2) /\ Keeps(EventIf(96), -2, -2)
       /\ Keeps(Need(201), -2, 201)
    BY TryStringKept, EventIfKept, NeedKept
  <2>2. Keeps(Pubs(4), 201, 73) /\ Keeps(Words(5), 73, 33) /\ Keeps(Later(32), 33, 1) /\ Keeps(Later(1), 1, 0)
    BY PubsKept, WordsKept, LaterKept
  <2>3. Keeps(Later(1), 0, -1) /\ Keeps(Later(32), -1, -1) /\ Keeps(Later(8), -1, -1)
       /\ Keeps(Later(1), -1, -1)
    BY LaterKept
  <2>4. Leads(PumpFunDecoders.create.layout, 0, -1)
    BY <2>1, <2>2, <2>3, Reads15 DEF PumpFunDecoders, CreateLayout, Decoder
  <2> QED BY <2>4 DEF Within
<1>2. Within(PumpFunDecoders.migrate.layout)
  <2>1. Keeps(Need(160), 0, 160) /\ Keeps(Pubs(2), 160, 96) /\ Keeps(Words(3), 96, 72)
       /\ Keeps(Pubs(1), 72, 40)
    BY NeedKept, PubsKept, WordsKept
  <2>2. Keeps(Words(1), 40, 32) /\ Keeps(Pubs(1), 32, 0)
    BY WordsKept, PubsKept
  <2>3. Leads(PumpFunDecoders.migrate.layout, 0, 0)
    BY <2>1, <2>2, Reads6 DEF PumpFunDecoders, Decoder
  <2> QED BY <2>3 DEF Within
<1>3. Within(PumpFunDecoders.migrate_bonding_curve_creator.layout)
  <2>1. Keeps(Need(168), 0, 168) /\ Keeps(Words(1), 168, 160) /\ Keeps(Pubs(5), 160, 0)
    BY NeedKept, WordsKept, PubsKept
  <2>2. Leads(PumpFunDecoders.migrate_bonding_curve_creator.layout, 0, 0)
    BY <2>1, Reads3 DEF PumpFunDecoders, Decoder
  <2> QED BY <2>2 DEF Within
<1>4. DOMAIN PumpFunDecoders = {"trade", "create", "migrate", "migrate_bonding_curve_creator"}
  BY DEF PumpFunDecoders
<1> QED BY <1>1, <1>2, <1>3, <1>4

(* Of FeeConfigDecoders. *)
LEMMA FeeConfigWithin == \A d \in DOMAIN FeeConfigDecoders : Within(FeeConfigDecoders[d].layout)
<1>1. Within(FeeConfigDecoders.create_fee_sharing_config.layout)
  <2>1. Keeps(Need(142), 0, 142) /\ Keeps(Words(1), 142, 134) /\ Keeps(Pubs(2), 134, 70)
       /\ Keeps(Need(1), 70, 70)
    BY NeedKept, WordsKept, PubsKept
  <2>2. Keeps(Option(32), 70, 0) /\ Keeps(Pubs(2), 0, -2) /\ Keeps(Vector(34), -2, 0) /\ Keeps(Need(1), 0, 1)
    BY OptionKept, PubsCut, VectorKept, NeedKept
  <2>3. Keeps(Flag, 1, 0) /\ Keeps(AtEnd, 0, 0)
    BY FlagKept, AtEndKept
  <2>4. Leads(FeeConfigDecoders.create_fee_sharing_config.layout, 0, 0)
    BY <2>1, <2>2, <2>3, Reads10 DEF FeeConfigDecoders, Decoder
  <2> QED BY <2>4 DEF Within
<1>2. Within(FeeConfigDecoders.initialize_fee_config.layout)
  <2>1. Keeps(Exactly(72), 0, 72) /\ Keeps(Words(1), 72, 64) /\ Keeps(Pubs(2), 64, 0)
    BY ExactlyKept, WordsKept, PubsKept
  <2>2. Leads(FeeConfigDecoders.initialize_fee_config.layout, 0, 0)
    BY <2>1, Reads3 DEF FeeConfigDecoders, Decoder
  <2> QED BY <2>2 DEF Within
<1>3. Within(FeeConfigDecoders.reset_fee_sharing_config.layout)
  <2>1. Keeps(Need(144), 0, 144) /\ Keeps(Words(1), 144, 136) /\ Keeps(Pubs(3), 136, 40)
       /\ Keeps(Vector(34), 40, 0)
    BY NeedKept, WordsKept, PubsKept, VectorKept
  <2>2. Keeps(Pubs(1), 0, -2) /\ Keeps(Vector(34), -2, 0) /\ Keeps(AtEnd, 0, 0)
    BY PubsCut, VectorKept, AtEndKept
  <2>3. Leads(FeeConfigDecoders.reset_fee_sharing_config.layout, 0, 0)
    BY <2>1, <2>2, Reads7 DEF FeeConfigDecoders, Decoder
  <2> QED BY <2>3 DEF Within
<1>4. DOMAIN FeeConfigDecoders = {"create_fee_sharing_config", "initialize_fee_config", "reset_fee_sharing_config"}
  BY DEF FeeConfigDecoders
<1> QED BY <1>1, <1>2, <1>3, <1>4

(* Of FeeSharingDecoders. *)
LEMMA FeeSharingWithin == \A d \in DOMAIN FeeSharingDecoders : Within(FeeSharingDecoders[d].layout)
<1>1. Within(FeeSharingDecoders.revoke_fee_sharing_authority.layout)
  <2>1. Keeps(Exactly(104), 0, 104) /\ Keeps(Words(1), 104, 96) /\ Keeps(Pubs(3), 96, 0)
    BY ExactlyKept, WordsKept, PubsKept
  <2>2. Leads(FeeSharingDecoders.revoke_fee_sharing_authority.layout, 0, 0)
    BY <2>1, Reads3 DEF FeeSharingDecoders, Decoder
  <2> QED BY <2>2 DEF Within
<1>2. Within(FeeSharingDecoders.transfer_fee_sharing_authority.layout)
  <2>1. Keeps(Exactly(136), 0, 136) /\ Keeps(Words(1), 136, 128) /\ Keeps(Pubs(4), 128, 0)
    BY ExactlyKept, WordsKept, PubsKept
  <2>2. Leads(FeeSharingDecoders.transfer_fee_sharing_authority.layout, 0, 0)
    BY <2>1, Reads3 DEF FeeSharingDecoders, Decoder
  <2> QED BY <2>2 DEF Within
<1>3. Within(FeeSharingDecoders.update_admin.layout)
  <2>1. Keeps(Exactly(72), 0, 72) /\ Keeps(Words(1), 72, 64) /\ Keeps(Pubs(2), 64, 0)
    BY ExactlyKept, WordsKept, PubsKept
  <2>2. Leads(FeeSharingDecoders.update_admin.layout, 0, 0)
    BY <2>1, Reads3 DEF FeeSharingDecoders, Decoder
  <2> QED BY <2>2 DEF Within
<1>4. Within(FeeSharingDecoders.update_fee_config.layout)
  <2>1. Keeps(Need(100), 0, 100) /\ Keeps(Words(1), 100, 92) /\ Keeps(Pubs(2), 92, 28)
       /\ Keeps(Vector(40), 28, 0)
    BY NeedKept, WordsKept, PubsKept, VectorKept
  <2>2. Keeps(Need(24), 0, 24) /\ Keeps(Words(3), 24, 0) /\ Keeps(AtEnd, 0, 0)
    BY NeedKept, WordsKept, AtEndKept
  <2>3. Leads(FeeSharingDecoders.update_fee_config.layout, 0, 0)
    BY <2>1, <2>2, Reads7 DEF FeeSharingDecoders, Decoder
  <2> QED BY <2>3 DEF Within
<1>5. Within(FeeSharingDecoders.update_fee_shares.layout)
  <2>1. Keeps(Need(108), 0, 108) /\ Keeps(Words(1), 108, 100) /\ Keeps(Pubs(3), 100, 4)
       /\ Keeps(Vector(34), 4, 0)
    BY NeedKept, WordsKept, PubsKept, VectorKept
  <2>2. Keeps(AtEnd, 0, 0)
    BY AtEndKept
  <2>3. Leads(FeeSharingDecoders.update_fee_shares.layout, 0, 0)
    BY <2>1, <2>2, Reads5 DEF FeeSharingDecoders, Decoder
  <2> QED BY <2>3 DEF Within
<1>6. Within(FeeSharingDecoders.upsert_fee_tiers.layout)
  <2>1. Keeps(Need(77), 0, 77) /\ Keeps(Words(1), 77, 69) /\ Keeps(Pubs(2), 69, 5) /\ Keeps(Vector(40), 5, 0)
    BY NeedKept, WordsKept, PubsKept, VectorKept
  <2>2. Keeps(Need(1), 0, 1) /\ Keeps(Bytes(1), 1, 0) /\ Keeps(AtEnd, 0, 0)
    BY NeedKept, BytesKept, AtEndKept
  <2>3. Leads(FeeSharingDecoders.upsert_fee_tiers.layout, 0, 0)
    BY <2>1, <2>2, Reads7 DEF FeeSharingDecoders, Decoder
  <2> QED BY <2>3 DEF Within
<1>7. DOMAIN FeeSharingDecoders = {"revoke_fee_sharing_authority", "transfer_fee_sharing_authority", "update_admin",
        "update_fee_config", "update_fee_shares", "upsert_fee_tiers"}
  BY DEF FeeSharingDecoders
<1> QED BY <1>1, <1>2, <1>3, <1>4, <1>5, <1>6, <1>7

(* Of PumpUpgradeDecoders. *)
LEMMA PumpUpgradeWithin == \A d \in DOMAIN PumpUpgradeDecoders : Within(PumpUpgradeDecoders[d].layout)
<1>1. Within(PumpUpgradeDecoders.post_complete_buy.layout)
  <2>1. Keeps(Need(224), 0, 224) /\ Keeps(Pubs(4), 224, 96) /\ Keeps(Words(12), 96, 0) /\ Keeps(AtEnd, 0, 0)
    BY NeedKept, PubsKept, WordsKept, AtEndKept
  <2>2. Leads(PumpUpgradeDecoders.post_complete_buy.layout, 0, 0)
    BY <2>1, Reads4 DEF PumpUpgradeDecoders, Decoder
  <2> QED BY <2>2 DEF Within
<1>2. Within(PumpUpgradeDecoders.sweep_bonding_curve_fee.layout)
  <2>1. Keeps(Need(145), 0, 145) /\ Keeps(Words(1), 145, 137) /\ Keeps(Pubs(4), 137, 9)
       /\ Keeps(Words(1), 9, 1)
    BY NeedKept, WordsKept, PubsKept
  <2>2. Keeps(Bytes(1), 1, 0) /\ Keeps(AtEnd, 0, 0)
    BY BytesKept, AtEndKept
  <2>3. Leads(PumpUpgradeDecoders.sweep_bonding_curve_fee.layout, 0, 0)
    BY <2>1, <2>2, Reads6 DEF PumpUpgradeDecoders, Decoder
  <2> QED BY <2>3 DEF Within
<1>3. Within(PumpUpgradeDecoders.complete.layout)
  <2>1. Keeps(Need(104), 0, 104) /\ Keeps(Pubs(3), 104, 8) /\ Keeps(Words(1), 8, 0) /\ Keeps(EventIf(0), 0, 0)
    BY NeedKept, PubsKept, WordsKept, EventIfKept
  <2>2. Keeps(Need(32), 0, 32) /\ Keeps(Pubs(1), 32, 0) /\ Keeps(AtEnd, 0, 0)
    BY NeedKept, PubsKept, AtEndKept
  <2>3. Leads(PumpUpgradeDecoders.complete.layout, 0, 0)
    BY <2>1, <2>2, Reads7 DEF PumpUpgradeDecoders, Decoder
  <2> QED BY <2>3 DEF Within
<1>4. Within(PumpUpgradeDecoders.sweep_pool_fee.layout)
  <2>1. Keeps(Need(177), 0, 177) /\ Keeps(Words(1), 177, 169) /\ Keeps(Pubs(5), 169, 9)
       /\ Keeps(Words(1), 9, 1)
    BY NeedKept, WordsKept, PubsKept
  <2>2. Keeps(Bytes(1), 1, 0) /\ Keeps(AtEnd, 0, 0)
    BY BytesKept, AtEndKept
  <2>3. Leads(PumpUpgradeDecoders.sweep_pool_fee.layout, 0, 0)
    BY <2>1, <2>2, Reads6 DEF PumpUpgradeDecoders, Decoder
  <2> QED BY <2>3 DEF Within
<1>5. DOMAIN PumpUpgradeDecoders = {"post_complete_buy", "sweep_bonding_curve_fee", "complete", "sweep_pool_fee"}
  BY DEF PumpUpgradeDecoders
<1> QED BY <1>1, <1>2, <1>3, <1>4, <1>5

(* The fields at the end of a trade, of which each may be absent. *)
LEMMA TradeTailLeads == Leads(TradeTail, 0, -1)
<1>1. Keeps(Later(16), 0, -1) /\ Keeps(Later(16), -1, -1) /\ Keeps(LaterFlag, -1, -1)
     /\ Keeps(Later(8), -1, -1)
  BY LaterKept, LaterFlagKept
<1>2. Keeps(Sizes({0, 16, 32, 57, 73}, 81), 0, 0)
  BY DEF Sizes, Item, Keeps, Items, Reads
<1> QED BY <1>1, <1>2, Reads8 DEF TradeTail

(* Each layout, a number of bytes before each of its reads: a buy of PumpSwap, *)
LEMMA PsBuyWithin == Within(SwapTradeDecoders["ps_buy"].layout)
<1>1. Leads(BuyFields \o TradeTail, 0, -1)
  BY BuyFieldsLead, TradeTailLeads, LeadsOn
<1>2. SwapTradeDecoders["ps_buy"].layout = BuyFields \o TradeTail
  BY DEF SwapTradeDecoders, Decoder, BuyFields
<1> QED BY <1>1, <1>2 DEF Within

(* Of SwapTradeDecoders. *)
LEMMA SwapTradeWithin == \A d \in DOMAIN SwapTradeDecoders : Within(SwapTradeDecoders[d].layout)
<1>1. Within(SwapTradeDecoders.ps_sell.layout)
  <2>1. Keeps(Need(352), 0, 352) /\ Keeps(Words(14), 352, 240) /\ Keeps(Pubs(7), 240, 16)
       /\ Keeps(Words(2), 16, 0)
    BY NeedKept, WordsKept, PubsKept
  <2>4. Leads(<<Need(352), Words(14), Pubs(7), Words(2)>>, 0, 0)
    BY <2>1, Reads4
  <2>5. Leads(<<Need(352), Words(14), Pubs(7), Words(2)>> \o TradeTail, 0, -1)
    BY <2>4, TradeTailLeads, LeadsOn
  <2>6. Leads(SwapTradeDecoders.ps_sell.layout, 0, -1)
    BY <2>5 DEF SwapTradeDecoders, Decoder
  <2> QED BY <2>6 DEF Within
<1>2. DOMAIN SwapTradeDecoders = {"ps_buy", "ps_sell"}
  BY DEF SwapTradeDecoders
<1> QED BY <1>1, <1>2, PsBuyWithin

(* Of SwapPoolDecoders. *)
LEMMA SwapPoolWithin == \A d \in DOMAIN SwapPoolDecoders : Within(SwapPoolDecoders[d].layout)
<1>1. Within(SwapPoolDecoders.ps_create_pool.layout)
  <2>1. Keeps(Words(1), 326, 318) /\ Keeps(Bytes(2), 318, 316) /\ Keeps(Pubs(3), 316, 220)
       /\ Keeps(Bytes(2), 220, 218)
    BY WordsKept, BytesKept, PubsKept
  <2>2. Keeps(Words(7), 218, 162) /\ Keeps(Bytes(1), 162, 161) /\ Keeps(Pubs(5), 161, 1)
       /\ Keeps(Later(1), 1, 0)
    BY WordsKept, BytesKept, PubsKept, LaterKept
  <2>3. Keeps(Later(8), 0, -1) /\ Keeps(Later(1), -1, -1)
    BY LaterKept
  <2>4. Keeps(Sizes({326}, 335), 0, 326)
    BY DEF Sizes, Item, Keeps, Items, Reads
  <2>5. Leads(SwapPoolDecoders.ps_create_pool.layout, 0, -1)
    BY <2>1, <2>2, <2>3, <2>4, Reads12 DEF SwapPoolDecoders, Decoder
  <2> QED BY <2>5 DEF Within
<1>2. Within(SwapPoolDecoders.ps_add_liq.layout) /\ Within(SwapPoolDecoders.ps_remove_liq.layout)
  <2>1. Keeps(Need(248), 0, 248) /\ Keeps(Words(11), 248, 160) /\ Keeps(Pubs(5), 160, 0)
    BY NeedKept, WordsKept, PubsKept
  <2>2. Leads(SwapPoolDecoders.ps_add_liq.layout, 0, 0) /\ Leads(SwapPoolDecoders.ps_remove_liq.layout, 0, 0)
    BY <2>1, Reads3 DEF SwapPoolDecoders, Decoder
  <2> QED BY <2>2 DEF Within
<1>3. DOMAIN SwapPoolDecoders = {"ps_create_pool", "ps_add_liq", "ps_remove_liq"}
  BY DEF SwapPoolDecoders
<1> QED BY <1>1, <1>2, <1>3

(* Of ClmmLiquidityDecoders. *)
LEMMA ClmmLiquidityWithin == \A d \in DOMAIN ClmmLiquidityDecoders : Within(ClmmLiquidityDecoders[d].layout)
<1>1. Within(ClmmLiquidityDecoders.clmm_swap.layout)
  <2>1. Keeps(Need(197), 0, 197) /\ Keeps(Pubs(4), 197, 69) /\ Keeps(Words(4), 69, 37)
       /\ Keeps(Bytes(1), 37, 36)
    BY NeedKept, PubsKept, WordsKept, BytesKept
  <2>2. Keeps(U128s(2), 36, 4) /\ Keeps(Halves(1), 4, 0)
    BY U128sKept, HalvesKept
  <2>3. Leads(ClmmLiquidityDecoders.clmm_swap.layout, 0, 0)
    BY <2>1, <2>2, Reads6 DEF ClmmLiquidityDecoders, Decoder
  <2> QED BY <2>3 DEF Within
<1>2. Within(ClmmLiquidityDecoders.clmm_inc.layout)
  <2>1. Keeps(Need(80), 0, 80) /\ Keeps(Pubs(1), 80, 48) /\ Keeps(U128s(1), 48, 32) /\ Keeps(Words(4), 32, 0)
    BY NeedKept, PubsKept, U128sKept, WordsKept
  <2>2. Leads(ClmmLiquidityDecoders.clmm_inc.layout, 0, 0)
    BY <2>1, Reads4 DEF ClmmLiquidityDecoders, Decoder
  <2> QED BY <2>2 DEF Within
<1>3. Within(ClmmLiquidityDecoders.clmm_dec.layout)
  <2>1. Keeps(Need(120), 0, 120) /\ Keeps(Pubs(1), 120, 88) /\ Keeps(U128s(1), 88, 72)
       /\ Keeps(Words(9), 72, 0)
    BY NeedKept, PubsKept, U128sKept, WordsKept
  <2>2. Leads(ClmmLiquidityDecoders.clmm_dec.layout, 0, 0)
    BY <2>1, Reads4 DEF ClmmLiquidityDecoders, Decoder
  <2> QED BY <2>2 DEF Within
<1>4. DOMAIN ClmmLiquidityDecoders = {"clmm_swap", "clmm_inc", "clmm_dec"}
  BY DEF ClmmLiquidityDecoders
<1> QED BY <1>1, <1>2, <1>3, <1>4

(* Of ClmmPoolDecoders. *)
LEMMA ClmmPoolWithin == \A d \in DOMAIN ClmmPoolDecoders : Within(ClmmPoolDecoders[d].layout)
<1>1. Within(ClmmPoolDecoders.clmm_create.layout)
  <2>1. Keeps(Need(182), 0, 182) /\ Keeps(Pubs(2), 182, 118) /\ Keeps(Bytes(2), 118, 116)
       /\ Keeps(Pubs(1), 116, 84)
    BY NeedKept, PubsKept, BytesKept
  <2>2. Keeps(U128s(1), 84, 68) /\ Keeps(Halves(1), 68, 64) /\ Keeps(Pubs(2), 64, 0)
    BY U128sKept, HalvesKept, PubsKept
  <2>3. Leads(ClmmPoolDecoders.clmm_create.layout, 0, 0)
    BY <2>1, <2>2, Reads7 DEF ClmmPoolDecoders, Decoder
  <2> QED BY <2>3 DEF Within
<1>2. Within(ClmmPoolDecoders.clmm_collect_personal.layout)
     /\ Within(ClmmPoolDecoders.clmm_collect_protocol.layout)
  <2>1. Keeps(Need(112), 0, 112) /\ Keeps(Pubs(3), 112, 16) /\ Keeps(Words(2), 16, 0)
    BY NeedKept, PubsKept, WordsKept
  <2>2. Leads(ClmmPoolDecoders.clmm_collect_personal.layout, 0, 0)
       /\ Leads(ClmmPoolDecoders.clmm_collect_protocol.layout, 0, 0)
    BY <2>1, Reads3 DEF ClmmPoolDecoders, Decoder
  <2> QED BY <2>2 DEF Within
<1>3. Within(ClmmPoolDecoders.clmm_liquidity_change.layout)
  <2>1. Keeps(Need(76), 0, 76) /\ Keeps(Pubs(1), 76, 44) /\ Keeps(Halves(3), 44, 32) /\ Keeps(U128s(2), 32, 0)
    BY NeedKept, PubsKept, HalvesKept, U128sKept
  <2>2. Leads(ClmmPoolDecoders.clmm_liquidity_change.layout, 0, 0)
    BY <2>1, Reads4 DEF ClmmPoolDecoders, Decoder
  <2> QED BY <2>2 DEF Within
<1>4. DOMAIN ClmmPoolDecoders = {"clmm_create", "clmm_collect_personal", "clmm_collect_protocol", "clmm_liquidity_change"}
  BY DEF ClmmPoolDecoders
<1> QED BY <1>1, <1>2, <1>3, <1>4

(* Of ClmmPositionDecoders. *)
LEMMA ClmmPositionWithin == \A d \in DOMAIN ClmmPositionDecoders : Within(ClmmPositionDecoders[d].layout)
<1>1. Within(ClmmPositionDecoders.clmm_config_change.layout)
  <2>1. Keeps(Need(80), 0, 80) /\ Keeps(Bytes(2), 80, 78) /\ Keeps(Pubs(1), 78, 46) /\ Keeps(Halves(2), 46, 38)
    BY NeedKept, BytesKept, PubsKept, HalvesKept
  <2>2. Keeps(Bytes(2), 38, 36) /\ Keeps(Halves(1), 36, 32) /\ Keeps(Pubs(1), 32, 0)
    BY BytesKept, HalvesKept, PubsKept
  <2>3. Leads(ClmmPositionDecoders.clmm_config_change.layout, 0, 0)
    BY <2>1, <2>2, Reads7 DEF ClmmPositionDecoders, Decoder
  <2> QED BY <2>3 DEF Within
<1>2. Within(ClmmPositionDecoders.clmm_create_personal_position.layout)
  <2>1. Keeps(Need(152), 0, 152) /\ Keeps(Pubs(3), 152, 56) /\ Keeps(Halves(2), 56, 48)
       /\ Keeps(U128s(1), 48, 32)
    BY NeedKept, PubsKept, HalvesKept, U128sKept
  <2>2. Keeps(Words(4), 32, 0)
    BY WordsKept
  <2>3. Leads(ClmmPositionDecoders.clmm_create_personal_position.layout, 0, 0)
    BY <2>1, <2>2, Reads5 DEF ClmmPositionDecoders, Decoder
  <2> QED BY <2>3 DEF Within
<1>3. Within(ClmmPositionDecoders.clmm_liquidity_calculate.layout)
  <2>1. Keeps(Need(84), 0, 84) /\ Keeps(U128s(2), 84, 52) /\ Keeps(Halves(1), 52, 48) /\ Keeps(Words(6), 48, 0)
    BY NeedKept, U128sKept, HalvesKept, WordsKept
  <2>2. Leads(ClmmPositionDecoders.clmm_liquidity_calculate.layout, 0, 0)
    BY <2>1, Reads4 DEF ClmmPositionDecoders, Decoder
  <2> QED BY <2>2 DEF Within
<1>4. DOMAIN ClmmPositionDecoders = {"clmm_config_change", "clmm_create_personal_position", "clmm_liquidity_calculate"}
  BY DEF ClmmPositionDecoders
<1> QED BY <1>1, <1>2, <1>3, <1>4

(* Of ClmmOrderDecoders. *)
LEMMA ClmmOrderWithin == \A d \in DOMAIN ClmmOrderDecoders : Within(ClmmOrderDecoders[d].layout)
<1>1. Within(ClmmOrderDecoders.clmm_open_limit_order.layout)
  <2>1. Keeps(Need(85), 0, 85) /\ Keeps(Pubs(2), 85, 21) /\ Keeps(Bytes(1), 21, 20) /\ Keeps(Halves(1), 20, 16)
    BY NeedKept, PubsKept, BytesKept, HalvesKept
  <2>2. Keeps(Words(2), 16, 0)
    BY WordsKept
  <2>3. Leads(ClmmOrderDecoders.clmm_open_limit_order.layout, 0, 0)
    BY <2>1, <2>2, Reads5 DEF ClmmOrderDecoders, Decoder
  <2> QED BY <2>3 DEF Within
<1>2. Within(ClmmOrderDecoders.clmm_increase_limit_order.layout)
     /\ Within(ClmmOrderDecoders.clmm_settle_limit_order.layout)
  <2>1. Keeps(Need(93), 0, 93) /\ Keeps(Pubs(2), 93, 29) /\ Keeps(Bytes(1), 29, 28) /\ Keeps(Halves(1), 28, 24)
    BY NeedKept, PubsKept, BytesKept, HalvesKept
  <2>2. Keeps(Words(3), 24, 0)
    BY WordsKept
  <2>3. Leads(ClmmOrderDecoders.clmm_increase_limit_order.layout, 0, 0)
       /\ Leads(ClmmOrderDecoders.clmm_settle_limit_order.layout, 0, 0)
    BY <2>1, <2>2, Reads5 DEF ClmmOrderDecoders, Decoder
  <2> QED BY <2>3 DEF Within
<1>3. Within(ClmmOrderDecoders.clmm_decrease_limit_order.layout)
  <2>1. Keeps(Need(101), 0, 101) /\ Keeps(Pubs(2), 101, 37) /\ Keeps(Bytes(1), 37, 36)
       /\ Keeps(Halves(1), 36, 32)
    BY NeedKept, PubsKept, BytesKept, HalvesKept
  <2>2. Keeps(Words(4), 32, 0)
    BY WordsKept
  <2>3. Leads(ClmmOrderDecoders.clmm_decrease_limit_order.layout, 0, 0)
    BY <2>1, <2>2, Reads5 DEF ClmmOrderDecoders, Decoder
  <2> QED BY <2>3 DEF Within
<1>4. Within(ClmmOrderDecoders.clmm_update_reward_infos.layout)
  <2>1. Keeps(Need(48), 0, 48) /\ Keeps(U128s(3), 48, 0)
    BY NeedKept, U128sKept
  <2>2. Leads(ClmmOrderDecoders.clmm_update_reward_infos.layout, 0, 0)
    BY <2>1, Reads2 DEF ClmmOrderDecoders, Decoder
  <2> QED BY <2>2 DEF Within
<1>5. DOMAIN ClmmOrderDecoders = {"clmm_open_limit_order", "clmm_increase_limit_order", "clmm_decrease_limit_order",
        "clmm_settle_limit_order", "clmm_update_reward_infos"}
  BY DEF ClmmOrderDecoders
<1> QED BY <1>1, <1>2, <1>3, <1>4, <1>5

(* Of AmmDecoders. *)
LEMMA AmmWithin == \A d \in DOMAIN AmmDecoders : Within(AmmDecoders[d].layout)
<1>1. Within(AmmDecoders.amm_swap_in.layout) /\ Within(AmmDecoders.amm_swap_out.layout)
  <2>1. Keeps(Need(80), 0, 80) /\ Keeps(Pubs(2), 80, 16) /\ Keeps(Words(2), 16, 0)
    BY NeedKept, PubsKept, WordsKept
  <2>2. Leads(AmmDecoders.amm_swap_in.layout, 0, 0) /\ Leads(AmmDecoders.amm_swap_out.layout, 0, 0)
    BY <2>1, Reads3 DEF AmmDecoders, Decoder
  <2> QED BY <2>2 DEF Within
<1>2. Within(AmmDecoders.amm_ray_log.layout)
  <2>1. Keeps(Exactly(57), 0, 57) /\ Keeps(Flag, 57, 56) /\ Keeps(Words(2), 56, 40) /\ Keeps(Skip(32), 40, 8)
    BY ExactlyKept, FlagKept, WordsKept, SkipKept
  <2>2. Keeps(Words(1), 8, 0)
    BY WordsKept
  <2>3. Leads(AmmDecoders.amm_ray_log.layout, 0, 0)
    BY <2>1, <2>2, Reads5 DEF AmmDecoders, Decoder
  <2> QED BY <2>3 DEF Within
<1>3. Within(AmmDecoders.amm_deposit.layout)
  <2>1. Keeps(Need(88), 0, 88) /\ Keeps(Pubs(2), 88, 24) /\ Keeps(Words(3), 24, 0)
    BY NeedKept, PubsKept, WordsKept
  <2>2. Leads(AmmDecoders.amm_deposit.layout, 0, 0)
    BY <2>1, Reads3 DEF AmmDecoders, Decoder
  <2> QED BY <2>2 DEF Within
<1>4. Within(AmmDecoders.amm_withdraw.layout)
  <2>1. Keeps(Need(72), 0, 72) /\ Keeps(Pubs(2), 72, 8) /\ Keeps(Words(1), 8, 0)
    BY NeedKept, PubsKept, WordsKept
  <2>2. Leads(AmmDecoders.amm_withdraw.layout, 0, 0)
    BY <2>1, Reads3 DEF AmmDecoders, Decoder
  <2> QED BY <2>2 DEF Within
<1>5. Within(AmmDecoders.amm_withdraw_pnl.layout)
  <2>1. Keeps(Need(64), 0, 64) /\ Keeps(Pubs(2), 64, 0)
    BY NeedKept, PubsKept
  <2>2. Leads(AmmDecoders.amm_withdraw_pnl.layout, 0, 0)
    BY <2>1, Reads2 DEF AmmDecoders, Decoder
  <2> QED BY <2>2 DEF Within
<1>6. Within(AmmDecoders.amm_init2.layout)
  <2>1. Keeps(Need(89), 0, 89) /\ Keeps(Pubs(2), 89, 25) /\ Keeps(Bytes(1), 25, 24) /\ Keeps(Words(3), 24, 0)
    BY NeedKept, PubsKept, BytesKept, WordsKept
  <2>2. Leads(AmmDecoders.amm_init2.layout, 0, 0)
    BY <2>1, Reads4 DEF AmmDecoders, Decoder
  <2> QED BY <2>2 DEF Within
<1>7. DOMAIN AmmDecoders = {"amm_swap_in", "amm_swap_out", "amm_ray_log", "amm_deposit", "amm_withdraw", "amm_withdraw_pnl",
        "amm_init2"}
  BY DEF AmmDecoders
<1> QED BY <1>1, <1>2, <1>3, <1>4, <1>5, <1>6, <1>7

(* Of CpmmDecoders. *)
LEMMA CpmmWithin == \A d \in DOMAIN CpmmDecoders : Within(CpmmDecoders[d].layout)
<1>1. Within(CpmmDecoders.cpmm_swap_event.layout)
  <2>1. Keeps(Pubs(1), 81, 49) /\ Keeps(Words(6), 49, 1) /\ Keeps(Flag, 1, 0) /\ Keeps(Later(64), 0, -1)
    BY PubsKept, WordsKept, FlagKept, LaterKept
  <2>2. Keeps(Later(16), -1, -1) /\ Keeps(LaterFlag, -1, -1)
    BY LaterKept, LaterFlagKept
  <2>3. Keeps(Sizes({81}, 162), 0, 81)
    BY DEF Sizes, Item, Keeps, Items, Reads
  <2>4. Leads(CpmmDecoders.cpmm_swap_event.layout, 0, -1)
    BY <2>1, <2>2, <2>3, Reads7 DEF CpmmDecoders, Decoder
  <2> QED BY <2>4 DEF Within
<1>2. Within(CpmmDecoders.cpmm_swap_in.layout)
  <2>1. Keeps(Need(89), 0, 89) /\ Keeps(Pubs(1), 89, 57) /\ Keeps(Skip(32), 57, 25) /\ Keeps(Words(1), 25, 17)
    BY NeedKept, PubsKept, SkipKept, WordsKept
  <2>2. Keeps(Skip(8), 17, 9) /\ Keeps(Words(1), 9, 1) /\ Keeps(Bytes(1), 1, 0)
    BY SkipKept, WordsKept, BytesKept
  <2>3. Leads(CpmmDecoders.cpmm_swap_in.layout, 0, 0)
    BY <2>1, <2>2, Reads7 DEF CpmmDecoders, Decoder
  <2> QED BY <2>3 DEF Within
<1>3. Within(CpmmDecoders.cpmm_swap_out.layout)
  <2>1. Keeps(Need(89), 0, 89) /\ Keeps(Pubs(1), 89, 57) /\ Keeps(Skip(40), 57, 17) /\ Keeps(Words(2), 17, 1)
    BY NeedKept, PubsKept, SkipKept, WordsKept
  <2>2. Keeps(Bytes(1), 1, 0)
    BY BytesKept
  <2>3. Leads(CpmmDecoders.cpmm_swap_out.layout, 0, 0)
    BY <2>1, <2>2, Reads5 DEF CpmmDecoders, Decoder
  <2> QED BY <2>3 DEF Within
<1>4. Within(CpmmDecoders.cpmm_create.layout)
  <2>1. Keeps(Need(144), 0, 144) /\ Keeps(Pubs(1), 144, 112) /\ Keeps(Skip(64), 112, 48)
       /\ Keeps(Pubs(1), 48, 16)
    BY NeedKept, PubsKept, SkipKept
  <2>2. Keeps(Words(2), 16, 0)
    BY WordsKept
  <2>3. Leads(CpmmDecoders.cpmm_create.layout, 0, 0)
    BY <2>1, <2>2, Reads5 DEF CpmmDecoders, Decoder
  <2> QED BY <2>3 DEF Within
<1>5. Within(CpmmDecoders.cpmm_deposit.layout) /\ Within(CpmmDecoders.cpmm_withdraw.layout)
  <2>1. Keeps(Need(88), 0, 88) /\ Keeps(Pubs(2), 88, 24) /\ Keeps(Words(3), 24, 0)
    BY NeedKept, PubsKept, WordsKept
  <2>2. Leads(CpmmDecoders.cpmm_deposit.layout, 0, 0) /\ Leads(CpmmDecoders.cpmm_withdraw.layout, 0, 0)
    BY <2>1, Reads3 DEF CpmmDecoders, Decoder
  <2> QED BY <2>2 DEF Within
<1>6. DOMAIN CpmmDecoders = {"cpmm_swap_event", "cpmm_swap_in", "cpmm_swap_out", "cpmm_create", "cpmm_deposit", "cpmm_withdraw"}
  BY DEF CpmmDecoders
<1> QED BY <1>1, <1>2, <1>3, <1>4, <1>5, <1>6

(* Of LaunchlabDecoders. *)
LEMMA LaunchlabWithin == \A d \in DOMAIN LaunchlabDecoders \ {"launchlab_pool_create"} : Within(LaunchlabDecoders[d].layout)
<1>1. Within(LaunchlabDecoders.launchlab_trade.layout)
  <2>1. Keeps(Exactly(139), 0, 139) /\ Keeps(Pubs(1), 139, 107) /\ Keeps(Words(13), 107, 3)
       /\ Keeps(Flag, 3, 2)
    BY ExactlyKept, PubsKept, WordsKept, FlagKept
  <2>2. Keeps(Flag, 2, 1) /\ Keeps(Flag, 1, 0)
    BY FlagKept
  <2>3. Leads(LaunchlabDecoders.launchlab_trade.layout, 0, 0)
    BY <2>1, <2>2, Reads6 DEF LaunchlabDecoders, Decoder
  <2> QED BY <2>3 DEF Within
<1>2. DOMAIN LaunchlabDecoders = {"launchlab_trade", "launchlab_pool_create"}
  BY DEF LaunchlabDecoders
<1> QED BY <1>1, <1>2

(* Of OrcaDecoders. *)
LEMMA OrcaWithin == \A d \in DOMAIN OrcaDecoders \ {"orca_pool_init"} : Within(OrcaDecoders[d].layout)
<1>1. Within(OrcaDecoders.orca_traded.layout)
  <2>1. Keeps(Need(113), 0, 113) /\ Keeps(Pubs(1), 113, 81) /\ Keeps(Bytes(1), 81, 80)
       /\ Keeps(U128s(2), 80, 48)
    BY NeedKept, PubsKept, BytesKept, U128sKept
  <2>2. Keeps(Words(6), 48, 0)
    BY WordsKept
  <2>3. Leads(OrcaDecoders.orca_traded.layout, 0, 0)
    BY <2>1, <2>2, Reads5 DEF OrcaDecoders, Decoder
  <2> QED BY <2>3 DEF Within
<1>2. Within(OrcaDecoders.orca_liq_inc.layout) /\ Within(OrcaDecoders.orca_liq_dec.layout)
  <2>1. Keeps(Need(120), 0, 120) /\ Keeps(Pubs(2), 120, 56) /\ Keeps(Halves(2), 56, 48)
       /\ Keeps(U128s(1), 48, 32)
    BY NeedKept, PubsKept, HalvesKept, U128sKept
  <2>2. Keeps(Words(4), 32, 0)
    BY WordsKept
  <2>3. Leads(OrcaDecoders.orca_liq_inc.layout, 0, 0) /\ Leads(OrcaDecoders.orca_liq_dec.layout, 0, 0)
    BY <2>1, <2>2, Reads5 DEF OrcaDecoders, Decoder
  <2> QED BY <2>3 DEF Within
<1>3. DOMAIN OrcaDecoders = {"orca_traded", "orca_liq_inc", "orca_liq_dec", "orca_pool_init"}
  BY DEF OrcaDecoders
<1> QED BY <1>1, <1>2, <1>3

(* Of PoolsDecoders. *)
LEMMA PoolsWithin == \A d \in DOMAIN PoolsDecoders : Within(PoolsDecoders[d].layout)
<1>1. Within(PoolsDecoders.meteora_swap.layout)
  <2>1. Keeps(Need(40), 0, 40) /\ Keeps(Words(5), 40, 0)
    BY NeedKept, WordsKept
  <2>2. Leads(PoolsDecoders.meteora_swap.layout, 0, 0)
    BY <2>1, Reads2 DEF PoolsDecoders, Decoder
  <2> QED BY <2>2 DEF Within
<1>2. Within(PoolsDecoders.meteora_add.layout) /\ Within(PoolsDecoders.meteora_remove.layout)
  <2>1. Keeps(Need(24), 0, 24) /\ Keeps(Words(3), 24, 0)
    BY NeedKept, WordsKept
  <2>2. Leads(PoolsDecoders.meteora_add.layout, 0, 0) /\ Leads(PoolsDecoders.meteora_remove.layout, 0, 0)
    BY <2>1, Reads2 DEF PoolsDecoders, Decoder
  <2> QED BY <2>2 DEF Within
<1>3. Within(PoolsDecoders.meteora_bootstrap.layout)
  <2>1. Keeps(Need(56), 0, 56) /\ Keeps(Words(3), 56, 32) /\ Keeps(Pubs(1), 32, 0)
    BY NeedKept, WordsKept, PubsKept
  <2>2. Leads(PoolsDecoders.meteora_bootstrap.layout, 0, 0)
    BY <2>1, Reads3 DEF PoolsDecoders, Decoder
  <2> QED BY <2>2 DEF Within
<1>4. Within(PoolsDecoders.meteora_pool_created.layout)
  <2>1. Keeps(Need(129), 0, 129) /\ Keeps(Pubs(3), 129, 33) /\ Keeps(Bytes(1), 33, 32) /\ Keeps(Pubs(1), 32, 0)
    BY NeedKept, PubsKept, BytesKept
  <2>2. Leads(PoolsDecoders.meteora_pool_created.layout, 0, 0)
    BY <2>1, Reads4 DEF PoolsDecoders, Decoder
  <2> QED BY <2>2 DEF Within
<1>5. Within(PoolsDecoders.meteora_set_pool_fees.layout)
  <2>1. Keeps(Need(64), 0, 64) /\ Keeps(Words(4), 64, 32) /\ Keeps(Pubs(1), 32, 0)
    BY NeedKept, WordsKept, PubsKept
  <2>2. Leads(PoolsDecoders.meteora_set_pool_fees.layout, 0, 0)
    BY <2>1, Reads3 DEF PoolsDecoders, Decoder
  <2> QED BY <2>2 DEF Within
<1>6. DOMAIN PoolsDecoders = {"meteora_swap", "meteora_add", "meteora_remove", "meteora_bootstrap", "meteora_pool_created",
        "meteora_set_pool_fees"}
  BY DEF PoolsDecoders
<1> QED BY <1>1, <1>2, <1>3, <1>4, <1>5, <1>6

(* Of DbcDecoders. *)
LEMMA DbcWithin == \A d \in DOMAIN DbcDecoders : Within(DbcDecoders[d].layout)
<1>1. Within(DbcDecoders.dbc_swap.layout)
  <2>1. Keeps(Need(154), 0, 154) /\ Keeps(Pubs(2), 154, 90) /\ Keeps(Bytes(2), 90, 88)
       /\ Keeps(Words(4), 88, 56)
    BY NeedKept, PubsKept, BytesKept, WordsKept
  <2>2. Keeps(U128s(1), 56, 40) /\ Keeps(Words(3), 40, 16) /\ Keeps(Later(8), 16, 8) /\ Keeps(Words(1), 8, 0)
    BY U128sKept, WordsKept, LaterKept
  <2>3. Leads(DbcDecoders.dbc_swap.layout, 0, 0)
    BY <2>1, <2>2, Reads8 DEF DbcDecoders, Decoder
  <2> QED BY <2>3 DEF Within
<1>2. Within(DbcDecoders.dbc_swap2.layout)
  <2>1. Keeps(Need(179), 0, 179) /\ Keeps(Pubs(2), 179, 115) /\ Keeps(Flag, 115, 114) /\ Keeps(Flag, 114, 113)
    BY NeedKept, PubsKept, FlagKept
  <2>2. Keeps(Words(2), 113, 97) /\ Keeps(Flag, 97, 96) /\ Keeps(Words(4), 96, 64) /\ Keeps(U128s(1), 64, 48)
    BY WordsKept, FlagKept, U128sKept
  <2>3. Keeps(Words(6), 48, 0)
    BY WordsKept
  <2>4. Leads(DbcDecoders.dbc_swap2.layout, 0, 0)
    BY <2>1, <2>2, <2>3, Reads9 DEF DbcDecoders, DbcSwap2Layout, Decoder
  <2> QED BY <2>4 DEF Within
<1>3. Within(DbcDecoders.dbc_init_pool.layout)
  <2>1. Keeps(Need(137), 0, 137) /\ Keeps(Pubs(4), 137, 9) /\ Keeps(Bytes(1), 9, 8) /\ Keeps(Words(1), 8, 0)
    BY NeedKept, PubsKept, BytesKept, WordsKept
  <2>2. Leads(DbcDecoders.dbc_init_pool.layout, 0, 0)
    BY <2>1, Reads4 DEF DbcDecoders, Decoder
  <2> QED BY <2>2 DEF Within
<1>4. Within(DbcDecoders.dbc_curve_complete.layout)
  <2>1. Keeps(Need(80), 0, 80) /\ Keeps(Pubs(2), 80, 16) /\ Keeps(Words(2), 16, 0)
    BY NeedKept, PubsKept, WordsKept
  <2>2. Leads(DbcDecoders.dbc_curve_complete.layout, 0, 0)
    BY <2>1, Reads3 DEF DbcDecoders, Decoder
  <2> QED BY <2>2 DEF Within
<1>5. DOMAIN DbcDecoders = {"dbc_swap", "dbc_swap2", "dbc_init_pool", "dbc_curve_complete"}
  BY DEF DbcDecoders
<1> QED BY <1>1, <1>2, <1>3, <1>4, <1>5

(* Of DammSwapDecoders. *)
LEMMA DammSwapWithin == \A d \in DOMAIN DammSwapDecoders : Within(DammSwapDecoders[d].layout)
<1>1. Within(DammSwapDecoders.damm_swap.layout)
  <2>1. Keeps(Need(178), 0, 178) /\ Keeps(Pubs(1), 178, 146) /\ Keeps(Skip(32), 146, 114)
       /\ Keeps(Bytes(2), 114, 112)
    BY NeedKept, PubsKept, SkipKept, BytesKept
  <2>2. Keeps(Words(4), 112, 80) /\ Keeps(U128s(1), 80, 64) /\ Keeps(Words(3), 64, 40)
       /\ Keeps(Skip(8), 40, 32)
    BY WordsKept, U128sKept, SkipKept
  <2>3. Keeps(Words(1), 32, 24)
    BY WordsKept
  <2>4. Leads(DammSwapDecoders.damm_swap.layout, 0, 24)
    BY <2>1, <2>2, <2>3, Reads9 DEF DammSwapDecoders, Decoder
  <2> QED BY <2>4 DEF Within
<1>2. Within(DammSwapDecoders.damm_swap2.layout)
  <2>1. Keeps(Need(180), 0, 180) /\ Keeps(Pubs(1), 180, 148) /\ Keeps(Bytes(3), 148, 145)
       /\ Keeps(Words(2), 145, 129)
    BY NeedKept, PubsKept, BytesKept, WordsKept
  <2>2. Keeps(Flag, 129, 128) /\ Keeps(Words(4), 128, 96) /\ Keeps(U128s(1), 96, 80) /\ Keeps(Words(10), 80, 0)
    BY FlagKept, WordsKept, U128sKept
  <2>3. Leads(DammSwapDecoders.damm_swap2.layout, 0, 0)
    BY <2>1, <2>2, Reads8 DEF DammSwapDecoders, Decoder
  <2> QED BY <2>3 DEF Within
<1>3. DOMAIN DammSwapDecoders = {"damm_swap", "damm_swap2"}
  BY DEF DammSwapDecoders
<1> QED BY <1>1, <1>2, <1>3

(* Of DammPositionDecoders. *)
LEMMA DammPositionWithin == \A d \in DOMAIN DammPositionDecoders : Within(DammPositionDecoders[d].layout)
<1>1. Within(DammPositionDecoders.damm_create_position.layout)
     /\ Within(DammPositionDecoders.damm_close_position.layout)
  <2>1. Keeps(Need(128), 0, 128) /\ Keeps(Pubs(4), 128, 0)
    BY NeedKept, PubsKept
  <2>2. Leads(DammPositionDecoders.damm_create_position.layout, 0, 0)
       /\ Leads(DammPositionDecoders.damm_close_position.layout, 0, 0)
    BY <2>1, Reads2 DEF DammPositionDecoders, Decoder
  <2> QED BY <2>2 DEF Within
<1>2. Within(DammPositionDecoders.damm_add_liquidity.layout)
  <2>1. Keeps(Need(160), 0, 160) /\ Keeps(Pubs(3), 160, 64) /\ Keeps(U128s(1), 64, 48)
       /\ Keeps(Words(6), 48, 0)
    BY NeedKept, PubsKept, U128sKept, WordsKept
  <2>2. Leads(DammPositionDecoders.damm_add_liquidity.layout, 0, 0)
    BY <2>1, Reads4 DEF DammPositionDecoders, Decoder
  <2> QED BY <2>2 DEF Within
<1>3. DOMAIN DammPositionDecoders = {"damm_create_position", "damm_close_position", "damm_add_liquidity"}
  BY DEF DammPositionDecoders
<1> QED BY <1>1, <1>2, <1>3

(* Of DammPoolDecoders. *)
LEMMA DammPoolWithin == \A d \in DOMAIN DammPoolDecoders : Within(DammPoolDecoders[d].layout)
<1>1. Within(DammPoolDecoders.damm_remove_liquidity.layout)
  <2>1. Keeps(Need(144), 0, 144) /\ Keeps(Pubs(3), 144, 48) /\ Keeps(U128s(1), 48, 32)
       /\ Keeps(Words(4), 32, 0)
    BY NeedKept, PubsKept, U128sKept, WordsKept
  <2>2. Leads(DammPoolDecoders.damm_remove_liquidity.layout, 0, 0)
    BY <2>1, Reads4 DEF DammPoolDecoders, Decoder
  <2> QED BY <2>2 DEF Within
<1>2. Within(DammPoolDecoders.damm_liquidity_change.layout)
  <2>1. Keeps(Need(177), 0, 177) /\ Keeps(Pubs(3), 177, 81) /\ Keeps(Words(6), 81, 33)
       /\ Keeps(U128s(1), 33, 17)
    BY NeedKept, PubsKept, WordsKept, U128sKept
  <2>2. Keeps(Words(2), 17, 1) /\ Keeps(Flag, 1, 0)
    BY WordsKept, FlagKept
  <2>3. Leads(DammPoolDecoders.damm_liquidity_change.layout, 0, 0)
    BY <2>1, <2>2, Reads6 DEF DammPoolDecoders, Decoder
  <2> QED BY <2>3 DEF Within
<1>3. Within(DammPoolDecoders.damm_initialize_pool.layout)
  <2>1. Keeps(Need(332), 0, 332) /\ Keeps(Pubs(6), 332, 140) /\ Keeps(Need(30), 140, 140)
       /\ Keeps(Slice(27), 140, 113)
    BY NeedKept, PubsKept, SliceKept
  <2>2. Keeps(Bytes(3), 113, 110) /\ Keeps(Option(32), 110, 0) /\ Keeps(Need(109), 0, 109)
       /\ Keeps(U128s(2), 109, 77)
    BY BytesKept, OptionKept, NeedKept, U128sKept
  <2>3. Keeps(Bytes(2), 77, 75) /\ Keeps(U128s(2), 75, 43) /\ Keeps(Words(1), 43, 35)
       /\ Keeps(Bytes(2), 35, 33)
    BY BytesKept, U128sKept, WordsKept
  <2>4. Keeps(Words(4), 33, 1) /\ Keeps(Bytes(1), 1, 0)
    BY WordsKept, BytesKept
  <2>5. Leads(<<Need(332), Pubs(6)>>, 0, 140) /\ Leads(DammPoolFees, 140, 0)
       /\ Leads(<<Need(109), U128s(2), Bytes(2), U128s(2), Words(1), Bytes(2), Words(4), Bytes(1)>>, 0, 0)
    BY <2>1, <2>2, <2>3, <2>4, Reads2, Reads4, Reads8 DEF DammPoolFees
  <2>6. Leads(<<Need(332), Pubs(6)>> \o DammPoolFees, 0, 0)
    BY <2>5, LeadsOn
  <2>7. Leads(<<Need(332), Pubs(6)>> \o DammPoolFees
         \o <<Need(109), U128s(2), Bytes(2), U128s(2), Words(1), Bytes(2), Words(4), Bytes(1)>>, 0, 0)
    BY <2>5, <2>6, LeadsOn
  <2>8. Leads(DammPoolDecoders.damm_initialize_pool.layout, 0, 0)
    BY <2>7 DEF DammPoolDecoders, Decoder
  <2> QED BY <2>8 DEF Within
<1>4. DOMAIN DammPoolDecoders = {"damm_remove_liquidity", "damm_liquidity_change", "damm_initialize_pool"}
  BY DEF DammPoolDecoders
<1> QED BY <1>1, <1>2, <1>3, <1>4

(* Of DammClaimDecoders. *)
LEMMA DammClaimWithin == \A d \in DOMAIN DammClaimDecoders : Within(DammClaimDecoders[d].layout)
<1>1. Within(DammClaimDecoders.damm_claim_position_fee.layout)
  <2>1. Keeps(Need(112), 0, 112) /\ Keeps(Pubs(3), 112, 16) /\ Keeps(Slice(16), 16, 0)
    BY NeedKept, PubsKept, SliceKept
  <2>2. Leads(DammClaimDecoders.damm_claim_position_fee.layout, 0, 0)
    BY <2>1, Reads3 DEF DammClaimDecoders, Decoder
  <2> QED BY <2>2 DEF Within
<1>2. Within(DammClaimDecoders.damm_claim_reward.layout)
  <2>1. Keeps(Need(137), 0, 137) /\ Keeps(Pubs(4), 137, 9) /\ Keeps(Bytes(1), 9, 8) /\ Keeps(Slice(8), 8, 0)
    BY NeedKept, PubsKept, BytesKept, SliceKept
  <2>2. Leads(DammClaimDecoders.damm_claim_reward.layout, 0, 0)
    BY <2>1, Reads4 DEF DammClaimDecoders, Decoder
  <2> QED BY <2>2 DEF Within
<1>3. DOMAIN DammClaimDecoders = {"damm_claim_position_fee", "damm_claim_reward"}
  BY DEF DammClaimDecoders
<1> QED BY <1>1, <1>2, <1>3

(* Of DammRewardDecoders. *)
LEMMA DammRewardWithin == \A d \in DOMAIN DammRewardDecoders : Within(DammRewardDecoders[d].layout)
<1>1. Within(DammRewardDecoders.damm_update_delegate_permission.layout)
  <2>1. Keeps(Need(69), 0, 69) /\ Keeps(Pubs(2), 69, 5) /\ Keeps(Halves(1), 5, 1)
       /\ Keeps(LooseOption(32), 1, 0)
    BY NeedKept, PubsKept, HalvesKept, LooseOptionKept
  <2>2. Leads(DammRewardDecoders.damm_update_delegate_permission.layout, 0, 0)
    BY <2>1, Reads4 DEF DammRewardDecoders, Decoder
  <2> QED BY <2>2 DEF Within
<1>2. Within(DammRewardDecoders.damm_withdraw_dead_liquidity_reward.layout)
     /\ Within(DammRewardDecoders.damm_withdraw_ineligible_reward.layout)
  <2>1. Keeps(Need(72), 0, 72) /\ Keeps(Pubs(2), 72, 8) /\ Keeps(Words(1), 8, 0)
    BY NeedKept, PubsKept, WordsKept
  <2>2. Leads(DammRewardDecoders.damm_withdraw_dead_liquidity_reward.layout, 0, 0)
       /\ Leads(DammRewardDecoders.damm_withdraw_ineligible_reward.layout, 0, 0)
    BY <2>1, Reads3 DEF DammRewardDecoders, Decoder
  <2> QED BY <2>2 DEF Within
<1>3. Within(DammRewardDecoders.damm_update_reward_funder.layout)
  <2>1. Keeps(Need(97), 0, 97) /\ Keeps(Pubs(1), 97, 65) /\ Keeps(Bytes(1), 65, 64) /\ Keeps(Pubs(2), 64, 0)
    BY NeedKept, PubsKept, BytesKept
  <2>2. Leads(DammRewardDecoders.damm_update_reward_funder.layout, 0, 0)
    BY <2>1, Reads4 DEF DammRewardDecoders, Decoder
  <2> QED BY <2>2 DEF Within
<1>4. Within(DammRewardDecoders.damm_update_reward_duration.layout)
  <2>1. Keeps(Need(49), 0, 49) /\ Keeps(Pubs(1), 49, 17) /\ Keeps(Bytes(1), 17, 16) /\ Keeps(Words(2), 16, 0)
    BY NeedKept, PubsKept, BytesKept, WordsKept
  <2>2. Leads(DammRewardDecoders.damm_update_reward_duration.layout, 0, 0)
    BY <2>1, Reads4 DEF DammRewardDecoders, Decoder
  <2> QED BY <2>2 DEF Within
<1>5. Within(DammRewardDecoders.damm_initialize_reward.layout)
  <2>1. Keeps(Need(137), 0, 137) /\ Keeps(Pubs(4), 137, 9) /\ Keeps(Bytes(1), 9, 8) /\ Keeps(Words(1), 8, 0)
    BY NeedKept, PubsKept, BytesKept, WordsKept
  <2>2. Leads(DammRewardDecoders.damm_initialize_reward.layout, 0, 0)
    BY <2>1, Reads4 DEF DammRewardDecoders, Decoder
  <2> QED BY <2>2 DEF Within
<1>6. Within(DammRewardDecoders.damm_fund_reward.layout)
  <2>1. Keeps(Need(153), 0, 153) /\ Keeps(Pubs(3), 153, 57) /\ Keeps(Bytes(1), 57, 56)
       /\ Keeps(Words(3), 56, 32)
    BY NeedKept, PubsKept, BytesKept, WordsKept
  <2>2. Keeps(U128s(2), 32, 0)
    BY U128sKept
  <2>3. Leads(DammRewardDecoders.damm_fund_reward.layout, 0, 0)
    BY <2>1, <2>2, Reads5 DEF DammRewardDecoders, Decoder
  <2> QED BY <2>3 DEF Within
<1>7. DOMAIN DammRewardDecoders = {"damm_update_delegate_permission", "damm_withdraw_dead_liquidity_reward",
        "damm_withdraw_ineligible_reward", "damm_update_reward_funder", "damm_update_reward_duration",
        "damm_initialize_reward", "damm_fund_reward"}
  BY DEF DammRewardDecoders
<1> QED BY <1>1, <1>2, <1>3, <1>4, <1>5, <1>6, <1>7

(* Of DammConfigDecoders. *)
LEMMA DammConfigWithin == \A d \in DOMAIN DammConfigDecoders : Within(DammConfigDecoders[d].layout)
<1>1. Within(DammConfigDecoders.damm_create_config.layout)
  <2>1. Keeps(Need(27), 0, 27) /\ Keeps(Slice(27), 27, 0) /\ Keeps(Need(4), 0, 4) /\ Keeps(Bytes(3), 4, 1)
    BY NeedKept, SliceKept, BytesKept
  <2>2. Keeps(LooseOption(32), 1, 0) /\ Keeps(Need(154), 0, 154) /\ Keeps(Pubs(2), 154, 90)
       /\ Keeps(Bytes(1), 90, 89)
    BY LooseOptionKept, NeedKept, PubsKept, BytesKept
  <2>3. Keeps(U128s(2), 89, 57) /\ Keeps(Bytes(1), 57, 56) /\ Keeps(Words(1), 56, 48) /\ Keeps(Pubs(1), 48, 16)
    BY U128sKept, BytesKept, WordsKept, PubsKept
  <2>4. Keeps(U128s(1), 16, 0)
    BY U128sKept
  <2>5. Leads(DammConfigDecoders.damm_create_config.layout, 0, 0)
    BY <2>1, <2>2, <2>3, <2>4, Reads13 DEF DammConfigDecoders, Decoder
  <2> QED BY <2>5 DEF Within
<1>2. Within(DammConfigDecoders.damm_create_dynamic_config.layout)
  <2>1. Keeps(Need(88), 0, 88) /\ Keeps(Pubs(2), 88, 24) /\ Keeps(Words(1), 24, 16) /\ Keeps(U128s(1), 16, 0)
    BY NeedKept, PubsKept, WordsKept, U128sKept
  <2>2. Leads(DammConfigDecoders.damm_create_dynamic_config.layout, 0, 0)
    BY <2>1, Reads4 DEF DammConfigDecoders, Decoder
  <2> QED BY <2>2 DEF Within
<1>3. DOMAIN DammConfigDecoders = {"damm_create_config", "damm_create_dynamic_config"}
  BY DEF DammConfigDecoders
<1> QED BY <1>1, <1>2, <1>3

(* Of DlmmSwapDecoders. *)
LEMMA DlmmSwapWithin == \A d \in DOMAIN DlmmSwapDecoders : Within(DlmmSwapDecoders[d].layout)
<1>1. Within(DlmmSwapDecoders.dlmm_swap.layout)
  <2>1. Keeps(Need(129), 0, 129) /\ Keeps(Pubs(2), 129, 65) /\ Keeps(Halves(2), 65, 57)
       /\ Keeps(Words(2), 57, 41)
    BY NeedKept, PubsKept, HalvesKept, WordsKept
  <2>2. Keeps(Bytes(1), 41, 40) /\ Keeps(Words(2), 40, 24) /\ Keeps(U128s(1), 24, 8) /\ Keeps(Words(1), 8, 0)
    BY BytesKept, WordsKept, U128sKept
  <2>3. Leads(DlmmSwapDecoders.dlmm_swap.layout, 0, 0)
    BY <2>1, <2>2, Reads8 DEF DlmmSwapDecoders, Decoder
  <2> QED BY <2>3 DEF Within
<1>2. Within(DlmmSwapDecoders.dlmm_swap2.layout)
  <2>1. Keeps(Need(147), 0, 147) /\ Keeps(Pubs(2), 147, 83) /\ Keeps(Halves(2), 83, 75) /\ Keeps(Flag, 75, 74)
    BY NeedKept, PubsKept, HalvesKept, FlagKept
  <2>2. Keeps(U128s(1), 74, 58) /\ Keeps(Words(7), 58, 2) /\ Keeps(Flag, 2, 1) /\ Keeps(Flag, 1, 0)
    BY U128sKept, WordsKept, FlagKept
  <2>3. Keeps(Refusal, 0, 0)
    BY RefusalKept
  <2>4. Leads(DlmmSwapDecoders.dlmm_swap2.layout, 0, 0)
    BY <2>1, <2>2, <2>3, Reads9 DEF DlmmSwapDecoders, Decoder
  <2> QED BY <2>4 DEF Within
<1>3. DOMAIN DlmmSwapDecoders = {"dlmm_swap", "dlmm_swap2"}
  BY DEF DlmmSwapDecoders
<1> QED BY <1>1, <1>2, <1>3

(* Of DlmmPoolDecoders. *)
LEMMA DlmmPoolWithin == \A d \in DOMAIN DlmmPoolDecoders : Within(DlmmPoolDecoders[d].layout)
<1>1. Within(DlmmPoolDecoders.dlmm_add_liq.layout) /\ Within(DlmmPoolDecoders.dlmm_remove_liq.layout)
  <2>1. Keeps(Need(116), 0, 116) /\ Keeps(Pubs(3), 116, 20) /\ Keeps(Words(2), 20, 4) /\ Keeps(Halves(1), 4, 0)
    BY NeedKept, PubsKept, WordsKept, HalvesKept
  <2>2. Leads(DlmmPoolDecoders.dlmm_add_liq.layout, 0, 0)
       /\ Leads(DlmmPoolDecoders.dlmm_remove_liq.layout, 0, 0)
    BY <2>1, Reads4 DEF DlmmPoolDecoders, Decoder
  <2> QED BY <2>2 DEF Within
<1>2. Within(DlmmPoolDecoders.dlmm_init_pool.layout)
  <2>1. Keeps(Need(98), 0, 98) /\ Keeps(Pubs(1), 98, 66) /\ Keeps(Bytes(2), 66, 64)
    BY NeedKept, PubsKept, BytesKept
  <2>2. Leads(DlmmPoolDecoders.dlmm_init_pool.layout, 0, 64)
    BY <2>1, Reads3 DEF DlmmPoolDecoders, Decoder
  <2> QED BY <2>2 DEF Within
<1>3. Within(DlmmPoolDecoders.dlmm_legacy_init_pool.layout)
  <2>1. Keeps(Need(70), 0, 70) /\ Keeps(Pubs(2), 70, 6) /\ Keeps(Halves(1), 6, 2) /\ Keeps(Bytes(2), 2, 0)
    BY NeedKept, PubsKept, HalvesKept, BytesKept
  <2>2. Leads(DlmmPoolDecoders.dlmm_legacy_init_pool.layout, 0, 0)
    BY <2>1, Reads4 DEF DlmmPoolDecoders, Decoder
  <2> QED BY <2>2 DEF Within
<1>4. Within(DlmmPoolDecoders.dlmm_init_bin.layout)
  <2>1. Keeps(Need(72), 0, 72) /\ Keeps(Pubs(2), 72, 8) /\ Keeps(Words(1), 8, 0)
    BY NeedKept, PubsKept, WordsKept
  <2>2. Leads(DlmmPoolDecoders.dlmm_init_bin.layout, 0, 0)
    BY <2>1, Reads3 DEF DlmmPoolDecoders, Decoder
  <2> QED BY <2>2 DEF Within
<1>5. DOMAIN DlmmPoolDecoders = {"dlmm_add_liq", "dlmm_remove_liq", "dlmm_init_pool", "dlmm_legacy_init_pool", "dlmm_init_bin"}
  BY DEF DlmmPoolDecoders
<1> QED BY <1>1, <1>2, <1>3, <1>4, <1>5

(* Of DlmmPositionDecoders. *)
LEMMA DlmmPositionWithin == \A d \in DOMAIN DlmmPositionDecoders : Within(DlmmPositionDecoders[d].layout)
<1>1. Within(DlmmPositionDecoders.dlmm_create_pos.layout)
     /\ Within(DlmmPositionDecoders.dlmm_legacy_close_pos.layout)
  <2>1. Keeps(Need(96), 0, 96) /\ Keeps(Pubs(3), 96, 0)
    BY NeedKept, PubsKept
  <2>2. Leads(DlmmPositionDecoders.dlmm_create_pos.layout, 0, 0)
       /\ Leads(DlmmPositionDecoders.dlmm_legacy_close_pos.layout, 0, 0)
    BY <2>1, Reads2 DEF DlmmPositionDecoders, Decoder
  <2> QED BY <2>2 DEF Within
<1>2. Within(DlmmPositionDecoders.dlmm_legacy_create_pos.layout)
  <2>1. Keeps(Need(104), 0, 104) /\ Keeps(Pubs(3), 104, 8) /\ Keeps(Halves(2), 8, 0)
    BY NeedKept, PubsKept, HalvesKept
  <2>2. Leads(DlmmPositionDecoders.dlmm_legacy_create_pos.layout, 0, 0)
    BY <2>1, Reads3 DEF DlmmPositionDecoders, Decoder
  <2> QED BY <2>2 DEF Within
<1>3. Within(DlmmPositionDecoders.dlmm_close_pos.layout)
  <2>1. Keeps(Need(64), 0, 64) /\ Keeps(Pubs(2), 64, 0)
    BY NeedKept, PubsKept
  <2>2. Leads(DlmmPositionDecoders.dlmm_close_pos.layout, 0, 0)
    BY <2>1, Reads2 DEF DlmmPositionDecoders, Decoder
  <2> QED BY <2>2 DEF Within
<1>4. Within(DlmmPositionDecoders.dlmm_claim_reward2.layout)
  <2>1. Keeps(Need(116), 0, 116) /\ Keeps(Pubs(3), 116, 20) /\ Keeps(Words(2), 20, 4) /\ Keeps(Slice(4), 4, 0)
    BY NeedKept, PubsKept, WordsKept, SliceKept
  <2>2. Leads(DlmmPositionDecoders.dlmm_claim_reward2.layout, 0, 0)
    BY <2>1, Reads4 DEF DlmmPositionDecoders, Decoder
  <2> QED BY <2>2 DEF Within
<1>5. Within(DlmmPositionDecoders.dlmm_claim_fee.layout)
  <2>1. Keeps(Need(112), 0, 112) /\ Keeps(Pubs(3), 112, 16) /\ Keeps(Words(2), 16, 0)
    BY NeedKept, PubsKept, WordsKept
  <2>2. Leads(DlmmPositionDecoders.dlmm_claim_fee.layout, 0, 0)
    BY <2>1, Reads3 DEF DlmmPositionDecoders, Decoder
  <2> QED BY <2>2 DEF Within
<1>6. Within(DlmmPositionDecoders.dlmm_claim_fee2.layout)
  <2>1. Keeps(Need(116), 0, 116) /\ Keeps(Pubs(3), 116, 20) /\ Keeps(Words(2), 20, 4)
    BY NeedKept, PubsKept, WordsKept
  <2>2. Leads(DlmmPositionDecoders.dlmm_claim_fee2.layout, 0, 4)
    BY <2>1, Reads3 DEF DlmmPositionDecoders, Decoder
  <2> QED BY <2>2 DEF Within
<1>7. DOMAIN DlmmPositionDecoders = {"dlmm_create_pos", "dlmm_legacy_create_pos", "dlmm_close_pos", "dlmm_legacy_close_pos",
        "dlmm_claim_reward2", "dlmm_claim_fee", "dlmm_claim_fee2"}
  BY DEF DlmmPositionDecoders
<1> QED BY <1>1, <1>2, <1>3, <1>4, <1>5, <1>6, <1>7

(* Of PumpFunTrades. *)
LEMMA PumpFunTradesWithin == \A d \in DOMAIN PumpFunTrades : Called(PumpFunTrades[d])
<1>1. Called(PumpFunTrades.buy_v3) /\ Called(PumpFunTrades.buy_exact_quote_in_v3)
  <2>1. Keeps(Later(8), 16, 8) /\ Keeps(Later(8), 8, 0) /\ Keeps(LaterFlag, 0, -1)
    BY LaterKept, LaterFlagKept
  <2>2. Keeps(OneOf({16, 17}), 0, 16)
    BY DEF OneOf, Item, Keeps, Items, Reads
  <2>3. Leads(<<OneOf({16, 17})>>, 0, 16) /\ Leads(Amounts, 16, 0) /\ Leads(<<LaterFlag>>, 0, -1)
    BY <2>1, <2>2, Reads1, Reads2 DEF Amounts
  <2>4. Leads(<<OneOf({16, 17})>> \o Amounts, 0, 0)
    BY <2>3, LeadsOn
  <2>5. Leads(<<OneOf({16, 17})>> \o Amounts \o <<LaterFlag>>, 0, -1)
    BY <2>3, <2>4, LeadsOn
  <2>6. Within(<<OneOf({16, 17})>> \o Amounts \o <<LaterFlag>>)
    BY <2>5 DEF Within
  <2> QED BY <2>6, Callable DEF PumpFunTrades, TradeV3
<1>2. Called(PumpFunTrades.sell_v3)
  <2>1. Keeps(Later(8), 16, 8) /\ Keeps(Later(8), 8, 0) /\ Keeps(LaterFlag, 0, -1)
    BY LaterKept, LaterFlagKept
  <2>2. Keeps(OneOf({16}), 0, 16)
    BY DEF OneOf, Item, Keeps, Items, Reads
  <2>3. Leads(<<OneOf({16})>>, 0, 16) /\ Leads(Amounts, 16, 0) /\ Leads(<<LaterFlag>>, 0, -1)
    BY <2>1, <2>2, Reads1, Reads2 DEF Amounts
  <2>4. Leads(<<OneOf({16})>> \o Amounts, 0, 0)
    BY <2>3, LeadsOn
  <2>5. Leads(<<OneOf({16})>> \o Amounts \o <<LaterFlag>>, 0, -1)
    BY <2>3, <2>4, LeadsOn
  <2>6. Within(<<OneOf({16})>> \o Amounts \o <<LaterFlag>>)
    BY <2>5 DEF Within
  <2> QED BY <2>6, Callable DEF PumpFunTrades, TradeV3
<1>3. Called(PumpFunTrades.buy) /\ Called(PumpFunTrades.buy_exact_sol_in)
  <2>1. Keeps(Later(8), 0, -1) /\ Keeps(Later(8), -1, -1) /\ Keeps(Later(1), -1, -1)
    BY LaterKept
  <2>2. Leads(Amounts, 0, -1) /\ Leads(<<Later(1)>>, -1, -1)
    BY <2>1, Reads1, Reads2 DEF Amounts
  <2>3. Leads(Amounts \o <<Later(1)>>, 0, -1)
    BY <2>2, LeadsOn
  <2>4. Within(Amounts \o <<Later(1)>>)
    BY <2>3 DEF Within
  <2> QED BY <2>4, Callable DEF PumpFunTrades
<1>4. Called(PumpFunTrades.sell) /\ Called(PumpFunTrades.buy_v2)
     /\ Called(PumpFunTrades.buy_exact_quote_in_v2) /\ Called(PumpFunTrades.sell_v2)
  <2>1. Keeps(Later(8), 0, -1) /\ Keeps(Later(8), -1, -1)
    BY LaterKept
  <2>2. Leads(<<Later(8), Later(8)>>, 0, -1)
    BY <2>1, Reads2
  <2>3. Within(<<Later(8), Later(8)>>)
    BY <2>2 DEF Within
  <2> QED BY <2>3, Callable DEF PumpFunTrades, Amounts
<1>5. DOMAIN PumpFunTrades = {"buy_v3", "buy_exact_quote_in_v3", "sell_v3", "buy", "buy_exact_sol_in", "sell", "buy_v2",
        "buy_exact_quote_in_v2", "sell_v2"}
  BY DEF PumpFunTrades
<1> QED BY <1>1, <1>2, <1>3, <1>4, <1>5

(* Of PumpSwapInstructions. *)
LEMMA PumpSwapCallsWithin == \A d \in DOMAIN PumpSwapInstructions : Called(PumpSwapInstructions[d])
<1>1. Called(PumpSwapInstructions.buy_v3) /\ Called(PumpSwapInstructions.buy_exact_quote_in_v3)
     /\ Called(PumpSwapInstructions.sell_v3)
  <2>1. Keeps(Exactly(16), 0, 16) /\ Keeps(Later(16), 16, 0)
    BY ExactlyKept, LaterKept
  <2>2. Leads(<<Exactly(16), Later(16)>>, 0, 0)
    BY <2>1, Reads2
  <2>3. Within(<<Exactly(16), Later(16)>>)
    BY <2>2 DEF Within
  <2> QED BY <2>3, Callable DEF PumpSwapInstructions, SwapV3
<1>2. Called(PumpSwapInstructions.buy) /\ Called(PumpSwapInstructions.buy_exact_quote_in)
     /\ Called(PumpSwapInstructions.sell)
  <2>1. Keeps(Later(16), 0, -1)
    BY LaterKept
  <2>2. Leads(<<Later(16)>>, 0, -1)
    BY <2>1, Reads1
  <2>3. Within(<<Later(16)>>)
    BY <2>2 DEF Within
  <2> QED BY <2>3, Callable DEF PumpSwapInstructions, SwapOf
<1>3. Called(PumpSwapInstructions.create_pool)
  <2>1. Keeps(Later(2), 0, -1) /\ Keeps(Later(8), -1, -1) /\ Keeps(Later(32), -1, -1)
       /\ Keeps(Later(1), -1, -1)
    BY LaterKept
  <2>2. Leads(<<Later(2), Later(8), Later(8), Later(32), Later(1), Later(1), Later(8), Later(1), Later(1)>>, 0, -1)
    BY <2>1, Reads9
  <2>3. Within(<<Later(2), Later(8), Later(8), Later(32), Later(1), Later(1), Later(8), Later(1), Later(1)>>)
    BY <2>2 DEF Within
  <2> QED BY <2>3, Callable DEF PumpSwapInstructions
<1>4. DOMAIN PumpSwapInstructions = {"buy_v3", "buy_exact_quote_in_v3", "sell_v3", "buy", "buy_exact_quote_in", "sell", "create_pool"}
  BY DEF PumpSwapInstructions
<1> QED BY <1>1, <1>2, <1>3, <1>4

(* Of PumpFeesInstructions. *)
LEMMA PumpFeesCallsWithin == \A d \in DOMAIN PumpFeesInstructions : Called(PumpFeesInstructions[d])
<1>1. Called(PumpFeesInstructions.create_fee_sharing)
  <2>1. Keeps(Refusal, 0, 0)
    BY RefusalKept
  <2>2. Leads(<<Refusal>>, 0, 0)
    BY <2>1, Reads1
  <2>3. Within(<<Refusal>>)
    BY <2>2 DEF Within
  <2> QED BY <2>3, Callable DEF PumpFeesInstructions
<1>2. Called(PumpFeesInstructions.update_fee_shares) /\ Called(PumpFeesInstructions.update_fee_shares_v2)
  <2>1. Keeps(Vector(34), 0, 0) /\ Keeps(AtEnd, 0, 0)
    BY VectorKept, AtEndKept
  <2>2. Leads(<<Vector(34), AtEnd>>, 0, 0)
    BY <2>1, Reads2
  <2>3. Within(<<Vector(34), AtEnd>>)
    BY <2>2 DEF Within
  <2> QED BY <2>3, Callable DEF PumpFeesInstructions, FeeShares
<1>3. Called(PumpFeesInstructions.initialize_fee_config) /\ Called(PumpFeesInstructions.reset_fee_sharing)
     /\ Called(PumpFeesInstructions.reset_fee_sharing_v2) /\ Called(PumpFeesInstructions.revoke_fee_sharing)
     /\ Called(PumpFeesInstructions.transfer_fee_sharing) /\ Called(PumpFeesInstructions.update_admin)
  <2>1. Leads(<<>>, 0, 0)
    BY Reads0
  <2>2. Within(<<>>)
    BY <2>1 DEF Within
  <2> QED BY <2>2, Callable DEF PumpFeesInstructions, FeeReset
<1>4. Called(PumpFeesInstructions.update_fee_config)
  <2>1. Keeps(Vector(40), 0, 0) /\ Keeps(Need(24), 0, 24) /\ Keeps(Words(3), 24, 0) /\ Keeps(AtEnd, 0, 0)
    BY VectorKept, NeedKept, WordsKept, AtEndKept
  <2>2. Leads(<<Vector(40), Need(24), Words(3), AtEnd>>, 0, 0)
    BY <2>1, Reads4
  <2>3. Within(<<Vector(40), Need(24), Words(3), AtEnd>>)
    BY <2>2 DEF Within
  <2> QED BY <2>3, Callable DEF PumpFeesInstructions
<1>5. Called(PumpFeesInstructions.upsert_fee_tiers)
  <2>1. Keeps(Vector(40), 0, 0) /\ Keeps(Need(1), 0, 1) /\ Keeps(Bytes(1), 1, 0) /\ Keeps(AtEnd, 0, 0)
    BY VectorKept, NeedKept, BytesKept, AtEndKept
  <2>2. Leads(<<Vector(40), Need(1), Bytes(1), AtEnd>>, 0, 0)
    BY <2>1, Reads4
  <2>3. Within(<<Vector(40), Need(1), Bytes(1), AtEnd>>)
    BY <2>2 DEF Within
  <2> QED BY <2>3, Callable DEF PumpFeesInstructions
<1>6. DOMAIN PumpFeesInstructions = {"create_fee_sharing", "update_fee_shares", "update_fee_shares_v2", "initialize_fee_config",
        "reset_fee_sharing", "reset_fee_sharing_v2", "revoke_fee_sharing", "transfer_fee_sharing",
        "update_admin", "update_fee_config", "upsert_fee_tiers"}
  BY DEF PumpFeesInstructions
<1> QED BY <1>1, <1>2, <1>3, <1>4, <1>5, <1>6

(* Of DammInstructions. *)
LEMMA DammCallsWithin == \A d \in DOMAIN DammInstructions : Called(DammInstructions[d])
<1>1. Called(DammInstructions.swap) /\ Called(DammInstructions.swap2) /\ Called(DammInstructions.add_liq)
     /\ Called(DammInstructions.rem_liq) /\ Called(DammInstructions.create)
     /\ Called(DammInstructions.close) /\ Called(DammInstructions.init)
  <2>1. Leads(<<>>, 0, 0)
    BY Reads0
  <2>2. Within(<<>>)
    BY <2>1 DEF Within
  <2> QED BY <2>2, Callable DEF DammInstructions, Bare
<1>2. DOMAIN DammInstructions = {"swap", "swap2", "add_liq", "rem_liq", "create", "close", "init"}
  BY DEF DammInstructions
<1> QED BY <1>1, <1>2

(* Of PoolsInstructions. *)
LEMMA PoolsCallsWithin == \A d \in DOMAIN PoolsInstructions : Called(PoolsInstructions[d])
<1>1. Called(PoolsInstructions.swap)
  <2>1. Keeps(Need(16), 0, 16) /\ Keeps(Words(2), 16, 0)
    BY NeedKept, WordsKept
  <2>2. Leads(<<Need(16), Words(2)>>, 0, 0)
    BY <2>1, Reads2
  <2>3. Within(<<Need(16), Words(2)>>)
    BY <2>2 DEF Within
  <2> QED BY <2>3, Callable DEF PoolsInstructions
<1>2. Called(PoolsInstructions.add_liquidity) /\ Called(PoolsInstructions.remove_liquidity)
  <2>1. Keeps(Need(24), 0, 24) /\ Keeps(Words(3), 24, 0)
    BY NeedKept, WordsKept
  <2>2. Leads(<<Need(24), Words(3)>>, 0, 0)
    BY <2>1, Reads2
  <2>3. Within(<<Need(24), Words(3)>>)
    BY <2>2 DEF Within
  <2> QED BY <2>3, Callable DEF PoolsInstructions
<1>3. Called(PoolsInstructions.create_pool)
  <2>1. Keeps(Need(16), 0, 16)
    BY NeedKept
  <2>2. Leads(<<Need(16)>>, 0, 16)
    BY <2>1, Reads1
  <2>3. Within(<<Need(16)>>)
    BY <2>2 DEF Within
  <2> QED BY <2>3, Callable DEF PoolsInstructions
<1>4. Called(PoolsInstructions.create_pool_config2)
  <2>1. Keeps(Need(16), 0, 16) /\ Keeps(Need(17), 16, 17) /\ Keeps(Skip(16), 17, 1) /\ Keeps(Option(8), 1, 0)
    BY NeedKept, SkipKept, OptionKept
  <2>2. Leads(<<Need(16), Need(17), Skip(16), Option(8)>>, 0, 0)
    BY <2>1, Reads4
  <2>3. Within(<<Need(16), Need(17), Skip(16), Option(8)>>)
    BY <2>2 DEF Within
  <2> QED BY <2>3, Callable DEF PoolsInstructions
<1>5. DOMAIN PoolsInstructions = {"swap", "add_liquidity", "remove_liquidity", "create_pool", "create_pool_config2"}
  BY DEF PoolsInstructions
<1> QED BY <1>1, <1>2, <1>3, <1>4, <1>5

(* Of DlmmPoolInstructions. *)
LEMMA DlmmPoolCallsWithin == \A d \in DOMAIN DlmmPoolInstructions : Called(DlmmPoolInstructions[d])
<1>1. Called(DlmmPoolInstructions.initialize_lb_pair)
  <2>1. Keeps(Need(6), 0, 6) /\ Keeps(Halves(1), 6, 2) /\ Keeps(Bytes(2), 2, 0)
    BY NeedKept, HalvesKept, BytesKept
  <2>2. Leads(<<Need(6), Halves(1), Bytes(2)>>, 0, 0)
    BY <2>1, Reads3
  <2>3. Within(<<Need(6), Halves(1), Bytes(2)>>)
    BY <2>2 DEF Within
  <2> QED BY <2>3, Callable DEF DlmmPoolInstructions, Dlmm
<1>2. Called(DlmmPoolInstructions.initialize_lb_pair2)
  <2>1. Keeps(Need(4), 0, 4) /\ Keeps(Halves(1), 4, 0)
    BY NeedKept, HalvesKept
  <2>2. Leads(<<Need(4), Halves(1)>>, 0, 0)
    BY <2>1, Reads2
  <2>3. Within(<<Need(4), Halves(1)>>)
    BY <2>2 DEF Within
  <2> QED BY <2>3, Callable DEF DlmmPoolInstructions, Dlmm
<1>3. Called(DlmmPoolInstructions.initialize_bin_array)
  <2>1. Keeps(Need(8), 0, 8) /\ Keeps(Words(1), 8, 0)
    BY NeedKept, WordsKept
  <2>2. Leads(<<Need(8), Words(1)>>, 0, 0)
    BY <2>1, Reads2
  <2>3. Within(<<Need(8), Words(1)>>)
    BY <2>2 DEF Within
  <2> QED BY <2>3, Callable DEF DlmmPoolInstructions, Dlmm
<1>4. Called(DlmmPoolInstructions.add_liquidity) /\ Called(DlmmPoolInstructions.add_liquidity2)
     /\ Called(DlmmPoolInstructions.remove_liquidity) /\ Called(DlmmPoolInstructions.remove_liquidity2)
  <2>1. Leads(<<>>, 0, 0)
    BY Reads0
  <2>2. Within(<<>>)
    BY <2>1 DEF Within
  <2> QED BY <2>2, Callable DEF DlmmPoolInstructions, Dlmm
<1>5. Called(DlmmPoolInstructions.initialize_position) /\ Called(DlmmPoolInstructions.initialize_position2)
     /\ Called(DlmmPoolInstructions.initialize_position_pda)
  <2>1. Keeps(Need(8), 0, 8) /\ Keeps(Halves(2), 8, 0) /\ Keeps(Refusal, 0, 0)
    BY NeedKept, HalvesKept, RefusalKept
  <2>2. Leads(<<Need(8), Halves(2), Refusal>>, 0, 0)
    BY <2>1, Reads3
  <2>3. Within(<<Need(8), Halves(2), Refusal>>)
    BY <2>2 DEF Within
  <2> QED BY <2>3, Callable DEF DlmmPoolInstructions, Dlmm, DlmmPosition
<1>6. DOMAIN DlmmPoolInstructions = {"initialize_lb_pair", "initialize_lb_pair2", "initialize_bin_array", "add_liquidity",
        "add_liquidity2", "remove_liquidity", "remove_liquidity2", "initialize_position",
        "initialize_position2", "initialize_position_pda"}
  BY DEF DlmmPoolInstructions
<1> QED BY <1>1, <1>2, <1>3, <1>4, <1>5, <1>6

(* Of DlmmTradeInstructions. *)
LEMMA DlmmTradeCallsWithin == \A d \in DOMAIN DlmmTradeInstructions : Called(DlmmTradeInstructions[d])
<1>1. Called(DlmmTradeInstructions.swap) /\ Called(DlmmTradeInstructions.swap2)
  <2>1. Keeps(Need(8), 0, 8) /\ Keeps(Words(1), 8, 0) /\ Keeps(Later(8), 0, -1)
    BY NeedKept, WordsKept, LaterKept
  <2>2. Leads(<<Need(8), Words(1), Later(8)>>, 0, -1)
    BY <2>1, Reads3
  <2>3. Within(<<Need(8), Words(1), Later(8)>>)
    BY <2>2 DEF Within
  <2> QED BY <2>3, Callable DEF DlmmTradeInstructions, Dlmm, DlmmSwap
<1>2. Called(DlmmTradeInstructions.swap_exact_out) /\ Called(DlmmTradeInstructions.swap_exact_out2)
  <2>1. Keeps(Need(16), 0, 16) /\ Keeps(Words(2), 16, 0)
    BY NeedKept, WordsKept
  <2>2. Leads(<<Need(16), Words(2)>>, 0, 0)
    BY <2>1, Reads2
  <2>3. Within(<<Need(16), Words(2)>>)
    BY <2>2 DEF Within
  <2> QED BY <2>3, Callable DEF DlmmTradeInstructions, Dlmm, DlmmExactOut
<1>3. Called(DlmmTradeInstructions.swap_with_price_impact)
     /\ Called(DlmmTradeInstructions.swap_with_price_impact2)
  <2>1. Keeps(Need(8), 0, 8) /\ Keeps(Words(1), 8, 0)
    BY NeedKept, WordsKept
  <2>2. Leads(<<Need(8), Words(1)>>, 0, 0)
    BY <2>1, Reads2
  <2>3. Within(<<Need(8), Words(1)>>)
    BY <2>2 DEF Within
  <2> QED BY <2>3, Callable DEF DlmmTradeInstructions, Dlmm, DlmmImpact
<1>4. Called(DlmmTradeInstructions.claim_fee) /\ Called(DlmmTradeInstructions.claim_fee2)
     /\ Called(DlmmTradeInstructions.close_position) /\ Called(DlmmTradeInstructions.close_position2)
  <2>1. Leads(<<>>, 0, 0)
    BY Reads0
  <2>2. Within(<<>>)
    BY <2>1 DEF Within
  <2> QED BY <2>2, Callable DEF DlmmTradeInstructions, Dlmm
<1>5. DOMAIN DlmmTradeInstructions = {"swap", "swap2", "swap_exact_out", "swap_exact_out2", "swap_with_price_impact",
        "swap_with_price_impact2", "claim_fee", "claim_fee2", "close_position", "close_position2"}
  BY DEF DlmmTradeInstructions
<1> QED BY <1>1, <1>2, <1>3, <1>4, <1>5

(* Of ClmmInstructions. *)
LEMMA ClmmCallsWithin == \A d \in DOMAIN ClmmInstructions : Called(ClmmInstructions[d])
<1>1. Called(ClmmInstructions.swap) /\ Called(ClmmInstructions.swap_v2)
  <2>1. Keeps(Need(33), 0, 33) /\ Keeps(Words(2), 33, 17) /\ Keeps(Slice(16), 17, 1) /\ Keeps(Flag, 1, 0)
    BY NeedKept, WordsKept, SliceKept, FlagKept
  <2>2. Leads(<<Need(33), Words(2), Slice(16), Flag>>, 0, 0)
    BY <2>1, Reads4
  <2>3. Within(<<Need(33), Words(2), Slice(16), Flag>>)
    BY <2>2 DEF Within
  <2> QED BY <2>3, Callable DEF ClmmInstructions, ClmmSwap
<1>2. Called(ClmmInstructions.inc_liq) /\ Called(ClmmInstructions.dec_liq)
  <2>1. Keeps(Need(32), 0, 32) /\ Keeps(Slice(16), 32, 16) /\ Keeps(Words(2), 16, 0)
    BY NeedKept, SliceKept, WordsKept
  <2>2. Leads(<<Need(32), Slice(16), Words(2)>>, 0, 0)
    BY <2>1, Reads3
  <2>3. Within(<<Need(32), Slice(16), Words(2)>>)
    BY <2>2 DEF Within
  <2> QED BY <2>3, Callable DEF ClmmInstructions
<1>3. Called(ClmmInstructions.create)
  <2>1. Keeps(Need(24), 0, 24) /\ Keeps(Slice(16), 24, 8) /\ Keeps(Words(1), 8, 0)
    BY NeedKept, SliceKept, WordsKept
  <2>2. Leads(<<Need(24), Slice(16), Words(1)>>, 0, 0)
    BY <2>1, Reads3
  <2>3. Within(<<Need(24), Slice(16), Words(1)>>)
    BY <2>2 DEF Within
  <2> QED BY <2>3, Callable DEF ClmmInstructions
<1>4. Called(ClmmInstructions.create_customizable_pool)
  <2>1. Keeps(Exactly(18), 0, 18) /\ Keeps(Slice(16), 18, 2) /\ Keeps(Flag, 2, 1) /\ Keeps(Flag, 1, 0)
    BY ExactlyKept, SliceKept, FlagKept
  <2>2. Leads(<<Exactly(18), Slice(16), Flag, Flag>>, 0, 0)
    BY <2>1, Reads4
  <2>3. Within(<<Exactly(18), Slice(16), Flag, Flag>>)
    BY <2>2 DEF Within
  <2> QED BY <2>3, Callable DEF ClmmInstructions
<1>5. Called(ClmmInstructions.open_position) /\ Called(ClmmInstructions.open_position_v2)
     /\ Called(ClmmInstructions.open_position_with_token_22_nft)
  <2>1. Keeps(Need(48), 0, 48) /\ Keeps(Halves(2), 48, 40) /\ Keeps(Skip(8), 40, 32)
       /\ Keeps(Slice(16), 32, 16)
    BY NeedKept, HalvesKept, SkipKept, SliceKept
  <2>2. Leads(<<Need(48), Halves(2), Skip(8), Slice(16)>>, 0, 16)
    BY <2>1, Reads4
  <2>3. Within(<<Need(48), Halves(2), Skip(8), Slice(16)>>)
    BY <2>2 DEF Within
  <2> QED BY <2>3, Callable DEF ClmmInstructions, ClmmOpen
<1>6. Called(ClmmInstructions.close_position)
  <2>1. Leads(<<>>, 0, 0)
    BY Reads0
  <2>2. Within(<<>>)
    BY <2>1 DEF Within
  <2> QED BY <2>2, Callable DEF ClmmInstructions, Bare
<1>7. DOMAIN ClmmInstructions = {"swap", "swap_v2", "inc_liq", "dec_liq", "create", "create_customizable_pool", "open_position",
        "open_position_v2", "open_position_with_token_22_nft", "close_position"}
  BY DEF ClmmInstructions
<1> QED BY <1>1, <1>2, <1>3, <1>4, <1>5, <1>6, <1>7

(* Of CpmmInstructions. *)
LEMMA CpmmCallsWithin == \A d \in DOMAIN CpmmInstructions : Called(CpmmInstructions[d])
<1>1. Called(CpmmInstructions.swap) /\ Called(CpmmInstructions.swap_out)
  <2>1. Keeps(Need(16), 0, 16)
    BY NeedKept
  <2>2. Leads(<<Need(16)>>, 0, 16)
    BY <2>1, Reads1
  <2>3. Within(<<Need(16)>>)
    BY <2>2 DEF Within
  <2> QED BY <2>3, Callable DEF CpmmInstructions
<1>2. Called(CpmmInstructions.initialize)
  <2>1. Keeps(Need(24), 0, 24) /\ Keeps(Words(2), 24, 8)
    BY NeedKept, WordsKept
  <2>2. Leads(<<Need(24), Words(2)>>, 0, 8)
    BY <2>1, Reads2
  <2>3. Within(<<Need(24), Words(2)>>)
    BY <2>2 DEF Within
  <2> QED BY <2>3, Callable DEF CpmmInstructions
<1>3. Called(CpmmInstructions.initialize_permission)
  <2>1. Keeps(Need(25), 0, 25) /\ Keeps(Words(2), 25, 9)
    BY NeedKept, WordsKept
  <2>2. Leads(<<Need(25), Words(2)>>, 0, 9)
    BY <2>1, Reads2
  <2>3. Within(<<Need(25), Words(2)>>)
    BY <2>2 DEF Within
  <2> QED BY <2>3, Callable DEF CpmmInstructions
<1>4. Called(CpmmInstructions.deposit) /\ Called(CpmmInstructions.withdraw)
  <2>1. Keeps(Need(24), 0, 24) /\ Keeps(Words(3), 24, 0)
    BY NeedKept, WordsKept
  <2>2. Leads(<<Need(24), Words(3)>>, 0, 0)
    BY <2>1, Reads2
  <2>3. Within(<<Need(24), Words(3)>>)
    BY <2>2 DEF Within
  <2> QED BY <2>3, Callable DEF CpmmInstructions
<1>5. DOMAIN CpmmInstructions = {"swap", "swap_out", "initialize", "initialize_permission", "deposit", "withdraw"}
  BY DEF CpmmInstructions
<1> QED BY <1>1, <1>2, <1>3, <1>4, <1>5

(* Of AmmInstructions. *)
LEMMA AmmCallsWithin == \A d \in DOMAIN AmmInstructions : Called(AmmInstructions[d])
<1>1. Called(AmmInstructions.swap_base_in) /\ Called(AmmInstructions.swap_base_out)
     /\ Called(AmmInstructions.swap_base_in_v2) /\ Called(AmmInstructions.swap_base_out_v2)
  <2>1. Keeps(Need(16), 0, 16) /\ Keeps(Words(2), 16, 0)
    BY NeedKept, WordsKept
  <2>2. Leads(<<Need(16), Words(2)>>, 0, 0)
    BY <2>1, Reads2
  <2>3. Within(<<Need(16), Words(2)>>)
    BY <2>2 DEF Within
  <2> QED BY <2>3, Callable DEF AmmInstructions, AmmSwap
<1>2. DOMAIN AmmInstructions = {"swap_base_in", "swap_base_out", "swap_base_in_v2", "swap_base_out_v2"}
  BY DEF AmmInstructions
<1> QED BY <1>1, <1>2

(* Of LaunchlabInstructions. *)
LEMMA LaunchlabCallsWithin == \A d \in DOMAIN LaunchlabInstructions : Called(LaunchlabInstructions[d])
<1>1. Called(LaunchlabInstructions.trade)
  <2>1. Keeps(Exactly(139), 0, 139) /\ Keeps(Slice(32), 139, 107) /\ Keeps(Later(104), 107, 3)
       /\ Keeps(Flag, 3, 2)
    BY ExactlyKept, SliceKept, LaterKept, FlagKept
  <2>2. Keeps(Flag, 2, 1) /\ Keeps(Flag, 1, 0)
    BY FlagKept
  <2>3. Leads(<<Exactly(139), Slice(32), Later(104), Flag, Flag, Flag>>, 0, 0)
    BY <2>1, <2>2, Reads6
  <2>4. Within(<<Exactly(139), Slice(32), Later(104), Flag, Flag, Flag>>)
    BY <2>3 DEF Within
  <2> QED BY <2>4, Callable DEF LaunchlabInstructions
<1>2. Called(LaunchlabInstructions.pool_create)
  <2>1. Keeps(Need(97), 0, 97) /\ Keeps(Slice(64), 97, 33) /\ Keeps(Skip(32), 33, 1) /\ Keeps(Bytes(1), 1, 0)
    BY NeedKept, SliceKept, SkipKept, BytesKept
  <2>2. Keeps(Text, 0, 0)
    BY TextKept
  <2>3. Leads(<<Need(97), Slice(64), Skip(32), Bytes(1), Text, Text, Text>>, 0, 0)
    BY <2>1, <2>2, Reads7
  <2>4. Within(<<Need(97), Slice(64), Skip(32), Bytes(1), Text, Text, Text>>)
    BY <2>3 DEF Within
  <2> QED BY <2>4, Callable DEF LaunchlabInstructions
<1>3. Called(LaunchlabInstructions.buy_exact_in) /\ Called(LaunchlabInstructions.buy_exact_out)
     /\ Called(LaunchlabInstructions.sell_exact_in) /\ Called(LaunchlabInstructions.sell_exact_out)
  <2>1. Keeps(Later(8), 0, -1) /\ Keeps(Later(8), -1, -1)
    BY LaterKept
  <2>2. Leads(<<Later(8), Later(8)>>, 0, -1)
    BY <2>1, Reads2
  <2>3. Within(<<Later(8), Later(8)>>)
    BY <2>2 DEF Within
  <2> QED BY <2>3, Callable DEF LaunchlabInstructions, Amounts, LaunchlabOrder
<1>4. Called(LaunchlabInstructions.initialize) /\ Called(LaunchlabInstructions.initialize_v2)
     /\ Called(LaunchlabInstructions.initialize_with_token_2022)
  <2>1. Keeps(Need(1), 0, 1) /\ Keeps(Bytes(1), 1, 0) /\ Keeps(Text, 0, 0)
    BY NeedKept, BytesKept, TextKept
  <2>2. Leads(<<Need(1), Bytes(1), Text, Text, Text>>, 0, 0)
    BY <2>1, Reads5
  <2>3. Within(<<Need(1), Bytes(1), Text, Text, Text>>)
    BY <2>2 DEF Within
  <2> QED BY <2>3, Callable DEF LaunchlabInstructions, LaunchlabStart
<1>5. Called(LaunchlabInstructions.migrate_to_amm)
  <2>1. Keeps(Need(9), 0, 9)
    BY NeedKept
  <2>2. Leads(<<Need(9)>>, 0, 9)
    BY <2>1, Reads1
  <2>3. Within(<<Need(9)>>)
    BY <2>2 DEF Within
  <2> QED BY <2>3, Callable DEF LaunchlabInstructions
<1>6. Called(LaunchlabInstructions.migrate_to_cpswap)
  <2>1. Leads(<<>>, 0, 0)
    BY Reads0
  <2>2. Within(<<>>)
    BY <2>1 DEF Within
  <2> QED BY <2>2, Callable DEF LaunchlabInstructions
<1>7. DOMAIN LaunchlabInstructions = {"trade", "pool_create", "buy_exact_in", "buy_exact_out", "sell_exact_in", "sell_exact_out",
        "initialize", "initialize_v2", "initialize_with_token_2022", "migrate_to_amm", "migrate_to_cpswap"}
  BY DEF LaunchlabInstructions
<1> QED BY <1>1, <1>2, <1>3, <1>4, <1>5, <1>6, <1>7

(* Of OrcaInstructions. *)
LEMMA OrcaCallsWithin == \A d \in DOMAIN OrcaInstructions : Called(OrcaInstructions[d])
<1>1. Called(OrcaInstructions.swap) /\ Called(OrcaInstructions.swap_v2)
  <2>1. Keeps(Need(34), 0, 34) /\ Keeps(Words(2), 34, 18) /\ Keeps(Slice(16), 18, 2) /\ Keeps(Bytes(2), 2, 0)
    BY NeedKept, WordsKept, SliceKept, BytesKept
  <2>2. Leads(<<Need(34), Words(2), Slice(16), Bytes(2)>>, 0, 0)
    BY <2>1, Reads4
  <2>3. Within(<<Need(34), Words(2), Slice(16), Bytes(2)>>)
    BY <2>2 DEF Within
  <2> QED BY <2>3, Callable DEF OrcaInstructions, OrcaSwap
<1>2. Called(OrcaInstructions.inc_liq) /\ Called(OrcaInstructions.dec_liq)
  <2>1. Keeps(Need(32), 0, 32) /\ Keeps(Slice(16), 32, 16) /\ Keeps(Words(2), 16, 0)
    BY NeedKept, SliceKept, WordsKept
  <2>2. Leads(<<Need(32), Slice(16), Words(2)>>, 0, 0)
    BY <2>1, Reads3
  <2>3. Within(<<Need(32), Slice(16), Words(2)>>)
    BY <2>2 DEF Within
  <2> QED BY <2>3, Callable DEF OrcaInstructions, OrcaLiquidity
<1>3. Called(OrcaInstructions.inc_liq_v2) /\ Called(OrcaInstructions.dec_liq_v2)
  <2>1. Keeps(Need(33), 0, 33) /\ Keeps(Slice(16), 33, 17) /\ Keeps(Words(2), 17, 1)
    BY NeedKept, SliceKept, WordsKept
  <2>2. Leads(<<Need(33), Slice(16), Words(2)>>, 0, 1)
    BY <2>1, Reads3
  <2>3. Within(<<Need(33), Slice(16), Words(2)>>)
    BY <2>2 DEF Within
  <2> QED BY <2>3, Callable DEF OrcaInstructions, OrcaLiquidity
<1>4. Called(OrcaInstructions.init_pool)
  <2>1. Keeps(Need(18), 0, 18) /\ Keeps(Bytes(2), 18, 16) /\ Keeps(Slice(16), 16, 0)
    BY NeedKept, BytesKept, SliceKept
  <2>2. Leads(<<Need(18), Bytes(2), Slice(16)>>, 0, 0)
    BY <2>1, Reads3
  <2>3. Within(<<Need(18), Bytes(2), Slice(16)>>)
    BY <2>2 DEF Within
  <2> QED BY <2>3, Callable DEF OrcaInstructions
<1>5. DOMAIN OrcaInstructions = {"swap", "swap_v2", "inc_liq", "inc_liq_v2", "dec_liq", "dec_liq_v2", "init_pool"}
  BY DEF OrcaInstructions
<1> QED BY <1>1, <1>2, <1>3, <1>4, <1>5

(* Of PumpFunAccounts. *)
LEMMA PumpFunDataWithin == \A d \in DOMAIN PumpFunAccounts : Within(PumpFunAccounts[d].layout)
<1>1. Within(PumpFunAccounts.global.layout)
  <2>1. Keeps(Need(1037), 0, 1037) /\ Keeps(Bytes(1), 1037, 1036)
    BY NeedKept, BytesKept
  <2>2. Keeps(Keys(2), 1036, 972) /\ Keeps(Words(5), 972, 932)
    BY KeysKept, WordsKept
  <2>3. Keeps(Keys(1), 932, 900) /\ Keeps(Bytes(1), 900, 899)
    BY KeysKept, BytesKept
  <2>4. Keeps(Words(2), 899, 883) /\ Keeps(Keys(9), 883, 595)
    BY WordsKept, KeysKept
  <2>5. Keeps(Bytes(1), 595, 594) /\ Keeps(Keys(2), 594, 530)
    BY BytesKept, KeysKept
  <2>6. Keeps(Bytes(1), 530, 529) /\ Keeps(Keys(7), 529, 305)
    BY BytesKept, KeysKept
  <2>7. Keeps(Bytes(1), 305, 304) /\ Keeps(Keys(8), 304, 48)
    BY BytesKept, KeysKept
  <2>8. Keeps(Words(2), 48, 32) /\ Keeps(Keys(1), 32, 0)
    BY WordsKept, KeysKept
  <2>9. Keeps(Later(1), 0, -1) /\ Keeps(Later(8), -1, -1)
    BY LaterKept
  <2>10. Keeps(Later(32), -1, -1) /\ Keeps(Later(1), -1, -1)
    BY LaterKept
  <2>11. Leads(PumpFunAccounts.global.layout, 0, -1)
    BY <2>1, <2>2, <2>3, <2>4, <2>5, <2>6, <2>7, <2>8, <2>9, <2>10, Reads21 DEF PumpFunAccounts, Decoder, PumpFunGlobal
  <2> QED BY <2>11 DEF Within
<1>2. Within(PumpFunAccounts.bonding_curve.layout)
  <2>1. Keeps(Words(5), 107, 67) /\ Keeps(Bytes(1), 67, 66)
    BY WordsKept, BytesKept
  <2>2. Keeps(Keys(1), 66, 34) /\ Keeps(Bytes(2), 34, 32)
    BY KeysKept, BytesKept
  <2>3. Keeps(Keys(1), 32, 0) /\ Keeps(Later(8), 0, -1)
    BY KeysKept, LaterKept
  <2>4. Keeps(Later(1), -1, -1)
    BY LaterKept
  <2>5. Keeps(Sizes({107, 116}, 117), 0, 107)
    BY DEF Sizes, Item, Keeps, Items, Reads
  <2>6. Leads(PumpFunAccounts.bonding_curve.layout, 0, -1)
    BY <2>1, <2>2, <2>3, <2>4, <2>5, Reads9 DEF PumpFunAccounts, Decoder
  <2> QED BY <2>6 DEF Within
<1>3. Within(PumpFunAccounts.fee_config.layout)
  <2>1. Keeps(Need(65), 0, 65) /\ Keeps(Bytes(1), 65, 64)
    BY NeedKept, BytesKept
  <2>2. Keeps(Keys(1), 64, 32) /\ Keeps(Need(24), 32, 32)
    BY KeysKept, NeedKept
  <2>3. Keeps(Words(3), 32, 8) /\ Keeps(Vector(40), 8, 0)
    BY WordsKept, VectorKept
  <2>4. Keeps(Vector(40), 0, 0) /\ Keeps(EventIf(0), 0, 0)
    BY VectorKept, EventIfKept
  <2>5. Keeps(Need(24), 0, 24) /\ Keeps(Words(3), 24, 0)
    BY NeedKept, WordsKept
  <2>6. Leads(PumpFunAccounts.fee_config.layout, 0, 0)
    BY <2>1, <2>2, <2>3, <2>4, <2>5, Reads10 DEF PumpFunAccounts, Decoder
  <2> QED BY <2>6 DEF Within
<1>4. Within(PumpFunAccounts.sharing_config.layout)
  <2>1. Keeps(Need(72), 0, 72) /\ Keeps(Bytes(2), 72, 70)
    BY NeedKept, BytesKept
  <2>2. Keeps(Flag, 70, 69) /\ Keeps(Keys(2), 69, 5)
    BY FlagKept, KeysKept
  <2>3. Keeps(Bytes(1), 5, 4) /\ Keeps(Vector(34), 4, 0)
    BY BytesKept, VectorKept
  <2>4. Leads(PumpFunAccounts.sharing_config.layout, 0, 0)
    BY <2>1, <2>2, <2>3, Reads6 DEF PumpFunAccounts, Decoder
  <2> QED BY <2>4 DEF Within
<1>5. Within(PumpFunAccounts.global_volume_accumulator.layout)
  <2>1. Keeps(Need(536), 0, 536) /\ Keeps(Words(3), 536, 512)
    BY NeedKept, WordsKept
  <2>2. Keeps(Keys(1), 512, 480) /\ Keeps(Words(60), 480, 0)
    BY KeysKept, WordsKept
  <2>3. Leads(PumpFunAccounts.global_volume_accumulator.layout, 0, 0)
    BY <2>1, <2>2, Reads4 DEF PumpFunAccounts, Decoder
  <2> QED BY <2>3 DEF Within
<1>6. Within(PumpFunAccounts.user_volume_accumulator.layout)
  <2>1. Keeps(Need(98), 0, 98) /\ Keeps(Keys(1), 98, 66)
    BY NeedKept, KeysKept
  <2>2. Keeps(Bytes(1), 66, 65) /\ Keeps(Words(4), 65, 33)
    BY BytesKept, WordsKept
  <2>3. Keeps(Bytes(1), 33, 32) /\ Keeps(Words(4), 32, 0)
    BY BytesKept, WordsKept
  <2>4. Leads(PumpFunAccounts.user_volume_accumulator.layout, 0, 0)
    BY <2>1, <2>2, <2>3, Reads6 DEF PumpFunAccounts, Decoder
  <2> QED BY <2>4 DEF Within
<1>7. DOMAIN PumpFunAccounts = {"global", "bonding_curve", "fee_config", "sharing_config", "global_volume_accumulator",
        "user_volume_accumulator"}
  BY DEF PumpFunAccounts
<1> QED BY <1>1, <1>2, <1>3, <1>4, <1>5, <1>6, <1>7

(* Of PumpSwapAccounts. *)
LEMMA PumpSwapDataWithin == \A d \in DOMAIN PumpSwapAccounts : Within(PumpSwapAccounts[d].layout)
<1>1. Within(PumpSwapAccounts.global_config.layout)
  <2>1. Keeps(Need(634), 0, 634) /\ Keeps(Keys(1), 634, 602)
    BY NeedKept, KeysKept
  <2>2. Keeps(Words(2), 602, 586) /\ Keeps(Bytes(1), 586, 585)
    BY WordsKept, BytesKept
  <2>3. Keeps(Keys(8), 585, 329) /\ Keeps(Words(1), 329, 321)
    BY KeysKept, WordsKept
  <2>4. Keeps(Keys(3), 321, 225) /\ Keeps(Bytes(1), 225, 224)
    BY KeysKept, BytesKept
  <2>5. Keeps(Keys(7), 224, 0)
    BY KeysKept
  <2>6. Leads(PumpSwapAccounts.global_config.layout, 0, 0)
    BY <2>1, <2>2, <2>3, <2>4, <2>5, Reads9 DEF PumpSwapAccounts, Decoder
  <2> QED BY <2>6 DEF Within
<1>2. Within(PumpSwapAccounts.pool.layout)
  <2>1. Keeps(Bytes(3), 244, 241) /\ Keeps(Keys(6), 241, 49)
    BY BytesKept, KeysKept
  <2>2. Keeps(Words(1), 49, 41) /\ Keeps(Keys(1), 41, 9)
    BY WordsKept, KeysKept
  <2>3. Keeps(Bytes(2), 9, 7) /\ Keeps(Later(16), 7, -1)
    BY BytesKept, LaterKept
  <2>4. Keeps(Later(8), -1, -1) /\ Keeps(Later(1), -1, -1)
    BY LaterKept
  <2>5. Keeps(Sizes({244, 253, 262}, 263), 0, 244)
    BY DEF Sizes, Item, Keeps, Items, Reads
  <2>6. Leads(PumpSwapAccounts.pool.layout, 0, -1)
    BY <2>1, <2>2, <2>3, <2>4, <2>5, Reads10 DEF PumpSwapAccounts, Decoder
  <2> QED BY <2>6 DEF Within
<1>3. DOMAIN PumpSwapAccounts = {"global_config", "pool"}
  BY DEF PumpSwapAccounts
<1> QED BY <1>1, <1>2, <1>3

(* Of ClmmAccounts. *)
LEMMA ClmmDataWithin == \A d \in DOMAIN ClmmAccounts : Within(ClmmAccounts[d].layout)
<1>1. Within(ClmmAccounts.amm_config.layout)
  <2>1. Keeps(Need(109), 0, 109) /\ Keeps(Checked(3), 109, 106) /\ Keeps(CheckedKeys(1), 106, 74)
       /\ Keeps(Checked(18), 74, 56)
    BY NeedKept, CheckedKept DEF CheckedKeys
  <2>2. Keeps(CheckedKeys(1), 56, 24) /\ Keeps(CheckedWords(3), 24, 0)
    BY CheckedKept DEF CheckedKeys, CheckedWords
  <2>3. Leads(ClmmAccounts.amm_config.layout, 0, 0)
    BY <2>1, <2>2, Reads6 DEF ClmmAccounts, Decoder
  <2> QED BY <2>3 DEF Within
<1>2. Within(ClmmAccounts.pool_state.layout)
  <2>1. Keeps(Need(1536), 0, 1536) /\ Keeps(Checked(1), 1536, 1535) /\ Keeps(CheckedKeys(7), 1535, 1311)
       /\ Keeps(Checked(4), 1311, 1307)
    BY NeedKept, CheckedKept DEF CheckedKeys
  <2>2. Keeps(CheckedU128s(2), 1307, 1275) /\ Keeps(Checked(8), 1275, 1267)
       /\ Keeps(CheckedU128s(2), 1267, 1235) /\ Keeps(CheckedWords(2), 1235, 1219)
    BY CheckedKept DEF CheckedU128s, CheckedWords
  <2>3. Keeps(CheckedU128s(4), 1219, 1155) /\ Keeps(Checked(8), 1155, 1147) /\ Keeps(Checked(1), 1147, 1146)
       /\ Keeps(CheckedWords(3), 1146, 1122)
    BY CheckedKept DEF CheckedU128s, CheckedWords
  <2>4. Keeps(Checked(16), 1122, 1106) /\ Keeps(CheckedWords(2), 1106, 1090)
       /\ Keeps(CheckedKeys(3), 1090, 994) /\ Keeps(Checked(16), 994, 978)
    BY CheckedKept DEF CheckedKeys, CheckedWords
  <2>5. Keeps(Checked(1), 978, 977) /\ Keeps(CheckedWords(3), 977, 953) /\ Keeps(Checked(16), 953, 937)
       /\ Keeps(CheckedWords(2), 937, 921)
    BY CheckedKept DEF CheckedWords
  <2>6. Keeps(CheckedKeys(3), 921, 825) /\ Keeps(Checked(16), 825, 809) /\ Keeps(Checked(1), 809, 808)
       /\ Keeps(CheckedWords(3), 808, 784)
    BY CheckedKept DEF CheckedKeys, CheckedWords
  <2>7. Keeps(Checked(16), 784, 768) /\ Keeps(CheckedWords(2), 768, 752) /\ Keeps(CheckedKeys(3), 752, 656)
       /\ Keeps(Checked(16), 656, 640)
    BY CheckedKept DEF CheckedKeys, CheckedWords
  <2>8. Keeps(CheckedWords(24), 640, 448) /\ Keeps(Checked(6), 448, 442) /\ Keeps(Checked(20), 442, 422)
       /\ Keeps(CheckedWords(1), 422, 414)
    BY CheckedKept DEF CheckedWords
  <2>9. Keeps(Checked(46), 414, 368) /\ Keeps(CheckedWords(46), 368, 0)
    BY CheckedKept DEF CheckedWords
  <2>10. Leads(<<Need(1536)>>, 0, 1536) /\ Leads(ClmmPoolHead, 1536, 1235) /\ Leads(ClmmPoolBody, 1235, 1147)
       /\ Leads(ClmmReward, 1147, 978) /\ Leads(ClmmReward, 978, 809) /\ Leads(ClmmReward, 809, 640)
       /\ Leads(ClmmPoolTail, 640, 0)
    BY <2>1, <2>2, <2>3, <2>4, <2>5, <2>6, <2>7, <2>8, <2>9, Reads1, Reads3, Reads6 DEF ClmmPoolBody, ClmmPoolHead, ClmmPoolTail, ClmmReward
  <2>11. Leads(<<Need(1536)>> \o ClmmPoolHead, 0, 1235)
    BY <2>10, LeadsOn
  <2>12. Leads(<<Need(1536)>> \o ClmmPoolHead \o ClmmPoolBody, 0, 1147)
    BY <2>10, <2>11, LeadsOn
  <2>13. Leads(<<Need(1536)>> \o ClmmPoolHead \o ClmmPoolBody \o ClmmReward, 0, 978)
    BY <2>10, <2>12, LeadsOn
  <2>14. Leads(<<Need(1536)>> \o ClmmPoolHead \o ClmmPoolBody \o ClmmReward \o ClmmReward, 0, 809)
    BY <2>10, <2>13, LeadsOn
  <2>15. Leads(<<Need(1536)>> \o ClmmPoolHead \o ClmmPoolBody \o ClmmReward \o ClmmReward \o ClmmReward, 0, 640)
    BY <2>10, <2>14, LeadsOn
  <2>16. Leads(<<Need(1536)>> \o ClmmPoolHead \o ClmmPoolBody \o ClmmReward \o ClmmReward \o ClmmReward
         \o ClmmPoolTail, 0, 0)
    BY <2>10, <2>15, LeadsOn
  <2>17. ClmmAccounts.pool_state.layout
         = <<Need(1536)>> \o ClmmPoolHead \o ClmmPoolBody \o ClmmReward \o ClmmReward \o ClmmReward \o ClmmPoolTail
    BY DEF ClmmAccounts, Decoder
  <2> QED BY <2>16, <2>17 DEF Within
<1>3. Within(ClmmAccounts.tick_array_state.layout)
  <2>1. Keeps(Need(10232), 0, 10232) /\ Keeps(CheckedKeys(1), 10232, 10200) /\ Keeps(Checked(4), 10200, 10196)
       /\ Keeps(ClmmTicks, 10196, 116)
    BY NeedKept, CheckedKept DEF CheckedKeys, ClmmTicks
  <2>2. Keeps(Checked(1), 116, 115) /\ Keeps(CheckedWords(1), 115, 107) /\ Keeps(Checked(107), 107, 0)
    BY CheckedKept DEF CheckedWords
  <2>3. Leads(ClmmAccounts.tick_array_state.layout, 0, 0)
    BY <2>1, <2>2, Reads7 DEF ClmmAccounts, Decoder
  <2> QED BY <2>3 DEF Within
<1>4. DOMAIN ClmmAccounts = {"amm_config", "pool_state", "tick_array_state"}
  BY DEF ClmmAccounts
<1> QED BY <1>1, <1>2, <1>3, <1>4

(* Of CpmmAccounts. *)
LEMMA CpmmDataWithin == \A d \in DOMAIN CpmmAccounts : Within(CpmmAccounts[d].layout)
<1>1. Within(CpmmAccounts.amm_config.layout)
  <2>1. Keeps(Need(228), 0, 228) /\ Keeps(Checked(4), 228, 224) /\ Keeps(CheckedWords(4), 224, 192)
       /\ Keeps(CheckedKeys(2), 192, 128)
    BY NeedKept, CheckedKept DEF CheckedKeys, CheckedWords
  <2>2. Keeps(CheckedWords(16), 128, 0)
    BY CheckedKept DEF CheckedWords
  <2>3. Leads(CpmmAccounts.amm_config.layout, 0, 0)
    BY <2>1, <2>2, Reads5 DEF CpmmAccounts, Decoder
  <2> QED BY <2>3 DEF Within
<1>2. Within(CpmmAccounts.pool_state.layout)
  <2>1. Keeps(Need(629), 0, 629) /\ Keeps(CheckedKeys(10), 629, 309) /\ Keeps(Checked(5), 309, 304)
       /\ Keeps(CheckedWords(7), 304, 248)
    BY NeedKept, CheckedKept DEF CheckedKeys, CheckedWords
  <2>2. Keeps(Checked(8), 248, 240) /\ Keeps(CheckedWords(30), 240, 0)
    BY CheckedKept DEF CheckedWords
  <2>3. Leads(CpmmAccounts.pool_state.layout, 0, 0)
    BY <2>1, <2>2, Reads6 DEF CpmmAccounts, Decoder
  <2> QED BY <2>3 DEF Within
<1>3. DOMAIN CpmmAccounts = {"amm_config", "pool_state"}
  BY DEF CpmmAccounts
<1> QED BY <1>1, <1>2, <1>3

(* Of OrcaPoolAccounts. *)
LEMMA OrcaPoolDataWithin == \A d \in DOMAIN OrcaPoolAccounts : Within(OrcaPoolAccounts[d].layout)
<1>1. Within(OrcaPoolAccounts.whirlpool.layout)
  <2>1. Keeps(Need(645), 0, 645) /\ Keeps(CheckedKeys(1), 645, 613) /\ Keeps(Checked(9), 613, 604)
       /\ Keeps(CheckedU128s(2), 604, 572)
    BY NeedKept, CheckedKept DEF CheckedKeys, CheckedU128s
  <2>2. Keeps(Checked(4), 572, 568) /\ Keeps(CheckedWords(2), 568, 552) /\ Keeps(CheckedKeys(2), 552, 488)
       /\ Keeps(Checked(16), 488, 472)
    BY CheckedKept DEF CheckedKeys, CheckedWords
  <2>3. Keeps(CheckedKeys(2), 472, 408) /\ Keeps(Checked(16), 408, 392) /\ Keeps(CheckedWords(1), 392, 384)
       /\ Keeps(CheckedKeys(3), 384, 288)
    BY CheckedKept DEF CheckedKeys, CheckedWords
  <2>4. Keeps(CheckedU128s(2), 288, 256) /\ Keeps(CheckedKeys(3), 256, 160) /\ Keeps(CheckedU128s(2), 160, 128)
       /\ Keeps(CheckedKeys(3), 128, 32)
    BY CheckedKept DEF CheckedKeys, CheckedU128s
  <2>5. Keeps(CheckedU128s(2), 32, 0)
    BY CheckedKept DEF CheckedU128s
  <2>6. Leads(<<Need(645), CheckedKeys(1), Checked(9), CheckedU128s(2), Checked(4), CheckedWords(2), CheckedKeys(2), Checked(16), CheckedKeys(2), Checked(16), CheckedWords(1)>>, 0, 384)
       /\ Leads(OrcaReward, 384, 256) /\ Leads(OrcaReward, 256, 128) /\ Leads(OrcaReward, 128, 0)
    BY <2>1, <2>2, <2>3, <2>4, <2>5, Reads2, Reads11 DEF OrcaReward
  <2>7. Leads(<<Need(645), CheckedKeys(1), Checked(9), CheckedU128s(2), Checked(4), CheckedWords(2), CheckedKeys(2), Checked(16), CheckedKeys(2), Checked(16), CheckedWords(1)>>
         \o OrcaReward, 0, 256)
    BY <2>6, LeadsOn
  <2>8. Leads(<<Need(645), CheckedKeys(1), Checked(9), CheckedU128s(2), Checked(4), CheckedWords(2), CheckedKeys(2), Checked(16), CheckedKeys(2), Checked(16), CheckedWords(1)>>
         \o OrcaReward \o OrcaReward, 0, 128)
    BY <2>6, <2>7, LeadsOn
  <2>9. Leads(<<Need(645), CheckedKeys(1), Checked(9), CheckedU128s(2), Checked(4), CheckedWords(2), CheckedKeys(2), Checked(16), CheckedKeys(2), Checked(16), CheckedWords(1)>>
         \o OrcaReward \o OrcaReward \o OrcaReward, 0, 0)
    BY <2>6, <2>8, LeadsOn
  <2>10. Leads(OrcaPoolAccounts.whirlpool.layout, 0, 0)
    BY <2>9 DEF OrcaPoolAccounts, Decoder
  <2> QED BY <2>10 DEF Within
<1>2. Within(OrcaPoolAccounts.tick_array.layout)
  <2>1. Keeps(Need(9980), 0, 9980) /\ Keeps(Checked(4), 9980, 9976) /\ Keeps(OrcaTicks, 9976, 32)
       /\ Keeps(CheckedKeys(1), 32, 0)
    BY NeedKept, CheckedKept DEF CheckedKeys, OrcaTicks
  <2>2. Leads(OrcaPoolAccounts.tick_array.layout, 0, 0)
    BY <2>1, Reads4 DEF OrcaPoolAccounts, Decoder
  <2> QED BY <2>2 DEF Within
<1>3. DOMAIN OrcaPoolAccounts = {"whirlpool", "tick_array"}
  BY DEF OrcaPoolAccounts
<1> QED BY <1>1, <1>2, <1>3

(* Of OrcaOtherAccounts. *)
LEMMA OrcaOtherDataWithin == \A d \in DOMAIN OrcaOtherAccounts : Within(OrcaOtherAccounts[d].layout)
<1>1. Within(OrcaOtherAccounts.position.layout)
  <2>1. Keeps(Need(208), 0, 208) /\ Keeps(CheckedKeys(2), 208, 144) /\ Keeps(Checked(16), 144, 128)
       /\ Keeps(Checked(8), 128, 120)
    BY NeedKept, CheckedKept DEF CheckedKeys
  <2>2. Keeps(Checked(16), 120, 104) /\ Keeps(CheckedWords(1), 104, 96) /\ Keeps(Checked(16), 96, 80)
       /\ Keeps(CheckedWords(1), 80, 72)
    BY CheckedKept DEF CheckedWords
  <2>3. Keeps(Checked(16), 72, 56) /\ Keeps(CheckedWords(1), 56, 48) /\ Keeps(Checked(16), 48, 32)
       /\ Keeps(CheckedWords(1), 32, 24)
    BY CheckedKept DEF CheckedWords
  <2>4. Keeps(Checked(16), 24, 8) /\ Keeps(CheckedWords(1), 8, 0)
    BY CheckedKept DEF CheckedWords
  <2>5. Leads(<<Need(208), CheckedKeys(2), Checked(16), Checked(8), Checked(16), CheckedWords(1), Checked(16), CheckedWords(1)>>, 0, 72)
       /\ Leads(OrcaPositionReward, 72, 48) /\ Leads(OrcaPositionReward, 48, 24)
       /\ Leads(OrcaPositionReward, 24, 0)
    BY <2>1, <2>2, <2>3, <2>4, Reads2, Reads8 DEF OrcaPositionReward
  <2>6. Leads(<<Need(208), CheckedKeys(2), Checked(16), Checked(8), Checked(16), CheckedWords(1), Checked(16), CheckedWords(1)>>
         \o OrcaPositionReward, 0, 48)
    BY <2>5, LeadsOn
  <2>7. Leads(<<Need(208), CheckedKeys(2), Checked(16), Checked(8), Checked(16), CheckedWords(1), Checked(16), CheckedWords(1)>>
         \o OrcaPositionReward \o OrcaPositionReward, 0, 24)
    BY <2>5, <2>6, LeadsOn
  <2>8. Leads(<<Need(208), CheckedKeys(2), Checked(16), Checked(8), Checked(16), CheckedWords(1), Checked(16), CheckedWords(1)>>
         \o OrcaPositionReward \o OrcaPositionReward \o OrcaPositionReward, 0, 0)
    BY <2>5, <2>7, LeadsOn
  <2>9. Leads(OrcaOtherAccounts.position.layout, 0, 0)
    BY <2>8 DEF OrcaOtherAccounts, Decoder
  <2> QED BY <2>9 DEF Within
<1>2. Within(OrcaOtherAccounts.fee_tier.layout)
  <2>1. Keeps(Need(36), 0, 36) /\ Keeps(CheckedKeys(1), 36, 4) /\ Keeps(Checked(4), 4, 0)
    BY NeedKept, CheckedKept DEF CheckedKeys
  <2>2. Leads(OrcaOtherAccounts.fee_tier.layout, 0, 0)
    BY <2>1, Reads3 DEF OrcaOtherAccounts, Decoder
  <2> QED BY <2>2 DEF Within
<1>3. Within(OrcaOtherAccounts.whirlpools_config.layout)
  <2>1. Keeps(Need(98), 0, 98) /\ Keeps(CheckedKeys(3), 98, 2) /\ Keeps(Checked(2), 2, 0)
    BY NeedKept, CheckedKept DEF CheckedKeys
  <2>2. Leads(OrcaOtherAccounts.whirlpools_config.layout, 0, 0)
    BY <2>1, Reads3 DEF OrcaOtherAccounts, Decoder
  <2> QED BY <2>2 DEF Within
<1>4. DOMAIN OrcaOtherAccounts = {"position", "fee_tier", "whirlpools_config"}
  BY DEF OrcaOtherAccounts
<1> QED BY <1>1, <1>2, <1>3, <1>4

(* Of SnapshotDecoders. *)
LEMMA SnapshotWithin == \A p \in DOMAIN SnapshotDecoders : \A d \in DOMAIN SnapshotDecoders[p] : Within(SnapshotDecoders[p][d].layout)
<1>1. \A d \in DOMAIN SnapshotDecoders.launchlab : Within(SnapshotDecoders.launchlab[d].layout)
  <2>1. Within(SnapshotDecoders.launchlab.snapshot_pool.layout)
    <3>1. Keeps(Refusal, 0, 0) /\ Keeps(Need(421), 0, 421) /\ Keeps(Skip(133), 421, 288)
         /\ Keeps(Pubs(4), 288, 160)
      BY RefusalKept, NeedKept, SkipKept, PubsKept
    <3>2. Leads(<<Refusal>>, 0, 0) /\ Leads(<<Need(421), Skip(133), Pubs(4)>>, 0, 160)
      BY <3>1, Reads1, Reads3
    <3>3. Leads(<<Refusal>> \o <<Need(421), Skip(133), Pubs(4)>>, 0, 160)
      BY <3>2, LeadsOn
    <3>4. SnapshotDecoders.launchlab.snapshot_pool = Snapshot(<<Need(421), Skip(133), Pubs(4)>>)
      BY DEF SnapshotDecoders
    <3>5. Leads(SnapshotDecoders.launchlab.snapshot_pool.layout, 0, 160)
      BY <3>3, <3>4 DEF Snapshot, Decoder
    <3> QED BY <3>5 DEF Within
  <2>2. Within(SnapshotDecoders.launchlab.snapshot_global_config.layout)
    <3>1. Keeps(Refusal, 0, 0) /\ Keeps(Need(27), 0, 27)
      BY RefusalKept, NeedKept
    <3>2. Leads(<<Refusal>>, 0, 0) /\ Leads(<<Need(27)>>, 0, 27)
      BY <3>1, Reads1
    <3>3. Leads(<<Refusal>> \o <<Need(27)>>, 0, 27)
      BY <3>2, LeadsOn
    <3>4. SnapshotDecoders.launchlab.snapshot_global_config = Snapshot(<<Need(27)>>)
      BY DEF SnapshotDecoders
    <3>5. Leads(SnapshotDecoders.launchlab.snapshot_global_config.layout, 0, 27)
      BY <3>3, <3>4 DEF Snapshot, Decoder
    <3> QED BY <3>5 DEF Within
  <2>3. Within(SnapshotDecoders.launchlab.snapshot_platform_config.layout)
    <3>1. Keeps(Refusal, 0, 0) /\ Keeps(Need(720), 0, 720)
      BY RefusalKept, NeedKept
    <3>2. Leads(<<Refusal>>, 0, 0) /\ Leads(<<Need(720)>>, 0, 720)
      BY <3>1, Reads1
    <3>3. Leads(<<Refusal>> \o <<Need(720)>>, 0, 720)
      BY <3>2, LeadsOn
    <3>4. SnapshotDecoders.launchlab.snapshot_platform_config = Snapshot(<<Need(720)>>)
      BY DEF SnapshotDecoders
    <3>5. Leads(SnapshotDecoders.launchlab.snapshot_platform_config.layout, 0, 720)
      BY <3>3, <3>4 DEF Snapshot, Decoder
    <3> QED BY <3>5 DEF Within
  <2>4. DOMAIN SnapshotDecoders.launchlab = {"snapshot_pool", "snapshot_global_config", "snapshot_platform_config"}
    BY DEF SnapshotDecoders
  <2> QED BY <2>1, <2>2, <2>3, <2>4
<1>2. \A d \in DOMAIN SnapshotDecoders.dlmm : Within(SnapshotDecoders.dlmm[d].layout)
  <2>1. Within(SnapshotDecoders.dlmm.snapshot_pool.layout)
    <3>1. Keeps(Refusal, 0, 0) /\ Keeps(Need(896), 0, 896) /\ Keeps(Skip(68), 896, 828)
         /\ Keeps(Slice(4), 828, 824)
      BY RefusalKept, NeedKept, SkipKept, SliceKept
    <3>2. Keeps(Slice(2), 824, 822) /\ Keeps(Skip(6), 822, 816) /\ Keeps(Pubs(2), 816, 752)
      BY SliceKept, SkipKept, PubsKept
    <3>3. Leads(<<Refusal>>, 0, 0)
         /\ Leads(<<Need(896), Skip(68), Slice(4), Slice(2), Skip(6), Pubs(2)>>, 0, 752)
      BY <3>1, <3>2, Reads1, Reads6
    <3>4. Leads(<<Refusal>> \o <<Need(896), Skip(68), Slice(4), Slice(2), Skip(6), Pubs(2)>>, 0, 752)
      BY <3>3, LeadsOn
    <3>5. SnapshotDecoders.dlmm.snapshot_pool = Snapshot(<<Need(896), Skip(68), Slice(4), Slice(2), Skip(6), Pubs(2)>>)
      BY DEF SnapshotDecoders
    <3>6. Leads(SnapshotDecoders.dlmm.snapshot_pool.layout, 0, 752)
      BY <3>4, <3>5 DEF Snapshot, Decoder
    <3> QED BY <3>6 DEF Within
  <2>2. Within(SnapshotDecoders.dlmm.snapshot_bin_array.layout)
    <3>1. Keeps(Refusal, 0, 0) /\ Keeps(Need(10128), 0, 10128) /\ Keeps(Slice(8), 10128, 10120)
         /\ Keeps(Skip(8), 10120, 10112)
      BY RefusalKept, NeedKept, SliceKept, SkipKept
    <3>2. Keeps(Pubs(1), 10112, 10080)
      BY PubsKept
    <3>3. Leads(<<Refusal>>, 0, 0) /\ Leads(<<Need(10128), Slice(8), Skip(8), Pubs(1)>>, 0, 10080)
      BY <3>1, <3>2, Reads1, Reads4
    <3>4. Leads(<<Refusal>> \o <<Need(10128), Slice(8), Skip(8), Pubs(1)>>, 0, 10080)
      BY <3>3, LeadsOn
    <3>5. SnapshotDecoders.dlmm.snapshot_bin_array = Snapshot(<<Need(10128), Slice(8), Skip(8), Pubs(1)>>)
      BY DEF SnapshotDecoders
    <3>6. Leads(SnapshotDecoders.dlmm.snapshot_bin_array.layout, 0, 10080)
      BY <3>4, <3>5 DEF Snapshot, Decoder
    <3> QED BY <3>6 DEF Within
  <2>3. Within(SnapshotDecoders.dlmm.snapshot_bitmap.layout)
    <3>1. Keeps(Refusal, 0, 0) /\ Keeps(Need(1568), 0, 1568) /\ Keeps(Pubs(1), 1568, 1536)
      BY RefusalKept, NeedKept, PubsKept
    <3>2. Leads(<<Refusal>>, 0, 0) /\ Leads(<<Need(1568), Pubs(1)>>, 0, 1536)
      BY <3>1, Reads1, Reads2
    <3>3. Leads(<<Refusal>> \o <<Need(1568), Pubs(1)>>, 0, 1536)
      BY <3>2, LeadsOn
    <3>4. SnapshotDecoders.dlmm.snapshot_bitmap = Snapshot(<<Need(1568), Pubs(1)>>)
      BY DEF SnapshotDecoders
    <3>5. Leads(SnapshotDecoders.dlmm.snapshot_bitmap.layout, 0, 1536)
      BY <3>3, <3>4 DEF Snapshot, Decoder
    <3> QED BY <3>5 DEF Within
  <2>4. DOMAIN SnapshotDecoders.dlmm = {"snapshot_pool", "snapshot_bin_array", "snapshot_bitmap"}
    BY DEF SnapshotDecoders
  <2> QED BY <2>1, <2>2, <2>3, <2>4
<1>3. \A d \in DOMAIN SnapshotDecoders.orca : Within(SnapshotDecoders.orca[d].layout)
  <2>1. Within(SnapshotDecoders.orca.snapshot_tick_array.layout)
    <3>1. Keeps(Refusal, 0, 0) /\ Keeps(Need(140), 0, 140) /\ Keeps(Slice(4), 140, 136)
         /\ Keeps(Pubs(1), 136, 104)
      BY RefusalKept, NeedKept, SliceKept, PubsKept
    <3>2. Keeps(Slice(16), 104, 88) /\ Keeps(Ticks, 88, 0)
      BY SliceKept, TicksKept
    <3>3. Leads(<<Refusal>>, 0, 0) /\ Leads(<<Need(140), Slice(4), Pubs(1), Slice(16), Ticks>>, 0, 0)
      BY <3>1, <3>2, Reads1, Reads5
    <3>4. Leads(<<Refusal>> \o <<Need(140), Slice(4), Pubs(1), Slice(16), Ticks>>, 0, 0)
      BY <3>3, LeadsOn
    <3>5. SnapshotDecoders.orca.snapshot_tick_array = Snapshot(<<Need(140), Slice(4), Pubs(1), Slice(16), Ticks>>)
      BY DEF SnapshotDecoders
    <3>6. Leads(SnapshotDecoders.orca.snapshot_tick_array.layout, 0, 0)
      BY <3>4, <3>5 DEF Snapshot, Decoder
    <3> QED BY <3>6 DEF Within
  <2>2. Within(SnapshotDecoders.orca.snapshot_oracle.layout)
    <3>1. Keeps(Refusal, 0, 0) /\ Keeps(Need(246), 0, 246) /\ Keeps(Pubs(1), 246, 214)
      BY RefusalKept, NeedKept, PubsKept
    <3>2. Leads(<<Refusal>>, 0, 0) /\ Leads(<<Need(246), Pubs(1)>>, 0, 214)
      BY <3>1, Reads1, Reads2
    <3>3. Leads(<<Refusal>> \o <<Need(246), Pubs(1)>>, 0, 214)
      BY <3>2, LeadsOn
    <3>4. SnapshotDecoders.orca.snapshot_oracle = Snapshot(<<Need(246), Pubs(1)>>)
      BY DEF SnapshotDecoders
    <3>5. Leads(SnapshotDecoders.orca.snapshot_oracle.layout, 0, 214)
      BY <3>3, <3>4 DEF Snapshot, Decoder
    <3> QED BY <3>5 DEF Within
  <2>3. DOMAIN SnapshotDecoders.orca = {"snapshot_tick_array", "snapshot_oracle"}
    BY DEF SnapshotDecoders
  <2> QED BY <2>1, <2>2, <2>3
<1>4. \A d \in DOMAIN SnapshotDecoders.clmm : Within(SnapshotDecoders.clmm[d].layout)
  <2>1. Within(SnapshotDecoders.clmm.snapshot_bitmap.layout)
    <3>1. Keeps(Refusal, 0, 0) /\ Keeps(Need(1824), 0, 1824) /\ Keeps(Pubs(1), 1824, 1792)
      BY RefusalKept, NeedKept, PubsKept
    <3>2. Leads(<<Refusal>>, 0, 0) /\ Leads(<<Need(1824), Pubs(1)>>, 0, 1792)
      BY <3>1, Reads1, Reads2
    <3>3. Leads(<<Refusal>> \o <<Need(1824), Pubs(1)>>, 0, 1792)
      BY <3>2, LeadsOn
    <3>4. SnapshotDecoders.clmm.snapshot_bitmap = Snapshot(<<Need(1824), Pubs(1)>>)
      BY DEF SnapshotDecoders
    <3>5. Leads(SnapshotDecoders.clmm.snapshot_bitmap.layout, 0, 1792)
      BY <3>3, <3>4 DEF Snapshot, Decoder
    <3> QED BY <3>5 DEF Within
  <2>2. DOMAIN SnapshotDecoders.clmm = {"snapshot_bitmap"}
    BY DEF SnapshotDecoders
  <2> QED BY <2>1, <2>2
<1>5. DOMAIN SnapshotDecoders = {"launchlab", "dlmm", "orca", "clmm"}
  BY DEF SnapshotDecoders
<1> QED BY <1>1, <1>2, <1>3, <1>4, <1>5
-----------------------------------------------------------------------------
(* From what is made to what is returned *)

(* Nothing, or an event of whole fields. *)
Whole(x) == x.is \in {"event", "none"} /\ x.flaws = {}

AllWhole(made) == \E S : made \in Seq(S) /\ \A x \in S : Whole(x)

(* Nothing is whole. *)
LEMMA WholeNothing == Whole(Nothing)
BY DEF Whole, Nothing

(* A sequence of what is whole. *)
LEMMA WholeItems ==
  ASSUME NEW made, AllWhole(made)
  PROVE  /\ Len(made) \in Nat /\ DOMAIN made = 1 .. Len(made)
         /\ \A k \in 1 .. Len(made) : Whole(made[k])
BY DEF AllWhole

(* The first of what is whole is, *)
LEMMA FirstWhole == ASSUME NEW made, AllWhole(made) PROVE Whole(FirstOf(made))
<1> DEFINE some == {k \in DOMAIN made : made[k].is # "none"}
<1>1. PICK L \in Nat : L = Len(made) /\ DOMAIN made = 1 .. L /\ \A k \in 1 .. L : Whole(made[k])
  BY WholeItems
<1>2. FirstOf(made) = IF some # {} THEN made[Min(some)] ELSE IF made = <<>> THEN Nothing ELSE Last(made)
  BY DEF FirstOf
<1>3. some \subseteq Nat /\ some \subseteq 1 .. L
  BY <1>1
<1> HIDE DEF some
<1>4. CASE some # {}
  <2>1. IsWellFoundedOn(OpToRel(<, Nat), Nat)
    BY NatLessThanWellFounded
  <2>2. PICK k \in some : \A j \in some : <<j, k>> \notin OpToRel(<, Nat)
    BY <1>3, <1>4, <2>1, WFMin
  <2>3. ASSUME NEW j \in some PROVE k <= j
    <3>1. j \in Nat /\ k \in Nat
      BY <1>3
    <3>2. ~ (j < k)
      BY <2>2, <3>1 DEF OpToRel
    <3> QED BY <3>1, <3>2
  <2>4. Min(some) \in some
    BY <2>3 DEF Min
  <2> QED BY <1>1, <1>2, <1>3, <1>4, <2>4
<1>5. CASE some = {} /\ made = <<>>
  BY <1>2, <1>5, WholeNothing
<1>6. CASE some = {} /\ made # <<>>
  <2>1. L # 0
    <3>1. \E S : made \in Seq(S)
      BY DEF AllWhole
    <3> QED BY <1>1, <1>6, <3>1
  <2>2. L \in 1 .. L
    BY <2>1
  <2>3. FirstOf(made) = made[L]
    BY <1>1, <1>2, <1>6 DEF Last
  <2> QED BY <1>1, <2>2, <2>3
<1> QED BY <1>4, <1>5, <1>6

(* and so is a part of it. *)
LEMMA PartWhole ==
  ASSUME NEW made, AllWhole(made), NEW m \in 1 .. 2, NEW n \in 0 .. Len(made)
  PROVE  AllWhole(SubSeq(made, m, n))
<1>1. PICK S : made \in Seq(S) /\ \A x \in S : Whole(x)
  BY DEF AllWhole
<1>2. \A k \in m .. n : made[k] \in S
  BY <1>1
<1>3. m \in Int /\ n \in Int
  OBVIOUS
<1>4. SubSeq(made, m, n) \in Seq(S)
  BY <1>2, <1>3, SubSeqProperties
<1> QED BY <1>1, <1>4 DEF AllWhole

(* A choice from sets of what is whole is whole. *)
LEMMA ProductWhole ==
  ASSUME NEW S, NEW sets \in Seq(S), \A X \in S : \A x \in X : Whole(x), NEW made \in Product(sets)
  PROVE  AllWhole(made) /\ Len(made) = Len(sets)
<1>1. PICK L \in Nat : L = Len(sets) /\ DOMAIN sets = 1 .. L /\ \A k \in 1 .. L : sets[k] \in S
  OBVIOUS
<1> DEFINE W == {x \in UNION Range(sets) : Whole(x)}
<1>2. made \in [1 .. L -> UNION Range(sets)] /\ \A k \in 1 .. L : made[k] \in sets[k]
  BY <1>1 DEF Product
<1>3. made \in [1 .. L -> W]
  BY <1>1, <1>2
<1>4. \A x \in W : Whole(x)
  OBVIOUS
<1> HIDE DEF W
<1>5. made \in Seq(W) /\ Len(made) = L
  BY <1>3
<1> QED BY <1>1, <1>4, <1>5 DEF AllWhole

(* What decoders make that only make what is whole. *)
Trusted(D, i) == \A decoder \in D : \A n \in Nat : \A r \in MakesOf(i, decoder, n) : Whole(r)
TrustedCalls(D) == \A decoder \in D : \A n \in Nat : \A r \in MakesOfAccounts(decoder, n) : Whole(r)

(* Data have lengths. *)
LEMMA LengthsNatural == \A i : LengthsOf(i) \subseteq Nat
<1>1. Lengths \subseteq Nat
  BY DecodingAssumption DEF Lengths
<1>2. \A layout : Landmarks(layout) \subseteq Nat
  BY DEF Landmarks
<1> QED BY <1>1, <1>2 DEF LengthsOf

(* What an input makes of decoders that are trusted is whole, *)
LEMMA ContentsWhole ==
  ASSUME NEW i, i.origin \notin ShredForms, NEW made \in Contents(i),
         NEW C, Taken(i) \in Seq(C), TrustedCalls(C),
         NEW D, Attempts(i) \in Seq(D), Trusted(D, i)
  PROVE  AllWhole(made) /\ Len(made) = Len(Taken(i)) + Len(Attempts(i))
<1> DEFINE taken == Taken(i)
           tried == Attempts(i)
<1>1. PICK n \in LengthsOf(i) : made \in Product([k \in DOMAIN taken |-> MakesOfAccounts(taken[k], n)]
                                                 \o [k \in DOMAIN tried |-> MakesOf(i, tried[k], n)])
  BY DEF Contents
<1>2. n \in Nat
  BY LengthsNatural
<1> DEFINE S == {MakesOfAccounts(a, n) : a \in C} \cup {MakesOf(i, a, n) : a \in D}
           s == [k \in DOMAIN taken |-> MakesOfAccounts(taken[k], n)]
           t == [k \in DOMAIN tried |-> MakesOf(i, tried[k], n)]
<1>3. \A X \in S : \A x \in X : Whole(x)
  BY <1>2 DEF Trusted, TrustedCalls
<1>4. s \in Seq(S) /\ Len(s) = Len(taken)
  <2>1. PICK L \in Nat : L = Len(taken) /\ DOMAIN taken = 1 .. L /\ \A k \in 1 .. L : taken[k] \in C
    OBVIOUS
  <2>2. s \in [1 .. L -> S]
    BY <2>1
  <2> QED BY <2>1, <2>2
<1>5. t \in Seq(S) /\ Len(t) = Len(tried)
  <2>1. PICK L \in Nat : L = Len(tried) /\ DOMAIN tried = 1 .. L /\ \A k \in 1 .. L : tried[k] \in D
    OBVIOUS
  <2>2. t \in [1 .. L -> S]
    BY <2>1
  <2> QED BY <2>1, <2>2
<1>6. made \in Product(s \o t)
  BY <1>1
<1> HIDE DEF s, t, S
<1>7. s \o t \in Seq(S) /\ Len(s \o t) = Len(s) + Len(t)
  BY <1>4, <1>5, ConcatProperties
<1> QED BY <1>3, <1>4, <1>5, <1>6, <1>7, ProductWhole

(* and so is what a shred makes. *)
LEMMA ShredsWhole ==
  ASSUME NEW i, i.origin \in ShredForms, NEW made \in Contents(i),
         NEW D, Attempts(i) \in Seq(D), TrustedCalls(D)
  PROVE  AllWhole(made)
<1>1. PICK n \in LengthsOf(i) : made \in MakesOfShred(Attempts(i), n)
  BY DEF Contents
<1>2. n \in Nat
  BY LengthsNatural
<1> DEFINE tried == Attempts(i)
<1>3. PICK L \in Nat : L = Len(tried) /\ DOMAIN tried = 1 .. L /\ \A k \in 1 .. L : tried[k] \in D
  OBVIOUS
<1> HIDE DEF tried
<1>4. CASE made = <<>>
  <2>1. made \in Seq({Nothing})
    BY <1>4
  <2> QED BY <2>1, WholeNothing DEF AllWhole
<1>5. CASE made # <<>>
  <2>1. PICK k \in DOMAIN tried : \E r \in MakesOfAccounts(tried[k], n) :
          made = [j \in DOMAIN tried |-> IF j = k THEN r ELSE Nothing]
    BY <1>1, <1>5 DEF MakesOfShred, tried
  <2>2. PICK r \in MakesOfAccounts(tried[k], n) : made = [j \in DOMAIN tried |-> IF j = k THEN r ELSE Nothing]
    BY <2>1
  <2>3. Whole(r)
    BY <1>2, <1>3, <2>1 DEF TrustedCalls
  <2>4. made \in [1 .. L -> {r, Nothing}]
    BY <1>3, <2>2
  <2>5. made \in Seq({r, Nothing})
    BY <2>4
  <2>6. \A x \in {r, Nothing} : Whole(x)
    BY <2>3, WholeNothing
  <2> QED BY <2>5, <2>6 DEF AllWhole
<1> QED BY <1>4, <1>5

-----------------------------------------------------------------------------
(* The filter leaves what is whole, or nothing. *)
LEMMA WholePasses ==
  ASSUME NEW f, NEW x, Whole(x)
  PROVE  /\ Whole(Applied(f, x)) /\ Whole(Secondary(f, x))
         /\ \A p : Whole(ParsedInstruction(f, p, x))
         /\ \A p, d : Whole(ParsedEvent(f, p, d, x)) /\ Whole(ParsedAccount(f, p, d, x))
<1>1. Whole(Applied(f, x)) /\ Whole(Secondary(f, x))
  BY WholeNothing DEF Applied, Secondary
<1> QED BY <1>1, WholeNothing DEF ParsedInstruction, ParsedEvent, ParsedAccount

(* A swap renamed by its program is whole, *)
LEMMA WholeRenamed == ASSUME NEW f, NEW p, NEW x, Whole(x) PROVE Whole(Renamed(f, p, x))
BY DEF Renamed, Whole

(* as is one or the other of two, *)
LEMMA WholeOr == ASSUME NEW x, NEW y, Whole(x), Whole(y) PROVE Whole(Or(x, y))
BY DEF Or

(* what the parser of a form makes *)
LEMMA WholeParsed == ASSUME NEW f, NEW p, NEW d, NEW made, AllWhole(made) PROVE Whole(Parsed(f, p, d, made))
<1>1. PICK L \in Nat : L = Len(made) /\ DOMAIN made = 1 .. L /\ \A k \in 1 .. L : Whole(made[k])
  BY WholeItems
<1>2. CASE L = 2
  <2>1. Whole(made[1]) /\ Whole(made[2])
    BY <1>1, <1>2
  <2>2. Whole(UnscopedTrade(f, made))
    BY <2>1, WholePasses, WholeNothing DEF UnscopedTrade
  <2>3. Whole(Dispatched(f, p, d, made))
    BY <1>1, <1>2, <2>2, WholeNothing DEF Dispatched
  <2> QED BY <2>3, WholePasses, WholeNothing DEF Parsed
<1>3. CASE L # 2 /\ made # <<>>
  <2>1. L # 0
    <3>1. \E S : made \in Seq(S)
      BY DEF AllWhole
    <3> QED BY <1>1, <1>3, <3>1
  <2>2. Whole(made[1])
    BY <1>1, <2>1
  <2>3. Whole(Dispatched(f, p, d, made))
    BY <1>1, <1>3, <2>2, WholePasses DEF Dispatched
  <2> QED BY <2>3, WholePasses, WholeNothing DEF Parsed
<1>4. CASE made = <<>>
  <2>1. Dispatched(f, p, d, made) = Nothing
    BY <1>4 DEF Dispatched
  <2> QED BY <2>1, WholePasses, WholeNothing DEF Parsed
<1> QED BY <1>2, <1>3, <1>4

(* and what is resolved. *)
LEMMA WholeResolved ==
  ASSUME NEW form, NEW p, NEW made, AllWhole(made) PROVE AllWhole(Resolved(form, p, made))
<1>1. PICK S : made \in Seq(S) /\ \A x \in S : Whole(x)
  BY DEF AllWhole
<1> DEFINE first == [k \in DOMAIN made |-> IF k = 1 THEN made[k] ELSE Nothing]
           W == S \cup {Nothing}
<1>2. (\A x \in W : Whole(x)) /\ <<>> \in Seq(W)
  BY <1>1, WholeNothing
<1>3. PICK L \in Nat : L = Len(made) /\ DOMAIN made = 1 .. L /\ \A k \in 1 .. L : made[k] \in S
  BY <1>1
<1>4. first \in [1 .. L -> W]
  BY <1>3
<1>5. first \in Seq(W)
  BY <1>4
<1>6. Resolved(form, p, made) = made \/ Resolved(form, p, made) = first \/ Resolved(form, p, made) = <<>>
  BY DEF Resolved
<1> HIDE DEF first, W
<1> QED BY <1>2, <1>5, <1>6 DEF AllWhole

(* So of data that all decoders tried make something whole, something whole *)
(* is returned.                                                             *)
LEMMA WholeReturns ==
  ASSUME NEW f, NEW i, NEW made, AllWhole(made), MayBeTaken(i) => 1 <= Len(made)
  PROVE  Whole(Returns(f, i, made))
<1>1. CASE i.origin = "log"
  BY <1>1, WholeParsed DEF Returns, ShredForms
<1>2. CASE i.origin = "instruction"
  <2>1. Returns(f, i, made) = ParsedInstruction(f, i.program, FirstOf(made))
    BY <1>2 DEF Returns, ShredForms
  <2> QED BY <2>1, FirstWhole, WholePasses
<1>3. CASE i.origin \in ShredForms
  <2>1. Returns(f, i, made) = ParsedShred(f, i.origin, i.program, i.disc, made)
    BY <1>3 DEF Returns, ShredForms
  <2>2. Whole(FirstOf(made)) /\ Whole(FirstOf(Resolved(i.origin, i.program, made)))
    BY FirstWhole, WholeResolved
  <2> QED BY <2>1, <2>2, WholePasses, WholeRenamed, WholeNothing DEF ParsedShred
<1>4. CASE i.origin = "account"
  <2>1. Returns(f, i, made) = ParsedAccount(f, i.program, i.disc, FirstOf(made))
    BY <1>4 DEF Returns, ShredForms
  <2> QED BY <2>1, FirstWhole, WholePasses
<1>5. CASE i.origin \notin {"log", "instruction", "account"} \cup ShredForms
  <2>1. Returns(f, i, made) = ParsedInner(f, i, made)
    BY <1>5 DEF Returns
  <2> DEFINE n == IF MayBeTaken(i) THEN 1 ELSE 0
             d == IF i.origin = "inner" THEN i.disc ELSE TakenFor(i.program, i.disc)
             compiled == IF i.origin = "inner" THEN made ELSE SubSeq(made, 1, n)
             events == IF i.origin = "inner" THEN <<>> ELSE SubSeq(made, n + 1, Len(made))
  <2>2. ParsedInner(f, i, made) =
          Or(IF MayParse(i.program, d) THEN ParsedInstruction(f, i.program, FirstOf(compiled)) ELSE Nothing,
             ParsedEvent(f, i.program, i.disc, FirstOf(events)))
    BY DEF ParsedInner
  <2>3. Len(made) \in Nat /\ n \in 0 .. Len(made) /\ n + 1 \in 1 .. 2 /\ Len(made) \in 0 .. Len(made)
    BY WholeItems
  <2>4. AllWhole(<<>>)
    <3>1. <<>> \in Seq({Nothing})
      OBVIOUS
    <3> QED BY <3>1, WholeNothing DEF AllWhole
  <2>5. AllWhole(compiled)
    BY <2>3, PartWhole
  <2>6. AllWhole(events)
    BY <2>3, <2>4, PartWhole
  <2> HIDE DEF compiled, events, d
  <2>7. Whole(FirstOf(compiled)) /\ Whole(FirstOf(events))
    BY <2>5, <2>6, FirstWhole
  <2>8. Whole(ParsedInstruction(f, i.program, FirstOf(compiled)))
        /\ Whole(ParsedEvent(f, i.program, i.disc, FirstOf(events)))
    BY <2>7, WholePasses
  <2> QED BY <2>1, <2>2, <2>8, WholeOr, WholeNothing
<1> QED BY <1>1, <1>2, <1>3, <1>4, <1>5
-----------------------------------------------------------------------------
(* The tables merged: the decoder of each discriminator *)

(* Decoders of log lines and events *)

LooseLogs == {"trade", "orca_pool_init", "launchlab_pool_create"}

SafeTable(f) == \A d \in DOMAIN f \ LooseLogs : Within(f[d].layout)

(* A table merged of safe ones is safe. *)
LEMMA MergeSafe == \A f, g : SafeTable(f) /\ SafeTable(g) => SafeTable(Merge(f, g))
<1>1. ASSUME NEW f, NEW g, SafeTable(f), SafeTable(g) PROVE SafeTable(Merge(f, g))
  <2>1. ASSUME NEW d \in DOMAIN Merge(f, g) \ LooseLogs PROVE Within(Merge(f, g)[d].layout)
    <3>1. CASE d \in DOMAIN f
      <4>1. Merge(f, g)[d] = f[d]
        BY <3>1 DEF Merge
      <4> QED BY <1>1, <3>1, <4>1 DEF SafeTable
    <3>2. CASE d \notin DOMAIN f
      <4>1. d \in DOMAIN g /\ Merge(f, g)[d] = g[d]
        BY <3>2 DEF Merge
      <4> QED BY <1>1, <4>1 DEF SafeTable
    <3> QED BY <3>1, <3>2
  <2> QED BY <2>1 DEF SafeTable
<1> QED BY <1>1

(* The decoders of the pump programs are, *)
LEMMA PumpSafe == SafeTable(PumpDecoders)
<1>1. SafeTable(PumpFunDecoders) /\ SafeTable(FeeConfigDecoders) /\ SafeTable(FeeSharingDecoders)
  BY PumpFunWithin, FeeConfigWithin, FeeSharingWithin DEF SafeTable, LooseLogs
<1>2. SafeTable(PumpUpgradeDecoders) /\ SafeTable(SwapTradeDecoders) /\ SafeTable(SwapPoolDecoders)
  BY PumpUpgradeWithin, SwapTradeWithin, SwapPoolWithin DEF SafeTable
<1>3. SafeTable(PumpFeesDecoders) /\ SafeTable(PumpSwapDecoders)
  BY <1>1, <1>2, MergeSafe DEF PumpFeesDecoders, PumpSwapDecoders
<1> QED BY <1>1, <1>2, <1>3, MergeSafe DEF PumpDecoders

(* those of Raydium, *)
LEMMA RaydiumSafe == SafeTable(RaydiumDecoders)
<1>1. SafeTable(ClmmLiquidityDecoders) /\ SafeTable(ClmmPoolDecoders)
  BY ClmmLiquidityWithin, ClmmPoolWithin DEF SafeTable
<1>2. SafeTable(ClmmPositionDecoders) /\ SafeTable(ClmmOrderDecoders)
  BY ClmmPositionWithin, ClmmOrderWithin DEF SafeTable
<1>3. SafeTable(AmmDecoders) /\ SafeTable(CpmmDecoders) /\ SafeTable(LaunchlabDecoders)
  BY AmmWithin, CpmmWithin, LaunchlabWithin DEF SafeTable, LooseLogs
<1>4. SafeTable(ClmmDecoders)
  BY <1>1, <1>2, MergeSafe DEF ClmmDecoders
<1> QED BY <1>3, <1>4, MergeSafe DEF RaydiumDecoders

(* those of Meteora, *)
LEMMA MeteoraSafe == SafeTable(MeteoraDecoders)
<1>1. SafeTable(PoolsDecoders) /\ SafeTable(DbcDecoders)
  BY PoolsWithin, DbcWithin DEF SafeTable
<1>2. SafeTable(DammSwapDecoders) /\ SafeTable(DammPositionDecoders) /\ SafeTable(DammPoolDecoders)
  BY DammSwapWithin, DammPositionWithin, DammPoolWithin DEF SafeTable
<1>3. SafeTable(DammClaimDecoders) /\ SafeTable(DammRewardDecoders) /\ SafeTable(DammConfigDecoders)
  BY DammClaimWithin, DammRewardWithin, DammConfigWithin DEF SafeTable
<1>4. SafeTable(DlmmSwapDecoders) /\ SafeTable(DlmmPoolDecoders) /\ SafeTable(DlmmPositionDecoders)
  BY DlmmSwapWithin, DlmmPoolWithin, DlmmPositionWithin DEF SafeTable
<1>5. SafeTable(DammDecoders)
  BY <1>2, <1>3, MergeSafe DEF DammDecoders
<1>6. SafeTable(DlmmDecoders)
  BY <1>4, MergeSafe DEF DlmmDecoders
<1> QED BY <1>1, <1>5, <1>6, MergeSafe DEF MeteoraDecoders

(* so all are. *)
LEMMA LogsSafe == SafeTable(Decoders)
<1>1. SafeTable(OrcaDecoders)
  BY OrcaWithin DEF SafeTable, LooseLogs
<1> QED BY <1>1, PumpSafe, RaydiumSafe, MeteoraSafe, MergeSafe DEF Decoders

(* The decoders of a program are in the table of all. *)
LEMMA ScopedKnown == \A p \in Programs : Range(ScopedDecoder[p]) \subseteq DOMAIN Decoders
<1>1. /\ DOMAIN PumpDecoders \subseteq DOMAIN Decoders /\ DOMAIN RaydiumDecoders \subseteq DOMAIN Decoders
      /\ DOMAIN OrcaDecoders \subseteq DOMAIN Decoders /\ DOMAIN MeteoraDecoders \subseteq DOMAIN Decoders
  BY DecodersParts DEF Part
<1>2. /\ Range(ScopedDecoder["pumpfun"]) \subseteq DOMAIN Decoders
      /\ Range(ScopedDecoder["pump_fees"]) \subseteq DOMAIN Decoders
      /\ Range(ScopedDecoder["pumpswap"]) \subseteq DOMAIN Decoders
  <2>1. /\ DOMAIN PumpFunDecoders \subseteq DOMAIN PumpDecoders /\ PumpFunUpgrades \subseteq DOMAIN PumpDecoders
        /\ DOMAIN PumpFeesDecoders \subseteq DOMAIN PumpDecoders
        /\ DOMAIN PumpSwapDecoders \subseteq DOMAIN PumpDecoders /\ "sweep_pool_fee" \in DOMAIN PumpDecoders
    BY PumpParts, PumpUpgradeRows DEF Part, PumpFunUpgrades
  <2> QED BY <1>1, <2>1, PumpFunScope, PumpFeesScope, PumpSwapScope
<1>3. /\ Range(ScopedDecoder["clmm"]) \subseteq DOMAIN Decoders
      /\ Range(ScopedDecoder["cpmm"]) \subseteq DOMAIN Decoders
      /\ Range(ScopedDecoder["amm_v4"]) \subseteq DOMAIN Decoders
      /\ Range(ScopedDecoder["launchlab"]) \subseteq DOMAIN Decoders
  BY <1>1, RaydiumParts, ClmmScope, CpmmScope, AmmScope, LaunchlabScope DEF Part
<1>4. /\ Range(ScopedDecoder["pools"]) \subseteq DOMAIN Decoders
      /\ Range(ScopedDecoder["damm_v2"]) \subseteq DOMAIN Decoders
      /\ Range(ScopedDecoder["dbc"]) \subseteq DOMAIN Decoders
      /\ Range(ScopedDecoder["dlmm"]) \subseteq DOMAIN Decoders
  BY <1>1, MeteoraParts, PoolsScope, DammScope, DbcScope, DlmmScope DEF Part
<1>5. Range(ScopedDecoder["orca"]) \subseteq DOMAIN Decoders
  BY <1>1, OrcaScope
<1> QED BY <1>2, <1>3, <1>4, <1>5, ProgramNames

(* The decoder of a line or an event whose discriminator is not excused. *)
LEMMA NamesDiffer ==
  ASSUME NEW p \in Programs, NEW d \in DOMAIN ScopedDecoder[p], d \notin LooseLogs
  PROVE  ScopedDecoder[p][d] \in DOMAIN Decoders \ LooseLogs
<1>1. ScopedDecoder[p][d] \in Range(ScopedDecoder[p]) /\ ScopedDecoder[p][d] \in DOMAIN Decoders
  BY ScopedKnown DEF Range
<1>2. CASE p \in {"pumpfun", "pump_fees", "pumpswap", "clmm", "amm_v4", "orca", "pools", "damm_v2"}
  <2>1. ScopedDecoder[p][d] = d
    BY <1>2, SameRange, PumpFunScope, PumpFeesScope, PumpSwapScope, ClmmScope, AmmScope, OrcaScope, PoolsScope,
       DammScope
  <2> QED BY <1>1, <2>1
<1>3. CASE p = "launchlab"
  BY <1>3 DEF ScopedDecoder, LooseLogs
<1>4. CASE p = "dbc"
  BY <1>1, <1>4, DbcScope, DbcRows DEF LooseLogs
<1>5. CASE p = "cpmm"
  BY <1>1, <1>5, CpmmScope, CpmmRows DEF LooseLogs
<1>6. CASE p = "dlmm"
  <2>1. DOMAIN DlmmDecoders \cap LooseLogs = {}
    BY DlmmParts DEF LooseLogs
  <2> QED BY <1>1, <1>6, <2>1, DlmmScope
<1> QED BY <1>2, <1>3, <1>4, <1>5, <1>6, ProgramNames

(* So the decoder of a program reads within the data, *)
LEMMA ScopedWithin ==
  ASSUME NEW p \in Programs, NEW d \in DOMAIN ScopedDecoder[p], d \notin LooseLogs
  PROVE  Within(Decoders[ScopedDecoder[p][d]].layout)
BY NamesDiffer, LogsSafe DEF SafeTable

(* behind the discriminator as well, *)
LEMMA BehindWithin == \A decoder : Within(decoder.layout) => Within(Behind(decoder).layout)
<1>1. ASSUME NEW layout, Within(layout) PROVE Within(<<Need(8), Skip(8)>> \o layout)
  <2>1. Keeps(Need(8), 0, 8) /\ Keeps(Skip(8), 8, 0)
    BY NeedKept, SkipKept
  <2>2. Leads(<<Need(8), Skip(8)>>, 0, 0)
    BY <2>1, Reads2
  <2>3. PICK e \in Int : e >= -1 /\ Leads(layout, 0, e)
    BY <1>1 DEF Within
  <2>4. Leads(<<Need(8), Skip(8)>> \o layout, 0, e)
    BY <2>2, <2>3, LeadsOn
  <2> QED BY <2>3, <2>4 DEF Within
<1> QED BY <1>1 DEF Behind, Decoder

(* and so does that of the short swap. *)
LEMMA ShortSwapWithin == Within(ShortSwap.layout)
<1>1. Keeps(Need(16), 0, 16) /\ Keeps(Words(2), 16, 0)
  BY NeedKept, WordsKept
<1>2. Leads(<<Need(16), Words(2)>>, 0, 0)
  BY <1>1, Reads2
<1> QED BY <1>2 DEF Within, ShortSwap, Decoder

-----------------------------------------------------------------------------
(* Instructions *)

CalledTable(f) == \A d \in DOMAIN f : Called(f[d])

(* Tables of instructions merged. *)
LEMMA MergeCalled == \A f, g : CalledTable(f) /\ CalledTable(g) => CalledTable(Merge(f, g))
<1>1. ASSUME NEW f, NEW g, CalledTable(f), CalledTable(g) PROVE CalledTable(Merge(f, g))
  <2>1. ASSUME NEW d \in DOMAIN Merge(f, g) PROVE Called(Merge(f, g)[d])
    <3>1. CASE d \in DOMAIN f
      <4>1. Merge(f, g)[d] = f[d]
        BY <3>1 DEF Merge
      <4> QED BY <1>1, <3>1, <4>1 DEF CalledTable
    <3>2. CASE d \notin DOMAIN f
      <4>1. d \in DOMAIN g /\ Merge(f, g)[d] = g[d]
        BY <3>2 DEF Merge
      <4> QED BY <1>1, <4>1 DEF CalledTable
    <3> QED BY <3>1, <3>2
  <2> QED BY <2>1 DEF CalledTable
<1> QED BY <1>1

(* But for the creations of pump.fun, of whose strings the sizes are not checked. *)
LEMMA CallsWithin ==
  ASSUME NEW p \in DOMAIN InstructionDecoders, NEW d \in DOMAIN InstructionDecoders[p],
         ~ (p = "pumpfun" /\ d \in DOMAIN PumpFunCreates)
  PROVE  Called(InstructionDecoders[p][d])
<1>1. CASE p = "pumpfun"
  <2>1. InstructionDecoders[p] = Merge(PumpFunTrades, PumpFunCreates)
    BY <1>1 DEF InstructionDecoders, PumpFunInstructions
  <2>2. d \in DOMAIN PumpFunTrades /\ InstructionDecoders[p][d] = PumpFunTrades[d]
    BY <1>1, <2>1 DEF Merge
  <2> QED BY <2>2, PumpFunTradesWithin
<1>2. CASE p # "pumpfun"
  <2>1. CalledTable(DlmmInstructions)
    <3>1. CalledTable(DlmmPoolInstructions) /\ CalledTable(DlmmTradeInstructions)
      BY DlmmPoolCallsWithin, DlmmTradeCallsWithin DEF CalledTable
    <3> QED BY <3>1, MergeCalled DEF DlmmInstructions
  <2>2. CalledTable(PumpFeesInstructions) /\ CalledTable(PumpSwapInstructions) /\ CalledTable(DammInstructions)
    BY PumpFeesCallsWithin, PumpSwapCallsWithin, DammCallsWithin DEF CalledTable
  <2>3. CalledTable(PoolsInstructions) /\ CalledTable(ClmmInstructions) /\ CalledTable(CpmmInstructions)
    BY PoolsCallsWithin, ClmmCallsWithin, CpmmCallsWithin DEF CalledTable
  <2>4. CalledTable(AmmInstructions) /\ CalledTable(LaunchlabInstructions) /\ CalledTable(OrcaInstructions)
    BY AmmCallsWithin, LaunchlabCallsWithin, OrcaCallsWithin DEF CalledTable
  <2>5. CalledTable(InstructionDecoders[p])
    BY <1>2, <2>1, <2>2, <2>3, <2>4 DEF InstructionDecoders
  <2> QED BY <2>5 DEF CalledTable
<1> QED BY <1>1, <1>2

(* The two instructions without a table, *)
LEMMA RawCalled == Called(MultiHop) /\ Called(Foreign)
<1>1. Keeps(Exactly(16), 0, 16) /\ Keeps(Words(2), 16, 0) /\ Keeps(Refusal, 0, 0)
  BY ExactlyKept, WordsKept, RefusalKept
<1>2. Leads(<<Exactly(16), Words(2), Refusal>>, 0, 0) /\ Leads(<<>>, 0, 0)
  BY <1>1, Reads3, Reads0
<1>3. Within(<<Exactly(16), Words(2), Refusal>>) /\ Within(<<>>)
  BY <1>2 DEF Within
<1> QED BY <1>3 DEF Called, MultiHop, Foreign, Safe, Instruction, From, MaxAccounts

(* and the trades in their short form. *)
LEMMA ShortCalled ==
  ASSUME NEW d \in {"buy_v2", "buy_exact_quote_in_v2", "sell_v2"} PROVE Called(Short(PumpFunTrades[d]))
<1>1. d \in DOMAIN PumpFunTrades
  BY DEF PumpFunTrades
<1>2. Called(PumpFunTrades[d])
  BY <1>1, PumpFunTradesWithin
<1>3. PICK type, accounts, layout : PumpFunTrades[d] = Safe(type, accounts, layout)
  <2>1. /\ PumpFunTrades["buy_v2"] = Safe("PUMP_FUN_BUY", From(27), Amounts)
        /\ PumpFunTrades["buy_exact_quote_in_v2"] = Safe("PUMP_FUN_BUY", From(27), Amounts)
        /\ PumpFunTrades["sell_v2"] = Safe("PUMP_FUN_SELL", From(26), Amounts)
    BY DEF PumpFunTrades
  <2> QED BY <2>1
<1>4. Short(PumpFunTrades[d]).layout = PumpFunTrades[d].layout /\ Short(PumpFunTrades[d]).direct = 0
      /\ Short(PumpFunTrades[d]).accounts \subseteq Nat
  <2>1. Short(PumpFunTrades[d]).accounts = (2 .. MaxAccounts) \ PumpFunTrades[d].accounts
    BY <1>3 DEF Short, Safe, Instruction
  <2> QED BY <1>3, <2>1 DEF Short, Safe, Instruction, MaxAccounts
<1> QED BY <1>2, <1>4 DEF Called

-----------------------------------------------------------------------------
(* Accounts *)

LEMMA AccountsWithin ==
  ASSUME NEW o \in DOMAIN AccountDecoders, NEW d \in DOMAIN AccountDecoders[o]
  PROVE  Within(AccountDecoders[o][d].layout)
<1>1. CASE o = "orca"
  <2>1. AccountDecoders[o] = Merge(OrcaPoolAccounts, OrcaOtherAccounts)
    BY <1>1 DEF AccountDecoders, OrcaAccounts
  <2>2. CASE d \in DOMAIN OrcaPoolAccounts
    <3>1. AccountDecoders[o][d] = OrcaPoolAccounts[d]
      BY <2>1, <2>2 DEF Merge
    <3> QED BY <2>2, <3>1, OrcaPoolDataWithin
  <2>3. CASE d \notin DOMAIN OrcaPoolAccounts
    <3>1. d \in DOMAIN OrcaOtherAccounts /\ AccountDecoders[o][d] = OrcaOtherAccounts[d]
      BY <2>1, <2>3 DEF Merge
    <3> QED BY <3>1, OrcaOtherDataWithin
  <2> QED BY <2>2, <2>3
<1>2. CASE o # "orca"
  <2>1. AccountDecoders[o] \in {PumpFunAccounts, PumpSwapAccounts, ClmmAccounts, CpmmAccounts}
    BY <1>2 DEF AccountDecoders
  <2> QED BY <2>1, PumpFunDataWithin, PumpSwapDataWithin, ClmmDataWithin, CpmmDataWithin
<1> QED BY <1>1, <1>2
-----------------------------------------------------------------------------
(* Nothing but the data is read *)

(* Of data of any length, a decoder that reads within it makes something whole, *)
LEMMA MakesWhole ==
  ASSUME NEW decoder, Within(decoder.layout), NEW n \in Nat, NEW r \in Makes(decoder, n)
  PROVE  Whole(r)
<1>1. PICK o \in Outcomes(decoder.layout, n) :
        r \in IF o.is = "event" THEN {[is |-> "event", type |-> t, flaws |-> o.flaws] : t \in decoder.types}
              ELSE {[Nothing EXCEPT !.is = o.is, !.flaws = o.flaws \cap {"lost"}]}
  BY DEF Makes
<1>2. \/ o.is = "event" /\ o.flaws = {}
      \/ o.is = "none" /\ "lost" \notin o.flaws
  BY WithinSound DEF Sound
<1>3. CASE o.is = "event"
  BY <1>1, <1>2, <1>3 DEF Whole
<1>4. CASE o.is # "event"
  <2>1. r = [Nothing EXCEPT !.is = o.is, !.flaws = o.flaws \cap {"lost"}]
    BY <1>1, <1>4
  <2>2. o.is = "none" /\ o.flaws \cap {"lost"} = {}
    BY <1>2, <1>4
  <2>3. r.is = o.is /\ r.flaws = o.flaws \cap {"lost"}
    BY <2>1 DEF Nothing
  <2> QED BY <2>2, <2>3 DEF Whole
<1> QED BY <1>3, <1>4

(* and so it does of any accounts. *)
LEMMA CallsWhole ==
  ASSUME NEW decoder, Called(decoder), NEW n \in Nat, NEW r \in MakesOfAccounts(decoder, n)
  PROVE  Whole(r)
<1>1. \A b \in decoder.accounts : ~ (b < decoder.direct)
  BY DEF Called
<1>2. r \in Makes(decoder, n) \/ r = Nothing
  BY <1>1 DEF MakesOfAccounts
<1> QED BY <1>2, MakesWhole, WholeNothing DEF Called

(* So decoders of instructions are trusted, *)
LEMMA TrustCalls == ASSUME NEW D, \A a \in D : Called(a) PROVE TrustedCalls(D)
BY CallsWhole DEF TrustedCalls

(* of whatever origin the data is, *)
LEMMA TrustCalled ==
  ASSUME NEW D, \A a \in D : Called(a), NEW i PROVE Trusted(D, i)
<1>1. ASSUME NEW a \in D, NEW n \in Nat, NEW r \in MakesOf(i, a, n) PROVE Whole(r)
  <2>1. r \in Makes(a, n) \/ r \in MakesOfAccounts(a, n)
    BY DEF MakesOf
  <2> QED BY <2>1, MakesWhole, CallsWhole DEF Called
<1> QED BY <1>1 DEF Trusted

(* and decoders of anything else for logs, events and accounts. *)
LEMMA TrustWithin ==
  ASSUME NEW D, \A a \in D : Within(a.layout), NEW i, i.origin \notin {"instruction", "inner"}
  PROVE  Trusted(D, i)
<1>1. ASSUME NEW a \in D, NEW n \in Nat, NEW r \in MakesOf(i, a, n) PROVE Whole(r)
  <2>1. r \in Makes(a, n)
    BY DEF MakesOf
  <2> QED BY <2>1, MakesWhole
<1> QED BY <1>1 DEF Trusted

(* Sequences of such decoders. *)
AreWithin(tried) == \E D : tried \in Seq(D) /\ \A a \in D : Within(a.layout)
AreCalled(tried) == \E D : tried \in Seq(D) /\ \A a \in D : Called(a)

(* None, one or two of them are such sequences, *)
LEMMA FewWithin ==
  /\ AreWithin(<<>>)
  /\ \A a : Within(a.layout) => AreWithin(<<a>>)
  /\ \A a, b : Within(a.layout) /\ Within(b.layout) => AreWithin(<<a, b>>)
<1>1. ASSUME NEW a, NEW b, NEW tried, tried \in Seq({a, b}), Within(a.layout), Within(b.layout)
      PROVE  AreWithin(tried)
  <2> DEFINE D == {a, b}
  <2>1. tried \in Seq(D) /\ \A x \in D : Within(x.layout)
    BY <1>1
  <2> HIDE DEF D
  <2> QED BY <2>1 DEF AreWithin
<1>2. AreWithin(<<>>)
  <2>1. <<>> \in Seq({}) /\ \A a \in {} : Within(a.layout)
    OBVIOUS
  <2> DEFINE D == {}
  <2> HIDE DEF D
  <2>2. <<>> \in Seq(D) /\ \A a \in D : Within(a.layout)
    BY <2>1 DEF D
  <2> QED BY <2>2 DEF AreWithin
<1>3. \A a, b : <<a>> \in Seq({a, a}) /\ <<a, b>> \in Seq({a, b})
  OBVIOUS
<1> QED BY <1>1, <1>2, <1>3

(* of instructions as well. *)
LEMMA FewCalled ==
  /\ AreCalled(<<>>)
  /\ \A a : Called(a) => AreCalled(<<a>>)
  /\ \A a, b : Called(a) /\ Called(b) => AreCalled(<<a, b>>)
<1>1. ASSUME NEW a, NEW b, NEW tried, tried \in Seq({a, b}), Called(a), Called(b)
      PROVE  AreCalled(tried)
  <2> DEFINE D == {a, b}
  <2>1. tried \in Seq(D) /\ \A x \in D : Called(x)
    BY <1>1
  <2> HIDE DEF D
  <2> QED BY <2>1 DEF AreCalled
<1>2. AreCalled(<<>>)
  <2>1. <<>> \in Seq({}) /\ \A a \in {} : Called(a)
    OBVIOUS
  <2> DEFINE D == {}
  <2> HIDE DEF D
  <2>2. <<>> \in Seq(D) /\ \A a \in D : Called(a)
    BY <2>1 DEF D
  <2> QED BY <2>2 DEF AreCalled
<1>3. \A a, b : <<a>> \in Seq({a, a}) /\ <<a, b>> \in Seq({a, b})
  OBVIOUS
<1> QED BY <1>1, <1>2, <1>3

(* What is tried on the data of an input, unless it is excused: of a log line, *)
LEMMA LogTried ==
  ASSUME NEW i, i.origin = "log", IsLogOf(i), ~ Loose(i)
  PROVE  AreWithin(Attempts(i))
<1>1. i.disc \notin LooseLogs
  BY DEF Loose, LooseLogs, ShredForms
<1>2. Attempts(i) = LogAttempts(i)
  BY DEF Attempts, ShredForms
<1>3. CASE Candidates(i.program, i.disc) = <<>>
  <2>1. Attempts(i) = <<>>
    BY <1>2, <1>3 DEF LogAttempts
  <2> QED BY <2>1, FewWithin
<1>4. ASSUME NEW c, Candidates(i.program, i.disc) = <<c>>, Within(Decoders[c].layout)
      PROVE  AreWithin(Attempts(i))
  <2>1. Attempts(i) = <<Decoders[c]>>
    BY <1>2, <1>4 DEF LogAttempts
  <2> QED BY <1>4, <2>1, FewWithin
<1>5. CASE i.program \in Programs
  <2>1. i.program \notin {"none", "other"}
    BY <1>5, ProgramNames
  <2>2. CASE i.disc \in DOMAIN ScopedDecoder[i.program]
    <3>1. Candidates(i.program, i.disc) = <<ScopedDecoder[i.program][i.disc]>>
      BY <2>1, <2>2 DEF Candidates
    <3>2. Within(Decoders[ScopedDecoder[i.program][i.disc]].layout)
      BY <1>1, <1>5, <2>2, ScopedWithin
    <3> QED BY <3>1, <3>2, <1>4
  <2>3. CASE i.disc \notin DOMAIN ScopedDecoder[i.program]
    BY <2>1, <2>3, <1>3 DEF Candidates
  <2> QED BY <2>2, <2>3
<1>6. CASE i.program \in {"none", "other"} /\ i.disc \in Discs \cup {"unknown"}
  <2>1. \/ Candidates(i.program, i.disc) = <<>>
        \/ i.disc \notin ScopedOnly /\ Candidates(i.program, i.disc) = <<UnscopedDecoder(i.disc)>>
    BY <1>1, <1>6 DEF Candidates, UnscopedDecoder, Legacy, LooseLogs
  <2>2. ASSUME i.disc \notin ScopedOnly PROVE Within(Decoders[UnscopedDecoder(i.disc)].layout)
    <3>1. i.disc \in Discs
      BY <1>6, <2>2 DEF ScopedOnly
    <3>2. PICK q \in Programs : UnscopedDecoder(i.disc) \in Range(ScopedDecoder[q])
      BY <2>2, <3>1, UnscopedScoped
    <3>3. UnscopedDecoder(i.disc) \in DOMAIN Decoders
      BY <3>2, ScopedKnown
    <3>4. UnscopedDecoder(i.disc) \notin LooseLogs
      <4>1. CASE i.disc \in Legacy
        <5>1. "dlmm" \in Programs /\ i.disc \in DOMAIN ScopedDecoder["dlmm"]
          BY <4>1, ProgramNames, DlmmScope DEF Legacy
        <5> QED BY <1>1, <4>1, <5>1, NamesDiffer DEF UnscopedDecoder
      <4>2. CASE i.disc \notin Legacy
        BY <1>1, <4>2 DEF UnscopedDecoder
      <4> QED BY <4>1, <4>2
    <3> QED BY <3>3, <3>4, LogsSafe DEF SafeTable
  <2> QED BY <2>1, <2>2, <1>3, <1>4
<1> QED BY <1>5, <1>6 DEF IsLogOf

(* of an event told by a call, *)
LEMMA EventTried ==
  ASSUME NEW i, i.origin \in {"prefixed", "suffixed"}, IsEventOf(i), ~ Loose(i)
  PROVE  AreWithin(Attempts(i))
<1>1. i.disc \notin LooseLogs
  BY DEF Loose, LooseLogs, ShredForms
<1> DEFINE a == Behind(Decoders[ScopedDecoder[i.program][i.disc]])
           b == Behind(ShortSwap)
<1>2. Within(a.layout) /\ Within(b.layout)
  BY <1>1, ScopedWithin, BehindWithin, ShortSwapWithin DEF IsEventOf
<1>3. Attempts(i) = EventDecoders(i.origin, i.program, i.disc)
  BY DEF Attempts, ShredForms
<1>4. Attempts(i) =
        IF ~TellsEvent(i.origin, i.program, i.disc) THEN <<>>
        ELSE <<a>> \o (IF i.program = "pools" /\ i.disc = "meteora_swap" THEN <<b>> ELSE <<>>)
  BY <1>3 DEF EventDecoders
<1> HIDE DEF a, b
<1>5. <<a>> \o <<>> = <<a>> /\ <<a>> \o <<b>> = <<a, b>>
  BY PairOf
<1>6. Attempts(i) = <<>> \/ Attempts(i) = <<a>> \/ Attempts(i) = <<a, b>>
  BY <1>4, <1>5
<1> QED BY <1>2, <1>6, FewWithin

(* of an instruction, *)
LEMMA CompiledTried ==
  ASSUME NEW p, NEW d, ~ (p = "pumpfun" /\ d \in DOMAIN PumpFunCreates)
  PROVE  AreCalled(CompiledDecoders(p, d))
<1>1. CASE CompiledDecoders(p, d) = <<>>
  BY <1>1, FewCalled
<1>2. ASSUME NEW a, CompiledDecoders(p, d) = <<a>>, a = InstructionDecoders[p][d],
             p \in DOMAIN InstructionDecoders, d \in DOMAIN InstructionDecoders[p]
      PROVE  AreCalled(CompiledDecoders(p, d))
  <2>1. Called(a)
    BY <1>2, CallsWithin
  <2> QED BY <1>2, <2>1, FewCalled
<1> QED BY <1>1, <1>2, CompiledOf

(* of the instruction that an event may be taken for, *)
LEMMA TakenTried ==
  ASSUME NEW i
  PROVE  /\ AreCalled(Taken(i))
         /\ MayBeTaken(i) => Len(Taken(i)) = 1
<1>1. CASE ~ MayBeTaken(i)
  <2>1. Taken(i) = <<>>
    BY <1>1 DEF Taken
  <2> QED BY <1>1, <2>1, FewCalled
<1>2. CASE MayBeTaken(i)
  <2> DEFINE p == i.program
             d == TakenFor(i.program, i.disc)
  <2>1. Taken(i) = CompiledDecoders(p, d)
    BY <1>2 DEF Taken
  <2>2. \/ p = "cpmm" /\ d \in {"swap", "swap_out", "deposit", "withdraw"}
        \/ p = "damm_v2" /\ d = "init"
        \/ p = "dlmm" /\ d = "add_liquidity"
    BY <1>2 DEF MayBeTaken, TakenFor, SameBytes
  <2> HIDE DEF p, d
  <2>3. p \in DOMAIN InstructionDecoders /\ d \in DOMAIN InstructionDecoders[p] /\ p # "pumpfun"
    <3>1. {"swap", "swap_out", "deposit", "withdraw"} \subseteq DOMAIN CpmmInstructions
      BY DEF CpmmInstructions
    <3>2. "init" \in DOMAIN DammInstructions
      BY DEF DammInstructions
    <3>3. "add_liquidity" \in DOMAIN DlmmInstructions
      <4>1. "add_liquidity" \in DOMAIN DlmmTradeInstructions \/ "add_liquidity" \in DOMAIN DlmmPoolInstructions
        BY DEF DlmmTradeInstructions, DlmmPoolInstructions
      <4> QED BY <4>1, MergeEntries DEF DlmmInstructions
    <3> QED BY <2>2, <3>1, <3>2, <3>3 DEF InstructionDecoders
  <2>4. Taken(i) = <<InstructionDecoders[p][d]>>
    BY <2>1, <2>3 DEF CompiledDecoders
  <2>5. AreCalled(Taken(i))
    BY <2>1, <2>3, CompiledTried
  <2> QED BY <2>4, <2>5
<1> QED BY <1>1, <1>2

(* of a shred *)
LEMMA ShredTried ==
  ASSUME NEW i, i.origin \in ShredForms, ~ Loose(i)
  PROVE  AreCalled(Attempts(i))
<1>1. Attempts(i) = ShredDecoders(i.program, i.disc)
  BY DEF Attempts, ShredForms
<1>2. ~ (i.program = "pumpfun" /\ i.disc \in DOMAIN PumpFunCreates)
  BY DEF Loose, ShredForms
<1>3. CASE IsRaw(i.program, i.disc)
  <2>1. Attempts(i) = <<Foreign>> \/ Attempts(i) = <<MultiHop>>
    BY <1>1, <1>3 DEF ShredDecoders
  <2> QED BY <2>1, FewCalled, RawCalled
<1>4. CASE ~ IsRaw(i.program, i.disc) /\ IsShort(i.program, i.disc)
  <2> DEFINE a == PumpFunTrades[i.disc]
             b == Short(a)
  <2>1. Attempts(i) = <<a, b>>
    BY <1>1, <1>4 DEF ShredDecoders
  <2>2. i.disc \in {"buy_v2", "buy_exact_quote_in_v2", "sell_v2"}
    BY <1>4 DEF IsShort
  <2>3. i.disc \in DOMAIN PumpFunTrades
    BY <2>2 DEF PumpFunTrades
  <2>4. Called(a) /\ Called(b)
    BY <2>2, <2>3, PumpFunTradesWithin, ShortCalled
  <2> HIDE DEF a, b
  <2> QED BY <2>1, <2>4, FewCalled
<1>5. CASE ~ IsRaw(i.program, i.disc) /\ ~ IsShort(i.program, i.disc)
  <2>1. Attempts(i) = CompiledDecoders(i.program, i.disc)
    BY <1>1, <1>5 DEF ShredDecoders
  <2> QED BY <1>2, <2>1, CompiledTried
<1> QED BY <1>3, <1>4, <1>5

(* and of an account. *)
LEMMA AccountTried ==
  ASSUME NEW i, i.origin = "account", ~ Loose(i)
  PROVE  AreWithin(Attempts(i))
<1> DEFINE o == i.program
           d == i.disc
<1>1. Attempts(i) = AccountCandidates(o, d)
  BY DEF Attempts, ShredForms
<1>2. o # "token" /\ d # "nonce"
  BY DEF Loose, ShredForms
<1>3. \/ AccountCandidates(o, d) = <<>>
      \/ AccountCandidates(o, d) = <<SnapshotDecoders[o][d]>> /\ IsSnapshot(o, d)
      \/ /\ AccountCandidates(o, d) = <<AccountDecoders[o][d]>>
         /\ o \in DOMAIN AccountDecoders /\ d \in DOMAIN AccountDecoders[o]
  BY <1>2 DEF AccountCandidates
<1> HIDE DEF o, d
<1>4. ASSUME NEW a, AccountCandidates(o, d) = <<a>>, Within(a.layout)
      PROVE  AreWithin(Attempts(i))
  BY <1>1, <1>4, FewWithin
<1>5. CASE AccountCandidates(o, d) = <<>>
  BY <1>1, <1>5, FewWithin
<1>6. IsSnapshot(o, d) => Within(SnapshotDecoders[o][d].layout)
  BY SnapshotWithin DEF IsSnapshot
<1> QED BY <1>3, <1>4, <1>5, <1>6, AccountsWithin

(* So what is returned is whole. *)
LEMMA ReturnsWhole ==
  ASSUME NEW f, NEW i \in AllInputs, NEW made \in Contents(i), ~ Loose(i)
  PROVE  Whole(Returns(f, i, made))
<1>1. CASE i.origin \in ShredForms
  <2>1. PICK D : Attempts(i) \in Seq(D) /\ \A a \in D : Called(a)
    BY <1>1, ShredTried DEF AreCalled
  <2>2. AllWhole(made)
    BY <1>1, <2>1, TrustCalls, ShredsWhole
  <2>3. ~ MayBeTaken(i)
    BY <1>1 DEF MayBeTaken, ShredForms
  <2> QED BY <2>2, <2>3, WholeReturns
<1>2. CASE i.origin \notin ShredForms
  <2>1. PICK C : Taken(i) \in Seq(C) /\ \A a \in C : Called(a)
    BY TakenTried DEF AreCalled
  <2>2. \E D : Attempts(i) \in Seq(D) /\ Trusted(D, i)
    <3>1. CASE i.origin = "log" /\ IsLogOf(i)
      BY <3>1, LogTried, TrustWithin DEF AreWithin
    <3>2. CASE i.origin \in {"instruction", "inner"}
      <4>1. Attempts(i) = CompiledDecoders(i.program, i.disc)
        BY <3>2 DEF Attempts, ShredForms
      <4>2. ~ (i.program = "pumpfun" /\ i.disc \in DOMAIN PumpFunCreates)
        BY <3>2 DEF Loose, ShredForms
      <4> QED BY <4>1, <4>2, CompiledTried, TrustCalled DEF AreCalled
    <3>3. CASE i.origin \in {"prefixed", "suffixed"} /\ IsEventOf(i)
      BY <3>3, EventTried, TrustWithin DEF AreWithin
    <3>4. CASE i.origin = "account"
      BY <3>4, AccountTried, TrustWithin DEF AreWithin
    <3> QED BY <1>2, <3>1, <3>2, <3>3, <3>4, InputKinds
  <2>3. PICK D : Attempts(i) \in Seq(D) /\ Trusted(D, i)
    BY <2>2
  <2>4. AllWhole(made) /\ Len(made) = Len(Taken(i)) + Len(Attempts(i))
    BY <1>2, <2>1, <2>3, TrustCalls, ContentsWhole
  <2>5. MayBeTaken(i) => 1 <= Len(made)
    <3>1. Len(Attempts(i)) \in Nat
      BY <2>3
    <3> QED BY <2>4, <3>1, TakenTried
  <2> QED BY <2>4, <2>5, WholeReturns
<1> QED BY <1>1, <1>2

(* The invariant tells that what is returned is of an input. *)
LEMMA DataWithin == IInv => WithinData
<1> SUFFICES ASSUME IInv, ~ Loose(input) PROVE result.is # "raised" /\ result.flaws = {}
  BY DEF WithinData
<1>1. CASE result = Waiting
  BY <1>1 DEF Waiting, Nothing
<1>2. CASE result # Waiting
  <2>1. result = Returns(filter, input, contents)
    BY <1>2 DEF IInv
  <2>2. Whole(result)
    BY <2>1, ReturnsWhole DEF IInv
  <2> QED BY <2>2 DEF Whole
<1> QED BY <1>1, <1>2

(* Of data of any length, and of any number of accounts of an instruction, but for the *)
(* excused decoders, no decoder raises, no event has a field that is cut off or read   *)
(* from the bytes of one that is not there, and no account is lost on the way.         *)
THEOREM WithinDataHolds == Spec => []WithinData
BY Invariance, DataWithin, PTL
=============================================================================
