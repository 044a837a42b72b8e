------------------------- MODULE InstructionLayouts -------------------------
(***************************************************************************)
(* The layouts of the instructions that sol_parser/instructions.py decodes, *)
(* by program: the event types of each, the numbers of accounts it accepts, *)
(* how many of them are read by a bare index, and the reads of its data     *)
(* behind the discriminator (of eight bytes, or of one for AMM v4). The     *)
(* names are those of the discriminators there.                             *)
(***************************************************************************)
EXTENDS LogLayouts

MaxAccounts == 33        (* bound: one more than any decoder asks for *)

AnyAccounts == 0 .. MaxAccounts
From(n)     == n .. MaxAccounts

Instruction(type, accounts, direct, layout) ==
  [types |-> {type}, accounts |-> accounts, direct |-> direct, layout |-> layout]

(* All reads of accounts are by _get_account_safe. *)
Safe(type, accounts, layout) == Instruction(type, accounts, 0, layout)

-----------------------------------------------------------------------------
(* Pump *)

Amounts == <<Later(8), Later(8)>>     (* _u64_payload *)

TradeV3(type, sizes) ==
  Instruction(type, From(17), 17, <<OneOf(sizes)>> \o Amounts \o <<LaterFlag>>)

PumpFunTrades == [
  buy_v3 |-> TradeV3("PUMP_FUN_BUY", {16, 17}),
  buy_exact_quote_in_v3 |-> TradeV3("PUMP_FUN_BUY", {16, 17}),
  sell_v3 |-> TradeV3("PUMP_FUN_SELL", {16}),
  buy |-> Safe("PUMP_FUN_BUY", From(16), Amounts \o <<Later(1)>>),
  buy_exact_sol_in |-> Safe("PUMP_FUN_BUY_EXACT_SOL_IN", From(16), Amounts \o <<Later(1)>>),
  sell |-> Safe("PUMP_FUN_SELL", From(14), Amounts),
  buy_v2 |-> Safe("PUMP_FUN_BUY", From(27), Amounts),
  buy_exact_quote_in_v2 |-> Safe("PUMP_FUN_BUY", From(27), Amounts),
  sell_v2 |-> Safe("PUMP_FUN_SELL", From(26), Amounts)]

PumpFunCreates == [
  create |-> Safe("PUMP_FUN_CREATE", AnyAccounts, <<LooseText, LooseText, LooseText, Optional(32, 1)>>),
  create_v2 |-> Safe("PUMP_FUN_CREATE_V2", From(16),
    <<LooseText, LooseText, LooseText, Need(33), Slice(32), Bytes(1), Optional(1, 1), Optional(8, 1),
      Optional(1, 1)>>)]

PumpFunInstructions == Merge(PumpFunTrades, PumpFunCreates)

(* A v3 instruction is decoded again as its older form. *)
SwapV3(type) == Instruction(type, {17}, 17, <<Exactly(16), Later(16)>>)
SwapOf(type) == Safe(type, From(13), <<Later(16)>>)

PumpSwapInstructions == [
  buy_v3 |-> SwapV3("PUMP_SWAP_BUY"),
  buy_exact_quote_in_v3 |-> SwapV3("PUMP_SWAP_BUY"),
  sell_v3 |-> SwapV3("PUMP_SWAP_SELL"),
  buy |-> SwapOf("PUMP_SWAP_BUY"),
  buy_exact_quote_in |-> SwapOf("PUMP_SWAP_BUY"),
  sell |-> SwapOf("PUMP_SWAP_SELL"),
  create_pool |-> Safe("PUMP_SWAP_CREATE_POOL", From(8),
    <<Later(2), Later(8), Later(8), Later(32), Later(1), Later(1), Later(8), Later(1), Later(1)>>)]

FeeShares == Safe("PUMP_FEES_UPDATE_FEE_SHARES", From(8), <<Vector(34), AtEnd>>)
FeeReset  == Instruction("PUMP_FEES_RESET_FEE_SHARING_CONFIG", From(7), 7, <<>>)

PumpFeesInstructions == [
  (* refused if the admin or the mint is the default key, or is not there *)
  create_fee_sharing |-> Safe("PUMP_FEES_CREATE_FEE_SHARING_CONFIG", From(5), <<Refusal>>),
  update_fee_shares |-> FeeShares,
  update_fee_shares_v2 |-> FeeShares,
  initialize_fee_config |-> Instruction("PUMP_FEES_INITIALIZE_FEE_CONFIG", From(2), 2, <<>>),
  reset_fee_sharing |-> FeeReset,
  reset_fee_sharing_v2 |-> FeeReset,
  revoke_fee_sharing |-> Instruction("PUMP_FEES_REVOKE_FEE_SHARING_AUTHORITY", From(4), 4, <<>>),
  transfer_fee_sharing |-> Instruction("PUMP_FEES_TRANSFER_FEE_SHARING_AUTHORITY", From(5), 5, <<>>),
  update_admin |-> Instruction("PUMP_FEES_UPDATE_ADMIN", From(3), 3, <<>>),
  update_fee_config |-> Instruction("PUMP_FEES_UPDATE_FEE_CONFIG", From(2), 2,
    <<Vector(40), Need(24), Words(3), AtEnd>>),
  upsert_fee_tiers |-> Instruction("PUMP_FEES_UPSERT_FEE_TIERS", From(2), 2,
    <<Vector(40), Need(1), Bytes(1), AtEnd>>)]

-----------------------------------------------------------------------------
(* Meteora *)

Bare(type) == Safe(type, AnyAccounts, <<>>)

DammInstructions == [
  swap |-> Bare("METEORA_DAMM_V2_SWAP"), swap2 |-> Bare("METEORA_DAMM_V2_SWAP"),
  add_liq |-> Bare("METEORA_DAMM_V2_ADD_LIQUIDITY"), rem_liq |-> Bare("METEORA_DAMM_V2_REMOVE_LIQUIDITY"),
  create |-> Bare("METEORA_DAMM_V2_CREATE_POSITION"), close |-> Bare("METEORA_DAMM_V2_CLOSE_POSITION"),
  init |-> Bare("METEORA_DAMM_V2_INITIALIZE_POOL")]

PoolsInstructions == [
  swap |-> Safe("METEORA_POOLS_SWAP", From(1), <<Need(16), Words(2)>>),
  add_liquidity |-> Safe("METEORA_POOLS_ADD_LIQUIDITY", From(1), <<Need(24), Words(3)>>),
  remove_liquidity |-> Safe("METEORA_POOLS_REMOVE_LIQUIDITY", From(1), <<Need(24), Words(3)>>),
  create_pool |-> Instruction("METEORA_POOLS_POOL_CREATED", From(5), 5, <<Need(16)>>),
  create_pool_config2 |-> Instruction("METEORA_POOLS_POOL_CREATED", From(5), 5,
    <<Need(16), Need(17), Skip(16), Option(8)>>)]

(* All of DLMM's want an account; a second version differs by its accounts. *)
Dlmm(type, layout) == Safe(type, From(1), layout)
DlmmSwap     == Dlmm("METEORA_DLMM_SWAP", <<Need(8), Words(1), Later(8)>>)
DlmmExactOut == Dlmm("METEORA_DLMM_SWAP", <<Need(16), Words(2)>>)
DlmmImpact   == Dlmm("METEORA_DLMM_SWAP", <<Need(8), Words(1)>>)
DlmmPosition == Dlmm("METEORA_DLMM_CREATE_POSITION", <<Need(8), Halves(2), Refusal>>)

DlmmPoolInstructions == [
  initialize_lb_pair |-> Dlmm("METEORA_DLMM_INITIALIZE_POOL", <<Need(6), Halves(1), Bytes(2)>>),
  initialize_lb_pair2 |-> Dlmm("METEORA_DLMM_INITIALIZE_POOL", <<Need(4), Halves(1)>>),
  initialize_bin_array |-> Dlmm("METEORA_DLMM_INITIALIZE_BIN_ARRAY", <<Need(8), Words(1)>>),
  add_liquidity |-> Dlmm("METEORA_DLMM_ADD_LIQUIDITY", <<>>),
  add_liquidity2 |-> Dlmm("METEORA_DLMM_ADD_LIQUIDITY", <<>>),
  remove_liquidity |-> Dlmm("METEORA_DLMM_REMOVE_LIQUIDITY", <<>>),
  remove_liquidity2 |-> Dlmm("METEORA_DLMM_REMOVE_LIQUIDITY", <<>>),
  initialize_position |-> DlmmPosition, initialize_position2 |-> DlmmPosition,
  initialize_position_pda |-> DlmmPosition]

DlmmTradeInstructions == [
  swap |-> DlmmSwap, swap2 |-> DlmmSwap,
  swap_exact_out |-> DlmmExactOut, swap_exact_out2 |-> DlmmExactOut,
  swap_with_price_impact |-> DlmmImpact, swap_with_price_impact2 |-> DlmmImpact,
  claim_fee |-> Dlmm("METEORA_DLMM_CLAIM_FEE", <<>>), claim_fee2 |-> Dlmm("METEORA_DLMM_CLAIM_FEE", <<>>),
  close_position |-> Dlmm("METEORA_DLMM_CLOSE_POSITION", <<>>),
  close_position2 |-> Dlmm("METEORA_DLMM_CLOSE_POSITION", <<>>)]

DlmmInstructions == Merge(DlmmPoolInstructions, DlmmTradeInstructions)

-----------------------------------------------------------------------------
(* Raydium *)

ClmmSwap == Safe("RAYDIUM_CLMM_SWAP", AnyAccounts, <<Need(33), Words(2), Slice(16), Flag>>)
ClmmOpen == Safe("RAYDIUM_CLMM_OPEN_POSITION", AnyAccounts, <<Need(48), Halves(2), Skip(8), Slice(16)>>)

ClmmInstructions == [
  swap |-> ClmmSwap, swap_v2 |-> ClmmSwap,
  inc_liq |-> Safe("RAYDIUM_CLMM_INCREASE_LIQUIDITY", AnyAccounts, <<Need(32), Slice(16), Words(2)>>),
  dec_liq |-> Safe("RAYDIUM_CLMM_DECREASE_LIQUIDITY", AnyAccounts, <<Need(32), Slice(16), Words(2)>>),
  create |-> Safe("RAYDIUM_CLMM_CREATE_POOL", AnyAccounts, <<Need(24), Slice(16), Words(1)>>),
  create_customizable_pool |-> Safe("RAYDIUM_CLMM_CREATE_POOL", From(13),
    <<Exactly(18), Slice(16), Flag, Flag>>),
  open_position |-> ClmmOpen, open_position_v2 |-> ClmmOpen, open_position_with_token_22_nft |-> ClmmOpen,
  close_position |-> Bare("RAYDIUM_CLMM_CLOSE_POSITION")]

CpmmInstructions == [
  swap |-> Safe("RAYDIUM_CPMM_SWAP", AnyAccounts, <<Need(16)>>),
  swap_out |-> Safe("RAYDIUM_CPMM_SWAP", AnyAccounts, <<Need(16)>>),
  initialize |-> Safe("RAYDIUM_CPMM_INITIALIZE", From(20), <<Need(24), Words(2)>>),
  initialize_permission |-> Safe("RAYDIUM_CPMM_INITIALIZE", From(21), <<Need(25), Words(2)>>),
  deposit |-> Safe("RAYDIUM_CPMM_DEPOSIT", AnyAccounts, <<Need(24), Words(3)>>),
  withdraw |-> Safe("RAYDIUM_CPMM_WITHDRAW", AnyAccounts, <<Need(24), Words(3)>>)]

AmmSwap(accounts) == Safe("RAYDIUM_AMM_V4_SWAP", accounts, <<Need(16), Words(2)>>)

(* The types 9, 11, 16 and 17. *)
AmmInstructions == [
  swap_base_in |-> AmmSwap(AnyAccounts), swap_base_out |-> AmmSwap(AnyAccounts),
  swap_base_in_v2 |-> AmmSwap(From(8)), swap_base_out_v2 |-> AmmSwap(From(8))]

LaunchlabOrder == Safe("RAYDIUM_LAUNCHLAB_TRADE", AnyAccounts, Amounts)
LaunchlabStart == Safe("RAYDIUM_LAUNCHLAB_POOL_CREATE", AnyAccounts, <<Need(1), Bytes(1), Text, Text, Text>>)

LaunchlabInstructions == [
  (* the discriminators of two events *)
  trade |-> Safe("RAYDIUM_LAUNCHLAB_TRADE", AnyAccounts, <<Exactly(139), Slice(32), Later(104), Flag, Flag, Flag>>),
  pool_create |-> Safe("RAYDIUM_LAUNCHLAB_POOL_CREATE", AnyAccounts,
    <<Need(97), Slice(64), Skip(32), Bytes(1), Text, Text, Text>>),
  buy_exact_in |-> LaunchlabOrder, buy_exact_out |-> LaunchlabOrder,
  sell_exact_in |-> LaunchlabOrder, sell_exact_out |-> LaunchlabOrder,
  initialize |-> LaunchlabStart, initialize_v2 |-> LaunchlabStart, initialize_with_token_2022 |-> LaunchlabStart,
  migrate_to_amm |-> Safe("RAYDIUM_LAUNCHLAB_MIGRATE_AMM", From(32), <<Need(9)>>),
  migrate_to_cpswap |-> Safe("RAYDIUM_LAUNCHLAB_MIGRATE_AMM", From(28), <<>>)]

-----------------------------------------------------------------------------
(* Orca *)

OrcaSwap == Safe("ORCA_WHIRLPOOL_SWAP", AnyAccounts, <<Need(34), Words(2), Slice(16), Bytes(2)>>)
OrcaLiquidity(type, size) == Safe(type, AnyAccounts, <<Need(size), Slice(16), Words(2)>>)

OrcaInstructions == [
  swap |-> OrcaSwap, swap_v2 |-> OrcaSwap,
  inc_liq |-> OrcaLiquidity("ORCA_WHIRLPOOL_LIQUIDITY_INCREASED", 32),
  inc_liq_v2 |-> OrcaLiquidity("ORCA_WHIRLPOOL_LIQUIDITY_INCREASED", 33),
  dec_liq |-> OrcaLiquidity("ORCA_WHIRLPOOL_LIQUIDITY_DECREASED", 32),
  dec_liq_v2 |-> OrcaLiquidity("ORCA_WHIRLPOOL_LIQUIDITY_DECREASED", 33),
  init_pool |-> Safe("ORCA_WHIRLPOOL_POOL_INITIALIZED", AnyAccounts, <<Need(18), Bytes(2), Slice(16)>>)]

InstructionDecoders == [
  pumpfun |-> PumpFunInstructions, pump_fees |-> PumpFeesInstructions, pumpswap |-> PumpSwapInstructions,
  damm_v2 |-> DammInstructions, pools |-> PoolsInstructions, dlmm |-> DlmmInstructions,
  clmm |-> ClmmInstructions, cpmm |-> CpmmInstructions, amm_v4 |-> AmmInstructions,
  launchlab |-> LaunchlabInstructions, orca |-> OrcaInstructions]
=============================================================================
