--------------------------- MODULE AccountLayouts ---------------------------
(***************************************************************************)
(* The layouts of the accounts that sol_parser/accounts/ and                *)
(* liquidity_snapshot.py decode, by the program that owns them, behind the  *)
(* eight bytes of the discriminator. An account of SPL Token and a nonce    *)
(* account have none: their layouts are those of the whole data.            *)
(*                                                                         *)
(* The accounts of Raydium and Orca are read by a Reader, which refuses     *)
(* what does not fit; a field of theirs is checked again behind the guard,  *)
(* and a guard that is too short loses the account.                         *)
(***************************************************************************)
EXTENDS Layouts

Keys(n) == Later(32 * n)       (* read_pubkey_fast: empty beyond the end *)

PumpFunGlobal ==
  <<Need(1037), Bytes(1), Keys(2), Words(5), Keys(1), Bytes(1), Words(2), Keys(9), Bytes(1), Keys(2), Bytes(1),
    Keys(7), Bytes(1), Keys(8), Words(2), Keys(1), Later(1), Later(8), Later(32), Later(1), Later(1)>>

PumpFunAccounts == [
  global |-> Decoder({"ACCOUNT_PUMP_FUN_GLOBAL"}, PumpFunGlobal),
  bonding_curve |-> Decoder({"ACCOUNT_PUMP_FUN_BONDING_CURVE"},
    <<Sizes({107, 116}, 117), Words(5), Bytes(1), Keys(1), Bytes(2), Keys(1), Later(8), Later(1), Later(1)>>),
  fee_config |-> Decoder({"ACCOUNT_PUMP_FUN_FEE_CONFIG"},
    <<Need(65), Bytes(1), Keys(1), Need(24), Words(3), Vector(40), Vector(40), EventIf(0), Need(24), Words(3)>>),
  sharing_config |-> Decoder({"ACCOUNT_PUMP_FUN_SHARING_CONFIG"},
    <<Need(72), Bytes(2), Flag, Keys(2), Bytes(1), Vector(34)>>),
  global_volume_accumulator |-> Decoder({"ACCOUNT_PUMP_FUN_GLOBAL_VOLUME_ACCUMULATOR"},
    <<Need(536), Words(3), Keys(1), Words(60)>>),
  user_volume_accumulator |-> Decoder({"ACCOUNT_PUMP_FUN_USER_VOLUME_ACCUMULATOR"},
    <<Need(98), Keys(1), Bytes(1), Words(4), Bytes(1), Words(4)>>)]

PumpSwapAccounts == [
  global_config |-> Decoder({"ACCOUNT_PUMP_SWAP_GLOBAL_CONFIG"},
    <<Need(634), Keys(1), Words(2), Bytes(1), Keys(8), Words(1), Keys(3), Bytes(1), Keys(7)>>),
  pool |-> Decoder({"ACCOUNT_PUMP_SWAP_POOL"},
    <<Sizes({244, 253, 262}, 263), Bytes(3), Keys(6), Words(1), Keys(1), Bytes(2), Later(16), Later(8),
      Later(1), Later(1)>>)]

-----------------------------------------------------------------------------
(* Accounts read by a Reader: fields are added up where they share a fate. *)

CheckedKeys(n)  == Checked(32 * n)
CheckedWords(n) == Checked(8 * n)
CheckedU128s(n) == Checked(16 * n)

ClmmPoolHead == <<Checked(1), CheckedKeys(7), Checked(4), CheckedU128s(2), Checked(8), CheckedU128s(2)>>
ClmmPoolBody == <<CheckedWords(2), CheckedU128s(4), Checked(8)>>
ClmmReward == <<Checked(1), CheckedWords(3), Checked(16), CheckedWords(2), CheckedKeys(3), Checked(16)>>
ClmmPoolTail == <<CheckedWords(24), Checked(6), Checked(20), CheckedWords(1), Checked(46), CheckedWords(46)>>

ClmmTicks == Checked(60 * (4 + 7 * 16 + 3 * 8 + 16 + 3 * 4))

ClmmAccounts == [
  amm_config |-> Decoder({"ACCOUNT_RAYDIUM_CLMM_AMM_CONFIG"},
    <<Need(109), Checked(3), CheckedKeys(1), Checked(18), CheckedKeys(1), CheckedWords(3)>>),
  pool_state |-> Decoder({"ACCOUNT_RAYDIUM_CLMM_POOL_STATE"},
    <<Need(1536)>> \o ClmmPoolHead \o ClmmPoolBody \o ClmmReward \o ClmmReward \o ClmmReward \o ClmmPoolTail),
  tick_array_state |-> Decoder({"ACCOUNT_RAYDIUM_CLMM_TICK_ARRAY_STATE"},
    <<Need(10232), CheckedKeys(1), Checked(4), ClmmTicks, Checked(1), CheckedWords(1), Checked(107)>>)]

CpmmAccounts == [
  amm_config |-> Decoder({"ACCOUNT_RAYDIUM_CPMM_AMM_CONFIG"},
    <<Need(228), Checked(4), CheckedWords(4), CheckedKeys(2), CheckedWords(16)>>),
  pool_state |-> Decoder({"ACCOUNT_RAYDIUM_CPMM_POOL_STATE"},
    <<Need(629), CheckedKeys(10), Checked(5), CheckedWords(7), Checked(8), CheckedWords(30)>>)]

OrcaReward == <<CheckedKeys(3), CheckedU128s(2)>>
OrcaPositionReward == <<Checked(16), CheckedWords(1)>>
OrcaTicks == Checked(88 * (1 + 7 * 16))

OrcaPoolAccounts == [
  whirlpool |-> Decoder({"ACCOUNT_ORCA_WHIRLPOOL"},
    <<Need(645), CheckedKeys(1), Checked(9), CheckedU128s(2), Checked(4), CheckedWords(2), CheckedKeys(2),
      Checked(16), CheckedKeys(2), Checked(16), CheckedWords(1)>> \o OrcaReward \o OrcaReward \o OrcaReward),
  tick_array |-> Decoder({"ACCOUNT_ORCA_TICK_ARRAY"},
    <<Need(9980), Checked(4), OrcaTicks, CheckedKeys(1)>>)]

OrcaOtherAccounts == [
  position |-> Decoder({"ACCOUNT_ORCA_POSITION"},
    <<Need(208), CheckedKeys(2), Checked(16), Checked(8), Checked(16), CheckedWords(1), Checked(16),
      CheckedWords(1)>> \o OrcaPositionReward \o OrcaPositionReward \o OrcaPositionReward),
  fee_tier |-> Decoder({"ACCOUNT_ORCA_FEE_TIER"}, <<Need(36), CheckedKeys(1), Checked(4)>>),
  whirlpools_config |-> Decoder({"ACCOUNT_ORCA_WHIRLPOOLS_CONFIG"}, <<Need(98), CheckedKeys(3), Checked(2)>>)]

OrcaAccounts == Merge(OrcaPoolAccounts, OrcaOtherAccounts)

-----------------------------------------------------------------------------
(* Accounts that say what they are by their size or by their first bytes.   *)
(* An SPL Token account of at most 100 bytes is taken for a mint.           *)

MintSize == 100

Mint         == Decoder({"TOKEN_INFO"}, <<OneOf(1 .. MintSize), Skip(36), Words(1), Bytes(1)>>)
TokenAccount == Decoder({"TOKEN_ACCOUNT"}, <<Need(MintSize + 1), Skip(64), Words(1)>>)
Nonce        == Decoder({"NONCE_ACCOUNT"}, <<Skip(8), Pubs(2)>>)

-----------------------------------------------------------------------------
(* parse_liquidity_account: not of a dead or executable account.            *)

Snapshot(layout) == Decoder({"ACCOUNT_LIQUIDITY_SNAPSHOT"}, <<Refusal>> \o layout)

SnapshotDecoders == [
  launchlab |-> [
    snapshot_pool |-> Snapshot(<<Need(421), Skip(133), Pubs(4)>>),
    snapshot_global_config |-> Snapshot(<<Need(27)>>),
    snapshot_platform_config |-> Snapshot(<<Need(720)>>)],
  dlmm |-> [
    snapshot_pool |-> Snapshot(<<Need(896), Skip(68), Slice(4), Slice(2), Skip(6), Pubs(2)>>),
    snapshot_bin_array |-> Snapshot(<<Need(10128), Slice(8), Skip(8), Pubs(1)>>),
    snapshot_bitmap |-> Snapshot(<<Need(1568), Pubs(1)>>)],
  orca |-> [
    snapshot_tick_array |-> Snapshot(<<Need(140), Slice(4), Pubs(1), Slice(16), Ticks>>),
    snapshot_oracle |-> Snapshot(<<Need(246), Pubs(1)>>)],
  clmm |-> [snapshot_bitmap |-> Snapshot(<<Need(1824), Pubs(1)>>)]]

(* PumpFun and Pump Fees share their parser. *)
AccountDecoders == [
  pumpfun |-> PumpFunAccounts, pump_fees |-> PumpFunAccounts, pumpswap |-> PumpSwapAccounts,
  clmm |-> ClmmAccounts, cpmm |-> CpmmAccounts, orca |-> OrcaAccounts]
=============================================================================
