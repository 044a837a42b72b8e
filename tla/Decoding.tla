------------------------------ MODULE Decoding ------------------------------
(***************************************************************************)
(* sol_parser decodes byte strings of five origins: "Program data" lines,   *)
(* top-level instructions, instructions that a program makes (an            *)
(* instruction of another program, or an event told by calling itself),     *)
(* instructions of shreds, and accounts. Each origin has its entry function, *)
(* its own dispatch and its own use of the filter; all share layouts, and   *)
(* logs and events decoders.                                                *)
(*                                                                         *)
(* One step parses one byte string of which is known its origin, its        *)
(* program, its discriminator and what each decoder that may be tried makes *)
(* of it.                                                                   *)
(***************************************************************************)
EXTENDS ShredDecoding, AccountDecoding

CONSTANTS
  MaxLength,    (* bound: length of the data of a line or an instruction *)
  FilterSize    (* bound: event types a filter names                     *)

ASSUME DecodingAssumption == MaxLength \in Nat /\ FilterSize \in Nat

Lengths == 0 .. MaxLength

VARIABLES
  input,     (* origin, program and discriminator; for a log line, program is "none" if *)
             (* not known and "other" if not of ours; "unknown" is an unused disc       *)
  filter,    (* event_type_filter                                                       *)
  contents,  (* what each decoder that may be tried makes of the data                   *)
  result     (* what was returned                                                       *)

vars == <<input, filter, contents, result>>

-----------------------------------------------------------------------------
(* Inputs *)

Inputs(origin, S) == {[origin |-> origin, program |-> x[1], disc |-> x[2]] : x \in S}

LogInputs ==
  Inputs("log",
    (UNION {{p} \X (DOMAIN ScopedDecoder[p] \cup {"unknown"}) : p \in Programs})
    \cup {"none", "other"} \X (Discs \cup {"unknown"}))

Instructions ==
  UNION {{p} \X (DOMAIN InstructionDecoders[p] \cup InnerInstructions[p] \cup {"unknown"}) :
           p \in DOMAIN InstructionDecoders}

Events == UNION {{p} \X DOMAIN ScopedDecoder[p] : p \in Programs}

AccountInputs == Inputs("account", UNION {{o} \X AccountDiscs(o) : o \in Owners})

InnerInputs == Inputs("inner", Instructions) \cup Inputs("prefixed", Events) \cup Inputs("suffixed", Events)

ShredInputs ==
  UNION {Inputs(form, Instructions \cup RawInstructions \cup {<<"other", "unknown">>}) : form \in ShredForms}

AllInputs ==
  LogInputs \cup Inputs("instruction", Instructions) \cup InnerInputs \cup ShredInputs \cup AccountInputs

(* The decoders that may be tried on an input, in their order. *)
LogAttempts(i) == [k \in DOMAIN Candidates(i.program, i.disc) |-> Decoders[Candidates(i.program, i.disc)[k]]]

Attempts(i) ==
  CASE i.origin = "log" -> LogAttempts(i)
    [] i.origin \in {"instruction", "inner"} -> CompiledDecoders(i.program, i.disc)
    [] i.origin \in {"prefixed", "suffixed"} -> EventDecoders(i.origin, i.program, i.disc)
    [] i.origin \in ShredForms -> ShredDecoders(i.program, i.disc)
    [] i.origin = "account" -> AccountCandidates(i.program, i.disc)

LengthsOf(i) ==
  IF i.origin # "account" THEN Lengths
  ELSE UNION {Landmarks(decoder.layout) : decoder \in Range(AccountCandidates(i.program, i.disc))}

-----------------------------------------------------------------------------
(* Contents: of data of one length, one result per decoder. *)

MakesOf(i, decoder, n) ==
  IF i.origin \in {"instruction", "inner"} THEN MakesOfAccounts(decoder, n) ELSE Makes(decoder, n)

(* The decoder of the instruction that an event is taken for comes first. *)
MayBeTaken(i) == i.origin = "suffixed" /\ TakenFor(i.program, i.disc) # "none"

Taken(i) == IF MayBeTaken(i) THEN CompiledDecoders(i.program, TakenFor(i.program, i.disc)) ELSE <<>>

Product(sets) ==
  {made \in [DOMAIN sets -> UNION Range(sets)] : \A k \in DOMAIN sets : made[k] \in sets[k]}

Contents(i) ==
  LET taken == Taken(i) tried == Attempts(i)
      Made(n) == IF i.origin \in ShredForms THEN MakesOfShred(tried, n)
                 ELSE Product([k \in DOMAIN taken |-> MakesOfAccounts(taken[k], n)]
                              \o [k \in DOMAIN tried |-> MakesOf(i, tried[k], n)])
  IN UNION {Made(n) : n \in LengthsOf(i)}

(* The types a filter may tell apart at an input, and one of another kind. *)
RelatedAttempts(i) ==
  IF i.origin = "log"
  THEN UNION {Range(LogAttempts([i EXCEPT !.program = p])) : p \in Programs \cup {"none"}}
  ELSE Range(Attempts(i)) \cup Range(Taken(i))

Related(i) ==
  LET types == UNION {decoder.types : decoder \in RelatedAttempts(i)}
      pumps == {F \in {TradeFamily \cup {"PUMP_FUN_TRADE"}, CreateFamily} : Meet(types, F)}
  IN types \cup (UNION pumps)
     \cup (IF i.origin = "log" /\ i.disc \in DOMAIN LogTypes THEN {LogTypes[i.disc]} ELSE {})
     \cup (IF i.origin = "log" /\ i.disc = "trade" THEN CreateFamily ELSE {})
     \cup (IF Meet(types, {"PUMP_SWAP_BUY", "PUMP_SWAP_SELL"}) THEN {"PUMP_SWAP_TRADE"} ELSE {})
     \cup {"BLOCK_META"}

Filters(i) ==
  {All} \cup [mode : {"only", "except"}, types : UNION {kSubset(k, Related(i)) : k \in 0 .. FilterSize}]

-----------------------------------------------------------------------------
Waiting == [Nothing EXCEPT !.is = "waiting"]

Init ==
  /\ input \in AllInputs
  /\ contents \in Contents(input)
  /\ filter \in Filters(input)
  /\ result = Waiting

Or(first, second) == IF first.is = "none" /\ second.is # "none" THEN second ELSE first

(* An instruction by a program is decoded as one, or as the event it may be. *)
ParsedInner(f, i, made) ==
  LET n == IF MayBeTaken(i) THEN 1 ELSE 0
      d == IF i.origin = "inner" THEN i.disc ELSE TakenFor(i.program, i.disc)
      compiled == IF i.origin = "inner" THEN made ELSE SubSeq(made, 1, n)
      events   == IF i.origin = "inner" THEN <<>> ELSE SubSeq(made, n + 1, Len(made))
  IN Or(IF MayParse(i.program, d) THEN ParsedInstruction(f, i.program, FirstOf(compiled)) ELSE Nothing,
        ParsedEvent(f, i.program, i.disc, FirstOf(events)))

Returns(f, i, made) ==
  CASE i.origin = "log"         -> Parsed(f, i.program, i.disc, made)
    [] i.origin = "instruction" -> ParsedInstruction(f, i.program, FirstOf(made))
    [] i.origin \in ShredForms  -> ParsedShred(f, i.origin, i.program, i.disc, made)
    [] i.origin = "account"     -> ParsedAccount(f, i.program, i.disc, FirstOf(made))
    [] OTHER -> ParsedInner(f, i, made)

Parse ==
  /\ result = Waiting
  /\ result' = Returns(filter, input, contents)
  /\ UNCHANGED <<input, filter, contents>>

Next == Parse

Spec == Init /\ [][Next]_vars

-----------------------------------------------------------------------------
(* Properties *)

(* Decoders whose length guard is shorter than what they read, or that read *)
(* strings or keys without one.                                             *)
Loose(i) ==
  CASE i.origin \in {"log", "prefixed", "suffixed"} ->
         i.disc \in {"trade", "orca_pool_init", "launchlab_pool_create"}
    [] i.origin \in {"instruction", "inner"} \cup ShredForms ->
         i.program = "pumpfun" /\ i.disc \in DOMAIN PumpFunCreates
    [] i.origin = "account" -> i.program = "token" \/ i.disc = "nonce"

(* Of every length of data, and of accounts of an instruction, a decoder    *)
(* makes an event of whole fields, read where they are, or none: it never   *)
(* raises, no field is cut off by the end of the data or read at the place  *)
(* of one that is not there, and no account that has the length of its kind *)
(* is lost on the way.                                                      *)
WithinData ==
  Loose(input) \/ (result.is # "raised" /\ result.flaws = {})

(* The type that the filter is asked about first is none or not that of the  *)
(* event, or the second filter of a pump trade applies: a list of buys and sells   *)
(* does not want trades of unknown direction, and a list of creations, buys *)
(* or sells beside all trades only gets what it names.                      *)
Misrouted(program, disc) ==
  \/ program = "other" /\ (disc = "trade" \/ disc \notin DOMAIN LogTypes)
  \/ disc = "damm_liquidity_change"
  \/ program \in {"none", "other"} /\ disc \in {"meteora_add", "meteora_remove"}
  \/ /\ program = "pumpfun" /\ disc = "trade"
     /\ IF "PUMP_FUN_TRADE" \in filter.types THEN Meet(filter.types, TradeFamily \cup CreateFamily)
        ELSE contents[1].type = "PUMP_FUN_TRADE"

(* A list of buys or sells does not want trades of unknown direction. *)
DirectionWanted == filter.mode = "only" /\ Meet(filter.types, TradeFamily)

(* In shreds the type of a trade is the one it was asked for. *)
AsAsked(r) == IF input.origin \in ShredForms THEN Renamed(filter, input.program, r) ELSE r

(* Asking the filter before decoding changes nothing: with a filter the      *)
(* result is what it is without one if the filter includes its type, and    *)
(* nothing otherwise. Not so, and left out: lines whose type is announced   *)
(* wrongly or that have a second filter (Misrouted), trades of shreds under *)
(* a list of buys or sells, and events that may be taken for instructions.  *)
PrefilterSound ==
  LET Told(unfiltered) ==
        IF unfiltered.is = "event" /\ ShouldInclude(filter, unfiltered.type)
        THEN result = AsAsked(unfiltered)
        ELSE result.is # "event"
  IN \/ result = Waiting
     \/ input.origin = "log" /\ Misrouted(input.program, input.disc)
     \/ input.origin \in ShredForms /\ IsRaw(input.program, input.disc) /\ DirectionWanted
     \/ MayBeTaken(input)
     \/ Told(Returns(All, input, contents))

(* Instructions that are only decoded at the top level. *)
OnlyOuter(p, d) ==
  \/ p = "damm_v2" /\ d # "init"
  \/ p = "launchlab" /\ d \in {"trade", "pool_create", "migrate_to_amm", "migrate_to_cpswap"}

AsOuter == ParsedInstruction(filter, input.program, FirstOf(contents))

(* The list of instructions that are decoded when a program makes them is    *)
(* kept apart from the decoders: but for the ones above, such a call is told *)
(* as a top-level instruction of the same bytes, accounts and filter is.    *)
InnerLikeOuter(outer) ==
  input.origin = "inner"
  => result = IF OnlyOuter(input.program, input.disc) THEN Nothing ELSE outer

ShortlyTold == IsShort(input.program, input.disc) /\ contents[2] # Nothing

(* A shred is told as it will be when it has run, under any filter: as its   *)
(* instruction is, unless that refuses it for its few accounts; or not at    *)
(* all, if an account is not known and it is not pump.fun's.                *)
ShredLikeOuter(outer) ==
  /\ input.origin \in ShredForms
  /\ ~ IsRaw(input.program, input.disc) /\ ~ ShortlyTold
  => result = IF input.origin = "unresolved" /\ input.program # "pumpfun" THEN Nothing ELSE AsAsked(outer)

LikeOuter == result # Waiting => InnerLikeOuter(AsOuter) /\ ShredLikeOuter(AsOuter)

(* EvtLiquidityChange is an AddLiquidity or a RemoveLiquidity by its          *)
(* change_type: who subscribes to removals alone gets those.                 *)
RemovalsRouted ==
  \/ result = Waiting
  \/ filter # [mode |-> "only", types |-> {"METEORA_DAMM_V2_REMOVE_LIQUIDITY"}]
  \/ input # [origin |-> "log", program |-> "damm_v2", disc |-> "damm_liquidity_change"]
  \/ contents[1].type = "METEORA_DAMM_V2_REMOVE_LIQUIDITY" => result = contents[1]
=============================================================================
