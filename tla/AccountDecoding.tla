-------------------------- MODULE AccountDecoding --------------------------
(***************************************************************************)
(* The operators of parse_account_unified (sol_parser/accounts/__init__.py): *)
(* what the data of an account is read as, and the filter around it.        *)
(***************************************************************************)
EXTENDS LogDecoding, AccountLayouts

(* Owners beside the programs with decoders: an SPL Token program, and any  *)
(* other program, whose account may be a nonce.                             *)
Owners == DOMAIN AccountDecoders \cup DOMAIN SnapshotDecoders \cup {"token", "system"}

IsSnapshot(owner, d) == owner \in DOMAIN SnapshotDecoders /\ d \in DOMAIN SnapshotDecoders[owner]

(* The decoders tried, by owner and discriminator. *)
AccountCandidates(owner, d) ==
  IF IsSnapshot(owner, d) THEN <<SnapshotDecoders[owner][d]>>
  ELSE IF owner \in DOMAIN AccountDecoders
  THEN IF d \in DOMAIN AccountDecoders[owner] THEN <<AccountDecoders[owner][d]>> ELSE <<>>
  ELSE IF d = "nonce" THEN <<Nonce>>
  ELSE IF owner = "token" THEN <<Mint, TokenAccount>> ELSE <<>>

AccountDiscs(owner) ==
  {"unknown"}
  \cup (IF owner \in DOMAIN SnapshotDecoders THEN DOMAIN SnapshotDecoders[owner] ELSE {})
  \cup (IF owner \in DOMAIN AccountDecoders THEN DOMAIN AccountDecoders[owner] ELSE {"nonce"})

TypesOf(decoders) == UNION {decoders[d].types : d \in DOMAIN decoders}

(* ACCOUNT_EVENT_TYPES: without snapshots *)
AccountEventTypes ==
  Mint.types \cup TokenAccount.types \cup Nonce.types
  \cup UNION {TypesOf(AccountDecoders[p]) : p \in DOMAIN AccountDecoders}

(* Is the account decoded at all, if it is no snapshot? *)
WantsAccount(f, owner, d) ==
  /\ f.mode = "only" => f.types = {} \/ Meet(f.types, AccountEventTypes)
  /\ CASE owner \in DOMAIN AccountDecoders -> \E t \in TypesOf(AccountDecoders[owner]) : ShouldInclude(f, t)
       [] d = "nonce" -> ShouldInclude(f, "NONCE_ACCOUNT")
       [] OTHER -> ShouldInclude(f, "TOKEN_ACCOUNT") \/ ShouldInclude(f, "TOKEN_INFO")

ParsedAccount(f, owner, d, made) ==
  IF IsSnapshot(owner, d)
  THEN IF ShouldInclude(f, "ACCOUNT_LIQUIDITY_SNAPSHOT") THEN made ELSE Nothing
  ELSE IF ~WantsAccount(f, owner, d) THEN Nothing
  ELSE IF d = "nonce" THEN made
  ELSE Applied(f, made)

-----------------------------------------------------------------------------
(* Where a read starts or ends, and where an account may end: around these. *)
Edges(layout) ==
  LET Pass(marks, item) ==
        LET at == IF item.read \in {"need", "sizes", "exactly", "one_of", "event_if"} THEN marks.at
                  ELSE marks.at + item.size
            ends == {marks.at + n : n \in {item.size} \cup item.sizes} \cup {at}
        IN [at |-> at, ends |-> marks.ends \cup ends]
  IN FoldLeft(Pass, [at |-> 0, ends |-> {1}], layout).ends

Landmarks(layout) == {n + i : n \in Edges(layout), i \in {-1, 0, 1}} \cap Nat
=============================================================================
