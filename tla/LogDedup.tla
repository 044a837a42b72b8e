------------------------------- MODULE LogDedup -------------------------------
(***************************************************************************)
(* dedupe_log_instruction_events (sol_parser/log_instr_dedup.py): what an   *)
(* invocation did is seen in the logs, in its instruction, or in both. The  *)
(* two lists are joined by key; invocations with one key are paired by      *)
(* their ordinal. Logs may be truncated and instructions not decoded, so    *)
(* either event of an invocation may be missing.                            *)
(*                                                                         *)
(* TransactionLogs makes the two lists; Deduplicated is what the function   *)
(* returns for them. The number inv of the invocation is not visible to the *)
(* code. What merging fills in is left out, but not which event takes in    *)
(* which.                                                                   *)
(***************************************************************************)
EXTENDS Integers, Sequences, FiniteSetsExt

VARIABLES
  invocations,   (* history: what was invoked, and in which events it shows  *)
  logs,          (* log_events                                               *)
  instructions   (* instruction_events                                       *)

lists == <<invocations, logs, instructions>>

(* Trades, swaps and liquidity of a program have keys, a creation has the key *)
(* of its mint; DBC swaps and the rest have none.                            *)
Kinds == {"trade", "create", "liquidity", "dbc", "keyless"}

(* A DBC swap emits two events of itself, which are decoded as instructions. *)
Sources(k) == IF k = "dbc" THEN {"old", "current"} ELSE {"log", "ix"}

NoEvents ==
  /\ invocations = <<>>
  /\ logs = <<>>
  /\ instructions = <<>>

(* A mint is created once and traded after.                                  *)
MayHappen(k, s) ==
  k = "create" => \A i \in DOMAIN invocations :
                    invocations[i].subject = s => invocations[i].kind \notin {"create", "trade"}

Invoke(k, s, seen) ==
  LET Seen(source) ==
        IF source \in seen
        THEN <<[kind |-> k, subject |-> s, source |-> source, inv |-> Len(invocations) + 1]>>
        ELSE <<>>
  IN
  /\ MayHappen(k, s)
  /\ invocations' = Append(invocations, [kind |-> k, subject |-> s, seen |-> seen])
  /\ logs' = logs \o Seen("log")
  /\ instructions' = instructions \o Seen("ix") \o Seen("old") \o Seen("current")

-----------------------------------------------------------------------------
(* Keys *)

(* Trades and swaps are numbered; kinds without a key are never matched.     *)
Counted(e) == e.kind = "trade"

(* Mutant: creates have no key. *)
KeyedWithoutCreates(e) == e.kind \in {"trade", "liquidity"}

Keyed(e) == e.kind \in {"trade", "create", "liquidity"}

Same(e, f) == e.kind = f.kind /\ e.subject = f.subject

(* _next_occurrence *)
Ordinal(events, i) ==
  IF Counted(events[i]) THEN Cardinality({j \in 1 .. i - 1 : Same(events[j], events[i])}) ELSE 0

SameKey(events, i, others, j) ==
  /\ Keyed(events[i])
  /\ Same(events[i], others[j])
  /\ Ordinal(events, i) = Ordinal(others, j)

Occurrences(events, e) == Cardinality({j \in DOMAIN events : Same(events[j], e)})

(* Mutant: ordinals are paired as far as they go. *)
AmbiguousNever(e) == FALSE

(* An invocation is missing on one side: ordinals say nothing.               *)
Ambiguous(e) == Counted(e) /\ Occurrences(logs, e) # Occurrences(instructions, e)

-----------------------------------------------------------------------------
(* Matching *)

(* The numbers in a set, the smallest first.                                 *)
Ascending(S) == [n \in 1 .. Cardinality(S) |-> CHOOSE i \in S : Cardinality({j \in S : j < i}) = n - 1]

(* The log event the i-th instruction event is merged into: the last one of  *)
(* its key, or none.                                                         *)
LogsFor(i) ==
  IF Ambiguous(instructions[i]) THEN {} ELSE {l \in DOMAIN logs : SameKey(instructions, i, logs, l)}

(* Without one, the first instruction event of the key stands for them all.  *)
StandsFor(i) ==
  IF Keyed(instructions[i])
  THEN Min({j \in 1 .. i : SameKey(instructions, i, instructions, j)})
  ELSE i

(* An output event, and the invocations whose instruction events it took in. *)
FromLog(l) ==
  [event |-> logs[l],
   took  |-> {instructions[i].inv :
                i \in {j \in DOMAIN instructions : LogsFor(j) # {} /\ Max(LogsFor(j)) = l}}]

FromInstruction(i) ==
  [event |-> instructions[i],
   took  |-> {instructions[j].inv :
                j \in {k \in i + 1 .. Len(instructions) : LogsFor(k) = {} /\ StandsFor(k) = i}}]

Matched ==
  LET alone == Ascending({i \in DOMAIN instructions : LogsFor(i) = {} /\ StandsFor(i) = i})
  IN [l \in 1 .. Len(logs) |-> FromLog(l)] \o [n \in 1 .. Len(alone) |-> FromInstruction(alone[n])]

-----------------------------------------------------------------------------
(* Order: a create goes before the first trade of its mint.                  *)

EarlierTrades(out, i) ==
  {j \in 1 .. i - 1 : out[j].event.kind = "trade" /\ out[j].event.subject = out[i].event.subject}

Moved(out, from, to) ==
  [n \in DOMAIN out |-> IF n < to \/ n > from THEN out[n]
                        ELSE IF n = to THEN out[from] ELSE out[n - 1]]

MoveCreate(out, i) ==
  IF out[i].event.kind = "create" /\ EarlierTrades(out, i) # {}
  THEN Moved(out, i, Min(EarlierTrades(out, i)))
  ELSE out

(* Mutant: the events of the logs are taken to be in order. *)
CreatesStay(out) == out

CreatesFirst(out) ==
  LET moved[n \in 0 .. Len(out)] == IF n = 0 THEN out ELSE MoveCreate(moved[n - 1], n)
  IN  moved[Len(out)]

-----------------------------------------------------------------------------
(* DBC: the current event of a swap takes the place of the old one.          *)

Versions(out, s, source) ==
  Ascending({n \in DOMAIN out : /\ out[n].event.kind = "dbc"
                                /\ out[n].event.subject = s
                                /\ out[n].event.source = source})

Paired(out, n) ==
  LET s == out[n].event.subject IN
  /\ out[n].event.kind = "dbc"
  /\ Len(Versions(out, s, "old")) = Len(Versions(out, s, "current"))

CurrentOf(out, n) ==
  LET s   == out[n].event.subject
      old == Versions(out, s, "old")
  IN Versions(out, s, "current")[CHOOSE k \in 1 .. Len(old) : old[k] = n]

PreferCurrent(out) ==
  LET Dropped(n)  == Paired(out, n) /\ out[n].event.source = "current"
      Replaced(n) == Paired(out, n) /\ out[n].event.source = "old"
      kept        == Ascending({n \in DOMAIN out : ~ Dropped(n)})
  IN [m \in DOMAIN kept |->
        IF Replaced(kept[m]) THEN out[CurrentOf(out, kept[m])] ELSE out[kept[m]]]

Deduplicated == PreferCurrent(CreatesFirst(Matched))

-----------------------------------------------------------------------------
(* Properties *)

Invocations(k, s) ==
  {i \in DOMAIN invocations : invocations[i].kind = k /\ invocations[i].subject = s}

(* Liquidity is added twice to a pool by a user: the key takes them for one. *)
TakenForOne(k, s) == k = "liquidity" /\ Cardinality(Invocations(k, s)) > 1

(* Of one kind and subject, one side at least has events of all invocations. *)
OneSideComplete(k, s) ==
  \E source \in Sources(k) : \A i \in Invocations(k, s) : source \in invocations[i].seen

(* An event takes in its own instruction only, if not both sides miss some:  *)
(* a trade never shows the accounts of another trade of the transaction.     *)
OwnCounterpart ==
  LET out == Deduplicated IN
  \A n \in DOMAIN out :
    LET d == out[n] IN
    OneSideComplete(d.event.kind, d.event.subject) /\ ~ TakenForOne(d.event.kind, d.event.subject) =>
      d.took \subseteq {d.event.inv}

(* If one source has events of all invocations of a kind about a subject, no *)
(* two of them taken for one, the consumer is told of each that was seen; of *)
(* each once, if every source has all of them and the kind has a key.        *)
ToldOnce ==
  LET out == Deduplicated IN
  \A i \in DOMAIN invocations :
    LET k == invocations[i].kind
        s == invocations[i].subject
        told == {n \in DOMAIN out : out[n].event.inv = i}
    IN invocations[i].seen # {} /\ ~ TakenForOne(k, s) /\ OneSideComplete(k, s) =>
         /\ told # {}
         /\ (\A j \in Invocations(k, s) : invocations[j].seen = Sources(k)) /\ k # "keyless" =>
              Cardinality(told) = 1

(* A mint is created before it is traded, and trades that are in the logs    *)
(* stay in the order of the logs.                                            *)
ToldInOrder ==
  LET out == Deduplicated IN
  \A m, n \in DOMAIN out :
    LET d == out[m].event
        e == out[n].event
    IN m < n => /\ ~ (d.kind = "trade" /\ e.kind = "create" /\ d.subject = e.subject)
                /\ d.kind = "trade" /\ d.source = "log" /\ e.kind = "trade" /\ e.source = "log" =>
                     d.inv < e.inv
=============================================================================
