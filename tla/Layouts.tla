------------------------------ MODULE Layouts ------------------------------
(***************************************************************************)
(* How a decoder of sol_parser reads its fields off a byte string: the      *)
(* readers of dex_parsers.py (_u64le, _pub, _borsh_str, _optional_u64, ...), *)
(* instructions.py and accounts/ with the guards written around them.       *)
(*                                                                         *)
(* A layout is the sequence of reads a decoder makes. Only the length of    *)
(* the data is known: a tag, a size, or a flag that may be refused, is any  *)
(* of its values, so reading a layout has a set of outcomes. A run of       *)
(* fields with one fate is one read of their total size.                    *)
(***************************************************************************)
EXTENDS Integers, Sequences, SequencesExt

CONSTANT StringSizes   (* bound: sizes of a string, beside those at the end of the data *)

ASSUME LayoutsAssumption == StringSizes \subseteq Nat

MaxItems == 64         (* vectors longer than this are refused *)

-----------------------------------------------------------------------------
(* Reads. Words are read by index or struct.unpack_from, which raise beyond *)
(* the end; slices are silently short there.                                *)

Item(read, size) == [read |-> read, size |-> size, times |-> 1, sizes |-> {}]

Bytes(n)  == Item("word", n)
Halves(n) == Item("word", 4 * n)
Words(n)  == Item("word", 8 * n)
Slice(n)  == Item("slice", n)
Pubs(n)   == Item("slice", 32 * n)
U128s(n)  == Item("slice", 16 * n)
Skip(n)   == Item("skip", n)

Need(n)       == Item("need", n)         (* refused with less than n bytes left *)
Sizes(S, n)   == [Item("sizes", n) EXCEPT !.sizes = S]   (* refused unless S or n and more are left *)
Exactly(n)    == Item("exactly", n)
OneOf(S)      == [Item("one_of", 0) EXCEPT !.sizes = S]
AtEnd         == Exactly(0)
EventIf(n)    == Item("event_if", n)     (* an older layout ends here *)

Checked(n) == Item("checked", n)         (* Reader._take: refused if it does not fit *)

Flag      == Item("flag", 1)             (* some values of the byte are refused *)
LaterFlag == Item("later_flag", 1)
Refusal   == Item("flag", 0)             (* a combination of fields is refused *)
Later(n)  == Item("later", n)            (* 0 beyond the end, but the cursor moves *)
Optional(n, times) == [Item("optional", n) EXCEPT !.times = times]  (* the cursor stays *)

TryString      == Item("try_string", 4)  (* struct.error is caught *)
LooseText      == Item("loose_text", 4)  (* refused unless UTF-8, fits or not *)
OptionalString == Item("optional_string", 4)
Text           == Item("text", 4)        (* refused unless it fits and is UTF-8 *)
Vector(n)         == Item("vector", n)
OptionalVector(n) == Item("optional_vector", n)
Option(n)       == Item("option", n)     (* any other tag is refused *)
LooseOption(n)  == Item("loose_option", n)   (* any other tag is "no" *)
Ticks           == Item("ticks", 112)    (* 88 flags, each of them with a tick or not *)

(* What a decoder returns, and what it reads. *)
Decoder(types, layout) == [types |-> types, layout |-> layout]

(* Two tables as one; of a key in both, the entry of the first counts. *)
Merge(f, g) == [d \in DOMAIN f \cup DOMAIN g |-> IF d \in DOMAIN f THEN f[d] ELSE g[d]]

-----------------------------------------------------------------------------
(* A reader: its cursor, whether it goes on, whether a field was missing,   *)
(* and what went wrong with the fields it has: cut off by the end of the    *)
(* data, or read from bytes of a missing field; or a Reader ran out of data. *)
Start == [at |-> 0, status |-> "reading", missing |-> FALSE, flaws |-> {}]

Stop(r, status) == [r EXCEPT !.status = status]
Missing(r) == [r EXCEPT !.missing = TRUE]
Move(r, n) == [r EXCEPT !.at = @ + n]

Take(r, n) == [Move(r, n) EXCEPT !.flaws = @ \cup (IF r.missing THEN {"shifted"} ELSE {})]
TakeCut(r, n) == [Take(r, n) EXCEPT !.flaws = @ \cup {"cut"}]

(* _borsh_str: the size is any u32. A slice beyond the end is short, and    *)
(* the cursor ends up behind the data.                                      *)
Strings(r, left) ==
  IF left < 4 THEN {Stop(r, "raised")}
  ELSE {Take(r, 4 + n) : n \in {k \in StringSizes \cup {left - 4} : k <= left - 4}}
       \cup {TakeCut(r, left + 1)}

(* read_pump_fees_shareholders_vec and its like, with a count before them. *)
Vectors(r, left, size) ==
  IF left < 4 THEN {Stop(r, "none")}
  ELSE {Stop(r, "none")}
       \cup {Take(r, 4 + k * size) : k \in {i \in 0 .. MaxItems : 4 + i * size <= left}}

(* A tag, and a block if it says so. *)
Options(r, left, size) ==
  IF left < 1 THEN {Stop(r, "raised")}
  ELSE {Take(r, 1), IF left >= 1 + size THEN Take(r, 1 + size) ELSE Stop(r, "none")}

(* Mutant: a field that is not there leaves the cursor where it was. *)
BeyondStaying(r, n) == Missing(r)

(* A field guarded by "if o + n <= len(data)" that is not there. *)
Beyond(r, n) == Missing(Move(r, n))

(* What a read makes of a reader of data of the given length. *)
After(item, r, length) ==
  LET left == length - r.at
      n    == item.size
      fits == left >= n
      none == Stop(r, "none")
  IN
  CASE item.read = "word"  -> {IF fits THEN Take(r, n) ELSE Stop(r, "raised")}
    [] item.read = "slice" -> {IF fits THEN Take(r, n) ELSE TakeCut(r, n)}
    [] item.read = "skip"  -> {Move(r, n)}
    [] item.read = "need"  -> {IF fits THEN r ELSE none}
    [] item.read = "sizes" -> {IF fits \/ left \in item.sizes THEN r ELSE none}
    [] item.read = "exactly" -> {IF left = n THEN r ELSE none}
    [] item.read = "one_of" -> {IF left \in item.sizes THEN r ELSE none}
    [] item.read = "checked" -> {IF fits THEN Take(r, n) ELSE [none EXCEPT !.flaws = {"lost"}]}
    [] item.read = "event_if" -> {IF left = n THEN Stop(Take(r, n), "event") ELSE r}
    [] item.read = "flag"  -> IF fits THEN {Take(r, n), none} ELSE {Stop(r, "raised")}
    [] item.read = "later_flag" -> IF fits THEN {Take(r, n), none} ELSE {Beyond(r, n)}
    [] item.read = "later" -> {IF fits THEN Take(r, n) ELSE Beyond(r, n)}
    [] item.read = "optional" ->
         LET there == {k \in 0 .. item.times : k * n <= left}
             taken == IF there = {} THEN 0 ELSE Max(there)
             read  == IF taken = 0 THEN r ELSE Take(r, taken * n)
         IN {IF taken = item.times THEN read ELSE Missing(read)}
    [] item.read = "try_string" ->
         {IF s.status = "raised" THEN none ELSE s : s \in Strings(r, left)}
    [] item.read = "loose_text" ->
         {none} \cup {IF s.status = "raised" THEN none ELSE s : s \in Strings(r, left)}
    [] item.read = "optional_string" -> IF fits THEN Strings(r, left) ELSE {Missing(r)}
    [] item.read = "text" -> {none} \cup {s \in Strings(r, left) : s.status = "reading" /\ s.at <= length}
    [] item.read = "vector" -> Vectors(r, left, n)
    [] item.read = "optional_vector" -> IF left < 4 THEN {Missing(r)} ELSE Vectors(r, left, n)
    [] item.read = "option" -> Options(r, left, n) \cup (IF left < 1 THEN {} ELSE {none})
    [] item.read = "loose_option" -> Options(r, left, n)
    [] item.read = "ticks" -> {none} \cup {Take(r, 88 + n * i) : i \in {k \in 0 .. 88 : 88 + n * k <= left}}

(* A guard in front of everything that is read returns early. *)
Refuses(guard, length) ==
  \/ guard.read = "need" /\ length < guard.size
  \/ guard.read = "exactly" /\ length # guard.size

(* The readers after the first k reads of a layout. *)
Readers(layout, length) ==
  LET after[k \in 0 .. Len(layout)] ==
        IF k = 0 THEN {Start}
        ELSE UNION {IF r.status = "reading" THEN After(layout[k], r, length) ELSE {r} : r \in after[k - 1]}
  IN after

(* How reading a layout may end: an event, none, or an exception. *)
Outcomes(layout, length) ==
  IF layout # <<>> /\ Refuses(layout[1], length) THEN {[is |-> "none", flaws |-> {}]}
  ELSE {[is |-> IF r.status = "reading" THEN "event" ELSE r.status, flaws |-> r.flaws] :
          r \in Readers(layout, length)[Len(layout)]}
=============================================================================
