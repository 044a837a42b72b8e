------------------------------- MODULE LogScope -------------------------------
(***************************************************************************)
(* The log of a transaction. The runtime writes a line where a program is  *)
(* called and where it returns; lines of data do not say who wrote them.   *)
(* Three loops follow the calls through the lines: that of the parsers     *)
(* (grpc_client.py, rpc_parser.py), under whose top program a line of data *)
(* is decoded; detect_pumpfun_create_from_logs, which takes a line only if *)
(* it ends with the call; and log_outer_indices (trade_source.py), which   *)
(* finds the instruction of the message, and takes a line only if a single *)
(* word stands between "Program " and " invoke [1]".                       *)
(*                                                                         *)
(* The loops go line by line, so they keep step with the runtime here. A   *)
(* log has room for so many bytes: a line that does not fit is left out,   *)
(* and from then on every line of its length or longer. And the message of *)
(* a program, "Program log: ...", may read as a line of the runtime, of a  *)
(* program whose name begins with "log:": no real one.                     *)
(***************************************************************************)
EXTENDS Integers, Sequences, FiniteSetsExt

CONSTANTS
  Pump,        \* pump.fun
  Programs,    \* programs that are called
  Precompiles, \* of those, what the runtime does itself and does not log
  Quoted,      \* what a message that reads as a call is taken for, no program
  None,        \* no program, or no instruction
  Settings     \* families of transactions: their programs, calls, depth of
               \* calls, whether lines may be left out of the log and whether
               \* messages may read as lines of the runtime

ASSUME LogScopeAssumption ==
  /\ Precompiles \subseteq Programs /\ Pump \in Programs \ Precompiles
  /\ Quoted \notin Programs /\ None \notin Programs /\ None \notin Nat /\ Quoted # None
  /\ \A s \in Settings :
       s.programs \subseteq Programs /\ s.calls \in Nat /\ s.depth \in Nat
       /\ s.truncated \in BOOLEAN /\ s.messages \in BOOLEAN

VARIABLES
  setting,    \* one of Settings
  running,    \* the programs running, each called by the one before
  outers,     \* the programs of the message's instructions, so far
  calls,      \* calls so far
  room,       \* lines of this length do not fit any more
  active,     \* active_program_stack
  exact,      \* the stack of detect_pumpfun_create_from_logs
  created,    \* whether it found a creation
  begins,     \* the programs of the lines "invoke [1]"
  spoiled,    \* history: the loops misled since the runtime wrote the last of
              \* these lines, by a message; that of the parsers also by a call
              \* or return that is missing (what the others look for does not
              \* fit any more then)
  data        \* the lines of data in the log, and what is made of them

runtime == <<setting, running, outers, calls>>
scopes == <<active, exact, begins>>
vars == <<runtime, room, scopes, spoiled, created, data>>

(* Lengths of lines, as far as they differ: data of anything but a trade may be
   shorter than any call or return. Nothing is as long as Unlimited. *)
Lengths == [short |-> 1, success |-> 2, failed |-> 3, invoke |-> 3, data |-> 4]
Unlimited == 5

(* The loops, by what they keep. *)
Loops == {"active", "exact", "begins"}

Init ==
  /\ setting \in Settings
  /\ running = <<>> /\ outers = <<>> /\ calls = 0
  /\ room = Unlimited
  /\ active = <<>> /\ exact = <<>> /\ begins = <<>> /\ spoiled = {}
  /\ created = FALSE /\ data = <<>>

Fits(text) == Lengths[text] < room

(* The line is left out: for the first time of this length, or again. *)
LeftOut(text) ==
  \/ setting.truncated /\ Fits(text) /\ room' = Lengths[text]
  \/ ~ Fits(text) /\ UNCHANGED room

-----------------------------------------------------------------------------
\* The stacks.

Top(stack) == IF stack = <<>> THEN None ELSE stack[Len(stack)]

(* The depth says how much of the stack still runs. *)
Invoked(stack, p, depth) == Append(SubSeq(stack, 1, Min({depth - 1, Len(stack)})), p)

(* Mutant: the search begins at the bottom. *)
CompletedFirst(stack, p) ==
  LET at == {i \in DOMAIN stack : stack[i] = p}
  IN  IF at = {} THEN stack ELSE SubSeq(stack, 1, Min(at) - 1)

(* The topmost call of the program is over, and all above it. *)
Completed(stack, p) ==
  LET at == {i \in DOMAIN stack : stack[i] = p}
  IN  IF at = {} THEN stack ELSE SubSeq(stack, 1, Max(at) - 1)

-----------------------------------------------------------------------------
\* The transaction.

(* A signature is verified, or the like. *)
Precompile(p) ==
  /\ running = <<>> /\ calls < setting.calls
  /\ outers' = Append(outers, p)
  /\ calls' = calls + 1
  /\ UNCHANGED <<setting, running, room, scopes, spoiled, created, data>>

(* A program may call itself, but not one that waits for it. *)
Calls(p) ==
  /\ Len(running) < setting.depth /\ calls < setting.calls
  /\ \A i \in 1..Len(running) - 1 : running[i] # p
  /\ running' = Append(running, p)
  /\ outers' = IF running = <<>> THEN Append(outers, p) ELSE outers
  /\ calls' = calls + 1
  /\ UNCHANGED setting

Call(p) ==
  /\ Calls(p)
  /\ Fits("invoke")
  /\ active' = Invoked(active, p, Len(running'))
  /\ exact' = Invoked(exact, p, Len(running'))
  /\ begins' = IF running = <<>> THEN Append(begins, p) ELSE begins
  /\ spoiled' = IF running = <<>> THEN {} ELSE spoiled
  /\ UNCHANGED <<room, created, data>>

CallUnseen(p) ==
  /\ Calls(p) /\ LeftOut("invoke")
  /\ spoiled' = spoiled \cup {"active"}
  /\ UNCHANGED <<scopes, created, data>>

(* An instruction of the message that fails takes its transaction with it,
   and the log of that is not parsed. *)
Returns(text) ==
  /\ running # <<>>
  /\ text = "failed" => Len(running) > 1
  /\ running' = SubSeq(running, 1, Len(running) - 1)
  /\ UNCHANGED <<setting, outers, calls>>

Return(text) ==
  /\ Returns(text)
  /\ Fits(text)
  /\ active' = Completed(active, Top(running))
  /\ exact' = Completed(exact, Top(running))
  /\ UNCHANGED <<room, begins, spoiled, created, data>>

ReturnUnseen(text) ==
  /\ Returns(text) /\ LeftOut(text)
  /\ spoiled' = spoiled \cup {"active"}
  /\ UNCHANGED <<scopes, created, data>>

(* Which loops a message misleads that reads as a call: that of the parsers
   wherever the call stands in it, the detection if it ends the message, and
   log_outer_indices if the message is nothing but "invoke [1]". *)
Misleads == {{"active"}, {"active", "exact"}, Loops}

(* The last of these counts once up to the next instruction of the message:
   the outer index is lost with the first. *)
Quote(loops, depth) ==
  /\ setting.messages /\ running # <<>>
  /\ "begins" \in loops => depth = 1 /\ "begins" \notin spoiled
  /\ active' = Invoked(active, Quoted, depth)
  /\ exact' = IF "exact" \in loops THEN Invoked(exact, Quoted, depth) ELSE exact
  /\ begins' = IF "begins" \in loops THEN Append(begins, Quoted) ELSE begins
  /\ spoiled' = spoiled \cup loops
  /\ UNCHANGED <<runtime, room, created, data>>

(* A message that reads as the return of such a call, to the parsers, and, if
   " success" ends it or " failed: " follows, to the detection. *)
QuoteEnd(loops) ==
  /\ running # <<>>
  /\ Quoted \in {active[i] : i \in DOMAIN active} \cup {exact[i] : i \in DOMAIN exact}
  /\ active' = Completed(active, Quoted)
  /\ exact' = IF "exact" \in loops THEN Completed(exact, Quoted) ELSE exact
  /\ UNCHANGED <<runtime, room, begins, spoiled, created, data>>

(* Mutant: any call of pump.fun around the line will do. *)
FoundWithin(create) == create /\ Pump \in {exact[i] : i \in DOMAIN exact}

Found(create) == create /\ Top(exact) = Pump

(* A line of data, decoded as one of the program on top. *)
Tell(text, create) ==
  /\ running # <<>> /\ Fits(text)
  /\ created' = (created \/ Found(create))
  /\ data' = Append(data, [by |-> Top(running), text |-> text, create |-> create, outer |-> Len(outers),
                           scope |-> Top(active), begun |-> Len(begins), spoiled |-> spoiled])
  /\ UNCHANGED <<runtime, room, scopes, spoiled>>

TellUnseen(text) ==
  /\ running # <<>> /\ LeftOut(text)
  /\ UNCHANGED <<runtime, scopes, spoiled, created, data>>

Silent ==
  \/ \E p \in setting.programs \ Precompiles : Call(p) \/ CallUnseen(p)
  \/ \E p \in setting.programs \cap Precompiles : Precompile(p)
  \/ \E text \in {"success", "failed"} : Return(text) \/ ReturnUnseen(text)
  \/ \E loops \in Misleads, depth \in 1..setting.depth : Quote(loops, depth)
  \/ \E loops \in {{"active"}, {"active", "exact"}} : QuoteEnd(loops)

Next ==
  \/ Silent
  \/ \E text \in {"short", "data"} : TellUnseen(text) \/ Tell(text, FALSE)
  \/ Tell("data", TRUE)

Spec == Init /\ [][Next]_vars

-----------------------------------------------------------------------------
\* log_outer_indices, when the transaction is over.

Positions(p) == {i \in DOMAIN outers : outers[i] = p}
BeginsOf(p) == {i \in DOMAIN begins : begins[i] = p}

AllSeen(p) == Cardinality(BeginsOf(p)) = Cardinality(Positions(p))

(* Mutant: instructions are counted by their lines. *)
OuterCounted(d) == IF d.begun = 0 THEN None ELSE d.begun

(* The n-th line of a program is its n-th instruction, if none is missing. *)
OuterIndex(d) ==
  IF d.begun = 0 THEN None
  ELSE LET p == begins[d.begun]
           nth == Cardinality({i \in BeginsOf(p) : i <= d.begun})
       IN  IF AllSeen(p)
           THEN CHOOSE i \in Positions(p) : Cardinality({j \in Positions(p) : j <= i}) = nth
           ELSE None

-----------------------------------------------------------------------------
(* A line is decoded as one of the program that wrote it, whatever was
   called, returned or failed before. A call or return that is left out, or a
   message that reads as one, spoils it up to the next instruction of the
   message, and no further. *)
OwnScope == \A n \in DOMAIN data : "active" \notin data[n].spoiled => data[n].scope = data[n].by

(* The instruction named as the source of a trade is the one it was written
   under, or none, however much of the log is left out and whatever messages
   it holds. It is named if the whole log is there and its instruction wrote
   no message "invoke [1]" before. *)
OuterFound ==
  running = <<>> =>
    \A n \in {i \in DOMAIN data : data[i].text = "data"} :
      /\ OuterIndex(data[n]) \in {data[n].outer, None}
      /\ room = Unlimited /\ "begins" \notin data[n].spoiled => OuterIndex(data[n]) = data[n].outer

(* A creation is noticed if pump.fun wrote it, and nothing else is taken for
   one, however much of the log is left out: unless a message that ends as a
   call does came before it in the same instruction of the message. *)
CreateDetected ==
  /\ \A n \in DOMAIN data :
       data[n].create /\ data[n].by = Pump /\ "exact" \notin data[n].spoiled => created
  /\ created => \E n \in DOMAIN data : data[n].create /\ (data[n].by = Pump \/ "exact" \in data[n].spoiled)
=============================================================================
