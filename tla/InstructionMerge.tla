--------------------------- MODULE InstructionMerge ---------------------------
(***************************************************************************)
(* merge_instruction_events (sol_parser/grpc_instruction_parser.py): the    *)
(* instructions of a transaction decode to two events per trade, one from   *)
(* the call (accounts and limits) and one from the event that the program   *)
(* emits by calling itself (what was executed). They are joined again by    *)
(* outer index, stack height and the order of invocation alone.             *)
(*                                                                         *)
(* The loop takes the events in the order of (outer, inner) index, which is *)
(* the order of invocation. Here the transaction runs and the loop takes    *)
(* each event as it is emitted: running is the call stack of the runtime,   *)
(* which the code does not see.                                             *)
(***************************************************************************)
EXTENDS Integers, Sequences, FiniteSets, FiniteSetsExt, Functions

CONSTANTS
  Programs,         (* those decoded, by how their events are merged:        *)
                    (* "pumpfun", "pumpswap", "dlmm", "plain" (any other),   *)
                    (* "lone" (of no merged type); "router": not decoded     *)
  Identities,       (* what try_merge_dex_events compares: venue, user and   *)
                    (* direction of a pump trade, the type of other events   *)
  HeightsReported,  (* whether inner instructions have their stack_height    *)
  MaxCalls,         (* bound: instructions of the transaction                *)
  MaxDepth          (* bound: nesting of calls                               *)

ASSUME InstructionMergeAssumption ==
  /\ Programs \subseteq {"pumpfun", "pumpswap", "dlmm", "plain", "lone", "router"}
  /\ HeightsReported \subseteq BOOLEAN
  /\ MaxCalls \in Nat
  /\ MaxDepth \in Nat

VARIABLES
  heights,      (* this transaction's stack heights are reported             *)
  running,      (* the runtime's stack: numbers of the calls that run        *)
  calls,        (* history: the calls, in order of invocation                *)
  outer,        (* index of the outer instruction that runs, or ran last     *)
  result,       (* result: the events so far                                 *)
  outerTarget,  (* outer_target                                              *)
  pumpTargets,  (* pump_targets                                              *)
  dlmmTargets   (* dlmm_targets                                              *)

runtime == <<heights, running, calls, outer>>
merger  == <<result, outerTarget, pumpTargets, dlmmTargets>>
vars    == <<runtime, merger>>

Trades == {"pumpfun", "pumpswap"}

Unknown == 0
None    == 0

Call == [program : Programs, identity : Identities, inner : BOOLEAN, decoded : BOOLEAN,
         emitted : BOOLEAN]

(* call and execution are the numbers of the calls an event stems from. *)
Event == [program : Programs, identity : Identities, call : 0 .. MaxCalls,
          execution : 0 .. MaxCalls]

Target == [outer : Nat, height : 0 .. MaxDepth, at : Nat \ {0}, used : BOOLEAN]

Init ==
  /\ heights \in HeightsReported
  /\ running = <<>>
  /\ calls = <<>>
  /\ outer = 0
  /\ result = <<>>
  /\ outerTarget = [outer |-> 0, at |-> 0]
  /\ pumpTargets = <<>>
  /\ dlmmTargets = <<>>

-----------------------------------------------------------------------------
(* The loop *)

(* try_merge_dex_events finds the events to be of one kind, and that one to  *)
(* be merged: GENERIC_MERGE_TYPES lacks some.                                *)
Compatible(base, inner) ==
  /\ base.program = inner.program
  /\ base.identity = inner.identity
  /\ base.program # "lone"

NewTarget(o, h) == [outer |-> o, height |-> h, at |-> Len(result) + 1, used |-> FALSE]

Latest(ns) == Max(ns \cup {0})

(* The targets that a call at height h may be nested in. Outer targets have  *)
(* height 1 even if heights are not reported.                                *)
OpenAbove(targets, h) ==
  IF h = Unknown THEN <<>>
  ELSE SubSeq(targets, 1, Latest({n \in DOMAIN targets :
                                    /\ targets[n].outer = outer
                                    /\ targets[n].height = Unknown \/ targets[n].height < h}))

(* Mutant: any call of the same outer instruction. *)
CallersInOuter(targets, h) == {n \in DOMAIN targets : targets[n].outer = outer}

(* The targets an event at height h may be a direct child of. *)
Callers(targets, h) ==
  {n \in DOMAIN targets :
     /\ targets[n].outer = outer
     /\ \/ targets[n].height = Unknown
        \/ h = Unknown
        \/ h = targets[n].height + 1}

MergedInto(n, e) == [result EXCEPT ![n].execution = e.execution]

TakeOuter(e, o) ==
  /\ result' = Append(result, e)
  /\ outerTarget' = [outer |-> o, at |-> Len(result) + 1]
  /\ pumpTargets' = IF e.program \in Trades THEN <<NewTarget(o, 1)>> ELSE <<>>
  /\ dlmmTargets' = IF e.program = "dlmm" THEN <<NewTarget(o, 1)>> ELSE <<>>

TakeTradeCall(e, h) ==
  /\ result' = Append(result, e)
  /\ pumpTargets' = Append(OpenAbove(pumpTargets, h), NewTarget(outer, h))
  /\ UNCHANGED <<outerTarget, dlmmTargets>>

(* Mutant: a target takes every execution that fits. *)
TakeTradeExecutionAgain(e, h) ==
  LET n == Latest(Callers(pumpTargets, h)) IN
  /\ result' = IF n # 0 /\ Compatible(result[pumpTargets[n].at], e)
               THEN MergedInto(pumpTargets[n].at, e)
               ELSE Append(result, e)
  /\ UNCHANGED <<outerTarget, pumpTargets, dlmmTargets>>

(* The latest caller takes the first execution only, if it is its own kind. *)
TakeTradeExecution(e, h) ==
  LET n == Latest(Callers(pumpTargets, h)) IN
  /\ result' = IF n # 0 /\ ~ pumpTargets[n].used /\ Compatible(result[pumpTargets[n].at], e)
               THEN MergedInto(pumpTargets[n].at, e)
               ELSE Append(result, e)
  /\ pumpTargets' = IF n = 0 THEN pumpTargets ELSE [pumpTargets EXCEPT ![n].used = TRUE]
  /\ UNCHANGED <<outerTarget, dlmmTargets>>

(* Callers are tried from the latest on; those after the last tried go.     *)
TakeDlmmExecution(e, h) ==
  LET callers == Callers(dlmmTargets, h)
      fitting == {n \in callers : Compatible(result[dlmmTargets[n].at], e)}
  IN
  /\ result' = IF fitting = {} THEN Append(result, e)
               ELSE MergedInto(dlmmTargets[Max(fitting)].at, e)
  /\ dlmmTargets' = IF callers = {} THEN dlmmTargets
                    ELSE SubSeq(dlmmTargets, 1, IF fitting = {} THEN Min(callers) ELSE Max(fitting))
  /\ UNCHANGED <<outerTarget, pumpTargets>>

OuterTakes(e) ==
  /\ outerTarget.outer = outer
  /\ outerTarget.at # 0
  /\ Compatible(result[outerTarget.at], e)

(* Any other inner event goes to the outer event if it can. *)
TakeOther(e, h) ==
  /\ result' = IF OuterTakes(e) THEN MergedInto(outerTarget.at, e) ELSE Append(result, e)
  /\ dlmmTargets' =
       IF e.program # "dlmm" THEN dlmmTargets
       ELSE Append(OpenAbove(dlmmTargets, h),
                   [NewTarget(outer, h) EXCEPT
                      !.at = IF OuterTakes(e) THEN outerTarget.at ELSE Len(result) + 1])
  /\ UNCHANGED <<outerTarget, pumpTargets>>

-----------------------------------------------------------------------------
(* The transaction. A call that is not decoded has an unknown discriminator; *)
(* the events that programs emit are decoded. Heights count from 1.          *)

Height == IF heights THEN Len(running) + 1 ELSE Unknown

Running(p) == \E i \in DOMAIN running : calls[running[i]].program = p

(* A program may not be entered again while it runs, but by itself, which    *)
(* those decoded do to emit events only; there are many routers.             *)
Invoke(p, id, decoded) ==
  /\ Len(calls) < MaxCalls
  /\ Len(running) < MaxDepth
  /\ p = "router" \/ ~ Running(p)
  /\ calls' = Append(calls, [program |-> p, identity |-> id, inner |-> running # <<>>,
                             decoded |-> decoded, emitted |-> FALSE])
  /\ running' = Append(running, Len(calls) + 1)
  /\ outer' = IF running = <<>> THEN outer + 1 ELSE outer
  /\ UNCHANGED heights

CallEvent(p, id) == [program |-> p, identity |-> id, call |-> Len(calls) + 1, execution |-> None]

CallUndecoded(p, id) ==
  /\ Invoke(p, id, FALSE)
  /\ UNCHANGED merger

CallOuter(p, id) ==
  /\ running = <<>>
  /\ p # "router"
  /\ Invoke(p, id, TRUE)
  /\ TakeOuter(CallEvent(p, id), outer + 1)

(* normal_instruction_data_may_parse lets inner calls of every program be    *)
(* decoded, if not all of each.                                              *)
CallInner(p, id) ==
  /\ running # <<>>
  /\ p # "router"
  /\ Invoke(p, id, TRUE)
  /\ IF p \in Trades THEN TakeTradeCall(CallEvent(p, id), Height)
     ELSE TakeOther(CallEvent(p, id), Height)

(* The program at the top of the stack emits the event of its execution. *)
Emit ==
  LET i == running[Len(running)]
      e == [program |-> calls[i].program, identity |-> calls[i].identity,
            call |-> None, execution |-> i]
  IN
  /\ running # <<>>
  /\ calls[i].program # "router"
  /\ ~ calls[i].emitted
  /\ calls' = [calls EXCEPT ![i].emitted = TRUE]
  /\ UNCHANGED <<heights, running, outer>>
  /\ IF e.program \in Trades THEN TakeTradeExecution(e, Height)
     ELSE IF e.program = "dlmm" THEN TakeDlmmExecution(e, Height)
     ELSE TakeOther(e, Height)

Return ==
  LET i == running[Len(running)] IN
  /\ running # <<>>
  /\ calls[i].emitted \/ calls[i].program = "router"
  /\ running' = SubSeq(running, 1, Len(running) - 1)
  /\ UNCHANGED <<heights, calls, outer, merger>>

Next ==
  \/ \E p \in Programs, id \in Identities : CallUndecoded(p, id) \/ CallOuter(p, id) \/ CallInner(p, id)
  \/ Emit
  \/ Return

Spec == Init /\ [][Next]_vars

-----------------------------------------------------------------------------
(* Properties *)

AllDecoded(p) == \A i \in DOMAIN calls : calls[i].program = p => calls[i].decoded

(* The events of a program can be told apart, whatever else the transaction  *)
(* does: those of DLMM if every call of it is decoded, others always.        *)
Separable(p) == p = "dlmm" => AllDecoded(p)

(* The event of a call waits for that of its execution: trades and DLMM      *)
(* calls have targets, with stack heights; of the other programs only the    *)
(* outermost call has, if its type is merged.                                *)
Awaited(i) ==
  /\ calls[i].decoded
  /\ \/ calls[i].program \in Trades \cup {"dlmm"} /\ heights
     \/ calls[i].program = "plain" /\ ~ calls[i].inner

(* No event shows the accounts of one call and the execution of another,     *)
(* however calls nest and whichever of them could not be decoded.            *)
OwnExecution ==
  \A n \in DOMAIN result :
    LET r == result[n] IN
    r.call # None /\ r.execution # None /\ Separable(r.program) => r.execution = r.call

(* Every execution is in the result, once; and with its call, if the event   *)
(* of that waits for it.                                                     *)
ExecutedOnce ==
  \A i \in DOMAIN calls :
    calls[i].emitted /\ Separable(calls[i].program) =>
      \E n \in DOMAIN result :
        /\ \A m \in DOMAIN result : result[m].execution = i <=> m = n
        /\ Awaited(i) => result[n].call = i

(* try_merge_dex_events (merger.py) says that unmatched events are retained. *)
UnmatchedRetained ==
  \A i \in DOMAIN calls :
    calls[i].emitted => \E n \in DOMAIN result : result[n].execution = i
=============================================================================
