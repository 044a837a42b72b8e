------------------------------ MODULE DexQueue -------------------------------
(***************************************************************************)
(* DexEventQueue (sol_parser/grpc_client.py): the bounded queue a DEX       *)
(* subscription hands its consumer, with its feed of states, its status and *)
(* its errors. Events and errors are counted: nothing here tells them apart.*)
(***************************************************************************)
EXTENDS Naturals, Sequences

CONSTANT QueueSize  (* maxsize: config.buffer_size, at least 1 *)

ASSUME DexQueueAssumption == QueueSize \in Nat \ {0}

States == {"connecting", "connected", "reconnecting", "stopped"}

Status == [state : States, broken : BOOLEAN, reconnects : Nat, dropped : Nat]

FirstStatus == [state |-> "connecting", broken |-> FALSE, reconnects |-> 0, dropped |-> 0]

Queue == [events : 0 .. QueueSize, errors : 0 .. QueueSize, states : Seq(Status),
          status : Status]

NewQueue == [events |-> 0, errors |-> 0, states |-> <<FirstStatus>>, status |-> FirstStatus]

(* A full feed makes room by forgetting its oldest entry. *)
Room(states) == IF Len(states) = QueueSize THEN Tail(states) ELSE states

(* Mutant: a full feed does not hear of the newest status. *)
WithStatusUnheard(q, s) ==
  IF s = q.status \/ Len(q.states) = QueueSize THEN [q EXCEPT !.status = s]
  ELSE [q EXCEPT !.status = s, !.states = Append(@, s)]

(* transition: the feed hears of a status only when it differs. *)
WithStatus(q, s) ==
  IF s = q.status THEN q
  ELSE [q EXCEPT !.status = s, !.states = Append(Room(@), s)]

Transition(q, state) == WithStatus(q, [q.status EXCEPT !.state = state])

Reconnecting(q) ==
  WithStatus(q, [q.status EXCEPT !.state = "reconnecting", !.broken = TRUE,
                                 !.reconnects = @ + 1])

Stopped(q) == WithStatus(q, [q.status EXCEPT !.state = "stopped", !.broken = TRUE])

Overflow(q) == WithStatus(q, [q.status EXCEPT !.broken = TRUE, !.dropped = @ + 1])

(* report_error keeps the newest errors. *)
ReportError(q) == [q EXCEPT !.errors = IF @ = QueueSize THEN @ ELSE @ + 1]

(* Mutant: a full queue drops the event and tells nobody. *)
PutEventSilently(q) == IF q.events < QueueSize THEN [q EXCEPT !.events = @ + 1] ELSE q

(* _queue_event_nowait keeps the oldest events: a new one is dropped. *)
PutEvent(q) ==
  IF q.events < QueueSize THEN [q EXCEPT !.events = @ + 1] ELSE Overflow(q)

(* k events offered in turn. *)
PutEvents(q, k) ==
  LET after[n \in 0 .. k] == IF n = 0 THEN q ELSE PutEvent(after[n - 1]) IN after[k]
=============================================================================
