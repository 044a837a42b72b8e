------------------------------ MODULE DexStream ------------------------------
(***************************************************************************)
(* The DEX subscription of YellowstoneGrpc (sol_parser/grpc_client.py):     *)
(* subscribe, update, stop and disconnect on one side, and on the other the *)
(* stream task with its request pump and its flush loop, all coroutines of  *)
(* one event loop. An action is what a coroutine does between two points at *)
(* which it is suspended. The order buffer is a number of held events, of   *)
(* which any part may go out (OrderedDelivery says which).                  *)
(***************************************************************************)
EXTENDS DexQueue, FiniteSets

CONSTANTS
  Settings,          (* configurations and environments, see below           *)
  RequestQueueSize,  (* maxsize of the request queue: 100 in the code        *)
  BaseDelay,         (* config.retry_delay_ms                                *)
  MaxDelay,          (* the 60 s cap                                         *)
  MaxStreams         (* bound: subscriptions                                 *)

Setting == [
  timer    : BOOLEAN,  (* order mode other than UNORDERED: a flush loop runs   *)
  ordered  : BOOLEAN,  (* ORDERED or STREAMING_ORDERED: what is late or comes  *)
                       (* again is dropped                                     *)
  giveUp   : BOOLEAN,  (* a caller may be cancelled (wait_for) while it waits  *)
  consumer : BOOLEAN,  (* somebody reads the queue and its states              *)
  streams  : Nat,      (* bound: subscriptions                                 *)
  requests : Nat,      (* bound: filters submitted, a subscription's first too *)
  events   : Nat,      (* bound: events a stream parses                        *)
  failures : Nat]      (* bound: failures of a stream                          *)

ASSUME DexStreamAssumption ==
  /\ Settings \subseteq Setting
  /\ \A s \in Settings : s.streams <= MaxStreams /\ (s.ordered => s.timer)
  /\ RequestQueueSize \in Nat \ {0}
  /\ BaseDelay \in Nat \ {0} /\ MaxDelay \in Nat \ {0}
  /\ MaxStreams \in Nat

VARIABLES
  setting,       (* which of Settings, for good                              *)
  (* the client *)
  connected,     (* _connected                                               *)
  hasQueue,      (* _dex_event_queue is not None                             *)
  current,       (* the stream of _dex_task, 0 for None                      *)
  currentReq,    (* _dex_current_req, 0 for None                             *)
  op,            (* the call that holds _dex_lifecycle and is suspended      *)
  asked,         (* filters submitted so far: each is named by its number    *)
  accepted,      (* history: the last filter whose call returned             *)
  (* each stream, by the number of its subscription *)
  first,         (* the filter it was opened with, 0 before that             *)
  task,          (* where the stream task is suspended                       *)
  killed,        (* task.cancel() was called and is not delivered yet        *)
  cancelSet,     (* cancel_event is set                                      *)
  pump,          (* request_pump                                             *)
  flusher,       (* flush_loop                                               *)
  requests,      (* request_queue                                            *)
  outgoing,      (* filters on their way to the server                       *)
  sentFirst,     (* request_iterator is past its first yield                 *)
  server,        (* last filter the server has received on this connection   *)
  held,          (* events in the order buffer                               *)
  delay,         (* the next backoff                                         *)
  streak,        (* history: failures since the last update                  *)
  queue,         (* the DexEventQueue                                        *)
  arrived,       (* history: events parsed                                   *)
  refused,       (* history: events the order buffer dropped on arrival      *)
  taken,         (* history: events the consumer has received                *)
  seen,          (* history: last status the consumer has read               *)
  interrupted    (* history: cancelled again while it was winding up         *)

client == <<connected, hasQueue, current, currentReq, op, asked, accepted>>
tasks  == <<task, killed, cancelSet, pump, flusher>>
wire   == <<requests, outgoing, sentFirst, server>>
feed   == <<held, queue, arrived, refused, taken, seen>>
retry  == <<delay, streak>>
vars   == <<client, first, tasks, wire, feed, retry, interrupted>>

Streams == 1 .. MaxStreams

Init ==
  /\ setting \in Settings
  /\ connected = FALSE /\ hasQueue = FALSE
  /\ current = 0 /\ currentReq = 0
  /\ op = "free"
  /\ asked = 0 /\ accepted = 0
  /\ first = [g \in Streams |-> 0]
  /\ task = [g \in Streams |-> "none"]
  /\ killed = [g \in Streams |-> FALSE]
  /\ cancelSet = [g \in Streams |-> FALSE]
  /\ pump = [g \in Streams |-> "none"]
  /\ flusher = [g \in Streams |-> "none"]
  /\ requests = [g \in Streams |-> <<>>]
  /\ outgoing = [g \in Streams |-> <<>>]
  /\ sentFirst = [g \in Streams |-> FALSE]
  /\ server = [g \in Streams |-> 0]
  /\ held = [g \in Streams |-> 0]
  /\ delay = [g \in Streams |-> BaseDelay]
  /\ streak = [g \in Streams |-> 0]
  /\ queue = [g \in Streams |-> NewQueue]
  /\ arrived = [g \in Streams |-> 0]
  /\ refused = [g \in Streams |-> 0]
  /\ taken = [g \in Streams |-> 0]
  /\ seen = [g \in Streams |-> FirstStatus]
  /\ interrupted = [g \in Streams |-> FALSE]

Live(g) == task[g] \notin {"none", "done"}

-----------------------------------------------------------------------------
(* The calls. Each holds _dex_lifecycle from its first to its last step.   *)

Opened == {g \in Streams : task[g] # "none"}

(* The bounds leave room for one more subscription. *)
MayOpen == Cardinality(Opened) < setting.streams /\ asked < setting.requests

(* _subscribe_dex_events: connects if need be, and creates the stream task. *)
Create ==
  LET g == Cardinality(Opened) + 1 IN
    /\ asked' = asked + 1
    /\ accepted' = asked'
    /\ connected' = TRUE /\ hasQueue' = TRUE
    /\ current' = g
    /\ currentReq' = asked'
    /\ first' = [first EXCEPT ![g] = asked']
    /\ task' = [task EXCEPT ![g] = "created"]
    /\ UNCHANGED <<killed, cancelSet, pump, flusher, wire, feed, retry, interrupted>>

(* Mutant: the event is set, but nothing wakes the task. *)
KillByEventOnly(g) ==
  /\ cancelSet' = [cancelSet EXCEPT ![g] = TRUE]
  /\ UNCHANGED killed

(* cancel_event.set() and task.cancel() *)
Kill(g) ==
  /\ cancelSet' = [cancelSet EXCEPT ![g] = TRUE]
  /\ killed' = [killed EXCEPT ![g] = task[g] # "done"]

(* connect, called by itself *)
Connect ==
  /\ ~ connected
  /\ connected' = TRUE
  /\ UNCHANGED <<hasQueue, current, currentReq, op, asked, accepted, first, tasks, wire, feed,
                 retry, interrupted>>

(* A call that stops the stream first, and waits for its task. *)
BeginStop(call) ==
  /\ op = "free"
  /\ current # 0
  /\ call = "subscribe" => MayOpen
  /\ op' = call
  /\ Kill(current)
  /\ UNCHANGED <<connected, hasQueue, current, currentReq, asked, accepted, first, task, pump,
                 flusher, wire, feed, retry, interrupted>>

SubscribeFirst ==
  /\ op = "free"
  /\ current = 0
  /\ MayOpen
  /\ Create
  /\ UNCHANGED op

(* Mutant: the call does not wait for the task it cancelled. *)
JoinedEarly(call) == op = call

(* The task is done, so the call that waits for it goes on. *)
Joined(call) ==
  /\ op = call
  /\ task[current] = "done"

SubscribeAgain ==
  /\ Joined("subscribe")
  /\ Create
  /\ op' = "free"

StopReturns ==
  /\ Joined("stop")
  /\ current' = 0
  /\ currentReq' = 0
  /\ op' = "free"
  /\ UNCHANGED <<connected, hasQueue, asked, accepted, first, tasks, wire, feed, retry,
                 interrupted>>

StopNothing ==
  /\ op = "free"
  /\ current = 0
  /\ currentReq' = 0
  /\ UNCHANGED <<connected, hasQueue, current, op, asked, accepted, first, tasks, wire, feed,
                 retry, interrupted>>

(* disconnect: after the join, and while the channel closes. *)
BeginClose ==
  /\ \/ Joined("disconnect")
     \/ op = "free" /\ current = 0
  /\ connected
  /\ current' = 0
  /\ currentReq' = 0
  /\ hasQueue' = FALSE
  /\ op' = "close"
  /\ UNCHANGED <<connected, asked, accepted, first, tasks, wire, feed, retry, interrupted>>

Closed ==
  /\ op = "close"
  /\ connected' = FALSE
  /\ op' = "free"
  /\ UNCHANGED <<hasQueue, current, currentReq, asked, accepted, first, tasks, wire, feed, retry,
                 interrupted>>

(* update_subscription: the new filter is current before it is queued. *)
Update ==
  /\ op = "free"
  /\ hasQueue
  /\ asked < setting.requests
  /\ asked' = asked + 1
  /\ currentReq' = asked'
  /\ IF current = 0                                   (* no request queue: raises *)
     THEN UNCHANGED <<op, accepted, requests>>
     ELSE IF Len(requests[current]) < RequestQueueSize
     THEN /\ requests' = [requests EXCEPT ![current] = Append(@, asked')]
          /\ accepted' = asked'
          /\ UNCHANGED op
     ELSE /\ op' = "update"
          /\ UNCHANGED <<accepted, requests>>
  /\ UNCHANGED <<connected, hasQueue, current, first, tasks, outgoing, sentFirst, server, feed,
                 retry, interrupted>>

(* The request queue has room again for the update that waits for it. *)
UpdateReturns ==
  /\ op = "update"
  /\ Len(requests[current]) < RequestQueueSize
  /\ requests' = [requests EXCEPT ![current] = Append(@, asked)]
  /\ accepted' = asked
  /\ op' = "free"
  /\ UNCHANGED <<connected, hasQueue, current, currentReq, asked, first, tasks, outgoing,
                 sentFirst, server, feed, retry, interrupted>>

(* The waiting caller is cancelled: gather() passes that on to the task.    *)
GiveUp ==
  /\ setting.giveUp
  /\ op \in {"subscribe", "stop", "disconnect", "update"}
  /\ op' = "free"
  /\ IF op # "update" /\ task[current] # "done"
     THEN killed' = [killed EXCEPT ![current] = TRUE]
     ELSE UNCHANGED killed
  /\ UNCHANGED <<connected, hasQueue, current, currentReq, asked, accepted, first, task,
                 cancelSet, pump, flusher, wire, feed, retry, interrupted>>

-----------------------------------------------------------------------------
(* The stream task, _handle_dex_stream.                                     *)

(* One turn of its loop, up to the first wait for the server. *)
Attempt(g) ==
  /\ task' = [task EXCEPT ![g] = "streaming"]
  /\ queue' = [queue EXCEPT ![g] = Transition(@, "connecting")]
  /\ pump' = [pump EXCEPT ![g] = "running"]
  /\ outgoing' = [outgoing EXCEPT ![g] = <<>>]
  /\ sentFirst' = [sentFirst EXCEPT ![g] = FALSE]
  /\ server' = [server EXCEPT ![g] = 0]
  /\ UNCHANGED <<client, first, killed, cancelSet, requests, held, arrived, refused, taken, seen,
                 retry, interrupted>>

Start(g) ==
  /\ task[g] = "created"
  /\ ~ killed[g]
  /\ flusher' = [flusher EXCEPT ![g] = IF setting.timer THEN "running" ELSE "none"]
  /\ Attempt(g)

(* A coroutine cancelled before its first step runs none of its code. *)
NeverStarts(g) ==
  /\ task[g] = "created"
  /\ killed[g]
  /\ task' = [task EXCEPT ![g] = "done"]
  /\ killed' = [killed EXCEPT ![g] = FALSE]
  /\ UNCHANGED <<client, first, cancelSet, pump, flusher, wire, feed, retry, interrupted>>

(* An update arrives. It carries an event or none (a ping), and lets out     *)
(* events: all of them when nothing is ever held. Where order is kept, an    *)
(* event behind what went out or waits already goes nowhere.                 *)
Receive(g) ==
  \E new, late \in 0 .. 1, out \in 0 .. held[g] + 1 :
    /\ task[g] = "streaming"
    /\ ~ killed[g]
    /\ arrived[g] + new <= setting.events
    /\ late = 1 => new = 1 /\ setting.ordered /\ arrived[g] > 0
    /\ out <= (new - late) * (held[g] + 1)
    /\ ~ setting.timer => out = new
    /\ queue' = [queue EXCEPT ![g] = PutEvents(Transition(@, "connected"), out)]
    /\ held' = [held EXCEPT ![g] = @ + new - late - out]
    /\ arrived' = [arrived EXCEPT ![g] = @ + new]
    /\ refused' = [refused EXCEPT ![g] = @ + late]
    /\ delay' = [delay EXCEPT ![g] = BaseDelay]
    /\ streak' = [streak EXCEPT ![g] = 0]
    /\ UNCHANGED <<client, first, tasks, wire, taken, seen, interrupted>>

(* The stream raises, or ends although nobody cancelled it. *)
Fail(g) ==
  /\ task[g] = "streaming"
  /\ ~ killed[g]
  /\ queue[g].status.reconnects < setting.failures
  /\ queue' = [queue EXCEPT ![g] = PutEvents(Reconnecting(ReportError(@)), held[g])]
  /\ held' = [held EXCEPT ![g] = 0]
  /\ task' = [task EXCEPT ![g] = "backoff"]
  /\ server' = [server EXCEPT ![g] = 0]
  /\ streak' = [streak EXCEPT ![g] = @ + 1]
  /\ UNCHANGED <<client, first, killed, cancelSet, pump, flusher, requests, outgoing, sentFirst,
                 arrived, refused, taken, seen, delay, interrupted>>

(* Mutant: the cap is missing. *)
DoubledUncapped(d) == 2 * d

Doubled(d) == IF 2 * d > MaxDelay THEN MaxDelay ELSE 2 * d

BackoffEnds(g) ==
  /\ task[g] = "backoff"
  /\ ~ killed[g]
  /\ delay' = [delay EXCEPT ![g] = Doubled(@)]
  /\ pump' = [pump EXCEPT ![g] = "cancelled"]
  /\ task' = [task EXCEPT ![g] = "closing"]
  /\ UNCHANGED <<client, first, killed, cancelSet, flusher, wire, feed, streak, interrupted>>

Reopen(g) ==
  /\ task[g] = "closing"
  /\ pump[g] = "done"
  /\ ~ killed[g]
  /\ Attempt(g)
  /\ UNCHANGED flusher

(* The cancellation reaches the task where it waits for the server or sleeps. *)
Cancelled(g) ==
  /\ task[g] \in {"streaming", "backoff"}
  /\ killed[g]
  /\ killed' = [killed EXCEPT ![g] = FALSE]
  /\ pump' = [pump EXCEPT ![g] = IF @ = "done" THEN @ ELSE "cancelled"]
  /\ task' = [task EXCEPT ![g] = "leaving"]
  /\ server' = [server EXCEPT ![g] = 0]
  /\ UNCHANGED <<client, first, cancelSet, flusher, requests, outgoing, sentFirst, feed, retry,
                 interrupted>>

(* Mutant: flush_all is missing. *)
FinishHolding(g) ==
  /\ queue' = [queue EXCEPT ![g] = Stopped(@)]
  /\ UNCHANGED held
  /\ task' = [task EXCEPT ![g] = "done"]

(* transition("stopped") and flush_all *)
Finish(g) ==
  /\ queue' = [queue EXCEPT ![g] = PutEvents(Stopped(@), held[g])]
  /\ held' = [held EXCEPT ![g] = 0]
  /\ task' = [task EXCEPT ![g] = "done"]

(* Mutant: the flush loop is left to itself. *)
WindUpLeavesFlusher(g) ==
  /\ task[g] \in {"closing", "leaving"}
  /\ pump[g] = "done" \/ killed[g]
  /\ killed' = [killed EXCEPT ![g] = FALSE]
  /\ queue' = [queue EXCEPT ![g] = Stopped(@)]
  /\ task' = [task EXCEPT ![g] = "done"]
  /\ UNCHANGED <<client, first, cancelSet, pump, flusher, wire, held, arrived, refused, taken, seen,
                 retry, interrupted>>

(* The outer finally: at once, or after the flush loop has ended. A second   *)
(* cancellation only cuts the wait for the pump short.                       *)
WindUp(g) ==
  /\ \/ task[g] = "leaving" /\ pump[g] = "done" /\ ~ killed[g]
     \/ task[g] \in {"closing", "leaving"} /\ killed[g]
  /\ killed' = [killed EXCEPT ![g] = FALSE]
  /\ IF setting.timer
     THEN /\ task' = [task EXCEPT ![g] = "draining"]
          /\ flusher' = [flusher EXCEPT ![g] = IF @ = "done" THEN @ ELSE "cancelled"]
          /\ UNCHANGED <<queue, held>>
     ELSE /\ Finish(g)
          /\ UNCHANGED flusher
  /\ UNCHANGED <<client, first, cancelSet, pump, wire, arrived, refused, taken, seen,
                 retry, interrupted>>

Drained(g) ==
  /\ task[g] = "draining"
  /\ flusher[g] = "done"
  /\ ~ killed[g]
  /\ Finish(g)
  /\ UNCHANGED <<client, first, killed, cancelSet, pump, flusher, wire, arrived, refused, taken,
                 seen, retry, interrupted>>

(* A second cancellation here skips what is left of the outer finally. *)
Interrupted(g) ==
  /\ task[g] = "draining"
  /\ killed[g]
  /\ killed' = [killed EXCEPT ![g] = FALSE]
  /\ task' = [task EXCEPT ![g] = "done"]
  /\ interrupted' = [interrupted EXCEPT ![g] = TRUE]
  /\ UNCHANGED <<client, first, cancelSet, pump, flusher, wire, feed, retry>>

-----------------------------------------------------------------------------
(* Its helpers, and gRPC's reader of request_iterator.                      *)

(* request_pump empties the queue in one go, unless it is to stop. *)
PumpRuns(g) ==
  LET n == IF cancelSet[g] THEN 1 ELSE Len(requests[g]) IN
  /\ pump[g] = "running"
  /\ requests[g] # <<>>
  /\ currentReq' = requests[g][n]
  /\ outgoing' = [outgoing EXCEPT ![g] = @ \o SubSeq(requests[g], 1, n)]
  /\ requests' = [requests EXCEPT ![g] = SubSeq(@, n + 1, Len(@))]
  /\ pump' = [pump EXCEPT ![g] = IF cancelSet[g] THEN "done" ELSE @]
  /\ UNCHANGED <<connected, hasQueue, current, op, asked, accepted, first, task, killed,
                 cancelSet, flusher, sentFirst, server, feed, retry, interrupted>>

PumpStops(g) ==
  /\ pump[g] = "cancelled"
  /\ pump' = [pump EXCEPT ![g] = "done"]
  /\ UNCHANGED <<client, first, task, killed, cancelSet, flusher, wire, feed, retry, interrupted>>

(* Mutant: flush_due is called once. *)
FlushWakesOnce(g, out) ==
  /\ flusher[g] = "running"
  /\ queue' = [queue EXCEPT ![g] = PutEvents(@, out)]
  /\ held' = [held EXCEPT ![g] = @ - out]
  /\ flusher' = [flusher EXCEPT ![g] = "done"]
  /\ UNCHANGED <<client, first, task, killed, cancelSet, pump, wire, arrived, refused, taken, seen,
                 retry, interrupted>>

(* flush_loop wakes, and out events are due. *)
FlushWakes(g, out) ==
  /\ flusher[g] = "running"
  /\ queue' = [queue EXCEPT ![g] = PutEvents(@, out)]
  /\ held' = [held EXCEPT ![g] = @ - out]
  /\ flusher' = [flusher EXCEPT ![g] = IF cancelSet[g] THEN "done" ELSE @]
  /\ UNCHANGED <<client, first, task, killed, cancelSet, pump, wire, arrived, refused, taken, seen,
                 retry, interrupted>>

FlusherStops(g) ==
  /\ flusher[g] = "cancelled"
  /\ flusher' = [flusher EXCEPT ![g] = "done"]
  /\ UNCHANGED <<client, first, task, killed, cancelSet, pump, wire, feed, retry, interrupted>>

(* Mutant: every connection starts with the filter of the subscription. *)
SendFirstOriginal(g) ==
  /\ task[g] = "streaming"
  /\ ~ sentFirst[g]
  /\ sentFirst' = [sentFirst EXCEPT ![g] = TRUE]
  /\ server' = [server EXCEPT ![g] = first[g]]
  /\ UNCHANGED <<client, first, tasks, requests, outgoing, feed, retry, interrupted>>

(* yield self._dex_current_req or req *)
SendFirst(g) ==
  /\ task[g] = "streaming"
  /\ ~ sentFirst[g]
  /\ sentFirst' = [sentFirst EXCEPT ![g] = TRUE]
  /\ server' = [server EXCEPT ![g] = IF currentReq = 0 THEN first[g] ELSE currentReq]
  /\ UNCHANGED <<client, first, tasks, requests, outgoing, feed, retry, interrupted>>

SendNext(g) ==
  /\ task[g] = "streaming"
  /\ sentFirst[g]
  /\ outgoing[g] # <<>>
  /\ server' = [server EXCEPT ![g] = Head(outgoing[g])]
  /\ outgoing' = [outgoing EXCEPT ![g] = Tail(@)]
  /\ UNCHANGED <<client, first, tasks, requests, sentFirst, feed, retry, interrupted>>

-----------------------------------------------------------------------------
(* The consumer. *)

TakeEvent(g) ==
  /\ queue[g].events > 0
  /\ queue' = [queue EXCEPT ![g].events = @ - 1]
  /\ taken' = [taken EXCEPT ![g] = @ + 1]
  /\ UNCHANGED <<client, first, tasks, wire, held, arrived, refused, seen, retry, interrupted>>

ReadState(g) ==
  /\ queue[g].states # <<>>
  /\ seen' = [seen EXCEPT ![g] = Head(queue[g].states)]
  /\ queue' = [queue EXCEPT ![g].states = Tail(@)]
  /\ UNCHANGED <<client, first, tasks, wire, held, arrived, refused, taken, retry, interrupted>>

-----------------------------------------------------------------------------

Call ==
  \/ Connect
  \/ \E call \in {"subscribe", "stop", "disconnect"} : BeginStop(call)
  \/ SubscribeFirst
  \/ SubscribeAgain
  \/ StopReturns
  \/ StopNothing
  \/ BeginClose
  \/ Closed
  \/ Update
  \/ UpdateReturns
  \/ GiveUp

Stream(g) ==
  \/ Start(g)
  \/ NeverStarts(g)
  \/ Receive(g)
  \/ Fail(g)
  \/ BackoffEnds(g)
  \/ Reopen(g)
  \/ Cancelled(g)
  \/ WindUp(g)
  \/ Drained(g)
  \/ Interrupted(g)

Helper(g) ==
  \/ PumpRuns(g)
  \/ PumpStops(g)
  \/ FlushWakes(g, 0)
  \/ FlushWakes(g, held[g])
  \/ FlusherStops(g)
  \/ SendFirst(g)
  \/ SendNext(g)

Consumer(g) == setting.consumer /\ (TakeEvent(g) \/ ReadState(g))

Next ==
  /\ Call \/ \E g \in Streams : Stream(g) \/ Helper(g) \/ Consumer(g)
  /\ UNCHANGED setting

Spec == Init /\ [][Next]_<<vars, setting>>

(***************************************************************************)
(* The event loop runs every coroutine that can go on: a call whose wait is *)
(* over, the stream task where it does not wait for the server, its helpers *)
(* and gRPC's reader. Callers, server and consumer owe nothing.             *)
(***************************************************************************)
Progress(g) ==
  \/ Start(g) \/ NeverStarts(g) \/ BackoffEnds(g) \/ Reopen(g) \/ Cancelled(g)
  \/ WindUp(g) \/ Drained(g) \/ Interrupted(g)

Return ==
  \/ SubscribeAgain
  \/ StopReturns
  \/ Joined("disconnect") /\ BeginClose
  \/ Closed
  \/ UpdateReturns

FairSpec ==
  /\ Spec
  /\ WF_vars(Return)
  /\ \A g \in Streams :
       /\ WF_vars(Progress(g))
       /\ WF_vars(PumpRuns(g)) /\ WF_vars(PumpStops(g))
       /\ WF_vars(FlushWakes(g, held[g])) /\ WF_vars(FlusherStops(g))
       /\ WF_vars(SendFirst(g)) /\ WF_vars(SendNext(g))

-----------------------------------------------------------------------------
(* Properties *)

(* A client has one DEX subscription: however calls overlap or are given up, *)
(* no second stream task is alive, only the client's own task is, and it     *)
(* only ever sends filters of its own subscription, although the filter in   *)
(* force is a field of the client that later calls overwrite.                *)
OneStream ==
  \A g \in Streams :
    /\ Live(g) => g = current
    /\ server[g] # 0 =>
         /\ server[g] >= first[g]
         /\ \A h \in Streams : h > g /\ first[h] # 0 => server[g] < first[h]

(* Every event parsed is in the buffer or the queue, was received, is        *)
(* counted in dropped, or was refused by an order buffer that keeps order,   *)
(* and a loss at the queue or a reconnect is on record as a break.           *)
NoSilentLoss ==
  \A g \in Streams :
    LET q == queue[g] IN
    /\ arrived[g] = held[g] + q.events + taken[g] + q.status.dropped + refused[g]
    /\ refused[g] > 0 => setting.ordered
    /\ q.status.dropped + q.status.reconnects > 0 => q.status.broken

(* A consumer that has read all of the bounded feed knows the status, even   *)
(* when the feed overflowed in the meantime.                                 *)
FeedEndsInStatus ==
  \A g \in Streams :
    LET q == queue[g] IN
    q.status = IF q.states = <<>> THEN seen[g] ELSE q.states[Len(q.states)]

(* A task that ran and was cancelled once has said so, has nothing held back *)
(* and has left neither pump nor flush loop running.                         *)
CleanEnd ==
  \A g \in Streams : task[g] = "done" =>
    /\ pump[g] # "running" /\ flusher[g] # "running"
    /\ pump[g] # "none" /\ ~ interrupted[g] => queue[g].status.state = "stopped" /\ held[g] = 0

(* Nothing is put into the queue of a stream whose task is done: what comes  *)
(* after stop() is the consumer's doing.                                     *)
SilentAfterEnd ==
  [][\A g \in Streams : task[g] = "done" =>
       queue'[g].status = queue[g].status /\ queue'[g].events <= queue[g].events]_vars

(* BaseDelay doubled n times, with no cap. *)
DoubledTimes(n) == LET d[i \in 0 .. n] == IF i = 0 THEN BaseDelay ELSE 2 * d[i - 1] IN d[n]

(* The n-th wait in a row. *)
Wait(n) ==
  IF n = 1 THEN BaseDelay
  ELSE IF DoubledTimes(n - 1) > MaxDelay THEN MaxDelay ELSE DoubledTimes(n - 1)

(* The wait before the n-th attempt in a row is doubled each time up to the  *)
(* cap, and starts over once the server has answered.                        *)
Backoff == \A g \in Streams : task[g] = "backoff" => delay[g] = Wait(streak[g])

(* Every call that waits for a task, for room or for the channel returns, as *)
(* long as no caller gives up.                                              *)
CallsReturn == ~ setting.giveUp /\ op # "free" ~> op = "free"

(* A filter whose update returned reaches the server and stays in force,     *)
(* across reconnects and however the pump and the first request interleave.  *)
FilterReachesServer ==
  <>[](~ setting.giveUp /\ current # 0 /\ task[current] = "streaming" /\ ~ killed[current] =>
         server[current] >= accepted)

(* What the buffer holds gets to the queue, even if nothing else arrives.    *)
HeldGetsOut ==
  \A g \in Streams : held[g] > 0 ~> held[g] = 0 \/ interrupted[g]

(* docs/USAGE.md, gRPC lifecycle: stop() waits for the task, and the state   *)
(* feed shows "stopped", which ends the consumer's wait.                     *)
StopIsReported == \A g \in Streams : task[g] = "done" => queue[g].status.state = "stopped"
=============================================================================
