---------------------------- MODULE Subscriptions ----------------------------
(***************************************************************************)
(* Transaction subscriptions of the client (grpc_client.py): any number of *)
(* them share one channel, each has a task that reads its call and a       *)
(* writer, the generator gRPC draws its requests from. The client keeps a  *)
(* registry of them for unsubscribe and disconnect. A task that ends for   *)
(* whatever reason leaves the registry and calls on_end in the same step;  *)
(* on_error comes just before and touches nothing else, so it is left out. *)
(***************************************************************************)
EXTENDS Integers, FiniteSets

CONSTANTS
  Subs,          \* subscriptions the caller may ask for
  MaxConnects,   \* channels opened over the client's life
  MaxUpdates,    \* updates handed to one subscription's callback
  MaxPings       \* pings of the server waiting for one writer

ASSUME BoundsAssumption ==
  /\ MaxConnects \in Nat \ {0}
  /\ MaxUpdates \in Nat
  /\ MaxPings \in Nat

NoChannel == 0

VARIABLES
  channel,      \* the client's channel, or NoChannel
  opened,       \* channels opened so far
  closing,      \* disconnect() is waiting for the channel to close
  registered,   \* _subscribers
  task,         \* per subscription: "none", "created", "streaming", "ended";
                \* "failed" for one that never got a task
  cancelled,    \* its cancel event
  call,         \* the channel its call was made on
  updates,      \* updates its callback was given
  writer,       \* its request_iterator: "idle", "writing", "parked"
  pings         \* answers in its outgoing queue

client == <<channel, opened, closing>>
stream == <<call, updates, writer, pings>>
subsVars == <<client, registered, task, cancelled, stream>>

TypeOK ==
  /\ channel \in 0..MaxConnects /\ opened \in 0..MaxConnects
  /\ closing \in BOOLEAN
  /\ registered \subseteq Subs
  /\ task \in [Subs -> {"none", "created", "streaming", "ended", "failed"}]
  /\ cancelled \in [Subs -> BOOLEAN]
  /\ call \in [Subs -> 0..MaxConnects]
  /\ updates \in [Subs -> 0..MaxUpdates]
  /\ writer \in [Subs -> {"idle", "writing", "parked"}]
  /\ pings \in [Subs -> 0..MaxPings]

SubsInit ==
  /\ channel = NoChannel /\ opened = 0 /\ closing = FALSE
  /\ registered = {}
  /\ task = [s \in Subs |-> "none"]
  /\ cancelled = [s \in Subs |-> FALSE]
  /\ call = [s \in Subs |-> NoChannel]
  /\ updates = [s \in Subs |-> 0]
  /\ writer = [s \in Subs |-> "idle"]
  /\ pings = [s \in Subs |-> 0]

Live(s) == task[s] \in {"created", "streaming"}

-----------------------------------------------------------------------------
\* The caller.

Connect ==
  /\ channel = NoChannel /\ opened < MaxConnects
  /\ opened' = opened + 1 /\ channel' = opened'
  /\ UNCHANGED <<closing, registered, task, cancelled, stream>>

(* While a channel closes the client still looks connected, and accepts. *)
Subscribe(s) ==
  /\ channel # NoChannel /\ task[s] = "none"
  /\ registered' = registered \cup {s}
  /\ task' = [task EXCEPT ![s] = "created"]
  /\ UNCHANGED <<client, cancelled, stream>>

(* Building the request raises, on a filter it cannot hold: the caller gets
   no subscription, but the registry has it already. *)
SubscribeFails(s) ==
  /\ channel # NoChannel /\ task[s] = "none"
  /\ registered' = registered \cup {s}
  /\ task' = [task EXCEPT ![s] = "failed"]
  /\ UNCHANGED <<client, cancelled, stream>>

(* Subscription.cancel(), which the caller and its callbacks may call at
   any time, sets the event and nothing else. *)
Cancel(s) ==
  /\ task[s] \notin {"none", "failed"}
  /\ cancelled' = [cancelled EXCEPT ![s] = TRUE]
  /\ UNCHANGED <<client, registered, task, stream>>

(* An unknown identifier raises and changes nothing; that of a failed
   subscription nobody was told. *)
Unsubscribe(s) ==
  /\ s \in registered /\ task[s] # "failed"
  /\ registered' = registered \ {s}
  /\ cancelled' = [cancelled EXCEPT ![s] = TRUE]
  /\ UNCHANGED <<client, task, stream>>

(* Mutant: the registry is cleared, its subscriptions are not cancelled. *)
DisconnectClearing ==
  /\ channel # NoChannel /\ ~ closing
  /\ closing' = TRUE
  /\ registered' = {}
  /\ UNCHANGED <<channel, opened, task, cancelled, stream>>

Disconnect ==
  /\ channel # NoChannel /\ ~ closing
  /\ closing' = TRUE
  /\ cancelled' = [s \in Subs |-> cancelled[s] \/ s \in registered]
  /\ registered' = {}
  /\ UNCHANGED <<channel, opened, task, stream>>

Closed ==
  /\ closing
  /\ closing' = FALSE /\ channel' = NoChannel
  /\ UNCHANGED <<opened, registered, task, cancelled, stream>>

-----------------------------------------------------------------------------
\* The task of a subscription.

(* Mutant: the task leaves its entry in the registry. *)
EndRegistered(s) ==
  /\ task' = [task EXCEPT ![s] = "ended"]
  /\ UNCHANGED registered

End(s) ==
  /\ task' = [task EXCEPT ![s] = "ended"]
  /\ registered' = registered \ {s}

(* The first step of the task takes the channel the client has by then,
   not the one it had when the caller subscribed, and does not look at the
   event. The writer begins with the subscription request. *)
Start(s) ==
  /\ task[s] = "created" /\ channel # NoChannel /\ ~ closing
  /\ task' = [task EXCEPT ![s] = "streaming"]
  /\ call' = [call EXCEPT ![s] = channel]
  /\ writer' = [writer EXCEPT ![s] = "writing"]
  /\ UNCHANGED <<client, registered, cancelled, updates, pings>>

(* No client, or a channel that takes no more calls: the task fails. *)
StartFails(s) ==
  /\ task[s] = "created"
  /\ channel = NoChannel \/ closing
  /\ End(s)
  /\ UNCHANGED <<client, cancelled, stream>>

ReceivePing(s) ==
  /\ task[s] = "streaming" /\ ~ cancelled[s] /\ pings[s] < MaxPings
  /\ pings' = [pings EXCEPT ![s] = @ + 1]
  /\ UNCHANGED <<client, registered, task, cancelled, call, updates, writer>>

(* Mutant: the callback is called before the event is looked at. *)
DeliverUnchecked(s) ==
  /\ task[s] = "streaming" /\ updates[s] < MaxUpdates
  /\ updates' = [updates EXCEPT ![s] = @ + 1]

Deliver(s) ==
  /\ task[s] = "streaming" /\ ~ cancelled[s] /\ updates[s] < MaxUpdates
  /\ updates' = [updates EXCEPT ![s] = @ + 1]

(* A callback that raises ends its subscription. *)
ReceiveUpdate(s) ==
  /\ Deliver(s)
  /\ End(s) \/ UNCHANGED <<task, registered>>
  /\ UNCHANGED <<client, cancelled, call, writer, pings>>

(* Mutant: messages of a cancelled call are passed over. *)
BreakNever(s) ==
  /\ task[s] = "streaming" /\ cancelled[s]
  /\ UNCHANGED <<task, registered>>

(* The event is looked at when a message arrives, ping or update. *)
Break(s) ==
  /\ task[s] = "streaming" /\ cancelled[s]
  /\ End(s)

ReceiveCancelled(s) ==
  /\ Break(s)
  /\ UNCHANGED <<client, cancelled, stream>>

(* The server ends the call, in order or with an error. *)
ServerEnds(s) ==
  /\ task[s] = "streaming"
  /\ End(s)
  /\ UNCHANGED <<client, cancelled, stream>>

(* A channel that closes cancels its calls. *)
CallDropped(s) ==
  /\ task[s] = "streaming"
  /\ closing \/ call[s] # channel
  /\ End(s)
  /\ UNCHANGED <<client, cancelled, stream>>

-----------------------------------------------------------------------------
\* The writer of a subscription.

(* It waits in get() and yields what it gets, whatever happened meanwhile. *)
Answer(s) ==
  /\ writer[s] = "parked" /\ pings[s] > 0
  /\ pings' = [pings EXCEPT ![s] = @ - 1]
  /\ writer' = [writer EXCEPT ![s] = "writing"]
  /\ UNCHANGED <<client, registered, task, cancelled, call, updates>>

(* Drawn again after a request, it looks at the event. *)
AfterWrite(s) == IF cancelled[s] THEN "idle" ELSE "parked"

Written(s) ==
  /\ writer[s] = "writing"
  /\ writer' = [writer EXCEPT ![s] = AfterWrite(s)]
  /\ UNCHANGED <<client, registered, task, cancelled, call, updates, pings>>

(* The task leaves None behind what is queued; gRPC drops the writer of a
   call that is over, whatever is queued. *)
WriterEnds(s) ==
  /\ task[s] = "ended" /\ writer[s] # "idle"
  /\ writer' = [writer EXCEPT ![s] = "idle"]
  /\ UNCHANGED <<client, registered, task, cancelled, call, updates, pings>>

TaskStep(s) ==
  \/ Start(s) \/ StartFails(s)
  \/ ReceivePing(s) \/ ReceiveUpdate(s) \/ ReceiveCancelled(s)
  \/ ServerEnds(s) \/ CallDropped(s)

WriterStep(s) == Answer(s) \/ Written(s) \/ WriterEnds(s)

SubsNext ==
  \/ Connect \/ Disconnect \/ Closed
  \/ \E s \in Subs :
       \/ Subscribe(s) \/ SubscribeFails(s) \/ Cancel(s) \/ Unsubscribe(s)
       \/ TaskStep(s) \/ WriterStep(s)

SubsSpec == SubsInit /\ [][SubsNext]_subsVars

(* The event loop runs every task that is ready. A server sends pings
   periodically, so a cancelled call sees a message. That the server ends
   a call, or that the caller does anything, is not assumed. *)
Fairness ==
  /\ WF_subsVars(Closed)
  /\ \A s \in Subs :
       /\ WF_subsVars(Start(s) \/ StartFails(s))
       /\ WF_subsVars(ReceiveCancelled(s))
       /\ WF_subsVars(CallDropped(s))
       /\ WF_subsVars(WriterStep(s))

FairSpec == SubsSpec /\ Fairness

-----------------------------------------------------------------------------
(* The registry is what disconnect() can reach: a subscription that runs
   and was not cancelled is in it, one that ended is not. One that failed
   before it had a task stays in it until a disconnect. *)
Listed ==
  \A s \in Subs :
    /\ Live(s) /\ ~ cancelled[s] => s \in registered
    /\ s \in registered => Live(s) \/ task[s] = "failed"
    /\ task[s] = "failed" => (s \in registered <=> ~ cancelled[s])

(* No call outlives the channel of the client uncancelled: whatever was
   subscribed before, during or after a disconnect, only calls on the
   current channel go on. *)
NoneLeftBehind ==
  \A s \in Subs :
    task[s] = "streaming" /\ ~ cancelled[s] => call[s] = channel /\ ~ closing

(* on_update is called only for a subscription the client still lists:
   unsubscribe() and disconnect() are the last the callback hears. *)
OnlyToListed ==
  [][\A s \in Subs : updates'[s] # updates[s] => s \in registered]_subsVars

(* A cancelled subscription comes to an end, its writer with it. (One that
   failed has neither.) *)
CancelledEnds ==
  \A s \in Subs :
    cancelled[s] /\ task[s] # "failed" ~> task[s] = "ended" /\ writer[s] = "idle"
=============================================================================
