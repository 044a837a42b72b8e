-------------------------- MODULE TransactionProofs --------------------------
(***************************************************************************)
(* Transactions, as they are subscribed to and as their routes are read.   *)
(*                                                                         *)
(* Subscriptions, for any number of them and of channels. That no call is  *)
(* left behind rests on the registry: disconnect reaches the calls it has  *)
(* to cancel only because the registry holds every subscription that runs  *)
(* uncancelled; so both are proved together.                               *)
(*                                                                         *)
(* The call tree of a transaction, found again from its flat list. For     *)
(* calls of any kind, transactions of any length and any heights: the run  *)
(* of calls after one that are higher than it is exactly what it made.     *)
(***************************************************************************)
EXTENDS Subscriptions, TransactionRoute, FiniteSetTheorems, WellFoundedInduction, TLAPS

-----------------------------------------------------------------------------
(* Subscriptions *)

(* What each step of a task or writer does to the registry and to the
   state of tasks: nothing, or the end of one subscription. *)
Quiet == UNCHANGED <<channel, opened, closing, registered, task, cancelled, call>>

EndsTask(s) ==
  /\ task' = [task EXCEPT ![s] = "ended"]
  /\ registered' = registered \ {s}
  /\ UNCHANGED <<channel, opened, closing, cancelled, call>>

(* The types hold of every behaviour, whatever the bounds. *)
THEOREM TypeCorrect == SubsSpec => []TypeOK
<1>1. SubsInit => TypeOK
  <2> SUFFICES ASSUME SubsInit PROVE TypeOK
    OBVIOUS
  <2>1. 0 \in 0..MaxConnects /\ 0 \in 0..MaxUpdates /\ 0 \in 0..MaxPings
    BY BoundsAssumption
  <2> QED
    BY <2>1 DEF SubsInit, TypeOK, NoChannel
<1>2. ASSUME TypeOK, [SubsNext]_subsVars PROVE TypeOK'
  <2> USE <1>2, BoundsAssumption DEF TypeOK
  <2>1. CASE Connect
    <3>1. opened' \in 0..MaxConnects /\ channel' \in 0..MaxConnects
      BY <2>1 DEF Connect
    <3> QED
      BY <2>1, <3>1 DEF Connect, stream
  <2>2. CASE Disconnect
    BY <2>2 DEF Disconnect, stream
  <2>3. CASE Closed
    <3>1. channel' \in 0..MaxConnects
      BY <2>3 DEF Closed, NoChannel
    <3> QED
      BY <2>3, <3>1 DEF Closed, stream
  <2>4. ASSUME NEW s \in Subs,
               \/ Subscribe(s) \/ SubscribeFails(s) \/ Cancel(s) \/ Unsubscribe(s)
               \/ TaskStep(s) \/ WriterStep(s)
        PROVE  TypeOK'
    <3> USE <2>4
    <3>1. CASE Subscribe(s)
      BY <3>1 DEF Subscribe, client, stream
    <3>14. CASE SubscribeFails(s)
      BY <3>14 DEF SubscribeFails, client, stream
    <3>2. CASE Cancel(s)
      BY <3>2 DEF Cancel, client, stream
    <3>3. CASE Unsubscribe(s)
      BY <3>3 DEF Unsubscribe, client, stream
    <3>4. CASE Start(s)
      BY <3>4 DEF Start, client
    <3>5. CASE StartFails(s)
      BY <3>5 DEF StartFails, End, client, stream
    <3>6. CASE ReceivePing(s)
      BY <3>6 DEF ReceivePing, client
    <3>7. CASE ReceiveUpdate(s)
      BY <3>7 DEF ReceiveUpdate, Deliver, End, client
    <3>8. CASE ReceiveCancelled(s)
      BY <3>8 DEF ReceiveCancelled, Break, End, client, stream
    <3>9. CASE ServerEnds(s)
      BY <3>9 DEF ServerEnds, End, client, stream
    <3>10. CASE CallDropped(s)
      BY <3>10 DEF CallDropped, End, client, stream
    <3>11. CASE Answer(s)
      BY <3>11 DEF Answer, client
    <3>12. CASE Written(s)
      BY <3>12 DEF Written, AfterWrite, client
    <3>13. CASE WriterEnds(s)
      BY <3>13 DEF WriterEnds, client
    <3> QED
      BY <3>1, <3>2, <3>3, <3>4, <3>5, <3>6, <3>7, <3>8, <3>9, <3>10, <3>11, <3>12, <3>13,
         <3>14 DEF TaskStep, WriterStep
  <2>5. CASE UNCHANGED subsVars
    BY <2>5 DEF subsVars, client, stream
  <2> QED
    BY <2>1, <2>2, <2>3, <2>4, <2>5 DEF SubsNext
<1> QED
  BY <1>1, <1>2, PTL DEF SubsSpec

(* A call is made on a channel: without one, nothing streams uncancelled. *)
Called == \A s \in Subs : task[s] = "streaming" => call[s] # NoChannel

(* Nothing cancels a subscription that was not asked for. *)
Untouched == \A s \in Subs : task[s] = "none" => ~ cancelled[s]

SubsInv == TypeOK /\ Called /\ Untouched /\ Listed /\ NoneLeftBehind

(* Every step of a task but its start, and every step of a writer, is quiet
   or the end of the subscription. *)
LEMMA Steps ==
  ASSUME TypeOK, NEW s \in Subs, TaskStep(s) \/ WriterStep(s)
  PROVE  Start(s) \/ Quiet \/ EndsTask(s)
BY DEF TaskStep, WriterStep, StartFails, ReceivePing, ReceiveUpdate, Deliver,
       ReceiveCancelled, Break, ServerEnds, CallDropped, Answer, Written,
       WriterEnds, End, Quiet, EndsTask, client, stream

(* The invariants survive every step. *)
LEMMA Kept ==
  ASSUME SubsInv, TypeOK', [SubsNext]_subsVars
  PROVE  Called' /\ Untouched' /\ Listed' /\ NoneLeftBehind'
<1> USE DEF SubsInv, TypeOK, Called, Untouched, Listed, NoneLeftBehind, Live
<1>1. CASE Connect
  <2>1. \A s \in Subs : task[s] = "streaming" => cancelled[s]
    BY <1>1 DEF Connect
  <2> QED
    BY <1>1, <2>1 DEF Connect, stream
<1>2. CASE Disconnect
  BY <1>2 DEF Disconnect, stream
<1>3. CASE Closed
  BY <1>3 DEF Closed, stream
<1>4. ASSUME NEW s \in Subs,
             \/ Subscribe(s) \/ SubscribeFails(s) \/ Cancel(s) \/ Unsubscribe(s)
             \/ TaskStep(s) \/ WriterStep(s)
      PROVE  Called' /\ Untouched' /\ Listed' /\ NoneLeftBehind'
  <2>1. CASE Subscribe(s)
    BY <2>1 DEF Subscribe, client, stream
  <2>7. CASE SubscribeFails(s)
    BY <2>7 DEF SubscribeFails, client, stream
  <2>2. CASE Cancel(s)
    BY <2>2 DEF Cancel, client, stream
  <2>3. CASE Unsubscribe(s)
    BY <2>3 DEF Unsubscribe, client, stream
  <2>4. CASE Start(s)
    BY <2>4 DEF Start, client
  <2>5. CASE Quiet
    BY <2>5 DEF Quiet
  <2>6. CASE EndsTask(s)
    BY <2>6 DEF EndsTask
  <2> QED
    BY <1>4, <2>1, <2>2, <2>3, <2>4, <2>5, <2>6, <2>7, Steps
<1>5. CASE UNCHANGED subsVars
  BY <1>5 DEF subsVars, client, stream
<1> QED
  BY <1>1, <1>2, <1>3, <1>4, <1>5 DEF SubsNext

(* The inductive invariant holds throughout. *)
THEOREM SubsInvariance == SubsSpec => []SubsInv
<1>1. SubsInit => Called /\ Untouched /\ Listed /\ NoneLeftBehind
  BY DEF SubsInit, Called, Untouched, Listed, NoneLeftBehind, Live
<1> QED
  BY <1>1, TypeCorrect, Kept, PTL DEF SubsSpec, SubsInv

(* Disconnect reaches all that runs uncancelled; what ended is not listed,
   what failed before it ran is listed until a disconnect. *)
THEOREM RegistryCorrect == SubsSpec => []Listed
BY SubsInvariance, PTL DEF SubsInv

(* Only calls on the current channel go on uncancelled. *)
THEOREM DisconnectComplete == SubsSpec => []NoneLeftBehind
BY SubsInvariance, PTL DEF SubsInv

(* A callback is called for a listed subscription only. *)
THEOREM SilentAfterUnsubscribe == SubsSpec => OnlyToListed
<1> DEFINE Heard == \A s \in Subs : updates'[s] # updates[s] => s \in registered
<1>1. ASSUME SubsInv, [SubsNext]_subsVars PROVE [Heard]_subsVars
  <2> SUFFICES ASSUME NEW s \in Subs, updates'[s] # updates[s], SubsNext
               PROVE  s \in registered
    BY <1>1 DEF subsVars
  <2> USE <1>1 DEF SubsInv, TypeOK
  <2>1. Deliver(s)
    <3>1. UNCHANGED updates \/ \E r \in Subs : Deliver(r)
      BY DEF SubsNext, Connect, Disconnect, Closed, Subscribe, SubscribeFails, Cancel,
             Unsubscribe, TaskStep, WriterStep, Start, StartFails, ReceivePing, ReceiveUpdate,
             ReceiveCancelled, ServerEnds, CallDropped, Answer, Written, WriterEnds,
             stream
    <3> QED
      BY <3>1 DEF Deliver
  <2> QED
    BY <2>1 DEF Deliver, Listed, Live
<1> QED
  BY <1>1, SubsInvariance, PTL DEF SubsSpec, OnlyToListed

-----------------------------------------------------------------------------
(* The route *)

(* The calls after one, as long as they are higher. *)
Within(r, i, j) == i < j /\ \A k \in (i + 1)..j : r[k].height > r[i].height

AllCalls == UNION {s.calls : s \in Settings}
Entry == [call : AllCalls, height : Nat \ {0}, callers : SUBSET Nat]

Shape ==
  /\ setting \in Settings /\ recorded \in BOOLEAN
  /\ run \in Seq(Entry) /\ Len(run) <= setting.length

(* Of every level up to that of the last call, one call still runs. *)
Stacked ==
  run # <<>> =>
    \A l \in 1..run[Len(run)].height :
      \E p \in 1..Len(run) : run[p].height = l /\ \A k \in (p + 1)..Len(run) : run[k].height > l

(* What a call was made within is told by the heights in between. *)
Told == \A j \in 1..Len(run) : run[j].callers = {i \in 1..Len(run) : Within(run, i, j)}

Inv == Shape /\ Stacked /\ Told

(* The list is a sequence of calls with heights from 1. *)
LEMMA Basics ==
  ASSUME Shape
  PROVE  /\ Len(run) \in Nat /\ DOMAIN run = 1..Len(run)
         /\ run # <<>> => Len(run) \in 1..Len(run)
         /\ \A k \in 1..Len(run) : run[k] \in Entry
         /\ \A k \in 1..Len(run) : run[k].height \in Nat /\ run[k].height >= 1
<1>1. Len(run) \in Nat /\ DOMAIN run = 1..Len(run) /\ \A k \in 1..Len(run) : run[k] \in Entry
  BY DEF Shape
<1>2. run # <<>> => Len(run) \in 1..Len(run)
  BY <1>1 DEF Shape
<1>3. \A e \in Entry : e.height \in Nat /\ e.height >= 1
  BY DEF Entry
<1> QED
  BY <1>1, <1>2, <1>3

(* The last call one level up is the one still running at that level. *)
LEMMA CallerRuns ==
  ASSUME Inv, NEW h \in Nat, h > 1, run # <<>>, h <= run[Len(run)].height + 1
  PROVE  /\ Caller(h) \in 1..Len(run) /\ run[Caller(h)].height = h - 1
         /\ \A k \in (Caller(h) + 1)..Len(run) : run[k].height > h - 1
<1> DEFINE S == {0} \cup {i \in DOMAIN run : run[i].height = h - 1}
<1>1. /\ Len(run) \in Nat /\ DOMAIN run = 1..Len(run)
      /\ \A k \in 1..Len(run) : run[k].height \in Nat
      /\ run[Len(run)].height \in Nat
  BY Basics DEF Inv
<1>2. h - 1 \in 1..run[Len(run)].height
  BY <1>1
<1>3. PICK p \in 1..Len(run) :
        run[p].height = h - 1 /\ \A k \in (p + 1)..Len(run) : run[k].height > h - 1
  BY <1>2 DEF Stacked, Inv
<1>4. p \in S
  BY <1>1, <1>3
<1>5. ASSUME NEW q \in S PROVE p >= q
  <2>1. CASE q = 0
    BY <2>1, <1>3
  <2>2. CASE q \in 1..Len(run) /\ run[q].height = h - 1
    <3>1. ~ q \in (p + 1)..Len(run)
      BY <2>2, <1>3
    <3> QED
      BY <3>1, <2>2, <1>1, <1>3
  <2> QED
    BY <2>1, <2>2, <1>1
<1>6. \A x \in S : (\A q \in S : x >= q) => x = p
  <2> SUFFICES ASSUME NEW x \in S, \A q \in S : x >= q PROVE x = p
    OBVIOUS
  <2>1. x >= p /\ p >= x /\ x \in Nat /\ p \in Nat
    BY <1>4, <1>5, <1>1
  <2> QED
    BY <2>1
<1>7. Caller(h) = p
  <2>1. Caller(h) = CHOOSE x \in S : \A q \in S : x >= q
    BY DEF Caller, Max
  <2> HIDE DEF S
  <2>2. \E x \in S : \A q \in S : x >= q
    BY <1>4, <1>5
  <2> QED
    BY <2>1, <2>2, <1>6
<1> QED
  BY <1>3, <1>7

(* A call made on top of another is within what that one is within, and
   within it. *)
LEMMA CallKeeps ==
  ASSUME Inv, NEW c \in setting.calls, NEW h \in Nat \ {0}, Call(c, h)
  PROVE  Inv'
<1> DEFINE n == Len(run)
           e == [call |-> c, height |-> h, callers |-> Callers(h)]
           r == Append(run, e)
           p == Caller(h)
<1>a. /\ n \in Nat /\ DOMAIN run = 1..n /\ (run # <<>> => n \in 1..n)
      /\ \A k \in 1..n : run[k].height \in Nat /\ run[k].height >= 1
  BY Basics DEF Inv
<1>1. run' = r /\ UNCHANGED <<setting, recorded>>
  BY DEF Call
<1>2. /\ r[n + 1] = e /\ Len(r) = n + 1
      /\ \A k \in 1..n : r[k] = run[k]
  BY <1>a DEF Inv, Shape
<1>3. e.height = h /\ e.callers = Callers(h)
  OBVIOUS
<1> HIDE DEF r, e
<1>4. h > 1 => run # <<>> /\ h <= run[n].height + 1
  BY DEF Call, Last
<1>5. h > 1 => /\ p \in 1..n /\ run[p].height = h - 1
               /\ \A k \in (p + 1)..n : run[k].height > h - 1
  BY <1>4, CallerRuns
<1> HIDE DEF p
<1>6. h > 1 => Callers(h) = {p} \cup {i \in 1..n : Within(run, i, p)}
  BY <1>5 DEF Callers, Told, Inv, p
<1>7. Callers(h) \subseteq Nat
  <2>1. CASE h = 1
    BY <2>1 DEF Callers
  <2>2. CASE h > 1
    BY <2>2, <1>5, <1>6, <1>a
  <2> QED
    BY <2>1, <2>2
<1>8. Shape'
  <2>1. c \in AllCalls
    BY DEF AllCalls, Inv, Shape
  <2>2. e \in Entry
    BY <2>1, <1>7 DEF Entry, e
  <2>3. setting.length \in Nat /\ n < setting.length
    BY CallsAssumption DEF Call, Inv, Shape
  <2> QED
    BY <2>2, <2>3, <1>a, <1>1, <1>2 DEF Inv, Shape, r
<1>9. \A l \in 1..h : \E q \in 1..(n + 1) :
        r[q].height = l /\ \A k \in (q + 1)..(n + 1) : r[k].height > l
  <2> SUFFICES ASSUME NEW l \in 1..h
               PROVE  \E q \in 1..(n + 1) :
                        r[q].height = l /\ \A k \in (q + 1)..(n + 1) : r[k].height > l
    OBVIOUS
  <2>1. CASE l = h
    <3>1. n + 1 \in 1..(n + 1) /\ r[n + 1].height = l
      BY <2>1, <1>a, <1>2, <1>3
    <3>2. (n + 1 + 1)..(n + 1) = {}
      BY <1>a
    <3> QED
      BY <3>1, <3>2
  <2>2. CASE l < h
    <3>1. run # <<>> /\ l \in 1..run[n].height
      BY <2>2, <1>4, <1>a
    <3>2. PICK q \in 1..n : run[q].height = l /\ \A k \in (q + 1)..n : run[k].height > l
      BY <3>1 DEF Inv, Stacked
    <3>3. q \in 1..(n + 1) /\ r[q].height = l
      BY <3>2, <1>a, <1>2
    <3>4. ASSUME NEW k \in (q + 1)..(n + 1) PROVE r[k].height > l
      <4>1. CASE k = n + 1
        BY <4>1, <2>2, <1>2, <1>3
      <4>2. CASE k \in (q + 1)..n
        <5>1. k \in 1..n
          BY <4>2, <3>2, <1>a
        <5> QED
          BY <4>2, <5>1, <3>2, <1>2
      <4> QED
        BY <4>1, <4>2, <1>a
    <3> QED
      BY <3>3, <3>4
  <2> QED
    BY <2>1, <2>2
<1>10. Stacked'
  BY <1>1, <1>2, <1>3, <1>9 DEF Stacked
<1>11. ASSUME NEW j \in 1..n, NEW i \in 1..(n + 1)
       PROVE  Within(r, i, j) <=> i \in 1..n /\ Within(run, i, j)
  <2>1. CASE i = n + 1
    BY <2>1, <1>a DEF Within
  <2>2. CASE i \in 1..n
    <3>1. \A k \in (i + 1)..j : k \in 1..n
      BY <2>2, <1>a
    <3> QED
      BY <2>2, <3>1, <1>2 DEF Within
  <2> QED
    BY <2>1, <2>2, <1>a
<1>12. \A j \in 1..n : r[j].callers = {i \in 1..(n + 1) : Within(r, i, j)}
  <2> SUFFICES ASSUME NEW j \in 1..n
               PROVE  run[j].callers = {i \in 1..(n + 1) : Within(r, i, j)}
    BY <1>2
  <2>1. run[j].callers = {i \in 1..n : Within(run, i, j)}
    BY DEF Inv, Told
  <2>2. 1..n \subseteq 1..(n + 1)
    BY <1>a
  <2> QED
    BY <2>1, <2>2, <1>11
<1>13. Callers(h) = {i \in 1..(n + 1) : Within(r, i, n + 1)}
  <2>0. r[n + 1].height = h
    BY <1>2, <1>3
  <2>1. CASE h = 1
    <3>1. ASSUME NEW i \in 1..(n + 1), Within(r, i, n + 1) PROVE FALSE
      <4>1. i \in 1..n /\ n + 1 \in (i + 1)..(n + 1)
        BY <3>1, <1>a DEF Within
      <4>2. h > run[i].height
        BY <3>1, <4>1, <2>0, <1>2 DEF Within
      <4> QED
        BY <4>1, <4>2, <2>1, <1>a
    <3> QED
      BY <3>1, <2>1 DEF Callers
  <2>2. CASE h > 1
    <3>1. /\ p \in 1..n /\ run[p].height = h - 1
          /\ \A k \in (p + 1)..n : run[k].height > h - 1
      BY <1>5, <2>2
    <3>2. Within(r, p, n + 1)
      <4>1. ASSUME NEW k \in (p + 1)..(n + 1) PROVE r[k].height > r[p].height
        <5>1. CASE k = n + 1
          BY <5>1, <3>1, <2>0, <1>2
        <5>2. CASE k \in (p + 1)..n
          <6>1. k \in 1..n
            BY <5>2, <3>1, <1>a
          <6> QED
            BY <6>1, <5>2, <3>1, <1>2
        <5> QED
          BY <5>1, <5>2, <1>a
      <4> QED
        BY <4>1, <3>1, <1>a DEF Within
    <3>3. ASSUME NEW i \in 1..n, Within(run, i, p) PROVE Within(r, i, n + 1)
      <4>1. /\ i < p /\ run[i].height < h - 1 /\ r[i] = run[i]
            /\ \A k \in (i + 1)..p : run[k].height > run[i].height
        <5>1. i < p /\ p \in (i + 1)..p
          BY <3>1, <3>3, <1>a DEF Within
        <5> QED
          BY <5>1, <3>1, <3>3, <1>2 DEF Within
      <4>2. ASSUME NEW k \in (i + 1)..(n + 1) PROVE r[k].height > r[i].height
        <5>1. CASE k = n + 1
          BY <5>1, <4>1, <2>0, <1>a
        <5>2. CASE k \in (i + 1)..p
          <6>1. k \in 1..n
            BY <5>2, <3>1, <1>a
          <6> QED
            BY <6>1, <5>2, <4>1, <1>2
        <5>3. CASE k \in (p + 1)..n
          <6>1. k \in 1..n
            BY <5>3, <3>1, <1>a
          <6>2. run[k].height > h - 1 /\ run[k].height \in Nat /\ run[i].height \in Nat
            BY <6>1, <5>3, <3>1, <1>a
          <6>3. run[k].height > run[i].height
            BY <6>2, <4>1
          <6> QED
            BY <6>1, <6>3, <4>1, <1>2
        <5>4. p \in Nat /\ i \in Nat /\ n \in Nat /\ k \in (i + 1)..(n + 1)
          BY <3>1, <1>a
        <5>5. k \in (i + 1)..p \/ k \in (p + 1)..n \/ k = n + 1
          BY <5>4
        <5> QED
          BY <5>1, <5>2, <5>3, <5>5
      <4> QED
        BY <4>1, <4>2, <3>1, <1>a DEF Within
    <3>4. ASSUME NEW i \in 1..(n + 1), Within(r, i, n + 1), i # p
          PROVE  i \in 1..n /\ Within(run, i, p)
      <4>1. i \in 1..n /\ r[i] = run[i] /\ n + 1 \in (i + 1)..(n + 1)
        BY <3>4, <1>a, <1>2 DEF Within
      <4>2. run[i].height < h
        BY <3>4, <4>1, <2>0 DEF Within
      <4>3. ~ i > p
        <5> SUFFICES ASSUME i > p PROVE FALSE
          OBVIOUS
        <5>1. i \in (p + 1)..n
          BY <4>1, <3>1, <1>a
        <5>2. run[i].height > h - 1 /\ run[i].height \in Nat
          BY <5>1, <3>1, <4>1, <1>a
        <5> QED
          BY <5>2, <4>2
      <4>4. ASSUME NEW k \in (i + 1)..p PROVE run[k].height > run[i].height
        <5>1. k \in 1..n /\ k \in (i + 1)..(n + 1)
          BY <4>1, <3>1, <1>a
        <5> QED
          BY <5>1, <3>4, <4>1, <1>2 DEF Within
      <4>5. i < p
        BY <4>1, <4>3, <3>1, <3>4, <1>a
      <4> QED
        BY <4>1, <4>4, <4>5 DEF Within
    <3>5. p \in 1..(n + 1) /\ 1..n \subseteq 1..(n + 1)
      BY <3>1, <1>a
    <3> QED
      BY <1>6, <2>2, <3>2, <3>3, <3>4, <3>5
  <2> QED
    BY <2>1, <2>2
<1>14. \A j \in 1..(n + 1) : j \in 1..n \/ j = n + 1
  BY <1>a
<1>15. Told'
  BY <1>1, <1>2, <1>3, <1>12, <1>13, <1>14 DEF Told
<1> QED
  BY <1>8, <1>10, <1>15 DEF Inv

(* Calls and the analysis keep the shape of the list. *)
THEOREM Invariance == Spec => []Inv
<1>1. Init => Inv
  BY CallsAssumption DEF Init, Inv, Shape, Stacked, Told
<1>2. ASSUME Inv, [Next]_vars PROVE Inv'
  <2>1. ASSUME NEW c \in setting.calls, NEW h \in 1..MaxHeight, Call(c, h) PROVE Inv'
    BY <1>2, <2>1, CallKeeps
  <2>2. ASSUME NEW succeeded, NEW listed, Analyse(succeeded, listed) PROVE Inv'
    BY <1>2, <2>2 DEF Analyse, Inv, Shape, Stacked, Told, Within
  <2>3. CASE UNCHANGED vars
    BY <1>2, <2>3 DEF vars, Inv, Shape, Stacked, Told, Within
  <2> QED
    BY <1>2, <2>1, <2>2, <2>3 DEF Next
<1> QED
  BY <1>1, <1>2, PTL DEF Spec

(* Up to the first call that is not higher, all are of one instruction. *)
LEMMA SameOuter ==
  ASSUME Shape, NEW i \in 1..Len(run), NEW j \in 1..Len(run), Within(run, i, j)
  PROVE  Outer(i) = Outer(j)
<1>1. Len(run) \in Nat /\ \A k \in 1..Len(run) : run[k].height \in Nat /\ run[k].height >= 1
  BY Basics
<1>2. ASSUME NEW k \in (i + 1)..j PROVE run[k].height # 1
  <2>1. run[k].height > run[i].height /\ run[k].height \in Nat /\ run[i].height >= 1 /\ run[i].height \in Nat
    BY <1>1 DEF Within
  <2> QED
    BY <2>1
<1>3. \A k \in 1..j : k \in 1..i \/ k \in (i + 1)..j
  BY <1>1
<1>4. 1..i \subseteq 1..j
  BY <1>1 DEF Within
<1>5. {k \in 1..i : run[k].height = 1} = {k \in 1..j : run[k].height = 1}
  BY <1>2, <1>3, <1>4
<1> QED
  BY <1>5 DEF Outer

(* The analysis takes for descendants of a call what the heights put within
   it, if it knows them. *)
LEMMA ScanIsWithin ==
  ASSUME Shape, NEW i \in 1..Len(run), NEW j \in 1..Len(run)
  PROVE  j \in Children(i) <=> Traceable(i) /\ Within(run, i, j)
<1>0. /\ Len(run) \in Nat /\ DOMAIN run = 1..Len(run)
      /\ \A k \in 1..Len(run) : run[k].height \in Nat /\ run[k].height >= 1
  BY Basics
<1>1. \A k \in (i + 1)..j : k \in 1..Len(run)
  BY <1>0
<1>2. \A k \in 1..Len(run) : run[k].height # None
  BY <1>0, NoneAssumption
<1>3. ASSUME Traceable(i), Within(run, i, j) PROVE j \in Children(i)
  <2>1. ASSUME NEW k \in (i + 1)..j PROVE Descendant(i, k)
    <3>1. Within(run, i, k)
      BY <1>3, <1>0 DEF Within
    <3>2. Outer(i) = Outer(k)
      BY <3>1, <1>1, <2>1, SameOuter
    <3>3. run[k].height > run[i].height
      BY <1>3, <2>1 DEF Within
    <3>4. run[k].height # 1
      BY <3>3, <1>0, <1>1, <2>1
    <3> QED
      BY <1>3, <3>2, <3>3, <3>4, <1>1, <1>2, <2>1 DEF Descendant, Traceable, Height
  <2> QED
    BY <2>1, <1>0, <1>3 DEF Children, Within
<1>4. ASSUME j \in Children(i) PROVE Traceable(i) /\ Within(run, i, j)
  <2>1. j > i /\ \A k \in (i + 1)..j : Descendant(i, k)
    BY <1>4 DEF Children
  <2>2. Descendant(i, j)
    BY <2>1, <1>0
  <2>3. Traceable(i)
    BY <2>2 DEF Descendant, Height, Traceable
  <2>4. ASSUME NEW k \in (i + 1)..j PROVE run[k].height > run[i].height
    <3>1. Descendant(i, k) /\ k \in 1..Len(run)
      BY <2>1, <2>4, <1>1
    <3>2. CASE run[i].height = 1
      BY <3>1, <3>2, <1>0 DEF Descendant
    <3>3. CASE run[i].height # 1
      <4>1. recorded
        BY <2>3, <3>3 DEF Traceable
      <4> QED
        BY <3>1, <3>3, <4>1 DEF Descendant, Height
    <3> QED
      BY <3>2, <3>3
  <2> QED
    BY <2>1, <2>3, <2>4 DEF Within
<1> QED
  BY <1>3, <1>4

(* The calls that the scan of the flat list attributes to one are exactly
   those it made, at any depth, or none where the node kept no heights. *)
THEOREM CallTree == Spec => []CallTreeFound
<1>1. ASSUME Inv PROVE CallTreeFound
  <2>0. DOMAIN run = 1..Len(run)
    BY <1>1, Basics DEF Inv
  <2> SUFFICES ASSUME NEW i \in 1..Len(run)
               PROVE  Children(i) = IF Traceable(i) THEN Made(i) ELSE {}
    BY <2>0 DEF CallTreeFound
  <2>1. \A j \in 1..Len(run) : j \in Made(i) <=> Within(run, i, j)
    BY <1>1, <2>0 DEF Made, Inv, Told
  <2>2. \A j \in 1..Len(run) : j \in Children(i) <=> Traceable(i) /\ Within(run, i, j)
    BY <1>1, ScanIsWithin DEF Inv
  <2>3. Children(i) \subseteq 1..Len(run) /\ Made(i) \subseteq 1..Len(run)
    BY <2>0 DEF Children, Made
  <2> QED
    BY <2>1, <2>2, <2>3
<1> QED
  BY <1>1, Invariance, PTL

(* A call of an unknown program is shown with what it did, and with nothing
   else: what the analysis says once holds of the list it read. *)
THEOREM UnknownsCorrect == Spec => []UnknownsTold
<1>1. Init => UnknownsTold
  BY DEF Init, UnknownsTold
<1>2. ASSUME CallTreeFound, UnknownsTold, [Next]_vars PROVE UnknownsTold'
  <2>1. ASSUME NEW c, NEW h, Call(c, h) PROVE UnknownsTold'
    BY <2>1 DEF Call, UnknownsTold
  <2>2. ASSUME NEW succeeded, NEW listed, Analyse(succeeded, listed) PROVE UnknownsTold'
    <3>1. run' = run /\ recorded' = recorded
      BY <2>2 DEF Analyse
    <3>2. route'.unknown = {UnknownCall(i) : i \in {k \in DOMAIN run : Kind(k) = "other"}}
      BY <2>2 DEF Analyse
    <3>3. ASSUME NEW i \in DOMAIN run
          PROVE  /\ UnknownCall(i).at = i
                 /\ UnknownCall(i).moves = (Traceable(i) /\ \E j \in Made(i) : Kind(j) \in Movements)
                 /\ UnknownCall(i).swaps = (Traceable(i) /\ \E j \in Made(i) : IsSwap(j))
      <4>1. Children(i) = IF Traceable(i) THEN Made(i) ELSE {}
        BY <1>2 DEF CallTreeFound
      <4>2. (Nested(i) # {}) = (Traceable(i) /\ \E j \in Made(i) : Kind(j) \in Movements)
        BY <4>1 DEF Nested
      <4>3. (\E j \in Children(i) : IsSwap(j)) = (Traceable(i) /\ \E j \in Made(i) : IsSwap(j))
        BY <4>1
      <4> QED
        BY <4>2, <4>3 DEF UnknownCall
    <3>4. \A u \in route'.unknown :
            /\ u.moves = (Traceable(u.at) /\ \E j \in Made(u.at) : Kind(j) \in Movements)
            /\ u.swaps = (Traceable(u.at) /\ \E j \in Made(u.at) : IsSwap(j))
      BY <3>2, <3>3
    <3> QED
      BY <3>1, <3>4 DEF UnknownsTold, Traceable, Made, Kind, IsSwap
  <2>3. CASE UNCHANGED vars
    BY <1>2, <2>3 DEF vars, UnknownsTold, Traceable, Made, Kind, IsSwap
  <2> QED
    BY <1>2, <2>1, <2>2, <2>3 DEF Next
<1> QED
  BY <1>1, <1>2, CallTree, PTL DEF Spec

-----------------------------------------------------------------------------
(* The amounts of a leg.                                                    *)

(* What the token program sees to holds of every call of the list. *)
LEMMA CallsAreSound ==
  ASSUME Shape, NEW k \in DOMAIN run
  PROVE  /\ Kind(k) \in Movements =>
              /\ Source(k) \in Accounts /\ Target(k) \in Accounts
              /\ run[k].call.mint = MintOf[Source(k)] /\ run[k].call.mint = MintOf[Target(k)]
         /\ Kind(k) = "open" => Target(k) \in Accounts /\ run[k].call.mint = MintOf[Target(k)]
         /\ Kind(k) = "withFee" => run[k].call.fee \in Nat
         /\ Kind(k) \in {"swap", "curve"} => Target(k) \in Accounts
         /\ Kind(k) = "swap" => Source(k) \in Accounts
         /\ Kind(k) \in {"curve", "pay"} => Source(k) \notin Accounts
         /\ Amount(k) \in Nat
<1> DEFINE c == run[k].call
<1>1. k \in 1..Len(run) /\ Len(run) \in Nat /\ run[k] \in Entry
  BY Basics
<1>2. PICK s \in Settings : c \in s.calls
  BY <1>1 DEF Entry, AllCalls
<1>3. k \in 1..setting.length /\ setting \in Settings
  BY <1>1, CallsAssumption DEF Shape
<1>4. Amount(k) \in Nat
  BY <1>3, CallsAssumption
<1>5. /\ c.kind \in Movements =>
           /\ {c.source, c.target} \subseteq Accounts
           /\ c.mint = MintOf[c.source] /\ c.mint = MintOf[c.target]
      /\ c.kind = "open" => c.target \in Accounts /\ c.mint = MintOf[c.target]
      /\ c.kind = "withFee" => c.fee \in Nat
      /\ c.kind \in {"swap", "curve"} => c.target \in Accounts
      /\ c.kind = "swap" => c.source \in Accounts
      /\ c.kind \in {"curve", "pay"} => c.source \notin Accounts
  BY <1>2, CallsAssumption
<1> HIDE DEF c
<1>6. Kind(k) = c.kind /\ Source(k) = c.source /\ Target(k) = c.target /\ run[k].call = c
  BY DEF Kind, Source, Target, c
<1> QED
  BY <1>4, <1>5, <1>6

(* What arrived is what was moved less the fee, wherever the analysis can
   tell the fee. *)
LEMMA NetIsReceived ==
  ASSUME Shape, NEW j \in DOMAIN run, Kind(j) \in Movements
  PROVE  /\ Net(j) # None => Net(j) = Received(j)
         /\ FeeTold(j) => Net(j) # None
<1>1. Amount(j) \in Nat /\ (Kind(j) = "withFee" => run[j].call.fee \in Nat)
  BY CallsAreSound
<1>2. CASE Kind(j) = "checked2022"
  BY <1>2 DEF Net, Withheld, FeeTold
<1>3. CASE Kind(j) = "withFee"
  <2>1. Withheld(j) = run[j].call.fee /\ Received(j) = Amount(j) - run[j].call.fee
    BY <1>3 DEF Withheld, Received
  <2>2. Withheld(j) # None
    BY <2>1, <1>1, <1>3, NoneAssumption
  <2>3. run[j].call.fee <= Amount(j) => Amount(j) - run[j].call.fee # None
    BY <1>1, <1>3, NoneAssumption
  <2> QED
    BY <1>1, <1>3, <2>1, <2>2, <2>3 DEF Net, FeeTold
<1>4. CASE Kind(j) \notin {"checked2022", "withFee"}
  <2>1. Withheld(j) = 0 /\ Received(j) = Amount(j) - 0
    BY <1>4 DEF Withheld, Received
  <2>2. 0 # None /\ Amount(j) - 0 # None /\ ~ 0 > Amount(j)
    BY <1>1, NoneAssumption
  <2> QED
    BY <2>1, <2>2 DEF Net
<1> QED
  BY <1>2, <1>3, <1>4

(* What the analysis takes for the input of a leg is what its call spent. *)
LEMMA InputIsSpent ==
  ASSUME Shape, CallTreeFound, NEW i \in DOMAIN run, IsSwap(i)
  PROVE  /\ Input(i) \in {None, Spent(i)}
         /\ Traceable(i) /\ Kind(i) = "swap" /\ Left(i) # {} /\ Spent(i) <= MaxSum =>
              Input(i) = Spent(i)
<1> DEFINE paid == {j \in Children(i) : Kind(j) = "pay" /\ Source(j) = Source(i)}
           moved == {j \in Nested(i) : Source(j) = Source(i)}
<1>1. Children(i) = IF Traceable(i) THEN Made(i) ELSE {}
  BY DEF CallTreeFound
<1>2. Made(i) \subseteq DOMAIN run
  BY DEF Made
<1>3. CASE Kind(i) = "swap"
  <2>1. Input(i) = Total(moved)
    BY <1>3 DEF Input
  <2>2. Traceable(i) => moved = Left(i)
    <3>1. ASSUME NEW j \in Made(i), Kind(j) = "pay"  PROVE Source(j) # Source(i)
      BY <1>2, <1>3, <3>1, CallsAreSound
    <3> QED
      BY <1>1, <3>1 DEF Nested, Left
  <2>3. ~ Traceable(i) => moved = {}
    BY <1>1 DEF Nested
  <2> HIDE DEF moved
  <2> QED
    BY <2>1, <2>2, <2>3 DEF Total, Fitting, Spent
<1>4. CASE Kind(i) = "curve"
  <2>1. Input(i) = None \/ (Input(i) = Total(paid) /\ paid # {})
    BY <1>4 DEF Input, NativeDebit
  <2>2. Traceable(i) => paid = Left(i)
    <3>1. ASSUME NEW j \in Made(i), Kind(j) \in Movements  PROVE Source(j) # Source(i)
      BY <1>2, <1>4, <3>1, CallsAreSound
    <3> QED
      BY <1>1, <3>1 DEF Left
  <2>3. ~ Traceable(i) => paid = {}
    BY <1>1
  <2> HIDE DEF paid
  <2> QED
    BY <1>4, <2>1, <2>2, <2>3 DEF Total, Fitting, Spent
<1> QED
  BY <1>3, <1>4 DEF IsSwap

(* What it takes for the output is what reached the account, less the fees. *)
LEMMA OutputIsGained ==
  ASSUME Shape, CallTreeFound, NEW i \in DOMAIN run
  PROVE  /\ Output(i) \in {None, Gained(i)}
         /\ Traceable(i) /\ Arrived(i) # {} /\ (\A j \in Arrived(i) : FeeTold(j))
              /\ Gained(i) <= MaxSum => Output(i) = Gained(i)
<1> DEFINE moved == {j \in Nested(i) : Target(j) = Target(i)}
<1>1. Children(i) = IF Traceable(i) THEN Made(i) ELSE {}
  BY DEF CallTreeFound
<1>2. Arrived(i) \subseteq DOMAIN run /\ \A j \in Arrived(i) : Kind(j) \in Movements
  BY DEF Made, Arrived
<1>3. Output(i) = TotalNet(moved)
  BY DEF Output
<1>4. Traceable(i) => moved = Arrived(i)
  BY <1>1 DEF Nested, Arrived
<1>5. ~ Traceable(i) => moved = {}
  BY <1>1 DEF Nested
<1> HIDE DEF moved
<1>6. ASSUME \A j \in Arrived(i) : Net(j) # None
      PROVE  SumFunction([j \in Arrived(i) |-> Net(j)]) = Gained(i)
  <2>1. \A j \in Arrived(i) : Net(j) = Received(j)
    BY <1>2, <1>6, NetIsReceived
  <2>2. [j \in Arrived(i) |-> Net(j)] = [j \in Arrived(i) |-> Received(j)]
    BY <2>1
  <2> QED
    BY <2>2 DEF Gained
<1>7. (\A j \in Arrived(i) : FeeTold(j)) => \A j \in Arrived(i) : Net(j) # None
  BY <1>2, NetIsReceived
<1> QED
  BY <1>3, <1>4, <1>5, <1>6, <1>7 DEF TotalNet, Fitting

(* What a call did is told by the list. *)
LEMMA SameList ==
  ASSUME UNCHANGED <<run, recorded>>, NEW i
  PROVE  /\ Kind(i)' = Kind(i) /\ Traceable(i)' = Traceable(i)
         /\ Left(i)' = Left(i) /\ Arrived(i)' = Arrived(i)
         /\ Spent(i)' = Spent(i) /\ Gained(i)' = Gained(i)
         /\ (\A j \in Arrived(i) : FeeTold(j))' = (\A j \in Arrived(i) : FeeTold(j))
<1>1. Kind(i)' = Kind(i) /\ Traceable(i)' = Traceable(i)
  BY DEF Kind, Traceable
<1>2. Left(i)' = Left(i) /\ Arrived(i)' = Arrived(i)
  BY DEF Left, Arrived, Made, Kind, Source, Target
<1>3. Spent(i)' = Spent(i)
  BY <1>2 DEF Spent
<1>4. Gained(i)' = Gained(i)
  BY <1>2 DEF Gained, Received, Kind
<1>5. (\A j \in Arrived(i) : FeeTold(j))' = (\A j \in Arrived(i) : FeeTold(j))
  BY <1>2 DEF FeeTold, Kind
<1> QED
  BY <1>1, <1>2, <1>3, <1>4, <1>5

(* An amount that the analysis gives for a leg is what its own call moved,
   whatever the calls, their order and their depth; and where the heights,
   the fees and the outcome are known and the sum has 64 bits, it gives it. *)
THEOREM AmountsCorrect == Spec => []OwnAmounts
<1>1. Init => OwnAmounts
  BY DEF Init, OwnAmounts
<1>2. ASSUME Shape, CallTreeFound, OwnAmounts, [Next]_vars PROVE OwnAmounts'
  <2>1. ASSUME NEW c, NEW h, Call(c, h) PROVE OwnAmounts'
    BY <2>1 DEF Call, OwnAmounts
  <2>2. ASSUME NEW succeeded, NEW listed, Analyse(succeeded, listed) PROVE OwnAmounts'
    <3> DEFINE known == Mints(listed)
    <3>1. run' = run /\ recorded' = recorded
      BY <2>2 DEF Analyse
    <3>2. /\ route'.legs = {Leg(i, succeeded, known) : i \in {k \in DOMAIN run : IsSwap(k)}}
          /\ route'.succeeded = succeeded
      BY <2>2 DEF Analyse
    <3> HIDE DEF known
    <3>3. ASSUME NEW leg \in route'.legs
          PROVE  /\ leg.input \in {None, Spent(leg.at)} /\ leg.output \in {None, Gained(leg.at)}
                 /\ succeeded /\ Traceable(leg.at) =>
                      /\ Kind(leg.at) = "swap" /\ Left(leg.at) # {} /\ Spent(leg.at) <= MaxSum
                         => leg.input = Spent(leg.at)
                      /\ Arrived(leg.at) # {} /\ (\A j \in Arrived(leg.at) : FeeTold(j))
                           /\ Gained(leg.at) <= MaxSum => leg.output = Gained(leg.at)
                 /\ ~ succeeded => leg.input = None /\ leg.output = None
      <4>1. PICK i \in DOMAIN run : IsSwap(i) /\ leg = Leg(i, succeeded, known)
        BY <3>2
      <4>2. /\ leg.at = i
            /\ leg.input = IF succeeded THEN Input(i) ELSE None
            /\ leg.output = IF succeeded THEN Output(i) ELSE None
        BY <4>1 DEF Leg
      <4> QED
        BY <1>2, <4>1, <4>2, InputIsSpent, OutputIsGained
    <3>4. ASSUME NEW i
          PROVE  /\ Kind(i)' = Kind(i) /\ Traceable(i)' = Traceable(i)
                 /\ Left(i)' = Left(i) /\ Arrived(i)' = Arrived(i)
                 /\ Spent(i)' = Spent(i) /\ Gained(i)' = Gained(i)
                 /\ (\A j \in Arrived(i) : FeeTold(j))' = (\A j \in Arrived(i) : FeeTold(j))
      BY <3>1, SameList
    <3>5. SUFFICES ASSUME NEW leg \in route'.legs
                   PROVE  LET i == leg.at
                          IN  /\ leg.input \in {None, Spent(i)'} /\ leg.output \in {None, Gained(i)'}
                              /\ succeeded /\ Traceable(i)' =>
                                   /\ Kind(i)' = "swap" /\ Left(i)' # {} /\ Spent(i)' <= MaxSum
                                      => leg.input = Spent(i)'
                                   /\ Arrived(i)' # {} /\ (\A j \in Arrived(i) : FeeTold(j))'
                                        /\ Gained(i)' <= MaxSum => leg.output = Gained(i)'
                              /\ ~ succeeded => leg.input = None /\ leg.output = None
      BY <3>2 DEF OwnAmounts
    <3> QED
      BY <3>3, <3>4
  <2>3. CASE UNCHANGED vars
    BY <1>2, <2>3 DEF vars, OwnAmounts, Spent, Gained, Left, Arrived, Made, Traceable, FeeTold,
                      Received, Kind, Source, Target
  <2> QED
    BY <1>2, <2>1, <2>2, <2>3 DEF Next
<1>3. Inv => Shape
  BY DEF Inv
<1> QED
  BY <1>1, <1>2, <1>3, Invariance, CallTree, PTL DEF Spec

(* What is said of a call is what it did: neither more nor less. *)
THEOREM EvidenceCorrect == Spec => []OwnEvidence
  BY AmountsCorrect, UnknownsCorrect, PTL DEF OwnEvidence

-----------------------------------------------------------------------------
(* Mints. What is known of the accounts is the true mint of some of them, so *)
(* that the folds over the calls are folds over sets of accounts.            *)

(* Counting from 0 to L, one comes past everything. *)
LEMMA Counting ==
  ASSUME NEW L \in Nat, NEW T, 0 \in T, \A n \in 1..L : n - 1 \in T => n \in T
  PROVE  \A n \in 0..L : n \in T
<1> DEFINE U == {n \in Nat : n <= L /\ n \notin T}
<1>1. SUFFICES ASSUME U # {} PROVE FALSE
  OBVIOUS
<1>2. IsWellFoundedOn(OpToRel(<, Nat), Nat)
  BY NatLessThanWellFounded
<1>3. PICK n \in U : \A m \in U : <<m, n>> \notin OpToRel(<, Nat)
  BY <1>1, <1>2, WFMin
<1>4. n # 0 /\ n - 1 \in Nat /\ n - 1 < n /\ n \in 1..L
  OBVIOUS
<1>5. n - 1 \notin U
  BY <1>3, <1>4 DEF OpToRel
<1> QED
  BY <1>4, <1>5

(* L steps that never leave S. *)
Stays(S, L, step) == \A n \in 1..L : \A x \in S : step[n][x] \in S

(* Steps that stay in a set can be taken one after another. *)
LEMMA Stepwise ==
  ASSUME NEW S, NEW c \in S, NEW L \in Nat, NEW step, Stays(S, L, step)
  PROVE  \E f \in [0..L -> S] : f[0] = c /\ \A n \in 1..L : f[n] = step[n][f[n - 1]]
<1> DEFINE Taken(m, f) == f[0] = c /\ \A n \in 1..m : f[n] = step[n][f[n - 1]]
           T == {m \in 0..L : \E f \in [0..m -> S] : Taken(m, f)}
<1>1. 0 \in T
  <2> DEFINE f == [n \in 0..0 |-> c]
  <2>1. f \in [0..0 -> S] /\ f[0] = c /\ 0 \in 0..L /\ 1..0 = {}
    OBVIOUS
  <2> HIDE DEF f
  <2> QED
    BY <2>1
<1>2. ASSUME NEW m \in 1..L, m - 1 \in T PROVE m \in T
  <2>1. PICK f \in [0..(m - 1) -> S] : Taken(m - 1, f)
    BY <1>2
  <2> DEFINE g == [n \in 0..m |-> IF n = m THEN step[m][f[m - 1]] ELSE f[n]]
  <2>2. m \in Nat /\ m - 1 \in 0..(m - 1) /\ m # 0
    OBVIOUS
  <2>3. step[m][f[m - 1]] \in S
    BY <2>1, <2>2 DEF Stays
  <2>4. g \in [0..m -> S]
    BY <2>1, <2>2, <2>3
  <2>5. g[0] = c
    BY <2>1, <2>2
  <2>6. ASSUME NEW n \in 1..m PROVE g[n] = step[n][g[n - 1]]
    <3>1. n - 1 \in 0..m /\ n - 1 # m /\ g[n - 1] = f[n - 1]
      BY <2>2
    <3>2. CASE n = m
      BY <3>1, <3>2
    <3>3. CASE n # m
      <4>1. n \in 1..(m - 1) /\ g[n] = f[n]
        BY <3>3, <2>2
      <4> QED
        BY <4>1, <3>1, <2>1
    <3> QED
      BY <3>2, <3>3
  <2> HIDE DEF g
  <2> QED
    BY <2>4, <2>5, <2>6
<1> HIDE DEF T
<1>3. \A n \in 0..L : n \in T
  BY <1>1, <1>2, Counting
<1>4. L \in T
  BY <1>3
<1> QED
  BY <1>4 DEF T

(* The mints of the accounts in A, and no other. *)
Tells(A) == [a \in Accounts |-> IF a \in A THEN MintOf[a] ELSE None]

(* The accounts whose mint a call names. *)
NamedBy(i) ==
  IF Kind(i) \in Movements \ {"plain"} THEN Ends(i) ELSE IF Kind(i) = "open" THEN {Target(i)} ELSE {}

(* The accounts known after a call, from those known before it. *)
SpreadTo(i, A) == IF Kind(i) = "plain" /\ Ends(i) \cap A # {} THEN A \cup Ends(i) ELSE A

LEMMA NamedTells ==
  ASSUME Shape, NEW i \in DOMAIN run, NEW A
  PROVE  Named(Tells(A), run[i].call) = Tells(A \cup NamedBy(i)) /\ NamedBy(i) \subseteq Accounts
<1> DEFINE c == run[i].call
<1>1. Kind(i) = c.kind /\ Source(i) = c.source /\ Target(i) = c.target
  BY DEF Kind, Source, Target
<1>2. /\ c.kind \in Movements => /\ c.source \in Accounts /\ c.target \in Accounts
                                 /\ c.mint = MintOf[c.source] /\ c.mint = MintOf[c.target]
      /\ c.kind = "open" => c.target \in Accounts /\ c.mint = MintOf[c.target]
  BY <1>1, CallsAreSound
<1> HIDE DEF c
<1>3. CASE c.kind \in Movements \ {"plain"}
  <2>1. Named(Tells(A), c) = [Tells(A) EXCEPT ![c.source] = c.mint, ![c.target] = c.mint]
    BY <1>3 DEF Named, Movements
  <2>2. NamedBy(i) = {c.source, c.target}
    BY <1>1, <1>3 DEF NamedBy, Ends
  <2>3. [Tells(A) EXCEPT ![c.source] = c.mint, ![c.target] = c.mint] = Tells(A \cup {c.source, c.target})
    BY <1>2, <1>3 DEF Tells
  <2> QED
    BY <1>2, <1>3, <2>1, <2>2, <2>3 DEF c
<1>4. CASE c.kind = "open"
  <2>1. Named(Tells(A), c) = [Tells(A) EXCEPT ![c.target] = c.mint]
    BY <1>4 DEF Named, Movements
  <2>2. NamedBy(i) = {c.target}
    BY <1>1, <1>4 DEF NamedBy, Movements
  <2>3. [Tells(A) EXCEPT ![c.target] = c.mint] = Tells(A \cup {c.target})
    BY <1>2, <1>4 DEF Tells
  <2> QED
    BY <1>2, <1>4, <2>1, <2>2, <2>3 DEF c
<1>5. CASE c.kind \notin Movements \ {"plain"} /\ c.kind # "open"
  BY <1>1, <1>5 DEF Named, NamedBy, c
<1> QED
  BY <1>3, <1>4, <1>5

LEMMA SpreadTells ==
  ASSUME Shape, NEW i \in DOMAIN run, NEW A
  PROVE  /\ Spread(Tells(A), run[i].call) = Tells(SpreadTo(i, A))
         /\ Kind(i) = "plain" => Ends(i) \subseteq Accounts
<1> DEFINE c == run[i].call
<1>1. Kind(i) = c.kind /\ Ends(i) = {c.source, c.target} /\ run[i].call = c
  BY DEF Kind, Source, Target, Ends
<1>2. c.kind = "plain" => /\ c.source \in Accounts /\ c.target \in Accounts
                          /\ MintOf[c.source] = MintOf[c.target]
  BY CallsAreSound DEF Kind, Source, Target, Movements
<1> HIDE DEF c
<1>3. CASE c.kind # "plain"
  BY <1>1, <1>3 DEF Spread, SpreadTo
<1>4. CASE c.kind = "plain"
  <2> DEFINE k == Tells(A)
             mint == IF k[c.source] # None THEN k[c.source] ELSE k[c.target]
  <2>1. /\ k[c.source] = IF c.source \in A THEN MintOf[c.source] ELSE None
        /\ k[c.target] = IF c.target \in A THEN MintOf[c.target] ELSE None
    BY <1>2, <1>4 DEF Tells
  <2>2. MintOf[c.source] # None /\ MintOf[c.target] # None
    BY <1>2, <1>4, MintAssumption
  <2>3. Spread(k, c) = [k EXCEPT ![c.source] = IF @ = None THEN mint ELSE @,
                                 ![c.target] = IF @ = None THEN mint ELSE @]
    BY <1>4 DEF Spread
  <2>4. mint = IF c.source \in A \/ c.target \in A THEN MintOf[c.source] ELSE None
    BY <1>2, <1>4, <2>1, <2>2
  <2> HIDE DEF mint
  <2>5. Spread(k, c) = [a \in Accounts |-> IF a \in {c.source, c.target} /\ k[a] = None
                                         THEN mint ELSE k[a]]
    BY <1>2, <1>4, <2>3 DEF Tells
  <2>6. \A a \in Accounts : k[a] = IF a \in A THEN MintOf[a] ELSE None
    BY DEF Tells
  <2> HIDE DEF k
  <2>7. \A a \in Accounts :
          (IF a \in {c.source, c.target} /\ k[a] = None THEN mint ELSE k[a])
            = IF a \in SpreadTo(i, A) THEN MintOf[a] ELSE None
    <3> SUFFICES ASSUME NEW a \in Accounts
                 PROVE  (IF a \in {c.source, c.target} /\ k[a] = None THEN mint ELSE k[a])
                          = IF a \in SpreadTo(i, A) THEN MintOf[a] ELSE None
      OBVIOUS
    <3>1. MintOf[a] # None
      BY MintAssumption
    <3> QED
      BY <1>1, <1>2, <1>4, <2>4, <2>6, <3>1 DEF SpreadTo
  <2>8. Spread(k, c) = Tells(SpreadTo(i, A))
    BY <2>5, <2>7 DEF Tells
  <2> QED
    BY <1>1, <1>2, <1>4, <2>8 DEF k
<1> QED
  BY <1>3, <1>4

(* What the calls name is named of just the accounts they name. *)
LEMMA EvidenceTells ==
  ASSUME Shape, NEW A \in SUBSET Accounts
  PROVE  /\ A \cup NamedAccounts \in SUBSET Accounts
         /\ Evidence(A) = Tells(A \cup NamedAccounts)
<1> DEFINE L == Len(run)
           b == [n \in 0..L |-> A \cup UNION {NamedBy(i) : i \in 1..n}]
           f == [n \in 0..L |-> Tells(b[n])]
           listed == [a \in Accounts |-> IF a \in A THEN MintOf[a] ELSE None]
           d == CHOOSE d : d = [n \in 0..L |->
                  IF n = 0 THEN listed ELSE Named(d[n - 1], run[n].call)]
<1>1. L \in Nat /\ DOMAIN run = 1..L
  BY Basics
<1>2. \A i \in 1..L : \A X : /\ Named(Tells(X), run[i].call) = Tells(X \cup NamedBy(i))
                            /\ NamedBy(i) \subseteq Accounts
  BY <1>1, NamedTells
<1>3. b[0] = A
  <2>1. 1..0 = {} /\ 0 \in 0..L
    BY <1>1
  <2> QED
    BY <2>1
<1>4. ASSUME NEW n \in 1..L PROVE b[n] = b[n - 1] \cup NamedBy(n)
  <2>1. n \in 0..L /\ n - 1 \in 0..L /\ \A i : i \in 1..n <=> i \in 1..(n - 1) \/ i = n
    BY <1>1
  <2> QED
    BY <2>1
<1>5. b[L] = A \cup NamedAccounts
  <2>1. L \in 0..L
    BY <1>1
  <2>2. UNION {NamedBy(i) : i \in 1..L} = NamedAccounts
    <3> SUFFICES ASSUME NEW a
                 PROVE  (\E i \in 1..L : a \in NamedBy(i)) <=> a \in NamedAccounts
      OBVIOUS
    <3>1. \A i \in 1..L : a \in NamedBy(i) <=> \/ (Kind(i) \in Movements \ {"plain"} /\ a \in Ends(i))
                                             \/ (Kind(i) = "open" /\ a = Target(i))
      BY DEF NamedBy, Movements
    <3> QED
      <4>1. a \in NamedAccounts <=>
              \/ \E i \in DOMAIN run : Kind(i) \in Movements \ {"plain"} /\ a \in Ends(i)
              \/ \E i \in DOMAIN run : Kind(i) = "open" /\ a = Target(i)
        <5> DEFINE P == {k \in DOMAIN run : Kind(k) \in Movements \ {"plain"}}
                   Q == {k \in DOMAIN run : Kind(k) = "open"}
                   U == UNION {Ends(i) : i \in P}
                   V == {Target(i) : i \in Q}
        <5>1. NamedAccounts = U \cup V
          BY DEF NamedAccounts
        <5>2. /\ \A i : i \in P <=> i \in DOMAIN run /\ Kind(i) \in Movements \ {"plain"}
              /\ \A i : i \in Q <=> i \in DOMAIN run /\ Kind(i) = "open"
          OBVIOUS
        <5> HIDE DEF P, Q
        <5>3. a \in U <=> \E i \in P : a \in Ends(i)
          OBVIOUS
        <5>4. a \in V <=> \E i \in Q : a = Target(i)
          OBVIOUS
        <5> HIDE DEF U, V
        <5>5. a \in NamedAccounts <=> (\E i \in P : a \in Ends(i)) \/ (\E i \in Q : a = Target(i))
          BY <5>1, <5>3, <5>4
        <5> QED
          BY <5>2, <5>5
      <4> QED
        BY <1>1, <3>1, <4>1
  <2> QED
    BY <2>1, <2>2
<1> HIDE DEF b
<1>6. f = [n \in 0..L |-> IF n = 0 THEN listed ELSE Named(f[n - 1], run[n].call)]
  <2>1. ASSUME NEW n \in 0..L, n # 0 PROVE f[n] = Named(f[n - 1], run[n].call)
    <3>1. n \in 1..L /\ n - 1 \in 0..L
      BY <1>1, <2>1
    <3>2. f[n] = Tells(b[n]) /\ f[n - 1] = Tells(b[n - 1])
      BY <3>1
    <3> QED
      BY <1>2, <1>4, <3>1, <3>2
  <2>2. Tells(A) = listed
    BY DEF Tells
  <2> HIDE DEF listed
  <2> QED
    BY <1>3, <2>1, <2>2
<1> HIDE DEF f
<1>7. d = [n \in 0..L |-> IF n = 0 THEN listed ELSE Named(d[n - 1], run[n].call)]
  BY <1>6
<1>8. Evidence(A) = d[L]
  BY DEF Evidence
<1> HIDE DEF d, listed
<1> DEFINE T == {n \in 0..L : d[n] = Tells(b[n])}
<1>9. 0 \in T
  BY <1>1, <1>3, <1>7 DEF Tells, listed
<1>10. ASSUME NEW n \in 1..L, n - 1 \in T PROVE n \in T
  <2>1. n \in 0..L /\ n # 0 /\ d[n] = Named(d[n - 1], run[n].call)
    BY <1>1, <1>7
  <2> QED
    BY <1>2, <1>4, <1>10, <2>1
<1>11. L \in T
  <2> HIDE DEF T
  <2>1. \A n \in 0..L : n \in T
    BY <1>1, <1>9, <1>10, Counting
  <2> QED
    BY <1>1, <2>1
<1>12. b[L] \in SUBSET Accounts
  <2>1. L \in 0..L
    BY <1>1
  <2> QED
    BY <1>2, <2>1 DEF b
<1> QED
  BY <1>5, <1>8, <1>11, <1>12

(* One pass goes at least one transfer further, and over transfers only. *)
LEMMA PassTells ==
  ASSUME Shape, NEW A \in SUBSET Accounts
  PROVE  \E B \in SUBSET Accounts :
           /\ Pass(Tells(A)) = Tells(B)
           /\ Joined(A) \subseteq B
           /\ \A C \in SUBSET Accounts : A \subseteq C /\ Joined(C) \subseteq C => B \subseteq C
<1> DEFINE L == Len(run)
           step == [n \in 1..L |-> [X \in SUBSET Accounts |-> SpreadTo(n, X)]]
           d == CHOOSE d : d = [n \in 0..L |->
                  IF n = 0 THEN Tells(A) ELSE Spread(d[n - 1], run[n].call)]
<1>1. L \in Nat /\ DOMAIN run = 1..L
  BY Basics
<1>2. \A i \in 1..L : /\ \A X : Spread(Tells(X), run[i].call) = Tells(SpreadTo(i, X))
                      /\ Kind(i) = "plain" => Ends(i) \subseteq Accounts
  BY <1>1, SpreadTells
<1>3. \A i \in 1..L : \A X \in SUBSET Accounts : SpreadTo(i, X) \in SUBSET Accounts
  BY <1>2 DEF SpreadTo
<1>4. \A n \in 1..L : \A X \in SUBSET Accounts : step[n][X] = SpreadTo(n, X)
  OBVIOUS
<1> HIDE DEF step
<1>5. \A n \in 1..L : \A X \in SUBSET Accounts : step[n][X] \in SUBSET Accounts
  BY <1>3, <1>4
<1>6. PICK b \in [0..L -> SUBSET Accounts] : b[0] = A /\ \A n \in 1..L : b[n] = step[n][b[n - 1]]
  <2> DEFINE S == SUBSET Accounts
  <2>1. A \in S /\ Stays(S, L, step)
    BY <1>5 DEF Stays
  <2>2. L \in Nat
    BY <1>1
  <2> HIDE DEF S, L
  <2>3. \E b \in [0..L -> S] : b[0] = A /\ \A n \in 1..L : b[n] = step[n][b[n - 1]]
    BY <2>1, <2>2, Stepwise
  <2> QED
    BY <2>3 DEF S, L
<1>7. ASSUME NEW n \in 1..L
      PROVE  /\ n \in 0..L /\ n # 0 /\ n - 1 \in 0..L /\ b[n - 1] \in SUBSET Accounts
             /\ b[n] = SpreadTo(n, b[n - 1])
  <2>1. n \in 0..L /\ n # 0 /\ n - 1 \in 0..L
    BY <1>1
  <2> QED
    BY <1>4, <1>6, <2>1
<1> DEFINE f == [n \in 0..L |-> Tells(b[n])]
<1>8. f = [n \in 0..L |-> IF n = 0 THEN Tells(A) ELSE Spread(f[n - 1], run[n].call)]
  <2>1. ASSUME NEW n \in 0..L, n # 0 PROVE f[n] = Spread(f[n - 1], run[n].call)
    <3>1. n \in 1..L
      BY <1>1, <2>1
    <3>2. f[n] = Tells(b[n]) /\ f[n - 1] = Tells(b[n - 1])
      BY <3>1, <1>7
    <3> QED
      BY <1>2, <1>7, <3>1, <3>2
  <2> QED
    BY <1>6, <2>1
<1> HIDE DEF f
<1>9. d = [n \in 0..L |-> IF n = 0 THEN Tells(A) ELSE Spread(d[n - 1], run[n].call)]
  BY <1>8
<1>10. Pass(Tells(A)) = d[L]
  BY DEF Pass
<1> HIDE DEF d
<1>11. d[L] = Tells(b[L])
  <2> DEFINE T == {n \in 0..L : d[n] = Tells(b[n])}
  <2>1. 0 \in T
    BY <1>1, <1>6, <1>9
  <2>2. ASSUME NEW n \in 1..L, n - 1 \in T PROVE n \in T
    <3>1. d[n] = Spread(d[n - 1], run[n].call)
      BY <1>7, <1>9
    <3> QED
      BY <1>2, <1>7, <2>2, <3>1
  <2> HIDE DEF T
  <2>3. \A n \in 0..L : n \in T
    BY <1>1, <2>1, <2>2, Counting
  <2> QED
    BY <1>1, <2>3 DEF T
<1>12. Joined(A) \subseteq b[L]
  <2> DEFINE Far(n) == A \subseteq b[n] /\ \A i \in 1..n :
                         Kind(i) = "plain" /\ Ends(i) \cap A # {} => Ends(i) \subseteq b[n]
             T == {n \in 0..L : Far(n)}
  <2>1. 0 \in T
    BY <1>1, <1>6
  <2>2. ASSUME NEW n \in 1..L, n - 1 \in T PROVE n \in T
    <3>1. b[n - 1] \subseteq b[n] /\ A \subseteq b[n]
      BY <1>7, <2>2 DEF SpreadTo
    <3>2. ASSUME NEW i \in 1..n, Kind(i) = "plain", Ends(i) \cap A # {} PROVE Ends(i) \subseteq b[n]
      <4>1. CASE i = n
        BY <1>7, <2>2, <3>2, <4>1 DEF SpreadTo
      <4>2. CASE i # n
        <5>1. i \in 1..(n - 1)
          BY <1>1, <4>2
        <5> QED
          BY <2>2, <3>1, <3>2, <5>1
      <4> QED
        BY <4>1, <4>2
    <3> QED
      BY <1>7, <3>1, <3>2
  <2> HIDE DEF T
  <2>3. \A n \in 0..L : n \in T
    BY <1>1, <2>1, <2>2, Counting
  <2>4. Far(L)
    BY <1>1, <2>3 DEF T
  <2> QED
    BY <1>1, <2>4 DEF Joined
<1>13. ASSUME NEW C \in SUBSET Accounts, A \subseteq C, Joined(C) \subseteq C PROVE b[L] \subseteq C
  <2> DEFINE T == {n \in 0..L : b[n] \subseteq C}
  <2>1. 0 \in T
    BY <1>1, <1>6, <1>13
  <2>2. ASSUME NEW n \in 1..L, n - 1 \in T PROVE n \in T
    <3>1. Kind(n) = "plain" /\ Ends(n) \cap C # {} => Ends(n) \subseteq C
      BY <1>1, <1>2, <1>13 DEF Joined
    <3> QED
      BY <1>7, <2>2, <3>1 DEF SpreadTo
  <2> HIDE DEF T
  <2>3. \A n \in 0..L : n \in T
    BY <1>1, <2>1, <2>2, Counting
  <2> QED
    BY <1>1, <2>3 DEF T
<1>14. b[L] \in SUBSET Accounts
  BY <1>1, <1>6
<1> QED
  BY <1>10, <1>11, <1>12, <1>13, <1>14

(* Joining more accounts joins more. *)
LEMMA JoinedGrows ==
  /\ \A A \in SUBSET Accounts : Joined(A) \in SUBSET Accounts /\ A \subseteq Joined(A)
  /\ \A A \in SUBSET Accounts, B \in SUBSET Accounts : A \subseteq B => Joined(A) \subseteq Joined(B)
  BY DEF Joined

(* Reach takes one step of Joined after another, as many as there are
   accounts. *)
LEMMA ReachSteps ==
  ASSUME NEW A \in SUBSET Accounts
  PROVE  LET N == Cardinality(Accounts)
         IN  /\ N \in Nat
             /\ \E r \in [0..N -> SUBSET Accounts] :
                  r[0] = A /\ Reach(A) = r[N] /\ \A n \in 1..N : r[n] = Joined(r[n - 1])
<1> DEFINE N == Cardinality(Accounts)
           S == SUBSET Accounts
           step == [n \in 1..N |-> [X \in S |-> Joined(X)]]
           d == CHOOSE d : d = [n \in 0..N |-> IF n = 0 THEN A ELSE Joined(d[n - 1])]
<1>1. N \in Nat
  BY AccountsAssumption, FS_CardinalityType
<1>2. Reach(A) = d[N]
  BY DEF Reach
<1>3. Stays(S, N, step) /\ A \in S
  BY JoinedGrows DEF Stays
<1>4. \A n \in 1..N : \A X \in S : step[n][X] = Joined(X)
  OBVIOUS
<1> HIDE DEF N, S, step, d
<1>5. PICK r \in [0..N -> S] : r[0] = A /\ \A n \in 1..N : r[n] = step[n][r[n - 1]]
  BY <1>1, <1>3, Stepwise
<1>6. ASSUME NEW n \in 1..N
      PROVE  n \in 0..N /\ n # 0 /\ n - 1 \in 0..N /\ r[n] = Joined(r[n - 1])
  <2>1. n \in 0..N /\ n # 0 /\ n - 1 \in 0..N
    BY <1>1
  <2> QED
    BY <1>4, <1>5, <2>1
<1>7. r = [n \in 0..N |-> IF n = 0 THEN A ELSE Joined(r[n - 1])]
  <2>1. \A n \in 0..N : n # 0 => n \in 1..N
    BY <1>1
  <2> QED
    BY <1>5, <1>6, <2>1
<1>8. d = [n \in 0..N |-> IF n = 0 THEN A ELSE Joined(d[n - 1])]
  BY <1>7 DEF d
<1>9. d[N] = r[N]
  <2> DEFINE T == {n \in 0..N : d[n] = r[n]}
  <2>1. 0 \in T
    BY <1>1, <1>5, <1>8
  <2>2. ASSUME NEW n \in 1..N, n - 1 \in T PROVE n \in T
    BY <1>6, <1>8, <2>2
  <2> HIDE DEF T
  <2>3. \A n \in 0..N : n \in T
    BY <1>1, <2>1, <2>2, Counting
  <2> QED
    BY <1>1, <2>3 DEF T
<1> QED
  BY <1>1, <1>2, <1>5, <1>6, <1>9 DEF N, S

(* That many are enough: as long as one adds something, it adds at least one
   of the accounts. What they find is the least set that transfers do not
   leave. *)
LEMMA ReachCloses ==
  ASSUME NEW A \in SUBSET Accounts
  PROVE  /\ Reach(A) \in SUBSET Accounts /\ A \subseteq Reach(A)
         /\ Joined(Reach(A)) = Reach(A)
         /\ \A C \in SUBSET Accounts : A \subseteq C /\ Joined(C) \subseteq C => Reach(A) \subseteq C
<1> DEFINE N == Cardinality(Accounts)
<1>1. N \in Nat
  BY ReachSteps
<1>2. PICK r \in [0..N -> SUBSET Accounts] :
        r[0] = A /\ Reach(A) = r[N] /\ \A n \in 1..N : r[n] = Joined(r[n - 1])
  BY ReachSteps
<1>3. \A X \in SUBSET Accounts :
        /\ IsFiniteSet(X) /\ Cardinality(X) \in Nat
        /\ Cardinality(X) <= N /\ (Cardinality(X) = N => X = Accounts)
  BY AccountsAssumption, FS_Subset, FS_CardinalityType
<1>4. \A X \in SUBSET Accounts, Y \in SUBSET Accounts :
        X \subseteq Y /\ X # Y => Cardinality(Y) >= Cardinality(X) + 1
  <2> SUFFICES ASSUME NEW X \in SUBSET Accounts, NEW Y \in SUBSET Accounts, X \subseteq Y, X # Y
               PROVE  Cardinality(Y) >= Cardinality(X) + 1
    OBVIOUS
  <2>1. Cardinality(X) <= Cardinality(Y) /\ Cardinality(X) # Cardinality(Y)
    BY <1>3, FS_Subset
  <2> QED
    BY <1>3, <2>1
<1> HIDE DEF N
<1>5. ASSUME NEW n \in 1..N
      PROVE  /\ n \in 0..N /\ n - 1 \in 0..N /\ n \in Nat
             /\ r[n] = Joined(r[n - 1]) /\ r[n - 1] \in SUBSET Accounts /\ r[n] \in SUBSET Accounts
  <2>1. n \in 0..N /\ n - 1 \in 0..N /\ n \in Nat
    BY <1>1
  <2> QED
    BY <1>2, <2>1
<1>6. r[N] \in SUBSET Accounts
  BY <1>1, <1>2
<1>7. A \subseteq r[N]
  <2> DEFINE T == {n \in 0..N : A \subseteq r[n]}
  <2>1. 0 \in T
    BY <1>1, <1>2
  <2>2. ASSUME NEW n \in 1..N, n - 1 \in T PROVE n \in T
    BY <1>5, <2>2, JoinedGrows
  <2> HIDE DEF T
  <2>3. \A n \in 0..N : n \in T
    BY <1>1, <2>1, <2>2, Counting
  <2> QED
    BY <1>1, <2>3 DEF T
<1>8. Joined(r[N]) = r[N]
  <2> DEFINE T == {n \in 0..N : Joined(r[n]) = r[n] \/ Cardinality(r[n]) >= n}
  <2>1. 0 \in T
    <3>1. Cardinality(r[0]) \in Nat
      BY <1>2, <1>3
    <3> QED
      BY <1>1, <3>1
  <2>2. ASSUME NEW n \in 1..N, n - 1 \in T PROVE n \in T
    <3>1. CASE Joined(r[n - 1]) = r[n - 1]
      BY <1>5, <3>1
    <3>2. CASE Joined(r[n - 1]) # r[n - 1]
      <4>1. Cardinality(r[n - 1]) >= n - 1
        BY <2>2, <3>2
      <4>2. Cardinality(r[n]) >= Cardinality(r[n - 1]) + 1
        BY <1>4, <1>5, <3>2, JoinedGrows
      <4>3. Cardinality(r[n]) \in Nat /\ Cardinality(r[n - 1]) \in Nat
        BY <1>3, <1>5
      <4>4. Cardinality(r[n]) >= n
        BY <1>5, <4>1, <4>2, <4>3
      <4> QED
        BY <1>5, <4>4
    <3> QED
      BY <3>1, <3>2
  <2> HIDE DEF T
  <2>3. \A n \in 0..N : n \in T
    BY <1>1, <2>1, <2>2, Counting
  <2>4. Joined(r[N]) = r[N] \/ Cardinality(r[N]) >= N
    BY <1>1, <2>3 DEF T
  <2>5. CASE Cardinality(r[N]) >= N
    <3>1. r[N] = Accounts
      BY <1>1, <1>3, <1>6, <2>5
    <3> QED
      BY <3>1, <1>6, JoinedGrows
  <2> QED
    BY <2>4, <2>5
<1>9. ASSUME NEW C \in SUBSET Accounts, A \subseteq C, Joined(C) \subseteq C PROVE r[N] \subseteq C
  <2> DEFINE T == {n \in 0..N : r[n] \subseteq C}
  <2>1. 0 \in T
    BY <1>1, <1>2, <1>9
  <2>2. ASSUME NEW n \in 1..N, n - 1 \in T PROVE n \in T
    <3>1. Joined(r[n - 1]) \subseteq Joined(C)
      BY <1>5, <2>2, JoinedGrows
    <3> QED
      BY <1>5, <1>9, <3>1
  <2> HIDE DEF T
  <2>3. \A n \in 0..N : n \in T
    BY <1>1, <2>1, <2>2, Counting
  <2> QED
    BY <1>1, <2>3 DEF T
<1> QED
  BY <1>2, <1>6, <1>7, <1>8, <1>9

(* So are as many passes of the analysis. *)
LEMMA PassesTell ==
  ASSUME Shape, NEW A \in SUBSET Accounts
  PROVE  PassAll(Tells(A)) = Tells(Reach(A)) /\ Pass(Tells(Reach(A))) = Tells(Reach(A))
<1> DEFINE N == Cardinality(Accounts)
           S == SUBSET Accounts
           Ahead(X, B) == /\ Pass(Tells(X)) = Tells(B) /\ Joined(X) \subseteq B
                          /\ \A C \in S : X \subseteq C /\ Joined(C) \subseteq C => B \subseteq C
           q == [X \in S |-> CHOOSE B \in S : Ahead(X, B)]
           step == [n \in 1..N |-> q]
           d == CHOOSE d : d = [n \in 0..N |-> IF n = 0 THEN Tells(A) ELSE Pass(d[n - 1])]
<1>1. N \in Nat
  BY ReachSteps
<1>2. PassAll(Tells(A)) = d[N]
  BY DEF PassAll
<1>3. \A X \in S : q[X] \in S /\ Ahead(X, q[X])
  <2>1. ASSUME NEW X \in S PROVE \E B \in S : Ahead(X, B)
    <3>1. PICK B \in S : Ahead(X, B)
      BY PassTells, Zenon
    <3> QED
      BY <3>1, Zenon
  <2> HIDE DEF Ahead, S
  <2> QED
    BY <2>1
<1>4. A \in S /\ Reach(A) \in S /\ A \subseteq Reach(A) /\ Joined(Reach(A)) = Reach(A)
  BY ReachCloses
<1> HIDE DEF q
<1>5. Stays(S, N, step) /\ \A n \in 1..N : step[n] = q
  BY <1>3 DEF Stays
<1> HIDE DEF N, S, step, d
<1>6. PICK b \in [0..N -> S] : b[0] = A /\ \A n \in 1..N : b[n] = step[n][b[n - 1]]
  BY <1>1, <1>4, <1>5, Stepwise
<1>7. ASSUME NEW n \in 1..N
      PROVE  /\ n \in 0..N /\ n # 0 /\ n - 1 \in 0..N /\ b[n - 1] \in S /\ b[n] \in S
             /\ Ahead(b[n - 1], b[n])
  <2>1. n \in 0..N /\ n # 0 /\ n - 1 \in 0..N
    BY <1>1
  <2>2. b[n] = q[b[n - 1]] /\ b[n - 1] \in S /\ b[n] \in S
    BY <1>5, <1>6, <2>1
  <2> HIDE DEF Ahead
  <2> QED
    BY <1>3, <2>1, <2>2
<1> DEFINE f == [n \in 0..N |-> Tells(b[n])]
<1>8. f = [n \in 0..N |-> IF n = 0 THEN Tells(A) ELSE Pass(f[n - 1])]
  <2>1. ASSUME NEW n \in 0..N, n # 0 PROVE f[n] = Pass(f[n - 1])
    <3>1. n \in 1..N
      BY <1>1, <2>1
    <3>2. f[n] = Tells(b[n]) /\ f[n - 1] = Tells(b[n - 1])
      BY <3>1, <1>7
    <3> QED
      BY <1>7, <3>1, <3>2
  <2> QED
    BY <1>6, <2>1
<1> HIDE DEF f
<1>9. d = [n \in 0..N |-> IF n = 0 THEN Tells(A) ELSE Pass(d[n - 1])]
  BY <1>8 DEF d
<1>10. d[N] = Tells(b[N])
  <2> DEFINE T == {n \in 0..N : d[n] = Tells(b[n])}
  <2>1. 0 \in T
    BY <1>1, <1>6, <1>9
  <2>2. ASSUME NEW n \in 1..N, n - 1 \in T PROVE n \in T
    BY <1>7, <1>9, <2>2
  <2> HIDE DEF T
  <2>3. \A n \in 0..N : n \in T
    BY <1>1, <2>1, <2>2, Counting
  <2> QED
    BY <1>1, <2>3 DEF T
<1>11. b[N] \subseteq Reach(A)
  <2> DEFINE T == {n \in 0..N : b[n] \subseteq Reach(A)}
  <2>1. 0 \in T
    BY <1>1, <1>4, <1>6
  <2>2. ASSUME NEW n \in 1..N, n - 1 \in T PROVE n \in T
    BY <1>4, <1>7, <2>2
  <2> HIDE DEF T
  <2>3. \A n \in 0..N : n \in T
    BY <1>1, <2>1, <2>2, Counting
  <2> QED
    BY <1>1, <2>3 DEF T
<1>12. Reach(A) \subseteq b[N]
  <2>1. PICK r \in [0..N -> S] :
          r[0] = A /\ Reach(A) = r[N] /\ \A n \in 1..N : r[n] = Joined(r[n - 1])
    BY ReachSteps DEF N, S
  <2> DEFINE T == {n \in 0..N : r[n] \subseteq b[n]}
  <2>2. 0 \in T
    BY <1>1, <1>6, <2>1
  <2>3. ASSUME NEW n \in 1..N, n - 1 \in T PROVE n \in T
    <3>1. r[n] = Joined(r[n - 1]) /\ r[n - 1] \in S /\ r[n - 1] \subseteq b[n - 1]
      BY <1>7, <2>1, <2>3
    <3>2. Joined(r[n - 1]) \subseteq Joined(b[n - 1])
      BY <1>7, <3>1, JoinedGrows DEF S
    <3> QED
      BY <1>7, <3>1, <3>2
  <2> HIDE DEF T
  <2>4. \A n \in 0..N : n \in T
    BY <1>1, <2>2, <2>3, Counting
  <2> QED
    BY <1>1, <2>1, <2>4 DEF T
<1>13. b[N] = Reach(A)
  BY <1>11, <1>12
<1>14. Pass(Tells(Reach(A))) = Tells(Reach(A))
  <2>1. Ahead(Reach(A), q[Reach(A)])
    <3> HIDE DEF Ahead
    <3> QED
      BY <1>3, <1>4
  <2>2. q[Reach(A)] = Reach(A)
    BY <1>4, <2>1
  <2> QED
    BY <2>1, <2>2
<1> QED
  BY <1>2, <1>10, <1>13, <1>14

LEMMA SameReach ==
  ASSUME UNCHANGED run, NEW A
  PROVE  Reach(A)' = Reach(A)
<1>1. ASSUME NEW X PROVE Joined(X)' = Joined(X)
  BY DEF Joined, Ends, Kind, Source, Target
<1> QED
  BY <1>1 DEF Reach

(* What the analysis finds: the accounts reached, and legs that know no more. *)
LEMMA MintsTell ==
  ASSUME Shape, NEW A \in SUBSET Accounts
  PROVE  /\ Mints(A) = Tells(Reach(A \cup NamedAccounts))
         /\ Pass(Mints(A)) = Mints(A)
  BY EvidenceTells, PassesTell DEF Mints

(* A mint is known of exactly the accounts that plain transfers join to one
   whose mint is named, and it is the right one: however many accounts,
   transfers and calls there are, and in whatever order. *)
THEOREM MintsCorrect == Spec => []MintsFound
<1>1. Init => MintsFound
  BY DEF Init, MintsFound
<1>2. ASSUME Shape, MintsFound, [Next]_vars PROVE MintsFound'
  <2>1. ASSUME NEW c \in setting.calls, NEW h \in 1..MaxHeight, Call(c, h) PROVE MintsFound'
    BY <2>1 DEF Call, MintsFound
  <2>2. ASSUME NEW succeeded \in BOOLEAN, NEW listed \in setting.listed, Analyse(succeeded, listed)
        PROVE  MintsFound'
    <3> DEFINE known == Mints(listed)
    <3>1. listed \in SUBSET Accounts
      BY <1>2, CallsAssumption DEF Shape
    <3>2. known = Tells(Reach(listed \cup NamedAccounts))
      BY <1>2, <3>1, MintsTell
    <3> HIDE DEF known
    <3>3. UNCHANGED run
      BY <2>2 DEF Analyse
    <3>4. route' = [succeeded |-> succeeded, listed |-> listed, mints |-> known,
                    legs |-> {Leg(i, succeeded, known) : i \in {k \in DOMAIN run : IsSwap(k)}},
                    unknown |-> {UnknownCall(i) : i \in {k \in DOMAIN run : Kind(k) = "other"}}]
      BY <2>2 DEF Analyse, known
    <3>5. route'.mints = known /\ route'.listed = listed
      BY <3>4
    <3>6. route'.legs = {Leg(i, succeeded, known) : i \in {k \in DOMAIN run : IsSwap(k)}}
      BY <3>4
    <3>7. NamedAccounts' = NamedAccounts
      BY <3>3 DEF NamedAccounts, Ends, Kind, Source, Target
    <3>8. Reach(listed \cup NamedAccounts)' = Reach(listed \cup NamedAccounts)
      BY <3>3, <3>7, SameReach
    <3>9. ASSUME NEW a \in Accounts
          PROVE  route'.mints[a] =
                   IF a \in Reach(route.listed \cup NamedAccounts)' THEN MintOf[a] ELSE None
      BY <3>2, <3>5, <3>8 DEF Tells
    <3>10. ASSUME NEW leg \in route'.legs
           PROVE  leg.outputMint \in {None, MintOf[Target(leg.at)']}
      <4>1. PICK i \in DOMAIN run : IsSwap(i) /\ leg = Leg(i, succeeded, known)
        BY <3>6, <3>10
      <4>2. Target(i) \in Accounts
        BY <1>2, <4>1, CallsAreSound DEF IsSwap
      <4>3. leg.at = i /\ leg.outputMint = MintAt(known, i, Target(i))
        BY <4>1 DEF Leg
      <4>4. known[Target(i)] \in {None, MintOf[Target(i)]}
        BY <3>2, <4>2 DEF Tells
      <4>5. Target(i)' = Target(i)
        BY <3>3 DEF Target
      <4> QED
        BY <4>2, <4>3, <4>4, <4>5 DEF MintAt
    <3> QED
      BY <3>9, <3>10 DEF MintsFound
  <2>3. CASE UNCHANGED vars
    <3>1. UNCHANGED <<run, route>>
      BY <2>3 DEF vars
    <3>2. NamedAccounts' = NamedAccounts
      BY <3>1 DEF NamedAccounts, Ends, Kind, Source, Target
    <3>3. Reach(route.listed \cup NamedAccounts)' = Reach(route.listed \cup NamedAccounts)
      BY <3>1, <3>2, SameReach
    <3>4. \A i : Target(i)' = Target(i)
      BY <3>1 DEF Target
    <3> QED
      BY <1>2, <3>1, <3>3, <3>4 DEF MintsFound
  <2> QED
    BY <1>2, <2>1, <2>2, <2>3 DEF Next
<1>3. Inv => Shape
  BY DEF Inv
<1> QED
  BY <1>1, <1>2, <1>3, Invariance, PTL DEF Spec

(* As many passes as there are accounts are enough: another one, over the
   calls made so far, would learn nothing, whatever the balances list. *)
PassesEnough == \A A \in SUBSET Accounts : Pass(Mints(A)) = Mints(A)

THEOREM PassesSettle == Spec => []PassesEnough
<1>1. Inv => PassesEnough
  BY MintsTell DEF Inv, PassesEnough
<1> QED
  BY <1>1, Invariance, PTL
=============================================================================
