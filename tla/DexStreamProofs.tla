--------------------------- MODULE DexStreamProofs ---------------------------
(***************************************************************************)
(* DexStream for every configuration: any number of subscriptions, filters, *)
(* events and failures, any queue sizes and delays.                         *)
(***************************************************************************)
EXTENDS DexStream, FiniteSetTheorems, SequenceTheorems, WellFoundedInduction, TLAPS

Calls == {"subscribe", "stop", "disconnect", "update", "close"}

TypeOK ==
  /\ setting \in Settings
  /\ connected \in BOOLEAN /\ hasQueue \in BOOLEAN
  /\ current \in 0 .. MaxStreams
  /\ currentReq \in Nat /\ asked \in Nat /\ accepted \in Nat
  /\ op \in Calls \cup {"free"}
  /\ first \in [Streams -> Nat]
  /\ task \in [Streams -> {"none", "created", "streaming", "backoff", "closing", "leaving",
                           "draining", "done"}]
  /\ killed \in [Streams -> BOOLEAN]
  /\ cancelSet \in [Streams -> BOOLEAN]
  /\ pump \in [Streams -> {"none", "running", "cancelled", "done"}]
  /\ flusher \in [Streams -> {"none", "running", "cancelled", "done"}]
  /\ requests \in [Streams -> Seq(Nat)]
  /\ outgoing \in [Streams -> Seq(Nat)]
  /\ sentFirst \in [Streams -> BOOLEAN]
  /\ server \in [Streams -> Nat]
  /\ held \in [Streams -> Nat]
  /\ delay \in [Streams -> Nat]
  /\ streak \in [Streams -> Nat]
  /\ queue \in [Streams -> Queue]
  /\ arrived \in [Streams -> Nat]
  /\ refused \in [Streams -> Nat]
  /\ taken \in [Streams -> Nat]
  /\ seen \in [Streams -> Status]
  /\ interrupted \in [Streams -> BOOLEAN]

(* Streams are numbered as they are opened; only the last may be alive, and  *)
(* then it is the client's. A call that waits has a task to wait for.        *)
Lifecycle ==
  /\ Opened = 1 .. Cardinality(Opened)
  /\ current \in {0, Cardinality(Opened)}
  /\ \A g \in Streams : Live(g) => g = current
  /\ op \in Calls \ {"close"} => current # 0
  /\ op = "subscribe" => MayOpen

(* The helpers of a stream live within its task. *)
Helpers ==
  \A g \in Streams :
    /\ task[g] \in {"none", "created"} => pump[g] = "none" /\ flusher[g] = "none"
    /\ pump[g] = "running" => task[g] \in {"streaming", "backoff"}
    /\ flusher[g] = "running" =>
         setting.timer /\ task[g] \in {"streaming", "backoff", "closing", "leaving"}

AllFrom(s, low) == \A i \in 1 .. Len(s) : s[i] >= low

(* Filters of a stream were submitted since it was opened, wherever they are. *)
Filters ==
  /\ \A g \in Streams :
       /\ first[g] # 0 <=> task[g] # "none"
       /\ first[g] <= asked
       /\ task[g] = "none" => requests[g] = <<>> /\ outgoing[g] = <<>>
       /\ AllFrom(requests[g], first[g])
       /\ AllFrom(outgoing[g], first[g])
       /\ server[g] # 0 => task[g] = "streaming" /\ server[g] >= first[g]
  /\ current # 0 => currentReq >= first[current]

(* The delay belongs to the streak: it is the last wait during a backoff and *)
(* the next one before and after.                                            *)
Delays ==
  \A g \in Streams :
    /\ task[g] = "backoff" => streak[g] > 0 /\ delay[g] = Wait(streak[g])
    /\ task[g] \in {"none", "created", "streaming", "closing"} =>
         delay[g] = Wait(streak[g] + 1)

IInv ==
  /\ TypeOK /\ Lifecycle /\ Helpers /\ Filters /\ Delays
  /\ NoSilentLoss /\ FeedEndsInStatus /\ CleanEnd

-----------------------------------------------------------------------------
(* Iterating a step.                                                        *)

(* A set of natural numbers with a member has a least one. *)
LEMMA LeastNatural ==
  ASSUME NEW T \in SUBSET Nat, T # {}
  PROVE  \E n \in T : \A m \in T : n <= m
<1>1. IsWellFoundedOn(OpToRel(<, Nat), Nat)  BY NatLessThanWellFounded
<1>2. PICK n \in T : \A m \in T : <<m, n>> \notin OpToRel(<, Nat)
  BY <1>1, WFMin
<1>3. \A m \in T : ~ (m < n)  BY <1>2 DEF OpToRel
<1> QED  BY <1>3

(* f is c, step[c], step[step[c]] and so on, k times. *)
Iterated(S, step, c, k, f) ==
  /\ f \in [0 .. k -> S]
  /\ f[0] = c
  /\ \A i \in 1 .. k : f[i] = step[f[i - 1]]

LEMMA Iterates ==
  ASSUME NEW S, NEW step \in [S -> S], NEW c \in S, NEW k \in Nat
  PROVE  \E f : Iterated(S, step, c, k, f)
<1> DEFINE T == {n \in Nat : ~ \E f : Iterated(S, step, c, n, f)}
<1>1. SUFFICES ASSUME T # {}  PROVE FALSE
  OBVIOUS
<1>2. PICK n \in T : \A m \in T : n <= m
  BY <1>1, LeastNatural
<1>3. Iterated(S, step, c, 0, [i \in 0 .. 0 |-> c])
  BY DEF Iterated
<1>4. n # 0 /\ n \in Nat
  BY <1>3
<1>5. n - 1 \in Nat /\ n - 1 \notin T
  BY <1>2, <1>4
<1>6. PICK f : Iterated(S, step, c, n - 1, f)
  BY <1>5
<1> DEFINE g == [i \in 0 .. n |-> IF i = n THEN step[f[n - 1]] ELSE f[i]]
<1>7. Iterated(S, step, c, n, g)
  BY <1>4, <1>6 DEF Iterated
<1> QED
  BY <1>7

LEMMA IteratedAgree ==
  ASSUME NEW S, NEW step, NEW c, NEW k \in Nat, NEW m \in Nat, m >= k
  PROVE  \A f, g : Iterated(S, step, c, k, f) /\ Iterated(S, step, c, m, g) => f[k] = g[k]
<1>1. SUFFICES ASSUME NEW f, NEW g, Iterated(S, step, c, k, f), Iterated(S, step, c, m, g)
               PROVE  f[k] = g[k]
  OBVIOUS
<1> DEFINE T == {j \in Nat : j <= k /\ f[j] # g[j]}
<1>2. SUFFICES ASSUME T # {}  PROVE FALSE
  OBVIOUS
<1>3. PICK j \in T : \A h \in T : j <= h
  BY <1>2, LeastNatural
<1>4. j # 0
  BY <1>1 DEF Iterated
<1>5. j - 1 \in Nat /\ j - 1 \notin T
  BY <1>3, <1>4
<1>6. f[j - 1] = g[j - 1]
  BY <1>5
<1> QED
  BY <1>1, <1>4, <1>6 DEF Iterated

(* Two iterations of neighbouring lengths agree where the shorter one ends. *)
LEMMA IteratedOnward ==
  ASSUME NEW S, NEW step, NEW c, NEW n \in Nat
  PROVE  \A r, e : Iterated(S, step, c, n, r) /\ Iterated(S, step, c, n + 1, e) => r[n] = e[n]
<1>1. n + 1 \in Nat /\ n + 1 >= n
  OBVIOUS
<1> QED
  BY <1>1, IteratedAgree

-----------------------------------------------------------------------------
(* The queue.                                                               *)

(* What a consumer that has read everything up to q may still learn from r: *)
(* nothing changed, or the newest entry of the feed is the status.           *)
Heard(q, r) ==
  \/ r.status = q.status /\ r.states = q.states
  \/ r.states # <<>> /\ r.status = r.states[Len(r.states)]

(* A loss or a reconnect is on record as a break. *)
Told(q) == q.status.dropped + q.status.reconnects > 0 => q.status.broken

(* r is q after n more events were offered to it, and after any transitions. *)
Offered(q, n, r) ==
  /\ r \in Queue
  /\ r.events + r.status.dropped = q.events + q.status.dropped + n
  /\ Told(q) => Told(r)
  /\ Heard(q, r)

LEMMA WithStatusQueue ==
  ASSUME NEW q \in Queue, NEW s \in Status
  PROVE  /\ WithStatus(q, s) \in Queue
         /\ WithStatus(q, s).status = s
         /\ WithStatus(q, s).events = q.events
         /\ Heard(q, WithStatus(q, s))
<1>1. CASE s = q.status
  BY <1>1 DEF WithStatus, Heard
<1>2. CASE s # q.status
  <2> DEFINE old == Room(q.states)
  <2>1. q.states \in Seq(Status)
    BY DEF Queue
  <2>2. old \in Seq(Status)
    <3>1. CASE Len(q.states) = QueueSize
      BY <2>1, <3>1, DexQueueAssumption, EmptySeq, HeadTailProperties DEF Room
    <3>2. CASE Len(q.states) # QueueSize
      BY <2>1, <3>2 DEF Room
    <3> QED  BY <3>1, <3>2
  <2>3. /\ Append(old, s) \in Seq(Status)
        /\ Append(old, s) # <<>>
        /\ Append(old, s)[Len(Append(old, s))] = s
    <3> HIDE DEF old
    <3> QED  BY <2>2, AppendProperties
  <2>4. WithStatus(q, s) = [q EXCEPT !.status = s, !.states = Append(old, s)]
    BY <1>2 DEF WithStatus
  <2> HIDE DEF old
  <2> QED
    BY <2>3, <2>4 DEF Queue, Heard
<1> QED
  BY <1>1, <1>2

LEMMA OfferedOne ==
  ASSUME NEW q \in Queue
  PROVE  Offered(q, 1, PutEvent(q)) /\ PutEvent(q).status.state = q.status.state
<1>1. /\ q.events \in 0 .. QueueSize /\ q.errors \in 0 .. QueueSize
      /\ q.states \in Seq(Status) /\ q.status \in Status /\ QueueSize \in Nat
  BY DexQueueAssumption DEF Queue
<1>2. q.status.dropped \in Nat /\ q.status.reconnects \in Nat /\ q.status.state \in States
  BY <1>1 DEF Status
<1>3. CASE q.events < QueueSize
  <2> DEFINE r == [q EXCEPT !.events = @ + 1]
  <2>1. /\ r.events = q.events + 1 /\ r.errors = q.errors
        /\ r.states = q.states /\ r.status = q.status
    BY DEF Queue
  <2>2. r.events \in 0 .. QueueSize
    BY <1>1, <1>3, <2>1
  <2>3. r \in Queue
    BY <2>2 DEF Queue
  <2>4. PutEvent(q) = r
    BY <1>3 DEF PutEvent
  <2> HIDE DEF r
  <2>5. r.events + r.status.dropped = q.events + q.status.dropped + 1
    BY <1>1, <1>2, <2>1
  <2> QED
    BY <2>1, <2>3, <2>4, <2>5 DEF Offered, Told, Heard
<1>4. CASE ~ (q.events < QueueSize)
  <2> DEFINE s == [q.status EXCEPT !.broken = TRUE, !.dropped = @ + 1]
  <2>1. /\ s.state = q.status.state /\ s.broken
        /\ s.dropped = q.status.dropped + 1 /\ s.reconnects = q.status.reconnects
    BY <1>1 DEF Status
  <2>2. s \in Status
    <3>1. q.status.dropped + 1 \in Nat
      BY <1>2
    <3> QED  BY <1>1, <3>1 DEF Status
  <2>3. PutEvent(q) = WithStatus(q, s)
    BY <1>4 DEF PutEvent, Overflow
  <2> HIDE DEF s
  <2>4. /\ PutEvent(q) \in Queue /\ PutEvent(q).status = s
        /\ PutEvent(q).events = q.events /\ Heard(q, PutEvent(q))
    BY <2>2, <2>3, WithStatusQueue
  <2>5. PutEvent(q).events + PutEvent(q).status.dropped = q.events + q.status.dropped + 1
    BY <1>1, <1>2, <2>1, <2>4
  <2> QED
    BY <2>1, <2>4, <2>5 DEF Offered, Told
<1> QED
  BY <1>3, <1>4

LEMMA OfferedMore ==
  ASSUME NEW q \in Queue, NEW r, NEW t, NEW i \in Nat, NEW j \in Nat,
         Offered(q, i, r), Offered(r, j, t)
  PROVE  Offered(q, i + j, t)
<1>1. /\ q.events \in Nat /\ r.events \in Nat /\ t.events \in Nat
      /\ q.status.dropped \in Nat /\ r.status.dropped \in Nat /\ t.status.dropped \in Nat
  BY DexQueueAssumption DEF Offered, Queue, Status
<1>2. t.events + t.status.dropped = q.events + q.status.dropped + (i + j)
  BY <1>1 DEF Offered
<1> QED
  BY <1>2 DEF Offered, Told, Heard

(* The transitions of a stream: they offer nothing. *)
LEMMA Transitions ==
  ASSUME NEW q \in Queue, NEW state \in States
  PROVE  /\ Offered(q, 0, Transition(q, state))
         /\ Offered(q, 0, Reconnecting(q))
         /\ Offered(q, 0, Stopped(q))
         /\ Offered(q, 0, ReportError(q))
         /\ Stopped(q).status.state = "stopped"
<1>1. /\ q.events \in 0 .. QueueSize /\ q.errors \in 0 .. QueueSize
      /\ q.states \in Seq(Status) /\ q.status \in Status /\ QueueSize \in Nat
  BY DexQueueAssumption DEF Queue
<1>2. /\ q.status.dropped \in Nat /\ q.status.reconnects \in Nat
      /\ q.status.reconnects + 1 \in Nat /\ q.events \in Nat
  BY <1>1 DEF Status
<1>3. ASSUME NEW s \in Status, s.dropped = q.status.dropped,
             Told(q) => (s.dropped + s.reconnects > 0 => s.broken)
      PROVE  Offered(q, 0, WithStatus(q, s))
  BY <1>2, <1>3, WithStatusQueue DEF Offered, Told
<1>4. Offered(q, 0, Transition(q, state))
  <2> DEFINE s == [q.status EXCEPT !.state = state]
  <2>1. /\ s \in Status /\ s.dropped = q.status.dropped
        /\ s.reconnects = q.status.reconnects /\ s.broken = q.status.broken
    BY <1>1 DEF Status
  <2> HIDE DEF s
  <2>2. Offered(q, 0, WithStatus(q, s))
    BY <1>3, <2>1 DEF Told
  <2> QED  BY <2>2 DEF Transition, s
<1>5. Offered(q, 0, Reconnecting(q))
  <2> DEFINE s == [q.status EXCEPT !.state = "reconnecting", !.broken = TRUE, !.reconnects = @ + 1]
  <2>1. s \in Status /\ s.dropped = q.status.dropped /\ s.broken
    BY <1>1, <1>2 DEF Status, States
  <2> HIDE DEF s
  <2>2. Offered(q, 0, WithStatus(q, s))
    BY <1>3, <2>1
  <2> QED  BY <2>2 DEF Reconnecting, s
<1>6. Offered(q, 0, Stopped(q)) /\ Stopped(q).status.state = "stopped"
  <2> DEFINE s == [q.status EXCEPT !.state = "stopped", !.broken = TRUE]
  <2>1. s \in Status /\ s.dropped = q.status.dropped /\ s.broken /\ s.state = "stopped"
    BY <1>1 DEF Status, States
  <2> HIDE DEF s
  <2>2. Offered(q, 0, WithStatus(q, s)) /\ WithStatus(q, s).status = s
    BY <1>3, <2>1, WithStatusQueue
  <2> QED  BY <2>1, <2>2 DEF Stopped, s
<1>7. Offered(q, 0, ReportError(q))
  <2> DEFINE e == IF q.errors = QueueSize THEN q.errors ELSE q.errors + 1
  <2>1. e \in 0 .. QueueSize
    BY <1>1
  <2>2. ReportError(q) = [q EXCEPT !.errors = e]
    BY DEF ReportError, Queue
  <2> HIDE DEF e
  <2>3. /\ ReportError(q) \in Queue /\ ReportError(q).events = q.events
        /\ ReportError(q).status = q.status /\ ReportError(q).states = q.states
    BY <2>1, <2>2 DEF Queue
  <2> QED  BY <1>2, <2>3 DEF Offered, Told, Heard
<1> QED
  BY <1>4, <1>5, <1>6, <1>7

(* k events offered in turn: none is lost without being counted. *)
LEMMA PutEventsOffers ==
  ASSUME NEW q \in Queue, NEW k \in Nat
  PROVE  Offered(q, k, PutEvents(q, k)) /\ PutEvents(q, k).status.state = q.status.state
<1> DEFINE step == [r \in Queue |-> PutEvent(r)]
           after == CHOOSE f : f = [n \in 0 .. k |-> IF n = 0 THEN q ELSE PutEvent(f[n - 1])]
<1>1. step \in [Queue -> Queue]
  BY OfferedOne DEF Offered
<1>2. PICK g : Iterated(Queue, step, q, k, g)
  BY <1>1, Iterates
<1>3. g = [n \in 0 .. k |-> IF n = 0 THEN q ELSE PutEvent(g[n - 1])]
  <2>1. \A n \in 0 .. k : n # 0 => n - 1 \in 0 .. k /\ n \in 1 .. k
    OBVIOUS
  <2>2. \A n \in 0 .. k : n # 0 => g[n] = PutEvent(g[n - 1])
    BY <1>2, <2>1 DEF Iterated
  <2> QED  BY <1>2, <2>2 DEF Iterated
<1>4. after = [n \in 0 .. k |-> IF n = 0 THEN q ELSE PutEvent(after[n - 1])]
  BY <1>3
<1>5. PutEvents(q, k) = after[k]
  BY DEF PutEvents
<1> HIDE DEF after
<1> DEFINE State(r) == r.status.state
           T == {n \in Nat : n <= k /\ ~ (Offered(q, n, after[n]) /\ State(after[n]) = State(q))}
<1>6. T = {}
  <2>1. SUFFICES ASSUME T # {}  PROVE FALSE
    OBVIOUS
  <2>2. PICK n \in T : \A m \in T : n <= m
    BY <2>1, LeastNatural
  <2>3. Offered(q, 0, q)
    BY DexQueueAssumption DEF Offered, Heard, Told, Queue, Status
  <2>4. n # 0
    BY <1>4, <2>3
  <2>5. n \in Nat /\ n <= k /\ n - 1 \in Nat /\ n - 1 \notin T
    BY <2>2, <2>4
  <2>6. Offered(q, n - 1, after[n - 1]) /\ State(after[n - 1]) = State(q)
    BY <2>5
  <2>7. after[n] = PutEvent(after[n - 1])
    BY <1>4, <2>4, <2>5
  <2>8. Offered(after[n - 1], 1, after[n]) /\ State(after[n]) = State(after[n - 1])
    BY <2>6, <2>7, OfferedOne DEF Offered
  <2>9. Offered(q, n - 1 + 1, after[n])
    BY <2>5, <2>6, <2>8, OfferedMore
  <2> QED
    BY <2>2, <2>5, <2>6, <2>8, <2>9
<1> QED
  BY <1>5, <1>6

-----------------------------------------------------------------------------
(* The waits of a backoff.                                                  *)

(* Each doubling is twice the one before. *)
LEMMA Doublings ==
  ASSUME NEW n \in Nat
  PROVE  /\ DoubledTimes(0) = BaseDelay
         /\ DoubledTimes(n) \in Nat
         /\ DoubledTimes(n + 1) = 2 * DoubledTimes(n)
<1> DEFINE double == [x \in Nat |-> 2 * x]
<1>1. double \in [Nat -> Nat] /\ BaseDelay \in Nat
  BY DexStreamAssumption
<1>2. ASSUME NEW k \in Nat
      PROVE  \E f : Iterated(Nat, double, BaseDelay, k, f) /\ DoubledTimes(k) = f[k]
  <2> DEFINE d == CHOOSE f : f = [i \in 0 .. k |-> IF i = 0 THEN BaseDelay ELSE 2 * f[i - 1]]
  <2>1. PICK g : Iterated(Nat, double, BaseDelay, k, g)
    BY <1>1, Iterates
  <2>2. g = [i \in 0 .. k |-> IF i = 0 THEN BaseDelay ELSE 2 * g[i - 1]]
    <3>1. \A i \in 0 .. k : i # 0 => i - 1 \in 0 .. k /\ i \in 1 .. k
      OBVIOUS
    <3>2. \A i \in 0 .. k : i # 0 => g[i] = 2 * g[i - 1]
      BY <2>1, <3>1 DEF Iterated
    <3> QED  BY <2>1, <3>2 DEF Iterated
  <2>3. d = [i \in 0 .. k |-> IF i = 0 THEN BaseDelay ELSE 2 * d[i - 1]]
    BY <2>2
  <2>4. DoubledTimes(k) = d[k]
    BY DEF DoubledTimes
  <2> HIDE DEF d
  <2> DEFINE T == {i \in Nat : i <= k /\ d[i] \notin Nat}
  <2>5. T = {}
    <3>1. SUFFICES ASSUME T # {}  PROVE FALSE
      OBVIOUS
    <3>2. PICK i \in T : \A m \in T : i <= m
      BY <3>1, LeastNatural
    <3>3. i # 0
      BY <1>1, <2>3
    <3>4. i - 1 \in Nat /\ i - 1 \notin T /\ i \in 0 .. k
      BY <3>2, <3>3
    <3>5. d[i - 1] \in Nat /\ d[i] = 2 * d[i - 1]
      BY <2>3, <3>2, <3>3, <3>4
    <3> QED  BY <3>2, <3>5
  <2>6. d \in [0 .. k -> Nat]
    <3>1. \A i \in 0 .. k : d[i] \in Nat
      BY <2>5
    <3>2. d = [i \in 0 .. k |-> d[i]]
      BY <2>3
    <3> QED  BY <3>1, <3>2
  <2>7. \A i \in 1 .. k : d[i] = double[d[i - 1]]
    <3>1. SUFFICES ASSUME NEW i \in 1 .. k  PROVE d[i] = double[d[i - 1]]
      OBVIOUS
    <3>2. i \in 0 .. k /\ i - 1 \in 0 .. k /\ i # 0
      OBVIOUS
    <3>3. d[i - 1] \in Nat /\ d[i] = 2 * d[i - 1]
      BY <2>3, <2>6, <3>2
    <3> QED  BY <3>3
  <2>8. d[0] = BaseDelay
    BY <2>3
  <2>9. Iterated(Nat, double, BaseDelay, k, d)
    BY <2>6, <2>7, <2>8 DEF Iterated
  <2> QED  BY <2>4, <2>9
<1> HIDE DEF double
<1>3. \A r, e : Iterated(Nat, double, BaseDelay, n, r) /\ Iterated(Nat, double, BaseDelay, n + 1, e)
               => r[n] = e[n]
  BY IteratedOnward
<1>4. PICK f : Iterated(Nat, double, BaseDelay, n, f) /\ DoubledTimes(n) = f[n]
  BY <1>2
<1>5. PICK g : Iterated(Nat, double, BaseDelay, n + 1, g) /\ DoubledTimes(n + 1) = g[n + 1]
  BY <1>2
<1>6. PICK z : Iterated(Nat, double, BaseDelay, 0, z) /\ DoubledTimes(0) = z[0]
  BY <1>2
<1>7. f[n] = g[n]
  BY <1>3, <1>4, <1>5
<1>8. f[n] \in Nat
  BY <1>4 DEF Iterated
<1>9. g[n + 1] = 2 * g[n]
  <2>1. n + 1 \in 1 .. n + 1 /\ n + 1 - 1 = n
    OBVIOUS
  <2>2. g[n + 1] = double[g[n]]
    BY <1>5, <2>1 DEF Iterated
  <2> QED  BY <1>7, <1>8, <2>2 DEF double
<1> QED
  BY <1>4, <1>5, <1>6, <1>7, <1>8, <1>9 DEF Iterated

(* What the code does to the delay gives the next wait in a row. *)
LEMMA Waits ==
  ASSUME NEW n \in Nat \ {0}
  PROVE  /\ Wait(1) = BaseDelay
         /\ Wait(n) \in Nat
         /\ Doubled(Wait(n)) = Wait(n + 1)
<1>1. BaseDelay \in Nat \ {0} /\ MaxDelay \in Nat \ {0}
  BY DexStreamAssumption
<1>2. /\ n - 1 \in Nat /\ n + 1 # 1 /\ n + 1 - 1 = n /\ n - 1 + 1 = n
  OBVIOUS
<1>3. /\ DoubledTimes(0) = BaseDelay /\ DoubledTimes(n - 1) \in Nat
      /\ DoubledTimes(n) = 2 * DoubledTimes(n - 1)
  BY <1>2, Doublings
<1>4. Wait(n + 1) = IF DoubledTimes(n) > MaxDelay THEN MaxDelay ELSE DoubledTimes(n)
  BY <1>2 DEF Wait
<1>5. CASE n = 1
  <2>1. Wait(n) = BaseDelay /\ DoubledTimes(n) = 2 * BaseDelay
    BY <1>3, <1>5 DEF Wait
  <2> QED  BY <1>1, <1>4, <1>5, <2>1 DEF Doubled
<1>6. CASE n # 1
  <2>1. Wait(n) = IF DoubledTimes(n - 1) > MaxDelay THEN MaxDelay ELSE DoubledTimes(n - 1)
    BY <1>6 DEF Wait
  <2>2. Wait(1) = BaseDelay
    BY DEF Wait
  <2> QED  BY <1>1, <1>3, <1>4, <2>1, <2>2 DEF Doubled
<1> QED
  BY <1>5, <1>6

LEMMA OfferedNone ==
  ASSUME NEW q \in Queue
  PROVE  Offered(q, 0, q)
<1>1. q.events \in Nat /\ q.status.dropped \in Nat
  BY DexQueueAssumption DEF Queue, Status
<1> QED
  BY <1>1 DEF Offered, Told, Heard

LEMMA ReportedBreak ==
  ASSUME NEW q \in Queue
  PROVE  Offered(q, 0, Reconnecting(ReportError(q)))
<1>1. "connecting" \in States
  BY DEF States
<1>2. Offered(q, 0, ReportError(q))
  BY <1>1, Transitions
<1>3. ReportError(q) \in Queue
  BY <1>2 DEF Offered
<1>4. Offered(ReportError(q), 0, Reconnecting(ReportError(q)))
  BY <1>1, <1>3, Transitions
<1>5. Offered(q, 0 + 0, Reconnecting(ReportError(q)))
  BY <1>2, <1>4, OfferedMore
<1> QED
  BY <1>5

(* Events offered after a transition. *)
LEMMA Handed ==
  ASSUME NEW q \in Queue, NEW k \in Nat, NEW x, Offered(q, 0, x)
  PROVE  /\ Offered(q, k, PutEvents(x, k))
         /\ PutEvents(x, k) \in Queue
         /\ PutEvents(x, k).status.state = x.status.state
<1>1. x \in Queue
  BY DEF Offered
<1>2. Offered(x, k, PutEvents(x, k)) /\ PutEvents(x, k).status.state = x.status.state
  BY <1>1, PutEventsOffers
<1>3. Offered(q, 0 + k, PutEvents(x, k))
  BY <1>2, OfferedMore
<1> QED
  BY <1>2, <1>3 DEF Offered

-----------------------------------------------------------------------------
(* Types.                                                                   *)

(* There is a number for the subscription that a call may open. *)
LEMMA NextStream ==
  ASSUME TypeOK, Lifecycle, MayOpen
  PROVE  /\ Cardinality(Opened) \in Nat
         /\ Cardinality(Opened) + 1 \in Streams
         /\ Cardinality(Opened) + 1 \notin Opened
<1>1. IsFiniteSet(Opened) /\ Cardinality(Opened) \in Nat
  <2>1. IsFiniteSet(Streams)
    BY DexStreamAssumption, FS_Interval DEF Streams
  <2>2. Opened \subseteq Streams
    BY DEF Opened
  <2> QED  BY <2>1, <2>2, FS_Subset, FS_CardinalityType
<1>2. Cardinality(Opened) < setting.streams /\ setting.streams <= MaxStreams
  BY DexStreamAssumption DEF TypeOK, MayOpen
<1>3. setting.streams \in Nat /\ MaxStreams \in Nat
  BY DexStreamAssumption DEF TypeOK, Setting
<1>4. Opened = 1 .. Cardinality(Opened)
  BY DEF Lifecycle
<1> HIDE DEF Opened
<1> QED
  BY <1>1, <1>2, <1>3, <1>4 DEF Streams

LEMMA CreateTypes ==
  ASSUME TypeOK, Lifecycle, MayOpen, Create, op' \in Calls \cup {"free"}, UNCHANGED setting
  PROVE  TypeOK'
<1>1. /\ Cardinality(Opened) + 1 \in Streams
      /\ Cardinality(Opened) + 1 \in 0 .. MaxStreams
  BY NextStream DEF Streams
<1>2. asked' \in Nat
  BY DEF Create, TypeOK
<1> QED
  BY <1>1, <1>2 DEF TypeOK, Create, wire, feed, retry

LEMMA CallTypes ==
  ASSUME TypeOK, Lifecycle, Call, UNCHANGED setting
  PROVE  TypeOK'
<1>1. ASSUME Connect  PROVE TypeOK'
  BY <1>1 DEF TypeOK, Connect, tasks, wire, feed, retry
<1>2. ASSUME NEW call \in {"subscribe", "stop", "disconnect"}, BeginStop(call)  PROVE TypeOK'
  <2>1. call \in Calls
    BY DEF Calls
  <2> QED  BY <1>2, <2>1 DEF TypeOK, BeginStop, Kill, wire, feed, retry
<1>3. ASSUME SubscribeFirst  PROVE TypeOK'
  BY <1>3, CreateTypes DEF SubscribeFirst, TypeOK
<1>4. ASSUME SubscribeAgain  PROVE TypeOK'
  BY <1>4, CreateTypes DEF SubscribeAgain, Joined, TypeOK, Lifecycle
<1>5. ASSUME StopReturns  PROVE TypeOK'
  BY <1>5, DexStreamAssumption DEF TypeOK, StopReturns, tasks, wire, feed, retry
<1>6. ASSUME StopNothing  PROVE TypeOK'
  BY <1>6 DEF TypeOK, StopNothing, tasks, wire, feed, retry
<1>7. ASSUME BeginClose  PROVE TypeOK'
  <2>1. current' = 0 /\ currentReq' = 0 /\ hasQueue' = FALSE /\ op' = "close"
    BY <1>7 DEF BeginClose
  <2>2. UNCHANGED <<connected, asked, accepted, first, tasks, wire, feed, retry, interrupted>>
    BY <1>7 DEF BeginClose
  <2>3. 0 \in 0 .. MaxStreams
    BY DexStreamAssumption
  <2> QED  BY <2>1, <2>2, <2>3 DEF TypeOK, Calls, tasks, wire, feed, retry
<1>8. ASSUME Closed  PROVE TypeOK'
  BY <1>8 DEF TypeOK, Closed, tasks, wire, feed, retry
<1>9. ASSUME Update  PROVE TypeOK'
  <2>1. asked' \in Nat
    BY <1>9 DEF Update, TypeOK
  <2>2. requests' \in [Streams -> Seq(Nat)] /\ accepted' \in Nat /\ op' \in Calls \cup {"free"}
    <3>1. CASE current = 0
      BY <1>9, <3>1 DEF Update, TypeOK
    <3>2. CASE current # 0 /\ Len(requests[current]) < RequestQueueSize
      <4>1. requests[current] \in Seq(Nat)
        BY <3>2 DEF TypeOK, Streams
      <4>2. Append(requests[current], asked') \in Seq(Nat)
        BY <2>1, <4>1, AppendProperties
      <4> QED  BY <1>9, <2>1, <3>2, <4>2 DEF Update, TypeOK
    <3>3. CASE current # 0 /\ ~ (Len(requests[current]) < RequestQueueSize)
      BY <1>9, <3>3 DEF Update, TypeOK, Calls
    <3> QED  BY <3>1, <3>2, <3>3
  <2> QED  BY <1>9, <2>1, <2>2 DEF TypeOK, Update, tasks, feed, retry
<1>10. ASSUME UpdateReturns  PROVE TypeOK'
  <2>1. requests[current] \in Seq(Nat) /\ asked \in Nat
    BY <1>10 DEF TypeOK, Lifecycle, UpdateReturns, Calls, Streams
  <2>2. Append(requests[current], asked) \in Seq(Nat)
    BY <2>1, AppendProperties
  <2> QED  BY <1>10, <2>2 DEF TypeOK, UpdateReturns, tasks, feed, retry
<1>11. ASSUME GiveUp  PROVE TypeOK'
  BY <1>11 DEF TypeOK, GiveUp, wire, feed, retry
<1> QED
  BY <1>1, <1>2, <1>3, <1>4, <1>5, <1>6, <1>7, <1>8, <1>9, <1>10, <1>11 DEF Call

LEMMA StreamTypes ==
  ASSUME TypeOK, NEW g \in Streams, Stream(g), UNCHANGED setting
  PROVE  TypeOK'
<1>0. queue[g] \in Queue /\ held[g] \in Nat
  BY DEF TypeOK
<1>1. ASSUME Attempt(g), flusher' \in [Streams -> {"none", "running", "cancelled", "done"}]
      PROVE  TypeOK'
  <2>1. Transition(queue[g], "connecting") \in Queue
    BY <1>0, Transitions DEF Offered, States
  <2> QED
    BY <1>1, <2>1, EmptySeq DEF TypeOK, Attempt, client, retry
<1>2. ASSUME Start(g)  PROVE TypeOK'
  BY <1>1, <1>2 DEF Start, TypeOK
<1>3. ASSUME NeverStarts(g)  PROVE TypeOK'
  BY <1>3 DEF TypeOK, NeverStarts, client, wire, feed, retry
<1>4. ASSUME Receive(g)  PROVE TypeOK'
  <2>1. PICK new \in 0 .. 1, late \in 0 .. 1, out \in 0 .. held[g] + 1 :
          /\ late = 1 => new = 1
          /\ out <= (new - late) * (held[g] + 1)
          /\ queue' = [queue EXCEPT ![g] = PutEvents(Transition(@, "connected"), out)]
          /\ held' = [held EXCEPT ![g] = @ + new - late - out]
          /\ arrived' = [arrived EXCEPT ![g] = @ + new]
          /\ refused' = [refused EXCEPT ![g] = @ + late]
          /\ delay' = [delay EXCEPT ![g] = BaseDelay]
          /\ streak' = [streak EXCEPT ![g] = 0]
          /\ UNCHANGED <<client, first, tasks, wire, taken, seen, interrupted>>
    BY <1>4 DEF Receive
  <2>2. PutEvents(Transition(queue[g], "connected"), out) \in Queue
    BY <1>0, Transitions, Handed DEF States
  <2>3. held[g] + new - late - out \in Nat
    <3>1. CASE new = late
      BY <1>0, <2>1, <3>1
    <3>2. CASE new = 1 /\ late = 0
      BY <1>0, <2>1, <3>2
    <3> QED  BY <2>1, <3>1, <3>2
  <2>4. arrived[g] + new \in Nat /\ refused[g] + late \in Nat
    BY DEF TypeOK
  <2> QED
    BY <2>1, <2>2, <2>3, <2>4, DexStreamAssumption DEF TypeOK, client, tasks, wire
<1>5. ASSUME Fail(g)  PROVE TypeOK'
  <2>1. Offered(queue[g], 0, Reconnecting(ReportError(queue[g])))
    BY <1>0, ReportedBreak
  <2>2. PutEvents(Reconnecting(ReportError(queue[g])), held[g]) \in Queue
    BY <1>0, <2>1, Handed
  <2>3. /\ queue' \in [Streams -> Queue]
        /\ held' \in [Streams -> Nat] /\ server' \in [Streams -> Nat]
        /\ streak' \in [Streams -> Nat]
        /\ task' \in [Streams -> {"none", "created", "streaming", "backoff", "closing",
                                  "leaving", "draining", "done"}]
    <3>1. streak[g] + 1 \in Nat
      BY DEF TypeOK
    <3>2. /\ queue' = [queue EXCEPT ![g] = PutEvents(Reconnecting(ReportError(@)), held[g])]
          /\ held' = [held EXCEPT ![g] = 0]
          /\ task' = [task EXCEPT ![g] = "backoff"]
          /\ server' = [server EXCEPT ![g] = 0]
          /\ streak' = [streak EXCEPT ![g] = @ + 1]
      BY <1>5 DEF Fail
    <3> QED  BY <2>2, <3>1, <3>2 DEF TypeOK
  <2>4. UNCHANGED <<client, first, killed, cancelSet, pump, flusher, requests, outgoing, sentFirst,
                    arrived, refused, taken, seen, delay, interrupted>>
    BY <1>5 DEF Fail
  <2>5. TypeOK /\ UNCHANGED setting
    OBVIOUS
  <2> QED
    BY ONLY <2>3, <2>4, <2>5 DEF TypeOK, client
<1>6. ASSUME BackoffEnds(g)  PROVE TypeOK'
  <2>1. delay' \in [Streams -> Nat]
    <3>1. delay[g] \in Nat /\ MaxDelay \in Nat
      BY DexStreamAssumption DEF TypeOK
    <3>2. Doubled(delay[g]) \in Nat
      BY <3>1 DEF Doubled
    <3> QED  BY <1>6, <3>2 DEF BackoffEnds, TypeOK
  <2>2. /\ pump' \in [Streams -> {"none", "running", "cancelled", "done"}]
        /\ task' \in [Streams -> {"none", "created", "streaming", "backoff", "closing",
                                  "leaving", "draining", "done"}]
    BY <1>6 DEF BackoffEnds, TypeOK
  <2>3. UNCHANGED <<client, first, killed, cancelSet, flusher, wire, feed, streak, interrupted>>
    BY <1>6 DEF BackoffEnds
  <2>4. TypeOK /\ UNCHANGED setting
    OBVIOUS
  <2> QED
    BY ONLY <2>1, <2>2, <2>3, <2>4 DEF TypeOK, client, wire, feed
<1>7. ASSUME Reopen(g)  PROVE TypeOK'
  BY <1>1, <1>7 DEF Reopen, TypeOK
<1>8. ASSUME Cancelled(g)  PROVE TypeOK'
  BY <1>8 DEF TypeOK, Cancelled, client, feed, retry
<1>9. ASSUME Finish(g)
      PROVE  /\ queue' \in [Streams -> Queue] /\ held' \in [Streams -> Nat]
             /\ task' \in [Streams -> {"none", "created", "streaming", "backoff", "closing",
                                       "leaving", "draining", "done"}]
  <2>1. PutEvents(Stopped(queue[g]), held[g]) \in Queue
    BY <1>0, Transitions, Handed DEF States
  <2> QED  BY <1>9, <2>1 DEF TypeOK, Finish
<1>10. ASSUME WindUp(g)  PROVE TypeOK'
  <2>1. /\ queue' \in [Streams -> Queue] /\ held' \in [Streams -> Nat]
        /\ task' \in [Streams -> {"none", "created", "streaming", "backoff", "closing",
                                  "leaving", "draining", "done"}]
        /\ flusher' \in [Streams -> {"none", "running", "cancelled", "done"}]
    <3>1. CASE setting.timer
      BY <1>10, <3>1, ZenonT(30) DEF TypeOK, WindUp
    <3>2. CASE ~ setting.timer
      BY <1>9, <1>10, <3>2 DEF TypeOK, WindUp
    <3> QED  BY <3>1, <3>2
  <2>2. killed' \in [Streams -> BOOLEAN]
    BY <1>10 DEF TypeOK, WindUp
  <2>3. UNCHANGED <<client, first, cancelSet, pump, wire, arrived, refused, taken, seen, retry,
                  interrupted>>
    BY <1>10 DEF WindUp
  <2>4. TypeOK /\ UNCHANGED setting
    OBVIOUS
  <2> QED
    BY ONLY <2>1, <2>2, <2>3, <2>4 DEF TypeOK, client, wire, retry
<1>11. ASSUME Drained(g)  PROVE TypeOK'
  BY <1>9, <1>11 DEF TypeOK, Drained, client, wire, retry
<1>12. ASSUME Interrupted(g)  PROVE TypeOK'
  BY <1>12 DEF TypeOK, Interrupted, client, wire, feed, retry
<1> QED
  BY <1>2, <1>3, <1>4, <1>5, <1>6, <1>7, <1>8, <1>10, <1>11, <1>12 DEF Stream

LEMMA HelperTypes ==
  ASSUME TypeOK, NEW g \in Streams, Helper(g) \/ Consumer(g), UNCHANGED setting
  PROVE  TypeOK'
<1>0. queue[g] \in Queue /\ held[g] \in Nat /\ requests[g] \in Seq(Nat) /\ outgoing[g] \in Seq(Nat)
  BY DEF TypeOK
<1>1. ASSUME PumpRuns(g)  PROVE TypeOK'
  <2> DEFINE n == IF cancelSet[g] THEN 1 ELSE Len(requests[g])
  <2>1. n \in 1 .. Len(requests[g])
    BY <1>0, <1>1, EmptySeq DEF PumpRuns
  <2>2. /\ requests[g][n] \in Nat
        /\ SubSeq(requests[g], 1, n) \in Seq(Nat)
        /\ SubSeq(requests[g], n + 1, Len(requests[g])) \in Seq(Nat)
    BY <1>0, <2>1, ElementOfSeq, SubSeqProperties
  <2>3. outgoing[g] \o SubSeq(requests[g], 1, n) \in Seq(Nat)
    BY <1>0, <2>2, ConcatProperties
  <2>4. /\ currentReq' = requests[g][n]
        /\ outgoing' = [outgoing EXCEPT ![g] = @ \o SubSeq(requests[g], 1, n)]
        /\ requests' = [requests EXCEPT ![g] = SubSeq(@, n + 1, Len(@))]
    BY <1>1 DEF PumpRuns
  <2> HIDE DEF n
  <2>5. /\ pump' = [pump EXCEPT ![g] = IF cancelSet[g] THEN "done" ELSE @]
        /\ UNCHANGED <<connected, hasQueue, current, op, asked, accepted, first, task, killed,
                       cancelSet, flusher, sentFirst, server, feed, retry, interrupted>>
    BY <1>1 DEF PumpRuns
  <2>6. requests' \in [Streams -> Seq(Nat)] /\ outgoing' \in [Streams -> Seq(Nat)]
    BY <2>2, <2>3, <2>4 DEF TypeOK
  <2> QED
    BY <2>2, <2>4, <2>5, <2>6 DEF TypeOK, feed, retry
<1>2. ASSUME PumpStops(g)  PROVE TypeOK'
  BY <1>2 DEF TypeOK, PumpStops, client, wire, feed, retry
<1>3. ASSUME NEW out \in 0 .. held[g], FlushWakes(g, out)  PROVE TypeOK'
  <2>0. out \in Nat /\ held[g] - out \in Nat
    BY <1>0
  <2>1. PutEvents(queue[g], out) \in Queue
    BY <1>0, <2>0, PutEventsOffers DEF Offered
  <2> QED
    BY <1>3, <2>0, <2>1 DEF TypeOK, FlushWakes, client, wire, retry
<1>4. ASSUME FlusherStops(g)  PROVE TypeOK'
  BY <1>4 DEF TypeOK, FlusherStops, client, wire, feed, retry
<1>5. ASSUME SendFirst(g)  PROVE TypeOK'
  BY <1>5 DEF TypeOK, SendFirst, client, tasks, feed, retry
<1>6. ASSUME SendNext(g)  PROVE TypeOK'
  BY <1>0, <1>6, HeadTailProperties DEF TypeOK, SendNext, client, tasks, feed, retry
<1>7. ASSUME TakeEvent(g)  PROVE TypeOK'
  <2>1. queue[g].events - 1 \in 0 .. QueueSize
    BY <1>0, <1>7, DexQueueAssumption DEF TakeEvent, Queue
  <2>2. [queue[g] EXCEPT !.events = @ - 1] \in Queue
    BY <1>0, <2>1 DEF Queue
  <2>3. queue' \in [Streams -> Queue]
    BY <1>7, <2>2 DEF TypeOK, TakeEvent
  <2>4. taken[g] + 1 \in Nat
    BY DEF TypeOK
  <2>5. /\ taken' = [taken EXCEPT ![g] = @ + 1]
        /\ UNCHANGED <<client, first, tasks, wire, held, arrived, refused, seen, retry,
                       interrupted>>
    BY <1>7 DEF TakeEvent
  <2> QED
    BY <2>3, <2>4, <2>5 DEF TypeOK, client, tasks, wire, retry
<1>8. ASSUME ReadState(g)  PROVE TypeOK'
  <2>1. queue[g].states \in Seq(Status)
    BY <1>0 DEF Queue
  <2>2. Head(queue[g].states) \in Status /\ Tail(queue[g].states) \in Seq(Status)
    BY <1>8, <2>1, HeadTailProperties DEF ReadState
  <2>3. [queue[g] EXCEPT !.states = Tail(@)] \in Queue
    BY <1>0, <2>2 DEF Queue
  <2> QED
    BY <1>8, <2>2, <2>3 DEF TypeOK, ReadState, client, tasks, wire, retry
<1>9. 0 \in 0 .. held[g] /\ held[g] \in 0 .. held[g]
  BY <1>0
<1> QED
  BY <1>1, <1>2, <1>3, <1>4, <1>5, <1>6, <1>7, <1>8, <1>9 DEF Helper, Consumer

LEMMA TypeStep ==
  ASSUME TypeOK, Lifecycle, Next
  PROVE  TypeOK'
BY CallTypes, StreamTypes, HelperTypes DEF Next

-----------------------------------------------------------------------------
(* What a step may do to the feed of a stream.                              *)

(* New events are parsed, some of them refused, and some of those held go to *)
(* the queue.                                                                *)
FeedMoves(h) ==
  \E k \in Nat, new \in Nat, late \in Nat :
    /\ Offered(queue[h], k, queue'[h])
    /\ held'[h] + k + late = held[h] + new
    /\ arrived'[h] = arrived[h] + new
    /\ refused'[h] = refused[h] + late
    /\ late > 0 => setting.ordered
    /\ taken'[h] = taken[h] /\ seen'[h] = seen[h]

FeedRests(h) ==
  /\ queue'[h] = queue[h] /\ held'[h] = held[h] /\ arrived'[h] = arrived[h]
  /\ refused'[h] = refused[h]
  /\ taken'[h] = taken[h] /\ seen'[h] = seen[h]

LEMMA MovesAt ==
  ASSUME TypeOK, NEW g \in Streams, task[g] # "done", NEW k \in Nat, NEW new \in Nat,
         NEW late \in Nat, NEW r, NEW rest \in Nat, Offered(queue[g], k, r),
         rest + k + late = held[g] + new, late > 0 => setting.ordered,
         queue' = [queue EXCEPT ![g] = r], held' = [held EXCEPT ![g] = rest],
         arrived' = [arrived EXCEPT ![g] = @ + new],
         refused' = [refused EXCEPT ![g] = @ + late], UNCHANGED <<taken, seen>>,
         NEW h \in Streams
  PROVE  FeedRests(h) \/ (task[h] # "done" /\ FeedMoves(h))
<1>1. CASE h = g
  <2>1. /\ queue'[h] = r /\ held'[h] = rest
        /\ arrived'[h] = arrived[h] + new /\ refused'[h] = refused[h] + late
    BY <1>1 DEF TypeOK
  <2> QED  BY <1>1, <2>1 DEF FeedMoves
<1>2. CASE h # g
  BY <1>2 DEF TypeOK, FeedRests
<1> QED
  BY <1>1, <1>2

LEMMA FeedStep ==
  ASSUME TypeOK, Helpers, Next, NEW h \in Streams
  PROVE  \/ FeedRests(h)
         \/ task[h] # "done" /\ FeedMoves(h)
         \/ TakeEvent(h)
         \/ ReadState(h)
<1> DEFINE Moves == FeedRests(h) \/ (task[h] # "done" /\ FeedMoves(h))
<1>1. ASSUME UNCHANGED feed  PROVE Moves
  BY <1>1 DEF feed, FeedRests
<1>2. ASSUME Call  PROVE UNCHANGED feed
  BY <1>2 DEF Call, Connect, BeginStop, SubscribeFirst, SubscribeAgain, Create, StopReturns,
              StopNothing, BeginClose, Closed, Update, UpdateReturns, GiveUp
<1>3. ASSUME NEW g \in Streams
      PROVE  queue[g] \in Queue /\ held[g] \in Nat /\ held = [held EXCEPT ![g] = held[g]]
             /\ arrived = [arrived EXCEPT ![g] = arrived[g] + 0]
             /\ refused = [refused EXCEPT ![g] = refused[g] + 0]
  <2>1. /\ queue[g] \in Queue /\ held[g] \in Nat /\ held = [held EXCEPT ![g] = held[g]]
        /\ arrived[g] \in Nat /\ refused[g] \in Nat
    BY DEF TypeOK
  <2>2. arrived[g] + 0 = arrived[g] /\ refused[g] + 0 = refused[g]
    BY <2>1
  <2> QED  BY <2>1, <2>2 DEF TypeOK
<1>4. ASSUME NEW g \in Streams, task[g] # "done", Attempt(g)  PROVE Moves
  <2>1. Offered(queue[g], 0, Transition(queue[g], "connecting"))
    BY <1>3, Transitions DEF States
  <2>2. queue' = [queue EXCEPT ![g] = Transition(queue[g], "connecting")]
    BY <1>4 DEF Attempt
  <2>3. /\ held' = [held EXCEPT ![g] = held[g]] /\ arrived' = [arrived EXCEPT ![g] = arrived[g] + 0]
        /\ refused' = [refused EXCEPT ![g] = refused[g] + 0]
    BY <1>3, <1>4 DEF Attempt
  <2>4. UNCHANGED <<taken, seen>>
    BY <1>4 DEF Attempt
  <2>5. held[g] + 0 + 0 = held[g] + 0 /\ 0 \in Nat /\ ~ 0 > 0
    BY <1>3
  <2> QED  BY <1>3, <1>4, <2>1, <2>2, <2>3, <2>4, <2>5, MovesAt
<1>5. ASSUME NEW g \in Streams, Receive(g)  PROVE Moves
  <2>1. PICK new \in 0 .. 1, late \in 0 .. 1, out \in 0 .. held[g] + 1 :
          /\ task[g] = "streaming"
          /\ late = 1 => new = 1 /\ setting.ordered
          /\ out <= (new - late) * (held[g] + 1)
          /\ queue' = [queue EXCEPT ![g] = PutEvents(Transition(@, "connected"), out)]
          /\ held' = [held EXCEPT ![g] = @ + new - late - out]
          /\ arrived' = [arrived EXCEPT ![g] = @ + new]
          /\ refused' = [refused EXCEPT ![g] = @ + late]
          /\ UNCHANGED <<taken, seen>>
    BY <1>5 DEF Receive
  <2>2. Offered(queue[g], out, PutEvents(Transition(queue[g], "connected"), out))
    BY <1>3, Transitions, Handed DEF States
  <2>3. held[g] + new - late - out \in Nat
    <3>1. CASE new = late
      BY <1>3, <2>1, <3>1
    <3>2. CASE new = 1 /\ late = 0
      BY <1>3, <2>1, <3>2
    <3> QED  BY <2>1, <3>1, <3>2
  <2>4. /\ (held[g] + new - late - out) + out + late = held[g] + new
        /\ out \in Nat /\ new \in Nat /\ late \in Nat /\ (late > 0 => setting.ordered)
    BY <1>3, <2>1
  <2> QED  BY <2>1, <2>2, <2>3, <2>4, MovesAt
<1>6. ASSUME NEW g \in Streams, task[g] # "done", NEW x, Offered(queue[g], 0, x),
             NEW out \in 0 .. held[g],
             queue' = [queue EXCEPT ![g] = PutEvents(x, out)],
             held' = [held EXCEPT ![g] = held[g] - out], UNCHANGED <<arrived, refused, taken, seen>>
      PROVE  Moves
  <2>1. /\ out \in Nat /\ held[g] - out \in Nat /\ (held[g] - out) + out + 0 = held[g] + 0
        /\ 0 \in Nat /\ ~ 0 > 0
    BY <1>3
  <2>2. Offered(queue[g], out, PutEvents(x, out))
    BY <1>3, <1>6, <2>1, Handed
  <2>3. /\ arrived' = [arrived EXCEPT ![g] = arrived[g] + 0]
        /\ refused' = [refused EXCEPT ![g] = refused[g] + 0]
    BY <1>3, <1>6
  <2> QED  BY <1>6, <2>1, <2>2, <2>3, MovesAt
<1>7. ASSUME NEW g \in Streams, task[g] # "done", NEW x, Offered(queue[g], 0, x),
             queue' = [queue EXCEPT ![g] = PutEvents(x, held[g])],
             held' = [held EXCEPT ![g] = 0], UNCHANGED <<arrived, refused, taken, seen>>
      PROVE  Moves
  <2>1. held[g] \in 0 .. held[g] /\ held[g] - held[g] = 0
    BY <1>3
  <2> QED  BY <1>6, <1>7, <2>1
<1>8. ASSUME NEW g \in Streams, Fail(g)  PROVE Moves
  <2>1. Offered(queue[g], 0, Reconnecting(ReportError(queue[g])))
    BY <1>3, ReportedBreak
  <2> QED  BY <1>7, <1>8, <2>1 DEF Fail
<1>9. ASSUME NEW g \in Streams, task[g] # "done", Finish(g),
             UNCHANGED <<arrived, refused, taken, seen>>
      PROVE  Moves
  <2>1. Offered(queue[g], 0, Stopped(queue[g]))
    BY <1>3, Transitions DEF States
  <2> QED  BY <1>7, <1>9, <2>1 DEF Finish
<1>10. ASSUME NEW g \in Streams, Stream(g)  PROVE Moves
  <2>1. CASE Start(g) \/ Reopen(g)
    BY <1>4, <2>1 DEF Start, Reopen
  <2>2. CASE Receive(g) \/ Fail(g)
    BY <1>5, <1>8, <2>2
  <2>3. CASE WindUp(g) /\ setting.timer
    BY <1>1, <2>3 DEF WindUp, feed
  <2>4. CASE (WindUp(g) /\ ~ setting.timer) \/ Drained(g)
    BY <1>9, <2>4 DEF WindUp, Drained
  <2>5. CASE NeverStarts(g) \/ BackoffEnds(g) \/ Cancelled(g) \/ Interrupted(g)
    BY <1>1, <2>5 DEF NeverStarts, BackoffEnds, Cancelled, Interrupted
  <2> QED  BY <1>10, <2>1, <2>2, <2>3, <2>4, <2>5 DEF Stream
<1>11. ASSUME NEW g \in Streams, Helper(g)  PROVE Moves
  <2>1. ASSUME NEW out \in 0 .. held[g], FlushWakes(g, out)  PROVE Moves
    <3>1. task[g] # "done"
      BY <2>1 DEF FlushWakes, Helpers
    <3>2. Offered(queue[g], 0, queue[g])
      BY <1>3, OfferedNone
    <3> QED  BY <1>6, <2>1, <3>1, <3>2 DEF FlushWakes
  <2>2. 0 \in 0 .. held[g] /\ held[g] \in 0 .. held[g]
    BY <1>3
  <2>3. CASE PumpRuns(g) \/ PumpStops(g) \/ FlusherStops(g) \/ SendFirst(g) \/ SendNext(g)
    BY <1>1, <2>3 DEF PumpRuns, PumpStops, FlusherStops, SendFirst, SendNext
  <2> QED  BY <1>11, <2>1, <2>2, <2>3 DEF Helper
<1>12. ASSUME NEW g \in Streams, Consumer(g), g # h  PROVE Moves
  <2>1. CASE TakeEvent(g)
    BY <1>12, <2>1 DEF TakeEvent, FeedRests, TypeOK
  <2>2. CASE ReadState(g)
    BY <1>12, <2>2 DEF ReadState, FeedRests, TypeOK
  <2> QED  BY <1>12, <2>1, <2>2 DEF Consumer
<1>13. ASSUME NEW g \in Streams, Consumer(g), g = h  PROVE TakeEvent(h) \/ ReadState(h)
  BY <1>13 DEF Consumer
<1> HIDE DEF Moves
<1>14. Moves \/ TakeEvent(h) \/ ReadState(h)
  BY <1>1, <1>2, <1>10, <1>11, <1>12, <1>13 DEF Next
<1> QED
  BY <1>14 DEF Moves

LEMMA LossStep ==
  ASSUME TypeOK, Lifecycle, Helpers, NoSilentLoss, Next
  PROVE  NoSilentLoss'
<1> SUFFICES ASSUME NEW h \in Streams
             PROVE  /\ arrived'[h] = held'[h] + queue'[h].events + taken'[h]
                                     + queue'[h].status.dropped + refused'[h]
                    /\ refused'[h] > 0 => setting'.ordered
                    /\ Told(queue'[h])
  BY DEF NoSilentLoss, Told
<1>0. held'[h] \in Nat
  BY TypeStep DEF TypeOK
<1>1. /\ arrived[h] = held[h] + queue[h].events + taken[h] + queue[h].status.dropped + refused[h]
      /\ refused[h] > 0 => setting.ordered
      /\ Told(queue[h])
      /\ setting' = setting
  BY DEF NoSilentLoss, Told, Next
<1>2. /\ queue[h].events \in Nat /\ queue[h].status.dropped \in Nat
      /\ arrived[h] \in Nat /\ held[h] \in Nat /\ taken[h] \in Nat /\ refused[h] \in Nat
  <2>1. /\ queue[h] \in Queue /\ arrived[h] \in Nat /\ held[h] \in Nat /\ taken[h] \in Nat
        /\ refused[h] \in Nat
    BY DEF TypeOK
  <2> QED  BY <2>1, DexQueueAssumption DEF Queue, Status
<1>3. TypeOK => queue \in [Streams -> Queue] /\ taken \in [Streams -> Nat]
  BY DEF TypeOK
<1>4. CASE FeedRests(h)
  BY <1>1, <1>4 DEF FeedRests
<1>5. CASE FeedMoves(h)
  <2>1. PICK k \in Nat, new \in Nat, late \in Nat :
          /\ Offered(queue[h], k, queue'[h])
          /\ held'[h] + k + late = held[h] + new
          /\ arrived'[h] = arrived[h] + new
          /\ refused'[h] = refused[h] + late
          /\ late > 0 => setting.ordered
          /\ taken'[h] = taken[h]
    BY <1>5 DEF FeedMoves
  <2>2. /\ queue'[h].events \in Nat /\ queue'[h].status.dropped \in Nat
        /\ queue'[h].events + queue'[h].status.dropped
             = queue[h].events + queue[h].status.dropped + k
        /\ Told(queue'[h])
    BY <1>1, <2>1, DexQueueAssumption DEF Offered, Queue, Status
  <2> DEFINE a == arrived[h]  l == held[h]  e == queue[h].events  t == taken[h]
             d == queue[h].status.dropped  f == refused[h]
             l2 == held'[h]  e2 == queue'[h].events  d2 == queue'[h].status.dropped
  <2>3. /\ a \in Nat /\ l \in Nat /\ e \in Nat /\ t \in Nat /\ d \in Nat
        /\ l2 \in Nat /\ e2 \in Nat /\ d2 \in Nat /\ f \in Nat
        /\ a = l + e + t + d + f
        /\ e2 + d2 = e + d + k
        /\ l2 + k + late = l + new
    BY <1>0, <1>1, <1>2, <2>1, <2>2
  <2> HIDE DEF a, l, e, t, d, f, l2, e2, d2
  <2>4. a + new = l2 + e2 + t + d2 + (f + late)
    BY <2>3
  <2>5. f + late > 0 => f > 0 \/ late > 0
    BY <2>3
  <2> USE DEF a, l, e, t, d, f, l2, e2, d2
  <2> QED  BY <1>1, <2>1, <2>2, <2>4, <2>5
<1>6. CASE TakeEvent(h)
  <2>1. /\ queue'[h].events = queue[h].events - 1 /\ queue'[h].status = queue[h].status
        /\ taken'[h] = taken[h] + 1 /\ held' = held /\ arrived' = arrived
        /\ refused' = refused
    BY <1>3, <1>6 DEF TakeEvent, Queue
  <2> QED  BY <1>1, <1>2, <2>1 DEF Told
<1>7. CASE ReadState(h)
  <2>1. /\ queue'[h].events = queue[h].events /\ queue'[h].status = queue[h].status
        /\ taken' = taken /\ held' = held /\ arrived' = arrived /\ refused' = refused
    BY <1>3, <1>7 DEF ReadState, Queue
  <2> QED  BY <1>1, <2>1 DEF Told
<1> QED
  BY <1>4, <1>5, <1>6, <1>7, FeedStep

(* A consumer that has read all of the feed still knows the status. *)
LEMMA FeedEndStep ==
  ASSUME TypeOK, Helpers, FeedEndsInStatus, Next
  PROVE  FeedEndsInStatus'
<1> DEFINE Ends(q, s) == q.status = IF q.states = <<>> THEN s ELSE q.states[Len(q.states)]
<1> SUFFICES ASSUME NEW h \in Streams  PROVE Ends(queue'[h], seen'[h])
  BY DEF FeedEndsInStatus
<1>1. Ends(queue[h], seen[h])
  BY DEF FeedEndsInStatus
<1>2. /\ queue \in [Streams -> Queue] /\ seen \in [Streams -> Status]
      /\ queue[h].states \in Seq(Status)
  BY DEF TypeOK, Queue
<1>3. CASE FeedRests(h)
  BY <1>1, <1>3 DEF FeedRests
<1>4. CASE FeedMoves(h)
  BY <1>1, <1>4 DEF FeedMoves, Offered, Heard
<1>5. CASE TakeEvent(h)
  <2>1. /\ queue'[h].states = queue[h].states /\ queue'[h].status = queue[h].status
        /\ seen' = seen
    BY <1>2, <1>5 DEF TakeEvent, Queue
  <2> QED  BY <1>1, <2>1
<1>6. CASE ReadState(h)
  <2> DEFINE s == queue[h].states
  <2>1. /\ s # <<>> /\ queue'[h].states = Tail(s) /\ queue'[h].status = queue[h].status
        /\ seen'[h] = Head(s)
    BY <1>2, <1>6 DEF ReadState, Queue
  <2>2. /\ Head(s) = s[1] /\ Len(s) \in Nat /\ Len(s) # 0
        /\ Tail(s) \in Seq(Status) /\ Len(Tail(s)) = Len(s) - 1
        /\ \A i \in 1 .. Len(s) - 1 : Tail(s)[i] = s[i + 1]
        /\ Tail(s) = <<>> <=> Len(Tail(s)) = 0
    <3>1. s \in Seq(Status) /\ s # <<>>
      BY <1>2, <2>1
    <3> HIDE DEF s
    <3>2. Head(s) = s[1] /\ Len(s) \in Nat /\ Len(s) # 0
      BY <3>1, HeadTailProperties, EmptySeq, LenProperties
    <3>3. /\ Tail(s) \in Seq(Status) /\ Len(Tail(s)) = Len(s) - 1
          /\ \A i \in 1 .. Len(s) - 1 : Tail(s)[i] = s[i + 1]
      BY <3>1, HeadTailProperties
    <3>4. Tail(s) = <<>> <=> Len(Tail(s)) = 0
      BY <3>3, EmptySeq
    <3> QED  BY <3>2, <3>3, <3>4
  <2>3. queue[h].status = s[Len(s)]
    BY <1>1, <2>1
  <2> HIDE DEF s
  <2>4. CASE Len(s) = 1
    <3>1. Tail(s) = <<>>
      BY <2>2, <2>4
    <3> QED  BY <2>1, <2>2, <2>3, <2>4, <3>1
  <2>5. CASE Len(s) # 1
    <3>1. Len(s) - 1 \in 1 .. Len(s) - 1 /\ Len(s) - 1 + 1 = Len(s)
      BY <2>2, <2>5
    <3>2. Tail(s) # <<>> /\ Tail(s)[Len(Tail(s))] = s[Len(s)]
      BY <2>2, <3>1
    <3> QED  BY <2>1, <2>3, <3>2
  <2> QED  BY <2>4, <2>5
<1> QED
  BY <1>3, <1>4, <1>5, <1>6, FeedStep

-----------------------------------------------------------------------------
(* The life of the streams.                                                 *)

(* A task that moves on, and stays opened, leaves the life cycle as it was. *)
LEMMA TaskMoves ==
  ASSUME TypeOK, Lifecycle, NEW g \in Streams, NEW next, Live(g), next # "none",
         task' = [task EXCEPT ![g] = next], UNCHANGED <<client, setting>>
  PROVE  Lifecycle'
<1>1. Opened' = Opened
  BY DEF Opened, Live, TypeOK
<1>2. \A h \in Streams : Live(h)' => Live(h)
  BY DEF Live, TypeOK
<1> QED
  BY <1>1, <1>2 DEF Lifecycle, MayOpen, client

LEMMA CreateLives ==
  ASSUME TypeOK, Lifecycle, MayOpen, Create, op' = "free", UNCHANGED setting,
         \A h \in Streams : ~ Live(h)
  PROVE  Lifecycle'
<1> DEFINE n == Cardinality(Opened)
<1>1. n \in Nat /\ n + 1 \in Streams /\ n + 1 \notin Opened
  BY NextStream
<1>2. Opened = 1 .. n
  BY DEF Lifecycle
<1>3. task' = [task EXCEPT ![n + 1] = "created"] /\ current' = n + 1
  BY DEF Create
<1>4. Opened' = Opened \cup {n + 1}
  BY <1>1, <1>3 DEF Opened, TypeOK
<1> HIDE DEF n
<1>5. Opened' = 1 .. (n + 1)
  BY <1>1, <1>2, <1>4
<1>6. Cardinality(Opened') = n + 1
  BY <1>1, <1>5, FS_Interval
<1>7. \A h \in Streams : Live(h)' => h = n + 1
  BY <1>3 DEF Live, TypeOK
<1> QED
  BY <1>3, <1>5, <1>6, <1>7 DEF Lifecycle, Calls

LEMMA LifecycleStep ==
  ASSUME TypeOK, Lifecycle, Next
  PROVE  Lifecycle'
<1>1. ASSUME UNCHANGED <<task, current, op, asked>>, UNCHANGED setting  PROVE Lifecycle'
  BY <1>1 DEF Lifecycle, Opened, Live, MayOpen
<1>2. ASSUME UNCHANGED <<task, asked, setting>>,
             current' \in {0, current}, current' = 0 => \A h \in Streams : ~ Live(h),
             op' \in Calls \ {"close"} => current' # 0, op' = "subscribe" => MayOpen
      PROVE  Lifecycle'
  BY <1>2 DEF Lifecycle, Opened, Live, MayOpen
<1>3. ASSUME current = 0  PROVE \A h \in Streams : ~ Live(h)
  BY <1>3 DEF Lifecycle, Streams
<1>4. ASSUME op \in Calls \ {"close"}, task[current] = "done"
      PROVE  \A h \in Streams : ~ Live(h)
  BY <1>4 DEF Lifecycle, Live
<1>5. ASSUME Call, UNCHANGED setting  PROVE Lifecycle'
  <2>1. CASE Connect
    BY <1>1, <1>5, <2>1 DEF Connect, tasks
  <2>2. CASE \E call \in {"subscribe", "stop", "disconnect"} : BeginStop(call)
    <3>1. PICK call \in {"subscribe", "stop", "disconnect"} : BeginStop(call)
      BY <2>2
    <3> QED  BY <1>2, <1>5, <3>1 DEF BeginStop
  <2>3. CASE SubscribeFirst
    BY <1>3, <1>5, <2>3, CreateLives DEF SubscribeFirst
  <2>4. CASE SubscribeAgain
    BY <1>4, <1>5, <2>4, CreateLives DEF SubscribeAgain, Joined, Lifecycle, Calls
  <2>5. CASE StopReturns
    BY <1>2, <1>4, <1>5, <2>5 DEF StopReturns, Joined, Calls, tasks
  <2>6. CASE StopNothing
    BY <1>1, <1>5, <2>6 DEF StopNothing, tasks
  <2>7. CASE BeginClose
    BY <1>2, <1>3, <1>4, <1>5, <2>7 DEF BeginClose, Joined, Calls, tasks
  <2>8. CASE Closed
    BY <1>2, <1>3, <1>5, <2>8 DEF Closed, Lifecycle, Calls, tasks
  <2>9. CASE Update
    <3>1. /\ UNCHANGED <<task, current, setting>> /\ op' \in {op, "update"}
          /\ op = "free" /\ op' = "update" => current # 0
      BY <1>5, <2>9 DEF Update, tasks
    <3> QED  BY <2>9, <3>1 DEF Update, Lifecycle, Opened, Live, Calls
  <2>10. CASE UpdateReturns
    BY <1>2, <1>3, <1>5, <2>10 DEF UpdateReturns, Calls, tasks
  <2>11. CASE GiveUp
    BY <1>2, <1>3, <1>5, <2>11 DEF GiveUp, Calls
  <2> QED
    BY <1>5, <2>1, <2>2, <2>3, <2>4, <2>5, <2>6, <2>7, <2>8, <2>9, <2>10, <2>11 DEF Call
<1>6. ASSUME NEW g \in Streams, Stream(g), UNCHANGED setting  PROVE Lifecycle'
  <2>1. CASE Start(g) \/ Reopen(g)
    BY <1>6, <2>1, TaskMoves DEF Start, Reopen, Attempt, Live
  <2>2. CASE Receive(g)
    BY <1>1, <1>6, <2>2 DEF Receive, tasks, client
  <2>3. CASE NeverStarts(g) \/ Fail(g) \/ BackoffEnds(g) \/ Cancelled(g)
    BY <1>6, <2>3, TaskMoves DEF NeverStarts, Fail, BackoffEnds, Cancelled, Live
  <2>4. CASE WindUp(g)
    BY <1>6, <2>4, TaskMoves DEF WindUp, Finish, Live
  <2>5. CASE Drained(g) \/ Interrupted(g)
    BY <1>6, <2>5, TaskMoves DEF Drained, Interrupted, Finish, Live
  <2> QED  BY <1>6, <2>1, <2>2, <2>3, <2>4, <2>5 DEF Stream
<1>7. ASSUME NEW g \in Streams, Helper(g) \/ Consumer(g), UNCHANGED setting  PROVE Lifecycle'
  <2>1. UNCHANGED <<task, current, op, asked>>
    BY <1>7 DEF Helper, Consumer, PumpRuns, PumpStops, FlushWakes, FlusherStops, SendFirst,
                SendNext, TakeEvent, ReadState, client, tasks
  <2> QED  BY <1>1, <1>7, <2>1
<1> QED
  BY <1>5, <1>6, <1>7 DEF Next

LEMMA HelpersStep ==
  ASSUME TypeOK, Lifecycle, Helpers, Next
  PROVE  Helpers'
<1>1. ASSUME UNCHANGED <<task, pump, flusher, setting>>  PROVE Helpers'
  BY <1>1 DEF Helpers
<1>2. ASSUME MayOpen, Create, UNCHANGED setting  PROVE Helpers'
  <2> DEFINE n == Cardinality(Opened) + 1
  <2>1. n \in Streams /\ task[n] = "none"
    BY <1>2, NextStream DEF Opened
  <2>2. task' = [task EXCEPT ![n] = "created"] /\ UNCHANGED <<pump, flusher, setting>>
    BY <1>2 DEF Create
  <2> HIDE DEF n
  <2> QED  BY <2>1, <2>2 DEF Helpers, TypeOK
<1>3. ASSUME Call, UNCHANGED setting  PROVE Helpers'
  <2>1. CASE SubscribeFirst \/ SubscribeAgain
    BY <1>2, <1>3, <2>1 DEF SubscribeFirst, SubscribeAgain, Joined, Lifecycle
  <2>2. CASE ~ (SubscribeFirst \/ SubscribeAgain)
    BY <1>1, <1>3, <2>2 DEF Call, Connect, BeginStop, StopReturns, StopNothing, BeginClose, Closed,
                            Update, UpdateReturns, GiveUp, tasks
  <2> QED  BY <2>1, <2>2
<1>4. ASSUME NEW g \in Streams, Stream(g), UNCHANGED setting  PROVE Helpers'
  <2>1. CASE Start(g)
    BY <1>4, <2>1 DEF Start, Attempt, Helpers, TypeOK
  <2>2. CASE NeverStarts(g)
    BY <1>4, <2>2 DEF NeverStarts, Helpers, TypeOK
  <2>3. CASE Receive(g)
    BY <1>1, <1>4, <2>3 DEF Receive, tasks
  <2>4. CASE Fail(g)
    BY <1>4, <2>4 DEF Fail, Helpers, TypeOK
  <2>5. CASE BackoffEnds(g)
    BY <1>4, <2>5 DEF BackoffEnds, Helpers, TypeOK
  <2>6. CASE Reopen(g)
    BY <1>4, <2>6 DEF Reopen, Attempt, Helpers, TypeOK
  <2>7. CASE Cancelled(g)
    BY <1>4, <2>7 DEF Cancelled, Helpers, TypeOK
  <2>8. CASE WindUp(g)
    <3>1. CASE setting.timer
      <4>1. /\ task' = [task EXCEPT ![g] = "draining"] /\ UNCHANGED <<pump, setting>>
            /\ task[g] \in {"closing", "leaving"}
            /\ \/ flusher' = [flusher EXCEPT ![g] = "cancelled"]
               \/ flusher' = flusher /\ flusher[g] = "done"
        <5>1. /\ task' = [task EXCEPT ![g] = "draining"] /\ UNCHANGED pump
              /\ flusher' = [flusher EXCEPT ![g] = IF @ = "done" THEN @ ELSE "cancelled"]
              /\ task[g] \in {"closing", "leaving"}
          BY <2>8, <3>1 DEF WindUp
        <5>2. CASE flusher[g] = "done"
          <6>1. flusher \in [Streams -> {"none", "running", "cancelled", "done"}]
            BY DEF TypeOK
          <6>2. flusher' = flusher
            BY <5>1, <5>2, <6>1
          <6> QED  BY <1>4, <5>1, <5>2, <6>2
        <5>3. CASE flusher[g] # "done"
          BY <1>4, <5>1, <5>3
        <5> QED  BY <5>2, <5>3
      <4> QED  BY <4>1, ZenonT(30) DEF Helpers, TypeOK
    <3>2. CASE ~ setting.timer
      <4>1. /\ task' = [task EXCEPT ![g] = "done"] /\ UNCHANGED <<pump, flusher, setting>>
            /\ task[g] \in {"closing", "leaving"}
        BY <1>4, <2>8, <3>2 DEF WindUp, Finish
      <4> QED  BY <3>2, <4>1 DEF Helpers, TypeOK
    <3> QED  BY <3>1, <3>2
  <2>9. CASE Drained(g)
    BY <1>4, <2>9 DEF Drained, Finish, Helpers, TypeOK
  <2>10. CASE Interrupted(g)
    BY <1>4, <2>10 DEF Interrupted, Helpers, TypeOK
  <2> QED
    BY <1>4, <2>1, <2>2, <2>3, <2>4, <2>5, <2>6, <2>7, <2>8, <2>9, <2>10 DEF Stream
<1>5. ASSUME NEW g \in Streams, Helper(g) \/ Consumer(g), UNCHANGED setting  PROVE Helpers'
  <2>1. CASE PumpRuns(g)
    BY <1>5, <2>1 DEF PumpRuns, Helpers, TypeOK
  <2>2. CASE PumpStops(g)
    BY <1>5, <2>2 DEF PumpStops, Helpers, TypeOK
  <2>3. ASSUME NEW out, FlushWakes(g, out)  PROVE Helpers'
    <3>1. /\ flusher[g] = "running"
          /\ flusher' \in {flusher, [flusher EXCEPT ![g] = "done"]}
          /\ UNCHANGED <<task, pump, setting>>
      BY <1>5, <2>3 DEF FlushWakes, TypeOK
    <3> QED  BY <3>1 DEF Helpers, TypeOK
  <2>4. CASE FlusherStops(g)
    BY <1>5, <2>4 DEF FlusherStops, Helpers, TypeOK
  <2>5. CASE SendFirst(g) \/ SendNext(g) \/ Consumer(g)
    BY <1>1, <1>5, <2>5 DEF SendFirst, SendNext, Consumer, TakeEvent, ReadState, tasks
  <2> QED
    BY <1>5, <2>1, <2>2, <2>3, <2>4, <2>5 DEF Helper
<1> QED
  BY <1>3, <1>4, <1>5 DEF Next

LEMMA DelaysStep ==
  ASSUME TypeOK, Lifecycle, Delays, Next
  PROVE  Delays'
<1>1. ASSUME UNCHANGED <<task, delay, streak>>  PROVE Delays'
  BY <1>1 DEF Delays
<1>2. ASSUME NEW g \in Streams, NEW next, UNCHANGED <<delay, streak>>,
             task' = [task EXCEPT ![g] = next],
             next = "backoff" => task[g] = "backoff",
             next \in {"none", "created", "streaming", "closing"} =>
               task[g] \in {"none", "created", "streaming", "closing"}
      PROVE  Delays'
  BY <1>2 DEF Delays, TypeOK
<1>3. ASSUME MayOpen, Create, UNCHANGED setting  PROVE Delays'
  <2> DEFINE n == Cardinality(Opened) + 1
  <2>1. n \in Streams /\ task[n] = "none"
    BY <1>3, NextStream DEF Opened
  <2>2. task' = [task EXCEPT ![n] = "created"] /\ UNCHANGED <<delay, streak>>
    BY <1>3 DEF Create, retry
  <2> HIDE DEF n
  <2> QED  BY <1>2, <2>1, <2>2
<1>4. ASSUME Call, UNCHANGED setting  PROVE Delays'
  <2>1. CASE SubscribeFirst \/ SubscribeAgain
    BY <1>3, <1>4, <2>1 DEF SubscribeFirst, SubscribeAgain, Joined, Lifecycle
  <2>2. CASE ~ (SubscribeFirst \/ SubscribeAgain)
    BY <1>1, <1>4, <2>2 DEF Call, Connect, BeginStop, StopReturns, StopNothing, BeginClose, Closed,
                            Update, UpdateReturns, GiveUp, tasks, retry
  <2> QED  BY <2>1, <2>2
<1>5. ASSUME NEW g \in Streams, Stream(g)  PROVE Delays'
  <2>1. CASE Start(g) \/ Reopen(g)
    BY <1>2, <2>1 DEF Start, Reopen, Attempt, retry
  <2>2. CASE NeverStarts(g) \/ Cancelled(g) \/ Interrupted(g)
    BY <1>2, <2>2 DEF NeverStarts, Cancelled, Interrupted, retry
  <2>3. CASE WindUp(g) \/ Drained(g)
    BY <1>2, <2>3 DEF WindUp, Drained, Finish, retry
  <2>4. CASE Receive(g)
    <3>1. /\ task[g] = "streaming" /\ task' = task
          /\ delay' = [delay EXCEPT ![g] = BaseDelay] /\ streak' = [streak EXCEPT ![g] = 0]
      BY <2>4 DEF Receive, tasks
    <3>2. Wait(0 + 1) = BaseDelay
      BY Waits
    <3> QED  BY <3>1, <3>2 DEF Delays, TypeOK
  <2>5. CASE Fail(g)
    <3>1. /\ task[g] = "streaming" /\ task' = [task EXCEPT ![g] = "backoff"]
          /\ delay' = delay /\ streak' = [streak EXCEPT ![g] = streak[g] + 1]
      BY <2>5 DEF Fail
    <3>2. streak[g] + 1 > 0
      BY DEF TypeOK
    <3> QED  BY <3>1, <3>2 DEF Delays, TypeOK
  <2>6. CASE BackoffEnds(g)
    <3>1. /\ task[g] = "backoff" /\ task' = [task EXCEPT ![g] = "closing"]
          /\ delay' = [delay EXCEPT ![g] = Doubled(delay[g])] /\ streak' = streak
      BY <2>6 DEF BackoffEnds
    <3>2. delay[g] = Wait(streak[g]) /\ streak[g] \in Nat \ {0}
      BY <3>1 DEF Delays, TypeOK
    <3>3. Doubled(delay[g]) = Wait(streak[g] + 1)
      BY <3>2, Waits
    <3> QED  BY <3>1, <3>3 DEF Delays, TypeOK
  <2> QED
    BY <1>5, <2>1, <2>2, <2>3, <2>4, <2>5, <2>6 DEF Stream
<1>6. ASSUME NEW g \in Streams, Helper(g) \/ Consumer(g)  PROVE Delays'
  <2>1. UNCHANGED <<task, delay, streak>>
    BY <1>6 DEF Helper, Consumer, PumpRuns, PumpStops, FlushWakes, FlusherStops, SendFirst,
                SendNext, TakeEvent, ReadState, tasks, retry
  <2> QED  BY <1>1, <2>1
<1> QED
  BY <1>4, <1>5, <1>6 DEF Next

(* What ends a task, and what happens to one that has ended. *)
LEMMA Ending ==
  ASSUME TypeOK, Lifecycle, Next, NEW h \in Streams, task'[h] = "done"
  PROVE  \/ task[h] = "done" /\ interrupted'[h] = interrupted[h]
            /\ (pump[h] = "none" => pump'[h] = "none")
         \/ NeverStarts(h)
         \/ Finish(h)
         \/ Interrupted(h)
<1> DEFINE Stays == task[h] = "done" /\ interrupted'[h] = interrupted[h]
                    /\ (pump[h] = "none" => pump'[h] = "none")
<1>1. ASSUME UNCHANGED <<task, pump, interrupted>>  PROVE Stays
  BY <1>1
<1>2. ASSUME MayOpen, Create  PROVE Stays
  <2> DEFINE n == Cardinality(Opened) + 1
  <2>1. n \in Streams /\ task' = [task EXCEPT ![n] = "created"] /\ UNCHANGED <<pump, interrupted>>
    BY <1>2, NextStream DEF Create
  <2> HIDE DEF n
  <2> QED  BY <2>1 DEF TypeOK
<1>3. ASSUME Call  PROVE Stays
  <2>1. CASE SubscribeFirst \/ SubscribeAgain
    BY <1>2, <1>3, <2>1 DEF SubscribeFirst, SubscribeAgain, Joined, Lifecycle
  <2>2. CASE ~ (SubscribeFirst \/ SubscribeAgain)
    BY <1>1, <1>3, <2>2 DEF Call, Connect, BeginStop, StopReturns, StopNothing, BeginClose, Closed,
                            Update, UpdateReturns, GiveUp, tasks
  <2> QED  BY <2>1, <2>2
<1>4. ASSUME NEW g \in Streams, Stream(g)
      PROVE  Stays \/ NeverStarts(h) \/ Finish(h) \/ Interrupted(h)
  <2>1. CASE Start(g) \/ Reopen(g)
    BY <2>1 DEF Start, Reopen, Attempt, TypeOK
  <2>2. CASE NeverStarts(g) \/ Interrupted(g)
    <3>1. CASE g = h
      BY <2>2, <3>1
    <3>2. CASE g # h
      <4>1. CASE NeverStarts(g)
        <5>1. task' = [task EXCEPT ![g] = "done"] /\ UNCHANGED <<pump, interrupted>>
          BY <4>1 DEF NeverStarts
        <5>2. task'[h] = task[h]
          BY <3>2, <5>1 DEF TypeOK
        <5> QED  BY <5>1, <5>2
      <4>2. CASE Interrupted(g)
        <5>1. /\ task' = [task EXCEPT ![g] = "done"] /\ UNCHANGED pump
              /\ interrupted' = [interrupted EXCEPT ![g] = TRUE]
          BY <4>2 DEF Interrupted
        <5>2. task'[h] = task[h] /\ interrupted'[h] = interrupted[h]
          BY <3>2, <5>1 DEF TypeOK
        <5> QED  BY <5>1, <5>2
      <4> QED  BY <2>2, <4>1, <4>2
    <3> QED  BY <3>1, <3>2
  <2>3. CASE Receive(g)
    BY <1>1, <2>3 DEF Receive, tasks
  <2>4. CASE Fail(g) \/ BackoffEnds(g) \/ Cancelled(g)
    <3>1. \/ task' = [task EXCEPT ![g] = "backoff"]
          \/ task' = [task EXCEPT ![g] = "closing"]
          \/ task' = [task EXCEPT ![g] = "leaving"]
      BY <2>4 DEF Fail, BackoffEnds, Cancelled
    <3>2. task[h] = "done" /\ g # h
      BY <3>1 DEF TypeOK
    <3>3. interrupted'[h] = interrupted[h] /\ pump'[h] = pump[h]
      BY <2>4, <3>2 DEF Fail, BackoffEnds, Cancelled, TypeOK
    <3> QED  BY <3>2, <3>3
  <2>5. CASE WindUp(g) \/ Drained(g)
    <3>1. CASE Finish(g) /\ g = h
      BY <3>1
    <3>2. CASE ~ (Finish(g) /\ g = h)
      <4>1. \/ task' = [task EXCEPT ![g] = "draining"]
            \/ g # h /\ task' = [task EXCEPT ![g] = "done"]
        BY <2>5, <3>2 DEF WindUp, Drained, Finish
      <4>2. UNCHANGED <<pump, interrupted>>
        BY <2>5 DEF WindUp, Drained
      <4>3. task[h] = "done"
        BY <4>1 DEF TypeOK
      <4> QED  BY <4>2, <4>3
    <3> QED  BY <3>1, <3>2
  <2> QED  BY <1>4, <2>1, <2>2, <2>3, <2>4, <2>5 DEF Stream
<1>5. ASSUME NEW g \in Streams, Helper(g) \/ Consumer(g)  PROVE Stays
  <2>1. CASE PumpRuns(g) \/ PumpStops(g)
    BY <2>1 DEF PumpRuns, PumpStops, TypeOK
  <2>2. ASSUME NEW out, FlushWakes(g, out)  PROVE Stays
    BY <1>1, <2>2 DEF FlushWakes
  <2>3. CASE FlusherStops(g) \/ SendFirst(g) \/ SendNext(g) \/ Consumer(g)
    BY <1>1, <2>3 DEF FlusherStops, SendFirst, SendNext, Consumer, TakeEvent, ReadState, tasks
  <2> QED  BY <1>5, <2>1, <2>2, <2>3 DEF Helper
<1> QED
  BY <1>3, <1>4, <1>5 DEF Next

LEMMA CleanEndStep ==
  ASSUME TypeOK, Lifecycle, Helpers, CleanEnd, Next
  PROVE  CleanEnd'
<1> SUFFICES ASSUME NEW h \in Streams, task'[h] = "done"
             PROVE  /\ pump'[h] # "running" /\ flusher'[h] # "running"
                    /\ pump'[h] # "none" /\ ~ interrupted'[h] =>
                         queue'[h].status.state = "stopped" /\ held'[h] = 0
  BY DEF CleanEnd
<1>1. pump'[h] # "running" /\ flusher'[h] # "running"
  BY HelpersStep DEF Helpers
<1>2. queue[h] \in Queue /\ held[h] \in Nat
  BY DEF TypeOK
<1>3. CASE task[h] = "done" /\ interrupted'[h] = interrupted[h]
           /\ (pump[h] = "none" => pump'[h] = "none")
  <2>1. FeedRests(h) \/ TakeEvent(h) \/ ReadState(h)
    BY <1>3, FeedStep
  <2>2. queue'[h].status = queue[h].status /\ held'[h] = held[h]
    <3>1. CASE FeedRests(h)
      BY <3>1 DEF FeedRests
    <3>2. CASE TakeEvent(h)
      <4>1. queue'[h] = [queue[h] EXCEPT !.events = @ - 1] /\ held'[h] = held[h]
        BY <3>2 DEF TakeEvent, TypeOK
      <4> QED  BY <1>2, <4>1 DEF Queue
    <3>3. CASE ReadState(h)
      <4>1. queue'[h] = [queue[h] EXCEPT !.states = Tail(@)] /\ held'[h] = held[h]
        BY <3>3 DEF ReadState, TypeOK
      <4> QED  BY <1>2, <4>1 DEF Queue
    <3> QED  BY <2>1, <3>1, <3>2, <3>3
  <2>3. pump[h] # "none" /\ ~ interrupted[h] => queue[h].status.state = "stopped" /\ held[h] = 0
    BY <1>3 DEF CleanEnd
  <2>4. task[h] = "done" /\ interrupted'[h] = interrupted[h] /\ (pump[h] = "none" => pump'[h] = "none")
    BY <1>3
  <2>5. ASSUME pump'[h] # "none", ~ interrupted'[h]
        PROVE  queue'[h].status.state = "stopped" /\ held'[h] = 0
    <3>1. pump[h] # "none" /\ ~ interrupted[h]
      BY <2>4, <2>5
    <3> QED  BY <2>2, <2>3, <3>1
  <2> QED  BY <1>1, <2>5
<1>4. CASE NeverStarts(h)
  BY <1>1, <1>4 DEF NeverStarts, Helpers
<1>5. CASE Finish(h)
  <2>1. Offered(queue[h], 0, Stopped(queue[h])) /\ Stopped(queue[h]).status.state = "stopped"
    BY <1>2, Transitions DEF States
  <2>2. PutEvents(Stopped(queue[h]), held[h]).status.state = "stopped"
    BY <1>2, <2>1, Handed
  <2> QED  BY <1>1, <1>5, <2>2 DEF Finish, TypeOK
<1>6. CASE Interrupted(h)
  BY <1>1, <1>6 DEF Interrupted, TypeOK
<1> QED
  BY <1>3, <1>4, <1>5, <1>6, Ending

-----------------------------------------------------------------------------
(* The filters.                                                             *)

LEMMA AllFromSequences ==
  ASSUME NEW s \in Seq(Nat), NEW t \in Seq(Nat), NEW low \in Nat, NEW x \in Nat,
         AllFrom(s, low), AllFrom(t, low), x >= low
  PROVE  /\ AllFrom(<<>>, low)
         /\ AllFrom(Append(s, x), low)
         /\ AllFrom(s \o t, low)
         /\ s # <<>> => Head(s) >= low /\ AllFrom(Tail(s), low)
         /\ \A m, n \in Nat : m > 0 /\ n <= Len(s) => AllFrom(SubSeq(s, m, n), low)
<1>0. Len(s) \in Nat /\ Len(t) \in Nat /\ \A i \in 1 .. Len(s) : s[i] >= low
  BY DEF AllFrom
<1>1. AllFrom(<<>>, low)
  BY DEF AllFrom
<1>2. AllFrom(Append(s, x), low)
  BY AppendProperties, LenProperties DEF AllFrom
<1>3. AllFrom(s \o t, low)
  BY <1>0, ConcatProperties DEF AllFrom
<1>4. ASSUME s # <<>>  PROVE Head(s) >= low /\ AllFrom(Tail(s), low)
  <2>1. Len(s) # 0 /\ Head(s) = s[1]
    BY <1>4, EmptySeq, HeadTailProperties
  <2>2. /\ Len(Tail(s)) = Len(s) - 1
        /\ \A i \in 1 .. Len(s) - 1 : Tail(s)[i] = s[i + 1] /\ i + 1 \in 1 .. Len(s)
    BY <1>0, <1>4, HeadTailProperties
  <2> QED  BY <1>0, <2>1, <2>2 DEF AllFrom
<1>5. ASSUME NEW m \in Nat, NEW n \in Nat, m > 0, n <= Len(s)
      PROVE  AllFrom(SubSeq(s, m, n), low)
  <2>1. /\ Len(SubSeq(s, m, n)) = IF m <= n THEN n - m + 1 ELSE 0
        /\ \A i \in 1 .. n - m + 1 : SubSeq(s, m, n)[i] = s[m + i - 1]
    BY <1>5, SubSeqProperties
  <2>2. \A i \in 1 .. n - m + 1 : m + i - 1 \in 1 .. Len(s)
    BY <1>0, <1>5
  <2>3. SUFFICES ASSUME NEW i \in 1 .. Len(SubSeq(s, m, n))  PROVE SubSeq(s, m, n)[i] >= low
    BY DEF AllFrom
  <2>4. i \in 1 .. n - m + 1
    BY <2>1, <2>3
  <2>5. SubSeq(s, m, n)[i] = s[m + i - 1] /\ m + i - 1 \in 1 .. Len(s)
    BY <2>1, <2>2, <2>4
  <2> QED  BY <1>0, <2>5
<1> QED
  BY <1>1, <1>2, <1>3, <1>4, <1>5

(* The groups of Filters, for one stream. *)
OwnFilters(g) ==
  /\ first[g] # 0 <=> task[g] # "none"
  /\ first[g] <= asked
  /\ task[g] = "none" => requests[g] = <<>> /\ outgoing[g] = <<>>
  /\ AllFrom(requests[g], first[g])
  /\ AllFrom(outgoing[g], first[g])
  /\ server[g] # 0 => task[g] = "streaming" /\ server[g] >= first[g]

LEMMA CreateFilters ==
  ASSUME TypeOK, Lifecycle, Filters, MayOpen, Create
  PROVE  Filters'
<1> DEFINE n == Cardinality(Opened) + 1
<1>1. n \in Streams /\ task[n] = "none"
  BY NextStream DEF Opened
<1>2. /\ asked' = asked + 1 /\ asked \in Nat
      /\ current' = n /\ currentReq' = asked'
      /\ first' = [first EXCEPT ![n] = asked']
      /\ task' = [task EXCEPT ![n] = "created"]
      /\ UNCHANGED <<requests, outgoing, server>>
  BY DEF Create, TypeOK, wire
<1> HIDE DEF n
<1>3. requests[n] = <<>> /\ outgoing[n] = <<>> /\ server[n] = 0
  BY <1>1 DEF Filters
<1>4. AllFrom(<<>>, asked')
  BY DEF AllFrom
<1>5. ASSUME NEW g \in Streams  PROVE OwnFilters(g)'
  <2>1. CASE g = n
    BY <1>1, <1>2, <1>3, <1>4, <2>1 DEF OwnFilters, TypeOK
  <2>2. CASE g # n
    BY <1>2, <2>2 DEF OwnFilters, Filters, TypeOK
  <2> QED  BY <2>1, <2>2
<1>6. currentReq' >= first'[current']
  BY <1>1, <1>2 DEF TypeOK
<1> QED
  BY <1>5, <1>6 DEF Filters, OwnFilters

LEMMA CallFilters ==
  ASSUME TypeOK, Lifecycle, Filters, Call
  PROVE  Filters'
<1>1. ASSUME UNCHANGED <<asked, first, task, requests, outgoing, server>>,
             current' # 0 => current' = current /\ currentReq' = currentReq
      PROVE  Filters'
  BY <1>1 DEF Filters
<1>2. CASE SubscribeFirst \/ SubscribeAgain
  BY <1>2, CreateFilters DEF SubscribeFirst, SubscribeAgain, Joined, Lifecycle
<1>3. CASE Connect \/ \E call \in {"subscribe", "stop", "disconnect"} : BeginStop(call)
  BY <1>1, <1>3 DEF Connect, BeginStop, tasks, wire
<1>4. CASE StopReturns \/ StopNothing \/ BeginClose \/ Closed \/ GiveUp
  BY <1>1, <1>4 DEF StopReturns, StopNothing, BeginClose, Closed, GiveUp, tasks, wire
<1>5. ASSUME NEW x, x \in Nat, current # 0, x >= first[current],
             requests' = [requests EXCEPT ![current] = Append(@, x)],
             asked' >= asked, asked' \in Nat, currentReq' \in {currentReq, x},
             UNCHANGED <<current, first, task, outgoing, server>>, task[current] # "none"
      PROVE  Filters'
  <2>1. current \in Streams /\ requests[current] \in Seq(Nat) /\ first[current] \in Nat
    BY <1>5, SMTT(30) DEF TypeOK, Streams
  <2>2. AllFrom(Append(requests[current], x), first[current])
    BY <1>5, <2>1, AllFromSequences DEF Filters
  <2>3. ASSUME NEW g \in Streams  PROVE OwnFilters(g)'
    <3>1. OwnFilters(g) /\ first[g] \in Nat /\ asked \in Nat
      BY DEF Filters, OwnFilters, TypeOK
    <3>2. requests'[g] = IF g = current THEN Append(requests[current], x) ELSE requests[g]
      BY <1>5, <2>1 DEF TypeOK
    <3> QED  BY <1>5, <2>2, <3>1, <3>2 DEF OwnFilters
  <2>4. currentReq' >= first'[current']
    BY <1>5 DEF Filters
  <2> QED  BY <2>3, <2>4 DEF Filters, OwnFilters
<1>6. ASSUME current # 0
      PROVE  /\ current \in Streams /\ first[current] <= asked /\ asked \in Nat
             /\ first[current] \in Nat /\ task[current] # "none"
  <2>1. current \in Streams
    BY <1>6 DEF TypeOK, Streams
  <2>2. current \in Opened
    <3>1. current = Cardinality(Opened) /\ Opened = 1 .. Cardinality(Opened) /\ current \in Nat
      BY <1>6 DEF Lifecycle, TypeOK
    <3> HIDE DEF Opened
    <3>2. current \in 1 .. current
      BY <1>6, <3>1
    <3> QED  BY <3>1, <3>2
  <2> QED  BY <2>1, <2>2 DEF Filters, TypeOK, Opened
<1>7. CASE Update
  <2>1. asked' = asked + 1 /\ currentReq' = asked' /\ asked \in Nat
    BY <1>7 DEF Update, TypeOK
  <2>2. UNCHANGED <<current, first, task, outgoing, server>>
    BY <1>7 DEF Update, tasks
  <2>3. CASE requests' = requests
    <3>1. ASSUME NEW g \in Streams  PROVE OwnFilters(g)'
      BY <2>1, <2>2, <2>3 DEF Filters, OwnFilters, TypeOK
    <3>2. current' # 0 => currentReq' >= first'[current']
      BY <1>6, <2>1, <2>2
    <3> QED  BY <3>1, <3>2 DEF Filters, OwnFilters
  <2>4. CASE current # 0 /\ requests' = [requests EXCEPT ![current] = Append(@, asked')]
    <3>1. asked' \in Nat /\ asked' >= asked /\ asked' >= first[current] /\ task[current] # "none"
      BY <1>6, <2>1, <2>4
    <3>2. currentReq' \in {currentReq, asked'}
      BY <2>1
    <3> QED  BY <1>5, <2>2, <2>4, <3>1, <3>2
  <2> QED  BY <1>7, <2>3, <2>4 DEF Update
<1>8. CASE UpdateReturns
  <2>1. current # 0
    BY <1>8 DEF UpdateReturns, Lifecycle, Calls
  <2>2. /\ requests' = [requests EXCEPT ![current] = Append(@, asked)]
        /\ asked' = asked /\ currentReq' \in {currentReq, asked}
        /\ UNCHANGED <<current, first, task, outgoing, server>>
    BY <1>8 DEF UpdateReturns, tasks
  <2>3. asked \in Nat /\ asked >= asked /\ asked >= first[current] /\ task[current] # "none"
    BY <1>6, <2>1
  <2> QED  BY <1>5, <2>1, <2>2, <2>3
<1> QED
  BY <1>2, <1>3, <1>4, <1>7, <1>8 DEF Call

LEMMA StreamFilters ==
  ASSUME TypeOK, Lifecycle, Helpers, Filters, NEW g \in Streams,
         Stream(g) \/ Helper(g) \/ Consumer(g)
  PROVE  Filters'
<1>1. ASSUME UNCHANGED <<client, first, requests, outgoing, server>>,
             \/ UNCHANGED task
             \/ \E next : /\ task' = [task EXCEPT ![g] = next]
                          /\ task[g] \notin {"none", "streaming"} /\ next # "none"
      PROVE  Filters'
  BY <1>1 DEF Filters, TypeOK, client
<1>2. ASSUME UNCHANGED <<client, first, requests, outgoing>>,
             server' = [server EXCEPT ![g] = 0],
             \E next : task' = [task EXCEPT ![g] = next] /\ task[g] # "none" /\ next # "none"
      PROVE  Filters'
  BY <1>2 DEF Filters, TypeOK, client
<1>3. ASSUME task[g] # "none", Attempt(g)  PROVE Filters'
  <2>1. /\ task' = [task EXCEPT ![g] = "streaming"]
        /\ outgoing' = [outgoing EXCEPT ![g] = <<>>]
        /\ server' = [server EXCEPT ![g] = 0]
        /\ UNCHANGED <<client, first, requests>>
    BY <1>3 DEF Attempt
  <2>2. AllFrom(<<>>, first[g])
    BY DEF AllFrom
  <2>3. ASSUME NEW h \in Streams  PROVE OwnFilters(h)'
    <3>1. CASE h = g
      BY <1>3, <2>1, <2>2, <3>1 DEF OwnFilters, Filters, TypeOK, client
    <3>2. CASE h # g
      BY <2>1, <3>2 DEF OwnFilters, Filters, TypeOK, client
    <3> QED  BY <3>1, <3>2
  <2> QED  BY <2>1, <2>3 DEF Filters, OwnFilters, client
<1>4. CASE Start(g) \/ Reopen(g)
  BY <1>3, <1>4 DEF Start, Reopen
<1>5. CASE NeverStarts(g) \/ BackoffEnds(g) \/ Interrupted(g)
  BY <1>1, <1>5 DEF NeverStarts, BackoffEnds, Interrupted, wire
<1>6. CASE WindUp(g) \/ Drained(g)
  <2>1. UNCHANGED <<client, first, requests, outgoing, server>>
    BY <1>6 DEF WindUp, Drained, wire
  <2>2. /\ task[g] \notin {"none", "streaming"}
        /\ \/ task' = [task EXCEPT ![g] = "draining"]
           \/ task' = [task EXCEPT ![g] = "done"]
    BY <1>6 DEF WindUp, Drained, Finish
  <2> QED  BY <1>1, <2>1, <2>2
<1>7. CASE Receive(g) \/ PumpStops(g) \/ FlusherStops(g) \/ Consumer(g)
  BY <1>1, <1>7 DEF Receive, PumpStops, FlusherStops, Consumer, TakeEvent, ReadState, tasks, wire
<1>8. CASE Fail(g) \/ Cancelled(g)
  BY <1>2, <1>8 DEF Fail, Cancelled
<1>9. ASSUME NEW out, FlushWakes(g, out)  PROVE Filters'
  BY <1>1, <1>9 DEF FlushWakes, wire
<1>10. ASSUME Live(g)  PROVE current = g /\ current # 0 /\ currentReq >= first[g]
  BY <1>10 DEF Lifecycle, Filters, Streams
<1>11. CASE SendFirst(g)
  <2>1. /\ task[g] = "streaming" /\ UNCHANGED <<client, first, task, requests, outgoing>>
        /\ server' = [server EXCEPT ![g] = IF currentReq = 0 THEN first[g] ELSE currentReq]
    BY <1>11 DEF SendFirst, tasks
  <2>2. currentReq >= first[g] /\ first[g] \in Nat
    BY <1>10, <2>1 DEF Live, TypeOK
  <2>3. ASSUME NEW h \in Streams  PROVE OwnFilters(h)'
    <3>1. OwnFilters(h)
      BY DEF Filters, OwnFilters
    <3>2. CASE h = g
      <4>1. server'[h] = first[g] \/ server'[h] = currentReq
        BY <2>1, <3>2 DEF TypeOK
      <4> QED  BY <2>1, <2>2, <3>1, <3>2, <4>1 DEF OwnFilters, client
    <3>3. CASE h # g
      <4>1. server'[h] = server[h]
        BY <2>1, <3>3 DEF TypeOK
      <4> QED  BY <2>1, <3>1, <4>1 DEF OwnFilters, client
    <3> QED  BY <3>2, <3>3
  <2> QED  BY <2>1, <2>3 DEF Filters, OwnFilters, client
<1>12. CASE SendNext(g)
  <2>1. /\ task[g] = "streaming" /\ UNCHANGED <<client, first, task, requests>>
        /\ outgoing[g] # <<>>
        /\ server' = [server EXCEPT ![g] = Head(outgoing[g])]
        /\ outgoing' = [outgoing EXCEPT ![g] = Tail(outgoing[g])]
    BY <1>12 DEF SendNext, tasks
  <2>2. Head(outgoing[g]) >= first[g] /\ AllFrom(Tail(outgoing[g]), first[g])
    <3>1. outgoing[g] \in Seq(Nat) /\ first[g] \in Nat /\ AllFrom(outgoing[g], first[g])
      BY DEF TypeOK, Filters
    <3>2. first[g] >= first[g]
      BY <3>1
    <3> QED  BY <2>1, <3>1, <3>2, AllFromSequences
  <2>3. ASSUME NEW h \in Streams  PROVE OwnFilters(h)'
    <3>1. OwnFilters(h)
      BY DEF Filters, OwnFilters
    <3>2. CASE h = g
      <4>1. server'[h] = Head(outgoing[g]) /\ outgoing'[h] = Tail(outgoing[g])
        BY <2>1, <3>2 DEF TypeOK
      <4> QED  BY <2>1, <2>2, <3>1, <3>2, <4>1 DEF OwnFilters, client
    <3>3. CASE h # g
      <4>1. server'[h] = server[h] /\ outgoing'[h] = outgoing[h]
        BY <2>1, <3>3 DEF TypeOK
      <4> QED  BY <2>1, <3>1, <4>1 DEF OwnFilters, client
    <3> QED  BY <3>2, <3>3
  <2> QED  BY <2>1, <2>3 DEF Filters, OwnFilters, client
<1>13. CASE PumpRuns(g)
  <2> DEFINE n == IF cancelSet[g] THEN 1 ELSE Len(requests[g])
             sent == SubSeq(requests[g], 1, n)
             left == SubSeq(requests[g], n + 1, Len(requests[g]))
  <2>1. requests[g] \in Seq(Nat) /\ outgoing[g] \in Seq(Nat) /\ first[g] \in Nat
    BY DEF TypeOK
  <2>2. Len(requests[g]) \in Nat /\ n \in 1 .. Len(requests[g])
    BY <1>13, <2>1, EmptySeq, LenProperties DEF PumpRuns
  <2>3. /\ currentReq' = requests[g][n]
        /\ outgoing' = [outgoing EXCEPT ![g] = outgoing[g] \o sent]
        /\ requests' = [requests EXCEPT ![g] = left]
        /\ UNCHANGED <<current, asked, first, task, server>>
        /\ pump[g] = "running"
    BY <1>13 DEF PumpRuns
  <2> HIDE DEF n
  <2>4. AllFrom(requests[g], first[g]) /\ AllFrom(outgoing[g], first[g])
    BY DEF Filters
  <2>5. sent \in Seq(Nat)
    BY <2>1, <2>2, SubSeqProperties
  <2>6. AllFrom(sent, first[g]) /\ AllFrom(left, first[g])
    <3>1. 1 \in Nat /\ n \in Nat /\ n + 1 \in Nat /\ 1 > 0 /\ n + 1 > 0 /\ n <= Len(requests[g])
          /\ Len(requests[g]) <= Len(requests[g]) /\ first[g] >= first[g]
      BY <2>1, <2>2
    <3> QED  BY <2>1, <2>2, <2>4, <3>1, AllFromSequences
  <2> HIDE DEF sent, left
  <2>7. AllFrom(outgoing[g] \o sent, first[g])
    <3>1. first[g] >= first[g]
      BY <2>1
    <3> QED  BY <2>1, <2>4, <2>5, <2>6, <3>1, AllFromSequences
  <2>8. task[g] # "none" /\ g = current
    BY <1>10, <2>3 DEF Helpers, Live
  <2>9. currentReq' >= first[current]
    BY <2>2, <2>3, <2>4, <2>8 DEF AllFrom
  <2>10. ASSUME NEW h \in Streams  PROVE OwnFilters(h)'
    <3>1. OwnFilters(h)
      BY DEF Filters, OwnFilters
    <3>2. CASE h = g
      <4>1. requests'[h] = left /\ outgoing'[h] = outgoing[g] \o sent
        BY <2>3, <3>2 DEF TypeOK
      <4> QED  BY <2>3, <2>6, <2>7, <2>8, <3>1, <3>2, <4>1 DEF OwnFilters
    <3>3. CASE h # g
      <4>1. requests'[h] = requests[h] /\ outgoing'[h] = outgoing[h]
        BY <2>3, <3>3 DEF TypeOK
      <4> QED  BY <2>3, <3>1, <4>1 DEF OwnFilters
    <3> QED  BY <3>2, <3>3
  <2> QED  BY <2>3, <2>9, <2>10 DEF Filters, OwnFilters
<1> QED
  BY <1>4, <1>5, <1>6, <1>7, <1>8, <1>9, <1>11, <1>12, <1>13 DEF Stream, Helper

-----------------------------------------------------------------------------
(* The invariant.                                                           *)

LEMMA InitInv == Init => IInv
<1> SUFFICES ASSUME Init  PROVE IInv
  OBVIOUS
<1>1. FirstStatus \in Status /\ FirstStatus.state = "connecting"
      /\ FirstStatus.dropped = 0 /\ FirstStatus.reconnects = 0
  BY DEF FirstStatus, Status, States
<1>2. NewQueue \in Queue /\ NewQueue.events = 0 /\ NewQueue.status = FirstStatus
      /\ NewQueue.states = <<FirstStatus>>
  BY <1>1, DexQueueAssumption DEF NewQueue, Queue
<1>3. <<>> \in Seq(Nat) /\ BaseDelay \in Nat /\ 0 \in 0 .. MaxStreams
  BY EmptySeq, DexStreamAssumption
<1>4. TypeOK
  BY <1>1, <1>2, <1>3 DEF Init, TypeOK
<1>5. Opened = {} /\ Cardinality({}) = 0
  BY FS_EmptySet DEF Init, Opened
<1>6. Lifecycle
  <2>1. Opened = 1 .. 0
    BY <1>5
  <2>2. \A g \in Streams : ~ Live(g)
    BY DEF Init, Live
  <2> QED  BY <1>5, <2>1, <2>2 DEF Init, Lifecycle, Calls
<1>7. Helpers /\ CleanEnd
  BY DEF Init, Helpers, CleanEnd
<1>8. Filters
  BY DEF Init, Filters, AllFrom
<1>9. Delays
  <2>1. Wait(0 + 1) = BaseDelay
    BY Waits
  <2> QED  BY <2>1 DEF Init, Delays
<1>10. NoSilentLoss
  BY <1>1, <1>2 DEF Init, NoSilentLoss
<1>11. FeedEndsInStatus
  BY <1>1, <1>2 DEF Init, FeedEndsInStatus
<1> QED
  BY <1>4, <1>6, <1>7, <1>8, <1>9, <1>10, <1>11 DEF IInv

LEMMA Step == IInv /\ [Next]_<<vars, setting>> => IInv'
<1>1. ASSUME IInv, Next  PROVE IInv'
  <2>1. Filters'
    BY <1>1, CallFilters, StreamFilters DEF IInv, Next
  <2> QED
    BY <1>1, <2>1, TypeStep, LifecycleStep, HelpersStep, DelaysStep, LossStep, FeedEndStep,
       CleanEndStep DEF IInv
<1>2. ASSUME IInv, UNCHANGED <<vars, setting>>  PROVE IInv'
  <2>1. UNCHANGED <<client, tasks, wire, feed, retry>> /\ UNCHANGED <<setting, first, interrupted>>
    BY <1>2 DEF vars
  <2>2. TypeOK'
    BY <1>2, <2>1 DEF IInv, TypeOK, client, tasks, wire, feed, retry
  <2>3. Lifecycle' /\ Helpers' /\ Filters'
    BY <1>2, <2>1 DEF IInv, Lifecycle, Helpers, Filters, Opened, Live, MayOpen, client, tasks, wire,
                      feed, retry
  <2>4. Delays' /\ NoSilentLoss' /\ FeedEndsInStatus' /\ CleanEnd'
    BY <1>2, <2>1 DEF IInv, Delays, NoSilentLoss, FeedEndsInStatus, CleanEnd, client, tasks, wire,
                      feed, retry
  <2> QED  BY <2>2, <2>3, <2>4 DEF IInv
<1> QED
  BY <1>1, <1>2

(* What holds throughout the life of a client and its streams. *)
THEOREM Invariance == Spec => []IInv
BY InitInv, Step, PTL DEF Spec

(* However calls overlap or are given up, at most the client's own stream   *)
(* task is alive, and the filters it sends are its own subscription's.      *)
THEOREM OneStreamHolds == Spec => []OneStream
<1>1. IInv => OneStream
  <2> SUFFICES ASSUME IInv, NEW g \in Streams
               PROVE  /\ Live(g) => g = current
                      /\ server[g] # 0 =>
                           /\ server[g] >= first[g]
                           /\ \A h \in Streams : h > g /\ first[h] # 0 => server[g] < first[h]
    BY DEF OneStream
  <2>1. Live(g) => g = current
    BY DEF IInv, Lifecycle
  <2>2. ASSUME server[g] # 0
        PROVE  server[g] >= first[g] /\ \A h \in Streams : h > g => first[h] = 0
    <3>1. task[g] = "streaming" /\ server[g] >= first[g]
      BY <2>2 DEF IInv, Filters
    <3>2. g = Cardinality(Opened) /\ g \in Nat
      BY <2>1, <3>1 DEF IInv, Lifecycle, Live, Streams
    <3>3. Opened = 1 .. g
      BY <3>2 DEF IInv, Lifecycle
    <3>4. ASSUME NEW h \in Streams, h > g  PROVE first[h] = 0
      <4>1. h \notin Opened
        <5>1. h \notin 1 .. g
          BY <3>2, <3>4
        <5> QED  BY <3>3, <5>1
      <4> QED  BY <4>1 DEF IInv, Filters, Opened
    <3> QED  BY <3>1, <3>4
  <2> QED  BY <2>1, <2>2
<1> QED
  BY <1>1, Invariance, PTL

(* Every event parsed is held, queued, received or counted as dropped, and  *)
(* a loss or a reconnect is on record as a break.                           *)
THEOREM NoSilentLossHolds == Spec => []NoSilentLoss
<1>1. IInv => NoSilentLoss
  BY DEF IInv
<1> QED
  BY <1>1, Invariance, PTL

(* A consumer that has read all of the bounded feed knows the status. *)
THEOREM FeedEndsInStatusHolds == Spec => []FeedEndsInStatus
<1>1. IInv => FeedEndsInStatus
  BY DEF IInv
<1> QED
  BY <1>1, Invariance, PTL

(* A task that ran and was cancelled once has reported "stopped", holds no  *)
(* event back, and leaves no helper running.                                *)
THEOREM CleanEndHolds == Spec => []CleanEnd
<1>1. IInv => CleanEnd
  BY DEF IInv
<1> QED
  BY <1>1, Invariance, PTL

(* The n-th wait in a row is the first one doubled n - 1 times, capped.     *)
THEOREM BackoffHolds == Spec => []Backoff
<1>1. IInv => Backoff
  BY DEF IInv, Delays, Backoff
<1> QED
  BY <1>1, Invariance, PTL

(* Once its task is done, a stream puts nothing more into its queue.        *)
THEOREM SilentAfterEndHolds == Spec => SilentAfterEnd
<1> DEFINE Silent == \A g \in Streams : task[g] = "done" =>
                       queue'[g].status = queue[g].status /\ queue'[g].events <= queue[g].events
<1>1. ASSUME IInv, Next  PROVE Silent
  <2> SUFFICES ASSUME NEW g \in Streams, task[g] = "done"
               PROVE  queue'[g].status = queue[g].status /\ queue'[g].events <= queue[g].events
    OBVIOUS
  <2>1. queue \in [Streams -> Queue] /\ queue[g] \in Queue /\ queue[g].events \in Nat
    <3>1. queue \in [Streams -> Queue]
      BY <1>1 DEF IInv, TypeOK
    <3> QED  BY <3>1, DexQueueAssumption DEF Queue
  <2>2. FeedRests(g) \/ TakeEvent(g) \/ ReadState(g)
    BY <1>1, FeedStep DEF IInv
  <2>3. CASE FeedRests(g)
    BY <2>1, <2>3 DEF FeedRests
  <2>4. CASE TakeEvent(g)
    <3>1. queue'[g].status = queue[g].status /\ queue'[g].events = queue[g].events - 1
      BY <2>1, <2>4 DEF TakeEvent, Queue
    <3> QED  BY <2>1, <3>1
  <2>5. CASE ReadState(g)
    <3>1. queue'[g].status = queue[g].status /\ queue'[g].events = queue[g].events
      BY <2>1, <2>5 DEF ReadState, Queue
    <3> QED  BY <2>1, <3>1
  <2> QED  BY <2>2, <2>3, <2>4, <2>5
<1>2. IInv /\ [Next]_<<vars, setting>> => [Silent]_vars
  BY <1>1
<1> QED
  BY <1>2, Invariance, PTL DEF Spec, SilentAfterEnd
=============================================================================
