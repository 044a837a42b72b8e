----------------------------- MODULE OrderBuffer -----------------------------
(***************************************************************************)
(* OrderDispatcher (sol_parser/order_buffer.py): between the gRPC reader    *)
(* and the consumer's queue it holds transaction batches back, so that the  *)
(* consumer sees them in chain order.                                       *)
(*                                                                         *)
(* A batch stands for the events of one transaction, which _emit_batch      *)
(* hands over in one go. The lists the code sorts by _batch_key before any  *)
(* use are sets here. Time is an age in ticks, cut off one past the limit   *)
(* it is compared with.                                                     *)
(***************************************************************************)
EXTENDS TransactionOrder, FiniteSetsExt, Sequences

CONSTANTS
  Modes,         (* the order modes a dispatcher may be configured with      *)
  Slots,         (* slots upstream reports                                   *)
  TxIndexes,     (* transaction indexes within a slot                        *)
  MaxArrivals,   (* bound: transactions with events that arrive              *)
  OrderTimeout,  (* order_timeout_ms, in ticks                               *)
  MicroWindow    (* micro_batch_us, in ticks                                 *)

ASSUME OrderBufferAssumption ==
  /\ Modes \subseteq {"Unordered", "Ordered", "StreamingOrdered", "MicroBatch"}
  /\ Slots \subseteq Nat
  /\ TxIndexes \subseteq Nat
  /\ MaxArrivals \in Nat
  /\ OrderTimeout \in Nat \ {0}
  /\ MicroWindow \in Nat \ {0}

VARIABLES
  mode,              (* config.order_mode, fixed at construction             *)
  buffered,          (* the batches in self.slots                            *)
  watermarks,        (* slot -> next index expected there (streaming)        *)
  pendingIndexes,    (* indexes buffered in the current slot (streaming)     *)
  microBatch,        (* the batches of the open micro-batch window           *)
  currentSlot,       (* newest slot seen                                     *)
  seq,               (* arrival number of the next batch                     *)
  orderedWatermark,  (* last place emitted in Ordered mode                   *)
  orderedLate,       (* ordered_late_transactions                            *)
  flushAge,          (* ticks since last_flush                               *)
  microAge,          (* ticks since micro_start                              *)
  emitted,           (* history: batches handed to the queue, in order       *)
  refused            (* history: batches dropped, late or repeated           *)

progress == <<watermarks, pendingIndexes, currentSlot>>
history  == <<emitted, refused>>
vars == <<mode, buffered, watermarks, pendingIndexes, microBatch, currentSlot, seq,
          orderedWatermark, orderedLate, flushAge, microAge, emitted, refused>>

Batch == [slot : Slots, tx : TxIndexes, seq : 0 .. MaxArrivals - 1]

(* Smaller than every place: self.ordered_watermark is None. *)
NoPlace == [slot |-> -1, tx |-> -1]

Init ==
  /\ mode \in Modes
  /\ buffered = {}
  /\ watermarks = [s \in {} |-> 0]
  /\ pendingIndexes = {}
  /\ microBatch = {}
  /\ currentSlot = 0
  /\ seq = 0
  /\ orderedWatermark = NoPlace
  /\ orderedLate = 0
  /\ flushAge = 0
  /\ microAge = 0
  /\ emitted = <<>>
  /\ refused = {}

-----------------------------------------------------------------------------
(* Emission *)

(* _emit_batch for each batch of out, in turn. *)
Emit(out) ==
  /\ emitted' = emitted \o out
  /\ orderedWatermark' =
       IF mode = "Ordered" /\ out # <<>>
       THEN [slot |-> out[Len(out)].slot, tx |-> out[Len(out)].tx]
       ELSE orderedWatermark

Refuse(b) == refused' = refused \cup {b}

InSlotsBefore(s) == {b \in buffered : b.slot < s}

(* self.watermarks.get(s, 0) *)
Watermark(s) == IF s \in DOMAIN watermarks THEN watermarks[s] ELSE 0

-----------------------------------------------------------------------------
(* A transaction with events arrives. One without events returns at once.  *)

PushUnordered(b) ==
  /\ mode = "Unordered"
  /\ Emit(<<b>>)
  /\ UNCHANGED <<buffered, progress, microBatch, orderedLate, flushAge, microAge, refused>>

(* Mutant: only the slot is compared. *)
IsLateBySlot(b) == b.slot < currentSlot

(* The place of b is in a closed slot, or at or before the last one emitted. *)
IsLate(b) ==
  \/ b.slot < currentSlot
  \/ ~ KeyLess(orderedWatermark, b)

(* Mutant: the drop is not counted. *)
PushOrderedLateUncounted(b) ==
  /\ mode = "Ordered"
  /\ IsLate(b)
  /\ Refuse(b)
  /\ UNCHANGED <<buffered, progress, microBatch, orderedLate, orderedWatermark, flushAge,
                 microAge, emitted>>

PushOrderedLate(b) ==
  /\ mode = "Ordered"
  /\ IsLate(b)
  /\ orderedLate' = orderedLate + 1
  /\ Refuse(b)
  /\ UNCHANGED <<buffered, progress, microBatch, orderedWatermark, flushAge, microAge, emitted>>

(* The slots a batch of a newer slot closes; slot 0 is never "current". *)
ClosedBy(b) ==
  IF b.slot > currentSlot /\ currentSlot > 0 THEN InSlotsBefore(b.slot) ELSE {}

PushOrdered(b) ==
  /\ mode = "Ordered"
  /\ ~ IsLate(b)
  /\ Emit(Sorted(ClosedBy(b)))
  /\ buffered' = (buffered \ ClosedBy(b)) \cup {b}
  /\ currentSlot' = IF b.slot > currentSlot THEN b.slot ELSE currentSlot
  /\ flushAge' = IF b.slot > currentSlot /\ currentSlot > 0 THEN 0 ELSE flushAge
  /\ UNCHANGED <<watermarks, pendingIndexes, microBatch, orderedLate, microAge, refused>>

-----------------------------------------------------------------------------
(* Streaming: emit an index as soon as every earlier one has been seen.    *)

(* The state _push_streaming works on once b's slot has become the newest. *)
OpenedBy(b) ==
  IF b.slot > currentSlot
  THEN [closed |-> InSlotsBefore(b.slot),
        marks  |-> [s \in {t \in DOMAIN watermarks : t >= b.slot} |-> watermarks[s]],
        pending |-> {},
        age    |-> 0]
  ELSE [closed |-> {}, marks |-> watermarks, pending |-> pendingIndexes, age |-> flushAge]

Expected(b) ==
  LET marks == OpenedBy(b).marks IN IF b.slot \in DOMAIN marks THEN marks[b.slot] ELSE 0

(* batches of slot s, sorted *)
SlotQueue(s) == Sorted({c \in buffered : c.slot = s})

(* How many leading batches of the queue carry on from index next without a gap. *)
RunLength(queue, next) ==
  Min({n \in 0 .. Len(queue) : n < Len(queue) => queue[n + 1].tx # next + n})

(* b is the index expected: it goes out, and the run buffered behind it. *)
PushStreamingNext(b) ==
  LET opened == OpenedBy(b)
      queue  == SlotQueue(b.slot)
      n      == RunLength(queue, b.tx + 1)
      run    == SubSeq(queue, 1, n)
  IN
  /\ mode = "StreamingOrdered"
  /\ b.slot >= currentSlot
  /\ b.tx = Expected(b)
  /\ Emit(Sorted(opened.closed) \o <<b>> \o run)
  /\ buffered' = buffered \ (opened.closed \cup Range(run))
  /\ watermarks' =
       [s \in DOMAIN opened.marks \cup {b.slot} |->
          IF s = b.slot THEN b.tx + 1 + n ELSE opened.marks[s]]
  /\ pendingIndexes' = opened.pending \ (b.tx + 1 .. b.tx + n)
  /\ currentSlot' = b.slot
  /\ flushAge' = 0
  /\ UNCHANGED <<microBatch, orderedLate, microAge, refused>>

(* b is past a gap and new: it waits for the gap, a newer slot or the timer. *)
PushStreamingAhead(b) ==
  LET opened == OpenedBy(b) IN
  /\ mode = "StreamingOrdered"
  /\ b.slot >= currentSlot
  /\ b.tx > Expected(b)
  /\ b.tx \notin opened.pending
  /\ Emit(Sorted(opened.closed))
  /\ buffered' = (buffered \ opened.closed) \cup {b}
  /\ watermarks' = opened.marks
  /\ pendingIndexes' = opened.pending \cup {b.tx}
  /\ currentSlot' = b.slot
  /\ flushAge' = opened.age
  /\ UNCHANGED <<microBatch, orderedLate, microAge, refused>>

(* Mutant: an index past a gap may be dropped like a stale one. *)
IsStaleOrAhead(b) == b.slot < currentSlot \/ b.tx # Expected(b)

(* b is of a closed slot, behind the watermark, or already buffered. *)
IsStale(b) ==
  \/ b.slot < currentSlot
  \/ b.tx < Expected(b)
  \/ b.tx \in OpenedBy(b).pending /\ b.tx # Expected(b)

PushStreamingStale(b) ==
  /\ mode = "StreamingOrdered"
  /\ IsStale(b)
  /\ Refuse(b)
  /\ UNCHANGED <<buffered, progress, microBatch, orderedWatermark, orderedLate, flushAge,
                 microAge, emitted>>

-----------------------------------------------------------------------------
(* Micro-batch: collect for a short window, hand the window over sorted.   *)

(* Mutant: the batch that closes the window goes out last. *)
WindowThen(b) == Sorted(microBatch) \o <<b>>

(* The window that b closes, as it goes out. *)
Window(b) == Sorted(microBatch \cup {b})

PushMicroBatch(b) ==
  LET age  == IF microBatch = {} THEN 0 ELSE microAge
      full == age >= MicroWindow
  IN
  /\ mode = "MicroBatch"
  /\ Emit(IF full THEN Window(b) ELSE <<>>)
  /\ microBatch' = IF full THEN {} ELSE microBatch \cup {b}
  /\ microAge' = IF full THEN 0 ELSE age
  /\ flushAge' = IF full THEN 0 ELSE flushAge
  /\ UNCHANGED <<buffered, progress, orderedLate, refused>>

(* push_transaction_events *)
Push ==
  \E s \in Slots, t \in TxIndexes :
    LET b == [slot |-> s, tx |-> t, seq |-> seq] IN
    /\ seq < MaxArrivals
    /\ seq' = seq + 1
    /\ UNCHANGED mode
    /\ \/ PushUnordered(b)
       \/ PushOrderedLate(b)
       \/ PushOrdered(b)
       \/ PushStreamingNext(b)
       \/ PushStreamingAhead(b)
       \/ PushStreamingStale(b)
       \/ PushMicroBatch(b)

-----------------------------------------------------------------------------
(* Flushing *)

LastIndexIn(s) == LET queue == SlotQueue(s) IN queue[Len(queue)].tx

(* Mutant: a flush forgets the progress made. *)
MarksForgotten == [s \in {} |-> 0]

(* Progress survives a flush in streaming mode, for the current slot only. *)
MarksAfterFlush ==
  IF mode # "StreamingOrdered" THEN [s \in {} |-> 0]
  ELSE LET flushed == {b.slot : b \in buffered}
       IN [s \in (DOMAIN watermarks \cup flushed) \cap {currentSlot} |->
             IF s \in flushed /\ LastIndexIn(s) + 1 > Watermark(s)
             THEN LastIndexIn(s) + 1 ELSE Watermark(s)]

(* Mutant: the indexes stay pending. *)
FlushHeldPending(micro) ==
  /\ Emit(Sorted(buffered) \o Sorted(micro))
  /\ buffered' = {}
  /\ watermarks' = MarksAfterFlush
  /\ flushAge' = 0
  /\ UNCHANGED <<mode, pendingIndexes, currentSlot, seq, orderedLate, refused>>

(* _flush_all_slots, then _flush_micro_batch for the batches in micro. *)
FlushHeld(micro) ==
  /\ Emit(Sorted(buffered) \o Sorted(micro))
  /\ buffered' = {}
  /\ pendingIndexes' = {}
  /\ watermarks' = MarksAfterFlush
  /\ flushAge' = 0
  /\ UNCHANGED <<mode, currentSlot, seq, orderedLate, refused>>

(* Mutant: the timer looks at the wrong mode's area. *)
FlushDueSlotsMicro ==
  /\ microBatch # {}
  /\ flushAge > OrderTimeout
  /\ FlushHeld({})
  /\ UNCHANGED <<microBatch, microAge>>

(* The flush timer, when the oldest progress is past the order timeout. *)
FlushDueSlots ==
  /\ mode \in {"Ordered", "StreamingOrdered"}
  /\ buffered # {}
  /\ flushAge > OrderTimeout
  /\ FlushHeld({})
  /\ UNCHANGED <<microBatch, microAge>>

(* The flush timer, when the micro-batch window is over. *)
FlushDueMicro ==
  /\ mode = "MicroBatch"
  /\ microBatch # {}
  /\ microAge >= MicroWindow
  /\ Emit(Sorted(microBatch))
  /\ microBatch' = {}
  /\ microAge' = 0
  /\ flushAge' = 0
  /\ UNCHANGED <<mode, buffered, progress, seq, orderedLate, refused>>

(* flush_all: the stream failed or ends, and everything held goes out. *)
FlushAll ==
  /\ FlushHeld(microBatch)
  /\ microBatch' = {}
  /\ microAge' = 0

(* The monotonic clock moves. *)
Tick ==
  /\ flushAge' = IF flushAge > OrderTimeout THEN flushAge ELSE flushAge + 1
  /\ microAge' = IF microBatch = {} \/ microAge >= MicroWindow THEN microAge ELSE microAge + 1
  /\ UNCHANGED <<mode, buffered, progress, microBatch, seq, orderedWatermark, orderedLate,
                 history>>

Next == Push \/ FlushDueSlots \/ FlushDueMicro \/ FlushAll \/ Tick

Spec == Init /\ [][Next]_vars

(* The clock moves, and the flush_loop task keeps calling flush_due. *)
FairSpec == Spec /\ WF_vars(Tick) /\ WF_vars(FlushDueSlots) /\ WF_vars(FlushDueMicro)

-----------------------------------------------------------------------------
(* Properties *)

(* The types of the dispatcher's fields and of the two histories. *)
TypeOK ==
  /\ mode \in Modes
  /\ buffered \subseteq Batch /\ IsFiniteSet(buffered)
  /\ DOMAIN watermarks \subseteq Slots
  /\ watermarks \in [DOMAIN watermarks -> Nat]
  /\ pendingIndexes \subseteq TxIndexes
  /\ microBatch \subseteq Batch /\ IsFiniteSet(microBatch)
  /\ currentSlot \in Slots \cup {0}
  /\ seq \in 0 .. MaxArrivals
  /\ orderedWatermark \in [slot : Slots, tx : TxIndexes] \cup {NoPlace}
  /\ orderedLate \in Nat
  /\ flushAge \in 0 .. OrderTimeout + 1
  /\ microAge \in 0 .. MicroWindow
  /\ emitted \in Seq(Batch)
  /\ refused \subseteq Batch

(* Ordered and streaming subscriptions never show the consumer a transaction *)
(* after a later one, whatever the arrival order, timeouts and reconnects.   *)
OutputInOrder == mode \in {"Ordered", "StreamingOrdered"} => InOrder(emitted)

(* Streaming: a transaction the server sends again, after a reconnect or     *)
(* twice in a row, reaches the consumer at most once.                        *)
NeverTwice ==
  mode = "StreamingOrdered" =>
    \A i, j \in DOMAIN emitted :
      emitted[i].slot = emitted[j].slot /\ emitted[i].tx = emitted[j].tx => i = j

(* Streaming: pending_indexes is the duplicate filter of exactly the batches *)
(* in the buffer, which are all of the current slot and behind a real gap:   *)
(* no index is leaked or forgotten, and nothing that could go out waits.     *)
PendingMatchesBuffer ==
  mode = "StreamingOrdered" =>
    /\ pendingIndexes = {b.tx : b \in buffered}
    /\ \A b \in buffered :
         /\ b.slot = currentSlot
         /\ b.tx > Watermark(b.slot)
         /\ \A c \in buffered : c.tx = b.tx => c = b

(* Streaming: whatever flushed it, the last batch emitted of the current     *)
(* slot leaves the watermark one past its index, and no other slot keeps one.*)
WatermarkIsProgress ==
  mode = "StreamingOrdered" =>
    /\ DOMAIN watermarks \subseteq {currentSlot}
    /\ \A i \in DOMAIN emitted :
         /\ emitted[i].slot <= currentSlot
         /\ emitted[i].slot = currentSlot =>
              /\ currentSlot \in DOMAIN watermarks
              /\ emitted[i].tx < watermarks[currentSlot]

(* Ordered: every arrival has been emitted, is buffered, or is counted in    *)
(* ordered_late_transactions; none is lost or counted twice. Streaming: what *)
(* is neither emitted nor buffered was dropped on its arrival, never later;  *)
(* the code counts no such drop. Micro-batch and unordered subscriptions     *)
(* drop nothing: the output and the open window are exactly what arrived.    *)
Accounted ==
  /\ mode = "Ordered" => seq = Len(emitted) + Cardinality(buffered) + orderedLate
  /\ mode = "StreamingOrdered" =>
       {emitted[i].seq : i \in DOMAIN emitted} \cup {b.seq : b \in buffered \cup refused}
         = 0 .. seq - 1
  /\ mode \in {"Unordered", "MicroBatch"} =>
       {emitted[i].seq : i \in DOMAIN emitted} \cup {b.seq : b \in microBatch} = 0 .. seq - 1

(* Micro-batch: whatever ends the window, the step that hands batches over   *)
(* hands over the whole window, sorted.                                      *)
WindowInOrder ==
  [][mode = "MicroBatch" /\ emitted' # emitted =>
       /\ InOrder(SubSeq(emitted', Len(emitted) + 1, Len(emitted')))
       /\ microBatch' = {}]_vars

Held == buffered \cup microBatch

(* A transaction held back is emitted, even if nothing ever arrives again.   *)
HeldIsEmitted ==
  \A n \in 0 .. MaxArrivals - 1 :
    (\E b \in Held : b.seq = n) ~> (\E i \in DOMAIN emitted : emitted[i].seq = n)

Delivery == INSTANCE OrderedDelivery
              WITH Arrivals <- Batch, waiting <- buffered, delivered <- emitted

(* The dispatcher of an ordered mode delivers what OrderedDelivery promises; *)
(* the other modes make no such promise.                                     *)
DeliveryStep == mode \in {"Ordered", "StreamingOrdered"} => Delivery!Next

DeliverySpec == Delivery!Init /\ [][DeliveryStep]_<<buffered, emitted, refused>>
=============================================================================
