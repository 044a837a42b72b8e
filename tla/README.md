# sol-parser-sdk-python in TLA+

Specifications, model-checking configurations and machine-checked proofs for the Python
SDK in `sol_parser/`. The SDK subscribes to Solana transactions over Yellowstone gRPC (and
ShredStream), decodes them into DEX events, puts those in order and hands them to the
consumer's queue. Most of the code is decoding, which is pure; what is hard to test is
around it: who runs when, what is cancelled where, what is held back, what is dropped, and
what the consumer is told about it. That is modelled first, then how the parts of one
transaction are put together again (merging, deduplication, routes), then the decoders, whose
guards and dispatch tables are kept by hand in several places that have to agree.

## Inventory

| Component | State | Operations | Interacts with | Hard part | Correct when |
|---|---|---|---|---|---|
| **Order dispatcher** `order_buffer.py` | batches by slot, watermarks, pending indexes, micro-batch window, late counter, two clocks | push (four modes), timer flush, flush all | fed by the stream task and the flush loop, emits into the queue | late, repeated and missing transactions against timers, newer slots and reconnects | output in chain order, no duplicates in streaming mode, every drop accounted, nothing held for ever |
| **DEX event queue** `DexEventQueue` | bounded events, errors, state feed, status | put, transition, report error | written by the stream, read by the consumer | three bounded queues overflow independently | losses counted, feed ends in the status |
| **DEX subscription** `YellowstoneGrpc` | connection, current task, cancel event, request queue, current filter, a lock | connect, subscribe, update, stop, disconnect | creates and cancels the stream task, shares the current filter with it | every await is a place where another coroutine runs or a cancellation lands | one stream, calls return, the last filter accepted is in force |
| **Stream task** `_handle_dex_stream` | backoff, request pump, flush loop, request iterator | receive, fail, back off, reopen, wind up | server, dispatcher, queue, client fields | cancellation at each await, helpers that outlive it, retries | backoff law, clean end, nothing after the end |
| **Transaction subscriptions** `subscribe_transactions` | registry, a cancel event and a queue of answers per subscription, the channel they share | subscribe, receive, cancel, unsubscribe, disconnect | callbacks of the user, gRPC's request writer | a subscription may be cancelled before it starts, start after a disconnect, or wait where it does not see its event | the registry is what runs (and what failed before it ran), `unsubscribe` and `disconnect` reach all of it, what is cancelled ends |
| Stock price tracker `stock_prices.py` | positions per pool, reference price, liquidity | process, update liquidity, reset | fed with the consumer's events | stale, repeated and reordered inputs | only fresher inputs count, no conversion from the future |
| StonkFun registry `stonkfun_registry.py` | pool provenance | observe migrations, load | fed with RPC transactions | replays, conflicts in the middle of a batch | atomic, idempotent, immutable |
| Instruction merging `grpc_instruction_parser.py`, `merger.py` | lists of targets, during one transaction | join the event of a call with the event CPI of its execution | fed with the instructions of one transaction | calls nest, repeat, are not decoded, come without stack height | no event of two calls, no execution lost |
| Deduplication `log_instr_dedup.py` | index by key, during one transaction | join what the logs tell with what the instructions tell | fed with both lists of one transaction | several equal-looking events, either side incomplete | each event once, joined with its own counterpart, creates first |
| Log scope `grpc_client.py`, `parser.py`, `trade_source.py` | two stacks of programs, counters of calls by program | lines of calls, returns and data | log lines of one transaction, events to deduplication | logs nest, fail, are cut short and hold messages that read as calls | a line belongs to the program and the instruction that wrote it |
| Decoders of log lines `dex_parsers.py`, `pump_upgrade.py`, `parser.py` | a cursor | decode a program data line, under a filter | lines from the log scope, events to deduplication | short and old data, shared discriminators, a filter asked before and after decoding | every field whole or no event; the filter asked first gives what filtering the event would |
| Decoders of instructions `instructions.py`, `inner_instruction_parser.py` | a cursor, a list of accounts | decode a top-level instruction, one made by a program, or an event told by a call of itself | events to merging | a list of what may be decoded apart from the decoders, missing accounts, one byte string that is both an instruction and an event | as above, and an inner call is told like a top-level one |
| Decoders of accounts `accounts/`, `liquidity_snapshot.py` | a cursor | decode an account under a filter | events to the queue | accepted by length, then read field by field | as above, and no account of the right length is lost |
| Routes `transaction_route.py`, `simulation_route.py` | lists built in several passes over one transaction | find swaps, their token movements, mints and amounts | fed with RPC transactions and simulations | only a flat list with stack heights, or without; fees, native tokens, failed transactions | a leg says what its own call moved, or nothing |
| Fee enrichment `pumpfun_fee_enrich.py` | the events of one transaction | copy between events of one mint: fee recipients of a buy to its creation, fields of a creation to its second version, flags of a creation to its trades | after merging | equal keys of several events | an event gets what its own mint's events say |
| Shreds `shredstream_client.py`, `shredstream_pumpfun.py`, `shredstream_pump_multi_hop.py` | mints created in the transaction | decode the instructions of a transaction that has not run | decoders of instructions, events to the consumer | accounts that are not known, a dispatch and decoders of their own | told as the transaction will be when it has run, or not |
| Conversions `rpc_parser.py`, `entries_decode.py`, `wire_transaction.py` | a cursor | JSON and entries into the inputs of the same parsers | feed all of the above | truncated input, compact lengths | the transaction that was encoded |

## Modules

| Module | Models | Kind |
|---|---|---|
| `TransactionOrder` | `_batch_key`, sorting of batches | operators |
| `OrderBuffer` | `OrderDispatcher` | state machine, 4 modes |
| `OrderedDelivery` | what an ordered subscription promises | abstract specification |
| `OrderBufferProofs` | of `TransactionOrder` and `OrderBuffer` | theorems |
| `DexQueue` | `DexEventQueue`, `GrpcStreamStatus`, `_queue_event_nowait` | operators on the queue's value |
| `DexStream`, `MCDexStream`, `DexStreamProofs` | `YellowstoneGrpc` (DEX part), `_handle_dex_stream` | state machine, extends `DexQueue`, theorems |
| `Subscriptions` | `YellowstoneGrpc` (transaction part), `_handle_stream` | state machine |
| `StockPrices`, `StockPricesProofs` | `StockPriceTracker` | state machine, theorems |
| `StonkFunRegistry`, `StonkFunRegistryProofs` | `StonkFunPoolRegistry` | state machine, theorems |
| `InstructionMerge`, `InstructionMergeProofs` | `merge_instruction_events`, `try_merge_dex_events` | state machine: the runtime and the loop, theorems |
| `LogScope` | the loops over log lines of `_enqueue_transaction_dex_events`, `detect_pumpfun_create_from_logs` and `log_outer_indices` | state machine: the runtime and the loops |
| `LogDedup` | `dedupe_log_instruction_events` | operators, over the lists that a transaction leaves |
| `TransactionLogs`, `MCTransactionLogs` | the whole of `_enqueue_transaction_dex_events` | composes `LogScope` and `LogDedup` |
| `TransactionLogsProofs` | of `LogScope`, alone and within `TransactionLogs`, and of `LogDedup` over the lists of a transaction | theorems |
| `Layouts` | the readers of `dex_parsers.py` and the guards around them | operators on a cursor |
| `LogLayouts` | every decoder of a program data line, as its sequence of reads | data |
| `LogDecoding` | `parse_log_optimized`, `dispatch_program_data`, the filters | operators |
| `InstructionLayouts`, `InstructionDecoding` | every decoder of an instruction; `parse_instruction_unified`, the parsers of inner instructions | data, operators |
| `AccountLayouts`, `AccountDecoding` | every decoder of an account; `parse_account_unified` | data, operators |
| `ShredDecoding` | one instruction in `_parse_decoded_shred`; `parse_pumpfun_shred_ix`, `parse_curve_hops` | operators, extends `InstructionDecoding` |
| `Decoding` | the entry functions of all five origins | one call, over every input and filter; extends the above |
| `DecodingProofs` | of `Decoding` | theorems |
| `TransactionRoute`, `MCTransactionRoute` | `analyze_rpc_transaction_routes` | state machine: the runtime and the analysis |
| `TransactionProofs` | of `Subscriptions` and of `TransactionRoute`, which are independent | theorems |

**OrderBuffer.** One step per call of the dispatcher, which runs without a suspension point.
A batch is the events of one transaction: `[slot, tx, seq]`. Lists the code sorts by
`_batch_key` before it looks at them are sets, and `Sorted` gives the list. `Push` is the
disjunction of the paths through `push_transaction_events`; `FlushDueSlots`,
`FlushDueMicro`, `FlushAll` are the flushes; `Tick` moves `time.monotonic()`, kept as two
ages that stop counting one past the limit they are compared with. `emitted` and `refused`
are histories. `Delivery == INSTANCE OrderedDelivery` maps `buffered` to `waiting` and
`emitted` to `delivered`: the timer, watermark and pending set disappear, and what remains
is that waiting transactions are handed over in order and only refused once their place,
or a later one, is taken.

**DexQueue and DexStream.** An action is what a coroutine does between two suspension
points. The stream task is in `created`, `streaming` (waits for the server), `backoff`
(sleeps), `closing` and `leaving` (waits for the pump, to retry and to end), `draining`
(waits for the flush loop) or `done`. `killed` is a cancellation that was requested and is
delivered where the task next resumes. Two cancellations matter: before the first step
(`NeverStarts`: no code of the task runs, not even its `finally`) and a second one while
winding up (`Interrupted`), which a caller causes that gives up waiting for `stop()`:
`gather` passes its cancellation on. `op` is the call that holds `_dex_lifecycle` and is
suspended; a call that does not suspend is one action. Filters are named by the order of
their submission. The dispatcher is a number of held events. `Receive` adds one and lets any
part out, or, in the two modes that keep order, drops the new one (`late`), as the dispatcher
does with what is behind its watermark, in a closed slot or there already, without telling the
queue; `OrderBuffer` says which of these happens. An update that
carries no event (ping, filtered out, failed transaction) is `new = 0`. What the environment
may do (number of streams, requests, events and failures, a flush loop, order kept, a reader, callers that
give up) is one record, `setting`, chosen by `Init` from `Settings` and never changed; one run
covers several small environments that way.

**Subscriptions.** An action is again what runs between two suspension points.
`subscribe_transactions` registers the subscription before it builds the request, and may raise
there (`SubscribeFails`): the entry stays, with no task and no caller that knows its identifier,
until a disconnect clears the registry. Each subscription
has a task and a writer: the generator `request_iterator`, from which gRPC draws requests. The
writer is `writing` while gRPC has its request, `parked` in `get()`, or `idle`. The task looks
at its cancel event when a message arrives, the writer only after a request, so either can be
waiting when the event is set. Both `cancel` and `unsubscribe` are modelled, and callbacks that
raise. Where the order of two things is the event loop's, the model has both orders; `Closed` is
a step of its own because closing a channel suspends `disconnect()`, and the client still looks
connected meanwhile. `on_error` and `on_end` are called in the step that ends the task. The
channel is gRPC's: one that closes drops its calls and takes no new ones.

**StockPrices.** `Process` is one swap through `process`: its disjuncts are the early return
(`Ignore`), the reference pool (`TakeReference`) and a priced pool (`Quote`). Swaps and
snapshots arrive in any order, repeated and malformed. What a price rests on is kept with
it (place of the reference, snapshot), because the properties are about that; amounts are
left out.

**StonkFunRegistry.** A call of `observe_migrations` is taken apart into its loop: `Begin`,
one `PassEntry` or `PassOver` per entry, then `Commit` or `Raise`. The intermediate states
are not visible to other coroutines (there is no suspension point), but they are where a
batch is half done, so the invariants are stated over them. `Save` and `Load` are
`to_dict` and `from_dict` in the owner's hands.

**InstructionMerge.** The loop takes the events in the order of invocation, so the model lets
the transaction run and takes each event as it is emitted. The call stack (`running`), the
calls and which of them was decoded are the environment's; an event carries, as history, the
number of the call it stems from, which the code does not see. `identity` is everything
`try_merge_dex_events` compares. Programs are of six kinds, by how the loop treats them: pump.fun and
PumpSwap trades and DLMM calls have targets at every height; "plain" stands for any event of another
program whose type is merged (`GENERIC_MERGE_TYPES` and the creates and migrations of pump.fun), "lone"
for one whose type is not, "router" for programs that are not decoded. Inner calls of all but routers may
be decoded. Targets of plain calls are outermost: the execution of an inner plain call, and that of any
lone call, stays beside its call (`Awaited` says which are joined). The properties speak of DLMM events
if every DLMM call was decoded, and of the others always.

**LogScope.** The code has the log as a list and goes through it line by line, so the model lets
the transaction run and each loop takes the line as it is written. `running` is the runtime's call
stack; `active` is `active_program_stack`, `exact` that of `detect_pumpfun_create_from_logs`,
`begins` what `log_outer_indices` counts. The log collector of the runtime has room for so many
bytes and goes on with shorter lines when one did not fit: `room` is the length from which on lines
are left out. Returns of a program that succeeded are shorter than calls, so calls may be lost whose returns
are there. Precompiles are instructions without a line. A message
"Program log: ..." may read as a call (`Quote`) of a program whose name begins with "log:", which is
no real one, so one value `Quoted` stands for all. The loop of the parsers takes the marker anywhere
in a line. The detection compares the line with what it took from that same line, so it is misled by
a message that ends as a call does. `log_outer_indices` wants a single word before "invoke [1]",
so only the message "invoke [1]" alone counts there, as a call of a program without instructions,
and no instruction is named up to the next. `QuoteEnd` is a message that reads as the return of such
a call. `spoiled` is history: the loops misled in the current instruction of the message, by a
message or, for the parsers, by a call or return that is missing. Instructions that fail at the top end their transaction, whose log is
not parsed (`subscribe_transaction_failed`); those that fail within a call go on.

**LogDedup and TransactionLogs.** `Invoke` adds what an invocation shows to the two lists;
`Deduplicated` is the function's result for them, and the properties are about this result
in every state. An output event has `took`: the invocations whose instruction events were
merged into it. `TransactionLogs` runs it together with `LogScope`: an event comes from the logs only
if its line is there and is not decoded under another program that only takes lines of its own
(`Selective`). That a line is
lost or attributed wrongly is one way for a side to be incomplete, a decoder that refuses is the
other (`seen`).

**Layouts and the decoders.** Decoders are pure, so the model is one call over every input
that matters. What matters of the data is its length: a tag, a size or a flag is any of its
values, so reading a layout has a set of outcomes (an event, none, an exception), and an event
says whether a field was cut off by the end of the data or read at the place of one that is not
there. A slice beyond the end is short in Python, a word raises, a `Reader` refuses; the three
are different reads. An input is its origin, program and discriminator, and what the decoders
that may be tried make of the data: with no program known, a trade may be pump.fun's or
LaunchLab's, and its filter chooses. The origins are

* `log`: a program data line (`LogDecoding`);
* `instruction`: a top-level instruction, which also has accounts, any number of them;
* `inner`: an instruction that a program makes, `prefixed` and `suffixed`: the two forms of an
  event that it tells by calling itself (`InstructionDecoding`). All three go through the same
  code, which tries an instruction first and then an event, so a `suffixed` event may be taken
  for an instruction with the same bytes (`TakenFor`);
* `shred`, `unresolved`, `best_effort`: an instruction of a shred with all of its accounts known,
  with some unknown, and with the default key in their place (`ShredDecoding`). pump.fun's
  instructions have a dispatch of their own, which tells V2 trades with fewer accounts than the
  decoder of instructions wants; PumpSwap routes and calls of unknown programs that are given
  pump.fun are told as `PUMP_FUN_TRADE`, and so are trades for a filter that only names that.
  The program is always known, since the wire decoder refuses an index behind the static keys, so
  the attempts over `_UNKNOWN_PROGRAM_CANDIDATES` are never made;
* `account`: an account with its owner (`AccountDecoding`), of lengths around the places where a
  field starts or ends, since some are over ten thousand bytes long.

The properties compare every event with its data, the result under a filter with the result
without, and an inner instruction or one of a shred with the same bytes at the top level.

Some definitions in `Decoding` name what is known to deviate, so that the properties hold
elsewhere. `Loose`: the guard of `parse_trade_from_data` counts 200 of 217 bytes that are
always read, that of `parse_orca_pool_init_from_data` five keys of six, strings of LaunchLab
pools and of pump.fun creations may end behind the data, and token and nonce accounts are read
by offsets. `Misrouted`: the liquidity change (see Findings); add and remove of Meteora pools
and DLMM, which share discriminators but not event types, in lines without a known program;
lines of foreign programs, whose filter and decoder disagree; and pump trades, where
`apply_pumpfun_secondary_filter` takes a list by the letter that names creations, buys or
sells. A list of `PUMP_FUN_CREATE` and `PUMP_FUN_TRADE` therefore drops buys and sells told by
the logs of pump.fun. `OnlyOuter`: instructions of DAMM v2 and LaunchLab that
`normal_instruction_data_may_parse` does not list, and that are lost when a program makes them.
For shreds `PrefilterSound` leaves out trades of unknown direction under a list of buys or sells
(`DirectionWanted`): such a list does not get them there, though `should_include` would let them pass.
It also leaves out event data that may be read as an instruction (`MayBeTaken`). So what it says is
that the question asked first is harmless for the inputs that remain, not that no event is lost.
`LikeOuter` leaves out trades with too few accounts (`ShortlyTold`), which only shreds tell.

**TransactionRoute.** `Call` is the runtime: a transaction runs call by call, and each entry of
`run` has its stack height and, as history, the calls it was made within. `Analyse` is the code,
which sees the flat list only: heights where the node recorded them, all or none, and the
mints of the accounts that balances name. What a call does to accounts is one record (a token
transfer of one of four kinds, a payment in lamports, the opening of an account, a swap, a call
of an unknown program); the account positions by which `_swap` recognises nine protocols are the
fields of a swap. What the i-th call moves is the constant `Amount(i)`, in the run 2^i, so that a sum
tells what it was made of. Every transaction is one the runtime could produce: callers are still
running, transfers call nothing, and the accounts a transfer joins have one mint, which it names
rightly if it names one (`CallsAssumption`: the token program makes sure of it). The loop over the
calls until no mint is learned is `PassAll`, a fixed number of passes; that these are enough is
proved. `Named` and `Spread` are what one call adds to the mints. The properties compare the analysis with the history: `OwnEvidence`
is `OwnAmounts` (legs) and `UnknownsTold` (calls of unknown programs).

## Runs

| Run | Question | Bounds and why they are enough |
|---|---|---|
| `OrderBufferOrdering` | all four modes: order, accounting, no duplicates, pending set, refinement, progress; micro-batch and unordered complete and sorted | slots 0..2 (slot 0 is special in the code), indexes 0..2, 4 arrivals: a flushed batch, a late one, a repeat and a newer slot fit in one behaviour; so does a gap, filled, flushed, or overtaken by a slot; a window of two ticks, closed by an arrival, by the timer and by `flush_all` |
| `DexStream` | one stream, its own filters; losses, feed, end of the task; backoff; calls return, filters reach the server | `AllSettings` of `MCDexStream`: two streams with overlapping calls that are given up, with a flush loop or with a failure; one stream that keeps order, with queue size 2 and three events, so that events and feed overflow or an event is late, and a failure; three filters with a request queue of one (so `update` waits) and three failures at a cap of 3 (so the doubling is cut off) |
| `DexStreamStopReport` | "stop reports stopped" (documentation) | violated: see Findings |
| `Subscriptions` | the registry is what runs, or failed before it ran; a disconnect and an unsubscribe reach everything; what is cancelled ends | two subscriptions (one may start, end or be cancelled around the other), two channels (a task created on one and started on the other), one update, two pings (one answered, one waiting) |
| `StockPricesTracker` | which inputs a price rests on | a SOL pool, a USDC pool and the reference pool, three swaps or snapshots between resets, in any order or again: an input may be stale against each of the others |
| `StonkFunRegistry` | atomicity, exact refusal, saving and loading | batches of two entries over two pools and contents: a repeat, a contradiction within the batch and one with the registry; two calls between a save and a load |
| `InstructionMerge` | whose execution an event shows; none lost | three calls, depth three, one program of each of the six kinds and two identities, with and without stack heights: siblings, a nested call and a router around either |
| `InstructionMergeUnmatched` | unmatched events are retained (docstring) | violated: see Findings |
| `TransactionLogs` | lines belong to who wrote them; counterparts, told once, told in order | `AllSettings` of `MCTransactionLogs`. `Lists`: three invocations over two subjects and all kinds, seen anywhere: a trade missing on either side beside one that is not, and a create with two trades. `FourPrograms`: four calls of two known programs, a router and a precompile to depth 3 with two events, from whole logs: a program under another that calls itself, failures within, two instructions of one program; the same with one event from logs cut short at any line. `TwoPrograms`: three calls of pump.fun and a router to depth 3 with messages of every form, and to depth 2 with both |
| `TransactionRoute` | a leg and a call of an unknown program show what the call did, all of it and nothing else; mints travel along transfers | `AllSettings` of `MCTransactionRoute`: five calls to height 4 of swaps, unknown programs and transfers (a swap within a swap and a sibling); four calls with fees known and unknown, with lamports, with transfers that join five accounts of two mints (a chain told backwards needs three passes); `MaxSum` 40, so that sums of the last calls overflow |
| `Decoding` | decoders stay within their data; filtering before decoding gives what filtering the decoded event would, but for `Misrouted`, `DirectionWanted` and `MayBeTaken` (see Modules); inner instructions and shreds are told like outer ones (`LikeOuter`) | every discriminator of every origin; lengths 0..450 (the longest fixed layout of lines and instructions is 397 bytes with its guard), of accounts one around every field; strings of 0, 1 and 40 bytes and up to the end; 0 to 33 accounts (no decoder asks for more than 32); filters of up to three related types and a foreign one (a type, its family and the type of all trades) |
| `DecodingFiltered` | the liquidity change is an addition or a removal (changelog) | violated: see Findings |

`OrderBufferOrdering`, the runs of `MCDexStream` and `Subscriptions` use a specification with fairness; the other runs and the proofs of
safety do without.

**Fairness.** `OrderBuffer`: the clock moves and the flush loop keeps calling `flush_due`
(weak fairness of `Tick` and of the two timer flushes), as long as the stream task lives;
nothing is assumed of arrivals. `DexStream`: the event loop runs every coroutine that can
continue (weak fairness of calls whose wait is over, of the task where it does not wait for
the server, of its helpers and of the reader of `request_iterator`). Server, callers,
consumer and failures are under no obligation. The timer's wake-ups are fair, but what is
due is decided by the dispatcher: `FlushWakes(g, held[g])` stands for the wake-up after
which everything held is due, which the fairness of `OrderBuffer` grants. `Subscriptions`: the event loop runs a created task,
a closing channel closes and drops its calls, and writers go on. A cancelled call sees another
message because servers ping their subscribers periodically, which the client's answering
exists for; no update is assumed, nor that a server ends a call or that a caller does anything.

**Bounds in the guards.** `MaxArrivals`; `MaxStreams` and the numbers in a `setting`;
`MaxConnects`, `MaxUpdates`, `MaxPings`; `MaxCalls`, `MaxDepth`; `MaxHeight`
and the `length` of a family. They limit callers, server, failures and the length of a
transaction, never the code under test; `MaxLength`, `MaxAccounts`, `StringSizes` and `FilterSize`
are the inputs of `Decoding`. `InstructionMerge`, `TransactionLogs` and `TransactionRoute` stop when the
transaction is over, `Decoding` when the data is parsed and `Subscriptions` when all of its
subscriptions have ended, so their runs do not look for deadlock.

## Findings

`DexStreamStopReport`: a stream task that is cancelled before its first step ends without
`finally`, so its queue says `connecting` for ever. It happens when `stop()`, `disconnect()`
or another `subscribe_dex_events()` follows a subscription before the event loop has run the
new task. `docs/USAGE.md` promises the stop state and tells consumers to rely on it.

`InstructionMergeUnmatched`: a DLMM target is never marked as used, and two DLMM events of one
type are always compatible. The event CPI of a DLMM call that was not decoded is merged into
the event of the DLMM call before it, whose own execution is overwritten. The pump branch has
a flag for this and a test (`test_second_execution_event_cannot_overwrite_first`).

`DecodingFiltered`: `EvtLiquidityChange` of DAMM v2 becomes an addition or a removal by its
`change_type`, but the filter, asked before decoding, takes it for an addition. Who subscribes
to removals alone gets none of those.

More observations are recorded as hazards. A transaction that reaches the order buffer late (in
`ORDERED` mode) or late or twice (in `STREAMING_ORDERED`) is dropped there, and `queue.status()`
shows no drop and no break: `ORDERED` counts it in a field of its own and logs some of them,
`STREAMING_ORDERED` does not even that, while `docs/USAGE.md` says that the status tells of breaks
and drops, and `OrderMode` calls a late drop a continuity break. `NoSilentLoss` lists these drops
(`refused`) beside those that the queue counts. The comparison in `detect_pumpfun_create_from_logs`
is of a line with what was taken from it, so a message "foo invoke [1]" passes for a call and puts
"log: foo" on the stack; a creation by pump.fun after it, in the same instruction, is not noticed
(`CreateDetected` leaves such lines out, as `spoiled`). The ordinals of log and instruction events are
paired unless their numbers differ, so one missing log and one missing instruction of two
trades join these (`ToldOnce` and `OwnCounterpart` assume one complete side); a caller that gives up `stop()` may skip the
last `flush_all`, and after such a stop `update_subscription` may wait for ever for a queue
nobody reads (the setting with many requests therefore has callers that wait).

## Proofs

For every value of the constants that satisfies the assumptions
`OrderBufferAssumption` (slots and indexes are sets of naturals, modes among the four):

* `OrderBufferProofs!SortedLists`: sorting a finite set of batches with distinct
  arrival numbers returns exactly its members, in key order. `Sorted` is defined by ranks,
  so that no induction over data is needed: rank is injective and monotone.
* `OrderBufferProofs!Invariance`: the inductive invariant `IInv`. Order of the output is not
  inductive: a batch in the buffer must be after everything emitted (each mode for its own
  reason: watermark and closed slots in Ordered mode; the streaming watermark being past
  everything emitted in the current slot, and everything buffered being past the watermark),
  arrival numbers must be fresh, and in streaming mode the pending set must be exactly the
  indexes in the buffer.
* `TypeCorrect`, `OrderCorrect`, `PendingCorrect`, `WatermarkCorrect`, `AtMostOnce` follow
  from `IInv`.
* `AccountedHolds`: each flush moves a finite set of batches from one side of the equation to the
  other (`Sorted` is as long as its set is large). In streaming mode what was dropped on arrival is
  history, and a step of the dispatcher moves batches from the buffer to the output and forgets none
  (`HandedOver`, from the step refinement of `OrderedDelivery`). So `Accounted` is inductive beside `IInv`, which has
  that what is held is finite. `WindowInOrderHolds` is a property of steps: one lemma per flush.
* `ImplementsDelivery`: the steps of `Spec` in the two ordered modes implement
  `OrderedDelivery` under the mapping above: one lemma per action shows which step of the
  abstract specification it is.

For every catalog, any slots, indexes and times and every limit (`StockPricesAssumption`: the
reference pool is not priced itself, slots and times are naturals, the age limit is positive):

* `StockPricesProofs`: `TypeCorrect`, `PositionsCorrect`, `LiquidityCorrect`,
  `ConversionCorrect`, `PriceCorrect`. The properties are invariant together once it is added
  that the reference in use is itself the latest SOL/USDC swap taken since the reset
  (`ReferenceIsLatest`), which is what a conversion inherits.

For batches of any length over any entries (`StonkFunRegistryAssumption`):

* `StonkFunRegistryProofs`: `TypeCorrect`, `RejectionExact`, `Atomic`, `Durable`
  (`SavedAndRestored`). The invariant
  says what the loop knows at each position: `pending` stands for exactly the entries already
  passed, which are valid and agree with each other and with the registry (`PendingIsPassed`),
  and a load was given what was saved (`LoadIsOfSaved`).

For any number of subscriptions, connections, updates and pings (`BoundsAssumption`: the bounds
are naturals):

* `TransactionProofs`: `TypeCorrect`, `RegistryCorrect` (`Listed`), `DisconnectComplete`
  (`NoneLeftBehind`) and `SilentAfterUnsubscribe` (`OnlyToListed`). `Listed` and `NoneLeftBehind`
  are invariant together (`SubsInvariance`) once it is added that a call is made on a channel that was opened
  (`Called`), so that one on an older channel differs from the current one, and that nothing is
  cancelled before it was asked for (`Untouched`).

For transactions of any calls, of any length and height, over any finite set of accounts
(`NoneAssumption`, `MintAssumption`: what is unknown is no height, amount or mint; `AccountsAssumption`;
`CallsAssumption`, what the token program sees to):

* `TransactionProofs`: `CallTree` (`CallTreeFound`) and `UnknownsCorrect` (`UnknownsTold`).
  `CallTreeFound` says that the scan of the flat list, which stops at the first entry that is not
  higher, finds exactly the calls made within one. The invariant relates history to heights: a
  call is within another exactly if all entries between them are higher than that one (`Told`),
  which is kept because of every level up to the last call's exactly one call still runs
  (`Stacked`). From `CallTreeFound` follow `AmountsCorrect` (`OwnAmounts`) and `EvidenceCorrect`
  (`OwnEvidence`): the transfers found within a swap are those it made, and the amount after the fee,
  where the analysis knows it, is the amount received, so both sums are over one function.
  `MintsCorrect` (`MintsFound`): what is known at any time is the true mint of some of the accounts
  (`Tells`), so the folds over the calls are folds over sets of accounts (`EvidenceTells`,
  `PassTells`). One pass reaches at least the neighbours of what was known and nothing that transfers
  do not reach (`PassTells`), and a set of accounts that grows at every step is closed after as many
  steps as there are accounts (`ReachCloses`). Both folds are recursive functions, followed step by
  step from the least counterexample (`Counting`, `Stepwise`). `PassesSettle`: one more pass learns
  nothing, so the code's loop ends with what `PassAll` says.

For any settings, queue sizes and delays (`DexStreamAssumption`: sizes and delays are positive):

* `DexStreamProofs`: `OneStreamHolds`, `NoSilentLossHolds`, `FeedEndsInStatusHolds`,
  `CleanEndHolds`, `BackoffHolds` and `SilentAfterEndHolds`. That only the last stream is alive
  (`Lifecycle`) is kept because a call that opens one holds the lifecycle lock and has waited for
  the task before it; `Helpers` says in which phases of its task a pump and a flush loop may run,
  `Filters` that nothing submitted before a stream was opened is in any of its queues or was sent
  by it, and `Delays` that the delay is the wait of the streak in every phase, not only in the one
  where `Backoff` looks at it. The reference for the delay is a recursive function (`DoubledTimes`)
  that the code does not have: it doubles a variable and caps it. That both agree, though the code
  doubles what was capped, is a lemma on iterated steps, proved from the least counterexample.

For logs of any length, over any programs, cut short anywhere and with any messages
(`LogScopeAssumption`: a quoted program and no program are not programs, pump.fun is no precompile):

* `TransactionLogsProofs`: `OwnScopeHolds`, `OuterFoundHolds` and `CreateDetectedHolds`, for
  `LogScope` alone; `TransactionIsLogged` shows that a run of `TransactionLogs` is one of `LogScope`,
  so the three hold of it, too (`TransactionAttributed`). The invariant: the stack of the parsers is
  that of the runtime while it is not misled, so is the stack of the detection while a line of a call
  still fits (`InStep`); until then no call is missing, so each program's lines at the first level
  are as many as its instructions (`Complete`), and a line of data was written under the
  instruction of the same program with the same number (`Placed`), which is what the search for
  the outer index counts; or under a message "invoke [1]" (`Unknown`), whose count is never that of
  an instruction.

For any number, depth and nesting of calls over the six kinds of program, with stack heights or
without, each call decoded or not (`InstructionMergeAssumption`: the bounds are naturals):

* `InstructionMergeProofs`: `OwnExecutionHolds` and `ExecutedOnceHolds` (of DLMM events, if every DLMM
  call was decoded; the finding below shows the other case). Neither is inductive. The
  invariant relates the lists of targets to the runtime's stack, which the code does not see: an
  unused pump target of the instruction that runs is one of a call that runs and has not emitted
  (`UnusedRuns`); conversely each decoded trade that runs has its target, if heights are reported
  (`PumpHeld`), and so does a DLMM call, if all of these were decoded (`DlmmHeld`); targets are
  strictly higher from one to the next, so the one at the caller's height is unique
  (`Stacked`); and the outer target is the event of the first call of the stack
  (`OuterRuns`). Where it lands (`Lands`) is then the event of the call that emits or a new one.
  That a program is not entered again while it runs (`Nested`) is what makes "the latest caller"
  the call itself.

For transactions of any number of invocations, of any kinds and subjects, seen in any of the places
where events of their kind can show (`SeenAssumption`: only in those):

* `TransactionLogsProofs`: `OwnCounterpartHolds`, `ToldOnceHolds` and `ToldInOrderHolds`. All three
  are about what `Deduplicated` computes from the two lists, and follow from one invariant of the
  lists (`ListsInvariant`): each event shows an invocation of its kind and subject in a place where
  it was seen, whatever was seen is listed, both lists are in the order of the invocations, and a mint
  is created once. An ordinal is then the rank of an invocation among those seen
  (`OrdinalIsRank`), and a count the size of that set (`OccurrencesAreShown`). If counts agree
  and one side is complete both are (`TradesPaired`), so equal keys mean equal invocations
  (`KeyIsInvocation`, `SameKeySameInvocation`). The function's stages are followed by where each
  element comes from: the joined list (`MatchedLists`), a permutation that moves creations only
  and ends with none after a trade of its mint (`CreatesArranged`, one `MoveArranges` for each
  position), then a selection in which current DBC events take the places of old ones
  (`PreferCurrentKeeps`, `CurrentsReplace`). `DeduplicatedTells` sums this up.

For data of any length, strings of any sizes and lists or exclusions of any number of types
(`LayoutsAssumption`, `DecodingAssumption`: sizes and bounds are naturals):

* `DecodingProofs`: `PrefilterSoundness` (`PrefilterSound`, with the exclusions named above), `LikeOuterHolds` (`LikeOuter`) and
  `WithinDataHolds` (`WithinData`). Neither of the first two depends on what a layout reads, only on what decoders tell and on how three kinds of
  table agree: which decoder a discriminator has in each program, which type the discriminator
  announces, and which types a program has. The tables are read off first, row by row
  (`...Rows`, `...Scope`, `...FilterTypes`); then it is proved of every program that what is announced is what
  the decoder tells (`AllAnnounced`, `UnscopedTold`), that a program's types and the families that
  stand for each other are whole (`FilterTypesClosed`), so that to ask a list for a type is to ask it
  for a name (`ListsNameIt`), and of every instruction, account and event that its decoder tells types
  of its program (`...Calls`, `AccountContents`). The invariant is that contents are what the decoders
  tried may make of the input (`Invariance`); the result is followed from there, by origin (`KeptLog`,
  `KeptInstruction`, `KeptInner`, `KeptShred`, `KeptAccount`).

  `WithinDataHolds` depends on every layout. A reader is in step with `b` if at least `b` bytes are
  left and nothing is cut off or shifted so far; `b = -1` allows it to be beyond the data, as the fields
  of later versions do, and `b = -2` to have cut off a key as well (`InStep`). Each kind of
  read needs a number before it and leaves one (`Keeps`, `AfterKeeps`). A layout whose reads can be
  given such numbers (`Certified`) leads from the first to the last of them (`Leads`,
  `CertifiedLeads`, by counting along its reads), and layouts one after the other lead on (`LeadsOn`);
  one that leads from 0 to -1 or more makes events without a flaw, or none (`LeadsSound`).
  So every decoder gets its numbers, read by read (`...Within`, `...CallsWithin`, `...DataWithin`): in
  most of them the guard gives the first, and that the last is not below 0 is what "the guard
  covers the reads" means. One layout has no such numbers: a buy of PumpSwap has one of two
  lengths or is longer, and which of them it has decides later where the event ends (`Fork`,
  `BuyFieldsLead`). The accounts of an instruction are guarded likewise (`Called`). The rest is what
  the tables name (`ScopedWithin`, `CallsWithin`, `AccountsWithin`), that only such decoders are tried
  (`...Tried`), and that what is whole stays whole in the filter (`WholeReturns`). For accounts
  the runs take lengths around the edges of a layout; `MakesWhole` is for every length.

Only model-checked: liveness (`HeldIsEmitted`, `HeldGetsOut`, `CallsReturn`, `FilterReachesServer`,
`CancelledEnds`), which is outside the proof system's reach. Every other property that a run
shows to hold is proved.

## Not modelled

Generated protobuf code, catalogs and environment lookups have no behaviour. Values of fields and
base64 and base58 text are left to the golden tests. Network, TLS and metadata are the
environment. Of the routes, `_swap`'s tables of account positions, the list of transfers, native
token actions, malformed input and the conversion of simulation responses are left out. The
mints that `mark_execution_source` copies from the instruction `log_outer_indices` found, and what
merging and account filling write into fields, are left out, and fee enrichment entirely. Of shreds,
the formats of entries and transactions, the lookup of table addresses, the flags that trades get
from creations of their transaction and the loop over the channel are left out. `rpc_parser.py`
converts JSON and then takes the steps of `_enqueue_transaction_dex_events` with the same functions
of merging, log scope and deduplication; it is not modelled a second time. One of its own steps, that
it leaves unknown accounts out of an instruction's list, concerns values of fields.

## Plan

Done: `OrderBuffer`, `StockPrices`, `StonkFunRegistry`, `Subscriptions`, `DexStream`,
`InstructionMerge`, `LogScope`, `LogDedup`, `TransactionRoute` and `Decoding` with their proofs.

Next, in this order:

1. `WireDecoding`: the format of transactions and entries (truncated input, compact lengths of up
   to three bytes, trailing bytes), then the loops of ShredStream and RPC conversion on top of it.
2. Fee enrichment, as operators over the output of `InstructionMerge`.
