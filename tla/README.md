# TLA+ models of the Spike-Driven Transformer runtime

The repository trains a spiking transformer in Rust (`rust-sdt`) on burn and
CubeCL, and carries patched copies of the two crates its memory problems come
from: `patches/burn-fusion` (lazy execution of tensor operations) and
`patches/cubecl-runtime` (memory pools and streams of the compute server).
`rust-sdt/OOM_POSTMORTEM.md` tells how an interplay of these two leaked GPU
memory. The models below are about them: they hold the concurrent state, the
reference counts and the recursion that the tests of the crates hardly reach.

## Parts of the system

| part | state | operations | hard behaviour |
|---|---|---|---|
| memory page (`memory_page.rs`, `handle.rs`) | slices of one buffer, position in each shared descriptor, reference counts | `try_reserve`, `coalesce`, `bind`, `find`; clone and drop of handles | user threads drop handles while the device thread merges slices; positions go stale when slices are renumbered |
| pools (`sliced_pool.rs`, `exclusive_pool.rs`, `persistent_pool.rs`) | pages, indices, counters of frees | `try_reserve`, `alloc`, `cleanup`, `bind`, `find` | cleanup renumbers pages while handles are in use; deallocation by period |
| memory management (`memory_manage.rs`) | the pools, the mode | `reserve`, `bind`, `cleanup`, `mode` | choice of the pool, persistent sizes that capture later requests |
| drop queue (`drop_queue/`) | two lists and a fence | `push`, `flush` | bytes must outlive the device work that reads them |
| event streams (`stream/event.rs`) | cursor per stream, last synchronised cursor per pair, queue of bindings kept alive | `resolve`, `drop_queue`, GC thread | a binding of another stream used before its work is visible |
| multi-stream server (`burn-fusion/src/stream/multi.rs`, `shared_tensors.rs`, `queue/`) | queue of operations per client thread, variables, cursors, shared tensors and deferred drops, handles | `register`, `drain`, `mark_read`, `drop_shared_tensors` | operations of several threads on the same tensors, deferred drops, mutual recursion |
| fusion tensor (`tensor.rs`) | count of clones per tensor | `clone`, `drop`, `into_ir`, `into_data` | the last clone is decided by an atomic count that several threads change |
| operation wrappers (`ops/`) | none | one function per operation of the backend | which inputs are registered, counted and taken, and in which order; outputs that are there or not |
| relative form (`stream/context.rs`) | numbers of tensors, dimensions, scalars | `to_relative` | two programs that differ must not get one form |
| processor, policy, explorer, plan store (`stream/execution`, `stream/store`) | candidates, plans and triggers | `process` | which prefix of the queue runs, with which plan; several queues share the store |
| optimisation search (`search/`) | blocks of operations | `register`, `optimize` | merging of blocks, reordering, holes |
| stream scheduler (`stream/scheduler.rs`) | list of tasks per stream | `register`, `execute_streams` | streams interleaved on one queue, ids that share a stream |
| tuner, compute client | cache of tuned kernels | | timing |
| training program (`rust-sdt/src`) | weights, data loader, phases | epochs, calibration, evaluation, cleanup | numerics; the order sync before cleanup |

Client threads call the fusion client, which runs one closure at a time on the
server of the device: that is the only entry to the multi-stream server. The
operations it executes allocate from the memory management of the compute
server, which runs on one device thread. Handles and bindings are reference
counted and are dropped on any thread; the count is how a drop reaches the page,
there is no call.

What makes each part correct: a page never gives the same bytes twice and a
binding leads to its own slice for as long as it lives; a pool keeps that over
`cleanup`; the multi-stream server runs each operation after those it reads from,
releases a handle after the last operation that reads it, and does release it.

## Plan

Done: `MemoryPage` with the abstract `RegionAllocator`, its proofs and its
refinement; the pools; `FusionMultiStream`; then, in the order of how much of the
lazy execution they decide, the relative form of operations and the search
(`RelativeOps`, `FusionSearch`), the processor with its policy and plan store
(`FusionProcessor`), the operation wrappers with the clients that call them
(`*Operations`, `FusionClient`), and on the side of the compute server
`EventStreams` with the drop queue, and `StreamScheduler`.

Then the proofs about the page, the three pools, the event streams, the scheduler
and the fusion client: every safety property that a passing run checks of these is a
theorem now. Of `FusionMultiStream` three are proved, `HeldTensorsLive`, `DropsExecuted`
and, with `ContinueDropDrain`, `NoLostOperation`.

What would add most next, in this order:

1. `NoMissingHandle` of `FusionMultiStream`. It needs the order of the operations on
   one tensor over all queues: what makes it has been executed when another stream's
   operation reads it, and what releases it comes after every reader;
2. `ExecutedOnce` and `SyncDrains` of `FusionProcessor`, once `FusionSearch` is
   written without recursive operators;
3. the composition of several dynamic pools in `memory_manage.rs`;
4. the prefix that `FusionProcessor` executes in place of the open choice in
   `FusionMultiStream`.

## Modules

### RegionAllocator, MemoryPage

`RegionAllocator` says what a page promises: each referenced handle owns a region
of the buffer, alone; a region appears, disappears with the last reference, or
changes owner (`bind`), and never moves.

`MemoryPage` is the code. `slices` and `slicesTmp` are the two vectors of the
struct, `location` is the `slice` field that every descriptor carries, `refs` is
the strong count of a descriptor minus the page's own reference. `NewHandle`,
`Clone` and `Release` are user threads. `StartReserve` is `coalesce()` up to its
loop, where it collects the runs of free slices in `job`; `StartMerging`,
`Merging`, `Completed`, `Ignoring` are the four outcomes of an iteration and
`FinishCoalesce` is the swap; `ReserveWhole`, `ReserveSplit`, `ReserveNone` are
the outcomes of `try_reserve()`; `Bind` is `bind()`. The user actions interleave
with every step of the loop, as they do in the program, because a drop is an
atomic decrement and takes no lock. `try_reserve()` is one step: a drop in the
middle of its scan is the same as a drop before or after the slice is tested.
A run of `job` stays valid through the loop because nobody but the page can
reference a free slice again.

`Owned` maps the page to `RegionAllocator`: the extents of the slices whose
descriptor is referenced, wherever `coalesce()` has them.

`Slices` holds what the page and the pools share: the slice record and the
effective size of `base.rs`. `Common` holds what those and other modules share: the
padding, sums, what is kept of a list, lists joined in one.

### SlicedPool, PersistentPool, ExclusivePool

The pools have one action per operation and the same user threads (`NewHandle`,
`Release`). A descriptor that nobody references can be a fresh one again, which is
what keeps the sets of descriptors small.

`SlicedPool` cuts `reserve` and `cleanup()` at the pages they loop over, because a
user thread drops handles between two pages: `CoalesceForReserve`, `TryPage`,
`NextPage`, `Alloc`; `StartCleanup`, `CoalesceForCleanup`, `DeallocPage`,
`KeepPage`, `FinishCleanup`. `coalesce()` of one page is one step here, since which
slices it merges is decided by its first lines. The pool implements
`RegionAllocator` as its pages do, with the buffers laid end to end.

`PersistentPool` includes the two decisions that `reserve_inner()` of
`memory_manage.rs` takes about it: it is asked first for any size, and it grows in
persistent mode or when it knows the size. `buffers` records the size each buffer
was allocated with, which the code does not keep.

`ExclusivePool` leaves the running average of sizes open (it is a floating-point
number) and counts the reserves since the last check up to the period. `history`
records what the comments speak of: how many checks found a page free since its
last use.

### FusionMultiStream

`streams` is the map of the server; an entry has the queue, the variables and the
cursor. `shared` and `manual` are the two maps of `SharedTensors`, `handles` the
keys of the handle container. An operation is the set of the tensors it names with
their status. `origin` and `refs` are a `FusionTensor`'s stream and count.

The server runs one call at a time (`todo` is empty before a client's call).
`register`, `drain` and `drop_shared_tensors` call each other, so a call is cut
where it calls: `RunRegister` (analysis), `RunResolve` (one stream to synchronise
at a time, the order of the hash set open), `RunAdmit` (drop decision),
`RunProcess` (queue the operation, execute a prefix), `RunFlush` (drain after a
drop), `RunDrain`, `RunDropShared`, `RunRead`. `todo` is the stack of what is left
to do. These are not points where another thread can act; they only give the
recursion a stack. The processor is abstracted to the prefix it takes: with
`PartialPlans` any prefix, otherwise nothing or the whole queue.

`IntoIr` takes the count as read: the clients here do not race on one tensor.

The list that `on_drop()` returns with `ForceDrop` is always empty: it reads the
streams of an entry only after it found there are none. The loop of `register()`
over this list does nothing, and the model has no step for it.

### RelativeOps, FusionSearch, FusionProcessor

A queue is a sequence of operations; an operation is its variant and one argument
per field of its description, in the order in which `to_relative()` converts them.
`RelativeOps` has one row per variant of `context.rs`: whether a field is a tensor,
a result, a scalar, data that is kept, or data that is erased. `Relative` folds the
rows over the queue with the converter's maps, which are insertion orders here,
since a number is the size of the map when its key came. `SameProgram` says what
the form should tell apart.

`FusionSearch` is a function from the relative queue to a strategy: blocks that
share no tensor (`Register`, up to `MaxBlocks`), merging (`MergeBlocks` with its two
steps and its accumulator), the order of the blocks, the holes that no fuser took
and their own search (`FillHoles`). A fuser takes variants of its own up to a length,
as the builder of the crate's tests does; it is the only part outside the repository.

`FusionProcessor` has one processor per stream and one plan store. `RegisterOp` and
`StartSync` are the two calls; `Iterate` is one turn of the loop of `process()`, so
that its termination is a property. `policy` and `explorer` are the two structs,
`executed` remembers the last execution with the program it was for. A plan keeps
the program it was explored from (`program`), which the code does not store.

### Operations, FloatOperations, IntOperations, BoolOperations, ModuleOperations, QuantizedOperations, FusionClient

An operation wrapper is data: the kinds of its inputs in the order of the
`into_ir()` calls, those that may be absent, those whose streams are registered, the
order in which the closure takes the handles, the outputs, and those that the
closure stores. Each module lists the wrappers of one file, in groups in the order of
the file; the macros of `unary.rs` and `binary.rs` have operators of their names in
`Operations`.

`FusionClient` calls them. A call is `CallWrapper` (clones, `OperationStreams`, all
`into_ir()`), `DropClone` (the drop of the last input, where another thread may come
between) and `RegisterOp`. Clones are counted as in `FusionTensor`; a tensor can be
passed at several places of one call and held on to. The server is what `multi.rs`
promises: the streams that still work on the registered inputs are drained first, in
any order (`Submit`). `FusionMultiStream` models how it does this. `After` gives the
handles after each of the operations that are executed, `Finds` says that a closure
finds those it takes. Variants with one signature are one choice, which is what keeps
some hundreds of operations in reach.

`Sound` is what a wrapper owes to its callers: its closure takes the handle of every
input, those of one kind in the order of the `into_ir()` calls, the streams of all inputs
are registered, and every output is stored. `MCFusionClient` assumes that all wrappers
are sound but `bool_mask_where()`, `quantize()`, `q_gather()` and `q_select()`, and TLC
evaluates this on the 269 descriptions; the run offers the sound ones that are not
quantized.

`IntoData` is taken only where no other stream has work queued on the tensor: a read
does not wait for that (`FusionMultiStream!ReadWaits`).

### StreamPool, EventStreams, StreamScheduler

`StreamPool` has the streams of a pool and the stream of an id, for both.

`EventStreams` has a host that makes calls, one command list per stream of the
device, and the collecting thread with its bounded channel. `Resolve` is the analysis
of shared bindings and the alignment on them: `cursors` and `synced` are the cursors
of the streams. `Launch`, `Refuse` (stream in error), `Leave` and `Send` (drop of the
resolved streams: events, then the task for the collector, which blocks when the
channel is full) are the host's steps, `Device` runs one command, `Receive` and
`Collect` are the collector. `Flush` is the drop queue: the bytes staged since the last
flush wait behind the fence of this flush. Handles are task numbers.

`StreamScheduler` has the list of each stream, the encoder of its backend, and the
queue all submit to. `Register` aligns with the streams of the arguments and executes
a full list; `ExecuteStreams` executes what it is asked for with either strategy.

## Runs

| run | question | result |
|---|---|---|
| `page_reserve` | five slices, two runs in one `coalesce()`, padded sizes, clones: the inductive invariant, overlap, alignment, positions, bytes lost, stability of regions, refinement | holds |
| `sliced_reserve` | two pages filled, emptied, renumbered: the inductive invariant, positions, refinement, and is a new page always large enough? | holds |
| `persistent_reserve` | the inductive invariant, index, positions and sizes over reuse and cleanup | holds |
| `exclusive_reserve` | the inductive invariant, positions, sizes; a page goes neither too early nor too late | holds |
| `fusion_whole_plans` | three streams, whole-queue execution, no operation of the mixed kind: producers first, release after the last reader | holds |
| `fusion_partial_plans` | any prefix, reads, two inputs: held tensors, lost operations, lingering drops, and does each server call end? | holds |
| `fusion_early_release` | release after the last reader, with partial execution (`multi.rs:54`, `shared_tensors.rs:286`) | violated |
| `fusion_client` | all float, int, bool and module wrappers on two threads: handles there when taken, outputs made, nothing left behind | holds |
| `fusion_processor` | two streams and one store: the right plan, each operation once and after its producers, no panic, a sync empties the queue, `process()` ends | holds |
| `fusion_trunc` | the right plan, for programs of `Ceil` and `Trunc` | violated |
| `event_streams` | host, two streams of the device, collector: the inductive invariant, producers first, bindings kept long enough, no standstill | holds |
| `stream_scheduler` | four ids on three streams, both strategies: is every task behind those it depends on? | holds |

Bounds. Page: ten units with alignment two hold five slices, which is what two runs
in one `coalesce()` need (two free, one used, two free). Five descriptors are enough:
a merge takes its new one after it has dropped the others. Sizes one and three need
padding, and a slice reused for a smaller size leaves an odd remainder.
Sliced pool: two buffers, so that a kept page changes its number; sizes below the
limit for slices, of a whole page and beyond it. Persistent pool: two padded sizes,
each with a padded and an exact request, and three buffers. Exclusive pool: two
buffers; a page goes after three checks (five in the code), one check for each
reserve. Fusion: `ContinueDropDrain`, an environment variable of the program, is off
in `fusion_whole_plans` and on, as by default, in the others; three tensors are an
input, an output and a third that forces the drop paths; three streams are a creator
and two peers; six client calls (four in `fusion_partial_plans`, whose liveness
property cannot use symmetry) create, share, read and drop on each side; the
violation of `fusion_early_release` needs six. With `Mixes` off, `fusion_whole_plans`
leaves out one kind of operation, those that take a tensor of another stream together
with the last clone of one of their own stream's: with them `ReleaseWaits` fails even so
(see below), though only with five tensors. Client: two calls on two threads, any wrapper after any other, up
to three uses of one tensor in one call; three tensors allow the outputs of the first
call to be inputs of the second. Processor: four operations, a source, a reduction and
a sum, are the shortest programs with a merged block, a hole and a reordering; two
fusers that take different variants close at different lengths; two blocks at most, so
that the limit is met; one tensor that was there before. Event streams: three ids on
two streams, so that two ids share one and a third waits for them; a channel of one
(eight in the code) and one upload for a flush, so that both limits are met; three
tasks are a write, a read on another stream, and one that comes between. Scheduler: four
ids on three streams, lists of three, tasks with two arguments.

The runs of `FusionMultiStream`, `FusionClient`, `FusionProcessor`, `EventStreams` and
`StreamScheduler` do not check deadlock: they have no step when their bound on calls
is reached, and the first two stop for good when an operation panics. The page and the
pools never stop, and their runs check it.

Fairness: `fusion_partial_plans` assumes weak fairness of the server's steps. A call is
a plain function on the server's thread, so it runs as long as it has a step to
do. Nothing is assumed of clients. `event_streams` assumes weak fairness of the host's
steps inside a call, of each stream of the device and of the collector: the first is
straight-line code that waits for the channel only, the second runs its commands by
itself, the third loops on the channel. Nothing is assumed of who starts a call.
`SyncDrains` and `ProcessReturns` of `fusion_processor` are action properties and
need none.

## What the violations show

* `fusion_early_release`: `register_new_stream()` records, for the current stream,
  the length of the queue before the operation is added. After a lazy execution of
  everything but that operation the stream counts as done with the tensor.
* `fusion_trunc`: `to_relative()` of `FloatOperationIr::Trunc` builds a `Ceil`
  (`context.rs:711`). A queue with a `Trunc` has the form of one with a `Ceil`, and is
  executed by the plan that was explored for the other.

Seven definitions are stated in the modules and are known not to hold as they stand, or
not for every constant; no run checks them there:

* `FusionMultiStream!ReleaseWaits` with `Mixes`, even when whole queues are executed.
  `merge_streams_timelines()` keeps the current stream out of the streams to drain when
  it looks at the tensors of others (`multi.rs:434`), and not when it adds the streams
  that share a tensor taken for the last time (`multi.rs:442`), although "when one of
  the provided streams is different from the current stream, we drain them"
  (`multi.rs:341`). So the current stream may be drained between the entry it gets for a
  tensor of another stream and the operation that reads it, and counts as done with
  that tensor too early. TLC finds it on these calls: `b` makes `u`; `a` reads a clone of
  `u` twice and keeps the second result `t`; `b` reads a clone of `t`, then takes `t`
  and the last clone of `u` in one operation; `a` is synchronised, which executes the
  deferred drop of `t` while that operation is still queued on `b`.
* `FusionMultiStream!ReadWaits`: a read of the last clone takes the handle away without
  looking at the streams that share the tensor (`multi.rs:54` promises otherwise).
* `FusionMultiStream!NoLeak`: a drop on another stream registers the tensor's origin
  stream, even when that stream has left the map, and waits for it for ever
  (`multi.rs:55`).
* `FusionMultiStream!NoLostOperation` without `ContinueDropDrain` and with
  `PartialPlans`: `register()` skips the drain that `ContinueDropShared` asks for when
  the stream has no variables left (`multi.rs:176`), although the drop must not "linger
  in the queue past stream close" (`multi.rs:81`). TLC finds it on these calls, with what
  is executed when left open: `a` makes `t`; `b` reads a clone of `t`, and another one once
  `a` has left the map, so that the cursor recorded for `a` is 1; `a` makes and drops `x`,
  then drops `t`; the first two operations are executed, which passes that cursor and
  clears all variables of `a`; `b` synchronises, and `a` leaves the map with the drop of
  `t` in its queue. With `ContinueDropDrain` the drop of `x` drains `a` before.
* `SlicedPool!EmptyPageReturned`: when a free slice is reused for a smaller size, its old
  padding belongs to no slice any more, and the sum of the free bytes never reaches the
  size of the page again.
* `PersistentPool!FreeIsFound`: reuse changes the size of a slice and not its padding, and
  `cleanup()` files the slice under their sum, which is no padded size.
* `FusionClient!NoMissingHandle` with `Races`, or with `bool_mask_where()` or `quantize()`
  offered. With `Races` two threads pass the last two clones at once, both see a shared
  tensor, and the drop of one runs before the closure of the other. The two wrappers
  take handles in another order than their inputs were counted, so that a tensor passed
  twice is gone at its second use; they are not `Sound`.

## Proofs

Each of the modules below EXTENDS the ones it is about. The theorems hold for every
value of the constants that satisfies the module's assumption, which asks no more than
the code does: sizes are natural numbers, an alignment, a number of streams, a capacity
is positive, pages are made of an aligned size, `ALLOC_AFTER_FREE` is at least two (it
is five). Sets of descriptors and of ids may be infinite; `SlicedPool` has finitely
many buffers, since its refinement puts them on one line. The bounds of the runs on
calls, tasks and clones are constants too, so the theorems hold for each of them.

An invariant has a lemma for the initial state and one for each action; the last step
of a theorem combines them with temporal logic. Every inductive invariant is either an
invariant of a run or was checked with TLC on a run's instance before it was proved.

**Memory page** (`MemoryPageProofs`). `PageInvariance`,
`PageTypeOK`, `PageNoOverlap`, `PageHandleFindsSlice`; `PageRegionStable`: no step moves
or resizes a region in use; `PageRefinesAllocator`: `Spec => Allocator!Spec`;
`PageAligned`; `PageKeepsBytes`. `NoOverlap` alone is not inductive. In the middle of
`coalesce()` a slice is in one of three places: moved, being merged, or still to come.
`MergeFits` keeps the run being merged between the two others; `JobFree` says that the
runs still to merge are free, disjoint and inside the page, which is why dropping their
slices drops no one's bytes; `DistinctHandles` and `Positions` say that a position
identifies its descriptor, which `bind` relies on when it writes through the position of
the reserved handle. For the offsets, `Aligned` follows both vectors and the run being
merged: a slice is only ever split at the end of its padded size. For the bytes, each
turn of the loop adds to one side of the equation what it takes from the other; the
sums are those of `Common`.

**Exclusive pool** (`ExclusivePoolProofs`). `PoolInvariant`, `BindingFindsPage`,
`SlicesFit`, `FreePagesGo`, `ReusedPagesStay`. `FindsPage` speaks of referenced handles
only; `Located` says it of all, so that two pages never share a descriptor and
`cleanup()` can renumber the pages it keeps. `SliceFits` needs `PagesAligned`: a size
that fits in an aligned page fits there with its padding. The two promises about
`cleanup()` speak of its history, the code decides by `free_count`; `Counted` relates
them: a page was seen free at most `free_count` times since its last use, `free_count` is
below its limit, and on a page that was reused it is at most the limit minus two ahead
of what was seen.

**Persistent pool** (`PersistentPoolProofs`). `PoolInvariant`, `EverySliceIndexed`,
`BindingFindsSlice`, `SizesFitBuffers`. The index may file a slice under a key its
buffer is too small for (`PersistentPool!FreeIsFound` fails for the same reason).
`SizeFitsBuffer` survives that because of `KeysFit`: such a key is not a multiple of the
alignment, requests look up padded sizes only, and under an aligned key the buffer is
large enough. `BuffersAligned` is what makes it inductive.

**Sliced pool** (`SlicedPoolProofs`). `PoolInvariant`, `BindingFindsSlice`, `NewPagesFit`,
`PoolRefinesAllocator`. During `cleanup()` the pages are in two vectors; the numbers in
use by both never overlap (`InLoop`), so the proofs look at them as one vector with a gap
(`Numbers`, `At`). `Placed` makes descriptors distinct over all pages. `Regions` gives
the layout of a page; a merged slice fits by the sums of the sizes before it. A size
that `accept()` lets through fits with its padding since the page is aligned. For the
refinement the slices in use are the regions, and each step leaves them alone, adds one,
removes one or rebinds one. A page that is given back has none in use: its free slices
fill it, and an empty slice does not exist.

**Event streams** (`ComputeStreamsProofs`). `StreamsInvariant`, `BytesStayUntilRead`,
`ReadsAfterWrites` (`ValidWhenRead`), `CollectsAfterUse` (`CollectedAfterUse`). Each of
the three promises is about what the device has done; none is inductive, since what the
host believes decides which waits it leaves out. `StreamsInv` says what those beliefs
stand for: a task is on its own stream behind all that it reads, either behind the task
itself or behind a wait for an event that covers it (`TasksInOrder`); a stream signals
its events in order, so that a signalled event means that all before it was run
(`SignalsInOrder`); a cursor in `last_synced` is backed by a wait (`SyncedGuarded`), a
fence by an event behind the uploads (`FencesCover`), a batch on its way to the
collector by an event of the collecting stream (`CollectsCovered`).

**Stream scheduler** (`ComputeStreamsProofs`). `QueueOrdered` (`QueueKeepsOrder`). Both
ways of putting lists together, one after the other or in turns, take all tasks and keep
the order of each list (`Mixes`). `QueueKeepsOrder` says nothing of the tasks that wait;
`SchedulerInv` adds that each task is on the queue or in its stream's list (`Known`), and
that what a waiting task needs is on the queue or before it in the same list, never in
another (`ListsInOrder`): `align_streams()` empties the lists of the arguments' streams
before the task joins its own. So no order of execution can be wrong.

**Fusion client** (`FusionClientProofs`). `NoMissingHandleHolds`, `ReachableMadeHolds`,
`NothingLeaksHolds` (`ClientInvariant`). They are about finitely many threads and any set
of wrappers, under two hypotheses: the wrappers offered are sound (`AllSound`), and no
thread uses a tensor that another one is just passing to a wrapper (`~Races`). Both are
needed: see the violations above. All wrappers but the four named there satisfy the
first, the quantized ones included.

* The clients. While somebody holds a tensor, its count is the number of its holders,
  plus the clone that a wrapper has yet to drop (`Counted`). So `status()` says `ReadWrite`
  only at the last use in a call, of a tensor that nobody holds any more (`CallOK`), and
  no other wrapper has been given it (`Exclusive`).
* The queues. Work on one tensor is queued on one stream only, since any other is drained
  when an operation on it is registered; there it is in turn (`InTurn`): made before it
  is read, nothing after its release (`Good`).
* Between the two: the tensors that can still be used are those that would have a handle
  after all that is queued (`Surviving`). "At least" gives `ReachableMade`, "at most"
  `NothingLeaks`, and with `Good` a drained queue finds all its handles.

Draining several streams executes one list; `Places` says where the operations of each
queue are in it, and since a tensor's work is on one of them it stays in turn whatever
the order.

**Fusion streams** (`FusionMultiStreamProofs`). `HeldTensorsLiveHolds` (`LiveInvariant`),
for every setting of the constants: any prefix of a queue may be executed, reads and
mixed operations may be offered, the drain after a drop be on or off. `HeldTensorsLive`
speaks of the moments when no call runs. Between them its truth is spread over the
stack of calls: a tensor may be made by an operation that is only being registered, and
the release of one may be on its way. So `LiveInv` reads the stack too. `Live` counts
the tensors of an operation that was not admitted yet as held; nothing live is in
`manual`, released by a queued operation, or to be released by a call (`Last`,
`Released`). `Tracked` keeps a queue from being lost with its stream: the tensor an
operation will make is a variable of its stream, and when it is shared, the stream is not
done with it before that operation. `Shape` says what the stack looks like; that an
operation of a client is its last call is why a drop registered in between, which has no
tags, never meets one half done. The invariant takes the streams and the stack as
parameters, so that a call that first queues and then executes is proved in two steps.

`DropsExecutedHolds` and `NoLostOperationHolds` rest on a second invariant (`DropInv`),
about the drain that `ContinueDropDrain` adds after each drop. That no drop waits when
the server returns is easy to say and not inductive: between the drop and its drain other
calls run, each drain can register further drops, and `register()` gives the drain up when
the stream has no variables left. So `DropInv` follows the drop over the stack. A queued
drop's stream is being drained, or its drain is still to come and only calls on the drops
of that stream are before it (`Window`); and until then some variable cannot be cleared by
anyone (`Held`): a tensor of the stream itself that is not shared and that at most the last
operation releases (`Anchor`), or the tensor of the drop when nothing else is queued. For
the queue not to be lost, what it still has to make stays a variable of its own stream, held
or not, and is recorded with a cursor that is not reached before (`QueueOK`); and a shared
tensor that is still to be made is waited for by the operation that shares it (`Synced`),
so that a drop never meets one. `Distinct` says that no tensor is released by two calls.
Every operation makes a tensor or is a drop (`Whole`), so whatever is left in a queue keeps
its stream in the map. `DropsExecuted` says nothing without `ContinueDropDrain`;
`NoLostOperation` fails then, and the theorem takes the constant as its hypothesis.

**Common lemmas** (`CommonProofs`). Padding; the elements kept by `cleanup()` in their
order; sums; joined lists; loops whose turns start from what the turn before left. The
library's induction theorems take an operator, which the provers cannot instantiate;
`Climb` takes a set of numbers instead and rests on the least element of its complement,
which is enough for functions defined over `0 .. n`.

Only model-checked:

* `NoMissingHandle` and `ReleaseWaits` of `FusionMultiStream`. They relate the queues of
  different streams, and `ReleaseWaits` holds only within the choices of its run (without
  partial plans), so the argument has to follow cursors through the stack of calls, from
  `LiveInv` on;
* the properties of `FusionProcessor`: its search is made of recursive operators;
* liveness (`CallsReturn`, `StreamsGoOn`), which is out of the prover's reach.

## Not modelled

* Values of tensors and the arithmetic of the model and of the training (floating
  point), hence `rust-sdt`: its loops are sequential, and what can go wrong in them is
  numeric or in the two crates above. The Python reference and `paper-cli` likewise.
* Logging, statistics, configuration and diagnostics.
* Of the wrappers: `to_device`, transactions, the distributed `all_reduce`, the
  activation functions, which only have default bodies, and `CustomOpIr`.
* Quantized wrappers are described in `QuantizedOperations` but not offered in
  `fusion_client`, where they would add kinds of tensors that no other wrapper is about:
  the theorems about the client cover the sound ones. `q_gather()` and `q_select()` do not
  register the stream of their indices, which the abstract server takes literally.
* The dispatch of `memory_manage.rs` over several dynamic pools, and the widths of the
  page number in a descriptor (16 bits) and of the staged sizes of the drop queue.
* The tuner, whose choice is made by measured times, and the traits of the compute
  client and server, whose implementations are outside the repository.
* Code outside the repository (the handle container and the operations of burn-ir,
  fusers, backends of streams, the wgpu server) appears as the code here uses it.
