# TLA+ models of AntTracks tracing

This directory verifies how the modified AntTracks JVM gets events from the threads
that fire them into a trace file, and how the analyzer reads them back:

- the queues and threads an event passes through, and its order in the file;
- the change and the closing of files while everything keeps running;
- the identifiers that events carry, and when the analyzer is told their meaning;
- the compression of buffers and its inverse;
- the parallel reader of the analyzer.

Paths below are relative to `src/ant-tracks-jvm/src/src/share/vm/` unless they start
with `src/`.

## 1. The system

The repository is a pipeline that extracts object lifetimes from a Java program. A
modified HotSpot VM writes traces, an analyzer rebuilds heaps from them, and scripts
turn the result into tables and plots. The analyzer can only be right if the trace is:
it replays events in file order, so an event lost, duplicated or moved across a
collection corrupts every heap state after it.

| Part | State | Operations | Interacts with |
|------|-------|------------|----------------|
| Event buffer list (`prims/EventBufferList.cpp`) | ring of buffers, head, tail, capacity, finalized | enqueue, dequeue, peek, wait_until_empty, finalize, growth | all threads below |
| Event buffers (`prims/EventBuffers.cpp`, `EventBuffer.cpp`, `EventBuffersFlushAll.cpp`) | flush queue, compression queue, free list | take, hand over, recycle, flush, flush_all | firing threads, VM thread, agents |
| Firing (`prims/EventsRuntime.cpp`, `runtime/thread.cpp`) | one buffer per thread | allocate_event, fire_sync, GC marks, thread exit | queues |
| Compression threads (`runtime/thread.cpp`) | owners in process, idle flags, one `critical` section | take, barrier, compress, pass on | both queues, free list |
| Worker thread and writers (`runtime/thread.cpp`, `prims/EventsWriter.cpp`, `AllocationTracingIO.cpp`) | current file and its size | write, rotate, close | flush queue, rotation |
| Rotation (`prims/EventSynchronization.cpp`) | forced, type, triggered | trigger, force a collection, start, stop | worker, VM thread, Heap_lock, GC locker |
| Lifecycle (`prims/AllocationTracing.cpp`, `jvmtiExtensions.cpp`) | active, writers, worker | init, destroy, toggle at run time, agent calls | everything above |
| Allocation sites and types (`prims/AllocationSites.cpp`, `AllocatedTypes.cpp`) | identifier tables under two locks | search, assign, patch, exchange, save and reuse | interpreter, C1, C2, collections, symbols writer |
| Symbols (`prims/SymbolsWriter.cpp`), class definitions | files under a lock | write | sites, types |
| GC event runtime (`prims/EventsGCRuntime.cpp`) | postponed space events, moves | start, end, move, sync | firing |
| Codecs (`prims/LZWCompression.cpp`, `QuyteTreeCompression.cpp`, `VarInt.hpp`; the analyzer's `Decompressor`) | dictionaries, widths | encode, decode | compression threads, analyzer |
| Analyzer's reader (`TraceParser.java`, `TraceSlaveParser.java`) | queue of buffers, one heap with a queue per thread of the trace, master queue | read, assign, evaluate, clean up, park, abort, cancel | trace files |
| Rest of the analyzer, `vmtrace`, scripts, benchmarks | none shared with the VM | offline | trace files |

What makes it hard: threads of five kinds meet at three queues that all wait on one
monitor each; the compression threads wait for each other and for a full queue inside
a critical section; the VM thread does the same at a safepoint, when no Java thread
can help; the rotation decision is taken by one thread, executed by another and may be
overtaken by a third; a collection may be declined; and tracing can be switched off
under all of this. Identifiers are given out under locks that are partly avoided, to
code that fires long after. The analyzer evaluates in parallel what was written in one
order, and any of its threads may fail.

`PROJECT.json` lists the components with their status and the hazards at the lines
where they bite.

## 2. Modules

### BufferQueue and EventBufferList

`EventBufferList` is the ring as coded: `list`, `capacity`, `head` with its sentinel
-1, `tail`, `finalized`. A thread's call is a record with the operation, the buffer
and whether it is ready (competes for the monitor), waiting (sleeps in it) or done.
One action is what runs under the monitor between two waits; a thread that is
notified takes the same action again, as the `while` loops of the code do. The
handlers are two flags: `Underflow` (a new buffer is created) and `Overflow` (the
buffer is destroyed). `ResizedList`, `ResizedHead` and `ResizedTail` are what
`realloc`, `memcpy` and the index updates of `resize_to` leave behind. The wait in
`resize_to` never happens, because the length is at most half the new capacity.

`BufferQueue` is what callers rely on: a sequence, a backlog at which producers may
be halted, and whether growth keeps the order. `EventBufferList` implements it with
`Content`, the buffers between head and tail, as the queue (`QueueSpec`).

### TracePipeline

Everything between firing and writing. Queues are sequences here, since the ring is
shown to be one. State and code:

- `buf[t]`: the thread's event buffer, or `Dummy`; `cont[t]`: where a thread is that
  has met a full queue in `flush_event_buffer`.
- `cq`, `fq`, `finalized`: the compression and the flush queue.
- `crit`, `comp[c]`, `in_process`: `CompressionThread::run`. A thread is at the top of
  its loop, in `peek`, at the barrier, with a sync buffer, compressing, handing out,
  or removing its owner; before that it has been created and is not yet idle. Number 1
  is the master. `idle` is the flag that the barrier and `flush` read.
- `worker`: `EventsWorkerThread::run`.
- `free`, `live`: buffers in the free list and buffers that exist.
- `trace`, `size`, `file`: what has been written, and the current file.
- `todo`: the steps a VM operation has left (flush, mark, work, wait, reset, finalize,
  join, delete); `flusher[x]`: how far a caller of `EventBuffers::flush` has come.

An event carries its number within its thread and the number of GC marks fired before
it. That is all that order properties need to tell events apart.

Choices a reader should know:

- `critical` is one static monitor per place in the code. `peek`, adding the owner and
  `dequeue` happen inside it, so they are one action. `peek`'s waiting is visible
  (`PeekWaits`) because it sets `idle`.
- The fields a compression thread clears at the top of its loop change together with
  the release of the section; between the two nobody can act on the difference, as
  `idle` is still false then and only delays its readers.
- `encode` may fail for lack of room. Then the original buffer goes on and the other
  one is recycled, which for the properties is the same step.
- `MustCompress` gives the answers `evaluateCompression` can give; the measured times
  behind them are nondeterministic. Fill levels are counted in buffers.
- `fire_sync(false)` (an order barrier) is fired by GC threads. The VM thread's other
  events before a mark are abstracted away.
- The thread that calls `FlushAllEventBuffers` is in the VM while it waits and does
  not poll, so no safepoint begins during its wait. The operation it asked for is
  queued before that and runs whenever the VM thread gets to it.
- Empty buffers are dropped by the code without reaching a queue; the model never has
  them, because every buffer taken gets an event.

### EventSynchronization

When a file is left. `size` counts the buffers written to the current file, `slot` is
its number; the text of its name is left out. The worker writes and then, in a second
step, looks whether to trigger (`check_trigger_rotate`); the synchronization thread
sleeps, tests in its prologue under `Heap_lock`, queues its VM operation, cleans up in
the epilogue and clears `triggered`. Other requesters collect or toggle tracing. The
VM thread executes one operation after the other. `request[r]` is also where a Java thread
is with a JNI critical region: while one is in such a region a collection is declined and
`needs_gc` set, which keeps others out; the last one to leave collects (`"last"`), unless a
full collection overtakes it (`Skip`), and clears `needs_gc`. The failing of the `guarantee` at the end of `doit`, and reading the
size of a deleted writer, end the process (`Crashed`). The collector is the parallel
one, the only one tracing can be toggled with. A full collection that follows a
scavenge inside the same operation is not a step of its own.

### AllocationSites

`AllocationSites.cpp`, `AllocatedTypes.cpp` and the part of `SymbolsWriter.cpp` that
records sites and types. A frame is a method with a bytecode index, a site a sequence
of frames with a type.

- `info` is `id_to_info`; `index` says which identifiers have their info as a key of
  `info_to_id`. A key is patched in place, so key and info stay one thing. A type that
  is `UNKNOWN` is equal to any other (`Equal`).
- `call[t]` is what a thread does: `op` is the function (`find`, `check`, `alternate`,
  `get`), `for` who asked and what becomes of the answer.
- `sites_lock`, `types_lock` and `writer_lock` nest in that order. The first look at a
  class's identifier is without a lock (`ToAllocatedType`).
- `types` and `sites` are the records in the symbols file; the analyzer takes the last
  one of a site. `code` is what compilers have produced with an identifier in it.
- C2 code whose class is not constant fires an event that carries the class's own
  identifier next to the site's (`deviant`), if the class has one; otherwise it has the
  site exchanged.
- `Die` makes a class loader unreachable, `Collect` unloads it. `SaveUnloaded` keeps
  the identifiers of sites by their text, under the table's lock if sites are reused at
  all, and `Reusable` finds them again.
- The zones begin when few identifiers of a range are left. In them, searches take
  shorter stack traces and new sites are cut.
- `fatal` is the VM's end when a range has come round or types have run out.

Reading the name of a method that is gone gives `"garbage"`. Mirrors (instances of
`java.lang.Class`) have identifiers of their own and are left out.

### TraceCodec

What one compression worker makes of its buffers, and what the `Decompressor` makes of
that. The dictionary is the sequence of strings that got an index: in the quyte tree a
string is the path to a leaf, in LZW a map entry. A VarInt is a run of markers, one for
each width `from` to `to - 1`, then a value of `to` bits. Of the bytes it is packed into
only their number is kept, since running out of room depends on it. `cuts` remembers
where strings began, for the proofs; no step reads it except through `Start`.

### TraceParser

The thread that calls `parse` reads buffers and waits for room; the master assigns them
to the heap of the thread that wrote them; slaves take heaps and evaluate their buffers.
A buffer is known by its place in the file, a heap by its thread. `io`, `master` and
`slave[s].at` are where the threads are, `state[h]` and `queue[h]` the heap's fields.

- One action is what runs between two points where another thread can interfere: a
  queue operation, a `synchronized` block, a wait.
- The file is any of `Files`, and may be cut off within its last buffer.
- Evaluating may throw, and so may cleaning up; `Report` and `Abort` are the two steps of
  `abort`. The user may cancel. Interrupts are flags that the next blocking call sees.
- A buffer's length is counted before the wait for room, so one longer than the whole
  queue is never admitted. `Starved` is the reader that waits for it.
- Heaps without a current LAB are dropped after a clean-up or not, either way.
- What events do to the heap is left out. `dirty` remembers whether a heap has been
  cleaned up since its last buffer.

### MC modules

`MCEventBufferList`, `MCTracePipelines` and `MCEventSynchronizations` put two instances
of a module side by side: two kinds of list, two pipelines, two VMs. A behaviour is one
of the first or of the second, chosen at the start, while the other stays as it was
created. So one run answers the same question for both; properties named `All...`,
`FreeListSpec` and `ToggledStartsSynced` speak of the second instance too.

Definitions named `...Without...`, `...Ignoring...`, `...Forgotten` and the like are
faulty variants of the definition after them. No specification uses them. They record
which mistake each property is there to catch.

## 3. Runs

| Run | Instance | Shows |
|-----|----------|-------|
| `ring` | 2 buffers; a queue with 3 callers, capacity 1 and limit 3; a free list with 2 callers and limit 2 | ring consistent, no lost wake-up, bounded growth; the queue refines the ordered `BufferQueue`, the free list the unordered one |
| `pipeline_agent` | 1 Java thread with 3 events, an agent, 2 compression threads, adaptive | per-thread order, no buffer leaked, and `EventBuffers::flush` keeps its promise outside a safepoint |
| `pipeline_rotate` | 2 VM operations, rotation after one buffer; 1 Java and 1 GC thread with 2 compression threads, or 2 Java threads without compression (the default) and buffers of 2 events | marks split the trace with order barriers between them, no buffer leaked, clean rotation, complete shutdown |
| `pipeline_live` | queues of one buffer, 2 compression threads, adaptive, fair | VM operations end, buffers get written, halted threads resume |
| `rotation` | 2 requesters that collect, fair; or that also toggle and use JNI critical regions | what the prologue tested still holds in `doit`; one forced collection rotates; the file never stays too large; with toggling, Java threads run only with a file that starts with a synchronization or with a forced rotation still due |
| `reader` | every file of up to 3 buffers of 2 threads, room for 2 of them, and every file of up to 2 whose last is longer than the queue; 2 slaves, exceptions, cancelling, fair | heaps have one owner and none is stranded; order within threads and at sync buffers; clean-ups in time; `parse` returns only when complete; the queue keeps its limit; every thread ends, except for a buffer longer than the queue |
| `codec` | 4 bytes, 3 indexes, widths of 2 to 6 bits, two sizes of output; quyte: 2 buffers of up to 5 or of 8 bytes, LZW: 1 of up to 9 | the decompressor yields the original, unless a code is an index beyond the last, and stays in step |
| `sites` | 1 Java and 1 compiler thread, 2 classes, ranges of 5, zones at 50 and 25 per cent; six programs: unknown classes with inlining, identifiers that run out, unloading and reuse, an intrinsic compiled twice, an unknown class compiled twice, types that run out | events refer to records that are already written and true, with the one exception below; one record per class, after its super class's; keys stay different; records never change; the lock is released; fair |

Four runs show where the code departs from what is written about it:

- `pipeline_async_flush`: "Flush all event buffers of all threads"
  (`prims/jvmtiExtensions.cpp:177`). The flush is asynchronous, the wait that follows finds
  empty queues, and the call returns before anything was flushed.
- `rotation_locker`: "A single GC causes the trace to rotate!"
  (`prims/EventSynchronization.cpp:82`). Not if a JNI critical region is active.
- `codec_lzw`: "compress and decompress does not yield original!"
  (`runtime/thread.cpp:2037`) is the message of an assertion that paranoid builds make of
  every buffer. From the second buffer of a worker on it is not the original: nobody resets the dictionary of `LZWCompression` between buffers, and the decompressor starts
  each with an empty one. LZW is off by default.
- `sites_collect`: "Start GC if we are running out of allocation site ids and full GC was
  never active" (`prims/AllocationSites.cpp:146`). An exchange of a site for one with
  another type asks for the collection while it holds the table's lock. If the collection
  unloads a class loader, or a Java thread waits for that lock, it never takes place.

Other differences, without a run of their own:

- "should have been handled by prologue" (`prims/EventSynchronization.cpp:64`).
  `ToggleObjectTracing` runs its epilogue twice (`prims/AllocationTracing.cpp:233`), and
  the second time releases a lock that may be the synchronization thread's. A debug build
  stops at that unlock; a product build goes on to an unnecessary collection.
- "How many trace files to keep" (`runtime/globals.hpp:4064`). Names contain the time
  (`prims/AllocationTracingIO.cpp:85`), so old files are not overwritten.
- The reuse of a saved site is to give it the methods of the reloaded class, but assigns
  to a copy (`prims/AllocationSites.cpp:195-198`). A site whose type was unknown at the
  unloading and is patched later is then recorded from a method that is gone. The run
  `sites` reaches this; `EventsTold` admits it (`Stale`) and no other wrong record.
- `QuyteTreeCompression` gives out indexes without the limit `MAX_INDEX`
  (`prims/QuyteTreeCompression.cpp:164`), at which the decompressor stops registering. A
  buffer with such an index among its codes may be read wrongly, and `RoundTrip` leaves it
  out. With the real constants it needs more than 16128 codes.
- A buffer longer than `MAX_QUEUE_SIZE` makes the analyzer wait for ever, even when the
  user cancels (`TraceParser.java:297`). The queue has at least 50 kB, buffers of the VM at
  most 24 kB with the default options.
- Toggling restarts the type identifiers but leaves those that classes have
  (`prims/AllocatedTypes.cpp:43`).
- C2 asserts a small identifier where a type may deviate (`opto/macro.cpp:1243`), though
  a site the interpreter has met before may have a big one.
- "Maximum number of buffers to flush stored before threads are halted"
  (`runtime/globals.hpp:4013`). The ring doubles, so a limit that is not a power of two is
  overshot, which `CapacityBounded` bounds; the default of 256 is met exactly.
- "At which flush queue fill level compression is not used anymore"
  (`runtime/globals.hpp:4001`). The code compares the other way round (a busy writer leaves
  time to compress), as `MustCompress` does.

### Bounds

Three callers are the fewest with a producer, a consumer and a bystander that could
swallow a wake-up; the free list never makes producers or consumers wait and has two; capacity 1 and limit 3 make the ring wrap, grow while wrapped and
overshoot. Two compression threads are needed for two buffers to overtake each other
and for a barrier to have someone to wait for; two buffers per thread for an order to
exist; a queue of one or two buffers so that it fills.
Two Java threads meet in `pipeline_rotate` without compression, a Java, a GC and the VM
thread with it; a second Java thread there is beyond a short run. `MaxEvents` and `MaxOps`
bound the run, and `Quiet` is the only step left when they are reached, so that a deadlock
TLC reports is a real one. Sizes above `MaxSize` are not told apart, which no decision does.

Three buffers in a file suffice for a buffer before, at and after a barrier, or for two
buffers of one heap while a third is admitted. Room for two makes the reader wait. Nothing
is read after a buffer longer than the queue, so it is the last of its file, and one buffer
before it is enough to have a slave, a heap or a clean-up still at work.

Three indexes fill with the fourth code, and codes need more than one width. The buffers of
eight bytes begin so that all three are used up, after which the compressor gives out
indexes that the decompressor does not register; in some of them such an index is also
written. In `codec` the LZW worker has one buffer, as `codec_lzw` shows what a second one
does.

Three usable identifiers per range are enough to enter both zones and to run out; types
that start one below their limit run out with the super class. `code` of a program bounds
what is compiled: two compilations let the second find what the first left. The programs
with an intrinsic have a full collection behind them, because `sites_collect` shows the
other case, so `LockReleased` says nothing about that one.

The free list grows once, from one to two; that it also keeps its content when it grows
while wrapped, and larger, is left to the theorem `ListIsQueue`.

Callers and buffers of the ring are interchangeable, and `ring` uses that symmetry; no
other run does. Deadlock is not checked where the system may rest: all callers may be
asleep in a list, a worker may have no more buffers, and the VM may have ended or, in
`sites_collect`, hang.

### Fairness

Threads that can go on do (weak fairness): none of them is suspended for good, and the
monitors are native. In `TracePipeline` entering `critical` is strongly fair, since a
compression thread that finds a sync buffer it may not take leaves and re-enters the
section in a loop, so that it is free only for moments. In `EventSynchronization` the
prologue is strongly fair in getting `Heap_lock` because a HotSpot monitor queues its
waiters, and the VM thread because at a safepoint only finitely many buffers are left to
write. In `AllocationSites` a collection that someone waits for is strongly fair: the VM
thread stops Java threads at their next safepoint, so it does not need all of them to rest
by chance. In `TraceParser` the reader, the master and each slave are weakly fair. No
fairness is assumed for firing events in `TracePipeline`, for requesters, for starting VM
operations, for allocating or compiling, for unloading, or for cancelling.

## 4. Proofs

TLAPS checks these for every value of the constants, from the named assumption of each
module and what the last column adds:

| Theorem | Says | From |
|---------|------|------|
| `RingCorrect` | `Spec => [](TypeOK /\ RingInv)` | `ListAssumption` |
| `WakeupCorrect` | `Spec => []NoLostWakeup` | `ListAssumption` |
| `CapacityCorrect` | `Spec => []CapacityBounded` | `ListAssumption` |
| `ListIsQueue` | `Spec => QueueSpec`, the ring implements the queue | `ListAssumption` |
| `PrologueHolds` | `Spec => []PrologueStillHolds` | `SynchronizationAssumption`, no toggling |
| `GCRotates` | `Spec => []SingleGCRotates` | the same, no GC locker, `GCBuffers < Limit` |
| `StartsSynced` | `Spec => []SyncedStart` | `SynchronizationAssumption` |
| `HeapsAreOwned` | `Spec => []HeapOwned` | `ParserAssumption` |
| `NoHeapIsStranded` | `Spec => []NoneStranded` | `ParserAssumption` |
| `QuyteReaderInStep` | `Spec => []ReaderInStep` | `CodecAssumption`, only the quyte compressor |
| `QuyteRoundTrip` | `Spec => []RoundTrip` | the same |
| `KeysStayDifferent` | `Spec => []KeysDiffer` | `SitesAssumption` |
| `RecordsNeverChange` | `Spec => RecordsStable` | `SitesAssumption` |

### The ring

`RingInv` is not inductive: it describes the content by age, while steps change slots
by position, and it does not know that a pending enqueue carries a buffer. `IInv` in
`EventBufferListProofs` says which slots are occupied and that each holds a buffer;
`StoreOK` and `ResizeOK` show that storing and growing keep it, and `NextIInv` goes
through the actions. `WakeupCorrect` rests on two observations: a step that changes
the ring notifies everybody, and a step that does not leaves every waiting condition
as it was.

`EventBufferListRefines` shows what each operation does to the content:
`StoreAppends`, `DequeueTakesHead`, `GrownInOrder` for growth that copies the wrapped
part, and `GrownRotated` for the free list, whose growth may rotate the content. The
promise that a producer is halted only at a full backlog needs one more invariant, that
the capacity never shrinks.

### The rotation

Nothing in `PrologueStillHolds` says why no collection comes between the prologue and
its operation. `IInv` of `EventSynchronizationProofs` does: whoever has an operation
queued or executed has `Heap_lock` (`LockInv`), so the queue holds at most one operation
and none while the VM thread is busy (`VMInv`), and the size that the prologue tested can
only grow (`RotateInv`). Toggling breaks `LockInv`, because its second epilogue releases
a lock that is not its own; the theorem assumes it away, as the run does. For `GCRotates`
`CollectInv` bounds the file by what the events of the collection may still fill. The
run `rotation_locker` shows that the guarantee fails with the GC locker. `StartsSynced`
needs none of this and includes toggling: a file without a synchronization keeps
`forced` until a collection gets through (`StartInv`), which only the GC locker can prevent:
without it no thread is ever in a critical region (`Regions`). The run `rotation` checks it as
`ToggledStartsSynced`.

### The reader

A heap is protected by its state, not by a lock, so `HeapOwned` alone is not inductive.
`IInv` of `TraceParserProofs` says what each state means: a parked heap is neither queued
nor held, a queued one is in the master queue once or just taken, one in process is held
by one slave. That the heaps the master queues for a clean-up are parked (`MasterInv`)
makes those insertions safe, and `ParkedEmpty` is kept because a slave looks at the queue
again under the heap's lock before it parks.

### The codec

The codes cut a buffer into phrases. The string registered with the k-th code is the k-th
phrase and the first byte of the next (`Entry`), so every code means a byte or an earlier
entry (`Stream`). The decoder is one entry behind and has the same entries (`Decoding`).
The case of a code that names the entry about to be registered is the one step where both
sides have to be compared letter by letter. Widths agree because each code starts at the
width at which the one before ended (`Readable`). Beyond `MAX_INDEX` the decompressor no
longer registers strings, while the compressor goes on: the decoder's entries are then the
first ones of the encoder, which is all it needs as long as no code is an index beyond the
limit (`WithinIndexes`, the premise of `RoundTrip`).

### The sites

A site about to be written has no record. It is either new, and its identifier fresh,
because counters only go up until the VM ends itself (`TableInv`); or it was patched, and
had no type, while every recorded site has one (`RecordInv`). Both rest on the writer
having the table's lock (`CallOK`), and `OthersKept` shows once that a step of one thread
leaves what is known of the others true. Keys stay different because patching a key
narrows what it is equal to, a new key is made only after a search found nothing
(`NothingFound`), and an exchange replaces the one key that may be equal.

### Model-checked only

Liveness under fairness is outside the prover's reach. Of safety, these are
model-checked only: all properties of `TracePipeline`, the type invariants other than
the ring's, the order, isolation and completeness properties of the reader, `EventsTold`
and `TypesTold`, and everything about LZW.

## 5. Not modelled, and the plan

Not modelled, and not planned: self monitoring, the byte layout of events, the user
interfaces, scripts and benchmarks; they have no state that several actors share.
Synchronous output (`TraceObjectsAsyncIO` off) bypasses the pipeline. The limit of ten
entries in `in_process` is out of reach of a run, as it takes eleven compression threads
to meet it. The numbering of nodes in the quyte tree, mirrors, and addresses of methods
that are used again after unloading are abstracted away.

Next, in this order:

1. `GCEvents`: postponed space events, coalesced moves, the parallel tasks that describe
   the heap after a rotation; each object is to be reported exactly once. Chunking as a
   pure function against a reference definition. Pointer events after that.
2. `Lifecycle`: init, destroy and toggling composed with `TracePipeline` and
   `EventSynchronization`, including a trigger left over from before a shutdown,
   `flush_gc_threads` of concurrent collectors, and type identifiers after toggling.
3. The heap that the analyzer rebuilds: what evaluating an event does, and what the caller
   does with the workspace when `parse` was interrupted.
4. Removal of sites and classes, mirrors.
5. Proofs: exclusive owners in `in_process` and `ThreadOrder`, `BuffersAccounted`,
   `TypesTold`.
