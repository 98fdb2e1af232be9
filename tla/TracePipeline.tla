---------------------------- MODULE TracePipeline ----------------------------
(***************************************************************************)
(* The way of an event from the thread that fires it into the trace file:  *)
(* thread-local event buffers, the compression queue and its compression   *)
(* threads, the flush queue and the worker thread that writes, the free    *)
(* list, and the VM operations that flush, rotate and shut down.           *)
(*                                                                         *)
(* Sources: runtime/thread.cpp (flush_event_buffer, CompressionThread,     *)
(* EventsWorkerThread), prims/EventBuffers.cpp, EventBuffersFlushAll.cpp,  *)
(* EventsRuntime.cpp (firing and SyncBlockControl), EventsWriter.cpp,      *)
(* EventSynchronization.cpp and AllocationTracing.cpp (destroy).           *)
(*                                                                         *)
(* The queues are the ones EventBufferList.tla proves the ring to be: an   *)
(* enqueue on a full queue and a dequeue on an empty one wait, and the     *)
(* waiting ends as soon as the condition does.  An event is the number it  *)
(* has among the events of its thread and the number of GC marks fired     *)
(* before it.  What an event says is abstracted away.                      *)
(*                                                                         *)
(* A definition named after another one with ...Without..., ...Ignoring... *)
(* or the like is a faulty variant of it, used by no specification: it     *)
(* shows which mistake the properties would uncover.                       *)
(***************************************************************************)
EXTENDS Integers, Sequences, FiniteSets

CONSTANTS Mutators,    \* Java threads
          GCThreads,   \* GC task threads
          VM,          \* the VM thread
          Agents,      \* JVMTI agents that call FlushAllEventBuffers
          NC,          \* number of compression threads; 1 is the master
          Adaptive,    \* TraceObjectsCompressTraceAdaptively
          Threshold,   \* TraceObjectsCompressTraceAdaptiveThreshold, in buffers
          Backlog,     \* buffers a queue holds before producers wait
          BufferSize,  \* events per event buffer
          MaxFree,     \* buffers the free list keeps
          MaxTraceSize,\* buffers per trace file; 0: never rotate
          MaxEvents,   \* bound: events per thread
          MaxOps       \* bound: VM operations

ASSUME PipelineAssumption ==
  /\ {NC, Threshold, MaxFree, MaxTraceSize, MaxEvents, MaxOps} \subseteq Nat
  /\ {Backlog, BufferSize} \subseteq Nat \ {0}
  /\ Adaptive \in BOOLEAN
  /\ IsFiniteSet(Mutators) /\ IsFiniteSet(GCThreads)
  /\ Mutators \cap GCThreads = {} /\ VM \notin Mutators \cup GCThreads \cup Agents

VARIABLES buf,        \* Thread::_event_buffer
          fired,      \* events fired by each thread
          cont,       \* what a thread resumes after the flush it is in
          cq, fq,     \* compression queue, flush queue
          finalized,  \* the queues that are finalized
          crit,       \* compression thread inside `critical', or 0
          comp,       \* the compression threads
          in_process, \* owners whose buffer is being compressed
          worker,     \* the EventsWorkerThread
          free, live, \* buffers in the free list; buffers allocated
          trace,      \* events in the trace files, oldest first
          size, file, \* buffers in the current file; its index
          todo,       \* rest of the running VM operation
          ops,        \* VM operations begun
          marks,      \* GC marks fired
          asked,      \* an asynchronous FlushAll operation is queued
          flusher     \* callers of EventBuffers::flush

threads == <<buf, fired, cont>>
queues == <<cq, fq, finalized>>
compression == <<crit, comp, in_process>>
memory == <<free, live>>
output == <<trace, size, file>>
vm == <<todo, ops, marks, asked>>
vars == <<threads, queues, compression, worker, memory, output, vm, flusher>>

Threads == Mutators \cup GCThreads \cup {VM}
Compressors == 1..NC
Master == 1
Syncs == {"none", "order", "full"}

Dummy == [evs |-> <<>>, sync |-> "none"]
Buffer(t, b) == [owner |-> t, evs |-> b.evs, sync |-> b.sync]
NoBuffer == Buffer(VM, Dummy)

(* Events of a sequence of buffers, as EventsWriter lays them out. *)
Events(b) == [i \in 1..Len(b.evs) |-> [by |-> b.owner, n |-> b.evs[i][1], gc |-> b.evs[i][2]]]

-----------------------------------------------------------------------------
(* The free list creates a buffer when it is empty and destroys one when   *)
(* it is full, so neither call ever waits.                                 *)

TakeFree == IF free = 0 THEN free' = 0 /\ live' = live + 1
                        ELSE free' = free - 1 /\ live' = live
GiveFree == IF free = MaxFree THEN free' = free /\ live' = live - 1
                              ELSE free' = free + 1 /\ live' = live

HasRoomOffByOne == Len(IF NC > 0 THEN cq ELSE fq) <= Backlog

(* flush_event_buffer hands a buffer to compression, if it is in use. *)
HasRoom == Len(IF NC > 0 THEN cq ELSE fq) < Backlog
Enqueue(b) ==
  /\ HasRoom
  /\ IF NC > 0 THEN cq' = Append(cq, b) /\ fq' = fq
               ELSE fq' = Append(fq, b) /\ cq' = cq
  /\ UNCHANGED finalized

-----------------------------------------------------------------------------
(* Threads that fire events. *)

(* Java threads run between, GC threads during, VM operations. *)
MayRun(t) == \/ t \in Mutators /\ todo = <<>>
             \/ t \in GCThreads /\ todo # <<>> /\ Head(todo) = "work"

(* What a thread fires: an event; fire_sync(false) of a GC thread, which   *)
(* marks its buffer as an order barrier and flushes it; the death event of *)
(* a Java thread, after which its buffer is flushed for the last time.     *)
Kinds(t) == {"event"} \cup (IF t \in Mutators THEN {"exit"} ELSE {"sync"})

Sync(kind) == IF kind = "sync" THEN "order" ELSE "none"

(* What a thread does once its event is in the buffer. *)
After(kind) == [st |-> IF kind = "event" THEN "run" ELSE "flush", kind |-> kind]

NextEvent(t) == <<fired[t] + 1, marks>>

(* The event is the first one in a buffer from the free list. *)
FireIntoNew(t, kind) ==
  /\ TakeFree
  /\ buf' = [buf EXCEPT ![t] = [evs |-> <<NextEvent(t)>>, sync |-> Sync(kind)]]
  /\ fired' = [fired EXCEPT ![t] = @ + 1]
  /\ cont' = [cont EXCEPT ![t] = After(kind)]

(* fire_event: the event fits, or allocate_event has to get a new buffer.  *)
Fire(t, kind) ==
  /\ MayRun(t) /\ cont[t].st = "run"
  /\ fired[t] < MaxEvents
  /\ \/ /\ buf[t] = Dummy
        /\ FireIntoNew(t, kind)
     \/ /\ buf[t] # Dummy /\ Len(buf[t].evs) < BufferSize
        /\ buf' = [buf EXCEPT ![t] = [evs |-> Append(@.evs, NextEvent(t)),
                                      sync |-> Sync(kind)]]
        /\ fired' = [fired EXCEPT ![t] = @ + 1]
        /\ cont' = [cont EXCEPT ![t] = After(kind)]
        /\ UNCHANGED memory
     \/ /\ buf[t] # Dummy /\ Len(buf[t].evs) = BufferSize
        /\ cont' = [cont EXCEPT ![t] = [st |-> "refill", kind |-> kind]]
        /\ UNCHANGED <<buf, fired, memory>>
  /\ UNCHANGED <<queues, compression, worker, output, vm, flusher>>

(* flush_event_buffer(true) of the full buffer, and then the event. *)
Refill(t) ==
  /\ cont[t].st = "refill"
  /\ Enqueue(Buffer(t, buf[t]))
  /\ FireIntoNew(t, cont[t].kind)
  /\ UNCHANGED <<compression, worker, output, vm, flusher>>

(* flush_event_buffer(false) after a sync or a death event. *)
Flush(t) ==
  /\ cont[t].st = "flush"
  /\ Enqueue(Buffer(t, buf[t]))
  /\ buf' = [buf EXCEPT ![t] = Dummy]
  /\ cont' = [cont EXCEPT ![t].st = IF cont[t].kind = "exit" THEN "gone" ELSE "run"]
  /\ UNCHANGED <<fired, compression, worker, memory, output, vm, flusher>>

-----------------------------------------------------------------------------
(* CompressionThread::run.  `top' is the head of the loop, before the      *)
(* critical section; a thread that leaves the section without a buffer is  *)
(* back there, and idle.                                                   *)

Top == [pc |-> "top", idle |-> TRUE, hand |-> NoBuffer, spare |-> 0]

(* A new thread is not idle until it first reaches the head of the loop.   *)
Created == [Top EXCEPT !.pc = "start", !.idle = FALSE]

RunCompression(c) ==
  /\ comp[c] = Created
  /\ comp' = [comp EXCEPT ![c] = Top]
  /\ UNCHANGED <<threads, queues, crit, in_process, worker, memory, output, vm, flusher>>

Acquire(c) ==
  /\ comp[c].pc = "top" /\ crit = 0
  /\ crit' = c
  /\ comp' = [comp EXCEPT ![c].pc = "peek", ![c].idle = FALSE]
  /\ UNCHANGED <<threads, queues, in_process, worker, memory, output, vm, flusher>>

(* peek waits inside the critical section, flagged idle. *)
PeekWaits(c) ==
  /\ comp[c].pc = "peek" /\ ~comp[c].idle
  /\ cq = <<>> /\ "cq" \notin finalized
  /\ comp' = [comp EXCEPT ![c].idle = TRUE]
  /\ UNCHANGED <<threads, queues, crit, in_process, worker, memory, output, vm, flusher>>

(* The rest of the critical section, once peek returns. *)
Peek(c) ==
  /\ comp[c].pc = "peek"
  /\ \/ /\ "cq" \in finalized                        \* mode 2: end of thread
        /\ comp' = [comp EXCEPT ![c] = [Top EXCEPT !.pc = "exit", !.idle = FALSE]]
        /\ crit' = 0
        /\ UNCHANGED <<cq, in_process>>
     \/ /\ "cq" \notin finalized /\ cq # <<>>
        /\ LET b == Head(cq)
           IN  \/ /\ b.sync # "none" /\ c = Master   \* wait for the others
                  /\ comp' = [comp EXCEPT ![c].pc = "barrier", ![c].idle = FALSE]
                  /\ UNCHANGED <<crit, cq, in_process>>
               \/ /\ \/ b.sync # "none" /\ c # Master
                     \/ b.sync = "none" /\ b.owner \in in_process
                  /\ comp' = [comp EXCEPT ![c] = Top] \* mode 1: try again
                  /\ crit' = 0
                  /\ UNCHANGED <<cq, in_process>>
               \/ /\ b.sync = "none" /\ b.owner \notin in_process
                  /\ in_process' = in_process \cup {b.owner}
                  /\ cq' = Tail(cq)
                  /\ comp' = [comp EXCEPT ![c] = [pc |-> "process", idle |-> FALSE,
                                                  hand |-> b, spare |-> 0]]
                  /\ crit' = 0
  /\ UNCHANGED <<threads, fq, finalized, worker, memory, output, vm, flusher>>

BarrierWithoutWaiting(c) ==
  /\ comp[c].pc = "barrier"
  /\ comp' = [comp EXCEPT ![c].pc = "sync", ![c].hand = Head(cq)]
  /\ cq' = Tail(cq)
  /\ UNCHANGED <<threads, fq, finalized, crit, in_process, worker, memory, output, vm, flusher>>

(* The master takes a sync buffer once every other thread is idle.  They   *)
(* stay idle, because they need the critical section to go on.             *)
Barrier(c) ==
  /\ comp[c].pc = "barrier"
  /\ \A d \in Compressors \ {c} : comp[d].idle
  /\ comp' = [comp EXCEPT ![c].pc = "sync", ![c].hand = Head(cq)]
  /\ cq' = Tail(cq)
  /\ UNCHANGED <<threads, fq, finalized, crit, in_process, worker, memory, output, vm, flusher>>

FlushSyncWithoutLeaving(c) ==
  /\ comp[c].pc = "sync" /\ Len(fq) < Backlog
  /\ fq' = Append(fq, comp[c].hand)
  /\ comp' = [comp EXCEPT ![c] = Top]
  /\ UNCHANGED <<threads, cq, finalized, crit, in_process, worker, memory, output, vm, flusher>>

FlushSync(c) ==
  /\ comp[c].pc = "sync" /\ Len(fq) < Backlog
  /\ fq' = Append(fq, comp[c].hand)
  /\ comp' = [comp EXCEPT ![c] = Top]
  /\ crit' = 0
  /\ UNCHANGED <<threads, cq, finalized, in_process, worker, memory, output, vm, flusher>>

(* must_compress: always, or what evaluateCompression can return: measured *)
(* times may speak for compression while the compression queue is short.   *)
MustCompress ==
  IF ~Adaptive THEN {TRUE}
  ELSE {Len(fq) > Threshold} \cup (IF Len(cq) > Threshold THEN {} ELSE {TRUE})

CompressReleasingOwner(c) ==
  /\ comp[c].pc = "process"
  /\ comp' = [comp EXCEPT ![c].pc = "out", ![c].spare = 1]
  /\ in_process' = in_process \ {comp[c].hand.owner}
  /\ TakeFree
  /\ UNCHANGED <<threads, queues, crit, worker, output, vm, flusher>>

(* Compressing takes a second buffer; encode may fail for lack of room, so *)
(* either buffer may be the one to go on, with the same events.            *)
Compress(c) ==
  /\ comp[c].pc = "process"
  /\ \E must \in MustCompress :
       /\ comp' = [comp EXCEPT ![c].pc = "out", ![c].spare = IF must THEN 1 ELSE 0]
       /\ IF must THEN TakeFree ELSE UNCHANGED memory
  /\ UNCHANGED <<threads, queues, crit, in_process, worker, output, vm, flusher>>

FlushOutWithoutRecycling(c) ==
  /\ comp[c].pc = "out" /\ Len(fq) < Backlog
  /\ fq' = Append(fq, comp[c].hand)
  /\ comp' = [comp EXCEPT ![c].pc = "remove", ![c].spare = 0]
  /\ UNCHANGED <<threads, cq, finalized, crit, in_process, worker, memory, output, vm, flusher>>

FlushOut(c) ==
  /\ comp[c].pc = "out" /\ Len(fq) < Backlog
  /\ fq' = Append(fq, comp[c].hand)
  /\ IF comp[c].spare = 1 THEN GiveFree ELSE UNCHANGED memory
  /\ comp' = [comp EXCEPT ![c].pc = "remove", ![c].spare = 0]
  /\ UNCHANGED <<threads, cq, finalized, crit, in_process, worker, output, vm, flusher>>

RemoveInProcessForgotten(c) ==
  /\ comp[c].pc = "remove"
  /\ comp' = [comp EXCEPT ![c] = Top]
  /\ UNCHANGED <<threads, queues, crit, in_process, worker, memory, output, vm, flusher>>

RemoveInProcess(c) ==
  /\ comp[c].pc = "remove"
  /\ in_process' = in_process \ {comp[c].hand.owner}
  /\ comp' = [comp EXCEPT ![c] = Top]
  /\ UNCHANGED <<threads, queues, crit, worker, memory, output, vm, flusher>>

-----------------------------------------------------------------------------
(* EventsWorkerThread::run *)

WorkerWaitsWithoutIdle ==
  /\ worker.pc = "dequeue" /\ ~worker.idle
  /\ fq = <<>> /\ "fq" \notin finalized
  /\ UNCHANGED vars

WorkerWaits ==
  /\ worker.pc = "dequeue" /\ ~worker.idle
  /\ fq = <<>> /\ "fq" \notin finalized
  /\ worker' = [worker EXCEPT !.idle = TRUE]
  /\ UNCHANGED <<threads, queues, compression, memory, output, vm, flusher>>

WorkerDequeues ==
  /\ worker.pc = "dequeue"
  /\ \/ /\ "fq" \in finalized
        /\ worker' = [worker EXCEPT !.pc = "exit", !.idle = FALSE]
        /\ UNCHANGED fq
     \/ /\ "fq" \notin finalized /\ fq # <<>>
        /\ worker' = [pc |-> "write", idle |-> FALSE, hand |-> Head(fq)]
        /\ fq' = Tail(fq)
  /\ UNCHANGED <<threads, cq, finalized, compression, memory, output, vm, flusher>>

WorkerWritesWithoutRecycling ==
  /\ worker.pc = "write"
  /\ trace' = trace \o Events(worker.hand)
  /\ size' = size + 1
  /\ worker' = [pc |-> "dequeue", idle |-> FALSE, hand |-> NoBuffer]
  /\ UNCHANGED <<threads, queues, compression, memory, file, vm, flusher>>

(* EventsWriter::write_buffer resets the buffer, which goes to the free    *)
(* list.                                                                   *)
WorkerWrites ==
  /\ worker.pc = "write"
  /\ trace' = trace \o Events(worker.hand)
  /\ size' = size + 1
  /\ GiveFree
  /\ worker' = [pc |-> "dequeue", idle |-> FALSE, hand |-> NoBuffer]
  /\ UNCHANGED <<threads, queues, compression, file, vm, flusher>>

-----------------------------------------------------------------------------
(* EventBuffers::flush (wait_for_all_serialized), called by the VM thread  *)
(* at a safepoint and by a JVMTI agent outside of one.  The agent's thread *)
(* is in the VM and does not poll, so no safepoint begins meanwhile.       *)

(* Events of thread t that left its buffer, and those that were written.   *)
Handed(t) == fired[t] - Len(buf[t].evs)
Written(t) == Cardinality({i \in 1..Len(trace) : trace[i].by = t})

Flushers == Agents \cup {VM}
NotFlushing == [at |-> "none", next |-> 1, promise |-> [t \in Threads |-> 0],
                wanted |-> [t \in Threads |-> 0]]

(* FlushAllEventBuffers first calls begin_flush_all: the VM operation that *)
(* flushes is queued, and runs some time later.                            *)
AgentAsks(x) ==
  /\ flusher[x].at = "none" /\ todo = <<>>
  /\ asked' = TRUE
  /\ flusher' = [flusher EXCEPT ![x].at = "asked", ![x].wanted = fired]
  /\ UNCHANGED <<threads, queues, compression, worker, memory, output, todo, ops, marks>>

FlushBegins(x) ==
  /\ IF x = VM THEN flusher[x].at = "none" /\ todo # <<>> /\ Head(todo) = "wait"
               ELSE flusher[x].at = "asked" /\ todo = <<>>
  /\ flusher' = [flusher EXCEPT ![x].at = "cq", ![x].next = 1,
                                ![x].promise = [t \in Threads |-> Handed(t)]]
  /\ UNCHANGED <<threads, queues, compression, worker, memory, output, vm>>

FlushAdvancesIgnoringWorker(x) ==
  /\ LET f == flusher[x]
     IN  \/ /\ f.at = "cq" /\ cq = <<>>
            /\ flusher' = [flusher EXCEPT ![x].at = "comp"]
         \/ /\ f.at = "comp" /\ \A c \in Compressors : comp[c].idle
            /\ flusher' = [flusher EXCEPT ![x].at = "fq"]
         \/ /\ f.at = "fq" /\ fq = <<>>
            /\ flusher' = [flusher EXCEPT ![x].at = "done"]
  /\ UNCHANGED <<threads, queues, compression, worker, memory, output, vm>>

FlushAdvancesIgnoringCompressors(x) ==
  /\ LET f == flusher[x]
     IN  \/ /\ f.at = "cq" /\ cq = <<>>
            /\ flusher' = [flusher EXCEPT ![x].at = "fq"]
         \/ /\ f.at = "fq" /\ fq = <<>>
            /\ flusher' = [flusher EXCEPT ![x].at = "worker"]
         \/ /\ f.at = "worker" /\ worker.idle
            /\ flusher' = [flusher EXCEPT ![x].at = "done"]
  /\ UNCHANGED <<threads, queues, compression, worker, memory, output, vm>>

(* The waits one after the other: compression queue empty, each thread     *)
(* idle in turn, flush queue empty, worker idle.                           *)
FlushAdvances(x) ==
  /\ LET f == flusher[x]
     IN  \/ /\ f.at = "cq" /\ cq = <<>>
            /\ flusher' = [flusher EXCEPT ![x].at = "comp"]
         \/ /\ f.at = "comp" /\ f.next \in Compressors /\ comp[f.next].idle
            /\ flusher' = [flusher EXCEPT ![x].next = @ + 1]
         \/ /\ f.at = "comp" /\ f.next \notin Compressors
            /\ flusher' = [flusher EXCEPT ![x].at = "fq"]
         \/ /\ f.at = "fq" /\ fq = <<>>
            /\ flusher' = [flusher EXCEPT ![x].at = "worker"]
         \/ /\ f.at = "worker" /\ worker.idle
            /\ flusher' = [flusher EXCEPT ![x].at = "done"]
  /\ UNCHANGED <<threads, queues, compression, worker, memory, output, vm>>

-----------------------------------------------------------------------------
(* VM operations, as the list of the steps they take at the safepoint.     *)

ShouldRotate == MaxTraceSize > 0 /\ size >= MaxTraceSize

(* fire_gc_start, the collection, fire_gc_end.  A collection that may      *)
(* rotate the trace does so first if the file is large enough; one that    *)
(* may not only flushes.                                                   *)
Collection == <<"flush", "mark", "work", "flush", "mark">>
Collections == IF ShouldRotate
               THEN {<<"flush", "wait", "reset">> \o Collection, <<"flush">> \o Collection}
               ELSE {Collection}

DestroyWithoutWaiting ==
  <<"flush">> \o (IF NC > 0 THEN <<"finalize_cq", "join_compression">> ELSE <<>>)
  \o <<"finalize_fq", "join_worker", "delete", "dead">>

(* AllocationTracing::destroy *)
Destroy == <<"flush", "wait">>
           \o (IF NC > 0 THEN <<"finalize_cq", "join_compression">> ELSE <<>>)
           \o <<"finalize_fq", "join_worker", "delete", "dead">>

(* FlushAllEventBuffersVMOperation *)
FlushAll == <<"flush">>

AtSafepoint == /\ \A t \in Mutators : cont[t].st \in {"run", "gone"}
               /\ \A x \in Agents : flusher[x].at \in {"none", "asked", "done"}

VMBegins(op) ==
  /\ todo = <<>> /\ AtSafepoint
  /\ ops < MaxOps
  /\ ops' = ops + 1
  /\ todo' = op
  /\ UNCHANGED <<threads, queues, compression, worker, memory, output, marks, asked, flusher>>

VMFlushesAll ==
  /\ todo = <<>> /\ AtSafepoint
  /\ asked /\ asked' = FALSE
  /\ todo' = FlushAll
  /\ UNCHANGED <<threads, queues, compression, worker, memory, output, ops, marks, flusher>>

VMAt(step) == todo # <<>> /\ Head(todo) = step
Pop == todo' = Tail(todo)

(* flush_all visits every thread and the caller last; at a safepoint this  *)
(* leaves every thread with a dummy buffer.                                *)
VMFlushes(t) ==
  /\ VMAt("flush") /\ buf[t] # Dummy
  /\ Enqueue(Buffer(t, buf[t]))
  /\ buf' = [buf EXCEPT ![t] = Dummy]
  /\ UNCHANGED <<fired, cont, compression, worker, memory, output, vm, flusher>>

VMFlushed ==
  /\ VMAt("flush") /\ \A t \in Threads : buf[t] = Dummy
  /\ Pop
  /\ UNCHANGED <<threads, queues, compression, worker, memory, output, ops, marks, asked, flusher>>

(* fire_gc_start_end after the flush_all of its SyncBlockControl: the      *)
(* event in a buffer of its own, which is a full barrier.                  *)
VMMarks ==
  /\ VMAt("mark")
  /\ TakeFree
  /\ fired' = [fired EXCEPT ![VM] = @ + 1]
  /\ marks' = marks + 1
  /\ Enqueue([owner |-> VM, evs |-> <<<<fired[VM] + 1, marks + 1>>>>, sync |-> "full"])
  /\ Pop
  /\ UNCHANGED <<buf, cont, compression, worker, output, ops, asked, flusher>>

VMWorked ==
  /\ VMAt("work") /\ \A t \in GCThreads : cont[t].st = "run"
  /\ Pop
  /\ UNCHANGED <<threads, queues, compression, worker, memory, output, ops, marks, asked, flusher>>

VMWaited ==
  /\ VMAt("wait") /\ flusher[VM].at = "done"
  /\ Pop
  /\ flusher' = [flusher EXCEPT ![VM] = NotFlushing]
  /\ UNCHANGED <<threads, queues, compression, worker, memory, output, ops, marks, asked>>

(* AllocationTracingIO::reset *)
VMResets ==
  /\ VMAt("reset")
  /\ file' = file + 1
  /\ size' = 0
  /\ Pop
  /\ UNCHANGED <<threads, queues, compression, worker, memory, trace, ops, marks, asked, flusher>>

(* interrupt_and_join finalizes a queue and waits for its threads to end. *)
VMFinalizes ==
  /\ \/ VMAt("finalize_cq") /\ finalized' = finalized \cup {"cq"}
     \/ VMAt("finalize_fq") /\ finalized' = finalized \cup {"fq"}
  /\ Pop
  /\ UNCHANGED <<threads, cq, fq, compression, worker, memory, output, ops, marks, asked, flusher>>

VMJoins ==
  /\ \/ VMAt("join_compression") /\ \A c \in Compressors : comp[c].pc = "exit"
     \/ VMAt("join_worker") /\ worker.pc = "exit"
  /\ Pop
  /\ UNCHANGED <<threads, queues, compression, worker, memory, output, ops, marks, asked, flusher>>

(* EventBuffers::destroy *)
VMDeletes ==
  /\ VMAt("delete")
  /\ live' = live - free
  /\ free' = 0
  /\ Pop
  /\ UNCHANGED <<threads, queues, compression, worker, output, ops, marks, asked, flusher>>

(* Nothing is under way; the bounds may have stopped the system here. *)
Quiet ==
  /\ todo \in {<<>>, <<"dead">>}
  /\ cq = <<>> /\ fq = <<>>
  /\ \A t \in Threads : cont[t].st \in {"run", "gone"}
  /\ \A x \in Flushers : flusher[x].at \in {"none", "asked", "done"}
  /\ UNCHANGED vars

-----------------------------------------------------------------------------

Init ==
  /\ buf = [t \in Threads |-> Dummy]
  /\ fired = [t \in Threads |-> 0]
  /\ cont = [t \in Threads |-> After("event")]
  /\ cq = <<>> /\ fq = <<>> /\ finalized = {}
  /\ crit = 0
  /\ comp = [c \in Compressors |-> Created]
  /\ in_process = {}
  /\ worker = [pc |-> "dequeue", idle |-> FALSE, hand |-> NoBuffer]
  /\ free = 0 /\ live = 0
  /\ trace = <<>> /\ size = 0 /\ file = 0
  /\ todo = <<>> /\ ops = 0 /\ marks = 0 /\ asked = FALSE
  /\ flusher = [x \in Flushers |-> NotFlushing]

ThreadStep(t) == Refill(t) \/ Flush(t)
CompressorStep(c) == \/ RunCompression(c) \/ PeekWaits(c) \/ Peek(c) \/ Barrier(c) \/ FlushSync(c)
                     \/ Compress(c) \/ FlushOut(c) \/ RemoveInProcess(c)
WorkerStep == WorkerWaits \/ WorkerDequeues \/ WorkerWrites
VMStep == \/ \E t \in Threads : VMFlushes(t)
          \/ VMFlushed \/ VMMarks \/ VMWorked \/ VMWaited \/ VMResets
          \/ VMFinalizes \/ VMJoins \/ VMDeletes

Next ==
  \/ \E t \in Threads : ThreadStep(t) \/ \E kind \in Kinds(t) : Fire(t, kind)
  \/ \E c \in Compressors : Acquire(c) \/ CompressorStep(c)
  \/ WorkerStep
  \/ \E x \in Agents : AgentAsks(x)
  \/ \E x \in Flushers : FlushBegins(x) \/ FlushAdvances(x)
  \/ VMStep
  \/ \E op \in Collections \cup {Destroy} : VMBegins(op)
  \/ VMFlushesAll
  \/ Quiet

Spec == Init /\ [][Next]_vars

(* Every thread that can go on does.  The critical section needs strong    *)
(* fairness: a compression thread that finds a sync buffer it may not take *)
(* leaves and re-enters it again and again, so the section is only ever    *)
(* free for moments; the native monitor hands it to a waiting thread.      *)
FairSpec ==
  /\ Spec
  /\ \A t \in Threads : WF_vars(ThreadStep(t))
  /\ \A c \in Compressors : WF_vars(CompressorStep(c)) /\ SF_vars(Acquire(c))
  /\ WF_vars(WorkerStep)
  /\ WF_vars(FlushBegins(VM))
  /\ \A x \in Flushers : WF_vars(FlushAdvances(x))
  /\ WF_vars(VMStep)

-----------------------------------------------------------------------------
(* Properties *)

EventLists == Seq(Nat \X Nat)
Steps == {"flush", "wait", "mark", "work", "reset", "finalize_cq", "join_compression",
          "finalize_fq", "join_worker", "delete", "dead"}
Bufs == [evs : EventLists, sync : Syncs]
OwnedBufs == [owner : Threads, evs : EventLists, sync : Syncs]

Conts == [st : {"run", "refill", "flush", "gone"}, kind : {"event", "sync", "exit"}]
Hands == [pc : {"start", "top", "peek", "barrier", "sync", "process", "out", "remove", "exit"},
          idle : BOOLEAN, hand : OwnedBufs, spare : {0, 1}]

(* A compression thread has a buffer; it has an owner in process. *)
Busy(c) == comp[c].pc \in {"process", "out", "sync"}
Owning(c) == comp[c].pc \in {"process", "out", "remove"}

TypeThreads == /\ buf \in [Threads -> Bufs]
               /\ fired \in [Threads -> Nat]
               /\ cont \in [Threads -> Conts]
TypeQueues == /\ cq \in Seq(OwnedBufs) /\ Len(cq) <= Backlog
              /\ fq \in Seq(OwnedBufs) /\ Len(fq) <= Backlog
              /\ finalized \subseteq {"cq", "fq"}
TypeComp == crit \in 0..NC /\ comp \in [Compressors -> Hands]
TypeInProcess == in_process = {comp[c].hand.owner : c \in {d \in Compressors : Owning(d)}}
TypeWorker == worker \in [pc : {"dequeue", "write", "exit"}, idle : BOOLEAN, hand : OwnedBufs]
TypeMemory == free \in 0..MaxFree /\ live \in Nat
TypeOutput == trace \in Seq([by : Threads, n : Nat, gc : Nat]) /\ size \in Nat /\ file \in Nat
TypeVM == todo \in Seq(Steps) /\ ops \in Nat /\ marks \in Nat /\ asked \in BOOLEAN
TypeFlusher ==
  flusher \in [Flushers -> [at : {"none", "asked", "cq", "comp", "fq", "worker", "done"},
                            next : Nat, promise : [Threads -> Nat],
                            wanted : [Threads -> Nat]]]

(* Type correctness, and the halting of producers: neither queue ever      *)
(* holds more than its limit, and only the owners of buffers that some     *)
(* compression thread works on are in process.                             *)
TypeOK == /\ TypeThreads /\ TypeQueues /\ TypeComp /\ TypeInProcess /\ TypeWorker
          /\ TypeMemory /\ TypeOutput /\ TypeVM /\ TypeFlusher

(* Each thread's events reach the trace once, in the order it fired them   *)
(* and without gaps, although several compression threads work on buffers  *)
(* at the same time (in_process) and buffers are split and recycled.       *)
ThreadOrder ==
  \A i \in 1..Len(trace) :
    trace[i].n = Cardinality({j \in 1..i : trace[j].by = trace[i].by})

(* A GC mark (Sync_Full) splits the trace: every event fired before it     *)
(* stands before it, every event fired after it stands after it, whichever *)
(* thread fired it and whichever compression thread handled it.            *)
MarksSplitTrace ==
  \A i, j \in 1..Len(trace) : i < j =>
    /\ trace[i].gc <= trace[j].gc
    /\ trace[j].by = VM => trace[i].gc < trace[j].gc

(* EventBuffers::flush keeps its promise: when it returns, every event     *)
(* that had left its thread's buffer at the call is in the trace file.     *)
FlushPromise ==
  \A x \in Flushers : flusher[x].at = "done" =>
    \A t \in Threads : Written(t) >= flusher[x].promise[t]

(* "Flush all event buffers of all threads": prims/jvmtiExtensions.cpp on  *)
(* FlushAllEventBuffers.  When it returns, what had been fired before the  *)
(* call is in the trace file.                                              *)
AgentFlushesAll ==
  \A x \in Agents : flusher[x].at = "done" =>
    \A t \in Threads : Written(t) >= flusher[x].wanted[t]

InHand == Cardinality({c \in Compressors : Busy(c)})
          + Cardinality({c \in Compressors : comp[c].spare = 1})
          + (IF worker.pc = "write" THEN 1 ELSE 0)

(* No event buffer is leaked or used twice: the buffers allocated are the  *)
(* ones that threads, queues, compression threads, the worker and the free *)
(* list hold.                                                              *)
BuffersAccounted ==
  live = Cardinality({t \in Threads : buf[t] # Dummy}) + Len(cq) + Len(fq) + InHand + free

(* start_synchronization changes the trace file only when everything fired *)
(* so far is in the old one: no buffer is on its way across the rotation.  *)
RotationIsClean ==
  [][file' # file => /\ cq = <<>> /\ fq = <<>> /\ InHand = 0
                     /\ \A t \in Threads : Written(t) = fired[t]]_vars

(* destroy ends with every event written, no buffer left allocated, and no *)
(* thread that could still use the deleted queues.                         *)
ShutdownComplete ==
  todo = <<"dead">> =>
    /\ \A t \in Threads : Written(t) = fired[t]
    /\ live = 0
    /\ worker.pc = "exit" /\ \A c \in Compressors : comp[c].pc = "exit"

(* Every VM operation ends: flushing, rotating and joining the threads     *)
(* never wait for something that does not come.                            *)
OperationsEnd == (todo # <<>>) ~> (todo \in {<<>>, <<"dead">>})

(* Whatever leaves a thread's buffer is eventually written. *)
HandedIsWritten ==
  \A t \in Threads, n \in 1..MaxEvents :
    (Handed(t) >= n) ~> (Written(t) >= n)

(* A thread halted at a full queue resumes. *)
HaltedResume ==
  \A t \in Threads : (cont[t].st \in {"refill", "flush"}) ~> (cont[t].st \in {"run", "gone"})
=============================================================================
