------------------------ MODULE EventSynchronization ------------------------
(***************************************************************************)
(* prims/EventSynchronization.cpp: when and how the trace changes to a new *)
(* file.  A file that has grown too large is left in a collection, which   *)
(* then also writes the state the new file starts from.  Any collection    *)
(* does this; a thread of its own forces one when none comes by itself.    *)
(*                                                                         *)
(* The collector is the parallel one (the only one that tracing can be     *)
(* toggled with).  Sizes count buffers; how a buffer gets to the worker    *)
(* thread is the subject of TracePipeline, which also shows that nothing   *)
(* is on its way when the file is changed.                                 *)
(*                                                                         *)
(* Definitions named ...Without... or ...Leaking... are faulty variants of *)
(* the definition that follows them; no action uses them.                  *)
(***************************************************************************)
EXTENDS Integers, Sequences

CONSTANTS Requesters,  \* Java threads that request VM operations
          Limit,       \* TraceObjectsMaxTraceSize per file, in buffers
          Epsilon,     \* what TraceObjectsTraceSizeMaxDeviation adds to it
          OnMinor,     \* TraceObjectsMaxTraceSizeSynchronizeOnMinor
          GCBuffers,   \* buffers that the events of one collection fill
          Locker,      \* TRUE: JNI critical regions are used
          Toggles,     \* TraceObjectsToggleAtRunTime
          MaxFiles,    \* EventsWriter's file count
          MaxSize      \* bound: sizes above are not told apart

ASSUME SynchronizationAssumption ==
  /\ "sync" \notin Requesters /\ "free" \notin Requesters
  /\ {Limit, MaxFiles} \subseteq Nat \ {0}
  /\ {Epsilon, GCBuffers} \subseteq Nat
  /\ MaxSize \in Nat /\ Limit + Epsilon < MaxSize
  /\ {OnMinor, Locker, Toggles} \subseteq BOOLEAN

VARIABLES size,       \* of the current trace file
          slot,       \* its index modulo MaxFiles
          tracing,    \* TraceObjects; there is a trace writer
          forced, type,
          synced,     \* the current file starts with a synchronization
          checking,   \* worker between write_buffer and check_trigger_rotate
          triggered,  \* EventSynchronizationThread::triggered
          sync,       \* where EventSynchronizationThread::run is
          request,    \* where each requester is
          heap_lock,  \* owner of Heap_lock
          vmq,        \* VM operation queue
          vm,         \* the VM thread
          needs_gc    \* GC_locker: a collection was declined

writer == <<size, slot, synced>>
rotation == <<forced, type>>
thread == <<triggered, sync>>
vars == <<writer, tracing, rotation, checking, thread, request, heap_lock, vmq, vm, needs_gc>>

Idle == [at |-> "idle", by |-> "free", kind |-> "none", quota |-> 0]
Kinds == {"minor", "major"} \cup (IF Toggles THEN {"toggle"} ELSE {})
                            \cup (IF Locker THEN {"locker"} ELSE {})

(* GC_locker::is_active *)
locked == \E r \in Requesters : request[r] = "critical"

should_rotate(epsilon) == forced \/ size >= Limit + epsilon

-----------------------------------------------------------------------------
(* The worker thread *)

(* EventsWorkerThread::run writes a buffer.  Once a collection runs, only  *)
(* its own events are still to be written.                                 *)
write_buffer ==
  /\ tracing /\ ~checking
  /\ vm.at \in {"gc", "done"} => vm.quota > 0
  /\ size' = IF size < MaxSize THEN size + 1 ELSE size
  /\ vm' = IF vm.at \in {"gc", "done"} THEN [vm EXCEPT !.quota = @ - 1] ELSE vm
  /\ checking' = TRUE
  /\ UNCHANGED <<slot, synced, tracing, rotation, thread, request,
                 heap_lock, vmq, needs_gc>>

(* get_instance creates the thread when it is first needed. *)
check_trigger_rotate ==
  /\ checking
  /\ checking' = FALSE
  /\ IF should_rotate(Epsilon)
     THEN /\ triggered' = TRUE
          /\ sync' = IF sync = "unborn" THEN "loop" ELSE sync
     ELSE UNCHANGED thread
  /\ UNCHANGED <<writer, tracing, rotation, request, heap_lock, vmq, vm, needs_gc>>

-----------------------------------------------------------------------------
(* EventSynchronizationThread::run.  Its monitor is released during the    *)
(* operation and while it waits, so that trigger() never has to wait long. *)

SyncWakes ==
  /\ sync = "loop" /\ triggered
  /\ sync' = "prologue"
  /\ UNCHANGED <<writer, tracing, rotation, checking, triggered, request,
                 heap_lock, vmq, vm, needs_gc>>

PrologueWithoutLock ==
  /\ sync = "prologue" /\ heap_lock = "free" /\ tracing
  /\ sync' = IF should_rotate(0) THEN "add" ELSE "reset"
  /\ UNCHANGED <<writer, tracing, rotation, checking, triggered, request,
                 heap_lock, vmq, vm, needs_gc>>

PrologueLeakingLock ==
  /\ sync = "prologue" /\ heap_lock = "free" /\ tracing
  /\ heap_lock' = "sync"
  /\ sync' = IF should_rotate(0) THEN "add" ELSE "reset"
  /\ UNCHANGED <<writer, tracing, rotation, checking, triggered, request,
                 vmq, vm, needs_gc>>

(* doit_prologue takes Heap_lock and keeps it if the trace has to rotate;  *)
(* otherwise the operation is deleted, which releases the lock.  Reading   *)
(* the size of a deleted writer ends the process.                          *)
Prologue ==
  /\ sync = "prologue" /\ heap_lock = "free"
  /\ \/ /\ tracing \/ forced
        /\ should_rotate(0)
        /\ heap_lock' = "sync" /\ sync' = "add"
     \/ /\ tracing /\ ~should_rotate(0)
        /\ heap_lock' = heap_lock /\ sync' = "reset"
     \/ /\ ~tracing /\ ~forced
        /\ heap_lock' = "sync" /\ sync' = "crashed"
  /\ UNCHANGED <<writer, tracing, rotation, checking, triggered, request,
                 vmq, vm, needs_gc>>

(* VMThread::execute: the operation is queued, and completed. *)
SyncAdds ==
  /\ sync = "add"
  /\ vmq' = Append(vmq, [by |-> "sync", kind |-> IF OnMinor THEN "minor" ELSE "major"])
  /\ sync' = "queued"
  /\ UNCHANGED <<writer, tracing, rotation, checking, triggered, request,
                 heap_lock, vm, needs_gc>>

(* doit_epilogue, and the destructor after it, release only one's own lock. *)
SyncEpilogue ==
  /\ sync = "epilogue"
  /\ heap_lock' = IF heap_lock = "sync" THEN "free" ELSE heap_lock
  /\ sync' = "reset"
  /\ UNCHANGED <<writer, tracing, rotation, checking, triggered, request,
                 vmq, vm, needs_gc>>

(* A trigger that came during the operation is lost here. *)
SyncResets ==
  /\ sync = "reset"
  /\ triggered' = FALSE
  /\ sync' = "loop"
  /\ UNCHANGED <<writer, tracing, rotation, checking, request, heap_lock,
                 vmq, vm, needs_gc>>

-----------------------------------------------------------------------------
(* Java threads that request a collection or toggle tracing.  Unlike the   *)
(* worker and the synchronization thread they do not run at a safepoint.   *)

(* doit_prologue of VM_GC_Operation and of ToggleObjectTracing. *)
Request(r, kind) ==
  /\ vm.at = "idle"
  /\ request[r] = (IF kind = "locker" THEN "last" ELSE "none") /\ heap_lock = "free"
  /\ heap_lock' = r
  /\ vmq' = Append(vmq, [by |-> r, kind |-> kind])
  /\ request' = [request EXCEPT ![r] = "queued"]
  /\ UNCHANGED <<writer, tracing, rotation, checking, thread, vm, needs_gc>>

(* The collection of the GC locker is skipped when a full one overtook it. *)
Skip(r) ==
  /\ vm.at = "idle"
  /\ request[r] = "overtaken" /\ heap_lock = "free"
  /\ request' = [request EXCEPT ![r] = "none"]
  /\ needs_gc' = FALSE
  /\ UNCHANGED <<writer, tracing, rotation, checking, thread, heap_lock, vmq, vm>>

(* The epilogues.  That of ToggleObjectTracing runs a second time, in the  *)
(* destructor, and looks only at whether the lock is held.                 *)
Epilogue(r) ==
  /\ vm.at = "idle"
  /\ request[r] \in {"epilogue", "collected", "toggled", "destructor"}
  /\ heap_lock' = "free"
  /\ request' = [request EXCEPT ![r] = IF @ = "toggled" THEN "destructor" ELSE "none"]
  /\ needs_gc' = (needs_gc /\ request[r] # "collected")
  /\ UNCHANGED <<writer, tracing, rotation, checking, thread, vmq, vm>>

(* A Java thread enters a JNI critical region.  Once a collection has been *)
(* declined, it waits until the last thread to leave has collected.        *)
lock_critical(r) ==
  /\ Locker /\ vm.at = "idle"
  /\ request[r] = "none" /\ ~needs_gc
  /\ request' = [request EXCEPT ![r] = "critical"]
  /\ UNCHANGED <<writer, tracing, rotation, checking, thread, heap_lock, vmq, vm, needs_gc>>

unlock_critical(r) ==
  /\ vm.at = "idle" /\ request[r] = "critical"
  /\ LET last == \A q \in Requesters \ {r} : request[q] # "critical" IN
     request' = [request EXCEPT ![r] = IF needs_gc /\ last THEN "last" ELSE "none"]
  /\ UNCHANGED <<writer, tracing, rotation, checking, thread, heap_lock, vmq, vm, needs_gc>>

-----------------------------------------------------------------------------
(* The VM thread *)

(* A thread that returns from its operation is in the VM and does not let  *)
(* a safepoint begin.                                                      *)
VMTakes ==
  /\ vm.at = "idle" /\ vmq # <<>>
  /\ \A r \in Requesters : request[r] # "destructor"
  /\ vm' = [at |-> IF Head(vmq).kind = "toggle" THEN "toggle" ELSE "collect",
            by |-> Head(vmq).by, kind |-> Head(vmq).kind, quota |-> 0]
  /\ vmq' = Tail(vmq)
  /\ UNCHANGED <<writer, tracing, rotation, checking, thread, request,
                 heap_lock, needs_gc>>

(* destroy_when_running; destroy joins the worker thread. *)
ToggleOff ==
  /\ vm.at = "toggle" /\ tracing /\ ~checking
  /\ tracing' = FALSE
  /\ vm' = [vm EXCEPT !.at = "done"]
  /\ UNCHANGED <<writer, rotation, checking, thread, request, heap_lock, vmq, needs_gc>>

ToggleOnWithoutForce ==
  /\ vm.at = "toggle" /\ ~tracing
  /\ tracing' = TRUE
  /\ size' = 0 /\ slot' = 0 /\ synced' = FALSE
  /\ vm' = [vm EXCEPT !.at = "collect"]
  /\ UNCHANGED <<rotation, checking, thread, request, heap_lock, vmq, needs_gc>>

(* init_when_running: a new writer, and a forced rotation in a full        *)
(* collection.                                                             *)
ToggleOn ==
  /\ vm.at = "toggle" /\ ~tracing
  /\ tracing' = TRUE
  /\ size' = 0 /\ slot' = 0 /\ synced' = FALSE
  /\ forced' = TRUE
  /\ vm' = [vm EXCEPT !.at = "collect"]
  /\ UNCHANGED <<type, checking, thread, request, heap_lock, vmq, needs_gc>>

(* invoke: an active GC_locker makes the collection return at once. *)
Declined ==
  /\ vm.at = "collect" /\ locked
  /\ needs_gc' = TRUE
  /\ vm' = [vm EXCEPT !.at = "done"]
  /\ UNCHANGED <<writer, tracing, rotation, checking, thread, request,
                 heap_lock, vmq>>

ResetWithoutSize ==
  /\ ~checking
  /\ slot' = (slot + 1) % MaxFiles
  /\ synced' = TRUE /\ size' = size

(* AllocationTracingIO::reset, once the worker is idle. *)
Reset ==
  /\ ~checking
  /\ size' = 0
  /\ slot' = (slot + 1) % MaxFiles
  /\ synced' = TRUE

Minor == vm.kind \in {"minor", "locker"}

(* A full collection overtakes that of the GC locker if the thread has     *)
(* already read the number of collections.                                 *)
Overtake ==
  \/ UNCHANGED request
  \/ /\ ~Minor
     /\ request' = [r \in Requesters |->
                      IF request[r] = "last" THEN "overtaken" ELSE request[r]]

(* fire_gc_start, which may call start_synchronization. *)
fire_gc_start ==
  /\ vm.at = "collect" /\ ~locked
  /\ IF tracing /\ should_rotate(0) /\ (OnMinor \/ ~Minor)
     THEN /\ Reset
          /\ type' = IF Minor THEN "OnMinor" ELSE "OnMajor"
     ELSE UNCHANGED <<writer, type>>
  /\ Overtake
  /\ vm' = [vm EXCEPT !.at = "gc", !.quota = GCBuffers]
  /\ UNCHANGED <<tracing, forced, checking, thread, heap_lock, vmq, needs_gc>>

fire_gc_endWithoutStop ==
  /\ vm.at = "gc"
  /\ vm' = [vm EXCEPT !.at = "done"]
  /\ UNCHANGED <<writer, tracing, rotation, checking, thread, request, heap_lock, vmq, needs_gc>>

(* fire_gc_end, which calls stop_synchronization if one is under way. *)
fire_gc_end ==
  /\ vm.at = "gc"
  /\ IF type # "None" THEN type' = "None" /\ forced' = FALSE ELSE UNCHANGED rotation
  /\ vm' = [vm EXCEPT !.at = "done"]
  /\ UNCHANGED <<writer, tracing, checking, thread, request, heap_lock, vmq, needs_gc>>

(* The end of doit.  The guarantee of EventSynchronizationSyncGC ends the  *)
(* process if the trace still has to rotate.                               *)
VMDone ==
  /\ vm.at = "done"
  /\ IF vm.by = "sync" /\ should_rotate(0)
     THEN vm' = [vm EXCEPT !.at = "crashed"] /\ UNCHANGED <<sync, request>>
     ELSE /\ vm' = Idle
          /\ sync' = IF vm.by = "sync" THEN "epilogue" ELSE sync
          /\ request' = [r \in Requesters |->
                           IF r # vm.by THEN request[r]
                           ELSE IF vm.kind = "toggle" THEN "toggled"
                           ELSE IF vm.kind = "locker" THEN "collected" ELSE "epilogue"]
  /\ UNCHANGED <<writer, tracing, rotation, checking, triggered, heap_lock, vmq, needs_gc>>

-----------------------------------------------------------------------------

Crashed == sync = "crashed" \/ vm.at = "crashed"

Init ==
  /\ size = 0 /\ slot = 0
  /\ tracing = TRUE /\ synced = TRUE
  /\ forced = FALSE /\ type = "None"
  /\ checking = FALSE
  /\ triggered = FALSE /\ sync = "unborn"
  /\ request = [r \in Requesters |-> "none"]
  /\ heap_lock = "free"
  /\ vmq = <<>> /\ vm = Idle
  /\ needs_gc = FALSE

Worker == write_buffer \/ check_trigger_rotate
SyncThread == SyncWakes \/ SyncAdds \/ SyncEpilogue \/ SyncResets
VMThread == \/ VMTakes \/ ToggleOff \/ ToggleOn \/ Declined
            \/ fire_gc_start \/ fire_gc_end \/ VMDone

Next ==
  \/ /\ ~Crashed
     /\ \/ Worker \/ SyncThread \/ Prologue \/ VMThread
        \/ \E r \in Requesters : \/ \E kind \in Kinds : Request(r, kind)
                                  \/ Skip(r) \/ Epilogue(r)
                                  \/ lock_critical(r) \/ unlock_critical(r)
  \/ Crashed /\ UNCHANGED vars

Spec == Init /\ [][Next]_vars

(* Every thread that can go on does, events never cease, and whoever waits *)
(* for Heap_lock gets it in the end: a HotSpot monitor keeps its waiters   *)
(* in a list and wakes one of them at each unlock.  The VM thread waits    *)
(* for the worker to be idle at a safepoint, when only finitely many       *)
(* buffers are left to write (OperationsEnd of TracePipeline).             *)
Fairness ==
  /\ WF_vars(Worker) /\ WF_vars(SyncThread)
  /\ SF_vars(VMThread) /\ SF_vars(Prologue)
  /\ \A r \in Requesters : WF_vars(Epilogue(r))

FairSpec == Spec /\ Fairness

-----------------------------------------------------------------------------
(* Properties *)

(* Type correctness; a synchronization is under way only inside a          *)
(* collection, so is_synchronizing is false whenever Java threads run.     *)
TypeOK ==
  /\ size \in 0..MaxSize /\ slot \in 0..MaxFiles - 1
  /\ {tracing, forced, synced, checking, triggered, needs_gc} \subseteq BOOLEAN
  /\ type \in {"None", "OnMinor", "OnMajor"} /\ (type # "None" => vm.at = "gc")
  /\ sync \in {"unborn", "loop", "prologue", "add", "queued", "epilogue", "reset", "crashed"}
  /\ request \in [Requesters -> {"none", "queued", "epilogue", "toggled", "destructor",
                                 "critical", "last", "overtaken", "collected"}]
  /\ heap_lock \in Requesters \cup {"free", "sync"}
  /\ vmq \in Seq([by : Requesters \cup {"sync"}, kind : Kinds])
  /\ vm \in [at : {"idle", "toggle", "collect", "gc", "done", "crashed"},
             by : Requesters \cup {"free", "sync"}, kind : Kinds \cup {"none"},
             quota : 0..GCBuffers]

(* The assertion at the start of EventSynchronizationSyncGC::doit, "should *)
(* have been handled by prologue": what the prologue checked is still true *)
(* when the VM thread gets to the operation, whatever ran in between.      *)
PrologueStillHolds ==
  vm.at = "collect" /\ vm.by = "sync" => should_rotate(0)

(* The guarantee at the end of EventSynchronizationSyncGC::doit, "A single *)
(* GC causes the trace to rotate!".                                        *)
SingleGCRotates ==
  ~(vm.at \in {"done", "crashed"} /\ vm.by = "sync" /\ should_rotate(0))

(* Java threads never run and fire events into a trace file that does not  *)
(* start from a known heap: tracing that is switched on at run time first  *)
(* rotates into a file that starts with a synchronization.  If the GC      *)
(* locker declines that collection, the rotation stays due.                *)
SyncedStart == tracing /\ vm.at = "idle" => synced \/ (Locker /\ forced)

(* As long as events are written, the trace file does not stay above the   *)
(* size at which a collection is forced, although SyncResets loses         *)
(* triggers and another collection may rotate first.                       *)
RotatesAgain == []<>(size < Limit + Epsilon)
=============================================================================
