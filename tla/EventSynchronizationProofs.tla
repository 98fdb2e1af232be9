--------------------- MODULE EventSynchronizationProofs ---------------------
(***************************************************************************)
(* What holds of the rotation of trace files for any number of requesters  *)
(* and any sizes.                                                          *)
(*                                                                         *)
(* Without toggling, whoever has an operation queued or executed has       *)
(* Heap_lock (LockInv, VMInv).  So nothing is executed between the test of *)
(* the prologue and the operation it is for, and the size that was tested  *)
(* only grows (RotateInv).  With toggling this is not so, but a file that  *)
(* does not start with a synchronization keeps the rotation forced until a *)
(* collection gets through (StartInv); only the GC locker keeps one from   *)
(* doing so (Regions).                                                     *)
(***************************************************************************)
EXTENDS EventSynchronization, TLAPS

VMRecord == [at : {"idle", "toggle", "collect", "gc", "done", "crashed"},
             by : Requesters \cup {"free", "sync"},
             kind : {"none", "minor", "major", "toggle", "locker"}, quota : Nat]
Operation == [by : Requesters \cup {"sync"}, kind : {"minor", "major", "toggle", "locker"}]

(* Where a requester has Heap_lock, and where it has not *)
Holding == {"queued", "epilogue", "collected"}
Elsewhere == {"none", "critical", "last", "overtaken"}

(* Who waits for the end of an operation *)
Waits(x) == IF x = "sync" THEN sync = "queued" ELSE x \in Requesters /\ request[x] = "queued"

(* The collection of the synchronization thread is one that rotates. *)
Rotating(op) == op.by = "sync" => OnMinor \/ op.kind \notin {"minor", "locker"}

Types ==
  /\ size \in Nat /\ tracing = TRUE /\ forced = FALSE
  /\ vm \in VMRecord /\ vmq \in Seq(Operation)
  /\ request \in [Requesters -> Holding \cup Elsewhere]

LockInv ==
  /\ sync \in {"add", "queued", "epilogue"} => heap_lock = "sync"
  /\ \A r \in Requesters : request[r] \in Holding => heap_lock = r

VMInv ==
  /\ vm.at # "toggle"
  /\ vm.at # "idle" => Waits(vm.by) /\ Rotating(vm) /\ vm.kind # "toggle"
  /\ vmq # <<>> => /\ vm.at = "idle" /\ Tail(vmq) = <<>>
                   /\ Waits(Head(vmq).by) /\ Rotating(Head(vmq))
                   /\ Head(vmq).kind # "toggle"

RotateInv ==
  sync \in {"add", "queued"} /\ vm.at \in {"idle", "collect"} => size >= Limit

IInv == Types /\ LockInv /\ VMInv /\ RotateInv

(* While the events of a forced collection are written, the file is no     *)
(* larger than what they fill.                                             *)
CollectInv ==
  /\ vm.at # "crashed"
  /\ vm.by = "sync" /\ vm.at \in {"gc", "done"} => size + vm.quota <= GCBuffers

(* Only who uses the GC locker is in a critical region. *)
Regions == /\ request \in [Requesters -> Holding \cup Elsewhere \cup {"toggled", "destructor"}]
           /\ locked => Locker

(* A file that does not start with a synchronization, although tracing is  *)
(* on, is still to be left, and no synchronization is under way.           *)
StartInv ==
  /\ {tracing, forced, synced} \subseteq BOOLEAN
  /\ vm \in VMRecord /\ vmq \in Seq(Operation)
  /\ vm.at = "toggle" => vm.kind = "toggle"
  /\ type # "None" => vm.at = "gc" /\ synced
  /\ tracing /\ ~synced => /\ forced
                           /\ Locker \/ (vm.at = "collect" /\ vm.kind = "toggle")

-----------------------------------------------------------------------------
LEMMA InitIInv == Init => IInv
<1> SUFFICES ASSUME Init PROVE IInv
  OBVIOUS
<1>1. vm = Idle /\ vm \in VMRecord
  BY DEF Init, Idle, VMRecord
<1>2. Types
  BY <1>1 DEF Init, Types, Elsewhere
<1> QED BY <1>1, <1>2 DEF Init, IInv, Idle, LockInv, VMInv, RotateInv, Holding

(* An operation is queued when there is no other. *)
LEMMA QueueStep ==
  ASSUME IInv, NEW x \in Requesters \cup {"sync"}, NEW kind \in {"minor", "major", "locker"},
         vm.at = "idle" \/ x = "sync", vmq' = Append(vmq, [by |-> x, kind |-> kind]),
         \/ x = "sync" /\ sync = "add" /\ sync' = "queued" /\ UNCHANGED request
         \/ x \in Requesters /\ heap_lock = "free" /\ UNCHANGED sync
            /\ request' = [request EXCEPT ![x] = "queued"],
         UNCHANGED <<vm, size, tracing, forced>>,
         x = "sync" => OnMinor \/ kind \notin {"minor", "locker"},
         heap_lock' = x
  PROVE  IInv'
<1> DEFINE op == [by |-> x, kind |-> kind]
<1>1. "sync" \notin Requesters /\ "free" \notin Requesters
  BY SynchronizationAssumption
<1>2. Types /\ LockInv /\ VMInv /\ RotateInv
  BY DEF IInv
<1>3. \A y : Waits(y) => heap_lock = y /\ y # "free" /\ (y = "sync" => sync = "queued")
  BY <1>1, <1>2 DEF Waits, LockInv, Holding
<1>4. \A y : ~Waits(y)
  BY <1>1, <1>2, <1>3 DEF LockInv
<1>5. vmq = <<>> /\ vm.at = "idle"
  BY <1>2, <1>4 DEF VMInv
<1>6. op \in Operation /\ op.by = x /\ op.kind = kind
  BY DEF Operation
<1>7. vmq' = <<op>> /\ vmq' \in Seq(Operation) /\ Head(vmq') = op /\ Tail(vmq') = <<>>
  <2> HIDE DEF op
  <2> QED BY <1>2, <1>5, <1>6 DEF Types, op
<1>8. Types'
  BY <1>2, <1>7 DEF Types, Holding
<1>9. LockInv'
  BY <1>1, <1>2, <1>8 DEF LockInv, Types
<1>10. Waits(x)'
  BY <1>1, <1>2 DEF Waits, Types
<1>11. VMInv'
  BY <1>5, <1>6, <1>7, <1>10 DEF VMInv, Rotating
<1>12. RotateInv'
  BY <1>1, <1>2, <1>5 DEF RotateInv, LockInv
<1> QED BY <1>8, <1>9, <1>11, <1>12 DEF IInv

(* No requester gets or releases the lock. *)
SameHolders ==
  /\ request' \in [Requesters -> Holding \cup Elsewhere]
  /\ \A r \in Requesters : request'[r] = request[r] \/ {request[r], request'[r]} \subseteq Elsewhere

LEMMA SameRequests == Types /\ UNCHANGED request => SameHolders
  BY DEF Types, SameHolders

LEMMA SameWaits == SameHolders /\ UNCHANGED sync => \A x : Waits(x) => Waits(x)'
  BY DEF SameHolders, Waits, Elsewhere

LEMMA SameLock == LockInv /\ SameHolders /\ UNCHANGED <<sync, heap_lock>> => LockInv'
  BY DEF SameHolders, LockInv, Holding, Elsewhere

(* A step that queues and ends no operation keeps what is known of locks   *)
(* and operations.                                                         *)
LEMMA VMStep ==
  ASSUME IInv, UNCHANGED <<sync, heap_lock, tracing, forced>>, SameHolders,
         size' \in Nat, vm' \in VMRecord,
         vm'.at # "toggle", vm'.at # "idle", vm'.kind # "toggle",
         Waits(vm'.by), Rotating(vm'),
         vmq' = <<>>,
         vm'.at = "collect" => size' >= size /\ vm.at \in {"idle", "collect"}
  PROVE  IInv'
<1>1. Types'
  BY DEF IInv, Types, SameHolders
<1>2. LockInv' /\ VMInv'
  <2>1. LockInv'
    BY SameLock DEF IInv
  <2>2. Waits(vm.by)'
    BY DEF Waits, SameHolders, Elsewhere
  <2> QED BY <2>1, <2>2 DEF VMInv, Rotating
<1>3. RotateInv'
  BY SynchronizationAssumption DEF IInv, Types, RotateInv
<1> QED BY <1>1, <1>2, <1>3 DEF IInv

(* The worker *)
LEMMA WorkerStep ==
  ASSUME IInv, Worker
  PROVE  IInv'
<1> USE SynchronizationAssumption
<1>1. Types /\ LockInv /\ VMInv /\ RotateInv
  BY DEF IInv
<1>2. CASE write_buffer
  <2>1. /\ size' \in Nat /\ size' >= size
        /\ UNCHANGED <<sync, request, heap_lock, tracing, forced, vmq>>
    BY <1>1, <1>2 DEF write_buffer, Types, thread, rotation
  <2>2. /\ vm' \in VMRecord /\ vm'.at = vm.at /\ vm'.by = vm.by /\ vm'.kind = vm.kind
    BY <1>1, <1>2, SMTT(30) DEF write_buffer, Types, VMRecord
  <2>3. Types'
    BY <1>1, <2>1, <2>2 DEF Types
  <2>4. LockInv' /\ VMInv'
    BY <1>1, <2>1, <2>2 DEF LockInv, VMInv, Waits, Rotating
  <2>5. RotateInv'
    BY <1>1, <2>1, <2>2 DEF RotateInv, Types
  <2> QED BY <2>3, <2>4, <2>5 DEF IInv
<1>3. CASE check_trigger_rotate
  <2>1. /\ UNCHANGED <<size, vm, request, heap_lock, tracing, forced, vmq>>
        /\ sync' = sync \/ (sync = "unborn" /\ sync' = "loop")
    BY <1>3 DEF check_trigger_rotate, writer, rotation, thread
  <2>2. Types' /\ LockInv' /\ RotateInv'
    BY <1>1, <2>1 DEF Types, LockInv, RotateInv
  <2>3. VMInv'
    BY <1>1, <2>1 DEF VMInv, Waits, Rotating
  <2> QED BY <2>2, <2>3 DEF IInv
<1> QED BY <1>2, <1>3 DEF Worker

(* The synchronization thread *)
LEMMA SyncStep ==
  ASSUME IInv, SyncThread \/ Prologue
  PROVE  IInv'
<1> USE SynchronizationAssumption
<1>1. Types /\ LockInv /\ VMInv /\ RotateInv
  BY DEF IInv
<1>2. CASE SyncAdds
  <2>1. /\ sync = "add" /\ sync' = "queued" /\ heap_lock = "sync"
        /\ UNCHANGED <<size, vm, request, heap_lock, tracing, forced>>
        /\ vmq' = Append(vmq, [by |-> "sync", kind |-> IF OnMinor THEN "minor" ELSE "major"])
    BY <1>1, <1>2 DEF SyncAdds, LockInv, writer, rotation
  <2> DEFINE kind == IF OnMinor THEN "minor" ELSE "major"
  <2>2. kind \in {"minor", "major", "locker"} /\ (OnMinor \/ kind \notin {"minor", "locker"})
    OBVIOUS
  <2> HIDE DEF kind
  <2>3. vmq' = Append(vmq, [by |-> "sync", kind |-> kind])
    BY <2>1 DEF kind
  <2> QED BY <2>1, <2>2, <2>3, QueueStep, Zenon
<1>3. ASSUME UNCHANGED <<size, vm, request, tracing, forced, vmq>>, sync # "queued",
             sync' # "queued", sync' = "add" => size >= Limit,
             LockInv'
      PROVE  IInv'
  <2>1. Types' /\ RotateInv'
    BY <1>1, <1>3 DEF Types, RotateInv
  <2>2. VMInv'
    BY <1>1, <1>3 DEF VMInv, Waits, Rotating
  <2> QED BY <1>3, <2>1, <2>2 DEF IInv
<1>4. CASE SyncWakes
  BY <1>1, <1>3, <1>4 DEF SyncWakes, LockInv, writer, rotation
<1>5. CASE Prologue
  <2>1. /\ UNCHANGED <<size, vm, request, tracing, forced, vmq>>
        /\ sync = "prologue" /\ heap_lock = "free"
        /\ \/ size >= Limit /\ heap_lock' = "sync" /\ sync' = "add"
           \/ heap_lock' = heap_lock /\ sync' = "reset"
    BY <1>1, <1>5 DEF Prologue, Types, should_rotate, writer, rotation
  <2>2. LockInv'
    BY <1>1, <2>1 DEF LockInv
  <2> QED BY <1>3, <2>1, <2>2
<1>6. CASE SyncEpilogue
  <2>1. /\ UNCHANGED <<size, vm, request, tracing, forced, vmq>>
        /\ sync = "epilogue" /\ sync' = "reset"
    BY <1>6 DEF SyncEpilogue, writer, rotation
  <2>2. LockInv'
    BY <1>1, <1>6, <2>1 DEF LockInv, SyncEpilogue
  <2> QED BY <1>3, <2>1, <2>2
<1>7. CASE SyncResets
  BY <1>1, <1>3, <1>7 DEF SyncResets, LockInv, writer, rotation
<1> QED BY <1>2, <1>4, <1>5, <1>6, <1>7 DEF SyncThread

(* The requesters *)
LEMMA RequesterStep ==
  ASSUME IInv, Toggles = FALSE, NEW r \in Requesters,
         \/ \E kind \in Kinds : Request(r, kind)
         \/ Skip(r) \/ Epilogue(r) \/ lock_critical(r) \/ unlock_critical(r)
  PROVE  IInv'
<1> USE SynchronizationAssumption
<1>1. Types /\ LockInv /\ VMInv /\ RotateInv
  BY DEF IInv
<1>2. CASE Epilogue(r)
  <2>1. /\ UNCHANGED <<size, vm, sync, tracing, forced, vmq>>
        /\ request[r] \in {"epilogue", "collected"} /\ heap_lock' = "free"
        /\ request' = [request EXCEPT ![r] = "none"]
    BY <1>1, <1>2, Zenon DEF Epilogue, Types, Holding, Elsewhere, writer, rotation, thread
  <2>2. heap_lock = r /\ sync \notin {"add", "queued", "epilogue"}
    BY <1>1, <2>1 DEF LockInv, Holding
  <2>3. Types' /\ LockInv' /\ RotateInv'
    BY <1>1, <2>1, <2>2 DEF Types, LockInv, RotateInv, Elsewhere, Holding
  <2>4. \A x : Waits(x) => Waits(x)'
    BY <1>1, <2>1 DEF Waits, Types
  <2>5. VMInv'
    BY <1>1, <2>1, <2>4 DEF VMInv, Rotating
  <2> QED BY <2>3, <2>5 DEF IInv
<1>3. CASE Skip(r) \/ lock_critical(r) \/ unlock_critical(r)
  <2>1. /\ UNCHANGED <<size, vm, sync, heap_lock, tracing, forced, vmq>>
        /\ request[r] \in Elsewhere
        /\ \E st \in Elsewhere : request' = [request EXCEPT ![r] = st]
    BY <1>3 DEF Skip, lock_critical, unlock_critical, Elsewhere, writer, rotation, thread
  <2>2. SameHolders
    BY <1>1, <2>1 DEF SameHolders, Types
  <2>3. Types' /\ LockInv' /\ RotateInv'
    BY <1>1, <2>1, <2>2, SameLock DEF Types, RotateInv, SameHolders
  <2>4. VMInv'
    BY <1>1, <2>1, <2>2, SameWaits DEF VMInv, Rotating
  <2> QED BY <2>3, <2>4 DEF IInv
<1>4. ASSUME NEW kind \in Kinds, Request(r, kind) PROVE IInv'
  <2>1. kind \in {"minor", "major", "locker"} /\ r # "sync"
    BY <1>4 DEF Kinds
  <2>2. /\ vm.at = "idle" /\ heap_lock = "free" /\ heap_lock' = r
        /\ request' = [request EXCEPT ![r] = "queued"]
        /\ vmq' = Append(vmq, [by |-> r, kind |-> kind])
        /\ UNCHANGED <<size, vm, sync, tracing, forced>>
    BY <1>4 DEF Request, writer, rotation, thread
  <2> QED BY <2>1, <2>2, QueueStep, Zenon
<1> QED BY <1>2, <1>3, <1>4

(* The VM thread *)
LEMMA VMThreadStep ==
  ASSUME IInv, VMThread
  PROVE  IInv'
<1> USE SynchronizationAssumption
<1>1. Types /\ LockInv /\ VMInv /\ RotateInv /\ vm \in VMRecord /\ size \in Nat
  BY DEF IInv, Types
<1>2. vm.at # "idle" => vmq = <<>> /\ Waits(vm.by) /\ Rotating(vm) /\ vm.kind # "toggle"
  BY <1>1 DEF VMInv
<1>3. CASE VMTakes
  <2> DEFINE op == Head(vmq)
  <2>1. /\ vmq # <<>> /\ vm.at = "idle" /\ vmq' = <<>>
        /\ op \in Operation /\ op.kind # "toggle" /\ Waits(op.by) /\ Rotating(op)
    BY <1>1, <1>3 DEF VMTakes, VMInv, Types
  <2>2. /\ vm' = [at |-> "collect", by |-> op.by, kind |-> op.kind, quota |-> 0]
        /\ UNCHANGED <<size, sync, heap_lock, tracing, forced>> /\ SameHolders
    BY <1>1, <1>3, <2>1, SameRequests DEF VMTakes, writer, rotation, thread
  <2> HIDE DEF op
  <2>3. vm' \in VMRecord /\ vm'.at = "collect" /\ vm'.by = op.by /\ Rotating(vm')
        /\ vm'.kind = op.kind
    BY <2>1, <2>2 DEF VMRecord, Operation, Rotating
  <2> QED BY <1>1, <2>1, <2>2, <2>3, VMStep
<1>4. CASE ToggleOff \/ ToggleOn
  BY <1>1, <1>4 DEF ToggleOff, ToggleOn, VMInv
<1>5. ASSUME NEW at \in {"gc", "done", "crashed"}, NEW quota \in Nat, vm.at # "idle",
             vm' = [vm EXCEPT !.at = at] \/ vm' = [vm EXCEPT !.at = at, !.quota = quota],
             size' \in Nat, SameHolders,
             UNCHANGED <<sync, heap_lock, tracing, forced, vmq>>
      PROVE  IInv'
  <2>1. vm' \in VMRecord /\ vm'.at = at /\ vm'.by = vm.by /\ vm'.kind = vm.kind
    BY <1>1, <1>5, Zenon DEF VMRecord
  <2> QED BY <1>2, <1>5, <2>1, VMStep DEF Rotating
<1>6. CASE Declined
  BY <1>1, <1>5, <1>6, SameRequests, Zenon DEF Declined, writer, rotation, thread
<1>7. CASE fire_gc_start
  <2>1. /\ vm.at = "collect" /\ vm' = [vm EXCEPT !.at = "gc", !.quota = GCBuffers]
        /\ size' \in Nat /\ GCBuffers \in Nat
        /\ UNCHANGED <<sync, heap_lock, tracing, forced, vmq>>
    BY <1>1, <1>7 DEF fire_gc_start, Reset, writer, thread
  <2>2. SameHolders
    BY <1>1, <1>7, SameRequests
       DEF fire_gc_start, Overtake, SameHolders, Types, Elsewhere
  <2> QED BY <1>5, <2>1, <2>2, Zenon
<1>8. CASE fire_gc_end
  <2>1. /\ vm.at = "gc" /\ vm' = [vm EXCEPT !.at = "done"] /\ size' = size
        /\ UNCHANGED <<sync, heap_lock, tracing, forced, vmq>> /\ SameHolders
    BY <1>1, <1>8, SameRequests, Zenon DEF fire_gc_end, Types, writer, rotation, thread
  <2> QED BY <1>1, <1>5, <2>1, Zenon
<1>9. CASE VMDone
  <2>0. vm.at = "done" /\ UNCHANGED <<size, heap_lock, tracing, forced, vmq>>
    BY <1>9 DEF VMDone, writer, rotation
  <2>1. CASE vm.by = "sync" /\ should_rotate(0)
    BY <1>1, <1>5, <1>9, <2>0, <2>1, SameRequests, Zenon DEF VMDone
  <2>2. CASE ~(vm.by = "sync" /\ should_rotate(0))
    <3>1. /\ vm' = Idle /\ vmq = <<>> /\ Waits(vm.by)
          /\ sync' = IF vm.by = "sync" THEN "epilogue" ELSE sync
          /\ request' = [r \in Requesters |->
                           IF r # vm.by THEN request[r]
                           ELSE IF vm.kind = "toggle" THEN "toggled"
                           ELSE IF vm.kind = "locker" THEN "collected" ELSE "epilogue"]
      BY <1>2, <1>9, <2>0, <2>2 DEF VMDone
    <3>2. \A r \in Requesters : IF r # vm.by THEN request'[r] = request[r]
                               ELSE request'[r] \in {"epilogue", "collected"}
      BY <1>1, <2>0, <3>1 DEF VMInv
    <3>3. vm' \in VMRecord /\ vm'.at = "idle"
      BY <3>1 DEF Idle, VMRecord
    <3>4. Types'
      BY <1>1, <2>0, <3>1, <3>2, <3>3 DEF Types, Holding
    <3>5. LockInv'
      BY <1>1, <2>0, <3>1, <3>2 DEF LockInv, Waits, Holding
    <3>6. VMInv' /\ RotateInv'
      BY <1>1, <2>0, <3>1, <3>3 DEF VMInv, RotateInv, LockInv, Waits, Holding
    <3> QED BY <3>4, <3>5, <3>6 DEF IInv
  <2> QED BY <2>1, <2>2
<1> QED BY <1>3, <1>4, <1>6, <1>7, <1>8, <1>9 DEF VMThread

LEMMA NextIInv ==
  ASSUME IInv, Toggles = FALSE, [Next]_vars
  PROVE  IInv'
<1>1. CASE Worker
  BY <1>1, WorkerStep
<1>2. CASE SyncThread \/ Prologue
  BY <1>2, SyncStep
<1>3. CASE VMThread
  BY <1>3, VMThreadStep
<1>4. CASE \E r \in Requesters : \/ \E kind \in Kinds : Request(r, kind)
                                 \/ Skip(r) \/ Epilogue(r)
                                 \/ lock_critical(r) \/ unlock_critical(r)
  BY <1>4, RequesterStep, Zenon
<1>5. CASE UNCHANGED vars
  <2>1. UNCHANGED <<size, tracing, forced, sync, request, heap_lock, vmq, vm>>
    BY <1>5 DEF vars, writer, rotation, thread
  <2> QED BY <2>1 DEF IInv, Types, LockInv, VMInv, RotateInv, Waits, Rotating
<1> QED BY <1>1, <1>2, <1>3, <1>4, <1>5 DEF Next

(* If tracing is not toggled at run time, the assertion of the rotation's  *)
(* doit holds for any number of requesters and any sizes: Heap_lock keeps  *)
(* every other collection out between doit_prologue and the operation.     *)
THEOREM PrologueHolds ==
  ASSUME Toggles = FALSE
  PROVE  Spec => []PrologueStillHolds
<1>1. IInv /\ [Next]_vars => IInv'
  BY NextIInv, Zenon
<1>2. IInv => PrologueStillHolds
  <2> SUFFICES ASSUME IInv, vm.at = "collect", vm.by = "sync" PROVE should_rotate(0)
    BY DEF PrologueStillHolds
  <2>1. sync = "queued"
    BY DEF IInv, VMInv, Waits
  <2>2. size \in Nat /\ Limit \in Nat /\ size >= Limit
    BY <2>1, SynchronizationAssumption DEF IInv, RotateInv, Types
  <2> QED BY <2>2 DEF should_rotate
<1> QED BY <1>1, <1>2, InitIInv, PTL DEF Spec

-----------------------------------------------------------------------------
(* The GC locker *)
LEMMA NextRegions ==
  ASSUME Regions, [Next]_vars
  PROVE  Regions'
<1> DEFINE All == Holding \cup Elsewhere \cup {"toggled", "destructor"}
<1>1. request \in [Requesters -> All]
  BY DEF Regions
<1>2. ASSUME request' \in [Requesters -> All],
             \/ \A r \in Requesters : request'[r] = "critical" => request[r] = "critical"
             \/ Locker
      PROVE  Regions'
  BY <1>2, Zenon DEF Regions, locked
<1>3. ASSUME NEW r \in Requesters,
             \/ \E kind \in Kinds : Request(r, kind)
             \/ Skip(r) \/ Epilogue(r) \/ unlock_critical(r)
      PROVE  Regions'
  <2>1. PICK st \in All \ {"critical"} : request' = [request EXCEPT ![r] = st]
    BY <1>3 DEF Request, Skip, Epilogue, unlock_critical, Holding, Elsewhere
  <2>2. /\ request' \in [Requesters -> All]
        /\ \A q \in Requesters : request'[q] = "critical" => request[q] = "critical"
    BY <1>1, <2>1
  <2> QED BY <1>2, <2>2, Zenon
<1>4. ASSUME NEW r \in Requesters, lock_critical(r) PROVE Regions'
  <2>1. request' = [request EXCEPT ![r] = "critical"] /\ "critical" \in All
    BY <1>4 DEF lock_critical, Elsewhere
  <2>2. request' \in [Requesters -> All]
    BY <1>1, <2>1
  <2>3. Locker
    BY <1>4 DEF lock_critical
  <2> QED BY <1>2, <2>2, <2>3, Zenon
<1>5. CASE fire_gc_start
  BY <1>1, <1>2, <1>5 DEF fire_gc_start, Overtake, Elsewhere
<1>6. CASE VMDone
  BY <1>1, <1>2, <1>6 DEF VMDone, Holding
<1>7. CASE \/ Worker \/ SyncThread \/ Prologue \/ UNCHANGED vars
           \/ VMTakes \/ ToggleOff \/ ToggleOn \/ Declined \/ fire_gc_end
  <2>1. UNCHANGED request
    BY <1>7 DEF Worker, write_buffer, check_trigger_rotate, SyncThread, SyncWakes, SyncAdds,
                SyncEpilogue, SyncResets, Prologue, VMTakes, ToggleOff, ToggleOn, Declined,
                fire_gc_end, vars
  <2> QED BY <1>1, <1>2, <2>1
<1> QED BY <1>3, <1>4, <1>5, <1>6, <1>7, Zenon DEF Next, VMThread

LEMMA InitRegions == Init => Regions
  BY DEF Init, Regions, locked, Elsewhere

LEMMA NextCollectInv ==
  ASSUME IInv, CollectInv, Regions, Toggles = FALSE, Locker = FALSE, GCBuffers < Limit, [Next]_vars
  PROVE  CollectInv'
<1> USE SynchronizationAssumption
<1>1. /\ size \in Nat /\ vm \in VMRecord /\ tracing = TRUE /\ forced = FALSE
      /\ GCBuffers \in Nat /\ Limit \in Nat /\ ~locked /\ vm.quota \in Nat
  BY DEF IInv, Types, CollectInv, VMRecord, Regions
<1>2. CASE write_buffer
  <2>1. /\ size' \in {size, size + 1}
        /\ vm' = IF vm.at \in {"gc", "done"} THEN [vm EXCEPT !.quota = @ - 1] ELSE vm
        /\ vm.at \in {"gc", "done"} => vm.quota > 0
    BY <1>1, <1>2 DEF write_buffer
  <2>2. CASE vm.at \in {"gc", "done"}
    <3>1. vm'.at = vm.at /\ vm'.by = vm.by /\ vm'.quota = vm.quota - 1
      BY <1>1, <2>1, <2>2 DEF VMRecord
    <3> QED BY <1>1, <2>1, <2>2, <3>1 DEF CollectInv
  <2> QED BY <2>1, <2>2, Zenon DEF CollectInv
<1>3. CASE fire_gc_start
  <2>1. vm'.at = "gc" /\ vm'.by = vm.by /\ vm'.quota = GCBuffers
    BY <1>1, <1>3 DEF fire_gc_start, VMRecord
  <2>2. ASSUME vm.by = "sync" PROVE size' = 0
    <3>1. vm.at = "collect" /\ sync = "queued" /\ (OnMinor \/ ~Minor)
      BY <1>3, <2>2 DEF fire_gc_start, IInv, VMInv, Waits, Rotating, Minor
    <3>2. should_rotate(0)
      BY <1>1, <3>1 DEF IInv, RotateInv, should_rotate
    <3> QED BY <1>1, <1>3, <3>1, <3>2 DEF fire_gc_start, Reset
  <2> QED BY <1>1, <2>1, <2>2 DEF CollectInv
<1>4. CASE VMDone
  <2>1. ~(vm.by = "sync" /\ should_rotate(0))
    BY <1>1, <1>4 DEF VMDone, CollectInv, should_rotate
  <2> QED BY <1>1, <1>4, <2>1 DEF VMDone, CollectInv, Idle
<1>5. CASE fire_gc_end
  <2>1. vm.at = "gc" /\ vm' = [vm EXCEPT !.at = "done"] /\ size' = size
    BY <1>1, <1>5 DEF fire_gc_end, writer
  <2>2. vm'.at = "done" /\ vm'.by = vm.by /\ vm'.quota = vm.quota
    BY <1>1, <2>1 DEF VMRecord
  <2> QED BY <2>1, <2>2 DEF CollectInv
<1>6. CASE VMTakes
  <2>1. vm'.at \in {"toggle", "collect"}
    BY <1>1, <1>6 DEF VMTakes
  <2> QED BY <2>1 DEF CollectInv
<1>7. CASE ToggleOff \/ ToggleOn \/ Declined
  BY <1>1, <1>7, Zenon DEF ToggleOff, ToggleOn, Declined, IInv, VMInv
<1>8. CASE \/ check_trigger_rotate \/ SyncThread \/ Prologue \/ UNCHANGED vars
           \/ \E r \in Requesters : \/ \E kind \in Kinds : Request(r, kind)
                                    \/ Skip(r) \/ Epilogue(r)
                                    \/ lock_critical(r) \/ unlock_critical(r)
  <2>1. UNCHANGED <<size, vm>>
    BY <1>8, Zenon DEF check_trigger_rotate, SyncThread, SyncWakes, SyncAdds, SyncEpilogue,
                SyncResets, Prologue, Epilogue, Request, Skip, lock_critical,
                unlock_critical, vars, writer
  <2> QED BY <2>1 DEF CollectInv
<1> QED BY <1>2, <1>3, <1>4, <1>5, <1>6, <1>7, <1>8 DEF Next, Worker, VMThread

(* The guarantee "A single GC causes the trace to rotate!" at the end of   *)
(* the rotation's doit holds if the GC locker is not used, tracing is not  *)
(* toggled and the events of one collection are fewer than a file takes.   *)
THEOREM GCRotates ==
  ASSUME Toggles = FALSE, Locker = FALSE, GCBuffers < Limit
  PROVE  Spec => []SingleGCRotates
<1>1. Init => IInv /\ CollectInv /\ Regions
  BY InitIInv, InitRegions DEF Init, Idle, CollectInv
<1>2. IInv /\ CollectInv /\ Regions /\ [Next]_vars => (IInv /\ CollectInv /\ Regions)'
  BY NextIInv, NextCollectInv, NextRegions, Zenon
<1>3. IInv /\ CollectInv => SingleGCRotates
  <2> SUFFICES ASSUME IInv, CollectInv, vm.at \in {"done", "crashed"}, vm.by = "sync"
               PROVE  ~should_rotate(0)
    BY DEF SingleGCRotates
  <2>1. /\ size \in Nat /\ vm.quota \in Nat /\ forced = FALSE
        /\ GCBuffers \in Nat /\ Limit \in Nat
    BY SynchronizationAssumption DEF IInv, Types, VMRecord
  <2>2. size + vm.quota <= GCBuffers
    BY DEF CollectInv
  <2> QED BY <2>1, <2>2 DEF should_rotate
<1> QED BY <1>1, <1>2, <1>3, PTL DEF Spec

-----------------------------------------------------------------------------
(* Steps that do not concern the start of the file *)
LEMMA StartKept ==
  ASSUME StartInv, UNCHANGED <<tracing, forced, synced, type>>,
         vm' \in VMRecord, vmq' \in Seq(Operation),
         vm'.at = vm.at /\ vm'.kind = vm.kind
  PROVE  StartInv'
BY DEF StartInv

LEMMA NextStartInv ==
  ASSUME StartInv, Regions, [Next]_vars
  PROVE  StartInv'
<1> USE SynchronizationAssumption
<1>1. vm \in VMRecord /\ vmq \in Seq(Operation) /\ GCBuffers \in Nat
  BY DEF StartInv
<1>2. CASE write_buffer
  <2>1. /\ vm' = IF vm.at \in {"gc", "done"} THEN [vm EXCEPT !.quota = @ - 1] ELSE vm
        /\ vm.at \in {"gc", "done"} => vm.quota > 0
        /\ UNCHANGED <<tracing, forced, synced, type, vmq>>
    BY <1>2 DEF write_buffer, rotation
  <2>2. vm' \in VMRecord /\ vm'.at = vm.at /\ vm'.kind = vm.kind
    BY <1>1, <2>1, SMTT(30) DEF VMRecord
  <2> QED BY <1>1, <2>1, <2>2, StartKept
<1>3. CASE SyncAdds \/ \E r \in Requesters, kind \in Kinds : Request(r, kind)
  <2>1. PICK op \in Operation : vmq' = Append(vmq, op)
    BY <1>3, Zenon DEF SyncAdds, Request, Kinds, Operation
  <2>2. vmq' \in Seq(Operation)
    BY <1>1, <2>1
  <2>3. UNCHANGED <<tracing, forced, synced, type, vm>>
    BY <1>3, Zenon DEF SyncAdds, Request, rotation, writer
  <2> QED BY <1>1, <2>2, <2>3, StartKept
<1>4. CASE \/ check_trigger_rotate \/ SyncWakes \/ SyncEpilogue \/ SyncResets \/ Prologue
           \/ UNCHANGED vars
           \/ \E r \in Requesters : \/ Skip(r) \/ Epilogue(r)
                                    \/ lock_critical(r) \/ unlock_critical(r)
  <2>1. UNCHANGED <<tracing, forced, synced, type, vm, vmq>>
    BY <1>4 DEF check_trigger_rotate, SyncWakes, SyncEpilogue, SyncResets, Prologue,
                Skip, Epilogue, lock_critical, unlock_critical, vars, rotation, writer
  <2> QED BY <1>1, <2>1, StartKept
<1>5. CASE VMTakes
  <2>1. /\ vm.at = "idle" /\ vmq # <<>> /\ vmq' = Tail(vmq)
        /\ vm' = [at |-> IF Head(vmq).kind = "toggle" THEN "toggle" ELSE "collect",
                  by |-> Head(vmq).by, kind |-> Head(vmq).kind, quota |-> 0]
        /\ UNCHANGED <<tracing, forced, synced, type>>
    BY <1>5 DEF VMTakes, rotation, writer
  <2>2. Head(vmq) \in Operation /\ vmq' \in Seq(Operation)
    BY <1>1, <2>1
  <2>3. vm' \in VMRecord /\ (vm'.at = "toggle" => vm'.kind = "toggle")
    BY <2>1, <2>2 DEF VMRecord, Operation
  <2> QED BY <2>1, <2>2, <2>3 DEF StartInv
<1>6. CASE ToggleOff \/ Declined
  <2>1. /\ vm' = [vm EXCEPT !.at = "done"] /\ vm.at # "gc"
        /\ UNCHANGED <<forced, synced, type, vmq>>
    BY <1>6 DEF ToggleOff, Declined, rotation, writer
  <2>2. vm' \in VMRecord /\ vm'.at = "done"
    BY <1>1, <2>1 DEF VMRecord
  <2>3. CASE ToggleOff
    <3>1. tracing' = FALSE
      BY <2>3 DEF ToggleOff
    <3> QED BY <2>1, <2>2, <3>1, Zenon DEF StartInv
  <2>4. CASE Declined
    <3>1. tracing' = tracing /\ Locker
      BY <2>4 DEF Declined, Regions
    <3> QED BY <2>1, <2>2, <3>1 DEF StartInv
  <2> QED BY <1>6, <2>3, <2>4
<1>7. CASE ToggleOn
  <2>1. vm' \in VMRecord /\ vm'.at = "collect" /\ vm'.kind = vm.kind /\ vm.at = "toggle"
    BY <1>1, <1>7 DEF ToggleOn, VMRecord
  <2>2. vm.kind = "toggle" /\ type = "None"
    BY <2>1 DEF StartInv
  <2>3. /\ tracing' = TRUE /\ forced' = TRUE /\ synced' = FALSE
        /\ UNCHANGED <<type, vmq>>
    BY <1>7 DEF ToggleOn
  <2> QED BY <2>1, <2>2, <2>3, Zenon DEF StartInv
<1>8. CASE fire_gc_start
  <2>1. vm' \in VMRecord /\ vm'.at = "gc" /\ vm.at = "collect"
    BY <1>1, <1>8, Zenon DEF fire_gc_start, VMRecord
  <2>2. UNCHANGED <<tracing, forced, vmq>>
    BY <1>8 DEF fire_gc_start
  <2>3. CASE tracing /\ should_rotate(0) /\ (OnMinor \/ ~Minor)
    <3>1. synced' = TRUE
      BY <1>8, <2>3 DEF fire_gc_start, Reset
    <3> QED BY <2>1, <2>2, <3>1 DEF StartInv
  <2>4. CASE ~(tracing /\ should_rotate(0) /\ (OnMinor \/ ~Minor))
    <3>1. synced' = synced /\ type' = type
      BY <1>8, <2>4 DEF fire_gc_start, writer
    <3>2. tracing /\ ~synced => forced /\ Locker
      BY <2>1, <2>4 DEF StartInv, should_rotate, Minor
    <3> QED BY <2>1, <2>2, <3>1, <3>2 DEF StartInv
  <2> QED BY <2>3, <2>4
<1>9. CASE fire_gc_end
  <2>1. vm' \in VMRecord /\ vm'.at = "done" /\ vm.at = "gc"
    BY <1>1, <1>9 DEF fire_gc_end, VMRecord
  <2>2. /\ UNCHANGED <<tracing, synced, vmq>> /\ type' = "None"
        /\ forced' = IF type # "None" THEN FALSE ELSE forced
    BY <1>9, Zenon DEF fire_gc_end, writer, rotation
  <2> QED BY <2>1, <2>2, Zenon DEF StartInv
<1>10. CASE VMDone
  <2>1. vm.at = "done" /\ UNCHANGED <<tracing, forced, synced, type, vmq>>
    BY <1>10 DEF VMDone, writer, rotation
  <2>2. vm' = Idle \/ vm' = [vm EXCEPT !.at = "crashed"]
    BY <1>10 DEF VMDone
  <2>3. vm' \in VMRecord /\ vm'.at \in {"idle", "crashed"}
    BY <1>1, <2>2 DEF VMRecord, Idle
  <2> QED BY <2>1, <2>3 DEF StartInv
<1> QED BY <1>2, <1>3, <1>4, <1>5, <1>6, <1>7, <1>8, <1>9, <1>10
        DEF Next, Worker, SyncThread, VMThread

(* Tracing that is switched on at run time, by any number of threads and   *)
(* however often, lets Java threads go on only in a file that starts with  *)
(* a synchronization, or keeps the rotation due if the GC locker declined. *)
THEOREM StartsSynced == Spec => []SyncedStart
<1>1. Init => StartInv
  <2> SUFFICES ASSUME Init PROVE StartInv
    OBVIOUS
  <2>1. vm \in VMRecord /\ vm.at = "idle"
    BY DEF Init, Idle, VMRecord
  <2>2. vmq \in Seq(Operation)
    BY DEF Init
  <2> QED BY <2>1, <2>2, Zenon DEF Init, StartInv
<1>2. StartInv /\ Regions /\ [Next]_vars => (StartInv /\ Regions)'
  BY NextStartInv, NextRegions
<1>3. StartInv => SyncedStart
  BY DEF StartInv, SyncedStart
<1> QED BY <1>1, <1>2, <1>3, InitRegions, PTL DEF Spec

=============================================================================
