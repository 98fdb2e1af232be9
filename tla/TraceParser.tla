---------------------------- MODULE TraceParser ----------------------------
(***************************************************************************)
(* The analyzer's reader, TraceParser.java and TraceSlaveParser.java: one  *)
(* thread reads the buffers of a trace file (dispatch), a master assigns   *)
(* them to the ThreadLocalHeaps of the threads that wrote them, and slaves *)
(* evaluate the buffers of different heaps in parallel.  A sync buffer is  *)
(* a barrier for all of them.                                              *)
(*                                                                         *)
(* A buffer is known by its place in the file.  What its events do to the  *)
(* heap is left out; that evaluating them, or cleaning up after them, may  *)
(* throw is not.  Heaps are named after their threads: a heap is dropped   *)
(* only while it is parked, when no slave refers to it.                    *)
(*                                                                         *)
(* Definitions named ...Without... are faulty variants of the definition   *)
(* that follows them; no action uses them.                                 *)
(***************************************************************************)
EXTENDS Integers, Sequences, FiniteSetsExt

CONSTANTS Threads,         \* threads that wrote the trace
          Slaves,          \* slave threads
          Files,           \* the files that may be parsed
          MAX_QUEUE_SIZE,
          Faults,          \* TRUE: evaluating and cleaning up may throw
          Cancels          \* TRUE: the user may cancel

SyncLevel == {"NONE", "ENSURE_ORDER", "FULL"}
Buffer == [thread : Threads, sync : SyncLevel, length : Nat \ {0}]

ASSUME ParserAssumption ==
  /\ Files \subseteq Seq(Buffer)
  /\ MAX_QUEUE_SIZE \in Nat
  /\ {Faults, Cancels} \subseteq BOOLEAN

VARIABLES file,           \* the buffers in the file
          cut,            \* the file ends within its last buffer
          io,             \* where the thread is that called parse
          next,           \* the buffer it reads next
          interrupted,    \* its interrupt flag
          cancelled, error,
          size,           \* queueSize
          chunks,         \* buffers read and not yet assigned, 0 for NULL
          master,         \* where the master is
          chunk,          \* the buffer it assigns
          left,           \* heaps it has still to queue for a clean-up
          m_interrupted,
          threads,        \* threads that have a heap
          state, queue,   \* of each heap
          masterQueue,
          slave,          \* where each slave is, with which heap and buffer
          s_interrupted,
          done,           \* buffers in the order in which they were evaluated
          dirty           \* heaps with buffers evaluated since their clean-up

input == <<file, cut>>
reader == <<io, next, interrupted, cancelled>>
boss == <<master, chunk, left>>
heaps == <<threads, state, queue, masterQueue>>
history == <<done, dirty>>
vars == <<input, reader, error, size, chunks, boss, m_interrupted, heaps,
          slave, s_interrupted, history>>

-----------------------------------------------------------------------------
(* The thread that calls parse *)

(* The handler of InterruptedException: nobody is joined. *)
Raise ==
  /\ io' = "raised"
  /\ m_interrupted' = TRUE
  /\ s_interrupted' = [s \in Slaves |-> TRUE]
  /\ UNCHANGED <<next, size, chunks>>

IOReadWithoutCounting ==
  /\ io = "read"
  /\ io' = IF next <= Len(file) /\ ~error /\ ~interrupted /\ ~cancelled
           THEN "admit" ELSE "null"
  /\ UNCHANGED <<next, size, chunks, m_interrupted, s_interrupted>>

(* The header of a buffer is read and its length added to the queue size. *)
IORead ==
  /\ io = "read"
  /\ IF next <= Len(file) /\ ~error /\ ~interrupted /\ ~cancelled
     THEN size' = size + file[next].length /\ io' = "admit"
     ELSE size' = size /\ io' = "null"
  /\ UNCHANGED <<next, chunks, m_interrupted, s_interrupted>>

IOPutWithoutWaiting ==
  /\ io = "admit"
  /\ chunks' = Append(chunks, next) /\ next' = next + 1 /\ io' = "read"
  /\ UNCHANGED <<size, m_interrupted, s_interrupted>>

LastCut == cut /\ next = Len(file)

(* It waits until there is room, reads the data and queues them.  A file   *)
(* that is cut off raises an IOException, after which reading ends as if   *)
(* the file did.                                                           *)
IOPut ==
  /\ io = "admit"
  /\ \/ interrupted /\ (size > MAX_QUEUE_SIZE \/ ~LastCut) /\ Raise
     \/ /\ size <= MAX_QUEUE_SIZE /\ LastCut
        /\ io' = "null"
        /\ UNCHANGED <<next, size, chunks, m_interrupted, s_interrupted>>
     \/ /\ size <= MAX_QUEUE_SIZE /\ ~interrupted /\ ~LastCut
        /\ chunks' = Append(chunks, next) /\ next' = next + 1 /\ io' = "read"
        /\ UNCHANGED <<size, m_interrupted, s_interrupted>>

IOPutNull ==
  /\ io = "null"
  /\ \/ interrupted /\ Raise
     \/ /\ ~interrupted
        /\ chunks' = Append(chunks, 0) /\ io' = "join"
        /\ UNCHANGED <<next, size, m_interrupted, s_interrupted>>

(* master.join, then interruptSlaves.  Joining a thread that has ended     *)
(* does not look at the interrupt flag.                                    *)
IOJoin ==
  /\ io = "join"
  /\ \/ interrupted /\ master # "dead" /\ Raise
     \/ /\ master = "dead"
        /\ io' = "slaves" /\ s_interrupted' = [s \in Slaves |-> TRUE]
        /\ UNCHANGED <<next, size, chunks, m_interrupted>>

AllDead == \A s \in Slaves : slave[s].at = "dead"

IOJoinSlaves ==
  /\ io = "slaves"
  /\ \/ (IF AllDead THEN cancelled ELSE interrupted) /\ Raise
     \/ /\ AllDead /\ ~cancelled
        /\ io' = "returned"
        /\ UNCHANGED <<next, size, chunks, m_interrupted, s_interrupted>>

IO ==
  /\ IORead \/ IOPut \/ IOPutNull \/ IOJoin \/ IOJoinSlaves
  /\ UNCHANGED <<input, interrupted, cancelled, error, boss, heaps, slave, history>>

(* The cancellation token is set. *)
Cancel ==
  /\ Cancels /\ ~cancelled /\ io \notin {"returned", "raised"}
  /\ cancelled' = TRUE
  /\ UNCHANGED <<input, io, next, interrupted, error, size, chunks, boss,
                 m_interrupted, heaps, slave, s_interrupted, history>>

-----------------------------------------------------------------------------
(* The master *)

AllParked == \A h \in threads : state[h] = "PARKED"

SyncOf(c) == IF c = 0 THEN "FULL" ELSE file[c].sync

(* processQueueEntries takes the next chunk.  The NULL entry at the end of *)
(* a file asks for the same clean-up as a full synchronization.            *)
Take ==
  /\ master = "take" /\ ~m_interrupted /\ chunks # <<>>
  /\ chunk' = Head(chunks) /\ chunks' = Tail(chunks)
  /\ master' = CASE SyncOf(Head(chunks)) = "FULL" -> "park"
                 [] SyncOf(Head(chunks)) = "ENSURE_ORDER" -> "order"
                 [] OTHER -> "assign"
  /\ UNCHANGED <<left, heaps>>

OrderWithoutWaiting ==
  /\ master = "order"
  /\ master' = "assign"
  /\ UNCHANGED <<chunk, left, chunks, heaps>>

(* waitUntilParked before a buffer that ensures order. *)
Order ==
  /\ master = "order" /\ AllParked
  /\ master' = "assign"
  /\ UNCHANGED <<chunk, left, chunks, heaps>>

(* waitUntilParked and insertCleanUps. *)
Park ==
  /\ master = "park" /\ AllParked
  /\ master' = "clean" /\ left' = threads
  /\ UNCHANGED <<chunk, chunks, heaps>>

InsertCleanUpWithoutFlag ==
  /\ master = "clean"
  /\ \E h \in left : /\ left' = left \ {h}
                     /\ state' = [state EXCEPT ![h] = "IN_QUEUE"]
                     /\ masterQueue' = Append(masterQueue, h)
  /\ UNCHANGED <<master, chunk, chunks, threads, queue>>

InsertCleanUp ==
  /\ master = "clean"
  /\ \E h \in left : /\ left' = left \ {h}
                     /\ state' = [state EXCEPT ![h] = "IN_QUEUE_FOR_CLEAN_UP"]
                     /\ masterQueue' = Append(masterQueue, h)
  /\ UNCHANGED <<master, chunk, chunks, threads, queue>>

CleanedUpWithoutWaiting ==
  /\ master = "clean" /\ left = {}
  /\ IF chunk = 0
     THEN master' = "dead" /\ threads' = threads
     ELSE master' = "assign" /\ threads' \in SUBSET threads
  /\ UNCHANGED <<chunk, left, chunks, state, queue, masterQueue>>

(* The second waitUntilParked.  Heaps without a current LAB are dropped.   *)
(* At the end of the file the master interrupts itself.                    *)
CleanedUp ==
  /\ master = "clean" /\ left = {} /\ AllParked
  /\ IF chunk = 0
     THEN master' = "dead" /\ threads' = threads
     ELSE master' = "assign" /\ threads' \in SUBSET threads
  /\ UNCHANGED <<chunk, left, chunks, state, queue, masterQueue>>

(* addNewThreadLocalHeap, which queues the new heap before it has a buffer. *)
AddNewThreadLocalHeap ==
  /\ master = "assign" /\ file[chunk].thread \notin threads
  /\ threads' = threads \cup {file[chunk].thread}
  /\ state' = [state EXCEPT ![file[chunk].thread] = "IN_QUEUE"]
  /\ queue' = [queue EXCEPT ![file[chunk].thread] = <<>>]
  /\ masterQueue' = Append(masterQueue, file[chunk].thread)
  /\ UNCHANGED <<boss, chunks>>

AddToThreadLocalHeapWithoutCheck ==
  /\ master = "assign" /\ file[chunk].thread \in threads
  /\ LET h == file[chunk].thread
     IN  /\ queue' = [queue EXCEPT ![h] = Append(@, chunk)]
         /\ state' = [state EXCEPT ![h] = "IN_QUEUE"]
         /\ masterQueue' = Append(masterQueue, h)
  /\ master' = IF file[chunk].sync = "NONE" THEN "take" ELSE "await"
  /\ UNCHANGED <<chunk, left, chunks, threads>>

AddToThreadLocalHeap ==
  /\ master = "assign" /\ file[chunk].thread \in threads
  /\ LET h == file[chunk].thread
     IN  /\ queue' = [queue EXCEPT ![h] = Append(@, chunk)]
         /\ IF state[h] = "PARKED"
            THEN /\ state' = [state EXCEPT ![h] = "IN_QUEUE"]
                 /\ masterQueue' = Append(masterQueue, h)
            ELSE UNCHANGED <<state, masterQueue>>
  /\ master' = IF file[chunk].sync = "NONE" THEN "take" ELSE "await"
  /\ UNCHANGED <<chunk, left, chunks, threads>>

(* waitUntilParked after a sync buffer. *)
Await ==
  /\ master = "await" /\ state[file[chunk].thread] = "PARKED"
  /\ master' = "take"
  /\ UNCHANGED <<chunk, left, chunks, heaps>>

(* An interrupt ends the master at its next take or wait. *)
MasterInterrupted ==
  /\ m_interrupted
  /\ \/ master = "take"
     \/ master \in {"order", "park"} /\ ~AllParked
     \/ master = "clean" /\ left = {} /\ ~AllParked
     \/ master = "await" /\ state[file[chunk].thread] # "PARKED"
  /\ master' = "dead"
  /\ UNCHANGED <<chunk, left, chunks, heaps>>

Master ==
  /\ \/ Take \/ Order \/ Park \/ InsertCleanUp \/ CleanedUp
     \/ AddNewThreadLocalHeap \/ AddToThreadLocalHeap \/ Await
     \/ MasterInterrupted
  /\ UNCHANGED <<input, reader, error, size, m_interrupted, slave,
                 s_interrupted, history>>

-----------------------------------------------------------------------------
(* The slaves *)

Idle == [at |-> "take", heap |-> "none", entry |-> 0, cleanUp |-> FALSE]

TakeHeap(s) ==
  /\ slave[s].at = "take"
  /\ \/ /\ s_interrupted[s]
        /\ slave' = [slave EXCEPT ![s].at = "dead"]
        /\ UNCHANGED masterQueue
     \/ /\ ~s_interrupted[s] /\ masterQueue # <<>>
        /\ slave' = [slave EXCEPT ![s].at = "taken", ![s].heap = Head(masterQueue)]
        /\ masterQueue' = Tail(masterQueue)
  /\ UNCHANGED <<state, queue, size, error, interrupted, history>>

(* The heap has to be in one of the two queued states. *)
BeginHeap(s) ==
  /\ slave[s].at = "taken"
  /\ LET h == slave[s].heap
     IN  IF state[h] \in {"IN_QUEUE", "IN_QUEUE_FOR_CLEAN_UP"}
         THEN /\ state' = [state EXCEPT ![h] = "IN_PROCESS"]
              /\ slave' = [slave EXCEPT ![s].at = "poll",
                             ![s].cleanUp = state[h] = "IN_QUEUE_FOR_CLEAN_UP"]
         ELSE /\ slave' = [slave EXCEPT ![s].at = "throw"]
              /\ UNCHANGED state
  /\ UNCHANGED <<queue, masterQueue, size, error, interrupted, history>>

Poll(s) ==
  /\ slave[s].at = "poll"
  /\ LET h == slave[s].heap
     IN  IF queue[h] # <<>>
         THEN /\ slave' = [slave EXCEPT ![s].at = "evaluate", ![s].entry = Head(queue[h])]
              /\ queue' = [queue EXCEPT ![h] = Tail(@)]
         ELSE /\ slave' = [slave EXCEPT ![s].at = IF slave[s].cleanUp THEN "clean" ELSE "park"]
              /\ UNCHANGED queue
  /\ UNCHANGED <<state, masterQueue, size, error, interrupted, history>>

(* The events of the buffer have been evaluated; the reader gets the room. *)
Evaluate(s) ==
  /\ slave[s].at = "evaluate"
  /\ \/ /\ slave' = [slave EXCEPT ![s].at = "poll", ![s].entry = 0]
        /\ size' = size - file[slave[s].entry].length
        /\ done' = Append(done, slave[s].entry)
        /\ dirty' = dirty \cup {slave[s].heap}
     \/ /\ Faults
        /\ slave' = [slave EXCEPT ![s].at = "throw"]
        /\ UNCHANGED <<size, history>>
  /\ UNCHANGED <<state, queue, masterQueue, error, interrupted>>

CleanUpWithoutReport(s) ==
  /\ slave[s].at = "clean"
  /\ \/ /\ slave' = [slave EXCEPT ![s].at = "park"]
        /\ dirty' = dirty \ {slave[s].heap}
     \/ /\ Faults
        /\ slave' = [slave EXCEPT ![s].at = "dead"]
        /\ UNCHANGED dirty
  /\ UNCHANGED <<state, queue, masterQueue, size, error, interrupted, done>>

(* The handlers clean up; an exception leaves the heap in process. *)
CleanUp(s) ==
  /\ slave[s].at = "clean"
  /\ \/ /\ slave' = [slave EXCEPT ![s].at = "park"]
        /\ dirty' = dirty \ {slave[s].heap}
     \/ /\ Faults
        /\ slave' = [slave EXCEPT ![s].at = "throw"]
        /\ UNCHANGED dirty
  /\ UNCHANGED <<state, queue, masterQueue, size, error, interrupted, done>>

ParkHeapWithoutCheck(s) ==
  /\ slave[s].at = "park"
  /\ state' = [state EXCEPT ![slave[s].heap] = "PARKED"]
  /\ slave' = [slave EXCEPT ![s] = Idle]
  /\ UNCHANGED <<queue, masterQueue, size, error, interrupted, history>>

(* parkThreadLocalHeap *)
ParkHeap(s) ==
  /\ slave[s].at = "park"
  /\ LET h == slave[s].heap
     IN  IF queue[h] = <<>>
         THEN /\ state' = [state EXCEPT ![h] = "PARKED"]
              /\ UNCHANGED masterQueue
         ELSE /\ state' = [state EXCEPT ![h] = "IN_QUEUE"]
              /\ masterQueue' = Append(masterQueue, h)
  /\ slave' = [slave EXCEPT ![s] = Idle]
  /\ UNCHANGED <<queue, size, error, interrupted, history>>

(* abort: the first error is kept, then its reporter interrupts the reader. *)
Report(s) ==
  /\ slave[s].at = "throw"
  /\ error' = TRUE
  /\ slave' = [slave EXCEPT ![s].at = IF error THEN "dead" ELSE "abort"]
  /\ UNCHANGED <<state, queue, masterQueue, size, interrupted, history>>

Abort(s) ==
  /\ slave[s].at = "abort"
  /\ interrupted' = TRUE
  /\ slave' = [slave EXCEPT ![s].at = "dead"]
  /\ UNCHANGED <<state, queue, masterQueue, size, error, history>>

Slave(s) ==
  /\ \/ TakeHeap(s) \/ BeginHeap(s) \/ Poll(s) \/ Evaluate(s) \/ CleanUp(s)
     \/ ParkHeap(s) \/ Report(s) \/ Abort(s)
  /\ UNCHANGED <<input, io, next, cancelled, chunks, boss, m_interrupted,
                 threads, s_interrupted>>

-----------------------------------------------------------------------------

Init ==
  /\ file \in Files
  /\ cut \in BOOLEAN
  /\ io = "read" /\ next = 1
  /\ interrupted = FALSE /\ cancelled = FALSE /\ error = FALSE
  /\ size = 0 /\ chunks = <<>>
  /\ master = "take" /\ chunk = 0 /\ left = {} /\ m_interrupted = FALSE
  /\ threads = {} /\ masterQueue = <<>>
  /\ state = [h \in Threads |-> "PARKED"]
  /\ queue = [h \in Threads |-> <<>>]
  /\ slave = [s \in Slaves |-> Idle]
  /\ s_interrupted = [s \in Slaves |-> FALSE]
  /\ done = <<>> /\ dirty = {}

Ended == io \in {"returned", "raised"} /\ master = "dead" /\ AllDead

(* A buffer longer than the whole queue: the reader waits for room that no *)
(* evaluation will give, and everything read before has been evaluated.    *)
Starved ==
  /\ io = "admit" /\ file[next].length > MAX_QUEUE_SIZE
  /\ ~error /\ {done[i] : i \in 1..Len(done)} = 1..next - 1

Next ==
  \/ IO \/ Cancel \/ Master
  \/ \E s \in Slaves : Slave(s)
  \/ (Ended \/ Starved) /\ UNCHANGED vars

Spec == Init /\ [][Next]_vars

(* Java threads that can go on do so. *)
FairSpec ==
  /\ Spec
  /\ WF_vars(IO) /\ WF_vars(Master)
  /\ \A s \in Slaves : WF_vars(Slave(s))

-----------------------------------------------------------------------------
(* Properties *)

(* Type correctness. *)
TypeOK ==
  /\ file \in Seq(Buffer) /\ cut \in BOOLEAN
  /\ io \in {"read", "admit", "null", "join", "slaves", "returned", "raised"}
  /\ next \in 1..Len(file) + 1
  /\ {interrupted, cancelled, error, m_interrupted} \subseteq BOOLEAN
  /\ size \in Nat
  /\ chunks \in Seq(0..Len(file))
  /\ master \in {"take", "order", "park", "clean", "assign", "await", "dead"}
  /\ chunk \in 0..Len(file) /\ (master \in {"assign", "order", "await"} => chunk # 0)
  /\ left \subseteq threads /\ threads \subseteq Threads
  /\ state \in [Threads -> {"PARKED", "IN_QUEUE", "IN_QUEUE_FOR_CLEAN_UP", "IN_PROCESS"}]
  /\ queue \in [Threads -> Seq(1..Len(file))]
  /\ masterQueue \in Seq(Threads)
  /\ slave \in [Slaves ->
       [at : {"take", "taken", "poll", "evaluate", "clean", "park", "throw", "abort", "dead"},
        heap : Threads \cup {"none"}, entry : 0..Len(file), cleanUp : BOOLEAN]]
  /\ s_interrupted \in [Slaves -> BOOLEAN]
  /\ done \in Seq(1..Len(file)) /\ dirty \subseteq Threads

(* Where a slave is between taking a heap and letting go of it. *)
Holding == {"taken", "poll", "evaluate", "clean", "park"}

(* A heap, which no lock protects while it is processed, belongs to one    *)
(* slave: no two slaves hold it, and a queued heap is in the master queue  *)
(* once, so that no slave meets the error of an unexpected state.          *)
HeapOwned ==
  /\ \A s, r \in Slaves :
       s # r /\ {slave[s].at, slave[r].at} \subseteq Holding
         => slave[s].heap # slave[r].heap
  /\ \A s \in Slaves : slave[s].at = "taken" =>
       state[slave[s].heap] \in {"IN_QUEUE", "IN_QUEUE_FOR_CLEAN_UP"}
  /\ \A i, j \in 1..Len(masterQueue) :
       i # j => masterQueue[i] # masterQueue[j]

(* No heap "that is parked, but has an element in the queue which contains *)
(* important events that will be missed" (parkThreadLocalHeap), although   *)
(* the master adds buffers while a slave is about to park.                 *)
NoneStranded ==
  \A h \in threads : state[h] = "PARKED" => queue[h] = <<>>

(* Buffers of one thread are evaluated in the order of the file, and none  *)
(* twice.                                                                  *)
ThreadOrder ==
  \A i, j \in 1..Len(done) :
    i < j /\ file[done[i]].thread = file[done[j]].thread => done[i] < done[j]

(* A sync buffer is evaluated when all buffers before it have been and no  *)
(* other slave is evaluating or cleaning up: GC_START sets the base that   *)
(* all slaves decode addresses with.                                       *)
SyncIsolated ==
  \A s \in Slaves :
    slave[s].at = "evaluate" /\ file[slave[s].entry].sync # "NONE" =>
      /\ {done[i] : i \in 1..Len(done)} = 1..slave[s].entry - 1
      /\ \A r \in Slaves \ {s} : slave[r].at \notin {"evaluate", "clean"}

(* A full synchronization is evaluated when every heap has been cleaned up *)
(* after its last buffer.                                                  *)
CleanBeforeFull ==
  \A s \in Slaves :
    slave[s].at = "evaluate" /\ file[slave[s].entry].sync = "FULL" => dirty = {}

(* When parse returns, no error has been reported, every buffer that the   *)
(* file holds in full has been evaluated, every heap has been cleaned up   *)
(* after its last buffer, and no slave is left.                            *)
ReturnsComplete ==
  io = "returned" =>
    /\ ~error
    /\ {done[i] : i \in 1..Len(done)} = 1..Len(file) - (IF cut THEN 1 ELSE 0)
    /\ dirty = {} /\ AllDead

(* The limit of the queue: the buffers that have been read and are not    *)
(* yet evaluated, wherever they are, hold at most MAX_QUEUE_SIZE bytes.    *)
QueueLimited ==
  LET held == (1..next - 1) \ {done[i] : i \in 1..Len(done)}
  IN  MapThenSumSet(LAMBDA b : file[b].length, held) <= MAX_QUEUE_SIZE

(* Every thread ends, whatever an evaluation or a clean-up throws and      *)
(* whenever the user cancels: the reader is not left waiting for room that *)
(* a dead slave will not give back, nor the master for a heap that stays   *)
(* in process.  The one exception is a buffer longer than MAX_QUEUE_SIZE,  *)
(* for which the reader waits for ever, even when the user cancels, unless *)
(* a slave throws.                                                         *)
ParseEnds == <>[](Ended \/ Starved)
=============================================================================
