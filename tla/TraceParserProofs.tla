------------------------- MODULE TraceParserProofs -------------------------
(***************************************************************************)
(* That a heap belongs to one slave and that none is stranded, for any     *)
(* number of threads, slaves and buffers, any lengths and any limit.       *)
(*                                                                         *)
(* The state of a heap says who may touch it: a parked heap is neither     *)
(* queued nor held, a queued one is in the master queue or taken, one in   *)
(* process is held.  HeapOwned alone is not inductive: that a heap can be  *)
(* queued again without meeting its holder needs the state of the holder's *)
(* heap (SlaveInv), that of the queued ones (QueueInv), and that the heaps *)
(* the master queues for a clean-up are parked (MasterInv).                *)
(***************************************************************************)
EXTENDS TraceParser, TLAPS

Queued == {"IN_QUEUE", "IN_QUEUE_FOR_CLEAN_UP"}
States == Queued \cup {"PARKED", "IN_PROCESS"}

SlaveRecord == [at : {"take", "taken", "poll", "evaluate", "clean", "park",
                      "throw", "abort", "dead"},
                heap : Threads \cup {"none"}, entry : Nat, cleanUp : BOOLEAN]

Types ==
  /\ file \in Seq(Buffer) /\ next \in Nat \ {0}
  /\ next <= Len(file) + 1 /\ (io = "admit" => next <= Len(file))
  /\ chunks \in Seq(0..Len(file)) /\ chunk \in 0..Len(file)
  /\ master \in {"assign", "order", "await"} => chunk # 0
  /\ threads \subseteq Threads /\ left \subseteq Threads
  /\ state \in [Threads -> States] /\ queue \in [Threads -> Seq(Nat)]
  /\ masterQueue \in Seq(Threads)
  /\ slave \in [Slaves -> SlaveRecord]

Holds(s, h) == slave[s].at \in Holding /\ slave[s].heap = h

QueueInv ==
  /\ \A i, j \in 1..Len(masterQueue) : i # j => masterQueue[i] # masterQueue[j]
  /\ \A i \in 1..Len(masterQueue) :
       /\ state[masterQueue[i]] \in Queued
       /\ \A s \in Slaves : ~Holds(s, masterQueue[i])

SlaveInv ==
  /\ \A s \in Slaves : slave[s].at \in Holding =>
       /\ slave[s].heap \in Threads
       /\ IF slave[s].at = "taken" THEN state[slave[s].heap] \in Queued
                                   ELSE state[slave[s].heap] = "IN_PROCESS"
  /\ \A s, r \in Slaves : s # r /\ slave[s].at \in Holding /\ slave[r].at \in Holding
                            => slave[s].heap # slave[r].heap

MasterInv ==
  /\ \A h \in Threads \ threads : state[h] = "PARKED"
  /\ master = "clean" => left \subseteq threads /\ \A h \in left : state[h] = "PARKED"

ParkedEmpty == \A h \in Threads : state[h] = "PARKED" => queue[h] = <<>>

IInv == Types /\ QueueInv /\ SlaveInv /\ MasterInv /\ ParkedEmpty

-----------------------------------------------------------------------------
(* What a parked heap can rely on *)

LEMMA ParkedIsFree ==
  ASSUME Types, QueueInv, SlaveInv, NEW h \in Threads, state[h] = "PARKED"
  PROVE  /\ \A i \in 1..Len(masterQueue) : masterQueue[i] # h
         /\ \A s \in Slaves : ~Holds(s, h)
<1>1. "PARKED" \notin Queued /\ "PARKED" # "IN_PROCESS"
  BY DEF Queued
<1> QED
  BY <1>1 DEF QueueInv, SlaveInv, Holds

(* A parked heap may be queued. *)
LEMMA QueueParked ==
  ASSUME Types, QueueInv, SlaveInv, NEW h \in Threads, state[h] = "PARKED",
         NEW q \in Queued, state' = [state EXCEPT ![h] = q],
         masterQueue' = Append(masterQueue, h), slave' = slave
  PROVE  /\ QueueInv' /\ SlaveInv' /\ masterQueue' \in Seq(Threads)
         /\ state' \in [Threads -> States]
<1>1. /\ \A i \in 1..Len(masterQueue) : masterQueue[i] # h
      /\ \A s \in Slaves : ~Holds(s, h)
  BY ParkedIsFree
<1>2. /\ state \in [Threads -> States] /\ masterQueue \in Seq(Threads)
      /\ slave \in [Slaves -> SlaveRecord] /\ Len(masterQueue) \in Nat
  BY DEF Types
<1>3. /\ state' \in [Threads -> States] /\ state'[h] = q
      /\ \A g \in Threads : g # h => state'[g] = state[g]
  BY <1>2 DEF States
<1>4. /\ masterQueue' \in Seq(Threads) /\ Len(masterQueue') = Len(masterQueue) + 1
      /\ masterQueue'[Len(masterQueue) + 1] = h
      /\ \A i \in 1..Len(masterQueue) : masterQueue'[i] = masterQueue[i]
                                        /\ masterQueue[i] \in Threads
  BY <1>2
<1>5. \A i \in 1..Len(masterQueue') : i = Len(masterQueue) + 1 \/ i \in 1..Len(masterQueue)
  BY <1>2, <1>4
<1>6. \A s, g : Holds(s, g)' <=> Holds(s, g)
  BY DEF Holds
<1>7. QueueInv'
  <2>1. \A i, j \in 1..Len(masterQueue') : i # j => masterQueue'[i] # masterQueue'[j]
    BY <1>1, <1>4, <1>5 DEF QueueInv
  <2>2. \A i \in 1..Len(masterQueue') : state'[masterQueue'[i]] \in Queued
    BY <1>1, <1>3, <1>4, <1>5 DEF QueueInv
  <2>3. \A i \in 1..Len(masterQueue') : \A s \in Slaves : ~Holds(s, masterQueue'[i])
    BY <1>1, <1>4, <1>5 DEF QueueInv
  <2> QED
    BY <1>6, <2>1, <2>2, <2>3 DEF QueueInv, Holds
<1>8. SlaveInv'
  <2>1. \A s \in Slaves : slave[s].at \in Holding =>
          slave[s].heap \in Threads /\ state'[slave[s].heap] = state[slave[s].heap]
    BY <1>1, <1>3 DEF SlaveInv, Holds
  <2> QED
    BY <2>1 DEF SlaveInv
<1> QED
  BY <1>3, <1>4, <1>7, <1>8

-----------------------------------------------------------------------------
(* The reader *)

LEMMA IOStep == IInv /\ IO => IInv'
<1> SUFFICES ASSUME IInv, IO PROVE IInv'
  OBVIOUS
<1>1. UNCHANGED <<file, master, chunk, left, threads, state, queue, masterQueue, slave>>
  BY DEF IO, input, boss, heaps
<1>2. Types'
  <2>1. /\ Len(file) \in Nat /\ next \in Nat \ {0} /\ next <= Len(file) + 1
        /\ chunks \in Seq(0..Len(file)) /\ 0 \in 0..Len(file)
        /\ io = "admit" => next <= Len(file) /\ next \in 0..Len(file)
    BY DEF IInv, Types
  <2>3. /\ Append(chunks, 0) \in Seq(0..Len(file))
        /\ io = "admit" => /\ Append(chunks, next) \in Seq(0..Len(file))
                           /\ next + 1 \in Nat \ {0} /\ next + 1 <= Len(file) + 1
    BY <2>1
  <2>2. /\ next' \in Nat \ {0} /\ next' <= Len(file) + 1
        /\ io' = "admit" => next' <= Len(file)
        /\ chunks' \in Seq(0..Len(file))
    <3>1. CASE IORead
      BY <2>1, <3>1 DEF IORead
    <3>2. CASE IOPut
      BY <2>1, <2>3, <3>2, Zenon DEF IOPut, Raise
    <3>3. CASE IOPutNull
      BY <2>1, <2>3, <3>3, Zenon DEF IOPutNull, Raise
    <3>4. CASE IOJoin
      BY <2>1, <3>4 DEF IOJoin, Raise
    <3>5. CASE IOJoinSlaves
      BY <2>1, <3>5 DEF IOJoinSlaves, Raise
    <3> QED
      BY <3>1, <3>2, <3>3, <3>4, <3>5 DEF IO
  <2> QED
    BY <1>1, <2>2 DEF IInv, Types
<1> QED
  BY <1>1, <1>2 DEF IInv, QueueInv, SlaveInv, MasterInv, ParkedEmpty, Holds

-----------------------------------------------------------------------------
(* The master *)

(* Steps of the master that leave the heaps alone *)
LEMMA MasterOnlyStep ==
  ASSUME IInv, Take \/ Order \/ Await \/ MasterInterrupted \/ Park,
         UNCHANGED <<file, io, next, slave>>
  PROVE  IInv'
<1>1. UNCHANGED <<threads, state, queue, masterQueue>>
  BY DEF Take, Order, Await, MasterInterrupted, Park, heaps
<1>2. Types'
  <2>1. /\ Len(file) \in Nat /\ chunks \in Seq(0..Len(file)) /\ chunk \in 0..Len(file)
        /\ left \subseteq Threads /\ threads \subseteq Threads
        /\ master \in {"assign", "order", "await"} => chunk # 0
    BY DEF IInv, Types
  <2>2. /\ chunks' \in Seq(0..Len(file)) /\ chunk' \in 0..Len(file)
        /\ left' \subseteq Threads
        /\ master' \in {"assign", "order", "await"} => chunk' # 0
    <3>1. CASE Take
      <4>1. /\ chunk' = Head(chunks) /\ chunks' = Tail(chunks) /\ chunks # <<>>
            /\ left' = left
        BY <3>1 DEF Take
      <4>2. Head(chunks) \in 0..Len(file) /\ Tail(chunks) \in Seq(0..Len(file))
        BY <2>1, <4>1
      <4>3. Head(chunks) = 0 => master' = "park"
        BY <3>1 DEF Take, SyncOf
      <4> QED
        BY <2>1, <4>1, <4>2, <4>3
    <3>2. CASE Order \/ Await \/ MasterInterrupted \/ Park
      BY <2>1, <3>2 DEF Order, Await, MasterInterrupted, Park
    <3> QED
      BY <3>1, <3>2
  <2> QED
    BY <1>1, <2>2 DEF IInv, Types
<1>3. MasterInv'
  <2>1. \A h \in Threads \ threads' : state'[h] = "PARKED"
    BY <1>1 DEF IInv, MasterInv
  <2>2. master' = "clean" => left' \subseteq threads'
                             /\ \A h \in left' : state'[h] = "PARKED"
    <3>1. CASE Park
      BY <1>1, <3>1 DEF Park, AllParked
    <3>2. CASE Take \/ Order \/ Await \/ MasterInterrupted
      BY <3>2 DEF Take, Order, Await, MasterInterrupted
    <3> QED
      BY <3>1, <3>2
  <2> QED
    BY <2>1, <2>2 DEF MasterInv
<1> QED
  BY <1>1, <1>2, <1>3 DEF IInv, QueueInv, SlaveInv, ParkedEmpty, Holds

(* The heaps queued for a clean-up are parked ones. *)
LEMMA InsertCleanUpStep ==
  ASSUME IInv, InsertCleanUp, UNCHANGED <<file, io, next, slave>>
  PROVE  IInv'
<1>1. PICK h \in left : /\ left' = left \ {h}
                        /\ state' = [state EXCEPT ![h] = "IN_QUEUE_FOR_CLEAN_UP"]
                        /\ masterQueue' = Append(masterQueue, h)
  BY Zenon DEF InsertCleanUp
<1>2. /\ master = "clean" /\ UNCHANGED <<master, chunk, chunks, threads, queue>>
  BY DEF InsertCleanUp
<1>3. /\ h \in threads /\ left \subseteq threads /\ threads \subseteq Threads
      /\ \A g \in left : state[g] = "PARKED"
      /\ state \in [Threads -> States] /\ "IN_QUEUE_FOR_CLEAN_UP" \in Queued
  BY <1>2 DEF IInv, Types, MasterInv, Queued
<1>4. /\ QueueInv' /\ SlaveInv' /\ masterQueue' \in Seq(Threads)
      /\ state' \in [Threads -> States]
  BY <1>1, <1>3, QueueParked, Zenon DEF IInv
<1>5. Types'
  BY <1>1, <1>2, <1>3, <1>4 DEF IInv, Types
<1>6. MasterInv'
  <2>1. \A g \in Threads : g # h => state'[g] = state[g]
    BY <1>1, <1>3
  <2> QED
    BY <1>1, <1>2, <1>3, <2>1 DEF IInv, MasterInv
<1>7. ParkedEmpty'
  BY <1>1, <1>2, <1>3 DEF IInv, ParkedEmpty
<1> QED
  BY <1>4, <1>5, <1>6, <1>7 DEF IInv

(* The heaps that are dropped are parked. *)
LEMMA CleanedUpStep ==
  ASSUME IInv, CleanedUp, UNCHANGED <<file, io, next, slave>>
  PROVE  IInv'
<1>1. /\ master = "clean" /\ AllParked /\ threads' \subseteq threads
      /\ UNCHANGED <<chunk, left, chunks, state, queue, masterQueue>>
      /\ master' = "assign" => chunk # 0
      /\ master' \in {"assign", "dead"}
  BY DEF CleanedUp
<1>2. Types'
  BY <1>1 DEF IInv, Types
<1>3. MasterInv'
  BY <1>1 DEF IInv, MasterInv, AllParked
<1> QED
  BY <1>1, <1>2, <1>3 DEF IInv, QueueInv, SlaveInv, ParkedEmpty, Holds

(* The chunk that is being assigned is a buffer of the file. *)
LEMMA ChunkThread ==
  ASSUME Types, master = "assign"
  PROVE  file[chunk].thread \in Threads /\ chunk \in Nat
<1>1. chunk \in 1..Len(file) /\ file \in Seq(Buffer)
  BY DEF Types
<1>2. file[chunk] \in Buffer
  BY <1>1
<1> QED
  BY <1>1, <1>2 DEF Buffer

(* A thread seen for the first time: nobody has its heap. *)
LEMMA AddNewThreadLocalHeapStep ==
  ASSUME IInv, AddNewThreadLocalHeap, UNCHANGED <<file, io, next, slave>>
  PROVE  IInv'
<1> DEFINE h == file[chunk].thread
<1>1. /\ master = "assign" /\ h \notin threads
      /\ threads' = threads \cup {h}
      /\ state' = [state EXCEPT ![h] = "IN_QUEUE"]
      /\ queue' = [queue EXCEPT ![h] = <<>>]
      /\ masterQueue' = Append(masterQueue, h)
      /\ UNCHANGED <<master, chunk, left, chunks>>
  BY DEF AddNewThreadLocalHeap, boss
<1>2. h \in Threads /\ state[h] = "PARKED" /\ "IN_QUEUE" \in Queued
  BY <1>1, ChunkThread DEF IInv, MasterInv, Queued
<1> HIDE DEF h
<1>3. /\ QueueInv' /\ SlaveInv' /\ masterQueue' \in Seq(Threads)
      /\ state' \in [Threads -> States]
  BY <1>1, <1>2, QueueParked, Zenon DEF IInv
<1>4. state \in [Threads -> States] /\ queue \in [Threads -> Seq(Nat)] /\ <<>> \in Seq(Nat)
  BY DEF IInv, Types
<1>5. Types'
  BY <1>1, <1>2, <1>3, <1>4 DEF IInv, Types
<1>6. MasterInv'
  BY <1>1, <1>4 DEF IInv, MasterInv
<1>7. ParkedEmpty'
  BY <1>1, <1>4 DEF IInv, ParkedEmpty
<1> QED
  BY <1>3, <1>5, <1>6, <1>7 DEF IInv

(* A parked heap that gets a buffer is queued; to one that is queued or in *)
(* process the buffer is only added.                                       *)
LEMMA AddToThreadLocalHeapStep ==
  ASSUME IInv, AddToThreadLocalHeap, UNCHANGED <<file, io, next, slave>>
  PROVE  IInv'
<1> DEFINE h == file[chunk].thread
<1>1. /\ master = "assign" /\ h \in threads
      /\ queue' = [queue EXCEPT ![h] = Append(@, chunk)]
      /\ IF state[h] = "PARKED"
         THEN /\ state' = [state EXCEPT ![h] = "IN_QUEUE"]
              /\ masterQueue' = Append(masterQueue, h)
         ELSE UNCHANGED <<state, masterQueue>>
      /\ master' \in {"take", "await"}
      /\ UNCHANGED <<chunk, left, chunks, threads>>
  BY DEF AddToThreadLocalHeap
<1>2. h \in Threads /\ chunk \in Nat /\ "IN_QUEUE" \in Queued
  BY <1>1, ChunkThread DEF IInv, Queued
<1> HIDE DEF h
<1>3. /\ QueueInv' /\ SlaveInv' /\ masterQueue' \in Seq(Threads)
      /\ state' \in [Threads -> States]
  <2>1. CASE state[h] = "PARKED"
    BY <1>1, <1>2, <2>1, QueueParked DEF IInv
  <2>2. CASE state[h] # "PARKED"
    BY <1>1, <2>2 DEF IInv, Types, QueueInv, SlaveInv, Holds
  <2> QED
    BY <2>1, <2>2
<1>4. state \in [Threads -> States] /\ queue \in [Threads -> Seq(Nat)]
  BY DEF IInv, Types
<1>5. queue' \in [Threads -> Seq(Nat)] /\ \A g \in Threads : g # h => queue'[g] = queue[g]
  BY <1>1, <1>2, <1>4
<1>6. Types'
  BY <1>1, <1>3, <1>5, SMTT(30) DEF IInv, Types
<1>7. state'[h] # "PARKED" /\ \A g \in Threads : g # h => state'[g] = state[g]
  BY <1>1, <1>2, <1>4
<1>8. MasterInv'
  BY <1>1, <1>7 DEF IInv, MasterInv
<1>9. ParkedEmpty'
  BY <1>2, <1>5, <1>7, Zenon DEF IInv, ParkedEmpty
<1> QED
  BY <1>3, <1>6, <1>8, <1>9 DEF IInv

-----------------------------------------------------------------------------
(* The slaves *)

(* What a step of one slave leaves alone *)
OnlySlave(s) ==
  /\ UNCHANGED <<file, io, next, chunks, master, chunk, left, threads>>
  /\ slave' \in [Slaves -> SlaveRecord]
  /\ \A r \in Slaves : r # s => slave'[r] = slave[r]

(* Steps that move a slave on without touching the state of a heap: it     *)
(* lets go of its heap or works on it after having begun with it.          *)
LEMMA SlaveMoves ==
  ASSUME IInv, NEW s \in Slaves, OnlySlave(s), UNCHANGED <<state, masterQueue>>,
         slave'[s].at \in Holding =>
           /\ slave'[s].at # "taken" /\ slave[s].at \in Holding \ {"taken"}
           /\ slave'[s].heap = slave[s].heap,
         queue' \in [Threads -> Seq(Nat)], ParkedEmpty'
  PROVE  IInv'
<1>1. Types'
  BY DEF IInv, Types, OnlySlave
<1>2. \A r \in Slaves : slave'[r].at \in Holding =>
        /\ slave[r].at \in Holding /\ slave'[r].heap = slave[r].heap
        /\ slave'[r].at = "taken" <=> slave[r].at = "taken"
  BY DEF OnlySlave
<1>3. QueueInv'
  BY <1>2 DEF IInv, QueueInv, Holds
<1>4. SlaveInv'
  BY <1>2 DEF IInv, SlaveInv
<1>5. MasterInv'
  BY DEF IInv, MasterInv, OnlySlave
<1> QED
  BY <1>1, <1>3, <1>4, <1>5 DEF IInv

(* A slave takes the first heap of the master queue, or ends. *)
LEMMA TakeHeapStep ==
  ASSUME IInv, NEW s \in Slaves, TakeHeap(s),
         UNCHANGED <<file, io, next, chunks, master, chunk, left, threads>>
  PROVE  IInv'
<1>1. /\ slave[s].at = "take" /\ UNCHANGED <<state, queue>>
      /\ slave \in [Slaves -> SlaveRecord] /\ slave[s] \in SlaveRecord
      /\ masterQueue \in Seq(Threads)
  BY DEF TakeHeap, IInv, Types
<1>2. CASE slave' = [slave EXCEPT ![s].at = "dead"] /\ UNCHANGED masterQueue
  <2>1. slave' \in [Slaves -> SlaveRecord] /\ slave'[s].at = "dead"
        /\ \A r \in Slaves : r # s => slave'[r] = slave[r]
    BY <1>1, <1>2, Zenon DEF SlaveRecord
  <2>2. OnlySlave(s) /\ slave'[s].at \notin Holding
    BY <2>1 DEF OnlySlave, Holding
  <2>3. ParkedEmpty' /\ queue' \in [Threads -> Seq(Nat)]
    BY <1>1 DEF IInv, Types, ParkedEmpty
  <2> QED
    BY <1>1, <1>2, <2>2, <2>3, SlaveMoves
<1>3. CASE /\ masterQueue # <<>>
           /\ slave' = [slave EXCEPT ![s].at = "taken", ![s].heap = Head(masterQueue)]
           /\ masterQueue' = Tail(masterQueue)
  <2> DEFINE h == masterQueue[1]
             n == Len(masterQueue)
  <2>1. n \in Nat /\ n >= 1 /\ h \in Threads /\ Head(masterQueue) = h
    BY <1>1, <1>3
  <2>2. /\ masterQueue' \in Seq(Threads) /\ Len(masterQueue') = n - 1
        /\ \A i \in 1..(n - 1) : masterQueue'[i] = masterQueue[i + 1]
    BY <1>1, <1>3, <2>1
  <2>3. /\ slave' \in [Slaves -> SlaveRecord]
        /\ slave'[s].at = "taken" /\ slave'[s].heap = h
        /\ \A r \in Slaves : r # s => slave'[r] = slave[r]
    BY <1>1, <1>3, <2>1, Zenon DEF SlaveRecord
  <2> HIDE DEF h, n
  <2>4. /\ state[h] \in Queued /\ \A r \in Slaves : ~Holds(r, h)
        /\ \A i \in 2..n : masterQueue[i] # h
    BY <2>1 DEF IInv, QueueInv, h, n
  <2>5. \A i \in 1..(n - 1) : i + 1 \in 1..n /\ i + 1 \in 2..n
    BY <2>1
  <2>6. QueueInv'
    <3>1. \A i, j \in 1..(n - 1) : i # j => masterQueue'[i] # masterQueue'[j]
      <4>1. \A i, j \in 1..(n - 1) : i # j => i + 1 # j + 1
        BY <2>1
      <4> QED
        BY <2>2, <2>5, <4>1, SMTT(30) DEF IInv, QueueInv, n
    <3>2. \A i \in 1..(n - 1) : /\ state[masterQueue'[i]] \in Queued
                                /\ masterQueue'[i] # h
                                /\ \A r \in Slaves : ~Holds(r, masterQueue'[i])
      BY <2>2, <2>4, <2>5 DEF IInv, QueueInv, n
    <3>3. \A i \in 1..(n - 1) : \A r \in Slaves :
            ~(slave'[r].at \in Holding /\ slave'[r].heap = masterQueue'[i])
      BY <2>3, <3>2 DEF Holds
    <3> QED
      BY <1>1, <2>2, <3>1, <3>2, <3>3 DEF QueueInv, Holds
  <2>7. SlaveInv'
    BY <1>1, <2>1, <2>3, <2>4 DEF IInv, SlaveInv, Holds
  <2>8. Types'
    BY <1>1, <2>2, <2>3 DEF IInv, Types
  <2> QED
    BY <1>1, <2>6, <2>7, <2>8 DEF IInv, MasterInv, ParkedEmpty
<1> QED
  BY <1>2, <1>3 DEF TakeHeap

(* The heap taken is in a queued state: the error path is not taken. *)
LEMMA BeginHeapStep ==
  ASSUME IInv, NEW s \in Slaves, BeginHeap(s),
         UNCHANGED <<file, io, next, chunks, master, chunk, left, threads>>
  PROVE  IInv'
<1> DEFINE h == slave[s].heap
<1>1. /\ slave[s].at = "taken" /\ UNCHANGED <<queue, masterQueue>>
      /\ slave \in [Slaves -> SlaveRecord] /\ slave[s] \in SlaveRecord
      /\ state \in [Threads -> States]
  BY DEF BeginHeap, IInv, Types
<1>2. h \in Threads /\ state[h] \in Queued /\ "taken" \in Holding
  BY <1>1 DEF IInv, SlaveInv, Holding
<1>3. /\ state' = [state EXCEPT ![h] = "IN_PROCESS"]
      /\ slave' = [slave EXCEPT ![s].at = "poll",
                     ![s].cleanUp = state[h] = "IN_QUEUE_FOR_CLEAN_UP"]
  BY <1>2 DEF BeginHeap, Queued
<1>4. (state[h] = "IN_QUEUE_FOR_CLEAN_UP") \in BOOLEAN
  OBVIOUS
<1>5. /\ slave' \in [Slaves -> SlaveRecord]
      /\ slave'[s].at = "poll" /\ slave'[s].heap = h
      /\ \A r \in Slaves : r # s => slave'[r] = slave[r]
  BY <1>1, <1>3, <1>4, ZenonT(60) DEF SlaveRecord
<1>6. \A r \in Slaves : r # s => ~Holds(r, h)
  BY <1>1, <1>2 DEF IInv, SlaveInv, Holds
<1>7. \A i \in 1..Len(masterQueue) : masterQueue[i] # h /\ masterQueue[i] \in Threads
  BY <1>1, <1>2 DEF IInv, Types, QueueInv, Holds
<1> HIDE DEF h
<1>8. /\ state' \in [Threads -> States] /\ state'[h] = "IN_PROCESS"
      /\ \A g \in Threads : g # h => state'[g] = state[g]
  BY <1>1, <1>2, <1>3 DEF States
<1>9. QueueInv'
  <2>1. \A i \in 1..Len(masterQueue) : \A r \in Slaves :
          ~(slave'[r].at \in Holding /\ slave'[r].heap = masterQueue[i])
    BY <1>5, <1>7 DEF IInv, QueueInv, Holds
  <2> QED
    BY <1>1, <1>7, <1>8, <2>1 DEF IInv, QueueInv, Holds
<1>10. SlaveInv'
  <2>1. \A r \in Slaves : r # s /\ slave[r].at \in Holding =>
          slave[r].heap # h /\ slave[r].heap \in Threads
    BY <1>6 DEF IInv, SlaveInv, Holds
  <2>2. "poll" # "taken"
    OBVIOUS
  <2> QED
    BY <1>2, <1>5, <1>8, <2>1, <2>2 DEF IInv, SlaveInv
<1>11. Types'
  BY <1>1, <1>5, <1>8 DEF IInv, Types
<1>12. state[h] # "PARKED" /\ state'[h] # "PARKED"
  BY <1>2, <1>8 DEF Queued
<1>13. MasterInv' /\ ParkedEmpty'
  BY <1>1, <1>2, <1>8, <1>12 DEF IInv, Types, MasterInv, ParkedEmpty
<1> QED
  BY <1>9, <1>10, <1>11, <1>13 DEF IInv

(* A poll takes an entry off the queue of a heap in process. *)
LEMMA PollStep ==
  ASSUME IInv, NEW s \in Slaves, Poll(s),
         UNCHANGED <<file, io, next, chunks, master, chunk, left, threads>>
  PROVE  IInv'
<1> DEFINE h == slave[s].heap
<1>1. /\ slave[s].at = "poll" /\ UNCHANGED <<state, masterQueue>>
      /\ slave \in [Slaves -> SlaveRecord] /\ slave[s] \in SlaveRecord
      /\ queue \in [Threads -> Seq(Nat)]
  BY DEF Poll, IInv, Types
<1>2. "poll" \in Holding \ {"taken"} /\ h \in Threads /\ state[h] = "IN_PROCESS"
  BY <1>1 DEF IInv, SlaveInv, Holding
<1>3. CASE queue[h] # <<>>
  <2>1. /\ slave' = [slave EXCEPT ![s].at = "evaluate", ![s].entry = Head(queue[h])]
        /\ queue' = [queue EXCEPT ![h] = Tail(@)]
    BY <1>3 DEF Poll
  <2>2. queue[h] \in Seq(Nat) /\ Head(queue[h]) \in Nat /\ Tail(queue[h]) \in Seq(Nat)
    BY <1>1, <1>2, <1>3
  <2>3. /\ slave' \in [Slaves -> SlaveRecord]
        /\ slave'[s].at = "evaluate" /\ slave'[s].heap = h
        /\ \A r \in Slaves : r # s => slave'[r] = slave[r]
    BY <1>1, <2>1, <2>2, Zenon DEF SlaveRecord
  <2> HIDE DEF h
  <2>4. queue' \in [Threads -> Seq(Nat)] /\ \A g \in Threads : g # h => queue'[g] = queue[g]
    BY <1>1, <1>2, <2>1, <2>2
  <2>5. ParkedEmpty'
    BY <1>1, <1>2, <2>4 DEF IInv, ParkedEmpty
  <2> QED
    BY <1>1, <1>2, <2>3, <2>4, <2>5, SlaveMoves DEF OnlySlave, h
<1>4. CASE queue[h] = <<>>
  <2>1. PICK a \in {"clean", "park"} : slave' = [slave EXCEPT ![s].at = a]
    BY <1>4 DEF Poll
  <2>2. /\ slave' \in [Slaves -> SlaveRecord]
        /\ slave'[s].at # "taken" /\ slave'[s].heap = h
        /\ \A r \in Slaves : r # s => slave'[r] = slave[r]
    BY <1>1, <2>1, Zenon DEF SlaveRecord
  <2>3. UNCHANGED queue
    BY <1>4 DEF Poll
  <2>4. ParkedEmpty'
    BY <1>1, <2>3 DEF IInv, ParkedEmpty
  <2> QED
    BY <1>1, <1>2, <2>2, <2>3, <2>4, SlaveMoves DEF OnlySlave
<1> QED
  BY <1>3, <1>4

(* Evaluating, cleaning up and the error path touch no heap's state. *)
LEMMA WorkStep ==
  ASSUME IInv, NEW s \in Slaves, Evaluate(s) \/ CleanUp(s) \/ Report(s) \/ Abort(s),
         UNCHANGED <<file, io, next, chunks, master, chunk, left, threads>>
  PROVE  IInv'
<1>1. /\ UNCHANGED <<state, masterQueue, queue>>
      /\ slave \in [Slaves -> SlaveRecord] /\ slave[s] \in SlaveRecord
  BY DEF Evaluate, CleanUp, Report, Abort, IInv, Types
<1>2. ParkedEmpty' /\ queue' \in [Threads -> Seq(Nat)]
  BY <1>1 DEF IInv, Types, ParkedEmpty
<1>3. CASE /\ slave[s].at = "evaluate"
           /\ slave' = [slave EXCEPT ![s].at = "poll", ![s].entry = 0]
  <2>1. /\ slave' \in [Slaves -> SlaveRecord]
        /\ slave'[s].at = "poll" /\ slave'[s].heap = slave[s].heap
        /\ \A r \in Slaves : r # s => slave'[r] = slave[r]
    BY <1>1, <1>3, Zenon DEF SlaveRecord
  <2> QED
    BY <1>1, <1>2, <1>3, <2>1, SlaveMoves DEF OnlySlave, Holding
<1>4. CASE slave[s].at = "clean" /\ slave' = [slave EXCEPT ![s].at = "park"]
  <2>1. /\ slave' \in [Slaves -> SlaveRecord]
        /\ slave'[s].at = "park" /\ slave'[s].heap = slave[s].heap
        /\ \A r \in Slaves : r # s => slave'[r] = slave[r]
    BY <1>1, <1>4 DEF SlaveRecord
  <2> QED
    BY <1>1, <1>2, <1>4, <2>1, SlaveMoves, Zenon DEF OnlySlave, Holding
<1>5. CASE \E a \in {"throw", "abort", "dead"} : slave' = [slave EXCEPT ![s].at = a]
  <2>1. PICK a \in {"throw", "abort", "dead"} : slave' = [slave EXCEPT ![s].at = a]
    BY <1>5, ZenonT(60)
  <2>2. /\ slave' \in [Slaves -> SlaveRecord] /\ slave'[s].at = a
        /\ \A r \in Slaves : r # s => slave'[r] = slave[r]
    BY <1>1, <2>1 DEF SlaveRecord
  <2>3. slave'[s].at \notin Holding
    BY <2>2 DEF Holding
  <2> QED
    BY <1>1, <1>2, <2>2, <2>3, SlaveMoves DEF OnlySlave
<1> QED
  BY <1>3, <1>4, <1>5 DEF Evaluate, CleanUp, Report, Abort

(* The holder lets go: the heap is parked or queued again. *)
LEMMA ParkHeapStep ==
  ASSUME IInv, NEW s \in Slaves, ParkHeap(s),
         UNCHANGED <<file, io, next, chunks, master, chunk, left, threads>>
  PROVE  IInv'
<1> DEFINE h == slave[s].heap
           n == Len(masterQueue)
<1>1. /\ slave[s].at = "park" /\ UNCHANGED queue
      /\ slave \in [Slaves -> SlaveRecord] /\ slave[s] \in SlaveRecord
      /\ state \in [Threads -> States] /\ masterQueue \in Seq(Threads)
      /\ slave' = [slave EXCEPT ![s] = Idle]
  BY DEF ParkHeap, IInv, Types
<1>2. "park" \in Holding \ {"taken"} /\ h \in Threads /\ state[h] = "IN_PROCESS"
  BY <1>1 DEF IInv, SlaveInv, Holding
<1>3. /\ slave' \in [Slaves -> SlaveRecord] /\ slave'[s].at \notin Holding
      /\ \A r \in Slaves : r # s => slave'[r] = slave[r]
  BY <1>1 DEF SlaveRecord, Idle, Holding
<1>4. /\ \A r \in Slaves : r # s /\ slave[r].at \in Holding =>
           slave[r].heap # h /\ slave[r].heap \in Threads
      /\ \A i \in 1..n : masterQueue[i] # h /\ masterQueue[i] \in Threads
  BY <1>1, <1>2 DEF IInv, SlaveInv, QueueInv, Holds
<1>5. \/ /\ queue[h] = <<>> /\ state' = [state EXCEPT ![h] = "PARKED"]
         /\ UNCHANGED masterQueue
      \/ /\ state' = [state EXCEPT ![h] = "IN_QUEUE"]
         /\ masterQueue' = Append(masterQueue, h)
  BY DEF ParkHeap
<1> HIDE DEF h
<1>6. /\ state' \in [Threads -> States] /\ state'[h] \in {"PARKED", "IN_QUEUE"}
      /\ \A g \in Threads : g # h => state'[g] = state[g]
      /\ state'[h] = "PARKED" => queue[h] = <<>>
  BY <1>1, <1>2, <1>5 DEF States, Queued
<1>7. SlaveInv'
  BY <1>3, <1>4, <1>6 DEF IInv, SlaveInv
<1>8. \A r \in Slaves : slave'[r].at \in Holding =>
        r # s /\ slave[r].at \in Holding /\ slave'[r].heap = slave[r].heap
             /\ slave'[r].heap # h
  BY <1>3, <1>4
<1>9. masterQueue' \in Seq(Threads) /\ QueueInv'
  <2>1. CASE UNCHANGED masterQueue
    BY <1>1, <1>4, <1>6, <1>8, <2>1 DEF IInv, QueueInv, Holds
  <2>2. CASE /\ state' = [state EXCEPT ![h] = "IN_QUEUE"]
             /\ masterQueue' = Append(masterQueue, h)
    <3>1. /\ n \in Nat /\ masterQueue' \in Seq(Threads) /\ Len(masterQueue') = n + 1
          /\ masterQueue'[n + 1] = h
          /\ \A i \in 1..n : masterQueue'[i] = masterQueue[i]
      BY <1>1, <1>2, <2>2
    <3>2. \A i \in 1..(n + 1) : i \in 1..n \/ i = n + 1
      BY <3>1
    <3>3. state'[h] \in Queued
      BY <1>1, <1>2, <2>2 DEF Queued
    <3> HIDE DEF n
    <3>4. \A i \in 1..n : /\ state'[masterQueue[i]] \in Queued
                          /\ \A r \in Slaves : ~Holds(r, masterQueue[i])
                          /\ \A j \in 1..n : i # j => masterQueue[i] # masterQueue[j]
      BY <1>4, <1>6 DEF IInv, QueueInv, n
    <3>5. \A i, j \in 1..(n + 1) : i # j => masterQueue'[i] # masterQueue'[j]
      BY <1>4, <3>1, <3>2, <3>4
    <3>6. \A i \in 1..(n + 1) : /\ state'[masterQueue'[i]] \in Queued
            /\ \A r \in Slaves : ~(slave'[r].at \in Holding /\ slave'[r].heap = masterQueue'[i])
      BY <1>8, <3>1, <3>2, <3>3, <3>4 DEF Holds
    <3> QED
      BY <3>1, <3>5, <3>6 DEF QueueInv, Holds
  <2> QED
    BY <1>5, <2>1, <2>2
<1>10. Types'
  BY <1>1, <1>3, <1>6, <1>9 DEF IInv, Types
<1>11. h \in threads /\ (master = "clean" => h \notin left)
  BY <1>2 DEF IInv, MasterInv
<1>12. MasterInv' /\ ParkedEmpty'
  BY <1>1, <1>6, <1>11 DEF IInv, Types, MasterInv, ParkedEmpty
<1> QED
  BY <1>7, <1>9, <1>10, <1>12 DEF IInv

-----------------------------------------------------------------------------
(* IInv holds initially and every step keeps it. *)
LEMMA Invariance == Spec => []IInv
<1>1. Init => IInv
  <2> SUFFICES ASSUME Init PROVE IInv
    OBVIOUS
  <2>1. file \in Seq(Buffer) /\ Len(file) \in Nat
    BY ParserAssumption DEF Init
  <2>2. Idle \in SlaveRecord /\ Idle.at \notin Holding
    BY DEF Idle, SlaveRecord, Holding
  <2>3. Types
    BY <2>1, <2>2 DEF Init, Types, States
  <2>4. \A s \in Slaves : slave[s].at \notin Holding
    BY <2>2 DEF Init
  <2> QED
    BY <2>3, <2>4 DEF Init, IInv, QueueInv, SlaveInv, MasterInv, ParkedEmpty
<1>2. IInv /\ [Next]_vars => IInv'
  <2> SUFFICES ASSUME IInv, [Next]_vars PROVE IInv'
    OBVIOUS
  <2>1. CASE UNCHANGED vars
    BY <2>1 DEF vars, input, reader, boss, heaps, IInv, Types, QueueInv, SlaveInv,
         Holds, MasterInv, ParkedEmpty
  <2>2. CASE IO
    BY <2>2, IOStep
  <2>3. CASE Cancel
    BY <2>3, ZenonT(60) DEF Cancel, input, boss, heaps, IInv, Types, QueueInv, SlaveInv,
         Holds, MasterInv, ParkedEmpty
  <2>4. CASE Master
    <3>1. UNCHANGED <<file, io, next, slave>>
      BY <2>4 DEF Master, input, reader
    <3> QED
      BY <2>4, <3>1, MasterOnlyStep, InsertCleanUpStep, CleanedUpStep,
         AddNewThreadLocalHeapStep, AddToThreadLocalHeapStep DEF Master
  <2>5. CASE \E s \in Slaves : Slave(s)
    <3>1. PICK s \in Slaves : Slave(s)
      BY <2>5
    <3>2. UNCHANGED <<file, io, next, chunks, master, chunk, left, threads>>
      BY <3>1 DEF Slave, input, boss
    <3> QED
      BY <3>1, <3>2, TakeHeapStep, BeginHeapStep, PollStep, WorkStep, ParkHeapStep
         DEF Slave
  <2> QED
    BY <2>1, <2>2, <2>3, <2>4, <2>5 DEF Next
<1> QED
  BY <1>1, <1>2, PTL DEF Spec

(* For any number of threads and slaves: no two slaves ever process one    *)
(* ThreadLocalHeap, and none takes one in an unexpected state.             *)
THEOREM HeapsAreOwned == Spec => []HeapOwned
<1>1. IInv => HeapOwned
  BY DEF IInv, QueueInv, SlaveInv, HeapOwned, Holding, Queued
<1> QED
  BY <1>1, Invariance, PTL

(* For any number of threads and slaves: parkThreadLocalHeap and           *)
(* addToThreadLocalHeap between them never leave buffers in a parked heap. *)
THEOREM NoHeapIsStranded == Spec => []NoneStranded
<1>1. IInv => NoneStranded
  BY DEF IInv, Types, ParkedEmpty, NoneStranded
<1> QED
  BY <1>1, Invariance, PTL
=============================================================================
