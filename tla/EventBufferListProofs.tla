------------------------ MODULE EventBufferListProofs ------------------------
(* Proofs about EventBufferList, for every set of callers and buffers,     *)
(* every initial and maximal capacity, resize mode and pair of handlers.   *)
EXTENDS EventBufferList, TLAPS

(* Stepping an index around a ring of c slots. *)
LEMMA StepAround ==
  ASSUME NEW c \in Nat \ {0}, NEW i \in 0..c - 1
  PROVE  (i + 1) % c = IF i + 1 = c THEN 0 ELSE i + 1
<1>1. CASE i + 1 = c
  BY <1>1, SMT
<1>2. CASE i + 1 < c
  BY <1>2, SMT
<1>. QED BY <1>1, <1>2

-----------------------------------------------------------------------------
(* The inductive invariant.  RingInv speaks of the content by age and      *)
(* leaves out that a pending enqueue carries a buffer; RingOK speaks of    *)
(* the occupied slots by position, and CallsOK adds the missing fact.      *)

(* Slot i lies between head and tail. *)
Occupied(i) == /\ head >= 0
               /\ IF tail > head THEN head <= i /\ i < tail
                                 ELSE head <= i \/ i < tail

RingOK ==
  /\ capacity \in Nat \ {0}
  /\ list \in [0..capacity - 1 -> Buffers \cup {NoBuffer}]
  /\ head \in -1..capacity - 1
  /\ tail \in 0..capacity - 1
  /\ head = -1 => tail = 0
  /\ \A i \in 0..capacity - 1 : Occupied(i) => list[i] \in Buffers

CallsOK ==
  /\ call \in [Callers -> Calls]
  /\ is_waiting \in [Callers -> BOOLEAN]
  /\ \A t \in Callers : call[t].op = "enqueue" /\ call[t].st # "done"
                          => call[t].buf \in Buffers

IInv == RingOK /\ CallsOK /\ finalized \in BOOLEAN

(* What the length computed from head and tail is, case by case. *)
LEMMA LengthCases ==
  ASSUME RingOK
  PROVE  /\ get_length \in 0..capacity
         /\ head = -1 <=> get_length = 0
         /\ head = tail <=> get_length = capacity
         /\ head # -1 /\ tail > head => get_length = tail - head
         /\ head # -1 /\ tail <= head => get_length = capacity - (head - tail)
BY DEF RingOK, get_length

(* The i-th buffer of the content lies in an occupied slot. *)
LEMMA ContentOccupied ==
  ASSUME RingOK, NEW i \in 1..get_length
  PROVE  /\ Slot(head, i - 1, capacity) \in 0..capacity - 1
         /\ Occupied(Slot(head, i - 1, capacity))
BY LengthCases DEF RingOK, Slot, Occupied

(* The inductive invariant gives the ring invariant that the runs check. *)
LEMMA IInvImpliesRingInv == IInv => TypeOK /\ RingInv
<1>. SUFFICES ASSUME IInv PROVE TypeOK /\ RingInv
  OBVIOUS
<1>1. TypeOK
  BY DEF IInv, RingOK, CallsOK, TypeOK
<1>2. /\ is_empty <=> get_length = 0
      /\ is_full <=> get_length = capacity
      /\ get_length <= capacity
  BY LengthCases DEF IInv, RingOK, is_empty, is_full
<1>3. ASSUME NEW i \in 1..get_length PROVE Content[i] \in Buffers
  <2>1. Content[i] = list[Slot(head, i - 1, capacity)]
    BY DEF Content
  <2>. QED BY <2>1, ContentOccupied DEF IInv, RingOK
<1>. QED BY <1>1, <1>2, <1>3 DEF RingInv, IInv, RingOK

(* The constructor establishes the invariant. *)
LEMMA InitIInv == Init => IInv
<1>. SUFFICES ASSUME Init PROVE IInv
  OBVIOUS
<1>1. StartCapacity \in Nat \ {0}
  BY ListAssumption DEF StartCapacity
<1>2. RingOK
  BY <1>1 DEF Init, RingOK, Occupied
<1>3. CallsOK
  BY DEF Init, CallsOK, Calls, Ops
<1>. QED BY <1>2, <1>3, Zenon DEF IInv, Init

-----------------------------------------------------------------------------
(* Steps that only change call records. *)

(* Waking everybody changes neither the operation nor the buffer of a call. *)
LEMMA NotifiedOK ==
  ASSUME CallsOK
  PROVE  /\ Notified \in [Callers -> Calls]
         /\ \A t \in Callers : Notified[t].op = "enqueue" /\ Notified[t].st # "done"
                                 => Notified[t].buf \in Buffers
BY DEF CallsOK, Notified, Calls

(* Returning with a buffer or none, and going to sleep, keep CallsOK. *)
LEMMA CallSteps ==
  ASSUME CallsOK, NEW t \in Callers, NEW b \in Buffers \cup {NoBuffer},
         call[t].st = "ready",
         ReturnAndNotify(t, b) \/ Return(t, b) \/ Wait(t)
  PROVE  CallsOK'
<1>0. Returned(t, b) \in Calls /\ Returned(t, b).st = "done"
  BY DEF CallsOK, Returned, Calls
<1>1. CASE ReturnAndNotify(t, b)
  BY <1>0, <1>1, NotifiedOK DEF CallsOK, ReturnAndNotify
<1>2. CASE Return(t, b)
  BY <1>0, <1>2 DEF CallsOK, Return
<1>3. CASE Wait(t)
  <2>1. is_waiting' \in [Callers -> BOOLEAN]
    BY <1>3, Zenon DEF CallsOK, Wait
  <2>. QED BY <1>3, <2>1 DEF CallsOK, Wait, Calls
<1>. QED BY <1>1, <1>2, <1>3

(* A step that leaves the ring alone leaves RingOK alone. *)
LEMMA RingUnchanged == RingOK /\ UNCHANGED ring => RingOK'
BY DEF RingOK, ring, Occupied

-----------------------------------------------------------------------------
(* Steps that change the ring. *)

(* Storing into a ring that is not full keeps RingOK. *)
LEMMA StoreOK ==
  ASSUME NEW l, NEW c \in Nat \ {0}, NEW h \in -1..c - 1, NEW e \in 0..c - 1,
         NEW b \in Buffers,
         l \in [0..c - 1 -> Buffers \cup {NoBuffer}],
         h = -1 => e = 0, h # e,
         \A i \in 0..c - 1 :
           /\ h >= 0
           /\ IF e > h THEN h <= i /\ i < e ELSE h <= i \/ i < e
           => l[i] \in Buffers,
         Store(l, c, h, e, b)
  PROVE  RingOK'
<1>1. tail' = IF e + 1 = c THEN 0 ELSE e + 1
  BY StepAround, Zenon DEF Store
<1>2. /\ capacity' = c
      /\ list' = [l EXCEPT ![e] = b]
      /\ head' = IF h < 0 THEN e ELSE h
  BY DEF Store
<1>3. list' \in [0..c - 1 -> Buffers \cup {NoBuffer}]
  BY <1>2
<1>4. head' \in 0..c - 1 /\ tail' \in 0..c - 1
  BY <1>1, <1>2
<1>5. ASSUME NEW i \in 0..c - 1, Occupied(i)' PROVE list'[i] \in Buffers
  <2>1. CASE i = e
    BY <1>2, <2>1
  <2>2. CASE i # e
    <3>1. h >= 0 /\ (IF e > h THEN h <= i /\ i < e ELSE h <= i \/ i < e)
      BY <1>1, <1>2, <1>5, <2>2 DEF Occupied
    <3>2. l[i] \in Buffers
      BY <3>1
    <3>. QED BY <1>2, <2>2, <3>2
  <2>. QED BY <2>1, <2>2
<1>. QED BY <1>2, <1>3, <1>4, <1>5 DEF RingOK

(* Doubling a full ring, in either mode, gives a ring with free slots and  *)
(* a buffer in every slot between its head and its tail.                   *)
LEMMA ResizeOK ==
  ASSUME RingOK, is_full
  PROVE  /\ NewCapacity \in Nat \ {0}
         /\ ResizedList \in [0..NewCapacity - 1 -> Buffers \cup {NoBuffer}]
         /\ ResizedHead \in 0..NewCapacity - 1
         /\ ResizedTail \in 0..NewCapacity - 1
         /\ ResizedTail = ResizedHead + capacity
         /\ \A i \in 0..NewCapacity - 1 :
              ResizedHead <= i /\ i < ResizedTail => ResizedList[i] \in Buffers
<1>1. head \in 0..capacity - 1 /\ head = tail /\ capacity \in Nat \ {0}
  BY DEF RingOK, is_full
<1>2. \A i \in 0..capacity - 1 : list[i] \in Buffers
  BY <1>1 DEF RingOK, Occupied
<1>3. /\ NewCapacity \in Nat \ {0}
      /\ NewCapacity = capacity + capacity
      /\ ResizedHead \in 0..capacity - 1
      /\ ResizedTail \in 0..NewCapacity - 1
      /\ ResizedTail = ResizedHead + capacity
  BY <1>1 DEF NewCapacity, ResizedHead, ResizedTail
<1>4. ResizedList \in [0..NewCapacity - 1 -> Buffers \cup {NoBuffer}]
  BY <1>1, <1>2, <1>3 DEF ResizedList
<1>5. ASSUME NEW i \in 0..NewCapacity - 1, ResizedHead <= i, i < ResizedTail
      PROVE  ResizedList[i] \in Buffers
  <2>1. CASE i < capacity
    BY <1>1, <1>2, <2>1 DEF ResizedList
  <2>2. CASE i >= capacity
    <3>1. /\ ResizeMode = "resize_enabled_preserve_order"
          /\ i < capacity + head
      BY <1>1, <1>5, <2>2 DEF ResizedHead, ResizedTail
    <3>2. ResizedList[i] = list[i - capacity]
      BY <1>1, <2>2, <3>1 DEF ResizedList
    <3>. QED BY <1>1, <1>2, <2>2, <3>1, <3>2
  <2>. QED BY <1>1, <1>3, <2>1, <2>2
<1>. QED BY <1>1, <1>3, <1>4, <1>5

(* Every step keeps the inductive invariant. *)
LEMMA NextIInv == IInv /\ [Next]_vars => IInv'
<1>. SUFFICES ASSUME IInv, [Next]_vars PROVE IInv'
  OBVIOUS
<1>. USE DEF IInv
<1>0. NoBuffer \in Buffers \cup {NoBuffer}
  OBVIOUS
<1>1. ASSUME NEW t \in Callers, enqueue(t) PROVE IInv'
  <2>1. call[t].st = "ready" /\ call[t].buf \in Buffers
    BY <1>1 DEF enqueue, Running, CallsOK
  <2>2. CASE /\ ~is_full
             /\ Store(list, capacity, head, tail, call[t].buf)
             /\ ReturnAndNotify(t, NoBuffer)
    <3>1. RingOK'
      BY <2>1, <2>2, StoreOK DEF RingOK, Occupied, is_full
    <3>. QED BY <1>0, <1>1, <2>1, <2>2, <3>1, CallSteps DEF enqueue
  <2>3. CASE /\ is_full
             /\ Store(ResizedList, NewCapacity, ResizedHead, ResizedTail, call[t].buf)
             /\ ReturnAndNotify(t, NoBuffer)
    <3>0. capacity \in Nat \ {0}
      BY DEF RingOK
    <3>1. /\ ResizedHead \in -1..NewCapacity - 1
          /\ ResizedHead # ResizedTail
          /\ ResizedHead # -1
          /\ ResizedTail > ResizedHead
      BY <2>3, <3>0, ResizeOK
    <3>2. RingOK'
      BY <2>1, <2>3, <3>1, ResizeOK, StoreOK, Zenon
    <3>. QED BY <1>0, <1>1, <2>1, <2>3, <3>2, CallSteps DEF enqueue
  <2>4. CASE Return(t, NoBuffer) /\ UNCHANGED ring
    BY <1>0, <1>1, <2>1, <2>4, CallSteps, RingUnchanged DEF enqueue
  <2>5. CASE Wait(t) /\ UNCHANGED ring
    BY <1>0, <1>1, <2>1, <2>5, CallSteps, RingUnchanged DEF enqueue
  <2>. QED BY <1>1, <2>2, <2>3, <2>4, <2>5 DEF enqueue
<1>2. ASSUME NEW t \in Callers, call[t].st = "ready", NothingToTake(t),
             UNCHANGED finalized
      PROVE  IInv'
  <2>1. RingOK'
    BY <1>2, RingUnchanged DEF NothingToTake
  <2>2. PICK b \in Buffers \cup {NoBuffer} : Return(t, b) \/ Wait(t)
    BY <1>2 DEF NothingToTake
  <2>. QED BY <1>2, <2>1, <2>2, CallSteps
<1>3. ASSUME NEW t \in Callers, dequeue(t) PROVE IInv'
  <2>1. call[t].st = "ready"
    BY <1>3 DEF dequeue, Running
  <2>2. CASE NothingToTake(t)
    BY <1>2, <1>3, <2>1, <2>2 DEF dequeue
  <2>3. CASE ~NothingToTake(t)
    <3>1. /\ ~is_empty
          /\ head' = IF (head + 1) % capacity = tail THEN -1 ELSE (head + 1) % capacity
          /\ tail' = IF (head + 1) % capacity = tail THEN 0 ELSE tail
          /\ ReturnAndNotify(t, list[head])
          /\ UNCHANGED <<list, capacity, finalized>>
      BY <1>3, <2>3 DEF dequeue
    <3>2. head \in 0..capacity - 1 /\ list[head] \in Buffers \cup {NoBuffer}
      BY <3>1 DEF RingOK, is_empty
    <3>3. (head + 1) % capacity = IF head + 1 = capacity THEN 0 ELSE head + 1
      BY <3>2, StepAround, Zenon DEF RingOK
    <3>4. RingOK'
      BY <3>1, <3>2, <3>3 DEF RingOK, Occupied
    <3>. QED BY <2>1, <3>1, <3>2, <3>4, CallSteps
  <2>. QED BY <2>2, <2>3
<1>4. ASSUME NEW t \in Callers, peek(t) PROVE IInv'
  <2>1. call[t].st = "ready"
    BY <1>4 DEF peek, Running
  <2>2. CASE NothingToTake(t)
    BY <1>2, <1>4, <2>1, <2>2 DEF peek
  <2>3. CASE ~is_empty /\ ReturnAndNotify(t, list[head]) /\ UNCHANGED ring
    <3>1. list[head] \in Buffers \cup {NoBuffer}
      BY <2>3 DEF RingOK, is_empty
    <3>. QED BY <1>4, <2>1, <2>3, <3>1, CallSteps, RingUnchanged DEF peek
  <2>. QED BY <1>4, <2>2, <2>3 DEF peek
<1>5. ASSUME NEW t \in Callers, wait_until_empty(t) PROVE IInv'
  <2>1. call[t].st = "ready" /\ (Return(t, NoBuffer) \/ Wait(t))
    BY <1>5 DEF wait_until_empty, Running
  <2>. QED BY <1>0, <1>5, <2>1, CallSteps, RingUnchanged DEF wait_until_empty
<1>6. ASSUME finalize PROVE IInv'
  BY <1>6, NotifiedOK, RingUnchanged DEF finalize, CallsOK
<1>7. ASSUME NEW t \in Callers, NEW op \in Ops, NEW b \in Buffers \cup {NoBuffer},
             Begin(t, op, b)
      PROVE  IInv'
  <2>1. RingOK' /\ finalized' \in BOOLEAN
    BY <1>7, RingUnchanged DEF Begin
  <2>2. [op |-> op, buf |-> b, st |-> "ready"] \in Calls
    BY DEF Calls
  <2>3. op = "enqueue" => b \in Buffers
    BY <1>7 DEF Begin
  <2>4. CallsOK'
    BY <1>7, <2>2, <2>3 DEF Begin, CallsOK
  <2>. QED BY <2>1, <2>4
<1>8. ASSUME UNCHANGED vars PROVE IInv'
  BY <1>8, RingUnchanged DEF vars, ring, CallsOK
<1>. QED BY <1>1, <1>3, <1>4, <1>5, <1>6, <1>7, <1>8 DEF Next, Step

-----------------------------------------------------------------------------
(* The ring stays well-formed: the indices stay inside the array, head and *)
(* tail determine empty and full as the assertions in is_empty, is_full    *)
(* and resize_to demand, and no unwritten slot is ever part of the content.*)
THEOREM RingCorrect == Spec => [](TypeOK /\ RingInv)
<1>1. Spec => []IInv
  BY InitIInv, NextIInv, PTL DEF Spec
<1>. QED BY <1>1, IInvImpliesRingInv, PTL

-----------------------------------------------------------------------------
(* Lost wake-ups. *)

(* After a notify_all nobody sleeps, so nobody sleeps wrongly. *)
LEMMA NobodySleeps ==
  ASSUME CallsOK, NEW t \in Callers, NEW b, ReturnAndNotify(t, b)
  PROVE  NoLostWakeup'
<1>. SUFFICES ASSUME NEW u \in Callers PROVE call'[u].st # "waiting"
  BY DEF NoLostWakeup
<1>1. Returned(t, b).st = "done"
  BY DEF Returned
<1>2. CASE u = t
  BY <1>1, <1>2 DEF ReturnAndNotify, Notified
<1>3. CASE u # t
  BY <1>3 DEF ReturnAndNotify, Notified, CallsOK, Calls
<1>. QED BY <1>2, <1>3

(* A return without notification changes no condition anybody waits for. *)
LEMMA QuietReturn ==
  ASSUME CallsOK, NoLostWakeup, NEW t \in Callers, NEW b, Return(t, b),
         UNCHANGED <<ring, finalized>>
  PROVE  NoLostWakeup'
<1>. SUFFICES ASSUME NEW u \in Callers, call'[u].st = "waiting"
     PROVE  call'[u] = call[u]
  BY DEF NoLostWakeup, ring, is_full, is_empty, CanResize
<1>1. Returned(t, b).st = "done"
  BY DEF Returned
<1>. QED BY <1>1 DEF Return, CallsOK

(* A thread goes to sleep only on a condition it has just found false. *)
LEMMA WaitOK ==
  ASSUME CallsOK, NoLostWakeup, NEW t \in Callers, Wait(t),
         UNCHANGED <<ring, finalized>>,
         \/ call[t].op = "enqueue" /\ ~finalized /\ is_full /\ ~CanResize
         \/ call[t].op \in {"dequeue", "peek"} /\ ~finalized /\ is_empty
         \/ call[t].op = "wait_until_empty" /\ ~is_empty
  PROVE  NoLostWakeup'
<1>. SUFFICES ASSUME NEW u \in Callers, call'[u].st = "waiting"
     PROVE  /\ call'[u].op = call[u].op
            /\ u # t => call[u].st = "waiting"
  BY DEF NoLostWakeup, ring, is_full, is_empty, CanResize
<1>. QED BY DEF Wait, CallsOK, Calls

(* Every step keeps NoLostWakeup. *)
LEMMA NextNoLostWakeup == IInv /\ NoLostWakeup /\ [Next]_vars => NoLostWakeup'
<1>. SUFFICES ASSUME IInv, NoLostWakeup, [Next]_vars PROVE NoLostWakeup'
  OBVIOUS
<1>0. CallsOK
  BY DEF IInv
<1>1. ASSUME NEW t \in Callers, enqueue(t) PROVE NoLostWakeup'
  <2>1. CASE ReturnAndNotify(t, NoBuffer)
    BY <1>0, <2>1, NobodySleeps
  <2>2. CASE Return(t, NoBuffer) /\ UNCHANGED ring
    BY <1>0, <1>1, <2>2, QuietReturn DEF enqueue
  <2>3. CASE ~finalized /\ is_full /\ ~CanResize /\ Wait(t) /\ UNCHANGED ring
    BY <1>0, <1>1, <2>3, WaitOK DEF enqueue, Running
  <2>. QED BY <1>1, <2>1, <2>2, <2>3 DEF enqueue
<1>2. ASSUME NEW t \in Callers, call[t].op \in {"dequeue", "peek"},
             NothingToTake(t), UNCHANGED finalized
      PROVE  NoLostWakeup'
  BY <1>0, <1>2, QuietReturn, WaitOK DEF NothingToTake
<1>3. ASSUME NEW t \in Callers, dequeue(t) PROVE NoLostWakeup'
  BY <1>0, <1>2, <1>3, NobodySleeps DEF dequeue, Running
<1>4. ASSUME NEW t \in Callers, peek(t) PROVE NoLostWakeup'
  BY <1>0, <1>2, <1>4, NobodySleeps DEF peek, Running
<1>5. ASSUME NEW t \in Callers, wait_until_empty(t) PROVE NoLostWakeup'
  BY <1>0, <1>5, QuietReturn, WaitOK DEF wait_until_empty, Running
<1>6. ASSUME finalize PROVE NoLostWakeup'
  BY <1>0, <1>6 DEF finalize, NoLostWakeup, Notified, CallsOK, Calls
<1>7. ASSUME NEW t \in Callers, NEW op \in Ops, NEW b \in Buffers \cup {NoBuffer},
             Begin(t, op, b)
      PROVE  NoLostWakeup'
  <2>. SUFFICES ASSUME NEW u \in Callers, call'[u].st = "waiting"
       PROVE  call'[u] = call[u]
    BY <1>7 DEF Begin, NoLostWakeup, ring, is_full, is_empty, CanResize
  <2>. QED BY <1>0, <1>7 DEF Begin, CallsOK
<1>8. ASSUME UNCHANGED vars PROVE NoLostWakeup'
  BY <1>8 DEF vars, NoLostWakeup, is_full, is_empty, CanResize
<1>. QED BY <1>1, <1>3, <1>4, <1>5, <1>6, <1>7, <1>8 DEF Next, Step

(* No wake-up is lost: whoever sleeps in the monitor of the list waits for *)
(* a condition that is still false, in every reachable state.              *)
THEOREM WakeupCorrect == Spec => []NoLostWakeup
<1>1. Init => NoLostWakeup
  BY DEF Init, NoLostWakeup
<1>2. Spec => []IInv
  BY InitIInv, NextIInv, PTL DEF Spec
<1>. QED BY <1>1, <1>2, NextNoLostWakeup, PTL DEF Spec

(* The capacity stays below twice max_capacity, unless the list was made   *)
(* larger than that.                                                       *)
THEOREM CapacityCorrect == Spec => []CapacityBounded
<1>1. Init => CapacityBounded
  BY DEF Init, CapacityBounded
<1>2. IInv /\ CapacityBounded /\ [Next]_vars => CapacityBounded'
  <2>. SUFFICES ASSUME IInv, CapacityBounded, [Next]_vars PROVE CapacityBounded'
    OBVIOUS
  <2>1. \/ capacity' = capacity
        \/ CanResize /\ capacity' = NewCapacity
    BY DEF Next, Step, Begin, enqueue, dequeue, peek, wait_until_empty,
           finalize, NothingToTake, Store, ring, vars
  <2>. QED BY <2>1, ListAssumption
           DEF CapacityBounded, CanResize, NewCapacity, IInv, RingOK
<1>3. Spec => []IInv
  BY InitIInv, NextIInv, PTL DEF Spec
<1>. QED BY <1>1, <1>2, <1>3, PTL DEF Spec

=============================================================================
