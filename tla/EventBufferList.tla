--------------------------- MODULE EventBufferList ---------------------------
(***************************************************************************)
(* prims/EventBufferList.cpp: the monitor-protected ring of event buffers  *)
(* behind the flush queue, the compression queue and the free list.        *)
(*                                                                         *)
(* A call runs under the list's monitor from one wait to the next, so each *)
(* action below is one such stretch: the whole body of enqueue, dequeue,   *)
(* peek, wait_until_empty or finalize up to its return or its wait.  A     *)
(* thread woken from a wait competes for the monitor again and re-checks   *)
(* its condition, which is the same action taken once more.                *)
(*                                                                         *)
(* head = -1 marks the empty list.  Slots outside the content keep what    *)
(* was last stored there, as in a product build; slots that realloc adds   *)
(* hold NoBuffer until they are written.                                   *)
(*                                                                         *)
(* Definitions named ...Without... are faulty variants of the definition   *)
(* that follows them; no action uses them.                                 *)
(***************************************************************************)
EXTENDS Integers, Sequences

CONSTANTS Callers,          \* threads using the list
          Buffers,          \* event buffers
          NoBuffer,         \* what an unwritten slot holds
          InitialCapacity,  \* constructor argument capacity
          MaxCapacity,      \* constructor argument max_capacity
          ResizeMode,       \* constructor argument resize_mode
          Underflow,        \* TRUE: underflow creates a buffer; FALSE: NULL
          Overflow          \* TRUE: overflow destroys the buffer; FALSE: it
                            \* is NULL, or reports and returns false

ResizeModes == {"resize_disabled", "resize_enabled_no_order",
                "resize_enabled_preserve_order"}

ASSUME ListAssumption ==
  /\ NoBuffer \notin Buffers
  /\ InitialCapacity \in Int
  /\ MaxCapacity \in Int
  /\ ResizeMode \in ResizeModes
  /\ Underflow \in BOOLEAN
  /\ Overflow \in BOOLEAN

VARIABLES list, capacity, head, tail, finalized,
          call,        \* the call each thread is in, as in BufferQueue
          is_waiting   \* *is_waiting_ptr of each thread

ring == <<list, capacity, head, tail>>
vars == <<list, capacity, head, tail, finalized, call, is_waiting>>

Ops == {"enqueue", "dequeue", "peek", "wait_until_empty"}

-----------------------------------------------------------------------------

get_length == IF head < 0 THEN 0
              ELSE IF tail > head THEN tail - head
              ELSE capacity - (head - tail)

is_empty == head < 0 /\ tail = 0
is_full == head = tail

(* The k-th slot after position i of a ring of c slots. *)
Slot(i, k, c) == IF i + k < c THEN i + k ELSE i + k - c

(* The buffers in the list, oldest first. *)
Content == [i \in 1..get_length |-> list[Slot(head, i - 1, capacity)]]

Notified == [u \in Callers |->
               IF call[u].st = "waiting"
               THEN [call[u] EXCEPT !.st = "ready"] ELSE call[u]]

Returned(t, b) == [op |-> call[t].op, buf |-> b, st |-> "done"]

ReturnAndNotify(t, b) ==
  /\ call' = [Notified EXCEPT ![t] = Returned(t, b)]
  /\ is_waiting' = [is_waiting EXCEPT ![t] = FALSE]

Return(t, b) ==
  /\ call' = [call EXCEPT ![t] = Returned(t, b)]
  /\ is_waiting' = [is_waiting EXCEPT ![t] = FALSE]

Wait(t) ==
  /\ call' = [call EXCEPT ![t].st = "waiting"]
  /\ is_waiting' = [is_waiting EXCEPT ![t] = call[t].op # "wait_until_empty"]

Running(t, op) == call[t].op = op /\ call[t].st = "ready"

-----------------------------------------------------------------------------

CanResizeWithoutLimit == ResizeMode # "resize_disabled"

CanResize == ResizeMode # "resize_disabled" /\ capacity < MaxCapacity

(* resize_to(2 * capacity), called on a full list only: the ring that      *)
(* realloc, memcpy and the index updates leave behind.                     *)
NewCapacity == 2 * capacity
ResizedHead == IF ResizeMode = "resize_enabled_preserve_order" THEN head ELSE 0
ResizedTail == IF ResizeMode = "resize_enabled_preserve_order"
               THEN head + capacity ELSE capacity
ResizedListWithoutCopy ==
  [i \in 0..NewCapacity - 1 |-> IF i < capacity THEN list[i] ELSE NoBuffer]

ResizedList ==
  [i \in 0..NewCapacity - 1 |->
     IF i < capacity THEN list[i]
     ELSE IF ResizeMode = "resize_enabled_preserve_order" /\ i < capacity + head
          THEN list[i - capacity]
          ELSE NoBuffer]

StoreWithoutWrap(l, c, h, e, b) ==
  /\ head' = IF h < 0 THEN e ELSE h
  /\ list' = [l EXCEPT ![e] = b]
  /\ tail' = e + 1
  /\ capacity' = c

(* The tail of enqueue, on the ring l of c slots with head h and tail e. *)
Store(l, c, h, e, b) ==
  /\ head' = IF h < 0 THEN e ELSE h
  /\ list' = [l EXCEPT ![e] = b]
  /\ tail' = (e + 1) % c
  /\ capacity' = c

enqueue(t) ==
  /\ Running(t, "enqueue")
  /\ \/ /\ ~finalized /\ ~is_full
        /\ Store(list, capacity, head, tail, call[t].buf)
        /\ ReturnAndNotify(t, NoBuffer)
     \/ /\ ~finalized /\ is_full /\ CanResize
        /\ Store(ResizedList, NewCapacity, ResizedHead, ResizedTail, call[t].buf)
        /\ ReturnAndNotify(t, NoBuffer)
     \/ /\ finalized \/ (is_full /\ ~CanResize /\ Overflow)
        /\ Return(t, NoBuffer)
        /\ UNCHANGED ring
     \/ /\ ~finalized /\ is_full /\ ~CanResize /\ ~Overflow
        /\ Wait(t)
        /\ UNCHANGED ring
  /\ UNCHANGED finalized

(* The while loop that dequeue and peek start with, when it does not fall  *)
(* through to the first buffer of the list.                                *)
NothingToTake(t) ==
  /\ \/ /\ ~finalized /\ is_empty /\ Underflow
        /\ \E b \in Buffers : Return(t, b)
     \/ /\ ~finalized /\ is_empty /\ ~Underflow
        /\ Wait(t)
     \/ /\ finalized
        /\ Return(t, NoBuffer)
  /\ UNCHANGED ring

dequeueWithoutReset(t) ==
  /\ Running(t, "dequeue")
  /\ ~finalized /\ ~is_empty
  /\ head' = (head + 1) % capacity
  /\ ReturnAndNotify(t, list[head])
  /\ UNCHANGED <<list, capacity, tail, finalized>>

dequeue(t) ==
  /\ Running(t, "dequeue")
  /\ \/ NothingToTake(t)
     \/ /\ ~finalized /\ ~is_empty
        /\ LET next == (head + 1) % capacity
           IN  /\ head' = IF next = tail THEN -1 ELSE next
               /\ tail' = IF next = tail THEN 0 ELSE tail
        /\ ReturnAndNotify(t, list[head])
        /\ UNCHANGED <<list, capacity>>
  /\ UNCHANGED finalized

peek(t) ==
  /\ Running(t, "peek")
  /\ \/ NothingToTake(t)
     \/ /\ ~finalized /\ ~is_empty
        /\ ReturnAndNotify(t, list[head])
        /\ UNCHANGED ring
  /\ UNCHANGED finalized

wait_until_empty(t) ==
  /\ Running(t, "wait_until_empty")
  /\ \/ is_empty /\ Return(t, NoBuffer)
     \/ ~is_empty /\ Wait(t)
  /\ UNCHANGED <<ring, finalized>>

finalizeWithoutNotify ==
  /\ finalized' = TRUE
  /\ UNCHANGED <<ring, call, is_waiting>>

finalize ==
  /\ finalized' = TRUE
  /\ call' = Notified
  /\ UNCHANGED <<ring, is_waiting>>

(* A thread calls an operation of the list. *)
Begin(t, op, b) ==
  /\ call[t].st = "done"
  /\ b = NoBuffer <=> op # "enqueue"
  /\ call' = [call EXCEPT ![t] = [op |-> op, buf |-> b, st |-> "ready"]]
  /\ UNCHANGED <<ring, finalized, is_waiting>>

-----------------------------------------------------------------------------

StartCapacity == IF InitialCapacity < 1 THEN 1 ELSE InitialCapacity

Init ==
  /\ capacity = StartCapacity
  /\ list = [i \in 0..StartCapacity - 1 |-> NoBuffer]
  /\ head = -1
  /\ tail = 0
  /\ finalized = FALSE
  /\ call = [t \in Callers |->
               [op |-> "dequeue", buf |-> NoBuffer, st |-> "done"]]
  /\ is_waiting = [t \in Callers |-> FALSE]

Step(t) == enqueue(t) \/ dequeue(t) \/ peek(t) \/ wait_until_empty(t)

Next ==
  \/ \E t \in Callers, op \in Ops, b \in Buffers \cup {NoBuffer} : Begin(t, op, b)
  \/ \E t \in Callers : Step(t)
  \/ finalize

Spec == Init /\ [][Next]_vars

-----------------------------------------------------------------------------
(* Properties *)

Calls == [op : Ops, buf : Buffers \cup {NoBuffer}, st : {"ready", "waiting", "done"}]

(* The fields of the list and the calls on it have their types: the        *)
(* indices stay inside the array that calloc and realloc provide.          *)
TypeOK ==
  /\ capacity \in Nat \ {0}
  /\ list \in [0..capacity - 1 -> Buffers \cup {NoBuffer}]
  /\ head \in -1..capacity - 1
  /\ tail \in 0..capacity - 1
  /\ finalized \in BOOLEAN
  /\ call \in [Callers -> Calls]
  /\ is_waiting \in [Callers -> BOOLEAN]

(* What the assertions of get_length, is_empty, is_full and resize_to rely *)
(* on: the sentinel head = -1 goes with tail = 0, so that head = tail says *)
(* exactly "full"; and no slot between head and tail is one that was never *)
(* written.                                                                *)
RingInv ==
  /\ head = -1 => tail = 0
  /\ is_empty <=> get_length = 0
  /\ is_full <=> get_length = capacity
  /\ get_length <= capacity
  /\ \A i \in 1..get_length : Content[i] \in Buffers

(* No lost wake-up: a thread sleeps in the monitor only while the          *)
(* condition it waits for is false, whichever thread made the last change. *)
NoLostWakeup ==
  \A t \in Callers : call[t].st = "waiting" =>
    \/ call[t].op = "enqueue" /\ ~finalized /\ is_full /\ ~CanResize
    \/ call[t].op \in {"dequeue", "peek"} /\ ~finalized /\ is_empty
    \/ call[t].op = "wait_until_empty" /\ ~is_empty

(* The growth of the list is bounded: resize_to doubles a capacity that is *)
(* below max_capacity, so the result stays below twice max_capacity (and   *)
(* is max_capacity itself only for powers of two).                         *)
CapacityBounded == capacity = StartCapacity \/ capacity < 2 * MaxCapacity

(* The ring implements the queue of BufferQueue: every call returns the    *)
(* buffer a FIFO queue would return, across growth and wrap-around, and a  *)
(* producer is halted or its buffer destroyed only at a full backlog.      *)
Queue == INSTANCE BufferQueue WITH
           queue <- Content,
           Backlog <- IF ResizeMode = "resize_disabled" \/ MaxCapacity < StartCapacity
                      THEN StartCapacity ELSE MaxCapacity,
           KeepsOrder <- ResizeMode # "resize_enabled_no_order"

QueueSpec == Queue!Spec
=============================================================================
