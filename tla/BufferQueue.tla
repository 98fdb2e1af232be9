----------------------------- MODULE BufferQueue -----------------------------
(***************************************************************************)
(* What an EventBufferList promises its callers: a queue of event buffers  *)
(* shared by threads that enqueue, dequeue, peek, wait until it is empty   *)
(* and finalize it.  The ring of slots, its indices and its growth are     *)
(* absent here; EventBufferList.tla models them and implements this        *)
(* specification.                                                          *)
(*                                                                         *)
(* A thread is in at most one call.  call[t].st is "ready" while the       *)
(* thread competes for the list's monitor, "waiting" while it sleeps in    *)
(* it, and "done" when the call has returned with call[t].buf.             *)
(***************************************************************************)
EXTENDS Integers, Sequences

CONSTANTS Callers,     \* threads using the list
          Buffers,     \* event buffers
          NoBuffer,    \* stands for an absent buffer
          Backlog,     \* buffers stored before a producer may be halted
          KeepsOrder,  \* FALSE: growing the list may rotate its content
          Underflow,   \* TRUE: the underflow handler supplies a buffer
          Overflow     \* TRUE: the overflow handler disposes of a buffer

VARIABLES queue, finalized, call, is_waiting

vars == <<queue, finalized, call, is_waiting>>

Ops == {"enqueue", "dequeue", "peek", "wait_until_empty"}

(* A notify_all makes every sleeping caller compete for the monitor again. *)
Notified == [u \in Callers |->
               IF call[u].st = "waiting"
               THEN [call[u] EXCEPT !.st = "ready"] ELSE call[u]]

Returned(t, b) == [op |-> call[t].op, buf |-> b, st |-> "done"]

ReturnAndNotify(t, b) ==
  /\ call' = [Notified EXCEPT ![t] = Returned(t, b)]
  /\ is_waiting' = [is_waiting EXCEPT ![t] = FALSE]

Return(t, b) ==
  /\ call' = [call EXCEPT ![t] = Returned(t, b)]
  /\ is_waiting' = [is_waiting EXCEPT ![t] = FALSE]

(* Enqueue, dequeue and peek report that they sleep through is_waiting_ptr *)
Wait(t) ==
  /\ call' = [call EXCEPT ![t].st = "waiting"]
  /\ is_waiting' = [is_waiting EXCEPT ![t] = call[t].op # "wait_until_empty"]

Running(t, op) == call[t].op = op /\ call[t].st = "ready"

Rotation(s, k) == SubSeq(s, k + 1, Len(s)) \o SubSeq(s, 1, k)

Begin(t, op, b) ==
  /\ call[t].st = "done"
  /\ b = NoBuffer <=> op # "enqueue"
  /\ call' = [call EXCEPT ![t] = [op |-> op, buf |-> b, st |-> "ready"]]
  /\ UNCHANGED <<queue, finalized, is_waiting>>

Enqueue(t) ==
  /\ Running(t, "enqueue")
  /\ \/ /\ ~finalized
        /\ \E k \in 0..Len(queue) :
             /\ KeepsOrder => k = 0
             /\ queue' = Append(Rotation(queue, k), call[t].buf)
        /\ ReturnAndNotify(t, NoBuffer)
     \/ /\ finalized \/ (Overflow /\ Len(queue) >= Backlog)
        /\ Return(t, NoBuffer)
        /\ UNCHANGED queue
     \/ /\ ~finalized /\ ~Overflow
        /\ Len(queue) >= Backlog
        /\ Wait(t)
        /\ UNCHANGED queue
  /\ UNCHANGED finalized

Dequeue(t) ==
  /\ Running(t, "dequeue")
  /\ \/ /\ ~finalized /\ queue # <<>>
        /\ queue' = Tail(queue)
        /\ ReturnAndNotify(t, Head(queue))
     \/ /\ ~finalized /\ queue = <<>> /\ Underflow
        /\ \E b \in Buffers : Return(t, b)
        /\ UNCHANGED queue
     \/ /\ ~finalized /\ queue = <<>> /\ ~Underflow
        /\ Wait(t)
        /\ UNCHANGED queue
     \/ /\ finalized
        /\ Return(t, NoBuffer)
        /\ UNCHANGED queue
  /\ UNCHANGED finalized

Peek(t) ==
  /\ Running(t, "peek")
  /\ \/ /\ ~finalized /\ queue # <<>>
        /\ ReturnAndNotify(t, Head(queue))
     \/ /\ ~finalized /\ queue = <<>> /\ Underflow
        /\ \E b \in Buffers : Return(t, b)
     \/ /\ ~finalized /\ queue = <<>> /\ ~Underflow
        /\ Wait(t)
     \/ /\ finalized
        /\ Return(t, NoBuffer)
  /\ UNCHANGED <<queue, finalized>>

WaitUntilEmpty(t) ==
  /\ Running(t, "wait_until_empty")
  /\ IF queue = <<>> THEN Return(t, NoBuffer) ELSE Wait(t)
  /\ UNCHANGED <<queue, finalized>>

Finalize ==
  /\ finalized' = TRUE
  /\ call' = Notified
  /\ UNCHANGED <<queue, is_waiting>>

Init ==
  /\ queue = <<>>
  /\ finalized = FALSE
  /\ call = [t \in Callers |->
               [op |-> "dequeue", buf |-> NoBuffer, st |-> "done"]]
  /\ is_waiting = [t \in Callers |-> FALSE]

Next ==
  \/ \E t \in Callers, op \in Ops, b \in Buffers \cup {NoBuffer} : Begin(t, op, b)
  \/ \E t \in Callers : Enqueue(t) \/ Dequeue(t) \/ Peek(t) \/ WaitUntilEmpty(t)
  \/ Finalize

Spec == Init /\ [][Next]_vars
=============================================================================
