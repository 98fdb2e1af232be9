----------------------- MODULE EventBufferListRefines -----------------------
(* The ring implements the queue: EventBufferList refines BufferQueue with *)
(* the queue mapped to Content, the buffers between head and tail.         *)
EXTENDS EventBufferListProofs, SequenceTheorems

(* n buffers of the ring l of c slots, from slot h on. *)
Run(l, h, n, c) == [i \in 1..n |-> l[Slot(h, i - 1, c)]]

(* A run of occupied slots is a sequence of that many buffers. *)
LEMMA RunIsSeq ==
  ASSUME NEW l, NEW h, NEW n \in Nat, NEW c,
         \A i \in 1..n : l[Slot(h, i - 1, c)] \in Buffers
  PROVE  /\ Run(l, h, n, c) \in Seq(Buffers)
         /\ Len(Run(l, h, n, c)) = n
         /\ \A i \in 1..n : Run(l, h, n, c)[i] = l[Slot(h, i - 1, c)]
<1>1. Run(l, h, n, c) \in [1..n -> Buffers]
  BY DEF Run
<1>2. Run(l, h, n, c) \in Seq(Buffers)
  BY <1>1, SeqDef
<1>3. DOMAIN Run(l, h, n, c) = 1..n
  BY DEF Run
<1>4. Len(Run(l, h, n, c)) = n
  BY <1>2, <1>3, LenProperties
<1>. QED BY <1>2, <1>4 DEF Run

(* Appending a buffer, element by element. *)
LEMMA AppendFacts ==
  ASSUME NEW s \in Seq(Buffers), NEW b \in Buffers
  PROVE  /\ Append(s, b) \in Seq(Buffers)
         /\ Len(Append(s, b)) = Len(s) + 1
         /\ \A i \in 1..Len(s) : Append(s, b)[i] = s[i]
         /\ Append(s, b)[Len(s) + 1] = b
BY AppendProperties

(* The content is a sequence of buffers as long as get_length says. *)
LEMMA ContentIsSeq ==
  ASSUME RingOK
  PROVE  /\ Content \in Seq(Buffers)
         /\ Len(Content) = get_length
         /\ get_length \in Nat
         /\ \A i \in 1..get_length : Content[i] = list[Slot(head, i - 1, capacity)]
<1>1. get_length \in Nat
  BY LengthCases DEF RingOK
<1>2. \A i \in 1..get_length : list[Slot(head, i - 1, capacity)] \in Buffers
  BY ContentOccupied DEF RingOK
<1>3. Content = Run(list, head, get_length, capacity)
  BY DEF Content, Run
<1>. QED BY <1>1, <1>2, <1>3, RunIsSeq

(* An empty list has the empty content, and only an empty list has. *)
LEMMA EmptyContent ==
  ASSUME RingOK
  PROVE  is_empty <=> Content = <<>>
<1>1. is_empty <=> get_length = 0
  BY LengthCases DEF RingOK, is_empty
<1>2. Content = <<>> <=> Len(Content) = 0
  BY ContentIsSeq, EmptySeq
<1>. QED BY <1>1, <1>2, ContentIsSeq

(* Growing only happens at a full ring: its content is as long as allowed. *)
LEMMA FullContent ==
  ASSUME RingOK, is_full
  PROVE  Len(Content) = capacity /\ head \in 0..capacity - 1
BY ContentIsSeq, LengthCases DEF RingOK, is_full

(* Storing into a ring that is not full appends to its content. *)
LEMMA StoreAppends ==
  ASSUME NEW l, NEW c \in Nat \ {0}, NEW h \in -1..c - 1, NEW e \in 0..c - 1,
         NEW b \in Buffers, NEW n \in Nat,
         h = -1 => e = 0, h # e,
         n = IF h < 0 THEN 0 ELSE IF e > h THEN e - h ELSE c - (h - e),
         l \in [0..c - 1 -> Buffers \cup {NoBuffer}],
         \A i \in 1..n : l[Slot(h, i - 1, c)] \in Buffers,
         Store(l, c, h, e, b), RingOK'
  PROVE  Content' = Append(Run(l, h, n, c), b)
<1>. DEFINE s == Run(l, h, n, c)
<1>1. tail' = IF e + 1 = c THEN 0 ELSE e + 1
  BY StepAround, Zenon DEF Store
<1>2. /\ capacity' = c
      /\ list' = [l EXCEPT ![e] = b]
      /\ head' = IF h < 0 THEN e ELSE h
  BY DEF Store
<1>3. get_length' = n + 1
  BY <1>1, <1>2 DEF get_length
<1>4. s \in Seq(Buffers) /\ Len(s) = n /\ \A i \in 1..n : s[i] = l[Slot(h, i - 1, c)]
  BY RunIsSeq, SMTT(30)
<1>. HIDE DEF s
<1>5. /\ Append(s, b) \in Seq(Buffers)
      /\ Len(Append(s, b)) = n + 1
      /\ \A i \in 1..n : Append(s, b)[i] = s[i]
      /\ Append(s, b)[n + 1] = b
  BY <1>4, AppendFacts, SMTT(30)
<1>6. /\ Content' \in Seq(Buffers)
      /\ Len(Content') = n + 1
      /\ \A i \in 1..n + 1 : Content'[i] = list'[Slot(head', i - 1, c)]
  <2>1. (RingOK => /\ Content \in Seq(Buffers)
                   /\ Len(Content) = get_length
                   /\ \A i \in 1..get_length : Content[i] = list[Slot(head, i - 1, capacity)])'
    BY ContentIsSeq, PTL
  <2>. QED BY <1>2, <1>3, <2>1 DEF Slot
<1>7. ASSUME NEW i \in 1..n + 1 PROVE Content'[i] = Append(s, b)[i]
  <2>1. CASE i = n + 1
    <3>1. Slot(head', i - 1, c) = e
      BY <1>2, <2>1 DEF Slot
    <3>. QED BY <1>2, <1>5, <1>6, <2>1, <3>1, Zenon
  <2>2. CASE i \in 1..n
    <3>1. /\ Slot(head', i - 1, c) = Slot(h, i - 1, c)
          /\ Slot(h, i - 1, c) # e
          /\ Slot(h, i - 1, c) \in 0..c - 1
      BY <1>2, <2>2 DEF Slot
    <3>. QED BY <1>2, <1>4, <1>5, <1>6, <2>2, <3>1
  <2>3. i = n + 1 \/ i \in 1..n
    OBVIOUS
  <2>. QED BY <2>1, <2>2, <2>3, Zenon
<1>8. Content' = Append(s, b)
  BY <1>5, <1>6, <1>7, SeqEqual, Zenon
<1>. QED BY <1>8 DEF s

(* The run of buffers that resize_to leaves behind. *)
Grown == Run(ResizedList, ResizedHead, capacity, NewCapacity)

(* resize_to leaves a sequence of as many buffers, without wrap-around. *)
LEMMA GrownIsSeq ==
  ASSUME RingOK, is_full
  PROVE  /\ Grown \in Seq(Buffers)
         /\ Len(Grown) = capacity
         /\ \A i \in 1..capacity : Grown[i] = ResizedList[ResizedHead + i - 1]
         /\ \A i \in 1..capacity : ResizedList[Slot(ResizedHead, i - 1, NewCapacity)] \in Buffers
<1>0. capacity \in Nat \ {0} /\ NewCapacity = capacity + capacity
  BY DEF RingOK, NewCapacity
<1>1. ASSUME NEW i \in 1..capacity
      PROVE  /\ Slot(ResizedHead, i - 1, NewCapacity) = ResizedHead + i - 1
             /\ ResizedList[ResizedHead + i - 1] \in Buffers
  BY <1>0, ResizeOK DEF Slot
<1>2. \A i \in 1..capacity : ResizedList[Slot(ResizedHead, i - 1, NewCapacity)] \in Buffers
  BY <1>1
<1>. QED BY <1>0, <1>1, <1>2, RunIsSeq DEF Grown

(* In the order-preserving mode the content survives growth as it is. *)
LEMMA GrownInOrder ==
  ASSUME RingOK, is_full, ResizeMode = "resize_enabled_preserve_order"
  PROVE  Grown = Content
<1>0. capacity \in Nat \ {0} /\ NewCapacity = capacity + capacity
  BY DEF RingOK, NewCapacity
<1>1. head \in 0..capacity - 1 /\ get_length = capacity /\ Len(Content) = capacity
  BY FullContent, ContentIsSeq
<1>2. ASSUME NEW i \in 1..capacity PROVE Grown[i] = Content[i]
  <2>1. Grown[i] = ResizedList[head + i - 1]
    BY GrownIsSeq DEF ResizedHead
  <2>2. Content[i] = list[Slot(head, i - 1, capacity)]
    BY <1>1, ContentIsSeq
  <2>3. ResizedList[head + i - 1] =
          IF head + i - 1 < capacity THEN list[head + i - 1]
                                     ELSE list[head + i - 1 - capacity]
    BY <1>0, <1>1 DEF ResizedList
  <2>4. Slot(head, i - 1, capacity) =
          IF head + i - 1 < capacity THEN head + i - 1 ELSE head + i - 1 - capacity
    BY <1>0, <1>1 DEF Slot
  <2>. QED BY <2>1, <2>2, <2>3, <2>4
<1>3. Grown \in Seq(Buffers) /\ Content \in Seq(Buffers) /\ Len(Grown) = Len(Content)
  BY <1>1, GrownIsSeq, ContentIsSeq
<1>. QED BY <1>1, <1>2, <1>3, SeqEqual

(* The facts about rotating a sequence that the refinement needs. *)
LEMMA RotationFacts ==
  ASSUME NEW s \in Seq(Buffers), NEW k \in 0..Len(s)
  PROVE  /\ Queue!Rotation(s, k) \in Seq(Buffers)
         /\ Len(Queue!Rotation(s, k)) = Len(s)
         /\ \A i \in 1..Len(s) :
              Queue!Rotation(s, k)[i] =
                IF i <= Len(s) - k THEN s[k + i] ELSE s[i - (Len(s) - k)]
<1>. DEFINE u == SubSeq(s, k + 1, Len(s))
            v == SubSeq(s, 1, k)
<1>0. Len(s) \in Nat /\ \A i \in 1..Len(s) : s[i] \in Buffers
  BY LenProperties, ElementOfSeq
<1>1. /\ u \in Seq(Buffers) /\ Len(u) = Len(s) - k
      /\ \A i \in 1..Len(s) - k : u[i] = s[k + i]
  <2>1. \A i \in k + 1..Len(s) : s[i] \in Buffers
    BY <1>0
  <2>2. k + 1 \in Int /\ Len(s) \in Int
    BY <1>0
  <2>3. /\ u \in Seq(Buffers)
        /\ Len(u) = IF k + 1 <= Len(s) THEN Len(s) - (k + 1) + 1 ELSE 0
        /\ \A i \in 1..Len(s) - (k + 1) + 1 : u[i] = s[k + 1 + i - 1]
    BY <2>1, <2>2, SubSeqProperties
  <2>. HIDE DEF u
  <2>. QED BY <1>0, <2>3
<1>2. /\ v \in Seq(Buffers) /\ Len(v) = k
      /\ \A i \in 1..k : v[i] = s[i]
  <2>1. \A i \in 1..k : s[i] \in Buffers
    BY <1>0
  <2>3. /\ v \in Seq(Buffers)
        /\ Len(v) = IF 1 <= k THEN k - 1 + 1 ELSE 0
        /\ \A i \in 1..k - 1 + 1 : v[i] = s[1 + i - 1]
    BY <1>0, <2>1, SubSeqProperties
  <2>. HIDE DEF v
  <2>. QED BY <1>0, <2>3
<1>3. Queue!Rotation(s, k) = u \o v
  BY DEF Queue!Rotation
<1>. HIDE DEF u, v
<1>4. /\ u \o v \in Seq(Buffers)
      /\ Len(u \o v) = Len(u) + Len(v)
      /\ \A i \in 1..Len(u) + Len(v) :
           (u \o v)[i] = IF i <= Len(u) THEN u[i] ELSE v[i - Len(u)]
  BY <1>1, <1>2, ConcatProperties, SMTT(30)
<1>. QED BY <1>0, <1>1, <1>2, <1>3, <1>4

(* Rotating a sequence by zero positions changes nothing. *)
LEMMA RotateByNothing ==
  ASSUME NEW s \in Seq(Buffers)
  PROVE  Queue!Rotation(s, 0) = s
<1>1. Len(s) \in Nat /\ 0 \in 0..Len(s)
  BY LenProperties
<1>2. /\ Queue!Rotation(s, 0) \in Seq(Buffers)
      /\ Len(Queue!Rotation(s, 0)) = Len(s)
      /\ \A i \in 1..Len(s) : Queue!Rotation(s, 0)[i] = s[i]
  BY <1>1, RotationFacts
<1>. QED BY <1>2, SeqEqual

(* In the other mode growth rotates it: realloc keeps the slots, and the   *)
(* content now starts at slot 0.                                           *)
LEMMA GrownRotated ==
  ASSUME RingOK, is_full, ResizeMode # "resize_enabled_preserve_order"
  PROVE  /\ capacity - head \in 0..Len(Content)
         /\ Grown = Queue!Rotation(Content, capacity - head)
<1>0. capacity \in Nat \ {0} /\ NewCapacity = capacity + capacity
  BY DEF RingOK, NewCapacity
<1>1. head \in 0..capacity - 1 /\ get_length = capacity /\ Len(Content) = capacity
  BY FullContent, ContentIsSeq
<1>. DEFINE k == capacity - head
            r == Queue!Rotation(Content, k)
<1>2. k \in 0..Len(Content)
  BY <1>0, <1>1
<1>3. /\ r \in Seq(Buffers) /\ Len(r) = capacity
      /\ \A i \in 1..capacity :
           r[i] = IF i <= capacity - k THEN Content[k + i] ELSE Content[i - (capacity - k)]
  BY <1>1, <1>2, ContentIsSeq, RotationFacts, Zenon
<1>4. ASSUME NEW i \in 1..capacity PROVE Grown[i] = r[i]
  <2>1. Grown[i] = list[i - 1]
    <3>1. Grown[i] = ResizedList[i - 1]
      BY GrownIsSeq DEF ResizedHead
    <3>. QED BY <1>0, <3>1 DEF ResizedList
  <2>2. \A j \in 1..capacity : Content[j] = list[Slot(head, j - 1, capacity)]
    BY <1>1, ContentIsSeq
  <2>. HIDE DEF r
  <2>3. CASE i <= head
    <3>1. r[i] = Content[k + i] /\ k + i \in 1..capacity
      BY <1>0, <1>1, <1>3, <2>3
    <3>2. PICK j \in 1..capacity : j = k + i
      BY <3>1
    <3>3. Slot(head, j - 1, capacity) = i - 1
      BY <1>0, <1>1, <2>3, <3>2 DEF Slot
    <3>. QED BY <2>1, <2>2, <3>1, <3>2, <3>3
  <2>4. CASE i > head
    <3>1. r[i] = Content[i - head] /\ i - head \in 1..capacity
      BY <1>0, <1>1, <1>3, <2>4
    <3>2. Content[i - head] = list[Slot(head, i - head - 1, capacity)]
      BY <2>2, <3>1
    <3>3. Slot(head, i - head - 1, capacity) = i - 1
      BY <1>0, <1>1, <2>4 DEF Slot
    <3>. QED BY <2>1, <3>1, <3>2, <3>3
  <2>. QED BY <1>1, <2>3, <2>4
<1>5. Grown \in Seq(Buffers) /\ Len(Grown) = capacity
  BY GrownIsSeq
<1>. HIDE DEF r
<1>6. Grown = r
  BY <1>3, <1>4, <1>5, SeqEqual
<1>. QED BY <1>2, <1>6 DEF r

(* Dequeuing removes the first buffer of the content. *)
LEMMA DequeueTakesHead ==
  ASSUME RingOK, RingOK', ~is_empty, UNCHANGED <<list, capacity>>,
         head' = IF (head + 1) % capacity = tail THEN -1 ELSE (head + 1) % capacity,
         tail' = IF (head + 1) % capacity = tail THEN 0 ELSE tail
  PROVE  Content # <<>> /\ list[head] = Head(Content) /\ Content' = Tail(Content)
<1>1. head \in 0..capacity - 1 /\ capacity \in Nat \ {0} /\ tail \in 0..capacity - 1
  BY DEF RingOK, is_empty
<1>2. (head + 1) % capacity = IF head + 1 = capacity THEN 0 ELSE head + 1
  BY <1>1, StepAround
<1>3. Content # <<>>
  BY EmptyContent
<1>4. get_length \in Nat \ {0} /\ get_length' = get_length - 1
  BY <1>1, <1>2 DEF get_length
<1>5. /\ Head(Content) = Content[1]
      /\ Tail(Content) \in Seq(Buffers)
      /\ Len(Tail(Content)) = get_length - 1
      /\ \A i \in 1..get_length - 1 : Tail(Content)[i] = Content[i + 1]
  BY <1>3, <1>4, ContentIsSeq, HeadTailProperties
<1>6. Head(Content) = list[head]
  BY <1>1, <1>4, <1>5, ContentIsSeq DEF Slot
<1>7. /\ Content' \in Seq(Buffers)
      /\ Len(Content') = get_length - 1
      /\ \A i \in 1..get_length - 1 : Content'[i] = list[Slot(head', i - 1, capacity)]
  <2>1. (RingOK => /\ Content \in Seq(Buffers)
                   /\ Len(Content) = get_length
                   /\ \A i \in 1..get_length : Content[i] = list[Slot(head, i - 1, capacity)])'
    BY ContentIsSeq, PTL
  <2>. QED BY <1>4, <2>1 DEF Slot
<1>8. ASSUME NEW i \in 1..get_length - 1 PROVE Content'[i] = Tail(Content)[i]
  <2>1. Content[i + 1] = list[Slot(head, i, capacity)]
    BY <1>4, ContentIsSeq
  <2>2. head' = (IF head + 1 = capacity THEN 0 ELSE head + 1)
    BY <1>1, <1>2, <1>4 DEF get_length
  <2>3. Slot(head', i - 1, capacity) = Slot(head, i, capacity)
    BY <1>1, <1>4, <2>2 DEF Slot, get_length
  <2>. QED BY <1>5, <1>7, <2>1, <2>3
<1>9. Content' = Tail(Content)
  BY <1>5, <1>7, <1>8, SeqEqual
<1>. QED BY <1>3, <1>6, <1>9

-----------------------------------------------------------------------------
(* The refinement, action by action. *)

(* The call records and flags change the same way in both specifications. *)
LEMMA SameCalls ==
  ASSUME NEW t \in Callers, NEW b
  PROVE  /\ ReturnAndNotify(t, b) => Queue!ReturnAndNotify(t, b)
         /\ Return(t, b) => Queue!Return(t, b)
         /\ Wait(t) => Queue!Wait(t)
BY DEF ReturnAndNotify, Return, Wait, Returned, Notified, Queue!ReturnAndNotify,
       Queue!Return, Queue!Wait, Queue!Returned, Queue!Notified

(* The content depends on the fields of the ring only. *)
LEMMA SameContent == UNCHANGED ring => Content' = Content
BY DEF ring, Content, get_length, Slot

(* A full ring that cannot grow holds at least the promised backlog. *)
PromisedBacklog == IF ResizeMode = "resize_disabled" \/ MaxCapacity < StartCapacity
                   THEN StartCapacity ELSE MaxCapacity

(* Growth never shrinks the list. *)
CapacityGrows == capacity >= StartCapacity

(* No step makes the capacity smaller than the constructor did. *)
LEMMA NextCapacityGrows == IInv /\ CapacityGrows /\ [Next]_vars => CapacityGrows'
<1>. SUFFICES ASSUME IInv, CapacityGrows, [Next]_vars PROVE CapacityGrows'
  OBVIOUS
<1>1. capacity' = capacity \/ capacity' = NewCapacity
  BY DEF Next, Step, Begin, enqueue, dequeue, peek, wait_until_empty,
         finalize, NothingToTake, Store, ring, vars
<1>2. StartCapacity \in Int
  BY ListAssumption DEF StartCapacity
<1>. QED BY <1>1, <1>2 DEF CapacityGrows, NewCapacity, IInv, RingOK

(* A full list that cannot grow holds at least the promised backlog. *)
LEMMA BacklogReached ==
  ASSUME RingOK, CapacityGrows, is_full, ~CanResize
  PROVE  Len(Content) >= PromisedBacklog
<1>1. Len(Content) = capacity /\ capacity \in Nat \ {0}
  BY FullContent DEF RingOK
<1>2. StartCapacity \in Int
  BY ListAssumption DEF StartCapacity
<1>. QED BY <1>1, <1>2, ListAssumption DEF PromisedBacklog, CanResize, CapacityGrows

(* enqueue does to the content what the queue promises. *)
LEMMA EnqueueRefines ==
  ASSUME IInv, IInv', CapacityGrows, NEW t \in Callers, enqueue(t)
  PROVE  Queue!Enqueue(t)
<1>0. RingOK /\ RingOK' /\ CallsOK /\ Queue!Running(t, "enqueue") /\ UNCHANGED finalized
      /\ call[t].buf \in Buffers
  BY DEF IInv, enqueue, Running, Queue!Running, CallsOK
<1>1. CASE /\ ~finalized /\ ~is_full
           /\ Store(list, capacity, head, tail, call[t].buf)
           /\ ReturnAndNotify(t, NoBuffer)
  <2>1. /\ get_length \in Nat
        /\ get_length = IF head < 0 THEN 0 ELSE IF tail > head THEN tail - head
                        ELSE capacity - (head - tail)
        /\ \A i \in 1..get_length : list[Slot(head, i - 1, capacity)] \in Buffers
    BY <1>0, ContentIsSeq, ContentOccupied, SMTT(30) DEF get_length, RingOK
  <2>2. Content' = Append(Run(list, head, get_length, capacity), call[t].buf)
    <3>1. capacity \in Nat \ {0} /\ head \in -1..capacity - 1 /\ tail \in 0..capacity - 1
          /\ (head = -1 => tail = 0) /\ head # tail
          /\ list \in [0..capacity - 1 -> Buffers \cup {NoBuffer}]
      BY <1>0, <1>1 DEF RingOK, is_full
    <3>. QED BY <1>0, <1>1, <2>1, <3>1, StoreAppends, ZenonT(60)
  <2>3. Run(list, head, get_length, capacity) = Content
    BY DEF Run, Content
  <2>4. 0 \in 0..Len(Content) /\ Queue!Rotation(Content, 0) = Content
    BY <1>0, ContentIsSeq, RotateByNothing
  <2>. QED BY <1>0, <1>1, <2>2, <2>3, <2>4, SameCalls DEF Queue!Enqueue
<1>2. CASE /\ ~finalized /\ is_full /\ CanResize
           /\ Store(ResizedList, NewCapacity, ResizedHead, ResizedTail, call[t].buf)
           /\ ReturnAndNotify(t, NoBuffer)
  <2>1. Content' = Append(Grown, call[t].buf)
    <3>0. capacity \in Nat \ {0}
      BY <1>0 DEF RingOK
    <3>1. /\ NewCapacity \in Nat \ {0}
          /\ ResizedHead \in -1..NewCapacity - 1 /\ ResizedTail \in 0..NewCapacity - 1
          /\ ResizedHead # -1 /\ ResizedHead # ResizedTail
          /\ capacity = IF ResizedHead < 0 THEN 0
                        ELSE IF ResizedTail > ResizedHead THEN ResizedTail - ResizedHead
                        ELSE NewCapacity - (ResizedHead - ResizedTail)
          /\ ResizedList \in [0..NewCapacity - 1 -> Buffers \cup {NoBuffer}]
      BY <1>0, <1>2, <3>0, ResizeOK
    <3>2. \A i \in 1..capacity : ResizedList[Slot(ResizedHead, i - 1, NewCapacity)] \in Buffers
      BY <1>0, <1>2, GrownIsSeq
    <3>. QED BY <1>0, <1>2, <3>0, <3>1, <3>2, StoreAppends, ZenonT(60) DEF Grown
  <2>2. CASE ResizeMode = "resize_enabled_preserve_order"
    <3>1. Grown = Content /\ 0 \in 0..Len(Content) /\ Queue!Rotation(Content, 0) = Content
      BY <1>0, <1>2, <2>2, GrownInOrder, ContentIsSeq, RotateByNothing
    <3>. QED BY <1>0, <1>2, <2>1, <3>1, SameCalls DEF Queue!Enqueue
  <2>3. CASE ResizeMode # "resize_enabled_preserve_order"
    <3>1. ResizeMode = "resize_enabled_no_order"
      BY <1>2, <2>3, ListAssumption DEF CanResize, ResizeModes
    <3>2. /\ capacity - head \in 0..Len(Content)
          /\ Grown = Queue!Rotation(Content, capacity - head)
      BY <1>0, <1>2, <2>3, GrownRotated
    <3>. QED BY <1>0, <1>2, <2>1, <3>1, <3>2, SameCalls, SMTT(30) DEF Queue!Enqueue
  <2>. QED BY <2>2, <2>3
<1>3. CASE /\ finalized \/ (is_full /\ ~CanResize /\ Overflow)
           /\ Return(t, NoBuffer) /\ UNCHANGED ring
  BY <1>0, <1>3, SameCalls, SameContent, BacklogReached DEF Queue!Enqueue, PromisedBacklog
<1>4. CASE /\ ~finalized /\ is_full /\ ~CanResize /\ ~Overflow
           /\ Wait(t) /\ UNCHANGED ring
  BY <1>0, <1>4, SameCalls, SameContent, BacklogReached DEF Queue!Enqueue, PromisedBacklog
<1>. QED BY <1>1, <1>2, <1>3, <1>4 DEF enqueue

(* The loop of dequeue and peek that ends without taking a buffer. *)
LEMMA NothingToTakeRefines ==
  ASSUME IInv, NEW t \in Callers, NothingToTake(t)
  PROVE  /\ \/ /\ ~finalized /\ Content = <<>> /\ Underflow
               /\ \E b \in Buffers : Queue!Return(t, b)
            \/ /\ ~finalized /\ Content = <<>> /\ ~Underflow
               /\ Queue!Wait(t)
            \/ finalized /\ Queue!Return(t, NoBuffer)
         /\ Content' = Content
<1>1. is_empty <=> Content = <<>>
  BY EmptyContent DEF IInv
<1>. QED BY <1>1, SameCalls, SameContent DEF NothingToTake

(* dequeue does to the content what the queue promises. *)
LEMMA DequeueRefines ==
  ASSUME IInv, IInv', NEW t \in Callers, dequeue(t)
  PROVE  Queue!Dequeue(t)
<1>0. Queue!Running(t, "dequeue") /\ UNCHANGED finalized /\ RingOK /\ RingOK'
  BY DEF dequeue, Running, Queue!Running, IInv
<1>1. CASE NothingToTake(t)
  BY <1>0, <1>1, NothingToTakeRefines DEF Queue!Dequeue
<1>2. CASE ~NothingToTake(t)
  <2>1. /\ ~finalized /\ ~is_empty
        /\ head' = IF (head + 1) % capacity = tail THEN -1 ELSE (head + 1) % capacity
        /\ tail' = IF (head + 1) % capacity = tail THEN 0 ELSE tail
        /\ ReturnAndNotify(t, list[head])
        /\ UNCHANGED <<list, capacity>>
    BY <1>2 DEF dequeue
  <2>2. Content # <<>> /\ list[head] = Head(Content) /\ Content' = Tail(Content)
    BY <1>0, <2>1, DequeueTakesHead
  <2>. QED BY <1>0, <2>1, <2>2, SameCalls DEF Queue!Dequeue
<1>. QED BY <1>1, <1>2

(* peek returns what the queue promises and leaves the content alone. *)
LEMMA PeekRefines ==
  ASSUME IInv, NEW t \in Callers, peek(t)
  PROVE  Queue!Peek(t)
<1>0. Queue!Running(t, "peek") /\ UNCHANGED finalized /\ RingOK
  BY DEF peek, Running, Queue!Running, IInv
<1>1. CASE NothingToTake(t)
  BY <1>0, <1>1, NothingToTakeRefines DEF Queue!Peek
<1>2. CASE ~finalized /\ ~is_empty /\ ReturnAndNotify(t, list[head]) /\ UNCHANGED ring
  <2>1. Content # <<>> /\ Content' = Content
    BY <1>0, <1>2, EmptyContent, SameContent
  <2>2. Head(Content) = list[head]
    <3>1. head \in 0..capacity - 1 /\ capacity \in Nat \ {0}
      BY <1>0, <1>2 DEF RingOK, is_empty
    <3>2. get_length \in Nat \ {0}
      BY <1>0, <3>1, LengthCases DEF RingOK
    <3>3. Content[1] = list[head]
      BY <1>0, <3>1, <3>2, ContentIsSeq DEF Slot
    <3>4. Head(Content) = Content[1]
      BY <1>0, <2>1, ContentIsSeq, HeadTailProperties
    <3>. QED BY <3>3, <3>4
  <2>. QED BY <1>0, <1>2, <2>1, <2>2, SameCalls DEF Queue!Peek
<1>. QED BY <1>0, <1>1, <1>2 DEF peek

(* Every step of the ring is a step of the queue, or leaves it unchanged. *)
LEMMA NextRefines ==
  IInv /\ IInv' /\ CapacityGrows /\ [Next]_vars => [Queue!Next]_(Queue!vars)
<1>. SUFFICES ASSUME IInv, IInv', CapacityGrows, [Next]_vars
     PROVE  Queue!Next \/ UNCHANGED Queue!vars
  OBVIOUS
<1>1. ASSUME NEW t \in Callers, Step(t) PROVE Queue!Next
  <2>1. CASE enqueue(t)
    BY <2>1, EnqueueRefines DEF Queue!Next
  <2>2. CASE dequeue(t)
    BY <2>2, DequeueRefines DEF Queue!Next
  <2>3. CASE peek(t)
    BY <2>3, PeekRefines DEF Queue!Next
  <2>4. CASE wait_until_empty(t)
    <3>1. is_empty <=> Content = <<>>
      BY EmptyContent DEF IInv
    <3>2. Queue!WaitUntilEmpty(t)
      BY <2>4, <3>1, SameCalls, SameContent
         DEF wait_until_empty, Queue!WaitUntilEmpty, Running, Queue!Running
    <3>. QED BY <3>2 DEF Queue!Next
  <2>. QED BY <1>1, <2>1, <2>2, <2>3, <2>4 DEF Step
<1>2. ASSUME finalize PROVE Queue!Next
  BY <1>2, SameContent DEF finalize, Queue!Next, Queue!Finalize, Notified, Queue!Notified
<1>3. ASSUME NEW t \in Callers, NEW op \in Ops, NEW b \in Buffers \cup {NoBuffer},
             Begin(t, op, b)
      PROVE  Queue!Next
  <2>1. Queue!Begin(t, op, b)
    BY <1>3, SameContent DEF Begin, Queue!Begin
  <2>. QED BY <2>1 DEF Queue!Next, Ops, Queue!Ops
<1>4. ASSUME UNCHANGED vars PROVE UNCHANGED Queue!vars
  BY <1>4, SameContent DEF vars, ring, Queue!vars
<1>. QED BY <1>1, <1>2, <1>3, <1>4 DEF Next

(* The list is the queue its callers expect: the ring with its sentinel,   *)
(* wrap-around and growth implements the FIFO queue of BufferQueue (or,    *)
(* for the free list, a queue whose order growth may rotate), and halts a  *)
(* producer only when max_capacity buffers are stored.                     *)
THEOREM ListIsQueue == Spec => QueueSpec
<1>1. Init => Queue!Init
  <2>. SUFFICES ASSUME Init PROVE Queue!Init
    OBVIOUS
  <2>1. RingOK /\ is_empty
    BY InitIInv DEF IInv, Init, is_empty
  <2>2. Content = <<>>
    BY <2>1, EmptyContent
  <2>. QED BY <2>2 DEF Init, Queue!Init
<1>2. Init => CapacityGrows
  BY ListAssumption DEF Init, CapacityGrows, StartCapacity
<1>3. Spec => []IInv
  BY InitIInv, NextIInv, PTL DEF Spec
<1>4. Spec => []CapacityGrows
  BY <1>2, <1>3, NextCapacityGrows, PTL DEF Spec
<1>. QED BY <1>1, <1>3, <1>4, NextRefines, PTL DEF Spec, QueueSpec, Queue!Spec
=============================================================================
