----------------------- MODULE WriteBackBuffer_proofs -----------------------
(***************************************************************************)
(* The write-back ring holds what a bounded FIFO of the same depth holds,  *)
(* for every DEPTH and every set of entries.                               *)
(***************************************************************************)
EXTENDS WriteBackBuffer, SequenceTheorems, TLAPS

\* The order of the two indices follows from the wrap bits: the writer is never
\* behind the reader and never more than one lap ahead.
PtrOrder ==
  IF write_ptr.wrap = read_ptr.wrap THEN read_ptr.idx <= write_ptr.idx
                                    ELSE write_ptr.idx <= read_ptr.idx

Filled == \A k \in 0..(Occupancy - 1) : mem[SlotAt(k)] \in Entry

IInv == TypeOK /\ PtrOrder /\ Filled

-----------------------------------------------------------------------------
LEMMA SuccType == ASSUME NEW p \in Ptr PROVE Succ(p) \in Ptr
  BY DepthAssumption DEF Ptr, Slot, Succ

\* The pointer arithmetic of one clock, without the storage: TypeOK and PtrOrder
\* make Occupancy a count, and a push or a pop moves it by one.
LEMMA OccupancyRange ==
  ASSUME TypeOK, PtrOrder
  PROVE  /\ Occupancy \in 0..DEPTH
         /\ full <=> Occupancy = DEPTH
         /\ empty <=> Occupancy = 0
  BY DepthAssumption DEF TypeOK, PtrOrder, Occupancy, full, empty, Ptr, Slot

\* Successive slots of the window are distinct, up to a whole lap.
LEMMA SlotAtRange ==
  ASSUME TypeOK, PtrOrder
  PROVE  /\ \A k \in 0..(DEPTH - 1) : SlotAt(k) \in Slot
         /\ ~full => SlotAt(Occupancy) = write_ptr.idx
         /\ \A k \in 0..(Occupancy - 1) : ~full => SlotAt(k) # write_ptr.idx
  BY DepthAssumption
  DEF TypeOK, PtrOrder, Occupancy, SlotAt, full, Ptr, Slot


push(write_in) == write_in # None /\ ~full
pop(read_en)   == read_en /\ ~empty

\* The pointers of the next cycle: the type and the order are preserved, a push
\* lengthens the window at its far end and a pop shortens it at its near end.
LEMMA PointerStep ==
  ASSUME TypeOK, PtrOrder,
         NEW write_in \in Entry \union {None}, NEW read_en \in BOOLEAN,
         Clock(write_in, read_en)
  PROVE  /\ TypeOK'
         /\ PtrOrder'
         /\ Occupancy' = (Occupancy + (IF push(write_in) THEN 1 ELSE 0))
                          - (IF pop(read_en) THEN 1 ELSE 0)
         /\ \A k \in 0..(DEPTH - 1) :
              pop(read_en) /\ k + 1 < DEPTH => SlotAt(k)' = SlotAt(k + 1)
         /\ \A k \in 0..(DEPTH - 1) : ~pop(read_en) => SlotAt(k)' = SlotAt(k)
<1>1. write_ptr' = (IF push(write_in) THEN Succ(write_ptr) ELSE write_ptr)
  BY DEF Clock, push
<1>2. read_ptr' = (IF pop(read_en) THEN Succ(read_ptr) ELSE read_ptr)
  BY DEF Clock, pop
<1>3. write_ptr' \in Ptr /\ read_ptr' \in Ptr
  BY <1>1, <1>2, SuccType DEF TypeOK
<1>4. mem' \in [Slot -> Entry \union {None}] /\ data_out' \in Entry \union {None}
  BY DEF TypeOK, Clock, Ptr
<1>5. TypeOK'
  BY <1>3, <1>4 DEF TypeOK
<1>6. /\ PtrOrder'
      /\ Occupancy' = (Occupancy + (IF push(write_in) THEN 1 ELSE 0))
                       - (IF pop(read_en) THEN 1 ELSE 0)
  <2>1. CASE push(write_in) /\ pop(read_en)
    BY <2>1, <1>1, <1>2, DepthAssumption
    DEF TypeOK, PtrOrder, Occupancy, Ptr, Slot, Succ, push, pop, full, empty
  <2>2. CASE push(write_in) /\ ~pop(read_en)
    BY <2>2, <1>1, <1>2, DepthAssumption
    DEF TypeOK, PtrOrder, Occupancy, Ptr, Slot, Succ, push, full
  <2>3. CASE ~push(write_in) /\ pop(read_en)
    BY <2>3, <1>1, <1>2, DepthAssumption
    DEF TypeOK, PtrOrder, Occupancy, Ptr, Slot, Succ, pop, empty
  <2>4. CASE ~push(write_in) /\ ~pop(read_en)
    BY <2>4, <1>1, <1>2, DepthAssumption DEF TypeOK, PtrOrder, Occupancy, Ptr, Slot
  <2> QED BY <2>1, <2>2, <2>3, <2>4
<1>7. \A k \in 0..(DEPTH - 1) :
        pop(read_en) /\ k + 1 < DEPTH => SlotAt(k)' = SlotAt(k + 1)
  BY <1>2, DepthAssumption DEF TypeOK, SlotAt, Ptr, Slot, Succ
<1>8. \A k \in 0..(DEPTH - 1) : ~pop(read_en) => SlotAt(k)' = SlotAt(k)
  BY <1>2 DEF SlotAt
<1> QED BY <1>5, <1>6, <1>7, <1>8

\* The window's contents: what a push writes is its new last entry, and every
\* other entry of the new window was in the old one.
LEMMA WindowStep ==
  ASSUME TypeOK, PtrOrder,
         NEW write_in \in Entry \union {None}, NEW read_en \in BOOLEAN,
         Clock(write_in, read_en)
  PROVE  \A k \in 0..(Occupancy' - 1) :
           LET j == IF pop(read_en) THEN k + 1 ELSE k
           IN  mem'[SlotAt(k)'] = IF j = Occupancy THEN write_in ELSE mem[SlotAt(j)]
<1> SUFFICES ASSUME NEW k \in 0..(Occupancy' - 1)
             PROVE  LET j == IF pop(read_en) THEN k + 1 ELSE k
                    IN  mem'[SlotAt(k)'] = IF j = Occupancy THEN write_in
                                           ELSE mem[SlotAt(j)]
  OBVIOUS
<1> DEFINE j == IF pop(read_en) THEN k + 1 ELSE k
<1>1. /\ Occupancy \in 0..DEPTH
      /\ full <=> Occupancy = DEPTH
      /\ empty <=> Occupancy = 0
  BY OccupancyRange
<1>2. /\ Occupancy' = (Occupancy + (IF push(write_in) THEN 1 ELSE 0))
                       - (IF pop(read_en) THEN 1 ELSE 0)
      /\ \A i \in 0..(DEPTH - 1) :
           pop(read_en) /\ i + 1 < DEPTH => SlotAt(i)' = SlotAt(i + 1)
      /\ \A i \in 0..(DEPTH - 1) : ~pop(read_en) => SlotAt(i)' = SlotAt(i)
  BY PointerStep
<1>3. /\ k \in 0..(DEPTH - 1)
      /\ j \in 0..Occupancy
      /\ j < DEPTH
      /\ j = Occupancy => push(write_in)
  BY <1>1, <1>2, DepthAssumption DEF push, pop
<1>4. SlotAt(k)' = SlotAt(j)
  BY <1>2, <1>3, DepthAssumption
<1>5. SlotAt(j) \in Slot
  BY <1>3, SlotAtRange, DepthAssumption
<1>6. CASE push(write_in)
  <2>1. mem' = [mem EXCEPT ![write_ptr.idx] = write_in] /\ ~full
    BY <1>6 DEF Clock, push
  <2>2. j = Occupancy => SlotAt(j) = write_ptr.idx
    BY <2>1, SlotAtRange
  <2>3. j # Occupancy => SlotAt(j) # write_ptr.idx
    BY <2>1, <1>1, <1>3, SlotAtRange
  <2> QED BY <2>1, <2>2, <2>3, <1>4, <1>5 DEF TypeOK
<1>7. CASE ~push(write_in)
  BY <1>7, <1>3, <1>4 DEF Clock, push
<1> QED BY <1>6, <1>7

-----------------------------------------------------------------------------
LEMMA InitInv == Init => IInv
  BY DepthAssumption
  DEF Init, IInv, TypeOK, PtrOrder, Filled, Occupancy, Ptr, Slot

LEMMA StepInv == IInv /\ [Next]_vars => IInv'
<1> SUFFICES ASSUME IInv, [Next]_vars PROVE IInv'
  OBVIOUS
<1> USE DEF IInv
<1>1. CASE UNCHANGED vars
  BY <1>1 DEF vars, TypeOK, PtrOrder, Filled, Occupancy, SlotAt
<1>2. ASSUME NEW write_in \in Entry \union {None}, NEW read_en \in BOOLEAN,
             Clock(write_in, read_en)
      PROVE  IInv'
  <2>1. TypeOK' /\ PtrOrder'
    BY <1>2, PointerStep
  <2>2. Occupancy \in 0..DEPTH /\ (empty <=> Occupancy = 0)
    BY OccupancyRange
  <2>3. Occupancy' = (Occupancy + (IF push(write_in) THEN 1 ELSE 0))
                     - (IF pop(read_en) THEN 1 ELSE 0)
    BY <1>2, PointerStep
  <2>4. Filled'
    <3> SUFFICES ASSUME NEW k \in 0..(Occupancy' - 1)
                 PROVE  mem'[SlotAt(k)'] \in Entry
      BY DEF Filled
    <3> DEFINE j == IF pop(read_en) THEN k + 1 ELSE k
    <3>1. mem'[SlotAt(k)'] = IF j = Occupancy THEN write_in ELSE mem[SlotAt(j)]
      BY <1>2, WindowStep
    <3>2. j \in 0..Occupancy /\ (j = Occupancy => push(write_in))
      BY <2>2, <2>3, DepthAssumption DEF push, pop
    <3>3. j # Occupancy => mem[SlotAt(j)] \in Entry
      BY <3>2, <2>2, DepthAssumption DEF Filled
    <3> QED BY <3>1, <3>2, <3>3 DEF push
  <2> QED BY <2>1, <2>4
<1> QED BY <1>1, <1>2 DEF Next

\* The pointers, the storage and the output register keep their types, whatever
\* the depth and whatever the ports are driven with.
THEOREM TypeCorrect == Spec => []TypeOK
<1>1. IInv => TypeOK
  BY DEF IInv
<1> QED BY InitInv, StepInv, <1>1, PTL DEF Spec

\* A refused push or pop never moves a pointer: the window never exceeds DEPTH
\* and never covers a slot that was not written.
THEOREM NeverOverrun == Spec => []OccupancyBounded
<1>1. IInv => OccupancyBounded
  BY OccupancyRange DEF IInv, Filled, OccupancyBounded
<1> QED BY InitInv, StepInv, <1>1, PTL DEF Spec

-----------------------------------------------------------------------------
LEMMA QueueIsSeq ==
  ASSUME IInv
  PROVE  /\ Queue \in Seq(Entry)
         /\ Len(Queue) = Occupancy
         /\ \A i \in 1..Occupancy : Queue[i] = mem[SlotAt(i - 1)]
<1>1. Occupancy \in Nat
  BY OccupancyRange, DepthAssumption DEF IInv
<1>2. \A i \in 1..Occupancy : mem[SlotAt(i - 1)] \in Entry
  BY <1>1 DEF IInv, Filled
<1>3. Queue \in [1..Occupancy -> Entry]
  BY <1>2 DEF Queue
<1>4. Queue \in Seq(Entry)
  BY <1>1, <1>3, SeqDef
<1>5. Len(Queue) = Occupancy
  <2>1. DOMAIN Queue = 1..Occupancy /\ DOMAIN Queue = 1..Len(Queue) /\ Len(Queue) \in Nat
    BY <1>3, <1>4, LenProperties
  <2> QED BY <2>1, <1>1
<1>6. \A i \in 1..Occupancy : Queue[i] = mem[SlotAt(i - 1)]
  BY DEF Queue
<1> QED BY <1>4, <1>5, <1>6

LEMMA FifoInit == Init => Fifo!Init
<1> SUFFICES ASSUME Init PROVE Fifo!Init
  OBVIOUS
<1>1. Queue \in Seq(Entry) /\ Len(Queue) = Occupancy
  BY InitInv, QueueIsSeq
<1>2. Occupancy = 0
  BY DEF Init, Occupancy
<1>3. Queue = <<>>
  BY <1>1, <1>2, EmptySeq
<1> QED BY <1>3 DEF Init, Fifo!Init

\* One clock of the ring is one clock of the FIFO with the same port inputs.
LEMMA FifoClock ==
  ASSUME IInv, IInv',
         NEW write_in \in Entry \union {None}, NEW read_en \in BOOLEAN,
         Clock(write_in, read_en)
  PROVE  Fifo!Clock(write_in, read_en)
<1> DEFINE rest == IF pop(read_en) THEN Tail(Queue) ELSE Queue
           next == IF push(write_in) THEN Append(rest, write_in) ELSE rest
           shift == IF pop(read_en) THEN 1 ELSE 0
<1>1. /\ Queue \in Seq(Entry)
      /\ Len(Queue) = Occupancy
      /\ \A i \in 1..Occupancy : Queue[i] = mem[SlotAt(i - 1)]
  BY QueueIsSeq
<1>2. /\ Queue' \in Seq(Entry)
      /\ Len(Queue') = Occupancy'
      /\ \A i \in 1..Occupancy' : Queue'[i] = mem'[SlotAt(i - 1)']
  <2>1. /\ Occupancy' \in Nat
        /\ Queue' \in [1..Occupancy' -> Entry]
        /\ \A i \in 1..Occupancy' : Queue'[i] = mem'[SlotAt(i - 1)']
    <3>1. Occupancy' \in Nat
      BY DepthAssumption, OccupancyRange, PointerStep DEF IInv, push, pop
    <3>2. \A k \in 0..(Occupancy' - 1) : mem'[SlotAt(k)'] \in Entry
      BY DEF IInv, Filled
    <3>3. \A n \in Nat : \A i \in 1..n : i - 1 \in 0..(n - 1)
      OBVIOUS
    <3>4. \A i \in 1..Occupancy' : mem'[SlotAt(i - 1)'] \in Entry
      BY <3>1, <3>2, <3>3
    <3> QED BY <3>1, <3>4 DEF Queue
  <2>2. Queue' \in Seq(Entry)
    BY <2>1, SeqDef
  <2>3. /\ DOMAIN Queue' = 1..Occupancy'
        /\ DOMAIN Queue' = 1..Len(Queue')
        /\ Len(Queue') \in Nat
    BY <2>1, <2>2, LenProperties
  <2> QED BY <2>1, <2>2, <2>3
<1>3. /\ Occupancy \in 0..DEPTH
      /\ full <=> Occupancy = DEPTH
      /\ empty <=> Occupancy = 0
  BY OccupancyRange DEF IInv
<1>4. Occupancy' = (Occupancy + (IF push(write_in) THEN 1 ELSE 0)) - shift
  BY PointerStep DEF IInv
<1>5. Fifo!full <=> full
  BY <1>1, <1>3 DEF Fifo!full
<1>6. Fifo!empty <=> empty
  BY <1>1, <1>3, EmptySeq DEF Fifo!empty
<1>7. /\ rest \in Seq(Entry)
      /\ Len(rest) = Occupancy - shift
      /\ \A i \in 1..Len(rest) : rest[i] = mem[SlotAt(i - 1 + shift)]
  <2>1. CASE pop(read_en)
    <3>1. Queue # <<>>
      BY <2>1, <1>6 DEF pop, Fifo!empty
    <3>2. /\ Tail(Queue) \in Seq(Entry)
          /\ Len(Tail(Queue)) = Occupancy - 1
          /\ \A i \in 1..Len(Tail(Queue)) : Tail(Queue)[i] = Queue[i + 1]
      BY <3>1, <1>1, HeadTailProperties
    <3>3. \A i \in 1..(Occupancy - 1) : Queue[i + 1] = mem[SlotAt(i)]
      BY <1>1, <1>3, DepthAssumption
    <3>4. \A i \in 1..(Occupancy - 1) : SlotAt(i - 1 + 1) = SlotAt(i)
      BY <1>3, DepthAssumption
    <3> QED BY <2>1, <3>2, <3>3, <3>4
  <2>2. CASE ~pop(read_en)
    <3>1. \A i \in 1..Occupancy : SlotAt(i - 1 + 0) = SlotAt(i - 1)
      BY <1>3, DepthAssumption
    <3> QED BY <2>2, <3>1, <1>1, <1>3, DepthAssumption
  <2> QED BY <2>1, <2>2
<1>8. /\ next \in Seq(Entry)
      /\ Len(next) = Occupancy'
      /\ \A i \in 1..Occupancy' :
           next[i] = IF i = Len(rest) + 1 THEN write_in ELSE rest[i]
  <2>1. CASE push(write_in)
    <3>1. write_in \in Entry
      BY <2>1 DEF push
    <3> QED BY <2>1, <3>1, <1>7, <1>4, <1>3, AppendProperties, DepthAssumption
  <2>2. CASE ~push(write_in)
    BY <2>2, <1>7, <1>4, <1>3, DepthAssumption
  <2> QED BY <2>1, <2>2
<1>9. \A i \in 1..Occupancy' : Queue'[i] = next[i]
  <2> SUFFICES ASSUME NEW i \in 1..Occupancy' PROVE Queue'[i] = next[i]
    OBVIOUS
  <2> DEFINE k == i - 1
             j == IF pop(read_en) THEN k + 1 ELSE k
  <2>1. k \in 0..(Occupancy' - 1) /\ j \in Nat /\ j = i - 1 + shift
    BY <1>3, <1>4, DepthAssumption
  <2>2. mem'[SlotAt(k)'] = IF j = Occupancy THEN write_in ELSE mem[SlotAt(j)]
    BY <2>1, WindowStep DEF IInv
  <2>3. Queue'[i] = mem'[SlotAt(k)']
    BY <1>2
  <2>4. j = Occupancy <=> i = Len(rest) + 1
    BY <2>1, <1>7, <1>3, DepthAssumption
  <2>5. j # Occupancy => rest[i] = mem[SlotAt(j)]
    BY <2>1, <2>4, <1>7, <1>3, <1>4, DepthAssumption
  <2> QED BY <2>2, <2>3, <2>4, <2>5, <1>8
<1>10. Queue' = next
  BY <1>2, <1>8, <1>9, SeqEqual
<1>11. data_out' = IF pop(read_en) THEN Head(Queue) ELSE None
  <2>1. CASE pop(read_en)
    <3>1. Occupancy >= 1
      BY <2>1, <1>3, DepthAssumption DEF pop
    <3>2. SlotAt(0) = read_ptr.idx
      BY DepthAssumption DEF SlotAt, IInv, TypeOK, Ptr, Slot
    <3>3. Head(Queue) = mem[SlotAt(0)]
      <4>1. Head(Queue) = Queue[1]
        OBVIOUS
      <4> QED BY <4>1, <3>1, <1>1, <1>3, DepthAssumption
    <3> QED BY <2>1, <3>2, <3>3 DEF Clock, pop
  <2>2. CASE ~pop(read_en)
    BY <2>2 DEF Clock, pop
  <2> QED BY <2>1, <2>2
<1> QED BY <1>5, <1>6, <1>10, <1>11 DEF Fifo!Clock, push, pop

\* The ring buffer implements the bounded FIFO the cache controller is written
\* against, for every depth: entries leave exactly once, in the order they came.
THEOREM RingImplementsFifo == Spec => ImplementsFifo
<1>1. IInv /\ IInv' /\ [Next]_vars => [Fifo!Next]_(Fifo!vars)
  <2> SUFFICES ASSUME IInv, IInv', [Next]_vars PROVE [Fifo!Next]_(Fifo!vars)
    OBVIOUS
  <2>1. CASE UNCHANGED vars
    BY <2>1 DEF vars, Fifo!vars, Queue, Occupancy, SlotAt
  <2>2. ASSUME NEW write_in \in Entry \union {None}, NEW read_en \in BOOLEAN,
               Clock(write_in, read_en)
        PROVE  Fifo!Next
    BY <2>2, FifoClock DEF Fifo!Next
  <2> QED BY <2>1, <2>2 DEF Next
<1> QED BY InitInv, StepInv, FifoInit, <1>1, PTL DEF Spec, ImplementsFifo, Fifo!Spec
=============================================================================
