-------------------------- MODULE WriteBackBuffer --------------------------
(***************************************************************************)
(* write_back_buffer (rtl/l1.v): the ring buffer between the cache and the *)
(* memory port.  A pointer is one wrap bit above a slot index; full and    *)
(* empty differ only in the wrap bit.                                      *)
(*                                                                         *)
(* The storage has no reset: a slot never written holds None, the unknown  *)
(* value.  data_out is qualified by output_valid, so None stands for       *)
(* "output_valid low" whatever the block RAM presents.                     *)
(***************************************************************************)
EXTENDS Naturals, Sequences

CONSTANTS DEPTH,   \* WB_FIFO_DEPTH
          Entry,   \* {addr, block} pairs
          None     \* "no entry"

\* $clog2(DEPTH)+1 pointer bits: DEPTH is a power of two, and at least two
\* for the index slice [PTR_BITS-2:0] to exist.
ASSUME DepthAssumption == DEPTH \in Nat /\ DEPTH > 1
ASSUME DepthPowerOfTwo == \E k \in 1..DEPTH : DEPTH = 2^k
ASSUME NoneAssumption  == None \notin Entry

VARIABLES write_ptr,   \* [wrap, idx] of the next slot to write
          read_ptr,    \* [wrap, idx] of the next slot to read
          mem,         \* slot -> entry
          data_out     \* the entry read by the previous clock, or None

vars == <<write_ptr, read_ptr, mem, data_out>>

Slot == 0..(DEPTH - 1)
Ptr  == [wrap : {0, 1}, idx : Slot]

TypeOK ==
  /\ write_ptr \in Ptr
  /\ read_ptr \in Ptr
  /\ mem \in [Slot -> Entry \union {None}]
  /\ data_out \in Entry \union {None}

full  == write_ptr.wrap # read_ptr.wrap /\ write_ptr.idx = read_ptr.idx
empty == write_ptr = read_ptr

\* Wrong: the index has no carry, as if DEPTH were larger.
Succ_NoCarry(ptr) == [ptr EXCEPT !.idx = @ + 1]

\* ptr + 1'b1 in PTR_BITS bits: the carry out of the index flips the wrap bit.
Succ(ptr) == IF ptr.idx = DEPTH - 1
             THEN [wrap |-> 1 - ptr.wrap, idx |-> 0]
             ELSE [wrap |-> ptr.wrap, idx |-> ptr.idx + 1]

Init ==
  /\ write_ptr = [wrap |-> 0, idx |-> 0]
  /\ read_ptr = [wrap |-> 0, idx |-> 0]
  /\ mem = [s \in Slot |-> None]
  /\ data_out = None

\* Wrong: a write to a full buffer is not refused.
Clock_WritesWhenFull(write_in, read_en) ==
  LET read_allowed  == read_en /\ ~empty
      write_allowed == write_in # None
  IN  /\ mem' = IF write_allowed THEN [mem EXCEPT ![write_ptr.idx] = write_in] ELSE mem
      /\ data_out'  = IF read_allowed THEN mem[read_ptr.idx] ELSE None
      /\ write_ptr' = IF write_allowed THEN Succ(write_ptr) ELSE write_ptr
      /\ read_ptr'  = IF read_allowed THEN Succ(read_ptr) ELSE read_ptr

\* One posedge with the given write port (None: write_en low) and read port.
Clock(write_in, read_en) ==
  LET write_allowed == write_in # None /\ ~full
      read_allowed  == read_en /\ ~empty
  IN  /\ mem' = IF write_allowed
                THEN [mem EXCEPT ![write_ptr.idx] = write_in] ELSE mem
      /\ data_out'  = IF read_allowed THEN mem[read_ptr.idx] ELSE None
      /\ write_ptr' = IF write_allowed THEN Succ(write_ptr) ELSE write_ptr
      /\ read_ptr'  = IF read_allowed THEN Succ(read_ptr) ELSE read_ptr

Next == \E write_in \in Entry \union {None}, read_en \in BOOLEAN :
          Clock(write_in, read_en)

Spec == Init /\ [][Next]_vars

-----------------------------------------------------------------------------
(* The entries the pointers delimit, oldest first.                          *)

Occupancy == IF write_ptr.wrap = read_ptr.wrap
             THEN write_ptr.idx - read_ptr.idx
             ELSE DEPTH + write_ptr.idx - read_ptr.idx

\* The k-th slot at or after the read index, around the ring.
SlotAt(k) == IF read_ptr.idx + k < DEPTH THEN read_ptr.idx + k
             ELSE read_ptr.idx + k - DEPTH

Queue == [i \in 1..Occupancy |-> mem[SlotAt(i - 1)]]

\* The pointers never drift further apart than the storage is deep, and every
\* slot they delimit was written: no refused push or pop moves a pointer, so the
\* buffer can never present a slot nobody filled.
OccupancyBounded ==
  /\ Occupancy \in 0..DEPTH
  /\ \A k \in 0..(Occupancy - 1) : mem[SlotAt(k)] \in Entry

Fifo == INSTANCE BoundedFifo WITH queue <- Queue

\* The ring buffer is a bounded FIFO: across every wrap of either pointer, with
\* simultaneous reads and writes and refused ones, entries come out exactly once
\* and in the order they went in.
ImplementsFifo == Fifo!Spec
=============================================================================
