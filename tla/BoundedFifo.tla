---------------------------- MODULE BoundedFifo ----------------------------
(***************************************************************************)
(* What write_back_buffer (rtl/l1.v) promises the cache controller: a      *)
(* first-in first-out queue of at most DEPTH entries with one write port   *)
(* and one read port, both served in the same clock.  A write to a full    *)
(* queue and a read of an empty one are refused without any indication.    *)
(*                                                                         *)
(* data_out merges the RTL's output_valid with {addr_out, data_out}: it is *)
(* None when output_valid is low.                                          *)
(***************************************************************************)
EXTENDS Naturals, Sequences

CONSTANTS DEPTH,   \* entries the queue holds
          Entry,   \* {addr, block} pairs
          None     \* "no entry"; not an Entry

VARIABLES queue,     \* the entries held, oldest first
          data_out   \* the entry popped by the previous clock, or None

vars == <<queue, data_out>>

full  == Len(queue) = DEPTH
empty == queue = <<>>

Init == queue = <<>> /\ data_out = None

\* One posedge.  write_in is the entry on the write port (None: write_en low).
\* full and empty are those of the cycle before the edge, for both ports.
Clock(write_in, read_en) ==
  LET pop  == read_en /\ ~empty
      push == write_in # None /\ ~full
      rest == IF pop THEN Tail(queue) ELSE queue
  IN  /\ queue'    = IF push THEN Append(rest, write_in) ELSE rest
      /\ data_out' = IF pop THEN Head(queue) ELSE None

Next == \E write_in \in Entry \union {None}, read_en \in BOOLEAN :
          Clock(write_in, read_en)

Spec == Init /\ [][Next]_vars
=============================================================================
