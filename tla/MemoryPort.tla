----------------------------- MODULE MemoryPort -----------------------------
(***************************************************************************)
(* The block memory behind the cache, as the cache controller sees it: the *)
(* contract data_mem (rtl/data_mem.v) and SRAM_controller                  *)
(* (rtl/SRAM_controller.v) both keep.  A request is accepted on the edge   *)
(* where it is presented and mem_ready is high; mem_ready is then low      *)
(* until the operation is over, a read answers with one data_out_valid     *)
(* pulse, and mem_ready may also drop while idle (a refresh).  How long    *)
(* anything takes is left open.                                            *)
(*                                                                         *)
(* A write is visible from its acceptance on: there is one port, so no     *)
(* request can see the array half written.                                 *)
(***************************************************************************)
EXTENDS Naturals

CONSTANTS Block, Line, InitLine, None

VARIABLES array,         \* Block -> Line
          mem_ready,     \* BOOLEAN
          mem_op,        \* the request being served, or None
          mem_data_out   \* the line of the data_out_valid pulse, or None

vars == <<array, mem_ready, mem_op, mem_data_out>>

Read      == [write : {FALSE}, block : Block]
Write     == [write : {TRUE}, block : Block, line : Line]
MemReq    == Read \union Write

TypeOK ==
  /\ array \in [Block -> Line]
  /\ mem_ready \in BOOLEAN
  /\ mem_op \in MemReq \union {None}
  /\ mem_data_out \in Line \union {None}

Init ==
  /\ array = [b \in Block |-> InitLine]
  /\ mem_ready \in BOOLEAN          \* the SDRAM starts with its init sequence
  /\ mem_op = None
  /\ mem_data_out = None

\* NORMAL_IDLE with cpu_in_valid && mem_ready; data_mem's IDLE with accept.
Accept(req) ==
  /\ mem_op = None /\ mem_ready /\ req # None
  /\ mem_op' = req
  /\ mem_ready' = FALSE
  /\ mem_data_out' = None
  /\ array' = IF req.write THEN [array EXCEPT ![req.block] = req.line] ELSE array

\* The burst is over: a read's data is presented for one cycle.  mem_ready comes
\* with it (data_mem) or only after the precharge (SRAM_controller).
Finish ==
  /\ mem_op # None
  /\ mem_op' = None
  /\ mem_ready' \in BOOLEAN
  /\ mem_data_out' = IF mem_op.write THEN None ELSE array[mem_op.block]
  /\ UNCHANGED array

\* A cycle of a burst, of a refresh, of the precharge, or of nothing at all.
Wait(req) ==
  /\ mem_data_out' = None
  /\ UNCHANGED <<array, mem_op>>
  /\ \/ mem_op # None /\ UNCHANGED mem_ready
     \/ mem_op = None /\ ~(mem_ready /\ req # None) /\ mem_ready' \in BOOLEAN

Clock(req) == Accept(req) \/ Finish \/ Wait(req)

\* The steps that end an operation, a refresh or the initialisation.
Progress == Finish \/ (mem_op = None /\ ~mem_ready /\ mem_ready')
=============================================================================
