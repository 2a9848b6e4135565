-------------------------------- MODULE Lsu --------------------------------
(***************************************************************************)
(* lsu (rtl/lsu.v): issues the access of the EX/MEM stage once, to the     *)
(* cache or to the io bus, stalls the pipeline until the answer is in and  *)
(* bypasses the answer into MEM/WB in the response cycle.                  *)
(***************************************************************************)
EXTENDS Naturals

CONSTANTS CacheAccess,   \* accesses outside the io page
          IoAccess,      \* accesses with addr[31:28] == IO_PAGE
          None

VARIABLES lsu_state,           \* current_state
          cpu_data_in,         \* cpu_data_in_valid and the cache request registers
          io_req,              \* the io_req pulse and its request registers
          io_access_r,         \* which port the outstanding access went to
          resp_data_r

lsuVars == <<lsu_state, cpu_data_in, io_req, io_access_r, resp_data_r>>

LsuInit ==
  /\ lsu_state = "IDLE"
  /\ cpu_data_in = None /\ io_req = None
  /\ io_access_r = FALSE /\ resp_data_r = None

\* Wrong: an io access waits for the cache.
resp_CacheOnly(cpu_data_out, io_ack) == cpu_data_out

\* em is the access in EX/MEM or None; cpu_data_out and io_ack are the two
\* response pulses, an answer or None.
resp(cpu_data_out, io_ack) == IF io_access_r THEN io_ack ELSE cpu_data_out

cache_responded(cpu_data_out, io_ack) ==
  lsu_state = "RESP_WAITING" /\ resp(cpu_data_out, io_ack) # None

be_cache_in(cpu_data_out, io_ack) ==
  IF cache_responded(cpu_data_out, io_ack) THEN resp(cpu_data_out, io_ack)
                                           ELSE resp_data_r

req_stall(em, cpu_data_out, io_ack) ==
  em # None /\ ~cache_responded(cpu_data_out, io_ack) /\ lsu_state # "DONE"

LsuIssue(em) ==
  /\ lsu_state = "IDLE" /\ em # None
  /\ lsu_state' = "RESP_WAITING"
  /\ io_access_r' = (em \in IoAccess)
  /\ \/ em \in IoAccess /\ io_req' = em /\ UNCHANGED cpu_data_in
     \/ em \in CacheAccess /\ cpu_data_in' = em /\ UNCHANGED io_req
  /\ UNCHANGED resp_data_r

LsuIdle(em) == lsu_state = "IDLE" /\ em = None /\ UNCHANGED lsuVars

LsuWait(cpu_data_out, cpu_ready_out, io_ack, mem_advance) ==
  /\ lsu_state = "RESP_WAITING"
  /\ io_req' = None
  /\ cpu_data_in' = IF cpu_ready_out THEN cpu_data_in ELSE None
  /\ \/ /\ resp(cpu_data_out, io_ack) # None
        /\ resp_data_r' = resp(cpu_data_out, io_ack)
        /\ lsu_state' = IF mem_advance THEN "IDLE" ELSE "DONE"
     \/ resp(cpu_data_out, io_ack) = None /\ UNCHANGED <<resp_data_r, lsu_state>>
  /\ UNCHANGED io_access_r

\* DONE keeps an answer for an instruction that is held for a reason of its own.  The
\* stall of the LSU is the only one there is, and the answer ends it, so DONE is never
\* entered (TypeOK of MemorySystem); it has no step here, and TLC would report a deadlock.
LsuClock(em, cpu_data_out, cpu_ready_out, io_ack, mem_advance) ==
  \/ LsuIssue(em) \/ LsuIdle(em)
  \/ LsuWait(cpu_data_out, cpu_ready_out, io_ack, mem_advance)
=============================================================================
