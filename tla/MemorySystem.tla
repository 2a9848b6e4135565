---------------------------- MODULE MemorySystem ----------------------------
(***************************************************************************)
(* The memory stage of the core with everything behind it: the EX/MEM      *)
(* register, the LSU, the L1 controller and cache, the block memory and    *)
(* the io bus (rtl/datapath.v wires lsu to the two ports; rtl/RV32I.v      *)
(* wires the memory).  One Next step is one posedge of all of it.          *)
(***************************************************************************)
EXTENDS CacheController, FiniteSets

CONSTANTS Accesses,   \* the loads and stores the pipeline may perform
          IoAccess    \* accesses with addr[31:28] == 4'hF

ASSUME AccessAssumption ==
  /\ Accesses \subseteq Request
  /\ IoAccess \intersect Request = {} /\ None \notin IoAccess

\* What an io access transfers is the io bus's affair.
IoAnswer == [data |-> None]

VARIABLES em,            \* the access in EX/MEM, or None
          mem_wb,        \* mw_cache_in of a load that just left MEM, or None
          lsu_state, cpu_data_in, io_req, io_access_r, resp_data_r,
          io_busy,       \* the bridge has taken a request it has not answered
          io_ack         \* the io_ack pulse: IoAnswer or None

lsuVars   == <<lsu_state, cpu_data_in, io_req, io_access_r, resp_data_r>>
stageVars == <<em, mem_wb, lsuVars, io_busy, io_ack>>
vars      == <<controllerVars, stageVars>>

LSU == INSTANCE Lsu WITH CacheAccess <- Accesses

TypeOK ==
  /\ ControllerTypeOK
  /\ em \in Accesses \union IoAccess \union {None}
  /\ mem_wb \in Val \union {None}
  /\ lsu_state \in {"IDLE", "RESP_WAITING"}   \* never DONE: see Lsu
  /\ cpu_data_in \in Accesses \union {None}
  /\ io_req \in IoAccess \union {None}
  /\ io_access_r \in BOOLEAN
  /\ resp_data_r \in Answer \union {None}
  /\ io_busy \in BOOLEAN
  /\ io_ack \in {IoAnswer, None}

Init ==
  /\ ControllerInit
  /\ em = None /\ mem_wb = None
  /\ LSU!LsuInit
  /\ io_busy = FALSE /\ io_ack = None

\* hazard_detector: the LSU's stall is the only thing that holds EX/MEM.
req_stall   == LSU!req_stall(em, cpu_data_out, io_ack)
mem_advance == ~req_stall

\* EX/MEM and MEM/WB: held, with a bubble behind, while the LSU stalls.
Stalled ==
  /\ req_stall
  /\ mem_wb' = None
  /\ UNCHANGED em

Advance ==
  /\ mem_advance
  /\ em' \in Accesses \union IoAccess \union {None}
  /\ mem_wb' = IF em \in Load THEN LSU!be_cache_in(cpu_data_out, io_ack).data
                              ELSE None

\* The io bus: one answer per request, after any delay.
IoIdle   == ~io_busy /\ io_req = None /\ io_ack' = None /\ UNCHANGED io_busy
IoTake   == ~io_busy /\ io_req # None /\ \/ io_ack' = None /\ io_busy' = TRUE
                                         \/ io_ack' = IoAnswer /\ io_busy' = FALSE
IoWait   == io_busy /\ io_ack' = None /\ UNCHANGED io_busy
IoAnswered == io_busy /\ io_ack' = IoAnswer /\ io_busy' = FALSE
IoBus    == IoIdle \/ IoTake \/ IoWait \/ IoAnswered

Next ==
  \E starved \in Starved :
    /\ ControllerClock(cpu_data_in, starved)
    /\ LSU!LsuClock(em, cpu_data_out, cpu_ready_out, io_ack, mem_advance)
    /\ Stalled \/ Advance
    /\ IoBus

Spec == Init /\ [][Next]_vars

\* The clock runs, and neither the memory nor the io bus takes for ever.
MemoryProgress == Next /\ Memory!Progress
IoProgress     == Next /\ IoAnswered
FairSpec == Spec /\ WF_vars(Next) /\ WF_vars(MemoryProgress) /\ WF_vars(IoProgress)

-----------------------------------------------------------------------------
(* The architectural view: the line the pipeline would read now.            *)

writing(s, w) == ram_write # None /\ s = ram_write.set /\ w \in ram_write.ways

tagOf(s, w)  == IF writing(s, w) /\ ram_write.tag # None THEN ram_write.tag
                                                         ELSE tag_ram[<<s, w>>]
lineOf(s, w) == IF writing(s, w) THEN ram_write.line ELSE data_ram[<<s, w>>]

waysOf(b) == {w \in Ways : <<b.set, w>> \in valid_bits_pw /\ tagOf(b.set, w) = b.tag}

\* The evicted lines on their way to memory, from the cache's output register to
\* the memory port's, each stage newer than the one after it.
Staged   == <<evicted, evict_hold, cache_fifo_in>>
MemWrite == IF mem_req # None /\ mem_req.write
            THEN [block |-> mem_req.block, line |-> mem_req.line] ELSE None
WriteBacks ==
  ({Staged[i] : i \in 1..3} \union {fifo_queue[i] : i \in 1..Len(fifo_queue)}
    \union {mem_fifo_out, MemWrite}) \ {None}

inMemory(b) == LET inFlight == {v \in WriteBacks : v.block = b}
               IN  IF inFlight = {} THEN array[b] ELSE (CHOOSE v \in inFlight : TRUE).line

lineNow(b) == IF waysOf(b) # {} THEN lineOf(b.set, CHOOSE w \in waysOf(b) : TRUE)
                                ELSE inMemory(b)

-----------------------------------------------------------------------------
(* Properties of the design.                                                *)

reading(b) == \/ mem_req # None /\ ~mem_req.write /\ mem_req.block = b
              \/ m_state = "M_PORT_READ_WAIT" /\ miss_pending = b

\* A block sits in at most one way of its set: a refill never duplicates a line
\* that is already there, not even one whose RAM write is still in flight.
SingleCopy == \A b \in Block : Cardinality(waysOf(b)) <= 1

\* The refill of a block never overtakes that block's own write-back, although
\* the arbiter gives misses priority over the FIFO: no request for a block can be
\* outstanding while a newer line for it is still anywhere on its way to memory.
NoStaleRefill == \A b \in Block :
  reading(b) => \A v \in WriteBacks : v.block # b

\* A valid line that is not dirty may be dropped silently, so it must hold what
\* memory holds or is about to hold.
CleanLinesMatchMemory == \A b \in Block : \A w \in waysOf(b) :
  <<b.set, w>> \notin dirty_bits_pw => lineOf(b.set, w) = inMemory(b)

\* Every request the controller pulses into the cache finds it ready: the cache
\* drops a pulse it is not ready for, and the core would wait for ever.
RequestAlwaysTaken == cpu_cache # None => cache_state = "IDLE" /\ ready

\* As built the backlog never exceeds one victim: the port drains each write-back
\* before the core can raise the next miss, so the FIFO never fills and drain_mode
\* is never entered.  NoStaleRefill rests on this timing, not on the arbiter.
NoBacklog == Len(fifo_queue) <= 1 /\ ~drain_mode

-----------------------------------------------------------------------------
(* Properties that hold even when the bench starves the FIFO (tb_ctrl.v).   *)

\* The staging register is free whenever the cache evicts: a second victim would
\* overwrite the first, and a dirty line would be lost.
NoVictimOverwritten == evicted # None => evict_hold = None

\* The FIFO has room for every victim pushed into it; it refuses silently.
PushNeverRefused == cache_fifo_in # None => ~fifo_full

\* A full FIFO is drained completely before the miss that found it full is read.
NoReadWhileDraining ==
  drain_mode => m_state \notin {"M_PORT_READ_REQ", "M_PORT_READ_WAIT"}

-----------------------------------------------------------------------------
(* The promise to the pipeline.                                             *)

answering == em \in Accesses /\ (cache_out # None \/ cpu_data_out # None)
answer    == IF cache_out # None THEN cache_out ELSE cpu_data_out

Atomic == INSTANCE AtomicMemory
  WITH contents <- [b \in Block |-> lineNow(b)],
       access   <- IF em \in Accesses THEN em ELSE None,
       done     <- answering,
       result   <- IF answering THEN answer.data ELSE None

\* Through hits, misses, evictions, refills and write-backs in flight, the memory
\* stage behaves as one atomic memory: every load hands MEM/WB the last value
\* stored to its word, and every store takes effect exactly once.
ActsAsAtomicMemory == Atomic!Spec

\* Every access the pipeline starts is eventually answered and leaves MEM.
EveryAccessEnds == (em # None) ~> (em # None /\ mem_advance)

\* Evicted lines do not stay behind: each victim reaches memory, however many
\* misses, which have priority over the FIFO, follow it.
StoredTo   == {a.block : a \in {x \in Accesses : x.op = "store"}}
leaving(b) == \E v \in WriteBacks : v.block = b
EveryVictimWritten == \A b \in StoredTo : leaving(b) ~> ~leaving(b)
=============================================================================
