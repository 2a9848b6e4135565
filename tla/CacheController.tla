-------------------------- MODULE CacheController --------------------------
(***************************************************************************)
(* cache_controller (rtl/l1.v): the CPU port, the write-back path (staging *)
(* register, FIFO, drain mode), the fixed-priority arbiter and the memory  *)
(* port, around the cache of module Cache and the memory of module         *)
(* MemoryPort.  Everything is clocked together: ControllerClock is one     *)
(* posedge of all of it, every right-hand side reading the old registers.  *)
(*                                                                         *)
(* The FIFO is BoundedFifo; WriteBackBuffer_proofs shows that the ring     *)
(* buffer of the RTL implements it at every depth.                         *)
(***************************************************************************)
EXTENDS Cache, Sequences

CONSTANTS WB_FIFO_DEPTH,
          InitLine,   \* what every block of memory holds at reset
          Starved     \* the values the bench forces on "fifo_grant held at 0":
                      \* {FALSE} is the design, BOOLEAN is tb_ctrl's force

ASSUME ControllerAssumption ==
  /\ WB_FIFO_DEPTH \in Nat \ {0}
  /\ InitLine \in Line
  /\ Starved \subseteq BOOLEAN

VARIABLES c_state,            \* c_current_state
          cpu_ready_out,
          cpu_cache,          \* cpu_cache_valid and the request registers
          cpu_data_out,       \* cpu_data_out_valid and cpu_data_out
          evict_hold,         \* evict_hold_valid, _block, _addr
          drain_mode,
          cache_fifo_in,      \* cache_fifo_write_en, _data_in, _addr_in
          fifo_queue,         \* WRITE_BACK's contents
          mem_fifo_out,       \* mem_fifo_output_valid, _addr_out, _data_out
          mem_fifo_read_en,
          m_state,            \* m_current_state
          mem_req,            \* mem_addr_in_valid, mem_write_read, address, data
          missed_in,          \* mem_cache_missed_valid_in and _block_in
          miss_pending,       \* mem_cache_miss_pending and _miss_addr_r
          array, mem_ready, mem_op, mem_data_out   \* the memory

cPortVars  == <<c_state, cpu_ready_out, cpu_cache, cpu_data_out>>
evictVars  == <<evict_hold, drain_mode, cache_fifo_in>>
fifoVars   == <<fifo_queue, mem_fifo_out>>
mPortVars  == <<mem_fifo_read_en, m_state, mem_req, missed_in, miss_pending>>
memVars    == <<array, mem_ready, mem_op, mem_data_out>>
controllerVars == <<cacheVars, cPortVars, evictVars, fifoVars, mPortVars, memVars>>

WRITE_BACK == INSTANCE BoundedFifo
  WITH DEPTH <- WB_FIFO_DEPTH, Entry <- Victim,
       queue <- fifo_queue, data_out <- mem_fifo_out
Memory == INSTANCE MemoryPort

ASSUME RequestAssumption == None \notin Memory!MemReq

fifo_full  == WRITE_BACK!full
fifo_empty == WRITE_BACK!empty

ControllerTypeOK ==
  /\ CacheTypeOK
  /\ c_state \in {"C_PORT_IDLE", "C_PORT_REQ"}
  /\ cpu_ready_out \in BOOLEAN
  /\ cpu_cache \in Request \union {None}
  /\ cpu_data_out \in Answer \union {None}
  /\ evict_hold \in Victim \union {None}
  /\ drain_mode \in BOOLEAN
  /\ cache_fifo_in \in Victim \union {None}
  /\ fifo_queue \in Seq(Victim) /\ Len(fifo_queue) <= WB_FIFO_DEPTH
  /\ mem_fifo_out \in Victim \union {None}
  /\ mem_fifo_read_en \in BOOLEAN
  /\ m_state \in {"M_PORT_IDLE", "M_PORT_FIFO_READ", "M_PORT_WRITE_REQ",
                  "M_PORT_READ_REQ", "M_PORT_READ_WAIT"}
  /\ mem_req \in Memory!MemReq \union {None}
  /\ missed_in \in Line \union {None}
  /\ miss_pending \in Block \union {None}
  /\ Memory!TypeOK

ControllerInit ==
  /\ CacheInit
  /\ c_state = "C_PORT_IDLE" /\ cpu_ready_out = TRUE
  /\ cpu_cache = None /\ cpu_data_out = None
  /\ evict_hold = None /\ drain_mode = FALSE /\ cache_fifo_in = None
  /\ WRITE_BACK!Init
  /\ mem_fifo_read_en = FALSE /\ m_state = "M_PORT_IDLE"
  /\ mem_req = None /\ missed_in = None /\ miss_pending = None
  /\ Memory!Init

-----------------------------------------------------------------------------
(* CPU port.  cpu_in is the request on cpu_data_in_valid, or None.          *)

CPortAccept(cpu_in) ==
  /\ c_state = "C_PORT_IDLE" /\ cpu_in # None /\ ready
  /\ cpu_cache' = cpu_in
  /\ cpu_ready_out' = FALSE
  /\ cpu_data_out' = None
  /\ c_state' = "C_PORT_REQ"

CPortIdle(cpu_in) ==
  /\ c_state = "C_PORT_IDLE" /\ ~(cpu_in # None /\ ready)
  /\ cpu_cache' = None
  /\ cpu_ready_out' = TRUE
  /\ cpu_data_out' = None
  /\ UNCHANGED c_state

CPortAnswer ==
  /\ c_state = "C_PORT_REQ" /\ cache_out # None
  /\ cpu_cache' = None
  /\ cpu_data_out' = cache_out
  /\ cpu_ready_out' = TRUE
  /\ c_state' = "C_PORT_IDLE"

\* Wrong: the request pulse into the cache is not taken back.
CPortWait_HoldsPulse ==
  /\ c_state = "C_PORT_REQ" /\ cache_out = None
  /\ UNCHANGED <<c_state, cpu_cache, cpu_ready_out, cpu_data_out>>

CPortWait ==
  /\ c_state = "C_PORT_REQ" /\ cache_out = None
  /\ cpu_cache' = None
  /\ UNCHANGED <<c_state, cpu_ready_out, cpu_data_out>>

CPort(cpu_in) == CPortAccept(cpu_in) \/ CPortIdle(cpu_in) \/ CPortAnswer \/ CPortWait

-----------------------------------------------------------------------------
(* Write-back path.  A pulse on evicted always lands in the staging register,*)
(* over whatever it holds.                                                   *)

HoldVictim ==
  /\ evicted # None
  /\ evict_hold' = evicted
  /\ cache_fifo_in' = None

\* Wrong: the push does not wait for room in the FIFO.
PushVictim_WhenFull ==
  /\ evicted = None /\ evict_hold # None
  /\ cache_fifo_in' = evict_hold
  /\ evict_hold' = None

PushVictim ==
  /\ evicted = None /\ evict_hold # None /\ ~fifo_full
  /\ cache_fifo_in' = evict_hold
  /\ evict_hold' = None

KeepVictim ==
  /\ evicted = None /\ (evict_hold = None \/ fifo_full)
  /\ cache_fifo_in' = None
  /\ UNCHANGED evict_hold

drain_mode_next == IF drain_mode THEN ~fifo_empty
                                 ELSE evicted # None /\ fifo_full

WriteBackPath ==
  /\ HoldVictim \/ PushVictim \/ KeepVictim
  /\ drain_mode' = drain_mode_next

-----------------------------------------------------------------------------
(* Arbiter and memory port.                                                 *)

\* Wrong: a miss does not wait for the victims of the ones before it.
cache_req_Ungated   == miss_pending # None
cache_req_NotDrained == miss_pending # None /\ evict_hold = None

\* Wrong: write-backs are put off until the FIFO is full, or until a drain.
fifo_req_WhenFull == fifo_full
fifo_req_InDrain  == ~fifo_empty /\ drain_mode

cache_req == miss_pending # None /\ evict_hold = None /\ ~drain_mode
fifo_req  == ~fifo_empty

cache_grant         == cache_req
fifo_grant(starved) == fifo_req /\ ~cache_req /\ ~starved

\* Wrong: a miss pulse is lost when the port is busy.
LatchMiss_NotHeld == miss_pending' = miss

\* The pending flag, set by the miss pulse; the end of a read overrides it.
LatchMiss == miss_pending' = IF miss # None THEN miss ELSE miss_pending

StartWriteBack(starved) ==
  /\ m_state = "M_PORT_IDLE" /\ fifo_grant(starved)
  /\ mem_fifo_read_en' = TRUE
  /\ m_state' = "M_PORT_FIFO_READ"
  /\ LatchMiss
  /\ missed_in' = None
  /\ UNCHANGED mem_req

StartRead ==
  /\ m_state = "M_PORT_IDLE" /\ cache_grant
  /\ mem_req' = [write |-> FALSE, block |-> miss_pending]
  /\ m_state' = "M_PORT_READ_REQ"
  /\ LatchMiss
  /\ mem_fifo_read_en' = FALSE /\ missed_in' = None

MPortIdle(starved) ==
  /\ m_state = "M_PORT_IDLE" /\ ~fifo_grant(starved) /\ ~cache_grant
  /\ LatchMiss
  /\ mem_fifo_read_en' = FALSE /\ missed_in' = None
  /\ UNCHANGED <<m_state, mem_req>>

FifoRead ==
  /\ m_state = "M_PORT_FIFO_READ"
  /\ \/ /\ mem_fifo_out # None
        /\ mem_req' = [write |-> TRUE, block |-> mem_fifo_out.block,
                       line |-> mem_fifo_out.line]
        /\ m_state' = "M_PORT_WRITE_REQ"
     \/ mem_fifo_out = None /\ UNCHANGED <<m_state, mem_req>>
  /\ LatchMiss
  /\ mem_fifo_read_en' = FALSE /\ missed_in' = None

WriteReq ==
  /\ m_state = "M_PORT_WRITE_REQ"
  /\ \/ mem_req # None /\ mem_ready /\ mem_req' = None /\ m_state' = "M_PORT_IDLE"
     \/ ~(mem_req # None /\ mem_ready) /\ UNCHANGED <<m_state, mem_req>>
  /\ LatchMiss
  /\ mem_fifo_read_en' = FALSE /\ missed_in' = None

ReadReq ==
  /\ m_state = "M_PORT_READ_REQ"
  /\ \/ mem_req # None /\ mem_ready /\ mem_req' = None /\ m_state' = "M_PORT_READ_WAIT"
     \/ ~(mem_req # None /\ mem_ready) /\ UNCHANGED <<m_state, mem_req>>
  /\ LatchMiss
  /\ mem_fifo_read_en' = FALSE /\ missed_in' = None

ReadWait ==
  /\ m_state = "M_PORT_READ_WAIT"
  /\ \/ /\ mem_data_out # None
        /\ missed_in' = mem_data_out
        /\ miss_pending' = None
        /\ m_state' = "M_PORT_IDLE"
     \/ mem_data_out = None /\ missed_in' = None /\ LatchMiss /\ UNCHANGED m_state
  /\ mem_fifo_read_en' = FALSE
  /\ UNCHANGED mem_req

MPort(starved) == \/ StartWriteBack(starved) \/ StartRead \/ MPortIdle(starved)
                  \/ FifoRead \/ WriteReq \/ ReadReq \/ ReadWait

\* One posedge of the controller, the cache, the FIFO and the memory.
ControllerClock(cpu_in, starved) ==
  /\ CPort(cpu_in)
  /\ CacheClock(cpu_cache, missed_in)
  /\ WriteBackPath
  /\ WRITE_BACK!Clock(cache_fifo_in, mem_fifo_read_en)
  /\ MPort(starved)
  /\ Memory!Clock(mem_req)
=============================================================================
