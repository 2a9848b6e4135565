------------------------------- MODULE Sdram -------------------------------
(***************************************************************************)
(* The SDRAM controller on its chip, with a client that presents block     *)
(* requests as the cache's memory port does: valid is held until the edge  *)
(* where mem_ready is high.  Shown to be the block memory of MemoryPort.   *)
(***************************************************************************)
EXTENDS SdramController, Integers

CONSTANTS Lines,                      \* the lines the client writes
          PAGE, dRP, dRC, dRCD, dDPL  \* the chip's page length and distances

VARIABLES cells, open, burst, pipe, DQ, age, protocol,   \* the chip
          cpu_in,   \* the request presented, or None
          op,       \* the request taken and not yet carried out, or None
          owed      \* refresh periods that ended in normal operation, less REFs issued

deviceVars == <<cells, open, burst, pipe, DQ, age, protocol>>
vars       == <<ctrlVars, deviceVars, cpu_in, op, owed>>

Chip == INSTANCE SdramDevice

\* The controller's waits are at least the chip's distances.
ASSUME TimingAssumption ==
  /\ {PAGE, dRP, dRC, dRCD, dDPL} \subseteq Nat \ {0}
  /\ dRP <= tRP + 1 /\ dRC <= tRC + 1 /\ dRCD <= tRCD + 1
  /\ dDPL <= 2 /\ dDPL <= Pwait + 1 /\ dRC <= Pwait + 1
  /\ None \notin Rows /\ None \notin Chip!Bursts

\* The chip answers a READ after two clocks, and a block never runs over the end of a row.
ASSUME GeometryAssumption ==
  /\ tCAS = 2 /\ Lines \subseteq Line
  /\ \A u \in UCols : (u + 1) * BURST_LEN <= PAGE

\* The clocks of the initialisation, and the longest it takes until a refresh that falls
\* due is reported done: an access may be in front of it.
InitLength == Pwait + tRP + 2 * tRC + tMRD + 5
Busy       == tRCD + tCAS + BURST_LEN + tRP + tRC + 5

\* A period has room for both, also the period in which the initialisation ends.
ASSUME RefreshAssumption == (InitLength % REFRESH_PERIOD) + Busy <= REFRESH_PERIOD - 1

Requests == [write : {FALSE}, block : Block] \union
            [write : {TRUE}, block : Block, line : Lines]

stored(b) == [i \in 0 .. BURST_LEN - 1 |-> cells[<<b.bank, b.row, b.ucol * BURST_LEN + i>>]]

Init == /\ CtrlInit /\ Chip!DeviceInit
        /\ cpu_in \in Requests \union {None} /\ op = None /\ owed = 0

taken == cpu_in # None /\ mem_ready

\* The client: a request stays up until it is taken; the next comes at any time.
Client == \/ cpu_in # None /\ ~mem_ready /\ UNCHANGED cpu_in
          \/ taken /\ cpu_in' = None
          \/ cpu_in = None /\ cpu_in' \in Requests \union {None}

\* Bookkeeping for the properties: the request in its burst, and the refreshes owed
\* (what is pending when the initialisation ends counts as one).
Observe ==
  LET over == IF refresh_counter >= REFRESH_PERIOD - 1 THEN 1 ELSE 0
      done == IF cmd' = "REF" THEN 1 ELSE 0
  IN  /\ op' = IF taken THEN cpu_in
               ELSE IF current_state' = "PRECHARGE" THEN None ELSE op
      /\ owed' = IF current_state \in InitStates THEN (IF refresh_pending' THEN 1 ELSE 0)
                 ELSE IF owed \in {-1, 2} THEN owed ELSE owed + over - done

Next == /\ CtrlClock(cpu_in, DQ)
        /\ Chip!DeviceClock(cmd, mem_bank_select, mem_addr_in, mem_data_oe, mem_data_in)
        /\ Client
        /\ Observe

Spec == Init /\ [][Next]_vars /\ WF_vars(Next)

-----------------------------------------------------------------------------
Port == INSTANCE MemoryPort
  WITH Line <- Lines, InitLine <- [i \in 0 .. BURST_LEN - 1 |-> None],
       array <- [b \in Block |-> IF op # None /\ op.write /\ op.block = b
                                 THEN op.line ELSE stored(b)],
       mem_op <- op,
       mem_data_out <- IF data_out_valid THEN read_buffer ELSE None

\* The controller on its chip is the block memory the cache relies on: a read
\* returns the whole block as last written, every halfword in its place, whatever
\* bursts, precharges and refreshes came between, and mem_ready tells the truth.
ActsAsBlockMemory == Port!Init /\ [][Port!Clock(cpu_in)]_(Port!vars)

\* No command ever breaks a rule of the chip: rows are opened only in idle banks,
\* refreshes find every bank closed ("every transaction ends in PRECHARGE and init
\* ends in PALL"), and the minimum distances are kept.
DeviceRulesKept == protocol

\* The two drivers of the bidirectional bus are never on together.
NoBusContention == mem_data_oe => DQ = None

\* Every refresh period gets exactly one refresh, although requests go first: the one
\* owed is done before the next period ends (there is a single pending bit, so a second
\* one would be forgotten), and none is done twice while the last is being reported.
OneRefreshPerPeriod == owed \in {0, 1}

\* Refreshes do not shut out requests: every one presented is taken.
EveryRequestTaken == (cpu_in # None) ~> taken
=============================================================================
