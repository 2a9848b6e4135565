-------------------------- MODULE SdramController --------------------------
(***************************************************************************)
(* SRAM_controller (rtl/SRAM_controller.v): initialisation, block reads    *)
(* and writes as page bursts, and periodic refresh.  Every output is       *)
(* registered, so a command decided in one state is on the pins in the     *)
(* next one.  The four command pins are modelled as the command they spell, *)
(* the address pins as what they carry.                                    *)
(***************************************************************************)
EXTENDS Naturals

CONSTANTS BURST_LEN, Pwait, tRP, tRC, tMRD, tRCD, tCAS, REFRESH_PERIOD,
          Banks, Rows, UCols,   \* cpu_addr[25:24], [23:11] and [10:5]
          Half, None

ASSUME SdramAssumption ==
  /\ {BURST_LEN, Pwait, tRP, tRC, tMRD, tRCD, tCAS, REFRESH_PERIOD} \subseteq Nat \ {0}
  /\ BURST_LEN >= 2 /\ UCols \subseteq Nat
  /\ None \notin Half

Block == [bank : Banks, row : Rows, ucol : UCols]
Line  == [0 .. BURST_LEN - 1 -> Half]

VARIABLES current_state, counter,
          cmd, mem_bank_select, mem_addr_in, mem_data_in, mem_data_oe,
          mem_ready, data_out_valid, read_buffer,
          cpu_wr_reg, cpu_data_in_reg, cpu_u_c_addr_reg,
          burst_counter, refresh_counter, refresh_done, refresh_pending

addrPins   == <<mem_bank_select, mem_addr_in>>
cpuRegs    == <<cpu_wr_reg, cpu_data_in_reg, cpu_u_c_addr_reg>>
burstRegs  == <<burst_counter, read_buffer>>
ctrlVars   == <<current_state, counter, cmd, addrPins, mem_data_in, mem_data_oe, mem_ready,
                data_out_valid, cpuRegs, burstRegs, refresh_counter, refresh_done,
                refresh_pending>>

Commands == {"NOP", "PRE", "REF", "MRS", "ACT", "READ", "WRITE", "BST"}
InitStates == {"INIT_IDLE", "PRECHARGE_ALL", "AUTO_REFRESH_1", "AUTO_REFRESH_2", "SET_MODE"}
States == InitStates \union {"NORMAL_IDLE", "ACTIVATE", "READ_BURST", "WRITE_BURST",
                             "PRECHARGE", "PERIODIC_REFRESH"}

CtrlInit ==
  /\ current_state = "INIT_IDLE" /\ counter = 0
  /\ cmd = "NOP"                               \* deselected
  /\ mem_bank_select \in Banks /\ mem_addr_in = [col |-> 0]
  /\ mem_data_in = None /\ mem_data_oe = FALSE
  /\ mem_ready = FALSE /\ data_out_valid = FALSE
  /\ cpu_wr_reg = FALSE /\ cpu_data_in_reg = None /\ cpu_u_c_addr_reg = 0
  /\ burst_counter = 0
  /\ read_buffer = [i \in 0 .. BURST_LEN - 1 |-> None]
  /\ refresh_counter = 0 /\ refresh_done = FALSE /\ refresh_pending = FALSE

\* The free-running refresh timer.  A period that ends in the very cycle a refresh
\* is reported done stays pending.
RefreshTimer ==
  LET expired == refresh_counter >= REFRESH_PERIOD - 1
  IN  /\ refresh_counter' = IF expired THEN 0 ELSE refresh_counter + 1
      /\ refresh_pending' = (expired \/ (refresh_pending /\ ~refresh_done))

\* Wrong: the data pins are driven by default.
KeepPins_Driven == UNCHANGED <<addrPins, mem_data_in>> /\ mem_data_oe' = TRUE

\* The defaults of the combinational block: the address pins hold, the data pins
\* are released, the two pulses fall.
KeepPins   == UNCHANGED <<addrPins, mem_data_in>> /\ mem_data_oe' = FALSE
NoPulse    == data_out_valid' = FALSE /\ refresh_done' = FALSE
Issue(c)   == cmd' = c
\* Wrong: the row is left open.
Goto_SkipsPrecharge(s) ==
  current_state' = (IF s = "PRECHARGE" THEN "NORMAL_IDLE" ELSE s) /\ counter' = 0

Goto(s)    == current_state' = s /\ counter' = 0

Waiting(limit) ==
  /\ counter # limit
  /\ counter' = counter + 1 /\ UNCHANGED current_state
  /\ Issue("NOP") /\ KeepPins /\ NoPulse
  /\ UNCHANGED <<mem_ready, cpuRegs, burstRegs>>

\* A step of the initialisation: wait, then issue c and go on.
InitStep(state, limit, c, next) ==
  /\ current_state = state /\ counter = limit
  /\ Goto(next) /\ Issue(c) /\ NoPulse
  /\ UNCHANGED <<mem_bank_select, mem_data_in, mem_ready, cpuRegs, burstRegs>>
  /\ mem_data_oe' = FALSE
  /\ mem_addr_in' = IF c = "PRE" THEN [all |-> TRUE]
                    ELSE IF c = "MRS" THEN [mode |-> 0] ELSE mem_addr_in

Initialise ==
  \/ current_state = "INIT_IDLE" /\ Waiting(Pwait)
  \/ InitStep("INIT_IDLE", Pwait, "PRE", "PRECHARGE_ALL")
  \/ current_state = "PRECHARGE_ALL" /\ Waiting(tRP)
  \/ InitStep("PRECHARGE_ALL", tRP, "REF", "AUTO_REFRESH_1")
  \/ current_state \in {"AUTO_REFRESH_1", "AUTO_REFRESH_2"} /\ Waiting(tRC)
  \/ InitStep("AUTO_REFRESH_1", tRC, "REF", "AUTO_REFRESH_2")
  \/ InitStep("AUTO_REFRESH_2", tRC, "MRS", "SET_MODE")
  \/ current_state = "SET_MODE" /\ Waiting(tMRD)

Initialised ==
  /\ current_state = "SET_MODE" /\ counter = tMRD
  /\ Goto("NORMAL_IDLE") /\ mem_ready' = TRUE
  /\ KeepPins /\ NoPulse
  /\ UNCHANGED <<cmd, cpuRegs, burstRegs>>

\* Wrong: mem_ready stays up through the burst.
Accept_StaysReady(cpu_in) ==
  /\ current_state = "NORMAL_IDLE" /\ cpu_in # None /\ mem_ready
  /\ Goto("ACTIVATE") /\ Issue("ACT") /\ NoPulse
  /\ mem_bank_select' = cpu_in.block.bank
  /\ mem_addr_in' = [row |-> cpu_in.block.row]
  /\ mem_data_oe' = FALSE
  /\ cpu_u_c_addr_reg' = cpu_in.block.ucol
  /\ cpu_wr_reg' = cpu_in.write
  /\ cpu_data_in_reg' = IF cpu_in.write THEN cpu_in.line ELSE None
  /\ UNCHANGED <<mem_ready, mem_data_in, burstRegs>>

\* NORMAL_IDLE.  A request presented while mem_ready is high goes before a refresh.
Accept(cpu_in) ==
  /\ current_state = "NORMAL_IDLE" /\ cpu_in # None /\ mem_ready
  /\ Goto("ACTIVATE") /\ Issue("ACT") /\ NoPulse
  /\ mem_bank_select' = cpu_in.block.bank
  /\ mem_addr_in' = [row |-> cpu_in.block.row]
  /\ mem_data_oe' = FALSE
  /\ cpu_u_c_addr_reg' = cpu_in.block.ucol
  /\ cpu_wr_reg' = cpu_in.write
  /\ cpu_data_in_reg' = IF cpu_in.write THEN cpu_in.line ELSE None
  /\ mem_ready' = FALSE
  /\ UNCHANGED <<mem_data_in, burstRegs>>

\* Wrong: the refresh just reported done is started again.
StartRefresh_Twice(cpu_in) ==
  /\ current_state = "NORMAL_IDLE" /\ ~(cpu_in # None /\ mem_ready)
  /\ refresh_pending
  /\ Goto("PERIODIC_REFRESH") /\ Issue("REF") /\ KeepPins /\ NoPulse
  /\ mem_ready' = FALSE
  /\ UNCHANGED <<cpuRegs, burstRegs>>

StartRefresh(cpu_in) ==
  /\ current_state = "NORMAL_IDLE" /\ ~(cpu_in # None /\ mem_ready)
  /\ refresh_pending /\ ~refresh_done
  /\ Goto("PERIODIC_REFRESH") /\ Issue("REF") /\ KeepPins /\ NoPulse
  /\ mem_ready' = FALSE
  /\ UNCHANGED <<cpuRegs, burstRegs>>

\* Wrong: mem_ready does not come back after a refresh.
Idle_NotReady(cpu_in) ==
  /\ current_state = "NORMAL_IDLE" /\ ~(cpu_in # None /\ mem_ready)
  /\ ~(refresh_pending /\ ~refresh_done)
  /\ Issue("NOP") /\ KeepPins /\ NoPulse
  /\ UNCHANGED <<current_state, counter, mem_ready, cpuRegs, burstRegs>>

Idle(cpu_in) ==
  /\ current_state = "NORMAL_IDLE" /\ ~(cpu_in # None /\ mem_ready)
  /\ ~(refresh_pending /\ ~refresh_done)
  /\ Issue("NOP") /\ KeepPins /\ NoPulse
  /\ mem_ready' = ~refresh_pending
  /\ UNCHANGED <<current_state, counter, cpuRegs, burstRegs>>

\* The column command: the first word of a write goes out with it.
Activate ==
  /\ current_state = "ACTIVATE"
  /\ \/ Waiting(tRCD)
     \/ /\ counter = tRCD
        /\ NoPulse /\ UNCHANGED <<mem_ready, cpuRegs, mem_bank_select, read_buffer>>
        /\ mem_addr_in' = [col |-> cpu_u_c_addr_reg * BURST_LEN]
        /\ \/ /\ cpu_wr_reg
              /\ Issue("WRITE") /\ Goto("WRITE_BURST")
              /\ mem_data_in' = cpu_data_in_reg[burst_counter] /\ mem_data_oe' = TRUE
              /\ burst_counter' = burst_counter + 1
           \/ /\ ~cpu_wr_reg
              /\ Issue("READ") /\ Goto("READ_BURST")
              /\ mem_data_oe' = FALSE /\ burst_counter' = 0
              /\ UNCHANGED mem_data_in

ReadBurst(DQ) ==
  /\ current_state = "READ_BURST"
  /\ \/ Waiting(tCAS)
     \/ /\ counter = tCAS
        /\ read_buffer' = [read_buffer EXCEPT ![burst_counter] = DQ]
        /\ Issue(IF burst_counter = BURST_LEN - 2 THEN "BST" ELSE "NOP")
        /\ KeepPins /\ refresh_done' = FALSE
        /\ UNCHANGED <<mem_ready, cpuRegs>>
        /\ \/ /\ burst_counter = BURST_LEN - 1
              /\ Goto("PRECHARGE") /\ burst_counter' = 0 /\ data_out_valid' = TRUE
           \/ /\ burst_counter # BURST_LEN - 1
              /\ burst_counter' = burst_counter + 1 /\ data_out_valid' = FALSE
              /\ UNCHANGED <<current_state, counter>>

WriteBurst ==
  /\ current_state = "WRITE_BURST"
  /\ NoPulse /\ UNCHANGED <<mem_ready, cpuRegs, addrPins, read_buffer>>
  /\ \/ /\ burst_counter = BURST_LEN
        /\ Issue("BST") /\ Goto("PRECHARGE") /\ burst_counter' = 0
        /\ mem_data_oe' = FALSE /\ UNCHANGED mem_data_in
     \/ /\ burst_counter # BURST_LEN
        /\ Issue("NOP") /\ burst_counter' = burst_counter + 1
        /\ mem_data_in' = cpu_data_in_reg[burst_counter] /\ mem_data_oe' = TRUE
        /\ UNCHANGED <<current_state, counter>>

\* The bank is still selected from the activation and A10 is 0 from the column
\* address, so PRE closes that bank only.
Precharge ==
  /\ current_state = "PRECHARGE"
  /\ KeepPins /\ NoPulse /\ UNCHANGED <<cpuRegs, burstRegs>>
  /\ \/ /\ counter = 0
        /\ Issue("PRE") /\ counter' = 1 /\ UNCHANGED <<current_state, mem_ready>>
     \/ /\ counter = tRP
        /\ Issue("NOP") /\ Goto("NORMAL_IDLE") /\ mem_ready' = ~refresh_pending
     \/ /\ counter \notin {0, tRP}
        /\ Issue("NOP") /\ counter' = counter + 1 /\ UNCHANGED <<current_state, mem_ready>>

PeriodicRefresh ==
  /\ current_state = "PERIODIC_REFRESH"
  /\ \/ Waiting(tRC)
     \/ /\ counter = tRC
        /\ Goto("NORMAL_IDLE") /\ KeepPins
        /\ refresh_done' = TRUE /\ data_out_valid' = FALSE
        /\ UNCHANGED <<cmd, mem_ready, cpuRegs, burstRegs>>

\* One posedge: cpu_in is the request presented, DQ the data bus.
CtrlClock(cpu_in, DQ) ==
  /\ RefreshTimer
  /\ \/ Initialise \/ Initialised
     \/ Accept(cpu_in) \/ StartRefresh(cpu_in) \/ Idle(cpu_in)
     \/ Activate \/ ReadBurst(DQ) \/ WriteBurst \/ Precharge \/ PeriodicRefresh
=============================================================================
