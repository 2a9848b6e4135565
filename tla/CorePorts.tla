----------------------------- MODULE CorePorts -----------------------------
(***************************************************************************)
(* What the LSU talks to, seen from its two ports.  Behind the cache port  *)
(* (C_PORT of rtl/l1.v) is one atomic byte memory with an answer after any *)
(* time, which is what MemorySystem shows of the cache and all behind it.  *)
(* Behind the io port (rtl/io_apb_bridge.v) is SIM_EXIT (rtl/io/sim_exit.v)*)
(***************************************************************************)
EXTENDS Pipeline

CONSTANTS D_MEM_DEPTH, EXIT_OFFSET

ASSUME PortsAssumption ==
  /\ D_MEM_DEPTH \in Nat \ {0} /\ 4 * D_MEM_DEPTH <= WORD
  /\ None \notin [data : Words]

VARIABLES port, io_port,                   \* what each port is working on
          dmem,                            \* D_MEM.mem, by byte
          exit_valid, exit_code,
          accesses                         \* every access a port has taken, in order

portVars == <<port, cpu_ready_out, cpu_data_out, io_port, io_ack>>
memoryVars == <<dmem, exit_valid, exit_code>>

Bytes == 0 .. 4 * D_MEM_DEPTH - 1

PortsReset ==
  /\ port' = None /\ cpu_ready_out' = TRUE /\ cpu_data_out' = None
  /\ io_port' = None /\ io_ack' = None
  /\ exit_valid' = FALSE /\ exit_code' = 0
  /\ accesses' = <<>>

\* The lanes an access selects: a half ignores the lowest address bit, a word two.
lane(a, i) == (a.addr - (a.addr % a.size) + i) % (4 * D_MEM_DEPTH)

\* Loads are zero-extended, stores take the low bytes of the data.
loaded(a) == LET part(i) == IF i < a.size THEN dmem[lane(a, i)] * BYTE ^ i ELSE 0
             IN  part(0) + part(1) + part(2) + part(3)
merged(a) == [b \in Bytes |-> IF \E i \in 0..a.size - 1 : lane(a, i) = b
                              THEN byteOf(a.data, CHOOSE i \in 0..a.size - 1 : lane(a, i) = b)
                              ELSE dmem[b]]

PortTakes ==
  /\ port = None /\ cpu_data_in # None
  /\ port' = cpu_data_in /\ cpu_ready_out' = FALSE /\ cpu_data_out' = None
  /\ UNCHANGED dmem
PortIdle ==
  /\ port = None
  /\ cpu_ready_out' = TRUE /\ cpu_data_out' = None
  /\ UNCHANGED <<port, dmem>>
PortWaits ==
  /\ port # None
  /\ cpu_data_out' = None
  /\ UNCHANGED <<port, cpu_ready_out, dmem>>
PortAnswers ==
  /\ port # None
  /\ cpu_data_out' = [data |-> loaded(port)] /\ cpu_ready_out' = TRUE /\ port' = None
  /\ dmem' = IF port.write THEN merged(port) ELSE dmem

IoTakes ==
  /\ io_port = None /\ io_req # None
  /\ io_port' = io_req /\ io_ack' = None
  /\ UNCHANGED <<exit_valid, exit_code>>
IoIdle ==
  /\ io_port = None /\ io_req = None
  /\ io_ack' = None
  /\ UNCHANGED <<io_port, exit_valid, exit_code>>
IoWaits ==
  /\ io_port # None
  /\ io_ack' = None
  /\ UNCHANGED <<io_port, exit_valid, exit_code>>

\* SIM_EXIT keeps the first code it is given.
IoAnswers ==
  LET exits == io_port.write /\ io_port.addr = EXIT_OFFSET
  IN  /\ io_port # None
      /\ io_ack' = [data |-> exit_code] /\ io_port' = None
      /\ exit_valid' = (exit_valid \/ exits)
      /\ exit_code' = IF exits /\ ~exit_valid THEN io_port.data ELSE exit_code

Taken == IF PortTakes THEN <<cpu_data_in>> ELSE IF IoTakes THEN <<io_req>> ELSE <<>>

PortsClock ==
  /\ PortTakes \/ PortIdle \/ PortWaits \/ PortAnswers
  /\ IoTakes \/ IoIdle \/ IoWaits \/ IoAnswers
=============================================================================
