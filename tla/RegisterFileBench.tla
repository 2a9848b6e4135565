-------------------------- MODULE RegisterFileBench --------------------------
(***************************************************************************)
(* register_file (rtl/register_file.v) and the bench that drives it with   *)
(* random transactions (tb/cocotb/register_file/register_file_ctb.py).  On *)
(* a falling edge the file takes the write of the transaction that is on   *)
(* its inputs, the driver puts the next one there and runs it on the       *)
(* golden model, and the monitor samples the reads; the scoreboard pairs   *)
(* what the two queues hold.  make_program is the choice of transactions.  *)
(***************************************************************************)
EXTENDS Naturals, Sequences

CONSTANTS Addr, Data,    \* 0 is in both: x0, and the value after reset
          TESTS, TIMEOUT, None

Transaction == [read_addr_1 : Addr, read_addr_2 : Addr,
                write_addr : Addr, write_en : BOOLEAN, write_data : Data]

ASSUME BenchAssumption ==
  /\ 0 \in Addr /\ 0 \in Data
  /\ TESTS \in Nat \ {0} /\ TIMEOUT \in Nat
  /\ None \notin Data \X Data /\ None \notin Transaction

VARIABLES clk, file, inputs,                     \* the device; inputs None: undriven
          golden_file, golden_queue, mon_sb_queue,
          driven,                                \* transactions drive_program has driven
          dut_data,                              \* what the scoreboard has taken, or None
          transactions_checked, error,
          t, phase                               \* t: the clocks finish has waited

deviceVars == <<clk, file, inputs>>
driverVars == <<golden_file, driven>>
sbVars     == <<golden_queue, mon_sb_queue, dut_data, transactions_checked, error>>
vars       == <<deviceVars, driverVars, sbVars, t, phase>>

TypeOK ==
  /\ clk \in {0, 1} /\ phase \in {"setup", "test", "done", "timeout"}
  /\ file \in [Addr -> Data] /\ golden_file \in [Addr -> Data]
  /\ inputs \in Transaction \union {None}
  /\ golden_queue \in Seq(Data \X Data) /\ mon_sb_queue \in Seq(Data \X Data)
  /\ dut_data \in (Data \X Data) \union {None}
  /\ driven \in 0..TESTS /\ t \in Nat /\ transactions_checked \in Nat /\ error \in Nat

Init ==
  /\ clk = 1 /\ file \in [Addr -> Data] /\ inputs = None
  /\ golden_file = [a \in Addr |-> 0]
  /\ golden_queue = <<>> /\ mon_sb_queue = <<>> /\ dut_data = None
  /\ driven = 0 /\ transactions_checked = 0 /\ error = 0
  /\ t = 0 /\ phase = "setup"

\* setup holds n_reset low over a falling edge.
Setup ==
  /\ phase = "setup" /\ clk = 1
  /\ file' = [a \in Addr |-> 0]
  /\ clk' = 0 /\ phase' = "test"
  /\ UNCHANGED <<inputs, driverVars, sbVars, t>>

-----------------------------------------------------------------------------
\* A write that is enabled lands, except on x0.
write(f, tr) == IF tr.write_en /\ tr.write_addr # 0
                THEN [f EXCEPT ![tr.write_addr] = tr.write_data] ELSE f

\* The write on the device's inputs; undriven inputs write nothing.
written == IF inputs = None THEN file ELSE write(file, inputs)

\* The device's two ports are combinational, and read zero at x0.
readPort(f, a) == IF a = 0 THEN 0 ELSE f[a]
read_data(f, tr) == <<readPort(f, tr.read_addr_1), readPort(f, tr.read_addr_2)>>

\* Wrong: the golden model reads what the transaction itself writes.
get_AfterWrite(tr) ==
  <<write(golden_file, tr)[tr.read_addr_1], write(golden_file, tr)[tr.read_addr_2]>>

\* perform_transaction: the golden model reads, then writes.
get(tr) == <<golden_file[tr.read_addr_1], golden_file[tr.read_addr_2]>>

\* What has no simulation time left to wait for: the scoreboard is blocked on a queue.
scoreboardBlocked == IF dut_data = None THEN mon_sb_queue = <<>> ELSE golden_queue = <<>>

\* Wrong: only transactions that write are run on the golden model.
FallingEdge_WritesOnly ==
  /\ phase = "test" /\ clk = 1 /\ scoreboardBlocked
  /\ \E tr \in IF driven < TESTS THEN Transaction ELSE {inputs} :
       /\ inputs' = tr
       /\ golden_queue' = IF driven < TESTS /\ tr.write_en THEN Append(golden_queue, get(tr))
                                                            ELSE golden_queue
       /\ golden_file' = IF driven < TESTS THEN write(golden_file, tr) ELSE golden_file
       /\ mon_sb_queue' = Append(mon_sb_queue, read_data(written, tr))
  /\ driven' = IF driven < TESTS THEN driven + 1 ELSE driven
  /\ file' = written /\ clk' = 0
  /\ UNCHANGED <<dut_data, transactions_checked, error, t, phase>>

\* The monitor samples after the driver's new addresses and the write have settled, and
\* goes on sampling after the last transaction.
FallingEdge ==
  /\ phase = "test" /\ clk = 1 /\ scoreboardBlocked
  /\ \E tr \in IF driven < TESTS THEN Transaction ELSE {inputs} :
       /\ inputs' = tr
       /\ golden_queue' = IF driven < TESTS THEN Append(golden_queue, get(tr)) ELSE golden_queue
       /\ golden_file' = IF driven < TESTS THEN write(golden_file, tr) ELSE golden_file
       /\ mon_sb_queue' = Append(mon_sb_queue, read_data(written, tr))
  /\ driven' = IF driven < TESTS THEN driven + 1 ELSE driven
  /\ file' = written /\ clk' = 0
  /\ UNCHANGED <<dut_data, transactions_checked, error, t, phase>>

\* Once the driver has returned, finish counts clocks until all have been checked.
RisingEdge ==
  /\ phase = "test" /\ clk = 0 /\ scoreboardBlocked
  /\ clk' = 1
  /\ t' = IF driven = TESTS THEN t + 1 ELSE t
  /\ phase' = IF driven < TESTS THEN "test"
              ELSE IF t + 1 >= TIMEOUT THEN "timeout"
              ELSE IF transactions_checked >= TESTS THEN "done" ELSE "test"
  /\ UNCHANGED <<file, inputs, driverVars, sbVars>>

ScoreboardGets ==
  /\ phase = "test" /\ dut_data = None /\ mon_sb_queue # <<>>
  /\ dut_data' = Head(mon_sb_queue) /\ mon_sb_queue' = Tail(mon_sb_queue)
  /\ UNCHANGED <<deviceVars, driverVars, golden_queue, transactions_checked, error, t, phase>>

ScoreboardCompares ==
  /\ phase = "test" /\ dut_data # None /\ golden_queue # <<>>
  /\ error' = IF dut_data = Head(golden_queue) THEN error ELSE error + 1
  /\ transactions_checked' = transactions_checked + 1
  /\ golden_queue' = Tail(golden_queue) /\ dut_data' = None
  /\ UNCHANGED <<deviceVars, driverVars, mon_sb_queue, t, phase>>

Done == phase \in {"done", "timeout"} /\ UNCHANGED vars

Next == Setup \/ FallingEdge \/ RisingEdge \/ ScoreboardGets \/ ScoreboardCompares \/ Done

Spec == Init /\ [][Next]_vars

\* The simulator runs.
FairSpec == Spec /\ WF_vars(Next)

-----------------------------------------------------------------------------
\* A read in the period of a write to the same register sees the old value, in the
\* device and in the golden model alike: no transaction mismatches.
NoMismatch == error = 0

\* The queues stay in step, so that every transaction is compared with its own reads and
\* the test ends.
EveryTransactionChecked == <>(phase = "done" /\ transactions_checked = TESTS)
=============================================================================
