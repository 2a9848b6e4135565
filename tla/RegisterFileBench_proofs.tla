----------------------- MODULE RegisterFileBench_proofs -----------------------
(***************************************************************************)
(* Proofs about RegisterFileBench for every set of registers and of values *)
(* and every number of transactions: the device and the golden model never *)
(* disagree.  The file runs one write behind the golden model, so the      *)
(* invariant compares the golden file with the file as it will be once the *)
(* write on the device's inputs has landed; and it follows the one         *)
(* transaction in flight through the two queues.                           *)
(***************************************************************************)
EXTENDS RegisterFileBench, TLAPS

Zeros == [a \in Addr |-> 0]

\* Before reset the file holds anything and nothing is driven.
BeforeReset ==
  phase = "setup" =>
    /\ inputs = None /\ golden_file = Zeros /\ driven = 0
    /\ golden_queue = <<>> /\ mon_sb_queue = <<>> /\ dut_data = None

\* After it, the golden model is one write ahead of the file.
OneWriteAhead ==
  /\ phase # "setup" => golden_file = written
  /\ golden_file[0] = 0
  /\ driven = TESTS => inputs # None

\* While transactions are driven, the queues hold the results of at most one, and the
\* device's are the golden model's.
InFlight(a) ==
  /\ golden_queue = <<a>>
  /\ \/ mon_sb_queue = <<a>> /\ dut_data = None
     \/ mon_sb_queue = <<>> /\ dut_data = a
Idle     == golden_queue = <<>> /\ (driven < TESTS => mon_sb_queue = <<>> /\ dut_data = None)
InStep   == Idle \/ \E a \in Data \X Data : InFlight(a)

IInv == TypeOK /\ BeforeReset /\ OneWriteAhead /\ InStep /\ NoMismatch

-----------------------------------------------------------------------------
\* A write leaves a register file, and leaves x0 alone.
LEMMA WriteType ==
  ASSUME NEW f \in [Addr -> Data], NEW tr \in Transaction
  PROVE  /\ write(f, tr) \in [Addr -> Data]
         /\ write(f, tr)[0] = f[0]
         /\ write(write(f, tr), tr) = write(f, tr)
<1>0. tr.write_addr \in Addr /\ tr.write_data \in Data BY DEF Transaction
<1>1. CASE tr.write_en /\ tr.write_addr # 0
  <2> DEFINE g == [f EXCEPT ![tr.write_addr] = tr.write_data]
  <2>1. write(f, tr) = g BY <1>1 DEF write
  <2>2. g \in [Addr -> Data] /\ g[0] = f[0] BY <1>0, <1>1, BenchAssumption
  <2>3. [g EXCEPT ![tr.write_addr] = tr.write_data] = g BY <1>0
  <2>4. write(g, tr) = g BY <1>1, <2>3 DEF write
  <2> QED BY <2>1, <2>2, <2>4
<1>2. CASE ~(tr.write_en /\ tr.write_addr # 0)
  <2>1. \A h : write(h, tr) = h BY <1>2 DEF write
  <2> QED BY <2>1
<1> QED BY <1>1, <1>2

\* Once x0 holds zero, the ports read what the golden model's get reads.
LEMMA ReadsAgree ==
  ASSUME NEW f \in [Addr -> Data], f[0] = 0, golden_file = f, NEW tr \in Transaction
  PROVE  get(tr) = read_data(f, tr) /\ get(tr) \in Data \X Data
BY DEF get, read_data, readPort, Transaction

-----------------------------------------------------------------------------
LEMMA InitIInv == Init => IInv
BY BenchAssumption DEF Init, IInv, TypeOK, BeforeReset, OneWriteAhead, InStep, Idle, NoMismatch,
                       Zeros

LEMMA SetupIInv == IInv /\ Setup => IInv'
BY BenchAssumption DEF Setup, IInv, TypeOK, BeforeReset, OneWriteAhead, InStep, Idle, NoMismatch,
                       Zeros, written, driverVars, sbVars

\* The edge that drives a transaction, or clocks the last one again.
LEMMA FallingEdgeIInv == IInv /\ FallingEdge => IInv'
<1> SUFFICES ASSUME IInv, FallingEdge PROVE IInv' OBVIOUS
<1> USE DEF IInv
<1>1. PICK tr \in IF driven < TESTS THEN Transaction ELSE {inputs} :
        /\ inputs' = tr
        /\ golden_queue' = IF driven < TESTS THEN Append(golden_queue, get(tr)) ELSE golden_queue
        /\ golden_file' = IF driven < TESTS THEN write(golden_file, tr) ELSE golden_file
        /\ mon_sb_queue' = Append(mon_sb_queue, read_data(written, tr))
  BY DEF FallingEdge
<1>2. /\ phase = "test" /\ phase' = "test" /\ scoreboardBlocked /\ file' = written /\ clk' = 0
      /\ driven' = IF driven < TESTS THEN driven + 1 ELSE driven
      /\ dut_data' = dut_data /\ transactions_checked' = transactions_checked
      /\ error' = error /\ t' = t
  BY DEF FallingEdge
<1>3. driven \in Nat /\ TESTS \in Nat /\ (driven < TESTS \/ driven = TESTS)
  BY BenchAssumption DEF TypeOK
<1>4. tr \in Transaction /\ tr # None
  <2>1. CASE driven < TESTS
    BY <1>1, <2>1, BenchAssumption
  <2>2. CASE driven = TESTS
    <3>1. tr = inputs BY <1>1, <1>3, <2>2
    <3> QED BY <3>1, <2>2, BenchAssumption DEF OneWriteAhead, TypeOK
  <2> QED BY <1>3, <2>1, <2>2
<1>5. /\ golden_file = written /\ written \in [Addr -> Data] /\ written[0] = 0
      /\ golden_file \in [Addr -> Data]
  BY <1>2 DEF OneWriteAhead, TypeOK
<1>6. written' = write(written, tr)
  BY <1>1, <1>2, <1>4 DEF written
<1>7. get(tr) = read_data(written, tr) /\ get(tr) \in Data \X Data
  BY <1>4, <1>5, ReadsAgree
<1>8. golden_file' = written' /\ golden_file'[0] = 0 /\ golden_file' \in [Addr -> Data]
  <2>1. write(written, tr) \in [Addr -> Data] /\ write(written, tr)[0] = 0
    BY <1>4, <1>5, WriteType
  <2>2. CASE driven < TESTS
    BY <1>1, <1>5, <1>6, <2>1, <2>2
  <2>3. CASE driven = TESTS
    <3>1. tr = inputs /\ golden_file' = golden_file BY <1>1, <1>3, <2>3
    <3>2. written = write(file, tr) BY <3>1, <1>4 DEF written
    <3>3. write(written, tr) = written
      BY <3>2, <1>4, WriteType DEF TypeOK
    <3> QED BY <3>1, <3>3, <1>5, <1>6
  <2> QED BY <1>3, <2>2, <2>3
<1>9. TypeOK'
  <2>1. driven' \in 0..TESTS BY <1>2, <1>3 DEF TypeOK
  <2>2. golden_queue' \in Seq(Data \X Data) /\ mon_sb_queue' \in Seq(Data \X Data)
    BY <1>1, <1>7 DEF TypeOK
  <2> QED BY <1>1, <1>2, <1>4, <1>5, <1>8, <2>1, <2>2 DEF TypeOK
<1>10. InStep'
  <2>0. Idle
    <3>1. ASSUME NEW a \in Data \X Data, InFlight(a) PROVE FALSE
      <4>1. a # None /\ <<a>> # <<>> BY BenchAssumption
      <4> QED BY <1>2, <3>1, <4>1 DEF InFlight, scoreboardBlocked
    <3> QED BY <3>1 DEF InStep
  <2>1. CASE driven < TESTS
    <3>1. golden_queue = <<>> /\ mon_sb_queue = <<>> /\ dut_data = None
      BY <2>0, <2>1 DEF Idle
    <3>2. golden_queue' = <<get(tr)>> /\ mon_sb_queue' = <<get(tr)>> /\ dut_data' = None
      BY <1>1, <1>2, <1>7, <2>1, <3>1
    <3> QED BY <3>2, <1>7 DEF InStep, InFlight
  <2>2. CASE driven = TESTS
    <3>1. golden_queue = <<>>
      BY <2>0 DEF Idle
    <3>2. golden_queue' = <<>> /\ driven' = TESTS
      BY <1>1, <1>2, <1>3, <2>2, <3>1
    <3> QED BY <3>2, <1>3 DEF InStep, Idle
  <2> QED BY <1>3, <2>1, <2>2
<1>11. BeforeReset' /\ OneWriteAhead' /\ NoMismatch'
  BY <1>1, <1>2, <1>4, <1>8 DEF BeforeReset, OneWriteAhead, NoMismatch
<1> QED BY <1>9, <1>10, <1>11

LEMMA RisingEdgeIInv == IInv /\ RisingEdge => IInv'
BY DEF RisingEdge, IInv, TypeOK, BeforeReset, OneWriteAhead, InStep, Idle, InFlight, NoMismatch,
       written, driverVars, sbVars

\* The scoreboard takes a result of the device before the golden model's.
LEMMA ScoreboardIInv == IInv /\ (ScoreboardGets \/ ScoreboardCompares) => IInv'
<1> SUFFICES ASSUME IInv, ScoreboardGets \/ ScoreboardCompares PROVE IInv' OBVIOUS
<1>1. CASE ScoreboardGets
  <2> USE <1>1 DEF ScoreboardGets, IInv, deviceVars, driverVars
  <2>1. Head(mon_sb_queue) \in Data \X Data /\ Tail(mon_sb_queue) \in Seq(Data \X Data)
    BY DEF TypeOK
  <2>2. TypeOK' BY <2>1 DEF TypeOK
  <2>3. BeforeReset' /\ OneWriteAhead' /\ NoMismatch'
    BY DEF BeforeReset, OneWriteAhead, NoMismatch, written
  <2>4. CASE Idle
    BY <2>2, <2>3, <2>4 DEF Idle, InStep
  <2>5. CASE ~Idle
    <3>1. PICK a \in Data \X Data : InFlight(a) BY <2>5 DEF InStep
    <3>2. mon_sb_queue = <<a>> BY <3>1 DEF InFlight
    <3>3. dut_data' = a /\ mon_sb_queue' = <<>> BY <3>2
    <3> QED BY <2>2, <2>3, <3>1, <3>3 DEF InStep, InFlight
  <2> QED BY <2>2, <2>3, <2>4, <2>5
<1>2. CASE ScoreboardCompares
  <2> USE <1>2 DEF ScoreboardCompares, IInv, deviceVars, driverVars
  <2>1. PICK a \in Data \X Data : InFlight(a) BY DEF InStep, Idle
  <2>2. golden_queue = <<a>> /\ dut_data = a /\ mon_sb_queue = <<>> BY <2>1 DEF InFlight
  <2>3. golden_queue' = <<>> /\ mon_sb_queue' = <<>> /\ dut_data' = None /\ error' = error
    BY <2>2
  <2>4. TypeOK' BY <2>3 DEF TypeOK
  <2>5. BeforeReset' /\ OneWriteAhead' /\ NoMismatch'
    BY <2>3 DEF BeforeReset, OneWriteAhead, NoMismatch, written
  <2> QED BY <2>3, <2>4, <2>5 DEF InStep, Idle
<1> QED BY <1>1, <1>2

LEMMA StutterIInv == IInv /\ UNCHANGED vars => IInv'
BY DEF IInv, TypeOK, BeforeReset, OneWriteAhead, InStep, Idle, InFlight, NoMismatch, written,
       vars, deviceVars, driverVars, sbVars

\* The golden model stays one write ahead of the register file, and the queues in step.
THEOREM Inductive == Spec => []IInv
<1>1. IInv /\ [Next]_vars => IInv'
  BY SetupIInv, FallingEdgeIInv, RisingEdgeIInv, ScoreboardIInv, StutterIInv DEF Next, Done
<1> QED BY InitIInv, <1>1, PTL DEF Spec

\* register_file and its golden model never disagree on a read, whatever transactions are
\* driven: a read in the period of a write to the same register sees the old value in both.
THEOREM NeverMismatches == Spec => []NoMismatch
<1>1. IInv => NoMismatch BY DEF IInv
<1> QED BY Inductive, <1>1, PTL

\* Registers, queues and counters keep their types.
THEOREM TypeCorrect == Spec => []TypeOK
<1>1. IInv => TypeOK BY DEF IInv
<1> QED BY Inductive, <1>1, PTL
=============================================================================
