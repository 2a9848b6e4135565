--------------------------- MODULE DatapathBench ---------------------------
(***************************************************************************)
(* The test benches of the whole core (tb/cocotb/datapath/datapth_ctb.py,  *)
(* tb/cocotb/c_test/c_ctb.py) around data_path.  A test assembles its      *)
(* program, runs the golden model over the source (mode "scoreboard"),     *)
(* loads both memories, resets the core, and then compares every           *)
(* instruction that retires with the golden queues, or waits for the       *)
(* program to store its verdict to SIM_EXIT (modes "exit", "c" and         *)
(* "image"; the last is the core on its own, with the .mem files that      *)
(* compile_to_mem.py writes).                                              *)
(***************************************************************************)
EXTENDS CorePorts

CONSTANTS Programs, StoreList, MaxRetired

\* golden
VARIABLES instrs, label_dic, parsed_instrs, pc, register_file, data_mem,
          golden_pc_queue, golden_reg_queue, retired, raised
\* bench
VARIABLES program, phase, imem, transactions_checked, error, expected_accesses

sourceVars == <<instrs, label_dic, parsed_instrs>>
machineVars == <<pc, register_file, data_mem, golden_pc_queue, golden_reg_queue, retired>>
goldenVars == <<sourceVars, machineVars, raised>>
coreVars   == <<pipelineVars, portVars, memoryVars, accesses>>
benchVars  == <<program, phase, imem, transactions_checked, error, expected_accesses>>
vars       == <<goldenVars, coreVars, benchVars>>

GoldenModel == INSTANCE Golden

ASSUME MenuAssumption == \A p \in Programs :
  /\ p.mode \in {"scoreboard", "exit", "c", "image"}
  /\ Len(p.data) <= D_MEM_DEPTH

\* An exception is not the absence of one.
ASSUME ExceptionAssumption == None \notin {"NameError", "ValueError"}

\* The operands of a line the golden model decodes: registers, an offset with a base
\* register, an immediate a word can hold.
Immediates == -(WORD \div 2) .. WORD \div 2 - 1
OffsetBase(a) == a.imm \in Immediates /\ a.reg \in Regs

WellFormed(text) ==
  LET op == text.op  args == text.args
  IN  /\ op \in R_TYPE /\ Len(args) = 3 => \A i \in 1..3 : args[i] \in Regs
      /\ op \in I_TYPE_4 \union I_TYPE_2 /\ Len(args) = 3 =>
           args[1] \in Regs /\ args[2] \in Regs /\ args[3] \in Immediates
      /\ op \in I_TYPE_3 \union I_TYPE_2 \union S_TYPE /\ Len(args) = 2 =>
           args[1] \in Regs /\ OffsetBase(args[2])
      /\ op \in B_TYPE /\ Len(args) = 3 => args[1] \in Regs /\ args[2] \in Regs
      /\ op \in J_TYPE /\ Len(args) = 2 => args[1] \in Regs
      /\ op \in U_TYPE_1 \union U_TYPE_2 /\ Len(args) = 2 => args[1] \in Regs /\ args[2] \in Int

\* What the assembler accepts, of the programs the scoreboard runs: well-formed lines, a
\* label defined once, and no data, so that memory starts as zeros in both models.
ASSUME SourceAssumption == \A p \in Programs : p.mode = "scoreboard" =>
  /\ p.data = <<>>
  /\ \A i, j \in DOMAIN p.lines : p.lines[i].labels \intersect p.lines[j].labels # {} => i = j
  /\ DOMAIN p.lines \subseteq Int
  /\ LET texts == GoldenModel!instructions(p.lines)
     IN  /\ Len(texts) \in Nat /\ DOMAIN texts = 1..Len(texts)
         /\ \A i \in DOMAIN texts : WellFormed(texts[i])

-----------------------------------------------------------------------------
(* The assembler: two passes over the same source, one word per line.       *)

address(lines, lab) ==
  LET at == CHOOSE i \in DOMAIN lines : lab \in lines[i].labels
  IN  4 * Cardinality({i \in 1..at - 1 : lines[i].text # None})

encode(lines, text, here) ==
  LET op == text.op  args == text.args
      field(rd, rs1, rs2, imm) == [op |-> op, rd |-> rd, rs1 |-> rs1, rs2 |-> rs2, imm |-> word(imm)]
  IN  CASE op \in R_TYPE -> field(args[1], args[2], args[3], 0)
        [] op \in {"slli", "srli", "srai"} -> field(args[1], args[2], 0, shamt(args[3]))
        [] op \in (I_TYPE_4 \union I_TYPE_2) \ {"slli", "srli", "srai"} /\ Len(args) = 3 ->
              field(args[1], args[2], 0, args[3])
        [] op \in I_TYPE_3 \union I_TYPE_2 /\ Len(args) = 2 ->
              field(args[1], args[2].reg, 0, args[2].imm)
        [] op \in S_TYPE   -> field(0, args[2].reg, args[1], args[2].imm)
        [] op \in B_TYPE   -> field(0, args[1], args[2], address(lines, args[3]) - here)
        [] op \in J_TYPE   -> field(args[1], 0, 0, address(lines, args[2]) - here)
        [] op \in U_TYPE_1 \union U_TYPE_2 -> field(args[1], 0, 0, args[2] * UPPER)
        [] op = "li"       -> [op |-> "addi", rd |-> args[1], rs1 |-> 0, rs2 |-> 0, imm |-> word(args[2])]
        [] op = "nop"      -> [op |-> "addi", rd |-> 0, rs1 |-> 0, rs2 |-> 0, imm |-> 0]
        [] OTHER           -> field(0, 0, 0, 0)

assemble(lines) == LET texts == SelectSeq([i \in DOMAIN lines |-> lines[i].text], LAMBDA t : t # None)
                   IN  [i \in DOMAIN texts |-> encode(lines, texts[i], 4 * (i - 1))]

-----------------------------------------------------------------------------
(* The memories, and the words an earlier test or build left in them.       *)

Leftover     == [op |-> "addi", rd |-> 1, rs1 |-> 1, rs2 |-> 0, imm |-> 1]
LeftoverByte == BYTE - 1

padded(words, depth, fill) == [i \in 0..depth - 1 |-> IF i < Len(words) THEN words[i + 1] ELSE fill]

\* Every word of both arrays is written: the image, then zeros.
load_memories(words, data_words) ==
  /\ imem' = padded(words, IMEM_DEPTH, ZeroWord)
  /\ dmem' = [b \in Bytes |-> byteOf(padded(data_words, D_MEM_DEPTH, 0)[b \div 4], b % 4)]

\* Wrong: the memory past the image is left at zero.
poisoned_Zeroed(words, data_words) == load_memories(words, data_words)

\* run_c poisons the memory past the data, so that only crt0 can clear .bss.
poisoned(words, data_words) ==
  /\ imem' = padded(words, IMEM_DEPTH, ZeroWord)
  /\ dmem' = [b \in Bytes |-> IF b \div 4 < Len(data_words)
                              THEN byteOf(data_words[b \div 4 + 1], b % 4) ELSE BYTE - 1]

\* $readmemb writes the lines the file has: compile_to_mem.py writes them all.
readmemb(file_words, array) ==
  [i \in DOMAIN array |-> IF i < Cardinality(DOMAIN file_words) THEN file_words[i] ELSE array[i]]
mem_file(words, depth, fill) == padded(words, depth, fill)

-----------------------------------------------------------------------------
(* The test's own steps.                                                    *)

Init ==
  /\ GoldenModel!GoldenInit
  /\ if_pc = 0 /\ imem_data = ZeroWord /\ output_valid = FALSE
  /\ id = IdBubble /\ ex = ExBubble /\ em = EmBubble /\ wb = WbBubble
  /\ file = [r \in Regs |-> 0] /\ buff = <<>> /\ wrap_idx = 0
  /\ LSU!LsuInit
  /\ port = None /\ cpu_ready_out = TRUE /\ cpu_data_out = None
  /\ io_port = None /\ io_ack = None
  /\ imem = [i \in 0..IMEM_DEPTH - 1 |-> Leftover]
  /\ dmem = [b \in Bytes |-> LeftoverByte]
  /\ exit_valid = FALSE /\ exit_code = 0 /\ accesses = <<>>
  /\ program \in Programs
  /\ phase = IF program.mode = "scoreboard" THEN "load_asm" ELSE "load"
  /\ transactions_checked = 0 /\ error = 0 /\ expected_accesses = <<>>

LoadAsm ==
  /\ phase = "load_asm"
  /\ GoldenModel!load_asm(program.lines)
  /\ phase' = "parse_asm"
  /\ UNCHANGED <<coreVars, program, imem, transactions_checked, error, expected_accesses>>

ParseAsm ==
  /\ phase = "parse_asm"
  /\ GoldenModel!parse_asm
  /\ phase' = IF raised' = None THEN "exec" ELSE "failed"
  /\ UNCHANGED <<coreVars, program, imem, transactions_checked, error, expected_accesses>>

\* The access the instruction makes, for the properties.
access(i) ==
  IF i.instr_class \notin {"s_type", "i_type_3"} THEN <<>>
  ELSE <<[write |-> i.instr_class = "s_type", addr |-> GoldenModel!addrOf(i),
          size |-> GoldenModel!sizeOf(i.opcode)]>>

ExecInstr ==
  /\ phase = "exec" /\ retired < MaxRetired
  /\ GoldenModel!exec_instr
  /\ expected_accesses' = expected_accesses \o access(parsed_instrs[pc \div 4 + 1])
  /\ UNCHANGED <<coreVars, program, phase, imem, transactions_checked, error>>

ExecUndecodable ==
  /\ phase = "exec"
  /\ GoldenModel!exec_undecodable
  /\ phase' = "failed"
  /\ UNCHANGED <<coreVars, program, imem, transactions_checked, error, expected_accesses>>

\* setup asserts that the program retires at least one instruction.
GoldenEnds ==
  /\ phase = "exec" /\ GoldenModel!golden_ended
  /\ phase' = IF retired > 0 THEN "load" ELSE "failed"
  /\ UNCHANGED <<goldenVars, coreVars, program, imem, transactions_checked, error, expected_accesses>>

fits == Len(assemble(program.lines)) <= IMEM_DEPTH

TooLarge ==
  /\ phase = "load" /\ ~fits
  /\ phase' = "failed"
  /\ UNCHANGED <<goldenVars, coreVars, program, imem, transactions_checked, error, expected_accesses>>

Load ==
  /\ phase = "load" /\ fits
  /\ LET words == assemble(program.lines)
     IN  CASE program.mode \in {"scoreboard", "exit"} -> load_memories(words, program.data)
           [] program.mode = "c"     -> poisoned(words, program.data)
           [] program.mode = "image" ->
                /\ imem' = readmemb(mem_file(words, IMEM_DEPTH, ZeroWord), imem)
                /\ dmem' = LET d == mem_file(program.data, D_MEM_DEPTH, 0)
                           IN  [b \in Bytes |-> byteOf(d[b \div 4], b % 4)]
  /\ phase' = "reset"
  /\ UNCHANGED <<goldenVars, pipelineVars, portVars, exit_valid, exit_code, accesses,
                 program, transactions_checked, error, expected_accesses>>

Reset ==
  /\ phase = "reset"
  /\ PipelineReset(imem) /\ PortsReset
  /\ phase' = "running"
  /\ UNCHANGED <<lsuVars, goldenVars, dmem, program, imem, transactions_checked, error, expected_accesses>>

-----------------------------------------------------------------------------
(* Monitor and Scoreboard, within the period in which an instruction is in  *)
(* write-back: the pc at its rising edge, the registers once the falling    *)
(* edge has written them.                                                   *)

monitored == wb.valid

sample == [pc |-> wb.pc, regs |-> file_written]

Compare ==
  \/ /\ monitored /\ golden_pc_queue # <<>>
     /\ error' = IF sample.pc = Head(golden_pc_queue) /\ sample.regs = Head(golden_reg_queue)
                 THEN error ELSE error + 1
     /\ transactions_checked' = transactions_checked + 1
     /\ golden_pc_queue' = Tail(golden_pc_queue)
     /\ golden_reg_queue' = Tail(golden_reg_queue)
  \/ /\ ~monitored \/ golden_pc_queue = <<>>
     /\ UNCHANGED <<error, transactions_checked, golden_pc_queue, golden_reg_queue>>

finished == IF program.mode = "scoreboard" THEN transactions_checked >= retired ELSE exit_valid

Clock ==
  /\ phase = "running" /\ ~finished
  /\ PipelineClock(imem)
  /\ PortsClock
  /\ accesses' = IF Len(accesses) <= Len(expected_accesses) THEN accesses \o Taken ELSE accesses
  /\ Compare
  /\ UNCHANGED <<sourceVars, pc, register_file, data_mem, retired, raised,
                 program, phase, imem, expected_accesses>>

Finish ==
  /\ phase = "running" /\ finished
  /\ phase' = "done"
  /\ UNCHANGED <<goldenVars, coreVars, program, imem, transactions_checked, error, expected_accesses>>

ended == phase \in {"done", "failed"} /\ UNCHANGED vars

Next == LoadAsm \/ ParseAsm \/ ExecInstr \/ ExecUndecodable \/ GoldenEnds
          \/ TooLarge \/ Load \/ Reset \/ Clock \/ Finish \/ ended

Spec == Init /\ [][Next]_vars

\* The simulator runs.  While a port has an access the core is stalled, and a period in
\* which that port does not answer changes nothing: fairness of the clock is also that
\* every access is answered in the end.
FairSpec == Spec /\ WF_vars(Next)

-----------------------------------------------------------------------------
\* What the core counts on, because it has no trap for it: an access lies within the
\* data memory and outside the io page, at a multiple of its size, and an instruction at a
\* multiple of four.  A condition on the program, as the golden model runs it.
InMemory(addr, sz) == /\ addr % sz = 0 /\ addr + sz <= 4 * D_MEM_DEPTH
                      /\ addr \notin IoPage
Aligned ==
  /\ \A i \in DOMAIN expected_accesses : InMemory(expected_accesses[i].addr, expected_accesses[i].size)
  /\ \A i \in DOMAIN golden_pc_queue : golden_pc_queue[i] % 4 = 0

\* Every instruction the core retires is the next one of the sequential program, with
\* the registers the program has after it, whatever memory latency, prediction and
\* overlap of stages produced them.
NothingMismatches == error = 0

\* The accesses that reach a port are those of the sequential program, each once and
\* in its order: a store in the shadow of a jump or misprediction never gets out, and
\* a stalled one is not repeated.  The scoreboard does not look at memory.
seen(a) == [write |-> a.write, addr |-> a.addr, size |-> a.size]
AccessesInProgramOrder ==
  program.mode = "scoreboard" =>
    /\ Len(accesses) <= Len(expected_accesses)
    /\ \A i \in DOMAIN accesses : seen(accesses[i]) = expected_accesses[i]
    /\ phase = "done" => Len(accesses) = Len(expected_accesses)

\* The memory ends as the sequential program leaves it, byte lanes of sub-word stores
\* included; the scoreboard compares registers only.
MemoryEndsAsGolden ==
  phase = "done" => \A addr \in DOMAIN data_mem : dmem[addr] = data_mem[addr]

\* A self-checking program ends with code 0 exactly when it is right, whatever an earlier
\* test left in the memories; a C program that counts on a cleared .bss and whose crt0
\* does not clear it is wrong, and the poison past the image is there to show it.
VerdictIsTrue ==
  phase = "done" /\ program.mode # "scoreboard" => (exit_code = 0 <=> program.correct)

\* Every test comes to its end within the benches' timeouts.
EveryTestEnds == <>(phase \in {"done", "failed"})

\* Every line of RV32I that the class lists name, and nop and ebreak, decodes.
GoldenDecodes == raised # "NameError"
=============================================================================
