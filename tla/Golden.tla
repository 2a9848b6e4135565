------------------------------- MODULE Golden -------------------------------
(***************************************************************************)
(* Golden_Model (tb/cocotb/datapath/datapth_ctb.py): the sequential        *)
(* machine the core is compared with.  It reads the assembly source, not   *)
(* the image, decodes every line, and executes the program to its end      *)
(* before the first clock edge, queueing (pc, registers) per instruction.  *)
(* A source line is [labels, text]; text is [op, args] or None, and an     *)
(* operand is a register number, an immediate, a label, or an offset with  *)
(* a base register, [imm, reg].                                            *)
(***************************************************************************)
EXTENDS Word, Sequences, FiniteSets, FiniteSetsExt

CONSTANTS None, Regs,   \* Regs: register numbers, 0..31 in the code
          StoreList     \* the name the store case of decode_instr looks up

VARIABLES instrs, label_dic, parsed_instrs,
          pc, register_file, data_mem,
          golden_pc_queue, golden_reg_queue, retired,
          raised        \* the exception that ended the test, or None

sourceVars == <<instrs, label_dic, parsed_instrs>>
machineVars == <<pc, register_file, data_mem, golden_pc_queue, golden_reg_queue, retired>>
goldenVars == <<sourceVars, machineVars, raised>>

GoldenInit ==
  /\ instrs = <<>> /\ label_dic = <<>> /\ parsed_instrs = <<>>
  /\ pc = 0 /\ register_file = [r \in Regs |-> 0] /\ data_mem = <<>>
  /\ golden_pc_queue = <<>> /\ golden_reg_queue = <<>> /\ retired = 0
  /\ raised = None

-----------------------------------------------------------------------------
(* load_asm, parse_asm                                                      *)

\* The lines that are instructions, and how many of them come before line n.
instructions(lines)  == SelectSeq([i \in DOMAIN lines |-> lines[i].text], LAMBDA t : t # None)
before(lines, n)     == Cardinality({i \in 1..n - 1 : lines[i].text # None})
labelled(lines, lab) == {i \in DOMAIN lines : lab \in lines[i].labels}

\* A label names the address of the next instruction; its last definition counts.
load_asm(lines) ==
  /\ instrs' = instructions(lines)
  /\ label_dic' = [lab \in UNION {lines[i].labels : i \in DOMAIN lines} |->
                     4 * before(lines, Max(labelled(lines, lab)))]
  /\ UNCHANGED <<parsed_instrs, machineVars, raised>>

lists == [r_type_instr   |-> {"add", "sub", "and", "or", "xor", "sll", "srl", "sra", "slt", "sltu"},
          i_type_4_instr |-> {"addi", "andi", "ori", "xori", "slti", "sltiu", "slli", "srli", "srai"},
          i_type_3_instr |-> {"lb", "lbu", "lh", "lhu", "lw"},
          i_type_2_instr |-> {"jalr"},
          s_type_instr   |-> {"sb", "sh", "sw"},
          b_type_instr   |-> {"beq", "bne", "blt", "bltu", "bge", "bgeu"},
          j_type_instr   |-> {"jal"},
          u_type_instr   |-> {"auipc", "lui"}]

\* The cases tested before the store case's list is looked up.
early == lists.r_type_instr \union lists.i_type_4_instr \union lists.b_type_instr
           \union lists.j_type_instr \union lists.i_type_2_instr

undefined_name(op) == op \notin early /\ StoreList \notin DOMAIN lists

parsed(op, class) ==
  [opcode |-> op, instr_class |-> class, imm |-> 0, r1 |-> 0, r2 |-> 0, rd |-> 0,
   b_offset |-> 0, j_offset |-> 0, wrong |-> FALSE, stop |-> FALSE]

instr_wrong(op) == [parsed(op, "nop") EXCEPT !.wrong = TRUE]

\* The operands of a line, by class; a line with another number of operands, or a
\* label that is not defined, is marked wrong.
operands(op, args, instr_idx) ==
  LET n     == Len(args)
      known == n > 0 /\ args[n] \in DOMAIN label_dic
      here  == instr_idx * 4
  IN  CASE op \in lists.r_type_instr /\ n = 3 ->
             [parsed(op, "r_type") EXCEPT !.rd = args[1], !.r1 = args[2], !.r2 = args[3]]
        [] op \in lists.i_type_4_instr /\ n = 3 ->
             [parsed(op, "i_type_4") EXCEPT !.rd = args[1], !.r1 = args[2], !.imm = args[3]]
        [] op \in lists.b_type_instr /\ n = 3 /\ known ->
             [parsed(op, "b_type") EXCEPT !.r1 = args[1], !.r2 = args[2],
                                          !.b_offset = label_dic[args[3]] - here]
        [] op \in lists.j_type_instr /\ n = 2 /\ known ->
             [parsed(op, "j_type") EXCEPT !.rd = args[1], !.j_offset = label_dic[args[2]] - here]
        [] op \in lists.i_type_2_instr /\ n = 3 ->
             [parsed(op, "i_type_2") EXCEPT !.rd = args[1], !.r1 = args[2], !.imm = args[3]]
        [] op \in lists.i_type_2_instr /\ n = 2 ->
             [parsed(op, "i_type_2") EXCEPT !.rd = args[1], !.r1 = args[2].reg, !.imm = args[2].imm]
        [] op \in lists.s_type_instr /\ n = 2 ->
             [parsed(op, "s_type") EXCEPT !.r2 = args[1], !.r1 = args[2].reg, !.imm = args[2].imm]
        [] op \in lists.i_type_3_instr /\ n = 2 ->
             [parsed(op, "i_type_3") EXCEPT !.rd = args[1], !.r1 = args[2].reg, !.imm = args[2].imm]
        [] op \in lists.u_type_instr /\ n = 2 ->
             [parsed(op, "u_type") EXCEPT !.rd = args[1], !.imm = args[2]]
        [] op = "nop" -> parsed(op, "nop_type")
        [] op = "ebreak" -> [parsed(op, "stop") EXCEPT !.stop = TRUE]
        [] OTHER -> instr_wrong(op)

decode_instr(instr, instr_idx) == operands(instr.op, instr.args, instr_idx)

parse_asm ==
  /\ IF \E i \in DOMAIN instrs : undefined_name(instrs[i].op)
     THEN raised' = "NameError" /\ UNCHANGED parsed_instrs
     ELSE /\ parsed_instrs' = [i \in DOMAIN instrs |-> decode_instr(instrs[i], i - 1)]
          /\ UNCHANGED raised
  /\ UNCHANGED <<instrs, label_dic, machineVars>>

-----------------------------------------------------------------------------
(* exec_instr                                                               *)

mem_get(addr) == IF word(addr) \in DOMAIN data_mem THEN data_mem[word(addr)] ELSE 0

load_mem(addr, size) ==
  LET part(i) == IF i < size THEN mem_get(addr + i) * BYTE ^ i ELSE 0
  IN  part(0) + part(1) + part(2) + part(3)

stored(addr, val, size) ==
  LET lanes == {word(addr + i) : i \in 0..size - 1}
  IN  [a \in lanes \union DOMAIN data_mem |->
         IF a \in lanes THEN byteOf(val, word(a - addr)) ELSE data_mem[a]]

sizeOf(op) == IF op \in {"sb", "lb", "lbu"} THEN 1 ELSE IF op \in {"sh", "lh", "lhu"} THEN 2 ELSE 4

addrOf(i) == word(to_signed(register_file[i.r1]) + i.imm)

\* What the instruction writes to rd, before it is cut to a word.
res(i) ==
  LET u_r1 == register_file[i.r1]      u_r2 == register_file[i.r2]
      r1   == to_signed(u_r1)          r2   == to_signed(u_r2)
      imm  == i.imm                    u_imm == word(i.imm)
      bool(b) == IF b THEN 1 ELSE 0
      value   == load_mem(addrOf(i), sizeOf(i.opcode))
  IN  CASE i.opcode = "add"   -> r1 + r2
        [] i.opcode = "sub"   -> r1 - r2
        [] i.opcode = "and"   -> u_r1 & u_r2
        [] i.opcode = "or"    -> u_r1 | u_r2
        [] i.opcode = "xor"   -> u_r1 ^^ u_r2
        [] i.opcode = "sll"   -> u_r1 * 2 ^ shamt(u_r2)
        [] i.opcode = "srl"   -> u_r1 \div 2 ^ shamt(u_r2)
        [] i.opcode = "sra"   -> r1 \div 2 ^ shamt(u_r2)
        [] i.opcode = "slt"   -> bool(r1 < r2)
        [] i.opcode = "sltu"  -> bool(u_r1 < u_r2)
        [] i.opcode = "addi"  -> r1 + imm
        [] i.opcode = "andi"  -> u_r1 & u_imm
        [] i.opcode = "ori"   -> u_r1 | u_imm
        [] i.opcode = "xori"  -> u_r1 ^^ u_imm
        [] i.opcode = "slti"  -> bool(r1 < imm)
        [] i.opcode = "sltiu" -> bool(u_r1 < u_imm)
        [] i.opcode = "slli"  -> u_r1 * 2 ^ shamt(imm)
        [] i.opcode = "srli"  -> u_r1 \div 2 ^ shamt(imm)
        [] i.opcode = "srai"  -> r1 \div 2 ^ shamt(imm)
        [] i.opcode \in {"jal", "jalr"} -> pc + 4
        [] i.opcode = "auipc" -> pc + imm * UPPER
        [] i.opcode = "lui"   -> imm * UPPER
        [] i.opcode = "lb"    -> signExtend(value, BYTE)
        [] i.opcode = "lh"    -> signExtend(value, HALF)
        [] i.opcode \in {"lbu", "lhu", "lw"} -> value
        [] OTHER -> register_file[i.rd]

branches(i) ==
  LET u_r1 == register_file[i.r1]  u_r2 == register_file[i.r2]
      r1   == to_signed(u_r1)      r2   == to_signed(u_r2)
  IN  \/ i.opcode = "beq"  /\ r1 = r2
      \/ i.opcode = "bne"  /\ r1 # r2
      \/ i.opcode = "blt"  /\ r1 < r2
      \/ i.opcode = "bltu" /\ u_r1 < u_r2
      \/ i.opcode = "bge"  /\ r1 >= r2
      \/ i.opcode = "bgeu" /\ u_r1 >= u_r2

\* JALR clears the target's lowest bit.
next_pc(i) ==
  CASE i.instr_class = "b_type"   -> word(IF branches(i) THEN pc + i.b_offset ELSE pc + 4)
    [] i.instr_class = "j_type"   -> word(pc + i.j_offset)
    [] i.instr_class = "i_type_2" -> LET t == to_signed(register_file[i.r1]) + i.imm IN word(t - (t % 2))
    [] OTHER -> word(pc + 4)

\* Past the last line, or at ebreak.
golden_ended == pc \div 4 + 1 \in DOMAIN parsed_instrs => parsed_instrs[pc \div 4 + 1].stop

exec_instr ==
  /\ ~golden_ended
  /\ LET i    == parsed_instrs[pc \div 4 + 1]
         file == IF i.rd = 0 THEN register_file ELSE [register_file EXCEPT ![i.rd] = word(res(i))]
     IN  /\ ~i.wrong
         /\ register_file' = file
         /\ data_mem' = IF i.instr_class = "s_type"
                        THEN stored(addrOf(i), register_file[i.r2], sizeOf(i.opcode))
                        ELSE data_mem
         /\ pc' = next_pc(i)
         /\ golden_reg_queue' = Append(golden_reg_queue, file)
         /\ golden_pc_queue' = Append(golden_pc_queue, pc)
  /\ retired' = retired + 1
  /\ UNCHANGED <<sourceVars, raised>>

\* A line that cannot be decoded ends the test, rather than leaving every later
\* comparison one instruction off.
exec_undecodable ==
  /\ ~golden_ended
  /\ parsed_instrs[pc \div 4 + 1].wrong
  /\ raised' = "ValueError"
  /\ UNCHANGED <<sourceVars, machineVars>>
=============================================================================
