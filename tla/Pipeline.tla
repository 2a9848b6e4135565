------------------------------ MODULE Pipeline ------------------------------
(***************************************************************************)
(* The five stages of data_path (rtl/datapath.v): fetch with the branch    *)
(* target buffer, decode, execute with forwarding and branch resolution,   *)
(* the memory stage with the LSU, write-back, and the hazard unit that     *)
(* stalls and flushes them.  A step is one period of the clock: the        *)
(* falling edge, on which the register file is written, then the rising    *)
(* edge, on which everything else moves.                                   *)
(* An instruction word is [op, rd, rs1, rs2, imm]: the fields its format   *)
(* has, and 0 for those it has not, as instruction_decoder hands them on.  *)
(***************************************************************************)
EXTENDS Word, Sequences, FiniteSets, FiniteSetsExt

CONSTANTS None, Regs, IMEM_DEPTH, BTB_DEPTH,
          IoPage      \* the addresses with IO_PAGE in their top bits

VARIABLES if_pc, imem_data, output_valid,     \* fetch; the memory's output register
          id, ex, em, wb,                     \* the pipeline registers
          file,                               \* register_file.file
          buff, wrap_idx,                     \* btb
          lsu_state, cpu_data_in, io_req, io_access_r, resp_data_r,
          cpu_ready_out, cpu_data_out, io_ack \* what the two ports drive

lsuVars   == <<lsu_state, cpu_data_in, io_req, io_access_r, resp_data_r>>
stageVars == <<if_pc, imem_data, output_valid, id, ex, em, wb, file, buff, wrap_idx>>
pipelineVars == <<stageVars, lsuVars>>

Access == [write : BOOLEAN, addr : Words, data : Words, size : {1, 2, 4}]

ASSUME PipelineAssumption ==
  /\ 0 \in Regs
  /\ IMEM_DEPTH \in Nat \ {0} /\ BTB_DEPTH \in Nat \ {0}
  /\ None \notin Access

LSU == INSTANCE Lsu WITH CacheAccess <- {a \in Access : a.addr \notin IoPage},
                         IoAccess    <- {a \in Access : a.addr \in IoPage}

ZeroWord == [op |-> "zero", rd |-> 0, rs1 |-> 0, rs2 |-> 0, imm |-> 0]

IdBubble == [valid |-> FALSE, word |-> ZeroWord, pc |-> 0, predicted |-> FALSE]
ExBubble == [valid |-> FALSE, word |-> ZeroWord, pc |-> 0, predicted |-> FALSE, rd_1 |-> 0, rd_2 |-> 0]
EmBubble == [valid |-> FALSE, word |-> ZeroWord, pc |-> 0, alu_result |-> 0, r_data_2 |-> 0]
WbBubble == [valid |-> FALSE, word |-> ZeroWord, pc |-> 0, alu_result |-> 0, read_data |-> 0]

\* Reset holds the pc at 0, and the instruction memory drives word 0.
PipelineReset(imem) ==
  /\ if_pc' = 0 /\ imem_data' = imem[0] /\ output_valid' = TRUE
  /\ id' = IdBubble /\ ex' = ExBubble /\ em' = EmBubble /\ wb' = WbBubble
  /\ file' = [r \in Regs |-> 0]
  /\ buff' = [i \in 0..BTB_DEPTH - 1 |-> [tag |-> 0, target |-> 0, valid |-> FALSE]]
  /\ wrap_idx' = 0

-----------------------------------------------------------------------------
(* control: what a class of instructions does, once instr_valid has gated   *)
(* it.  An opcode that is none of these, the all-zero word and ebreak among *)
(* them, retires without doing anything.                                    *)

R_TYPE   == {"add", "sub", "and", "or", "xor", "sll", "srl", "sra", "slt", "sltu"}
I_TYPE_4 == {"addi", "andi", "ori", "xori", "slti", "sltiu", "slli", "srli", "srai"}
I_TYPE_3 == {"lb", "lbu", "lh", "lhu", "lw"}
I_TYPE_2 == {"jalr"}
S_TYPE   == {"sb", "sh", "sw"}
B_TYPE   == {"beq", "bne", "blt", "bltu", "bge", "bgeu"}
J_TYPE   == {"jal"}
U_TYPE_1 == {"lui"}
U_TYPE_2 == {"auipc"}

jump(s)      == s.valid /\ s.word.op \in J_TYPE \union I_TYPE_2
branch(s)    == s.valid /\ s.word.op \in B_TYPE
mem_read(s)  == s.valid /\ s.word.op \in I_TYPE_3
mem_write(s) == s.valid /\ s.word.op \in S_TYPE
reg_write(s) == s.valid /\ s.word.op \in R_TYPE \union I_TYPE_4 \union I_TYPE_3
                  \union I_TYPE_2 \union J_TYPE \union U_TYPE_1 \union U_TYPE_2
alu_src_pc(s)  == s.word.op \in J_TYPE \union U_TYPE_2
alu_src_imm(s) == s.word.op \notin R_TYPE \union B_TYPE

\* mem_to_reg, the write-back multiplexer
fromStage(s, alu_result, memory) ==
  CASE s.word.op \in I_TYPE_3                 -> memory
    [] s.word.op \in J_TYPE \union I_TYPE_2   -> word(s.pc + 4)
    [] s.word.op \in U_TYPE_1                 -> s.word.imm
    [] OTHER                                  -> alu_result

-----------------------------------------------------------------------------
(* Write-back, and the register file: written on the falling edge, so that  *)
(* decode reads the value in the same period.                               *)

wb_src == fromStage(wb, wb.alu_result, wb.read_data)

file_written == IF reg_write(wb) /\ wb.word.rd # 0
                THEN [file EXCEPT ![wb.word.rd] = wb_src] ELSE file

read_data(r) == IF r = 0 THEN 0 ELSE file_written[r]

-----------------------------------------------------------------------------
(* The memory stage                                                         *)

size(op) == IF op \in {"sb", "lb", "lbu"} THEN 1 ELSE IF op \in {"sh", "lh", "lhu"} THEN 2 ELSE 4

em_access == IF mem_read(em) \/ mem_write(em)
             THEN [write |-> mem_write(em), addr |-> em.alu_result,
                   data |-> em.r_data_2, size |-> size(em.word.op)]
             ELSE None

lsu_data_out == LET r == LSU!be_cache_in(cpu_data_out, io_ack)
                IN  IF r = None THEN 0 ELSE r.data

\* BE_logic: the cache zero-extends, the core sign-extends.
be_data_out == CASE em.word.op = "lb" -> signExtend(lsu_data_out, BYTE)
                 [] em.word.op = "lh" -> signExtend(lsu_data_out, HALF)
                 [] OTHER             -> lsu_data_out

em_src == fromStage(em, em.alu_result, be_data_out)

req_stall   == LSU!req_stall(em_access, cpu_data_out, io_ack)
mem_advance == ~req_stall

-----------------------------------------------------------------------------
(* Execute                                                                  *)

writes(s, r) == reg_write(s) /\ s.word.rd # 0 /\ s.word.rd = r

\* Wrong: the older of two producers is preferred.
forwarded_OlderFirst(r, read) == IF writes(wb, r) THEN wb_src
                                 ELSE IF writes(em, r) THEN em_src ELSE read

\* forwarding_unit: the younger producer, in EX/MEM, goes first.
forwarded(r, read) == IF writes(em, r) THEN em_src
                      ELSE IF writes(wb, r) THEN wb_src ELSE read

rd_1_fwd == forwarded(ex.word.rs1, ex.rd_1)
rd_2_fwd == forwarded(ex.word.rs2, ex.rd_2)

\* alu_controller and alu
alu(op, x, y) ==
  LET sx == to_signed(x)  sy == to_signed(y)
      bool(b) == IF b THEN 1 ELSE 0
  IN  CASE op \in S_TYPE \union I_TYPE_3 \union U_TYPE_1 \union U_TYPE_2 \union J_TYPE
                \union {"add", "addi"} -> word(sx + sy)
        [] op = "sub"                  -> word(sx - sy)
        [] op \in {"and", "andi"}      -> x & y
        [] op \in {"or", "ori"}        -> x | y
        [] op \in {"xor", "xori"}      -> x ^^ y
        [] op \in {"sll", "slli"}      -> word(x * 2 ^ shamt(y))
        [] op \in {"srl", "srli"}      -> x \div 2 ^ shamt(y)
        [] op \in {"sra", "srai"}      -> word(sx \div 2 ^ shamt(y))
        [] op \in {"slt", "slti", "blt"}    -> bool(sx < sy)
        [] op \in {"sltu", "sltiu", "bltu"} -> bool(x < y)
        [] op = "bge"                  -> bool(sx >= sy)
        [] op = "bgeu"                 -> bool(x >= y)
        [] op = "beq"                  -> bool(x = y)
        [] op = "bne"                  -> bool(x # y)
        [] op \in I_TYPE_2             -> LET t == word(sx + sy) IN t - (t % 2)
        [] OTHER                       -> 0

alu_result == alu(ex.word.op, IF alu_src_pc(ex) THEN ex.pc ELSE rd_1_fwd,
                              IF alu_src_imm(ex) THEN ex.word.imm ELSE rd_2_fwd)

\* branch_logic: a miss is a wrong direction, the target is never compared.
branch_taken         == branch(ex) /\ alu_result % 2 = 1
prediction_miss      == branch(ex) /\ (alu_result % 2 = 1) # ex.predicted
branch_target_actual == word(ex.pc + IF branch_taken THEN ex.word.imm ELSE 4)

-----------------------------------------------------------------------------
(* hazard_detector                                                          *)

redirect  == prediction_miss \/ jump(ex)
lu_hazard == mem_read(ex) /\ ex.word.rd # 0 /\ ex.word.rd \in {id.word.rs1, id.word.rs2}

pc_stall    == req_stall \/ (~redirect /\ lu_hazard)
if_id_flush == ~req_stall /\ redirect

\* Wrong: the instruction fetched behind a jump or a misprediction stays in ID.
id_ex_flush_LoadUseOnly == ~req_stall /\ ~redirect /\ lu_hazard

id_ex_flush == ~req_stall /\ (redirect \/ lu_hazard)

-----------------------------------------------------------------------------
(* Fetch: pc_controller, btb, inst_mem                                      *)

pc_next(bp_taken, target) ==
  IF prediction_miss THEN branch_target_actual
  ELSE IF jump(ex)   THEN alu_result
  ELSE IF pc_stall   THEN if_pc
  ELSE IF bp_taken   THEN target
  ELSE word(if_pc + 4)

hits(p)  == {i \in DOMAIN buff : buff[i].valid /\ buff[i].tag = p \div 4}
known(p) == {i \in DOMAIN buff : buff[i].tag = p \div 4}

btb_hit    == hits(if_pc) # {}
btb_target == buff[IF btb_hit THEN Max(hits(if_pc)) ELSE 0].target

Fetch(imem, bp_taken) ==
  LET next == pc_next(bp_taken, btb_target)
  IN  /\ if_pc' = next
      /\ imem_data' = imem[(next \div 4) % IMEM_DEPTH]
      /\ output_valid' = (next \div 4 < IMEM_DEPTH)

\* Every taken branch in EX is written, also while EX is stalled; the port that looks
\* for its entry does not ask whether that entry is valid.
BtbWrite ==
  LET entry == [tag |-> ex.pc \div 4, target |-> branch_target_actual, valid |-> TRUE]
  IN  \/ /\ ~branch_taken
         /\ UNCHANGED <<buff, wrap_idx>>
      \/ /\ branch_taken /\ known(ex.pc) # {}
         /\ buff' = [buff EXCEPT ![Max(known(ex.pc))] = entry]
         /\ UNCHANGED wrap_idx
      \/ /\ branch_taken /\ known(ex.pc) = {}
         /\ buff' = [buff EXCEPT ![wrap_idx] = entry]
         /\ wrap_idx' = (wrap_idx + 1) % BTB_DEPTH

-----------------------------------------------------------------------------
(* The pipeline registers                                                   *)

IF_ID(predicted) ==
  id' = CASE if_id_flush -> [IdBubble EXCEPT !.pc = id.pc]
          [] ~if_id_flush /\ pc_stall -> id
          [] OTHER -> [valid |-> output_valid, word |-> imem_data, pc |-> if_pc,
                       predicted |-> predicted]

\* Wrong: a stalled instruction keeps the operands it read in decode.
ID_EX_NoRecapture ==
  ex' = CASE id_ex_flush -> ExBubble
          [] req_stall   -> ex
          [] OTHER -> [valid |-> id.valid, word |-> id.word, pc |-> id.pc,
                       predicted |-> id.predicted,
                       rd_1 |-> read_data(id.word.rs1), rd_2 |-> read_data(id.word.rs2)]

\* A stalled instruction captures what is forwarded to it: the stall bubbles MEM/WB,
\* so a producer there can be forwarded for one period only.
ID_EX ==
  ex' = CASE id_ex_flush -> ExBubble
          [] req_stall   -> [ex EXCEPT !.rd_1 = rd_1_fwd, !.rd_2 = rd_2_fwd]
          [] OTHER -> [valid |-> id.valid, word |-> id.word, pc |-> id.pc,
                       predicted |-> id.predicted,
                       rd_1 |-> read_data(id.word.rs1), rd_2 |-> read_data(id.word.rs2)]

EX_MEM ==
  em' = IF req_stall THEN em
        ELSE [valid |-> ex.valid, word |-> ex.word, pc |-> ex.pc,
              alu_result |-> alu_result, r_data_2 |-> rd_2_fwd]

MEM_WB ==
  wb' = IF req_stall THEN WbBubble
        ELSE [valid |-> em.valid, word |-> em.word, pc |-> em.pc,
              alu_result |-> em.alu_result, read_data |-> be_data_out]

\* One period.  The predictor may say anything of a pc the target buffer knows.
PipelineClock(imem) ==
  \E taken \in BOOLEAN :
    /\ taken => btb_hit
    /\ file' = file_written
    /\ Fetch(imem, taken) /\ IF_ID(taken)
    /\ ID_EX /\ EX_MEM /\ MEM_WB /\ BtbWrite
    /\ LSU!LsuClock(em_access, cpu_data_out, cpu_ready_out, io_ack, mem_advance)
=============================================================================
