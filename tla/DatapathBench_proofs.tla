------------------------ MODULE DatapathBench_proofs ------------------------
(***************************************************************************)
(* The core executes the program the golden model executes: for every      *)
(* program of the scoreboard's, every size of memories and target buffer,  *)
(* every word size, every prediction and every latency of the memory.      *)
(*                                                                         *)
(* The argument: a run is the sequence of states of the sequential machine *)
(* on the assembler's words.  The golden model, which works on the lines,  *)
(* extends a run with every instruction it executes; the pipeline, later,  *)
(* has in each of its stages the instruction of that run whose number is   *)
(* the count of the instructions before it, with the operands, results and *)
(* memory the run has there.                                               *)
(***************************************************************************)
EXTENDS DatapathBench, TLAPS, FiniteSetTheorems, WellFoundedInduction

-----------------------------------------------------------------------------
(* The sequential machine on instruction words.  A run of it is a record    *)
(* of four functions of the number of instructions retired: the pc, the     *)
(* registers, the memory by byte and the number of accesses made.           *)

RegWriters == R_TYPE \union I_TYPE_4 \union I_TYPE_3 \union I_TYPE_2 \union J_TYPE
                \union U_TYPE_1 \union U_TYPE_2
MemOps     == I_TYPE_3 \union S_TYPE
Jumps      == J_TYPE \union I_TYPE_2

Result(w, p, regs) ==
  alu(w.op, IF w.op \in J_TYPE \union U_TYPE_2 THEN p ELSE regs[w.rs1],
            IF w.op \notin R_TYPE \union B_TYPE THEN w.imm ELSE regs[w.rs2])

loadedFrom(m, addr, sz) ==
  LET part(i) == IF i < sz THEN m[addr + i] * BYTE ^ i ELSE 0
  IN  part(0) + part(1) + part(2) + part(3)

storedTo(m, addr, val, sz) ==
  [b \in Bytes |-> IF b \in addr .. addr + sz - 1 THEN byteOf(val, b - addr) ELSE m[b]]

extended(op, value) == CASE op = "lb" -> signExtend(value, BYTE)
                         [] op = "lh" -> signExtend(value, HALF)
                         [] OTHER     -> value

Value(w, p, regs, m) ==
  CASE w.op \in I_TYPE_3 -> extended(w.op, loadedFrom(m, Result(w, p, regs), size(w.op)))
    [] w.op \in Jumps    -> word(p + 4)
    [] w.op \in U_TYPE_1 -> w.imm
    [] OTHER             -> Result(w, p, regs)

NextRegs(w, p, regs, m) == IF w.op \in RegWriters /\ w.rd # 0
                           THEN [regs EXCEPT ![w.rd] = Value(w, p, regs, m)] ELSE regs
NextMem(w, p, regs, m)  == IF w.op \in S_TYPE
                           THEN storedTo(m, Result(w, p, regs), regs[w.rs2], size(w.op)) ELSE m
NextPc(w, p, regs) ==
  IF w.op \in Jumps THEN Result(w, p, regs)
  ELSE word(p + IF w.op \in B_TYPE /\ Result(w, p, regs) % 2 = 1 THEN w.imm ELSE 4)

code == assemble(program.lines)

WordAt(p) == code[p \div 4 + 1]
W(T, k)   == WordAt(T.pc[k])
Res(T, k) == Result(W(T, k), T.pc[k], T.regs[k])

InstructionOK(T, k) ==
  /\ T.pc[k] % 4 = 0 /\ T.pc[k] \div 4 < Len(code)
  /\ W(T, k).imm \in Words
  /\ W(T, k).rd \in Regs /\ W(T, k).rs1 \in Regs /\ W(T, k).rs2 \in Regs

AccessOK(T, k) == W(T, k).op \in MemOps =>
  /\ InMemory(Res(T, k), size(W(T, k).op))
  /\ T.acc[k + 1] \in DOMAIN expected_accesses
  /\ expected_accesses[T.acc[k + 1]] =
       [write |-> W(T, k).op \in S_TYPE, addr |-> Res(T, k), size |-> size(W(T, k).op)]

Executes(T, k) ==
  /\ InstructionOK(T, k) /\ AccessOK(T, k)
  /\ T.regs[k + 1] = NextRegs(W(T, k), T.pc[k], T.regs[k], T.mem[k])
  /\ T.mem[k + 1] = NextMem(W(T, k), T.pc[k], T.regs[k], T.mem[k])
  /\ T.pc[k + 1] = NextPc(W(T, k), T.pc[k], T.regs[k])
  /\ T.acc[k + 1] = T.acc[k] + (IF W(T, k).op \in MemOps THEN 1 ELSE 0)

Expected == [write : BOOLEAN, addr : Words, size : {1, 2, 4}]

RunOf(T) ==
  /\ retired \in Nat
  /\ expected_accesses \in Seq(Expected)
  /\ T.pc \in [0..retired -> Words]
  /\ T.regs \in [0..retired -> [Regs -> Words]]
  /\ T.mem \in [0..retired -> [Bytes -> 0..BYTE - 1]]
  /\ T.acc \in [0..retired -> Nat]
  /\ \A k \in 0..retired : T.regs[k][0] = 0
  /\ T.pc[0] = 0 /\ T.acc[0] = 0
  /\ T.regs[0] = [r \in Regs |-> 0] /\ T.mem[0] = [b \in Bytes |-> 0]
  /\ \A k \in 0..retired - 1 : Executes(T, k)
  /\ T.acc[retired] = Len(expected_accesses)

\* What the golden model has computed, and has left in its queues.
GoldenIs(T) ==
  /\ pc = T.pc[retired] /\ register_file = T.regs[retired]
  /\ DOMAIN data_mem \subseteq Bytes
  /\ \A b \in Bytes : T.mem[retired][b] = IF b \in DOMAIN data_mem THEN data_mem[b] ELSE 0

QueuesAre(T) ==
  /\ golden_pc_queue \in Seq(Words) /\ golden_reg_queue \in Seq([Regs -> Words])
  /\ Len(golden_pc_queue) = retired - transactions_checked
  /\ Len(golden_reg_queue) = retired - transactions_checked
  /\ \A j \in 1..retired - transactions_checked :
       /\ golden_pc_queue[j] = T.pc[transactions_checked + j - 1]
       /\ golden_reg_queue[j] = T.regs[transactions_checked + j]

\* Past the last instruction or at ebreak.
Ended(T) == T.pc[retired] \div 4 < Len(code) => W(T, retired).op \notin MemOps

-----------------------------------------------------------------------------
(* The pipeline against a run: an instruction in a stage is the one of the  *)
(* run whose number is that of the instructions before it.                  *)

one(s) == IF s.valid THEN 1 ELSE 0
n  == transactions_checked
iW == n + one(wb)
iM == iW + one(em)
iX == iM + one(ex)
iD == iX + one(id)

Is(s, T, k) == s.word = W(T, k) /\ s.pc = T.pc[k]

LoadValue(T, k) == Value(W(T, k), T.pc[k], T.regs[k], T.mem[k])

WbOK(T) == wb.valid /\ iW <= retired =>
  /\ Is(wb, T, n) /\ wb.alu_result = Res(T, n)
  /\ mem_read(wb) => wb.read_data = LoadValue(T, n)

EmOK(T) == em.valid /\ iM <= retired =>
  /\ Is(em, T, iM - 1) /\ em.alu_result = Res(T, iM - 1)
  /\ em.r_data_2 = T.regs[iM - 1][em.word.rs2]

Pending(T, k, predicted) ==
  \/ W(T, k).op \in Jumps
  \/ W(T, k).op \in B_TYPE /\ (Res(T, k) % 2 = 1) # predicted

Operand(T, r, value) ==
  /\ ~writes(em, r) /\ ~writes(wb, r) => value = T.regs[iX - 1][r]
  /\ mem_read(em) => ~writes(em, r)

ExOK(T) == ex.valid /\ iX <= retired =>
  /\ Is(ex, T, iX - 1)
  /\ ex.predicted => ex.word.op \in B_TYPE
  /\ Operand(T, ex.word.rs1, ex.rd_1) /\ Operand(T, ex.word.rs2, ex.rd_2)

exPending(T) == ex.valid /\ iX <= retired /\ Pending(T, iX - 1, ex.predicted)
idPending(T) == id.valid /\ iD <= retired /\ Pending(T, iD - 1, id.predicted)

IdOK(T) == id.valid /\ iD <= retired /\ ~exPending(T) =>
  /\ Is(id, T, iD - 1)
  /\ id.predicted => id.word.op \in B_TYPE

FetchOK(T) ==
  /\ imem_data = imem[(if_pc \div 4) % IMEM_DEPTH]
  /\ output_valid = (if_pc \div 4 < IMEM_DEPTH)
  /\ iD <= retired /\ ~exPending(T) /\ ~idPending(T) =>
       if_pc = T.pc[iD] \/ (iD = retired /\ ~id.valid)

Inert(s) == s.word.op \notin MemOps

\* What follows the last instruction cannot reach memory before that one retires.
BeyondOK(T) ==
  /\ em.valid /\ iM = retired + 1 => Inert(em)
  /\ ex.valid /\ iX = retired + 1 => Inert(ex) \/ ~em.valid
  /\ id.valid /\ iD = retired + 1 /\ ~exPending(T) => Inert(id) \/ ~ex.valid

BtbOK ==
  /\ DOMAIN buff = 0..BTB_DEPTH - 1
  /\ wrap_idx \in 0..BTB_DEPTH - 1
  /\ iX <= retired => \A i \in 0..BTB_DEPTH - 1 : buff[i].valid =>
       /\ buff[i].tag \in 0..IMEM_DEPTH - 1 /\ imem[buff[i].tag].op \in B_TYPE
       /\ buff[i].target = word(4 * buff[i].tag + imem[buff[i].tag].imm)

\* The four states of the LSU and the cache port.
Quiet    == /\ lsu_state = "IDLE" /\ cpu_data_in = None /\ port = None
            /\ cpu_ready_out = TRUE /\ cpu_data_out = None
Asked    == /\ lsu_state = "RESP_WAITING" /\ cpu_data_in = em_access /\ port = None
            /\ cpu_ready_out = TRUE /\ cpu_data_out = None
Working  == /\ lsu_state = "RESP_WAITING" /\ port = em_access
            /\ cpu_ready_out = FALSE /\ cpu_data_out = None
Answered == /\ lsu_state = "RESP_WAITING" /\ cpu_data_in = None /\ port = None
            /\ cpu_ready_out = TRUE /\ cpu_data_out # None

IoQuiet == io_access_r = FALSE /\ io_req = None /\ io_port = None /\ io_ack = None

\* How much of the run the memory has seen, and how many of its accesses a port has taken.
reached == IF iM <= retired THEN iM ELSE retired

PortOK(T) ==
  LET waits == em_access # None
  IN  /\ IoQuiet
      /\ Quiet \/ (waits /\ ~wb.valid /\ (Asked \/ Working \/ Answered))
      /\ dmem = T.mem[IF waits /\ ~Answered THEN iM - 1 ELSE reached]
      /\ Len(accesses) = T.acc[IF waits /\ (Quiet \/ Asked) THEN iM - 1 ELSE reached]
      /\ Answered => cpu_data_out = [data |-> loadedFrom(T.mem[iM - 1], em.alu_result, size(em.word.op))]

Seen ==
  /\ accesses \in Seq(Access)
  /\ \A i \in DOMAIN accesses : i \in DOMAIN expected_accesses /\ seen(accesses[i]) = expected_accesses[i]

PipelineOK(T) ==
  /\ Len(code) \in 0..IMEM_DEPTH
  /\ imem = padded(code, IMEM_DEPTH, ZeroWord)
  /\ n \in 0..retired
  /\ file = T.regs[n]
  /\ n < retired => /\ WbOK(T) /\ EmOK(T) /\ ExOK(T) /\ IdOK(T) /\ FetchOK(T)
                    /\ BeyondOK(T) /\ BtbOK /\ PortOK(T)
  /\ n = retired => dmem = T.mem[n] /\ Len(accesses) = T.acc[n]
  /\ Seen

-----------------------------------------------------------------------------
(* The golden model's line against the assembler's word for it.             *)

\* What load_asm has read, and what parse_asm makes of it.
SourceRead ==
  /\ program \in Programs /\ program.mode = "scoreboard"
  /\ instrs = GoldenModel!instructions(program.lines)
  /\ label_dic = [lab \in UNION {program.lines[i].labels : i \in DOMAIN program.lines} |->
        4 * GoldenModel!before(program.lines, Max(GoldenModel!labelled(program.lines, lab)))]

SourceParsed ==
  parsed_instrs = [i \in DOMAIN instrs |-> GoldenModel!decode_instr(instrs[i], i - 1)]

Shifts == {"slli", "srli", "srai"}

Same(i, w, class) == i.opcode = w.op /\ i.instr_class = class

AgreesR(i, w)  == w.op \in R_TYPE /\ Same(i, w, "r_type") /\ i.r1 = w.rs1 /\ i.r2 = w.rs2
AgreesI(i, w)  == /\ w.op \in I_TYPE_4 /\ Same(i, w, "i_type_4") /\ i.r1 = w.rs1
                  /\ i.imm \in Immediates
                  /\ w.imm = word(IF w.op \in Shifts THEN shamt(i.imm) ELSE i.imm)
AgreesB(i, w)  == /\ w.op \in B_TYPE /\ w.rd = 0 /\ Same(i, w, "b_type") /\ i.r1 = w.rs1 /\ i.r2 = w.rs2
                  /\ i.b_offset \in Int /\ w.imm = word(i.b_offset)
AgreesJ(i, w)  == /\ w.op \in J_TYPE /\ Same(i, w, "j_type")
                  /\ i.j_offset \in Int /\ w.imm = word(i.j_offset)
AgreesJR(i, w) == /\ w.op \in I_TYPE_2 /\ Same(i, w, "i_type_2") /\ i.r1 = w.rs1
                  /\ i.imm \in Immediates /\ w.imm = word(i.imm)
AgreesS(i, w)  == /\ w.op \in S_TYPE /\ w.rd = 0 /\ Same(i, w, "s_type") /\ i.r1 = w.rs1 /\ i.r2 = w.rs2
                  /\ i.imm \in Immediates /\ w.imm = word(i.imm)
AgreesL(i, w)  == /\ w.op \in I_TYPE_3 /\ Same(i, w, "i_type_3") /\ i.r1 = w.rs1
                  /\ i.imm \in Immediates /\ w.imm = word(i.imm)
AgreesU(i, w)  == /\ w.op \in U_TYPE_1 \union U_TYPE_2 /\ Same(i, w, "u_type")
                  /\ i.imm \in Int /\ w.imm = word(i.imm * UPPER)
AgreesN(i, w)  == w.op = "addi" /\ i.opcode = "nop" /\ i.instr_class = "nop_type" /\ w.rd = 0

Agrees(i, w) ==
  /\ w.rd \in Regs /\ w.rs1 \in Regs /\ w.rs2 \in Regs /\ w.imm \in Words /\ i.rd = w.rd
  /\ \/ AgreesR(i, w) \/ AgreesI(i, w) \/ AgreesB(i, w) \/ AgreesJ(i, w) \/ AgreesJR(i, w)
     \/ AgreesS(i, w) \/ AgreesL(i, w) \/ AgreesU(i, w) \/ AgreesN(i, w)

\* The golden model's state, with m for its memory by byte.
GoldenAt(m) ==
  /\ pc \in Words /\ register_file \in [Regs -> Words] /\ register_file[0] = 0
  /\ m \in [Bytes -> 0..BYTE - 1] /\ DOMAIN data_mem \subseteq Bytes
  /\ \A b \in Bytes : m[b] = IF b \in DOMAIN data_mem THEN data_mem[b] ELSE 0

-----------------------------------------------------------------------------
(* The inductive invariant, by the phases of a test.                        *)

GoldenFresh ==
  /\ pc = 0 /\ register_file = [r \in Regs |-> 0] /\ data_mem = <<>>
  /\ golden_pc_queue = <<>> /\ golden_reg_queue = <<>> /\ retired = 0 /\ expected_accesses = <<>>

CoreFresh ==
  /\ lsu_state = "IDLE" /\ cpu_data_in = None /\ io_req = None /\ io_access_r = FALSE
  /\ accesses = <<>> /\ transactions_checked = 0

Loaded ==
  /\ Len(code) \in 0..IMEM_DEPTH /\ imem = padded(code, IMEM_DEPTH, ZeroWord)
  /\ dmem = [b \in Bytes |-> 0]

Executed(T) ==
  /\ RunOf(T) /\ GoldenIs(T) /\ QueuesAre(T)
  /\ phase # "exec" => Ended(T) /\ retired > 0
  /\ phase = "running" => PipelineOK(T)
  /\ phase = "done" => dmem = T.mem[retired] /\ Len(accesses) = T.acc[retired] /\ Seen

ScoredInv ==
  /\ phase \in {"load_asm", "parse_asm", "exec", "load", "reset", "running", "done", "failed"}
  /\ phase \in {"load_asm", "parse_asm"} => GoldenFresh
  /\ phase \in {"parse_asm", "exec"} => SourceRead
  /\ phase = "exec" => SourceParsed
  /\ phase \in {"load_asm", "parse_asm", "exec", "load", "reset"} => CoreFresh
  /\ phase \in {"exec", "load", "reset", "running", "done"} => \E T : Executed(T)
  /\ phase = "reset" => Loaded
  /\ phase = "done" => transactions_checked = retired
  /\ phase = "failed" => accesses = <<>> /\ expected_accesses \in Seq(Expected)

UnscoredInv ==
  /\ phase \in {"load", "reset", "running", "done", "failed"}
  /\ golden_pc_queue = <<>> /\ data_mem = <<>>

Inv ==
  /\ program \in Programs /\ error = 0
  /\ program.mode = "scoreboard" => ScoredInv
  /\ program.mode # "scoreboard" => UnscoredInv

-----------------------------------------------------------------------------
(* Words: what cutting, signed reading and shifting do at each word size.   *)

\* The word sizes, and what they make of a half and a byte.
LEMMA WordCases ==
  \/ WORD_BITS = 4  /\ WORD = 16         /\ HALF = 4     /\ BYTE = 2
  \/ WORD_BITS = 8  /\ WORD = 256        /\ HALF = 16    /\ BYTE = 4
  \/ WORD_BITS = 16 /\ WORD = 2 ^ 16      /\ HALF = 256   /\ BYTE = 16
  \/ WORD_BITS = 32 /\ WORD = 2 ^ 32 /\ HALF = 2 ^ 16 /\ BYTE = 256
<1>1. WORD_BITS = 4 => WORD = 16 /\ HALF = 4 /\ BYTE = 2 BY DEF WORD, HALF, BYTE
<1>2. WORD_BITS = 8 => WORD = 256 /\ HALF = 16 /\ BYTE = 4 BY DEF WORD, HALF, BYTE
<1>3. WORD_BITS = 16 => WORD = 2 ^ 16 /\ HALF = 256 /\ BYTE = 16 BY DEF WORD, HALF, BYTE
<1>4. WORD_BITS = 32 => WORD = 2 ^ 32 /\ HALF = 2 ^ 16 /\ BYTE = 256 BY DEF WORD, HALF, BYTE
<1> QED BY <1>1, <1>2, <1>3, <1>4, WordAssumption

\* What the arithmetic of words needs of their size.
LEMMA WordTypes ==
  /\ WORD \in Nat \ {0} /\ BYTE \in Nat \ {0} /\ HALF \in Nat \ {0} /\ WORD_BITS \in Nat \ {0}
  /\ WORD % 2 = 0 /\ WORD % 4 = 0 /\ WORD >= 16
BY WordCases

\* A number cut to a word is a word.
LEMMA WordIn == \A x \in Int : word(x) \in Words /\ word(x) \in Nat
BY WordTypes DEF word, Words

\* A word cut to a word is itself.
LEMMA WordSame == \A x \in Words : word(x) = x /\ x \in Nat /\ x < WORD
BY WordTypes DEF word, Words

\* The signed reading of a number is an integer.
LEMMA SignedIn == \A x \in Int : to_signed(x) \in Int
BY WordCases DEF word, to_signed

\* Reading a word as signed does not change it as a word.
LEMMA SignedSame == \A x \in Int : word(to_signed(x)) = word(x)
<1>1. CASE WORD = 16 BY <1>1 DEF word, to_signed
<1>2. CASE WORD = 256 BY <1>2 DEF word, to_signed
<1>3. CASE WORD = 2 ^ 16 BY <1>3 DEF word, to_signed
<1>4. CASE WORD = 2 ^ 32 BY <1>4 DEF word, to_signed
<1> QED BY <1>1, <1>2, <1>3, <1>4, WordCases

\* A summand may be cut to a word before the sum is.
LEMMA WordPlusWord == \A x, y \in Int : word(x + word(y)) = word(x + y)
<1>1. CASE WORD = 16 BY <1>1 DEF word
<1>2. CASE WORD = 256 BY <1>2 DEF word
<1>3. CASE WORD = 2 ^ 16 BY <1>3 DEF word
<1>4. CASE WORD = 2 ^ 32 BY <1>4 DEF word
<1> QED BY <1>1, <1>2, <1>3, <1>4, WordCases

\* The sum of two numbers, cut to a word, does not depend on how either was read.
LEMMA WordOfSum ==
  \A x, y \in Int : /\ word(to_signed(x) + y) = word(x + y)
                    /\ word(x + word(y)) = word(x + y)
                    /\ word(word(x) + y) = word(x + y)
<1> SUFFICES ASSUME NEW x \in Int, NEW y \in Int
             PROVE  /\ word(to_signed(x) + y) = word(x + y)
                    /\ word(word(x) + y) = word(x + y)
  BY WordPlusWord
<1>1. to_signed(x) \in Int /\ word(x) \in Int BY SignedIn, WordIn
<1>2. word(word(x) + y) = word(x + y)
  <2>1. word(y + word(x)) = word(y + x) BY WordPlusWord
  <2>2. y + word(x) = word(x) + y /\ y + x = x + y BY <1>1
  <2> QED BY <2>1, <2>2
<1>3. word(to_signed(x) + y) = word(x + y)
  <2>1. word(y + word(to_signed(x))) = word(y + to_signed(x)) BY <1>1, WordPlusWord
  <2>2. word(to_signed(x)) = word(x) BY SignedSame
  <2>3. word(y + word(x)) = word(y + x) BY WordPlusWord
  <2>4. y + to_signed(x) = to_signed(x) + y /\ y + x = x + y BY <1>1
  <2> QED BY <2>1, <2>2, <2>3, <2>4
<1> QED BY <1>2, <1>3

\* The adder's form of the same: base register and immediate, both read as signed.
LEMMA SignedAddWords ==
  \A x, y \in Int : word(to_signed(x) + to_signed(word(y))) = word(to_signed(x) + y)
<1> SUFFICES ASSUME NEW x \in Int, NEW y \in Int
             PROVE  word(to_signed(x) + to_signed(word(y))) = word(to_signed(x) + y)
  OBVIOUS
<1>1. to_signed(x) \in Int /\ to_signed(word(y)) \in Int /\ word(y) \in Int BY SignedIn, WordIn
<1>2. word(to_signed(word(y)) + to_signed(x)) = word(word(y) + to_signed(x)) BY <1>1, WordOfSum
<1>3. word(word(y) + to_signed(x)) = word(y + to_signed(x)) BY <1>1, WordOfSum
<1> QED BY <1>1, <1>2, <1>3

\* An immediate survives its way through a word.
LEMMA SignedOfWord == \A y \in Immediates : to_signed(word(y)) = y
<1>1. CASE WORD = 16 BY <1>1 DEF word, to_signed, Immediates
<1>2. CASE WORD = 256 BY <1>2 DEF word, to_signed, Immediates
<1>3. CASE WORD = 2 ^ 16 BY <1>3 DEF word, to_signed, Immediates
<1>4. CASE WORD = 2 ^ 32 BY <1>4 DEF word, to_signed, Immediates
<1> QED BY <1>1, <1>2, <1>3, <1>4, WordCases

\* Two words that read the same as signed are the same: beq compares either way.
LEMMA SignedInjective == \A x, y \in Words : to_signed(x) = to_signed(y) => x = y
BY WordTypes, WordCases DEF word, to_signed, Words

\* JALR clears the lowest bit before or after the sum is cut to a word.
LEMMA WordEven == \A t \in Int : word(t) - (word(t) % 2) = word(t - (t % 2))
<1>1. CASE WORD = 16 BY <1>1 DEF word
<1>2. CASE WORD = 256 BY <1>2 DEF word
<1>3. CASE WORD = 2 ^ 16 BY <1>3 DEF word
<1>4. CASE WORD = 2 ^ 32 BY <1>4 DEF word
<1> QED BY <1>1, <1>2, <1>3, <1>4, WordCases

\* The shift amount of a word, and of an immediate the decoder has cut to one.
LEMMA Shift ==
  \A x \in Int : /\ shamt(x) \in 0..WORD_BITS - 1 /\ shamt(x) \in Words
                 /\ word(shamt(x)) = shamt(x) /\ shamt(shamt(x)) = shamt(x)
<1>1. CASE WORD = 16 /\ WORD_BITS = 4 BY <1>1 DEF word, shamt, Words
<1>2. CASE WORD = 256 /\ WORD_BITS = 8 BY <1>2 DEF word, shamt, Words
<1>3. CASE WORD = 2 ^ 16 /\ WORD_BITS = 16 BY <1>3 DEF word, shamt, Words
<1>4. CASE WORD = 2 ^ 32 /\ WORD_BITS = 32 BY <1>4 DEF word, shamt, Words
<1> QED BY <1>1, <1>2, <1>3, <1>4, WordCases

\* What lb and lh extend is a word.
LEMMA SignExtendIn == \A x, y \in Int : y > 0 => signExtend(x, y) \in Words
<1> SUFFICES ASSUME NEW x \in Int, NEW y \in Int, y > 0 PROVE signExtend(x, y) \in Words
  OBVIOUS
<1>1. x % y \in Int OBVIOUS
<1>2. (IF x % y >= y \div 2 THEN (x % y) - y ELSE x % y) \in Int BY <1>1
<1> QED BY <1>2, WordIn DEF signExtend

-----------------------------------------------------------------------------
(* The run, step by step.                                                   *)

\* The types of a run's states.
LEMMA RunTypes ==
  ASSUME NEW T, RunOf(T), NEW k \in 0..retired
  PROVE  /\ T.pc[k] \in Words /\ T.acc[k] \in Nat
         /\ T.regs[k] \in [Regs -> Words] /\ T.regs[k][0] = 0
         /\ T.mem[k] \in [Bytes -> 0..BYTE - 1]
BY DEF RunOf

\* Every step of a run executes the word at its pc.
LEMMA RunSteps ==
  ASSUME NEW T, RunOf(T), NEW k \in 0..retired - 1
  PROVE  Executes(T, k) /\ retired \in Nat /\ k \in 0..retired /\ k + 1 \in 0..retired
<1>1. retired \in Nat BY DEF RunOf
<1>2. Executes(T, k) BY DEF RunOf
<1> QED BY <1>1, <1>2

\* A step of a run changes at most the register its word writes.
LEMMA RegStep ==
  ASSUME NEW T, RunOf(T), NEW k \in 0..retired - 1, NEW r \in Regs
  PROVE  T.regs[k + 1][r] = IF W(T, k).op \in RegWriters /\ W(T, k).rd # 0 /\ W(T, k).rd = r
                            THEN LoadValue(T, k) ELSE T.regs[k][r]
<1>1. k \in 0..retired BY RunSteps
<1>2. T.regs[k] \in [Regs -> Words] BY <1>1, RunTypes
<1>3. T.regs[k + 1] = NextRegs(W(T, k), T.pc[k], T.regs[k], T.mem[k]) BY RunSteps DEF Executes
<1> QED BY <1>2, <1>3 DEF NextRegs, LoadValue

\* A step that is neither a load nor a store leaves memory and accesses alone.
LEMMA MemStep ==
  ASSUME NEW T, RunOf(T), NEW k \in 0..retired - 1, W(T, k).op \notin MemOps
  PROVE  T.mem[k + 1] = T.mem[k] /\ T.acc[k + 1] = T.acc[k]
<1>1. k \in 0..retired BY RunSteps
<1>2. T.acc[k] \in Nat BY <1>1, RunTypes
<1> QED BY <1>2, RunSteps DEF Executes, NextMem, MemOps

-----------------------------------------------------------------------------
(* The pipeline on a run: write-back, memory stage, forwarding, EX.         *)

\* A state in which a program runs and is not over.
Checking(T) == RunOf(T) /\ PipelineOK(T) /\ n < retired

\* The counts of the instructions before each stage, which everything below adds up with.
LEMMA Counts ==
  ASSUME NEW T, Checking(T)
  PROVE  /\ retired \in Nat /\ n \in Nat /\ n < retired
         /\ one(wb) \in 0..1 /\ one(em) \in 0..1 /\ one(ex) \in 0..1 /\ one(id) \in 0..1
         /\ iW \in n..n + 1 /\ iM \in iW..iW + 1 /\ iX \in iM..iM + 1 /\ iD \in iX..iX + 1
         /\ (wb.valid => iW = n + 1) /\ (~wb.valid => iW = n)
         /\ (em.valid => iM = iW + 1) /\ (~em.valid => iM = iW)
         /\ (ex.valid => iX = iM + 1) /\ (~ex.valid => iX = iM)
         /\ (id.valid => iD = iX + 1) /\ (~id.valid => iD = iX)
<1>1. retired \in Nat /\ n \in Nat /\ n < retired BY DEF Checking, RunOf, PipelineOK
<1> QED BY <1>1 DEF iW, iM, iX, iD, one

\* What write-back writes is what the run's instruction computes.
LEMMA WbSource ==
  ASSUME NEW T, Checking(T), wb.valid, reg_write(wb)
  PROVE  wb_src = LoadValue(T, n)
<1>1. WbOK(T) BY DEF Checking, PipelineOK
<1>2. iW <= retired BY Counts
<1>3. Is(wb, T, n) /\ wb.alu_result = Res(T, n) /\ (mem_read(wb) => wb.read_data = LoadValue(T, n))
  BY <1>1, <1>2 DEF WbOK
<1> QED BY <1>3 DEF wb_src, fromStage, LoadValue, Value, Is, Res, mem_read, Jumps,
                    I_TYPE_3, J_TYPE, I_TYPE_2, U_TYPE_1

\* After the falling edge the register file is the run's, past the instruction in write-back.
LEMMA FileWritten ==
  ASSUME NEW T, Checking(T)
  PROVE  file_written = T.regs[iW]
<1>1. file = T.regs[n] BY DEF Checking, PipelineOK
<1>2. CASE ~wb.valid BY <1>1, <1>2, Counts DEF file_written, reg_write
<1>3. CASE wb.valid
  <2>1. n \in 0..retired - 1 /\ iW = n + 1 /\ iW <= retired BY <1>3, Counts
  <2>2. WbOK(T) BY DEF Checking, PipelineOK
  <2>3. wb.word = W(T, n) BY <1>3, <2>1, <2>2 DEF WbOK, Is
  <2>4. RunOf(T) BY DEF Checking
  <2>5. T.regs[n + 1] = NextRegs(W(T, n), T.pc[n], T.regs[n], T.mem[n])
    BY <2>1, <2>4, RunSteps DEF Executes
  <2>6. reg_write(wb) <=> W(T, n).op \in RegWriters
    BY <1>3, <2>3 DEF reg_write, RegWriters
  <2>7. reg_write(wb) => wb_src = LoadValue(T, n) BY <1>3, WbSource
  <2> QED BY <1>1, <2>1, <2>3, <2>5, <2>6, <2>7 DEF file_written, NextRegs, LoadValue
<1> QED BY <1>2, <1>3

\* A register that an instruction does not write keeps its value.
LEMMA NotWritten ==
  ASSUME NEW T, RunOf(T), NEW k \in 0..retired - 1, NEW r \in Regs,
         NEW s, s.valid, s.word = W(T, k), ~writes(s, r)
  PROVE  T.regs[k + 1][r] = T.regs[k][r]
BY RegStep DEF writes, reg_write, RegWriters

\* A register that an instruction writes has its value in the run's next state.
LEMMA IsWritten ==
  ASSUME NEW T, RunOf(T), NEW k \in 0..retired - 1, NEW r \in Regs,
         NEW s, s.word = W(T, k), writes(s, r)
  PROVE  T.regs[k + 1][r] = LoadValue(T, k)
BY RegStep DEF writes, reg_write, RegWriters

\* An access is of a byte, a half or a word.
LEMMA SizeType == \A op : size(op) \in {1, 2, 4}
BY DEF size

\* The address an access is made at is a word.
LEMMA ResultType ==
  ASSUME NEW T, RunOf(T), NEW k \in 0..retired - 1, W(T, k).op \in MemOps
  PROVE  Res(T, k) \in Words
<1>1. k \in 0..retired /\ InstructionOK(T, k) BY RunSteps DEF Executes
<1>2. T.regs[k] \in [Regs -> Words] BY <1>1, RunTypes
<1> DEFINE x == T.regs[k][W(T, k).rs1]
<1>3. x \in Words /\ W(T, k).imm \in Words BY <1>1, <1>2 DEF InstructionOK
<1>4. x \in Int /\ W(T, k).imm \in Int BY <1>3, WordSame
<1>5. to_signed(x) + to_signed(W(T, k).imm) \in Int BY <1>4, SignedIn
<1>6. Res(T, k) = word(to_signed(x) + to_signed(W(T, k).imm))
  BY DEF Res, Result, alu, MemOps, J_TYPE, U_TYPE_1, U_TYPE_2, R_TYPE, B_TYPE, I_TYPE_2, I_TYPE_3, S_TYPE
<1> QED BY <1>5, <1>6, WordIn

\* A memory instruction in EX/MEM is one of the run's, and its access is in memory.
LEMMA EmAccess ==
  ASSUME NEW T, Checking(T), mem_read(em) \/ mem_write(em)
  PROVE  /\ em.valid /\ iM - 1 \in 0..retired - 1 /\ iM - 1 = iW /\ iM <= retired
         /\ Is(em, T, iM - 1) /\ W(T, iM - 1).op \in MemOps
         /\ em.alu_result = Res(T, iM - 1) /\ em.r_data_2 = T.regs[iM - 1][em.word.rs2]
         /\ em.r_data_2 \in Words
         /\ InMemory(em.alu_result, size(em.word.op)) /\ em.alu_result \in Words
         /\ mem_write(em) <=> W(T, iM - 1).op \in S_TYPE
         /\ mem_read(em) <=> W(T, iM - 1).op \in I_TYPE_3
<1>1. em.valid /\ em.word.op \in MemOps BY DEF mem_read, mem_write, MemOps
<1>2. ~Inert(em) BY <1>1 DEF Inert
<1>3. iM # retired + 1 BY <1>1, <1>2 DEF Checking, PipelineOK, BeyondOK
<1>4. iM <= retired /\ iM - 1 \in 0..retired - 1 /\ iM - 1 = iW BY <1>1, <1>3, Counts
<1>5. EmOK(T) /\ RunOf(T) BY DEF Checking, PipelineOK
<1>6. /\ Is(em, T, iM - 1) /\ em.alu_result = Res(T, iM - 1)
      /\ em.r_data_2 = T.regs[iM - 1][em.word.rs2]
  BY <1>1, <1>4, <1>5 DEF EmOK
<1>7. em.word = W(T, iM - 1) BY <1>6 DEF Is
<1>8. Executes(T, iM - 1) /\ iM - 1 \in 0..retired BY <1>4, <1>5, RunSteps
<1>9. T.regs[iM - 1] \in [Regs -> Words] BY <1>5, <1>8, RunTypes
<1>10. em.r_data_2 \in Words BY <1>6, <1>7, <1>8, <1>9 DEF Executes, InstructionOK
<1>11. InMemory(em.alu_result, size(em.word.op))
  BY <1>1, <1>6, <1>7, <1>8 DEF Executes, AccessOK
<1>12. em.alu_result \in Words BY <1>1, <1>4, <1>5, <1>6, <1>7, ResultType
<1> QED BY <1>1, <1>4, <1>6, <1>7, <1>10, <1>11, <1>12 DEF mem_read, mem_write

\* The memory stage asks for memory exactly when its instruction loads or stores.
LEMMA EmRequest ==
  ASSUME NEW T, Checking(T)
  PROVE  /\ em_access # None <=> (mem_read(em) \/ mem_write(em))
         /\ em_access # None =>
              /\ em_access = [write |-> mem_write(em), addr |-> em.alu_result,
                             data |-> em.r_data_2, size |-> size(em.word.op)]
              /\ em_access \in Access /\ em_access.addr \notin IoPage
<1>1. CASE ~(mem_read(em) \/ mem_write(em)) BY <1>1 DEF em_access
<1>2. CASE mem_read(em) \/ mem_write(em)
  <2> DEFINE a == [write |-> mem_write(em), addr |-> em.alu_result,
                   data |-> em.r_data_2, size |-> size(em.word.op)]
  <2>1. em_access = a BY <1>2 DEF em_access
  <2>2. em.alu_result \in Words /\ em.r_data_2 \in Words /\ em.alu_result \notin IoPage
    BY <1>2, EmAccess DEF InMemory
  <2>3. mem_write(em) \in BOOLEAN BY <1>2, EmAccess DEF mem_write
  <2>4. a \in Access BY <2>2, <2>3, SizeType DEF Access
  <2>5. a # None BY <2>4, PipelineAssumption
  <2> QED BY <1>2, <2>1, <2>2, <2>4, <2>5
<1> QED BY <1>1, <1>2

\* The pipeline is stalled exactly while an access is not answered.
LEMMA Stall ==
  ASSUME NEW T, Checking(T)
  PROVE  /\ req_stall <=> em_access # None /\ ~Answered
         /\ mem_advance <=> ~req_stall
         /\ Answered <=> LSU!cache_responded(cpu_data_out, io_ack)
         /\ Answered => em_access # None /\ ~wb.valid
         /\ lsu_state \in {"IDLE", "RESP_WAITING"}
<1>1. PortOK(T) BY DEF Checking, PipelineOK
<1>2. IoQuiet /\ (Quiet \/ (em_access # None /\ ~wb.valid /\ (Asked \/ Working \/ Answered)))
  BY <1>1 DEF PortOK
<1>3. Answered <=> LSU!cache_responded(cpu_data_out, io_ack)
  BY <1>2 DEF IoQuiet, Quiet, Asked, Working, Answered, LSU!cache_responded, LSU!resp
<1>4. Answered => em_access # None /\ ~wb.valid
  BY <1>2 DEF Quiet, Answered
<1>5. lsu_state \in {"IDLE", "RESP_WAITING"} BY <1>2 DEF Quiet, Asked, Working, Answered
<1>6. req_stall <=> em_access # None /\ ~Answered BY <1>3, <1>5 DEF req_stall, LSU!req_stall
<1> QED BY <1>3, <1>4, <1>5, <1>6 DEF mem_advance

\* What EX/MEM hands on once the pipeline moves is what the run has.
LEMMA EmData ==
  ASSUME NEW T, Checking(T), ~req_stall, mem_read(em)
  PROVE  be_data_out = LoadValue(T, iM - 1)
<1>1. em_access # None /\ Answered BY EmRequest, Stall
<1>2. cpu_data_out = [data |-> loadedFrom(T.mem[iM - 1], em.alu_result, size(em.word.op))]
  BY <1>1 DEF Checking, PipelineOK, PortOK
<1>3. LSU!be_cache_in(cpu_data_out, io_ack) = cpu_data_out
  <2>1. io_access_r = FALSE BY DEF Checking, PipelineOK, PortOK, IoQuiet
  <2> QED BY <1>1, <2>1, Stall DEF LSU!be_cache_in, LSU!resp
<1>4. lsu_data_out = loadedFrom(T.mem[iM - 1], em.alu_result, size(em.word.op))
  BY <1>1, <1>2, <1>3 DEF lsu_data_out, Answered
<1>5. em.word = W(T, iM - 1) /\ em.alu_result = Res(T, iM - 1) /\ em.word.op \in I_TYPE_3
  BY EmAccess DEF Is, mem_read
<1>6. LoadValue(T, iM - 1) = extended(em.word.op, lsu_data_out)
  BY <1>4, <1>5 DEF LoadValue, Value, Res, Jumps, J_TYPE, I_TYPE_2, I_TYPE_3, U_TYPE_1
<1>7. be_data_out = extended(em.word.op, lsu_data_out) BY DEF be_data_out, extended
<1> QED BY <1>6, <1>7

\* What is forwarded from the memory stage is what the run's instruction computes.
LEMMA EmSource ==
  ASSUME NEW T, Checking(T), reg_write(em), iM <= retired, ~mem_read(em) \/ ~req_stall
  PROVE  em_src = LoadValue(T, iM - 1)
<1>1. em.valid BY DEF reg_write
<1>2. Is(em, T, iM - 1) /\ em.alu_result = Res(T, iM - 1)
  BY <1>1 DEF Checking, PipelineOK, EmOK
<1>3. CASE mem_read(em)
  <2>1. em_src = be_data_out BY <1>3 DEF em_src, fromStage, mem_read, J_TYPE, I_TYPE_2, I_TYPE_3, U_TYPE_1
  <2> QED BY <1>3, <2>1, EmData
<1>4. CASE ~mem_read(em)
  <2>1. em.word.op \notin I_TYPE_3 BY <1>1, <1>4 DEF mem_read
  <2> QED BY <1>2, <2>1 DEF em_src, fromStage, LoadValue, Value, Is, Res, Jumps,
                            J_TYPE, I_TYPE_2, U_TYPE_1
<1> QED BY <1>3, <1>4

\* What is forwarded from write-back is the register's value below the memory stage.
LEMMA WbOperand ==
  ASSUME NEW T, Checking(T), NEW r \in Regs
  PROVE  /\ writes(wb, r) => wb_src = T.regs[iW][r]
         /\ ~writes(em, r) /\ iM <= retired => T.regs[iM][r] = T.regs[iW][r]
<1>1. RunOf(T) /\ WbOK(T) /\ EmOK(T) BY DEF Checking, PipelineOK
<1>2. ASSUME writes(wb, r) PROVE wb_src = T.regs[iW][r]
  <2>1. wb.valid /\ reg_write(wb) BY <1>2 DEF writes, reg_write
  <2>2. n \in 0..retired - 1 /\ iW = n + 1 /\ iW <= retired BY <2>1, Counts
  <2>3. wb.word = W(T, n) BY <1>1, <2>1, <2>2 DEF WbOK, Is
  <2>4. wb_src = LoadValue(T, n) BY <2>1, WbSource
  <2>5. T.regs[n + 1][r] = LoadValue(T, n) BY <1>1, <1>2, <2>2, <2>3, IsWritten
  <2> QED BY <2>2, <2>4, <2>5
<1>3. ASSUME ~writes(em, r), iM <= retired PROVE T.regs[iM][r] = T.regs[iW][r]
  <2>1. CASE ~em.valid BY <2>1, Counts
  <2>2. CASE em.valid
    <3>1. iW \in 0..retired - 1 /\ iM = iW + 1 /\ iM - 1 = iW BY <1>3, <2>2, Counts
    <3>2. em.word = W(T, iW) BY <1>1, <1>3, <2>2, <3>1 DEF EmOK, Is
    <3>3. T.regs[iW + 1][r] = T.regs[iW][r] BY <1>1, <1>3, <2>2, <3>1, <3>2, NotWritten
    <3> QED BY <3>1, <3>3
  <2> QED BY <2>1, <2>2
<1> QED BY <1>2, <1>3

\* Forwarding gives an instruction in EX the registers of the run.
LEMMA Forwarded ==
  ASSUME NEW T, Checking(T), ex.valid, iX <= retired,
         NEW r \in Regs, NEW value, Operand(T, r, value)
  PROVE  forwarded(r, value) = T.regs[iX - 1][r]
<1>1. iX - 1 = iM /\ iM <= retired BY Counts
<1>2. RunOf(T) /\ EmOK(T) BY DEF Checking, PipelineOK
<1>3. CASE writes(em, r)
  <2>1. ~mem_read(em) BY <1>3 DEF Operand
  <2>2. em.valid /\ reg_write(em) BY <1>3 DEF writes, reg_write
  <2>3. iM - 1 \in 0..retired - 1 /\ iM - 1 + 1 = iM BY <1>1, <2>2, Counts
  <2>4. em.word = W(T, iM - 1) BY <1>1, <1>2, <2>2 DEF EmOK, Is
  <2>5. T.regs[iM - 1 + 1][r] = LoadValue(T, iM - 1) BY <1>2, <1>3, <2>3, <2>4, IsWritten
  <2>6. em_src = LoadValue(T, iM - 1) BY <1>1, <2>1, <2>2, EmSource
  <2> QED BY <1>1, <1>3, <2>3, <2>5, <2>6 DEF forwarded
<1>4. CASE ~writes(em, r) /\ writes(wb, r)
  <2>1. wb_src = T.regs[iM][r] BY <1>1, <1>4, WbOperand
  <2> QED BY <1>1, <1>4, <2>1 DEF forwarded
<1>5. CASE ~writes(em, r) /\ ~writes(wb, r) BY <1>1, <1>5 DEF forwarded, Operand
<1> QED BY <1>3, <1>4, <1>5

\* The instruction in EX is the run's, with its state before it.
LEMMA ExIs ==
  ASSUME NEW T, Checking(T), ex.valid, iX <= retired
  PROVE  /\ iX - 1 \in 0..retired - 1 /\ iX - 1 = iM /\ iX - 1 + 1 = iX
         /\ ex.word = W(T, iX - 1) /\ ex.pc = T.pc[iX - 1]
         /\ InstructionOK(T, iX - 1) /\ ex.pc \in Words
         /\ T.regs[iX - 1] \in [Regs -> Words]
         /\ Operand(T, ex.word.rs1, ex.rd_1) /\ Operand(T, ex.word.rs2, ex.rd_2)
         /\ ex.predicted => ex.word.op \in B_TYPE
         /\ T.pc[iX] = NextPc(ex.word, ex.pc, T.regs[iX - 1])
<1>1. RunOf(T) /\ ExOK(T) BY DEF Checking, PipelineOK
<1>2. iX - 1 \in 0..retired - 1 /\ iX - 1 = iM /\ iX - 1 + 1 = iX BY Counts
<1>3. Executes(T, iX - 1) /\ iX - 1 \in 0..retired BY <1>1, <1>2, RunSteps
<1>4. ex.word = W(T, iX - 1) /\ ex.pc = T.pc[iX - 1] BY <1>1 DEF ExOK, Is
<1>5. T.pc[iX - 1] \in Words /\ T.regs[iX - 1] \in [Regs -> Words] BY <1>1, <1>3, RunTypes
<1>6. Operand(T, ex.word.rs1, ex.rd_1) /\ Operand(T, ex.word.rs2, ex.rd_2)
      /\ (ex.predicted => ex.word.op \in B_TYPE)
  BY <1>1 DEF ExOK
<1> QED BY <1>2, <1>3, <1>4, <1>5, <1>6 DEF Executes

\* The operands forwarded to EX, and the ALU's result, are the run's.
LEMMA AluResult ==
  ASSUME NEW T, Checking(T), ex.valid, iX <= retired
  PROVE  /\ rd_1_fwd = T.regs[iX - 1][ex.word.rs1] /\ rd_2_fwd = T.regs[iX - 1][ex.word.rs2]
         /\ alu_result = Res(T, iX - 1)
<1>1. ex.word = W(T, iX - 1) /\ ex.pc = T.pc[iX - 1] /\ InstructionOK(T, iX - 1) BY ExIs
<1>2. ex.word.rs1 \in Regs /\ ex.word.rs2 \in Regs BY <1>1 DEF InstructionOK
<1>3. rd_1_fwd = T.regs[iX - 1][ex.word.rs1] BY <1>2, ExIs, Forwarded DEF rd_1_fwd
<1>4. rd_2_fwd = T.regs[iX - 1][ex.word.rs2] BY <1>2, ExIs, Forwarded DEF rd_2_fwd
<1>5. alu_result = Res(T, iX - 1)
  BY <1>1, <1>3, <1>4 DEF alu_result, Res, Result, alu_src_pc, alu_src_imm
<1> QED BY <1>3, <1>4, <1>5

\* The core leaves the fetched path exactly when the run does, and for the run's pc.
LEMMA Redirect ==
  ASSUME NEW T, Checking(T), ex.valid, iX <= retired
  PROVE  /\ redirect <=> exPending(T)
         /\ \A taken, target : redirect => pc_next(taken, target) = T.pc[iX]
         /\ branch_taken => /\ ex.word.op \in B_TYPE
                            /\ branch_target_actual = word(ex.pc + ex.word.imm)
<1>1. alu_result = Res(T, iX - 1) BY AluResult
<1>2. /\ ex.word = W(T, iX - 1) /\ ex.pc = T.pc[iX - 1]
      /\ T.pc[iX] = NextPc(ex.word, ex.pc, T.regs[iX - 1])
  BY ExIs
<1>3. exPending(T) <=> Pending(T, iX - 1, ex.predicted) BY DEF exPending
<1>4. jump(ex) <=> W(T, iX - 1).op \in Jumps BY <1>2 DEF jump, Jumps
<1>5. branch(ex) <=> W(T, iX - 1).op \in B_TYPE BY <1>2 DEF branch
<1>6. redirect <=> exPending(T)
  BY <1>1, <1>3, <1>4, <1>5 DEF redirect, prediction_miss, Pending
<1>7. jump(ex) => ~branch(ex) BY DEF jump, branch, J_TYPE, I_TYPE_2, B_TYPE
<1>8. jump(ex) => T.pc[iX] = alu_result /\ ~prediction_miss
  BY <1>1, <1>2, <1>4, <1>7 DEF NextPc, Res, prediction_miss
<1>9. branch(ex) => T.pc[iX] = branch_target_actual /\ (branch_taken <=> alu_result % 2 = 1)
  BY <1>1, <1>2, <1>4, <1>5, <1>7 DEF NextPc, Res, branch_target_actual, branch_taken
<1>10. ASSUME NEW taken, NEW target, redirect PROVE pc_next(taken, target) = T.pc[iX]
  <2>1. CASE prediction_miss BY <2>1, <1>9 DEF pc_next, prediction_miss
  <2>2. CASE ~prediction_miss
    <3>1. jump(ex) BY <1>10, <2>2 DEF redirect
    <3> QED BY <2>2, <3>1, <1>8 DEF pc_next
  <2> QED BY <2>1, <2>2
<1>11. branch_taken => /\ ex.word.op \in B_TYPE
                       /\ branch_target_actual = word(ex.pc + ex.word.imm)
  BY DEF branch_taken, branch, branch_target_actual
<1> QED BY <1>6, <1>10, <1>11

\* A bubble in EX neither jumps nor branches.
LEMMA NoRedirect ==
  ASSUME NEW T, ~ex.valid
  PROVE  ~redirect /\ ~exPending(T) /\ ~branch_taken /\ ~prediction_miss /\ ~jump(ex) /\ ~mem_read(ex)
BY DEF redirect, exPending, branch_taken, prediction_miss, jump, branch, mem_read

-----------------------------------------------------------------------------
(* A period of the clock: what moves, in a stall and in an advance.         *)

\* What a period of the clock is made of, and what it leaves alone.
LEMMA ClockFrame ==
  ASSUME Clock
  PROVE  /\ PipelineClock(imem) /\ PortsClock /\ Compare
         /\ program' = program /\ imem' = imem /\ retired' = retired
         /\ expected_accesses' = expected_accesses /\ phase' = phase
         /\ accesses' = IF Len(accesses) <= Len(expected_accesses) THEN accesses \o Taken ELSE accesses
         /\ pc' = pc /\ register_file' = register_file /\ data_mem' = data_mem
         /\ phase = "running"
BY DEF Clock

\* Every comparison succeeds, and the count of instructions that have retired moves on.
LEMMA CompareStep ==
  ASSUME NEW T, Checking(T), QueuesAre(T), Clock
  PROVE  error' = error /\ n' = iW /\ QueuesAre(T)'
<1>1. RunOf(T) /\ WbOK(T) BY DEF Checking, PipelineOK
<1>2. retired' = retired /\ Compare BY ClockFrame
<1>3. /\ golden_pc_queue \in Seq(Words) /\ golden_reg_queue \in Seq([Regs -> Words])
      /\ Len(golden_pc_queue) = retired - n /\ Len(golden_reg_queue) = retired - n
      /\ \A j \in 1..retired - n : /\ golden_pc_queue[j] = T.pc[n + j - 1]
                                   /\ golden_reg_queue[j] = T.regs[n + j]
  BY DEF QueuesAre, n
<1>4. golden_pc_queue # <<>> /\ golden_reg_queue # <<>> BY <1>3, Counts
<1>5. CASE ~wb.valid
  <2>1. /\ error' = error /\ transactions_checked' = transactions_checked
        /\ golden_pc_queue' = golden_pc_queue /\ golden_reg_queue' = golden_reg_queue
    BY <1>2, <1>4, <1>5 DEF Compare, monitored
  <2> QED BY <1>2, <1>3, <1>5, <2>1, Counts DEF QueuesAre, n
<1>6. CASE wb.valid
  <2>1. /\ error' = IF sample.pc = Head(golden_pc_queue) /\ sample.regs = Head(golden_reg_queue)
                    THEN error ELSE error + 1
        /\ transactions_checked' = transactions_checked + 1
        /\ golden_pc_queue' = Tail(golden_pc_queue)
        /\ golden_reg_queue' = Tail(golden_reg_queue)
    BY <1>2, <1>4, <1>6 DEF Compare, monitored
  <2>2. n \in 0..retired - 1 /\ iW = n + 1 /\ iW <= retired BY <1>6, Counts
  <2>3. wb.pc = T.pc[n] BY <1>1, <1>6, <2>2 DEF WbOK, Is
  <2>4. Head(golden_pc_queue) = T.pc[n] BY <1>3, <1>4, <2>2
  <2>5. Head(golden_reg_queue) = T.regs[iW] BY <1>3, <1>4, <2>2
  <2>6. error' = error BY <2>1, <2>3, <2>4, <2>5, FileWritten DEF sample
  <2>7. n' = n + 1 BY <2>1 DEF n
  <2>8. /\ golden_pc_queue' \in Seq(Words) /\ Len(golden_pc_queue') = retired - (n + 1)
        /\ \A j \in 1..retired - (n + 1) : golden_pc_queue'[j] = T.pc[n + 1 + j - 1]
    <3>1. /\ Tail(golden_pc_queue) \in Seq(Words) /\ Len(Tail(golden_pc_queue)) = retired - n - 1
          /\ \A j \in 1..retired - n - 1 : Tail(golden_pc_queue)[j] = golden_pc_queue[j + 1]
      BY <1>3, <1>4, <2>2
    <3>2. \A j \in 1..retired - (n + 1) : /\ j \in 1..retired - n - 1 /\ j + 1 \in 1..retired - n
                                          /\ n + (j + 1) - 1 = n + 1 + j - 1
      BY <2>2, Counts
    <3>3. \A j \in 1..retired - (n + 1) : golden_pc_queue[j + 1] = T.pc[n + 1 + j - 1]
      BY <1>3, <3>2
    <3>4. retired - n - 1 = retired - (n + 1) BY <2>2, Counts
    <3> QED BY <2>1, <3>1, <3>2, <3>3, <3>4
  <2>9. /\ golden_reg_queue' \in Seq([Regs -> Words]) /\ Len(golden_reg_queue') = retired - (n + 1)
        /\ \A j \in 1..retired - (n + 1) : golden_reg_queue'[j] = T.regs[n + 1 + j]
    <3>1. /\ Tail(golden_reg_queue) \in Seq([Regs -> Words])
          /\ Len(Tail(golden_reg_queue)) = retired - n - 1
          /\ \A j \in 1..retired - n - 1 : Tail(golden_reg_queue)[j] = golden_reg_queue[j + 1]
      BY <1>3, <1>4, <2>2
    <3>2. \A j \in 1..retired - (n + 1) : /\ j \in 1..retired - n - 1 /\ j + 1 \in 1..retired - n
                                          /\ n + (j + 1) = n + 1 + j
      BY <2>2, Counts
    <3>3. \A j \in 1..retired - (n + 1) : golden_reg_queue[j + 1] = T.regs[n + 1 + j]
      BY <1>3, <3>2
    <3>4. retired - n - 1 = retired - (n + 1) BY <2>2, Counts
    <3> QED BY <2>1, <3>1, <3>2, <3>3, <3>4
  <2> QED BY <1>2, <2>2, <2>6, <2>7, <2>8, <2>9 DEF QueuesAre, n
<1> QED BY <1>5, <1>6

\* A period in which an access waits: the older instructions move on, EX captures.
LEMMA StallStep ==
  ASSUME NEW T, Checking(T), Clock, req_stall
  PROVE  /\ wb' = WbBubble /\ em' = em /\ id' = id
         /\ ex' = [ex EXCEPT !.rd_1 = rd_1_fwd, !.rd_2 = rd_2_fwd]
<1>1. PICK taken \in BOOLEAN : /\ IF_ID(taken) /\ ID_EX /\ EX_MEM /\ MEM_WB
  BY ClockFrame DEF PipelineClock
<1>2. ~if_id_flush /\ pc_stall /\ ~id_ex_flush BY DEF if_id_flush, pc_stall, id_ex_flush
<1> QED BY <1>1, <1>2 DEF IF_ID, ID_EX, EX_MEM, MEM_WB

\* A period in which nothing waits: every stage takes over what is behind it.
LEMMA AdvanceStep ==
  ASSUME NEW T, Checking(T), Clock, ~req_stall
  PROVE  /\ wb' = [valid |-> em.valid, word |-> em.word, pc |-> em.pc,
                   alu_result |-> em.alu_result, read_data |-> be_data_out]
         /\ em' = [valid |-> ex.valid, word |-> ex.word, pc |-> ex.pc,
                   alu_result |-> alu_result, r_data_2 |-> rd_2_fwd]
         /\ ex' = IF redirect \/ lu_hazard THEN ExBubble
                  ELSE [valid |-> id.valid, word |-> id.word, pc |-> id.pc,
                        predicted |-> id.predicted,
                        rd_1 |-> read_data(id.word.rs1), rd_2 |-> read_data(id.word.rs2)]
<1>1. ID_EX /\ EX_MEM /\ MEM_WB BY ClockFrame DEF PipelineClock
<1>2. id_ex_flush <=> redirect \/ lu_hazard BY DEF id_ex_flush
<1> QED BY <1>1, <1>2 DEF ID_EX, EX_MEM, MEM_WB

\* Fetch and decode in a period of either kind.
LEMMA FetchStep ==
  ASSUME NEW T, Checking(T), Clock
  PROVE  \E taken \in BOOLEAN :
           /\ taken => btb_hit
           /\ file' = file_written
           /\ if_pc' = pc_next(taken, btb_target)
           /\ imem_data' = imem[(if_pc' \div 4) % IMEM_DEPTH]
           /\ output_valid' = (if_pc' \div 4 < IMEM_DEPTH)
           /\ ~req_stall /\ redirect => id' = [IdBubble EXCEPT !.pc = id.pc]
           /\ ~redirect /\ pc_stall => id' = id
           /\ ~redirect /\ ~pc_stall => id' = [valid |-> output_valid, word |-> imem_data,
                                               pc |-> if_pc, predicted |-> taken]
<1>1. PICK taken \in BOOLEAN : /\ taken => btb_hit
                               /\ file' = file_written
                               /\ Fetch(imem, taken) /\ IF_ID(taken)
  BY ClockFrame DEF PipelineClock
<1>2. if_id_flush <=> ~req_stall /\ redirect BY DEF if_id_flush
<1>3. /\ ~req_stall /\ redirect => id' = [IdBubble EXCEPT !.pc = id.pc]
      /\ ~redirect /\ pc_stall => id' = id
      /\ ~redirect /\ ~pc_stall => id' = [valid |-> output_valid, word |-> imem_data,
                                          pc |-> if_pc, predicted |-> taken]
  BY <1>1, <1>2 DEF IF_ID
<1>4. /\ if_pc' = pc_next(taken, btb_target)
      /\ imem_data' = imem[(if_pc' \div 4) % IMEM_DEPTH]
      /\ output_valid' = (if_pc' \div 4 < IMEM_DEPTH)
  BY <1>1 DEF Fetch
<1> QED BY <1>1, <1>3, <1>4

\* A step that leaves the program and the golden model's results alone.
SameRun == program' = program /\ retired' = retired /\ expected_accesses' = expected_accesses

\* Words, results and values of a run do not depend on the pipeline.
LEMMA RunFrame ==
  ASSUME NEW T, SameRun
  PROVE  /\ code' = code
         /\ \A k : W(T, k)' = W(T, k)
         /\ \A k : Res(T, k)' = Res(T, k)
         /\ \A k : LoadValue(T, k)' = LoadValue(T, k)
         /\ \A k, p : Pending(T, k, p)' <=> Pending(T, k, p)
<1>1. code' = code BY DEF SameRun, code
<1>2. \A k : W(T, k)' = W(T, k) BY <1>1 DEF W, WordAt
<1>3. \A k : Res(T, k)' = Res(T, k) BY <1>2 DEF Res
<1>4. \A k : LoadValue(T, k)' = LoadValue(T, k) BY <1>2 DEF LoadValue
<1>5. \A k, p : Pending(T, k, p)' <=> Pending(T, k, p) BY <1>2, <1>3 DEF Pending
<1> QED BY <1>1, <1>2, <1>3, <1>4, <1>5

\* A run stays one through such a step.
LEMMA RunStable ==
  ASSUME NEW T, SameRun, RunOf(T)
  PROVE  RunOf(T)'
<1>1. code' = code BY RunFrame
<1>2. \A k : W(T, k)' = W(T, k) BY RunFrame
<1>3. \A k : Res(T, k)' = Res(T, k) BY RunFrame
<1>4. \A k : Executes(T, k) => Executes(T, k)'
  <2> SUFFICES ASSUME NEW k, Executes(T, k) PROVE Executes(T, k)' OBVIOUS
  <2>1. W(T, k)' = W(T, k) /\ Res(T, k)' = Res(T, k) BY <1>2, <1>3
  <2>2. InstructionOK(T, k)' BY <1>1, <2>1 DEF Executes, InstructionOK
  <2>3. AccessOK(T, k)' BY <2>1 DEF Executes, AccessOK, SameRun
  <2> QED BY <2>1, <2>2, <2>3 DEF Executes
<1> QED BY <1>4 DEF RunOf, SameRun

\* A stall moves only write-back, and what is pending stays pending.
LEMMA StallCounts ==
  ASSUME NEW T, Checking(T), QueuesAre(T), Clock, req_stall
  PROVE  /\ n' = iW /\ iW' = iW /\ iM' = iM /\ iX' = iX /\ iD' = iD
         /\ ~wb'.valid /\ em' = em /\ id' = id
         /\ ex'.valid = ex.valid /\ ex'.word = ex.word /\ ex'.pc = ex.pc
         /\ ex'.predicted = ex.predicted
         /\ exPending(T)' <=> exPending(T)
         /\ idPending(T)' <=> idPending(T)
<1>1. n' = iW BY CompareStep
<1>2. /\ wb' = WbBubble /\ em' = em /\ id' = id
      /\ ex' = [ex EXCEPT !.rd_1 = rd_1_fwd, !.rd_2 = rd_2_fwd]
  BY StallStep
<1>3. ~wb'.valid BY <1>2 DEF WbBubble
<1>4. /\ ex'.valid = ex.valid /\ ex'.word = ex.word /\ ex'.pc = ex.pc
      /\ ex'.predicted = ex.predicted
  BY <1>2
<1>5. one(wb)' = 0 /\ one(em)' = one(em) /\ one(ex)' = one(ex) /\ one(id)' = one(id)
  BY <1>2, <1>3, <1>4 DEF one
<1>6. iW' = iW /\ iM' = iM /\ iX' = iX /\ iD' = iD
  BY <1>1, <1>5, Counts DEF iW, iM, iX, iD
<1>7. SameRun BY ClockFrame DEF SameRun
<1>8. \A k, p : Pending(T, k, p)' <=> Pending(T, k, p) BY <1>7, RunFrame
<1>9. exPending(T)' <=> exPending(T) BY <1>4, <1>6, <1>7, <1>8 DEF exPending, Pending, SameRun
<1>10. idPending(T)' <=> idPending(T) BY <1>2, <1>6, <1>7, <1>8 DEF idPending, Pending, SameRun
<1> QED BY <1>1, <1>2, <1>3, <1>4, <1>6, <1>9, <1>10

\* The register file and the instruction memory's output after a period.
LEMMA ClockFetch ==
  ASSUME NEW T, Checking(T), Clock
  PROVE  /\ file' = file_written
         /\ (imem_data = imem[(if_pc \div 4) % IMEM_DEPTH])'
         /\ (output_valid = (if_pc \div 4 < IMEM_DEPTH))'
<1>1. imem' = imem BY ClockFrame
<1> QED BY <1>1, FetchStep

\* A stall keeps every stage on the run: what is captured in EX is what was forwarded.
LEMMA StallStages ==
  ASSUME NEW T, Checking(T), QueuesAre(T), Clock, req_stall
  PROVE  WbOK(T)' /\ EmOK(T)' /\ ExOK(T)' /\ IdOK(T)' /\ FetchOK(T)' /\ BeyondOK(T)'
<1> USE Counts, StallCounts
<1>1. SameRun /\ retired' = retired BY ClockFrame DEF SameRun
<1>2. (\A k : W(T, k)' = W(T, k)) /\ (\A k : Res(T, k)' = Res(T, k)) BY <1>1, RunFrame
<1>3. EmOK(T) /\ ExOK(T) /\ IdOK(T) /\ FetchOK(T) /\ BeyondOK(T) BY DEF Checking, PipelineOK
<1>4. WbOK(T)' BY DEF WbOK
<1>5. EmOK(T)' BY <1>1, <1>2, <1>3 DEF EmOK, Is
<1>6. ExOK(T)'
  <2> SUFFICES ASSUME ex.valid, iX <= retired
               PROVE  /\ Is(ex, T, iX - 1)'
                      /\ ex'.predicted => ex'.word.op \in B_TYPE
                      /\ Operand(T, ex.word.rs1, ex.rd_1)' /\ Operand(T, ex.word.rs2, ex.rd_2)'
    BY <1>1 DEF ExOK
  <2>1. Is(ex, T, iX - 1)' BY <1>2, <1>3 DEF ExOK, Is
  <2>2. ex'.predicted => ex'.word.op \in B_TYPE BY <1>3 DEF ExOK
  <2>3. ex'.rd_1 = rd_1_fwd /\ ex'.rd_2 = rd_2_fwd
    <3>1. ex' = [ex EXCEPT !.rd_1 = rd_1_fwd, !.rd_2 = rd_2_fwd] BY StallStep
    <3> QED BY <3>1
  <2>4. rd_1_fwd = T.regs[iX - 1][ex.word.rs1] /\ rd_2_fwd = T.regs[iX - 1][ex.word.rs2]
    BY AluResult
  <2>5. \A r : writes(em, r)' <=> writes(em, r) BY DEF writes, reg_write
  <2>6. mem_read(em)' <=> mem_read(em) BY DEF mem_read
  <2>7. Operand(T, ex.word.rs1, ex.rd_1) /\ Operand(T, ex.word.rs2, ex.rd_2) BY <1>3 DEF ExOK
  <2>8. Operand(T, ex.word.rs1, ex.rd_1)' BY <2>3, <2>4, <2>5, <2>6, <2>7 DEF Operand
  <2>9. Operand(T, ex.word.rs2, ex.rd_2)' BY <2>3, <2>4, <2>5, <2>6, <2>7 DEF Operand
  <2> QED BY <2>1, <2>2, <2>8, <2>9
<1>7. IdOK(T)' BY <1>1, <1>2, <1>3 DEF IdOK, Is
<1>8. FetchOK(T)'
  <2> SUFFICES ASSUME iD <= retired, ~exPending(T), ~idPending(T)
               PROVE  if_pc' = if_pc
    BY <1>1, <1>3, ClockFetch DEF FetchOK
  <2>1. ~redirect
    <3>1. CASE ex.valid BY <3>1, Redirect
    <3>2. CASE ~ex.valid BY <3>2, NoRedirect
    <3> QED BY <3>1, <3>2
  <2>2. ~prediction_miss /\ ~jump(ex) /\ pc_stall BY <2>1 DEF redirect, pc_stall
  <2> QED BY <2>2, FetchStep DEF pc_next
<1>9. BeyondOK(T)' BY <1>1, <1>3 DEF BeyondOK, Inert
<1> QED BY <1>4, <1>5, <1>6, <1>7, <1>8, <1>9

\* The index the target buffer picks is one of those that match.
LEMMA MaxIn ==
  ASSUME NEW N \in Nat, NEW S, S \subseteq 0..N, S # {}
  PROVE  Max(S) \in S
<1> DEFINE D == {N - x : x \in S}
           R == {p \in Nat \X Nat : p[1] < p[2]}
<1>1. IsWellFoundedOn(OpToRel(<, Nat), Nat) BY NatLessThanWellFounded
<1>2. D \subseteq Nat /\ D # {}
  <2>1. \A x \in S : x \in 0..N OBVIOUS
  <2>2. \A x \in 0..N : N - x \in Nat OBVIOUS
  <2>3. D \subseteq Nat BY <2>1, <2>2
  <2>4. PICK x : x \in S OBVIOUS
  <2>5. N - x \in D BY <2>4
  <2> QED BY <2>3, <2>5
<1>3. OpToRel(<, Nat) = R BY DEF OpToRel
<1>4. \E d \in D : \A e \in D : ~ (<<e, d>> \in R)
  <2> HIDE DEF D, R
  <2> QED BY <1>1, <1>2, <1>3, WFMin
<1>5. PICK d \in D : \A e \in D : ~ (<<e, d>> \in R) BY <1>4
<1>6. PICK x \in S : d = N - x BY <1>5
<1>7. \A y \in S : x >= y
  <2> SUFFICES ASSUME NEW y \in S PROVE x >= y OBVIOUS
  <2>1. N - y \in D /\ N - y \in Nat /\ d \in Nat BY <1>2
  <2>2. ~(N - y < d) BY <2>1, <1>5
  <2> QED BY <1>6, <2>2
<1> QED BY <1>6, <1>7 DEF Max

\* The instruction memory has the program, then zero words.
LEMMA ImemAt ==
  ASSUME NEW T, Checking(T), NEW p \in Nat
  PROVE  /\ p \div 4 < Len(code) => /\ imem[p \div 4] = WordAt(p) /\ p \div 4 < IMEM_DEPTH
                                    /\ imem[(p \div 4) % IMEM_DEPTH] = WordAt(p)
         /\ p \div 4 < IMEM_DEPTH => imem[(p \div 4) % IMEM_DEPTH] = imem[p \div 4]
         /\ p \div 4 < IMEM_DEPTH /\ ~(p \div 4 < Len(code)) => imem[p \div 4] = ZeroWord
<1>1. Len(code) \in 0..IMEM_DEPTH /\ imem = padded(code, IMEM_DEPTH, ZeroWord)
  BY DEF Checking, PipelineOK
<1>2. IMEM_DEPTH \in Nat /\ p \div 4 \in Nat BY PipelineAssumption
<1>3. p \div 4 < IMEM_DEPTH => p \div 4 \in 0..IMEM_DEPTH - 1 BY <1>2
<1>4. p \div 4 < IMEM_DEPTH => (p \div 4) % IMEM_DEPTH = p \div 4
  <2>1. \A x, y \in Nat : x < y => x % y = x OBVIOUS
  <2> QED BY <1>2, <2>1
<1>5. p \div 4 < Len(code) => p \div 4 < IMEM_DEPTH BY <1>1, <1>2
<1> QED BY <1>1, <1>3, <1>4, <1>5 DEF padded, WordAt

\* Every entry of the target buffer stays that of a branch, with its target.
LEMMA BtbStep ==
  ASSUME NEW T, Checking(T), QueuesAre(T), Clock, iX <= iX'
  PROVE  BtbOK'
<1>1. BtbOK /\ BtbWrite /\ imem' = imem /\ retired' = retired
  BY ClockFrame DEF Checking, PipelineOK, PipelineClock
<1>2. DOMAIN buff = 0..BTB_DEPTH - 1 /\ wrap_idx \in 0..BTB_DEPTH - 1 BY <1>1 DEF BtbOK
<1>3. BTB_DEPTH \in Nat \ {0} BY PipelineAssumption
<1> DEFINE entry == [tag |-> ex.pc \div 4, target |-> branch_target_actual, valid |-> TRUE]
           good(b) == /\ b.tag \in 0..IMEM_DEPTH - 1 /\ imem[b.tag].op \in B_TYPE
                      /\ b.target = word(4 * b.tag + imem[b.tag].imm)
<1>4. DOMAIN buff' = 0..BTB_DEPTH - 1 /\ wrap_idx' \in 0..BTB_DEPTH - 1
  <2>1. (wrap_idx + 1) % BTB_DEPTH \in 0..BTB_DEPTH - 1 BY <1>2, <1>3
  <2> QED BY <1>1, <1>2, <2>1 DEF BtbWrite
<1>5. ASSUME iX <= retired, branch_taken PROVE good(entry)
  <2>1. ex.valid BY <1>5, NoRedirect
  <2>2. ex.word.op \in B_TYPE /\ branch_target_actual = word(ex.pc + ex.word.imm)
    BY <1>5, <2>1, Redirect
  <2>3. /\ ex.word = WordAt(ex.pc) /\ ex.pc \in Words /\ ex.pc % 4 = 0
        /\ ex.pc \div 4 < Len(code)
    BY <1>5, <2>1, ExIs DEF W, InstructionOK
  <2>4. ex.pc \in Nat BY <2>3, WordSame
  <2>5. imem[ex.pc \div 4] = ex.word /\ ex.pc \div 4 < IMEM_DEPTH BY <2>3, <2>4, ImemAt
  <2>6. 4 * (ex.pc \div 4) = ex.pc /\ ex.pc \div 4 \in Nat BY <2>3, <2>4
  <2> QED BY <2>2, <2>5, <2>6, PipelineAssumption
<1>6. ASSUME iX' <= retired, NEW i \in 0..BTB_DEPTH - 1, buff'[i].valid PROVE good(buff'[i])
  <2>1. iX <= retired
    <3>1. iX \in Nat /\ retired \in Nat BY Counts
    <3>2. iX' \in Int BY CompareStep, Counts DEF iX, iM, iW, one
    <3> QED BY <1>6, <3>1, <3>2
  <2>2. buff[i].valid => good(buff[i]) BY <1>1, <2>1 DEF BtbOK
  <2>3. buff'[i] = buff[i] \/ (branch_taken /\ buff'[i] = entry) BY <1>1, <1>2 DEF BtbWrite
  <2> QED BY <1>5, <1>6, <2>1, <2>2, <2>3
<1> QED BY <1>1, <1>4, <1>6 DEF BtbOK

\* A prediction is that of a branch, and of where that branch goes.
LEMMA Predicted ==
  ASSUME NEW T, Checking(T), iX <= retired, btb_hit, if_pc \in Nat, if_pc % 4 = 0
  PROVE  /\ if_pc \div 4 < IMEM_DEPTH /\ imem[if_pc \div 4].op \in B_TYPE
         /\ btb_target = word(if_pc + imem[if_pc \div 4].imm)
<1>1. BtbOK BY DEF Checking, PipelineOK
<1>2. hits(if_pc) \subseteq 0..BTB_DEPTH - 1 /\ hits(if_pc) # {}
  BY <1>1 DEF hits, BtbOK, btb_hit
<1>3. BTB_DEPTH - 1 \in Nat BY PipelineAssumption
<1>4. Max(hits(if_pc)) \in hits(if_pc) BY <1>2, <1>3, MaxIn
<1>5. PICK i \in hits(if_pc) : btb_target = buff[i].target BY <1>4 DEF btb_target, btb_hit
<1>6. buff[i].valid /\ buff[i].tag = if_pc \div 4 BY DEF hits
<1>7. i \in 0..BTB_DEPTH - 1 BY <1>2
<1>8. /\ buff[i].tag \in 0..IMEM_DEPTH - 1 /\ imem[buff[i].tag].op \in B_TYPE
      /\ buff[i].target = word(4 * buff[i].tag + imem[buff[i].tag].imm)
  BY <1>1, <1>6, <1>7 DEF BtbOK
<1>9. 4 * (if_pc \div 4) = if_pc OBVIOUS
<1> QED BY <1>5, <1>6, <1>8, <1>9, PipelineAssumption

\* Without a redirect the instruction in EX continues where fetch has gone on.
LEMMA NotPending ==
  ASSUME NEW T, Checking(T), ~redirect, iX <= retired
  PROVE  ~exPending(T)
BY Redirect, NoRedirect

\* A redirect comes from a jump or a branch, and on the run from one that is pending.
LEMMA RedirectBeyond ==
  ASSUME NEW T, Checking(T), redirect
  PROVE  ex.valid /\ ~mem_read(ex) /\ (iX <= retired => exPending(T))
<1>1. ex.valid BY NoRedirect
<1>2. ~mem_read(ex)
  BY DEF redirect, prediction_miss, jump, branch, mem_read, J_TYPE, I_TYPE_2, I_TYPE_3, B_TYPE
<1> QED BY <1>1, <1>2, Redirect

\* What an advance makes of the counts and of the EX stage.
LEMMA AdvanceCounts ==
  ASSUME NEW T, Checking(T), QueuesAre(T), Clock, ~req_stall
  PROVE  /\ n' = iW /\ iW' = iM /\ iM' = iX
         /\ redirect \/ lu_hazard => ex' = ExBubble /\ ~ex'.valid /\ iX' = iX /\ ~exPending(T)'
         /\ ~redirect /\ ~lu_hazard =>
              /\ ex'.valid = id.valid /\ ex'.word = id.word /\ ex'.pc = id.pc
              /\ ex'.predicted = id.predicted
              /\ ex'.rd_1 = read_data(id.word.rs1) /\ ex'.rd_2 = read_data(id.word.rs2)
              /\ iX' = iD /\ (exPending(T)' <=> idPending(T))
         /\ wb'.valid = em.valid /\ em'.valid = ex.valid /\ em'.word = ex.word /\ em'.pc = ex.pc
<1>1. n' = iW BY CompareStep
<1>2. wb'.valid = em.valid /\ em'.valid = ex.valid /\ em'.word = ex.word /\ em'.pc = ex.pc
  BY AdvanceStep
<1>3. iW' = iM /\ iM' = iX BY <1>1, <1>2, Counts DEF iW, iM, iX, one
<1>4. SameRun BY ClockFrame DEF SameRun
<1>5. \A k, p : Pending(T, k, p)' <=> Pending(T, k, p) BY <1>4, RunFrame
<1>6. ASSUME redirect \/ lu_hazard
      PROVE  ex' = ExBubble /\ ~ex'.valid /\ iX' = iX /\ ~exPending(T)'
  <2>1. ex' = ExBubble BY <1>6, AdvanceStep
  <2>2. ~ex'.valid BY <2>1 DEF ExBubble
  <2>3. iX' = iX BY <1>3, <2>2, Counts DEF iX, one
  <2> QED BY <2>1, <2>2, <2>3 DEF exPending
<1>7. ASSUME ~redirect, ~lu_hazard
      PROVE  /\ ex'.valid = id.valid /\ ex'.word = id.word /\ ex'.pc = id.pc
             /\ ex'.predicted = id.predicted
             /\ ex'.rd_1 = read_data(id.word.rs1) /\ ex'.rd_2 = read_data(id.word.rs2)
             /\ iX' = iD /\ (exPending(T)' <=> idPending(T))
  <2>1. /\ ex'.valid = id.valid /\ ex'.word = id.word /\ ex'.pc = id.pc
        /\ ex'.predicted = id.predicted
        /\ ex'.rd_1 = read_data(id.word.rs1) /\ ex'.rd_2 = read_data(id.word.rs2)
    BY <1>7, AdvanceStep
  <2>2. iX' = iD BY <1>3, <2>1, Counts DEF iX, iD, one
  <2>3. exPending(T)' <=> idPending(T)
    BY <1>4, <1>5, <2>1, <2>2 DEF exPending, idPending, Pending, SameRun
  <2> QED BY <2>1, <2>2, <2>3
<1> QED BY <1>1, <1>2, <1>3, <1>6, <1>7

\* An advance keeps the memory and write-back stages on the run.
LEMMA AdvanceBack ==
  ASSUME NEW T, Checking(T), QueuesAre(T), Clock, ~req_stall
  PROVE  WbOK(T)' /\ EmOK(T)'
<1>1. SameRun /\ retired' = retired BY ClockFrame DEF SameRun
<1>2. /\ \A k : W(T, k)' = W(T, k)
      /\ \A k : Res(T, k)' = Res(T, k)
      /\ \A k : LoadValue(T, k)' = LoadValue(T, k)
  BY <1>1, RunFrame
<1>3. WbOK(T)'
  <2> SUFFICES ASSUME em.valid, iM <= retired
               PROVE  /\ Is(wb, T, n)' /\ wb'.alu_result = Res(T, n')
                      /\ mem_read(wb)' => wb'.read_data = LoadValue(T, n')
    BY <1>1, <1>2, AdvanceCounts DEF WbOK
  <2>1. EmOK(T) BY DEF Checking, PipelineOK
  <2>2. /\ wb'.word = em.word /\ wb'.pc = em.pc /\ wb'.alu_result = em.alu_result
        /\ wb'.read_data = be_data_out
    BY AdvanceStep
  <2>3. n' = iM - 1
    <3>1. n' = iW BY AdvanceCounts
    <3>2. iM - 1 = iW BY Counts
    <3> QED BY <3>1, <3>2
  <2>4. mem_read(wb)' <=> mem_read(em)
    <3>1. wb'.valid = em.valid BY AdvanceCounts
    <3> QED BY <2>2, <3>1 DEF mem_read
  <2>5. mem_read(em) => be_data_out = LoadValue(T, iM - 1) BY EmData
  <2> QED BY <1>2, <2>1, <2>2, <2>3, <2>4, <2>5 DEF EmOK, Is
<1>4. EmOK(T)'
  <2> SUFFICES ASSUME ex.valid, iX <= retired
               PROVE  /\ Is(em, T, iM - 1)' /\ em'.alu_result = Res(T, iX - 1)
                      /\ em'.r_data_2 = T.regs[iX - 1][em'.word.rs2]
    BY <1>1, <1>2, AdvanceCounts DEF EmOK
  <2>1. /\ em'.word = ex.word /\ em'.pc = ex.pc /\ em'.alu_result = alu_result
        /\ em'.r_data_2 = rd_2_fwd
    BY AdvanceStep
  <2>2. iM' = iX BY AdvanceCounts
  <2> QED BY <1>2, <2>1, <2>2, ExIs, AluResult DEF Is
<1> QED BY <1>3, <1>4

\* An operand read in decode is the run's, unless an older instruction still has it to give.
LEMMA AdvanceOperand ==
  ASSUME NEW T, Checking(T), QueuesAre(T), Clock, ~req_stall,
         ~redirect, ~lu_hazard, id.valid, iD <= retired,
         NEW r \in Regs, r = id.word.rs1 \/ r = id.word.rs2
  PROVE  /\ ~writes(em, r)' /\ ~writes(wb, r)' => read_data(r) = T.regs[iX'- 1][r]
         /\ mem_read(em)' => ~writes(em, r)'
<1>1. iX' - 1 = iX /\ iX <= retired
  <2>1. iX' = iD BY AdvanceCounts
  <2>2. iD - 1 = iX /\ iX <= retired BY Counts
  <2> QED BY <2>1, <2>2
<1>2. writes(em, r)' <=> writes(ex, r) BY AdvanceStep DEF writes, reg_write
<1>3. writes(wb, r)' <=> writes(em, r) BY AdvanceStep DEF writes, reg_write
<1>4. RunOf(T) BY DEF Checking
<1>5. iW \in 0..retired BY <1>1, Counts
<1>6. read_data(r) = T.regs[iW][r]
  <2>1. T.regs[iW][0] = 0 BY <1>4, <1>5, RunTypes
  <2> QED BY <2>1, FileWritten DEF read_data
<1>7. ASSUME ~writes(ex, r), ~writes(em, r) PROVE T.regs[iX][r] = T.regs[iW][r]
  <2>1. T.regs[iM][r] = T.regs[iW][r] BY <1>1, <1>7, WbOperand, Counts
  <2>2. CASE ~ex.valid BY <2>1, <2>2, Counts
  <2>3. CASE ex.valid
    <3>1. /\ iX - 1 \in 0..retired - 1 /\ iX - 1 = iM /\ iX - 1 + 1 = iX
          /\ ex.word = W(T, iX - 1)
      BY <1>1, <2>3, ExIs
    <3>2. T.regs[iX - 1 + 1][r] = T.regs[iX - 1][r] BY <1>4, <1>7, <2>3, <3>1, NotWritten
    <3> QED BY <2>1, <3>1, <3>2
  <2> QED BY <2>2, <2>3
<1>8. ASSUME mem_read(ex) PROVE ~writes(ex, r) BY <1>8 DEF lu_hazard, writes
<1>9. mem_read(em)' <=> mem_read(ex) BY AdvanceStep DEF mem_read
<1> QED BY <1>1, <1>2, <1>3, <1>6, <1>7, <1>8, <1>9

\* An advance keeps EX on the run: a load-use hazard has stalled what could not be forwarded.
LEMMA AdvanceEx ==
  ASSUME NEW T, Checking(T), QueuesAre(T), Clock, ~req_stall
  PROVE  ExOK(T)'
<1>1. SameRun /\ retired' = retired BY ClockFrame DEF SameRun
<1>2. \A k : W(T, k)' = W(T, k) BY <1>1, RunFrame
<1>3. CASE redirect \/ lu_hazard BY <1>3, AdvanceCounts DEF ExOK
<1>4. CASE ~redirect /\ ~lu_hazard
  <2> SUFFICES ASSUME id.valid, iD <= retired
               PROVE  /\ Is(ex, T, iX - 1)'
                      /\ ex'.predicted => ex'.word.op \in B_TYPE
                      /\ Operand(T, ex.word.rs1, ex.rd_1)' /\ Operand(T, ex.word.rs2, ex.rd_2)'
    BY <1>1, <1>4, AdvanceCounts DEF ExOK
  <2>1. /\ ex'.valid = id.valid /\ ex'.word = id.word /\ ex'.pc = id.pc
        /\ ex'.predicted = id.predicted
        /\ ex'.rd_1 = read_data(id.word.rs1) /\ ex'.rd_2 = read_data(id.word.rs2)
        /\ iX' = iD
    BY <1>4, AdvanceCounts
  <2>2. iX <= retired /\ iD - 1 \in 0..retired - 1 BY Counts
  <2>3. ~exPending(T) BY <1>4, <2>2, NotPending
  <2>4. IdOK(T) /\ RunOf(T) BY DEF Checking, PipelineOK
  <2>5. Is(id, T, iD - 1) /\ (id.predicted => id.word.op \in B_TYPE) BY <2>3, <2>4 DEF IdOK
  <2>6. id.word.rs1 \in Regs /\ id.word.rs2 \in Regs
    BY <2>2, <2>4, <2>5, RunSteps DEF Executes, InstructionOK, Is
  <2>7. Is(ex, T, iX - 1)' BY <1>2, <2>1, <2>5 DEF Is
  <2>8. Operand(T, ex.word.rs1, ex.rd_1)'
    BY <1>4, <2>1, <2>6, AdvanceOperand DEF Operand
  <2>9. Operand(T, ex.word.rs2, ex.rd_2)'
    BY <1>4, <2>1, <2>6, AdvanceOperand DEF Operand
  <2> QED BY <2>1, <2>5, <2>7, <2>8, <2>9
<1> QED BY <1>3, <1>4

\* Fetch is at the run's next pc when no jump or misprediction is pending.
LEMMA FetchedPc ==
  ASSUME NEW T, Checking(T), ~redirect, ~idPending(T), iD <= retired
  PROVE  if_pc = T.pc[iD] \/ (iD = retired /\ ~id.valid)
<1>1. iX <= retired BY Counts
<1>2. ~exPending(T) BY <1>1, NotPending
<1> QED BY <1>2 DEF Checking, PipelineOK, FetchOK

\* What is fetched at the run's pc is the run's instruction.
LEMMA FetchedWord ==
  ASSUME NEW T, Checking(T), iD < retired, if_pc = T.pc[iD]
  PROVE  /\ output_valid /\ imem_data = W(T, iD) /\ InstructionOK(T, iD)
         /\ imem[if_pc \div 4] = W(T, iD) /\ if_pc \in Nat /\ if_pc % 4 = 0
<1>1. iD \in 0..retired - 1 BY Counts
<1>2. RunOf(T) /\ FetchOK(T) BY DEF Checking, PipelineOK
<1>3. InstructionOK(T, iD) /\ T.pc[iD] \in Words BY <1>1, <1>2, RunSteps, RunTypes DEF Executes
<1>4. if_pc \in Nat /\ if_pc % 4 = 0 /\ if_pc \div 4 < Len(code)
  BY <1>3, WordSame DEF InstructionOK
<1>5. /\ imem[if_pc \div 4] = WordAt(if_pc) /\ if_pc \div 4 < IMEM_DEPTH
      /\ imem[(if_pc \div 4) % IMEM_DEPTH] = WordAt(if_pc)
  BY <1>4, ImemAt
<1>6. output_valid /\ imem_data = WordAt(if_pc) BY <1>2, <1>5 DEF FetchOK
<1> QED BY <1>3, <1>4, <1>5, <1>6 DEF W

\* An advance keeps fetch and decode on the run, through predictions right and wrong.
LEMMA AdvanceId ==
  ASSUME NEW T, Checking(T), QueuesAre(T), Clock, ~req_stall
  PROVE  IdOK(T)' /\ FetchOK(T)'
<1>1. SameRun /\ retired' = retired BY ClockFrame DEF SameRun
<1>2. (\A k : W(T, k)' = W(T, k)) /\ (\A k, p : Pending(T, k, p)' <=> Pending(T, k, p))
  BY <1>1, RunFrame
<1>3. IdOK(T) /\ FetchOK(T) /\ RunOf(T) BY DEF Checking, PipelineOK
<1>4. PICK taken \in BOOLEAN :
           /\ taken => btb_hit
           /\ if_pc' = pc_next(taken, btb_target)
           /\ redirect => id' = [IdBubble EXCEPT !.pc = id.pc]
           /\ ~redirect /\ pc_stall => id' = id
           /\ ~redirect /\ ~pc_stall => id' = [valid |-> output_valid, word |-> imem_data,
                                               pc |-> if_pc, predicted |-> taken]
  BY FetchStep
<1>5. CASE redirect
  <2>1. ~id'.valid BY <1>4, <1>5 DEF IdBubble
  <2>2. iX' = iX /\ iD' = iX BY <1>5, <2>1, AdvanceCounts, Counts DEF iD, one
  <2>3. iX <= retired => if_pc' = T.pc[iX] BY <1>4, <1>5, Redirect, RedirectBeyond
  <2> QED BY <1>1, <2>1, <2>2, <2>3, ClockFetch DEF IdOK, FetchOK
<1>6. CASE ~redirect /\ lu_hazard
  <2>1. pc_stall /\ id' = id BY <1>4, <1>6 DEF pc_stall
  <2>2. ~prediction_miss /\ ~jump(ex) BY <1>6 DEF redirect
  <2>3. if_pc' = if_pc BY <1>4, <2>1, <2>2 DEF pc_next
  <2>4. ex.valid BY <1>6 DEF lu_hazard, mem_read
  <2>5. iX' = iX /\ iD' = iD BY <1>6, <2>1, AdvanceCounts, Counts DEF iD, one
  <2>6. iX <= retired => ~exPending(T) BY <1>6, NotPending
  <2>7. iD <= retired => iX <= retired BY Counts
  <2>8. idPending(T)' <=> idPending(T) BY <1>1, <1>2, <2>1, <2>5 DEF idPending, Pending
  <2>9. IdOK(T)' BY <1>1, <1>2, <1>3, <2>1, <2>5, <2>6, <2>7 DEF IdOK, Is
  <2> QED BY <1>1, <1>3, <2>1, <2>3, <2>5, <2>6, <2>7, <2>8, <2>9, ClockFetch DEF FetchOK
<1>7. CASE ~redirect /\ ~lu_hazard
  <2>1. ~pc_stall BY <1>7 DEF pc_stall
  <2>2. /\ id'.valid = output_valid /\ id'.word = imem_data /\ id'.pc = if_pc
        /\ id'.predicted = taken
    BY <1>4, <1>7, <2>1
  <2>3. ~prediction_miss /\ ~jump(ex) BY <1>7 DEF redirect
  <2>4. if_pc' = IF taken THEN btb_target ELSE word(if_pc + 4)
    BY <1>4, <2>1, <2>3 DEF pc_next
  <2>5. iX' = iD /\ (exPending(T)' <=> idPending(T)) BY <1>7, AdvanceCounts
  <2>6. /\ output_valid => iD' = iD + 1
        /\ ~output_valid => iD' = iD
    BY <2>2, <2>5 DEF iD, one
  <2>7. ASSUME output_valid, iD' <= retired, ~exPending(T)'
        PROVE  /\ iD \in 0..retired - 1 /\ iX <= retired /\ if_pc = T.pc[iD]
               /\ imem_data = W(T, iD) /\ InstructionOK(T, iD)
               /\ taken => /\ W(T, iD).op \in B_TYPE
                           /\ btb_target = word(if_pc + W(T, iD).imm)
    <3>1. iD \in 0..retired - 1 /\ iX <= retired /\ iD < retired /\ iD <= retired
      BY <2>6, <2>7, Counts
    <3>2. if_pc = T.pc[iD] BY <1>7, <2>5, <2>7, <3>1, FetchedPc
    <3>3. /\ imem_data = W(T, iD) /\ imem[if_pc \div 4] = W(T, iD) /\ if_pc \in Nat
          /\ if_pc % 4 = 0 /\ InstructionOK(T, iD)
      BY <3>1, <3>2, FetchedWord
    <3>4. taken => W(T, iD).op \in B_TYPE /\ btb_target = word(if_pc + W(T, iD).imm)
      BY <1>4, <3>1, <3>3, Predicted
    <3> QED BY <3>1, <3>2, <3>3, <3>4
  <2>8. IdOK(T)'
    <3> SUFFICES ASSUME output_valid, iD' <= retired, ~exPending(T)'
                 PROVE  Is(id, T, iD - 1)' /\ (id'.predicted => id'.word.op \in B_TYPE)
      BY <1>1, <2>2 DEF IdOK
    <3>1. iD' - 1 = iD BY <2>6, Counts
    <3>2. /\ if_pc = T.pc[iD] /\ imem_data = W(T, iD)
          /\ taken => W(T, iD).op \in B_TYPE
      BY <2>7
    <3> QED BY <1>2, <2>2, <3>1, <3>2 DEF Is
  <2>9. FetchOK(T)'
    <3> SUFFICES ASSUME iD' <= retired, ~exPending(T)', ~idPending(T)'
                 PROVE  if_pc' = T.pc[iD'] \/ (iD' = retired /\ ~id'.valid)
      BY <1>1, ClockFetch DEF FetchOK
    <3>1. CASE ~output_valid
      <4>1. iD' = iD BY <2>6, <3>1
      <4>2. if_pc = T.pc[iD] \/ (iD = retired /\ ~id.valid) BY <1>7, <2>5, <4>1, FetchedPc
      <4>3. iD = retired
        <5>1. CASE iD < retired BY <3>1, <4>2, <5>1, FetchedWord
        <5>2. CASE ~(iD < retired) BY <4>1, <5>2, Counts
        <5> QED BY <5>1, <5>2
      <4> QED BY <2>2, <3>1, <4>1, <4>3
    <3>2. CASE output_valid
      <4>1. /\ iD \in 0..retired - 1 /\ if_pc = T.pc[iD] /\ InstructionOK(T, iD)
            /\ taken => /\ W(T, iD).op \in B_TYPE
                        /\ btb_target = word(if_pc + W(T, iD).imm)
        BY <2>7, <3>2
      <4>2. iD' = iD + 1 /\ iD' - 1 = iD BY <2>6, <3>2, Counts
      <4>3. T.pc[iD + 1] = NextPc(W(T, iD), T.pc[iD], T.regs[iD])
        BY <1>3, <4>1, RunSteps DEF Executes
      <4>4. id'.valid /\ id'.predicted = taken BY <2>2, <3>2
      <4>5. ~Pending(T, iD, taken)
        BY <1>1, <1>2, <4>2, <4>4 DEF idPending, Pending
      <4>6. W(T, iD).op \notin Jumps
            /\ (W(T, iD).op \in B_TYPE => (Res(T, iD) % 2 = 1) = taken)
        BY <4>5 DEF Pending
      <4>7. T.pc[iD + 1] = word(T.pc[iD] + IF taken THEN W(T, iD).imm ELSE 4)
        BY <4>1, <4>3, <4>6 DEF NextPc, Res
      <4> QED BY <2>4, <4>1, <4>2, <4>7
    <3> QED BY <3>1, <3>2
  <2> QED BY <2>8, <2>9
<1> QED BY <1>5, <1>6, <1>7

\* An advance lets nothing that loads or stores follow the program's end.
LEMMA AdvanceBeyond ==
  ASSUME NEW T, Checking(T), QueuesAre(T), Ended(T), Clock, ~req_stall, n' < retired
  PROVE  BeyondOK(T)'
<1>1. SameRun /\ retired' = retired BY ClockFrame DEF SameRun
<1>2. BeyondOK(T) /\ FetchOK(T) /\ RunOf(T) BY DEF Checking, PipelineOK
<1>3. ASSUME em'.valid, iM' = retired + 1 PROVE Inert(em)'
  <2>1. ex.valid /\ iX = retired + 1 /\ em'.word = ex.word /\ n' = iW BY <1>3, AdvanceCounts
  <2>2. Inert(ex) \/ ~em.valid BY <1>2, <2>1 DEF BeyondOK
  <2>3. em.valid BY <2>1, Counts
  <2> QED BY <2>1, <2>2, <2>3 DEF Inert
<1>4. ASSUME ex'.valid, iX' = retired + 1 PROVE Inert(ex)' \/ ~em'.valid
  <2>1. ~redirect /\ ~lu_hazard BY <1>4, AdvanceCounts
  <2>2. id.valid /\ iD = retired + 1 /\ ex'.word = id.word /\ em'.valid = ex.valid
    BY <1>4, <2>1, AdvanceCounts
  <2>3. iX <= retired BY <2>2, Counts
  <2>4. ~exPending(T) BY <2>1, <2>3, NotPending
  <2>5. Inert(id) \/ ~ex.valid BY <1>2, <2>2, <2>4 DEF BeyondOK
  <2> QED BY <2>2, <2>5 DEF Inert
<1>5. ASSUME id'.valid, iD' = retired + 1, ~exPending(T)' PROVE Inert(id)' \/ ~ex'.valid
  <2> SUFFICES ASSUME ex'.valid PROVE Inert(id)' OBVIOUS
  <2>1. ~redirect /\ ~lu_hazard BY AdvanceCounts
  <2>2. ~pc_stall BY <2>1 DEF pc_stall
  <2>3. id'.valid = output_valid /\ id'.word = imem_data BY <2>1, <2>2, FetchStep
  <2>4. id.valid /\ iX' = iD /\ ~idPending(T) BY <1>5, <2>1, AdvanceCounts
  <2>5. iD' = iD + 1 BY <1>5, <2>4 DEF iD, one
  <2>6. iD = retired /\ retired \in 0..retired /\ iD <= retired BY <1>5, <2>5, Counts
  <2>7. if_pc = T.pc[retired] BY <2>1, <2>4, <2>6, FetchedPc
  <2>8. if_pc \in Words BY <1>2, <2>6, <2>7, RunTypes
  <2>9. if_pc \in Nat BY <2>8, WordSame
  <2>10. imem_data = imem[(if_pc \div 4) % IMEM_DEPTH] /\ if_pc \div 4 < IMEM_DEPTH
    BY <1>2, <1>5, <2>3 DEF FetchOK
  <2>11. CASE if_pc \div 4 < Len(code)
    <3>1. imem_data = W(T, retired) BY <2>7, <2>9, <2>10, <2>11, ImemAt DEF W
    <3>2. W(T, retired).op \notin MemOps BY <2>7, <2>11 DEF Ended
    <3> QED BY <2>3, <3>1, <3>2 DEF Inert
  <2>12. CASE ~(if_pc \div 4 < Len(code))
    <3>1. imem_data = ZeroWord BY <2>9, <2>10, <2>12, ImemAt
    <3> QED BY <2>3, <3>1 DEF Inert, ZeroWord, MemOps, I_TYPE_3, S_TYPE
  <2> QED BY <2>11, <2>12
<1> QED BY <1>1, <1>3, <1>4, <1>5 DEF BeyondOK

\* Every stage stays on the run, in a period of either kind.
LEMMA Stages ==
  ASSUME NEW T, Checking(T), QueuesAre(T), Ended(T), Clock, n' < retired
  PROVE  /\ WbOK(T)' /\ EmOK(T)' /\ ExOK(T)' /\ IdOK(T)' /\ FetchOK(T)' /\ BeyondOK(T)' /\ BtbOK'
         /\ file' = T.regs[n']
<1>1. file' = T.regs[n'] BY ClockFetch, FileWritten, CompareStep
<1>2. CASE req_stall
  <2>1. iX <= iX' BY <1>2, StallCounts, Counts
  <2> QED BY <1>1, <1>2, <2>1, StallStages, BtbStep
<1>3. CASE ~req_stall
  <2>1. iX <= iX'
    <3>1. iX' = iX \/ iX' = iD BY <1>3, AdvanceCounts
    <3>2. iX \in Nat /\ iX <= iD BY Counts
    <3> QED BY <3>1, <3>2
  <2> QED BY <1>1, <1>3, <2>1, AdvanceBack, AdvanceEx, AdvanceId, AdvanceBeyond, BtbStep
<1> QED BY <1>2, <1>3

-----------------------------------------------------------------------------
(* The LSU, the cache port and the memory.                                  *)

\* What is known of the LSU and its ports, taken apart.
LEMMA PortFacts ==
  ASSUME NEW T, Checking(T)
  PROVE  /\ io_access_r = FALSE /\ io_req = None /\ io_port = None /\ io_ack = None
         /\ Quiet \/ (em_access # None /\ ~wb.valid /\ (Asked \/ Working \/ Answered))
         /\ dmem = T.mem[IF em_access # None /\ ~Answered THEN iM - 1 ELSE reached]
         /\ Len(accesses) = T.acc[IF em_access # None /\ (Quiet \/ Asked) THEN iM - 1 ELSE reached]
         /\ accesses \in Seq(Access)
BY DEF Checking, PipelineOK, PortOK, IoQuiet, Seen

\* The period of the LSU and of the two ports.
LEMMA PortClock ==
  ASSUME NEW T, Checking(T), Clock
  PROVE  /\ LSU!LsuIssue(em_access) \/ LSU!LsuIdle(em_access)
              \/ LSU!LsuWait(cpu_data_out, cpu_ready_out, io_ack, mem_advance)
         /\ PortTakes \/ PortIdle \/ PortWaits \/ PortAnswers
         /\ io_port' = None /\ io_ack' = None
         /\ ~IoTakes
<1>1. PipelineClock(imem) /\ PortsClock BY ClockFrame
<1>2. io_port = None /\ io_req = None BY PortFacts
<1>3. ~IoTakes /\ ~IoWaits /\ ~IoAnswers BY <1>2 DEF IoTakes, IoWaits, IoAnswers
<1> QED BY <1>1, <1>2, <1>3 DEF PipelineClock, LSU!LsuClock, PortsClock, IoIdle

\* Accesses are noted when a port takes one.
LEMMA AccessesSame ==
  ASSUME NEW T, Checking(T), Clock, ~PortTakes
  PROVE  accesses' = accesses
<1>1. Taken = <<>> BY PortClock DEF Taken
<1>2. accesses \o <<>> = accesses BY PortFacts
<1> QED BY <1>1, <1>2, ClockFrame

\* Nothing in EX/MEM for the memory, or its answer is in.
LEMMA PortRests ==
  ASSUME NEW T, Checking(T), Clock, ~req_stall
  PROVE  Quiet' /\ IoQuiet' /\ dmem' = dmem /\ accesses' = accesses
<1>1. em_access = None \/ Answered BY Stall
<1>2. /\ cpu_data_in = None /\ port = None /\ cpu_ready_out = TRUE
      /\ io_access_r = FALSE /\ io_req = None
      /\ Quiet \/ Answered
  BY <1>1, PortFacts DEF Quiet, Answered
<1>3. ~PortTakes /\ ~PortWaits /\ ~PortAnswers BY <1>2 DEF PortTakes, PortWaits, PortAnswers
<1>4. PortIdle BY <1>3, PortClock
<1>5. accesses' = accesses BY <1>3, AccessesSame
<1>6. lsu_state' = "IDLE" /\ cpu_data_in' = None /\ io_req' = None /\ io_access_r' = FALSE
  <2>1. CASE Quiet
    <3>1. lsu_state = "IDLE" /\ em_access = None BY <1>1, <2>1 DEF Quiet, Answered
    <3>2. LSU!LsuIdle(em_access) BY <3>1, PortClock DEF LSU!LsuIssue, LSU!LsuWait
    <3> QED BY <1>2, <3>1, <3>2 DEF LSU!LsuIdle, LSU!lsuVars
  <2>2. CASE Answered
    <3>1. lsu_state = "RESP_WAITING" /\ cpu_data_out # None BY <2>2 DEF Answered
    <3>2. LSU!LsuWait(cpu_data_out, cpu_ready_out, io_ack, mem_advance)
      BY <3>1, PortClock DEF LSU!LsuIssue, LSU!LsuIdle
    <3>3. LSU!resp(cpu_data_out, io_ack) # None BY <1>2, <3>1 DEF LSU!resp
    <3>4. mem_advance BY Stall
    <3> QED BY <1>2, <3>2, <3>3, <3>4 DEF LSU!LsuWait
  <2> QED BY <1>2, <2>1, <2>2
<1> QED BY <1>2, <1>4, <1>5, <1>6, PortClock DEF PortIdle, Quiet, IoQuiet

\* The period in which the LSU issues the access.
LEMMA PortIssues ==
  ASSUME NEW T, Checking(T), Clock, em_access # None, Quiet
  PROVE  /\ lsu_state' = "RESP_WAITING" /\ cpu_data_in' = em_access /\ port' = None
         /\ cpu_ready_out' = TRUE /\ cpu_data_out' = None
         /\ IoQuiet' /\ dmem' = dmem /\ accesses' = accesses
<1>1. /\ lsu_state = "IDLE" /\ cpu_data_in = None /\ port = None
      /\ io_access_r = FALSE /\ io_req = None
  BY PortFacts DEF Quiet
<1>2. ~PortTakes /\ ~PortWaits /\ ~PortAnswers BY <1>1 DEF PortTakes, PortWaits, PortAnswers
<1>3. PortIdle BY <1>2, PortClock
<1>4. accesses' = accesses BY <1>2, AccessesSame
<1>5. LSU!LsuIssue(em_access) BY <1>1, PortClock DEF LSU!LsuIdle, LSU!LsuWait
<1>6. em_access \in Access /\ em_access.addr \notin IoPage BY EmRequest
<1>7. em_access \notin {a \in Access : a.addr \in IoPage} BY <1>6
<1>8. /\ lsu_state' = "RESP_WAITING" /\ cpu_data_in' = em_access /\ io_req' = io_req
      /\ io_access_r' = FALSE
  <2>1. /\ lsu_state' = "RESP_WAITING"
        /\ io_access_r' = (em_access \in {a \in Access : a.addr \in IoPage})
        /\ \/ em_access \in {a \in Access : a.addr \in IoPage} /\ io_req' = em_access
           \/ cpu_data_in' = em_access /\ io_req' = io_req
    BY <1>5 DEF LSU!LsuIssue
  <2>2. (em_access \in {a \in Access : a.addr \in IoPage}) = FALSE BY <1>7
  <2> QED BY <1>7, <2>1, <2>2
<1> QED BY <1>1, <1>3, <1>4, <1>8, PortClock DEF PortIdle, IoQuiet

\* The period in which the cache port may take it, or be late.
LEMMA PortAsked ==
  ASSUME NEW T, Checking(T), Clock, em_access # None, Asked
  PROVE  /\ lsu_state' = "RESP_WAITING" /\ cpu_data_out' = None /\ IoQuiet' /\ dmem' = dmem
         /\ \/ /\ port' = None /\ cpu_data_in' = em_access /\ cpu_ready_out' = TRUE
               /\ accesses' = accesses
            \/ /\ port' = em_access /\ cpu_ready_out' = FALSE
               /\ accesses' = IF Len(accesses) <= Len(expected_accesses)
                              THEN accesses \o <<em_access>> ELSE accesses
<1>1. /\ lsu_state = "RESP_WAITING" /\ cpu_data_in = em_access /\ port = None
      /\ cpu_ready_out = TRUE /\ cpu_data_out = None
      /\ io_access_r = FALSE /\ io_req = None
  BY PortFacts DEF Asked
<1>2. LSU!LsuWait(cpu_data_out, cpu_ready_out, io_ack, mem_advance)
  BY <1>1, PortClock DEF LSU!LsuIssue, LSU!LsuIdle
<1>3. LSU!resp(cpu_data_out, io_ack) = None BY <1>1 DEF LSU!resp
<1>4. lsu_state' = "RESP_WAITING" /\ cpu_data_in' = em_access /\ io_req' = None
      /\ io_access_r' = FALSE
  BY <1>1, <1>2, <1>3 DEF LSU!LsuWait
<1>5. ~PortWaits /\ ~PortAnswers BY <1>1 DEF PortWaits, PortAnswers
<1>6. IoQuiet' BY <1>4, PortClock DEF IoQuiet
<1>7. CASE PortTakes
  <2>1. Taken = <<em_access>> BY <1>1, <1>7 DEF Taken
  <2> QED BY <1>1, <1>4, <1>6, <1>7, <2>1, ClockFrame DEF PortTakes
<1>8. CASE ~PortTakes
  <2>1. PortIdle BY <1>5, <1>8, PortClock
  <2>2. accesses' = accesses BY <1>8, AccessesSame
  <2> QED BY <1>1, <1>4, <1>6, <2>1, <2>2 DEF PortIdle
<1> QED BY <1>7, <1>8

\* The period in which the port may answer it, or be late.
LEMMA PortWorking ==
  ASSUME NEW T, Checking(T), Clock, em_access # None, Working
  PROVE  /\ lsu_state' = "RESP_WAITING" /\ IoQuiet' /\ accesses' = accesses
         /\ \/ /\ port' = em_access /\ cpu_ready_out' = FALSE /\ cpu_data_out' = None
               /\ dmem' = dmem
            \/ /\ port' = None /\ cpu_data_in' = None /\ cpu_ready_out' = TRUE
               /\ cpu_data_out' = [data |-> loaded(em_access)]
               /\ dmem' = IF em_access.write THEN merged(em_access) ELSE dmem
<1>1. /\ lsu_state = "RESP_WAITING" /\ port = em_access /\ port # None
      /\ cpu_ready_out = FALSE /\ cpu_data_out = None
      /\ io_access_r = FALSE /\ io_req = None
  BY PortFacts DEF Working
<1>2. LSU!LsuWait(cpu_data_out, cpu_ready_out, io_ack, mem_advance)
  BY <1>1, PortClock DEF LSU!LsuIssue, LSU!LsuIdle
<1>3. LSU!resp(cpu_data_out, io_ack) = None BY <1>1 DEF LSU!resp
<1>4. lsu_state' = "RESP_WAITING" /\ cpu_data_in' = None /\ io_req' = None
      /\ io_access_r' = FALSE
  BY <1>1, <1>2, <1>3 DEF LSU!LsuWait
<1>5. ~PortTakes /\ ~PortIdle BY <1>1 DEF PortTakes, PortIdle
<1>6. PortWaits \/ PortAnswers BY <1>5, PortClock
<1>7. IoQuiet' BY <1>4, PortClock DEF IoQuiet
<1>8. accesses' = accesses BY <1>5, AccessesSame
<1>9. CASE PortWaits BY <1>1, <1>4, <1>7, <1>8, <1>9 DEF PortWaits
<1>10. CASE PortAnswers BY <1>1, <1>4, <1>7, <1>8, <1>10 DEF PortAnswers
<1> QED BY <1>6, <1>9, <1>10

\* The weights of the four lanes.
LEMMA BytePowers ==
  BYTE ^ 0 = 1 /\ BYTE ^ 1 = BYTE /\ BYTE ^ 2 = BYTE * BYTE /\ BYTE ^ 3 = BYTE * BYTE * BYTE
<1>1. CASE BYTE = 2 BY <1>1
<1>2. CASE BYTE = 4 BY <1>2
<1>3. CASE BYTE = 16 BY <1>3
<1>4. CASE BYTE = 256 BY <1>4
<1> QED BY <1>1, <1>2, <1>3, <1>4, WordCases

\* Four bytes make a word.
LEMMA FourBytes ==
  ASSUME NEW a \in 0..BYTE - 1, NEW b \in 0..BYTE - 1, NEW c \in 0..BYTE - 1, NEW d \in 0..BYTE - 1
  PROVE  a * BYTE ^ 0 + b * BYTE ^ 1 + c * BYTE ^ 2 + d * BYTE ^ 3 \in Words
<1>1. CASE BYTE = 2 /\ WORD = 16 BY <1>1 DEF Words
<1>2. CASE BYTE = 4 /\ WORD = 256 BY <1>2 DEF Words
<1>3. CASE BYTE = 16 /\ WORD = 2 ^ 16 BY <1>3 DEF Words
<1>4. CASE BYTE = 256 /\ WORD = 2 ^ 32 BY <1>4 DEF Words
<1> QED BY <1>1, <1>2, <1>3, <1>4, WordCases

\* A lane of a word is a byte.
LEMMA ByteIn == \A x \in Nat, i \in 0..3 : byteOf(x, i) \in 0..BYTE - 1
<1> SUFFICES ASSUME NEW x \in Nat, NEW i \in 0..3 PROVE byteOf(x, i) \in 0..BYTE - 1 OBVIOUS
<1>1. BYTE \in Nat \ {0} BY WordTypes
<1>2. BYTE ^ i \in Nat \ {0}
  <2>1. i = 0 \/ i = 1 \/ i = 2 \/ i = 3 OBVIOUS
  <2>2. BYTE ^ 0 \in Nat \ {0} /\ BYTE ^ 1 \in Nat \ {0} BY <1>1, BytePowers
  <2>3. BYTE * BYTE \in Nat \ {0} /\ BYTE * BYTE * BYTE \in Nat \ {0}
    <3>1. \A y, z \in Nat \ {0} : y * z \in Nat \ {0} OBVIOUS
    <3> QED BY <1>1, <3>1
  <2> QED BY <2>1, <2>2, <2>3, BytePowers
<1>3. x \div (BYTE ^ i) \in Nat
  <2>1. \A y \in Nat, z \in Nat \ {0} : y \div z \in Nat OBVIOUS
  <2> QED BY <1>2, <2>1
<1> QED BY <1>1, <1>3 DEF byteOf

\* What is loaded is a word.
LEMMA LoadIn ==
  ASSUME NEW m \in [Bytes -> 0..BYTE - 1], NEW addr \in Nat, NEW sz \in {1, 2, 4},
         addr + sz <= 4 * D_MEM_DEPTH
  PROVE  loadedFrom(m, addr, sz) \in Words
<1> DEFINE at(i) == IF i < sz THEN m[addr + i] ELSE 0
<1>1. 0 \in 0..BYTE - 1 BY WordTypes
<1>2. ASSUME NEW i \in {0, 1, 2, 3} PROVE at(i) \in 0..BYTE - 1
  <2>1. i < sz => addr + i \in Bytes BY PortsAssumption DEF Bytes
  <2> QED BY <1>1, <2>1
<1>3. at(0) \in 0..BYTE - 1 /\ at(1) \in 0..BYTE - 1 /\ at(2) \in 0..BYTE - 1 /\ at(3) \in 0..BYTE - 1
  BY <1>2
<1>4. at(0) * BYTE ^ 0 + at(1) * BYTE ^ 1 + at(2) * BYTE ^ 2 + at(3) * BYTE ^ 3 \in Words
  <2> HIDE DEF at
  <2> QED BY <1>3, FourBytes
<1>5. \A i \in {0, 1, 2, 3} : (IF i < sz THEN m[addr + i] * BYTE ^ i ELSE 0) = at(i) * BYTE ^ i
  <2>1. \A i \in {0, 1, 2, 3} : BYTE ^ i \in Int
    <3>1. \A y, z \in Nat \ {0} : y * z \in Nat \ {0} OBVIOUS
    <3> QED BY <3>1, BytePowers, WordTypes
  <2>2. \A y \in Int : 0 * y = 0 OBVIOUS
  <2> QED BY <2>1, <2>2
<1> HIDE DEF at
<1> QED BY <1>4, <1>5 DEF loadedFrom

\* The lanes of an access in memory are the bytes from its address on.
LEMMA Lanes ==
  ASSUME NEW a \in Access, InMemory(a.addr, a.size), NEW i \in 0..a.size - 1
  PROVE  lane(a, i) = a.addr + i /\ a.addr + i \in Bytes
<1>1. a.addr \in Nat /\ a.size \in {1, 2, 4} /\ i \in Nat BY WordSame DEF Access
<1>2. a.addr % a.size = 0 /\ a.addr + a.size <= 4 * D_MEM_DEPTH BY DEF InMemory
<1>3. 4 * D_MEM_DEPTH \in Nat \ {0} BY PortsAssumption
<1>4. a.addr - (a.addr % a.size) + i = a.addr + i BY <1>1, <1>2
<1>5. a.addr + i < 4 * D_MEM_DEPTH BY <1>1, <1>2, <1>3
<1>6. \A x, y \in Nat : x < y => x % y = x OBVIOUS
<1> QED BY <1>1, <1>3, <1>4, <1>5, <1>6 DEF lane, Bytes

\* What the port loads is what the run's memory has there.
LEMMA LoadedIs ==
  ASSUME NEW a \in Access, InMemory(a.addr, a.size)
  PROVE  loaded(a) = loadedFrom(dmem, a.addr, a.size)
<1>1. a.size \in {1, 2, 4} BY DEF Access
<1>2. \A i \in {0, 1, 2, 3} : i < a.size => lane(a, i) = a.addr + i
  <2> SUFFICES ASSUME NEW i \in {0, 1, 2, 3}, i < a.size PROVE lane(a, i) = a.addr + i OBVIOUS
  <2>1. i \in 0..a.size - 1 BY <1>1
  <2> QED BY <2>1, Lanes
<1> QED BY <1>2 DEF loaded, loadedFrom

\* What the port stores lands where the run's memory has it.
LEMMA MergedIs ==
  ASSUME NEW a \in Access, InMemory(a.addr, a.size)
  PROVE  merged(a) = storedTo(dmem, a.addr, a.data, a.size)
<1>1. a.size \in {1, 2, 4} /\ a.addr \in Nat BY WordSame DEF Access
<1>2. \A i \in 0..a.size - 1 : lane(a, i) = a.addr + i BY Lanes
<1>3. ASSUME NEW b \in Bytes
      PROVE  (IF \E i \in 0..a.size - 1 : lane(a, i) = b
              THEN byteOf(a.data, CHOOSE i \in 0..a.size - 1 : lane(a, i) = b) ELSE dmem[b])
             = IF b \in a.addr .. a.addr + a.size - 1 THEN byteOf(a.data, b - a.addr) ELSE dmem[b]
  <2>1. b \in Nat BY PortsAssumption DEF Bytes
  <2>2. CASE b \in a.addr .. a.addr + a.size - 1
    <3>1. b - a.addr \in 0..a.size - 1 /\ a.addr + (b - a.addr) = b BY <1>1, <2>1, <2>2
    <3>2. lane(a, b - a.addr) = b BY <1>2, <3>1
    <3>3. \A i \in 0..a.size - 1 : lane(a, i) = b => i = b - a.addr BY <1>1, <1>2, <2>1
    <3>4. (CHOOSE i \in 0..a.size - 1 : lane(a, i) = b) = b - a.addr BY <3>1, <3>2, <3>3
    <3> QED BY <2>2, <3>1, <3>2, <3>4
  <2>3. CASE b \notin a.addr .. a.addr + a.size - 1
    <3>1. ~ \E i \in 0..a.size - 1 : lane(a, i) = b BY <1>1, <1>2, <2>1, <2>3
    <3> QED BY <2>3, <3>1
  <2> QED BY <2>2, <2>3
<1> QED BY <1>3 DEF merged, storedTo

\* A period that takes no access leaves those taken in the program's order.
LEMMA SeenSame ==
  ASSUME NEW T, Checking(T), Clock, accesses' = accesses
  PROVE  Seen'
<1>1. Seen /\ expected_accesses' = expected_accesses BY ClockFrame DEF Checking, PipelineOK
<1> QED BY <1>1 DEF Seen, seen

\* The access taken next is the program's next one.
LEMMA SeenNext ==
  ASSUME NEW T, Checking(T), Clock, em_access # None,
         Len(accesses) = T.acc[iM - 1],
         accesses' = IF Len(accesses) <= Len(expected_accesses)
                     THEN accesses \o <<em_access>> ELSE accesses
  PROVE  Seen' /\ Len(accesses') = T.acc[iM]
<1>1. Seen /\ RunOf(T) /\ expected_accesses' = expected_accesses
  BY ClockFrame DEF Checking, PipelineOK
<1>2. mem_read(em) \/ mem_write(em) BY EmRequest
<1>3. /\ em_access = [write |-> mem_write(em), addr |-> em.alu_result,
                      data |-> em.r_data_2, size |-> size(em.word.op)]
      /\ em_access \in Access
  BY EmRequest
<1>4. /\ iM - 1 \in 0..retired - 1 /\ iM \in Nat /\ em.alu_result = Res(T, iM - 1)
      /\ em.word = W(T, iM - 1) /\ W(T, iM - 1).op \in MemOps
      /\ mem_write(em) <=> W(T, iM - 1).op \in S_TYPE
  BY <1>2, EmAccess, Counts DEF Is
<1>5. Executes(T, iM - 1) /\ iM - 1 \in 0..retired /\ iM - 1 + 1 = iM BY <1>1, <1>4, RunSteps
<1>6. T.acc[iM - 1] \in Nat /\ T.acc[iM] = T.acc[iM - 1] + 1
  BY <1>1, <1>4, <1>5, RunTypes DEF Executes
<1>7. /\ T.acc[iM] \in DOMAIN expected_accesses
      /\ expected_accesses[T.acc[iM]] = [write |-> W(T, iM - 1).op \in S_TYPE, addr |-> em.alu_result,
                                         size |-> size(em.word.op)]
  BY <1>4, <1>5 DEF Executes, AccessOK
<1>8. mem_write(em) = (W(T, iM - 1).op \in S_TYPE)
  <2>1. em.valid BY <1>2, EmAccess
  <2> QED BY <1>4, <2>1 DEF mem_write
<1>9. seen(em_access) = expected_accesses[T.acc[iM]] BY <1>3, <1>7, <1>8 DEF seen
<1>10. expected_accesses \in Seq(Expected) BY <1>1 DEF RunOf
<1>11. DOMAIN expected_accesses = 1..Len(expected_accesses) /\ Len(expected_accesses) \in Nat
  BY <1>10
<1>12. Len(accesses) <= Len(expected_accesses) BY <1>6, <1>7, <1>11
<1>13. accesses' = accesses \o <<em_access>> BY <1>12
<1>14. accesses \in Seq(Access) BY <1>1 DEF Seen
<1>15. /\ accesses' \in Seq(Access) /\ Len(accesses') = Len(accesses) + 1
       /\ DOMAIN accesses = 1..Len(accesses) /\ DOMAIN accesses' = 1..Len(accesses) + 1
       /\ \A i \in 1..Len(accesses) : accesses'[i] = accesses[i]
       /\ accesses'[Len(accesses) + 1] = em_access
  <2>1. \A s \in Seq(Access), a \in Access :
          /\ s \o <<a>> \in Seq(Access) /\ Len(s \o <<a>>) = Len(s) + 1
          /\ DOMAIN s = 1..Len(s) /\ DOMAIN (s \o <<a>>) = 1..Len(s) + 1
          /\ \A i \in 1..Len(s) : (s \o <<a>>)[i] = s[i]
          /\ (s \o <<a>>)[Len(s) + 1] = a
    OBVIOUS
  <2>2. em_access \in Access BY <1>3
  <2>3. LET t == accesses \o <<em_access>>
        IN  /\ t \in Seq(Access) /\ Len(t) = Len(accesses) + 1
            /\ DOMAIN accesses = 1..Len(accesses) /\ DOMAIN t = 1..Len(accesses) + 1
            /\ \A i \in 1..Len(accesses) : t[i] = accesses[i]
            /\ t[Len(accesses) + 1] = em_access
    BY <1>14, <2>1, <2>2, Zenon
  <2> QED BY <1>13, <2>3, Zenon
<1>16. ASSUME NEW i \in DOMAIN accesses'
       PROVE  i \in DOMAIN expected_accesses /\ seen(accesses'[i]) = expected_accesses[i]
  <2>1. CASE i \in 1..Len(accesses) BY <1>1, <1>15, <2>1 DEF Seen
  <2>2. CASE i = Len(accesses) + 1 BY <1>6, <1>7, <1>9, <1>15, <2>2
  <2> QED BY <1>14, <1>15, <1>16, <2>1, <2>2
<1>17. Seen' BY <1>1, <1>15, <1>16 DEF Seen, seen
<1> QED BY <1>6, <1>15, <1>17

\* What the access of EX/MEM does to the memory is what the run's instruction does.
LEMMA MemoryDone ==
  ASSUME NEW T, Checking(T), em_access # None, dmem = T.mem[iM - 1]
  PROVE  /\ loaded(em_access) = loadedFrom(T.mem[iM - 1], em.alu_result, size(em.word.op))
         /\ loaded(em_access) \in Words
         /\ (IF em_access.write THEN merged(em_access) ELSE dmem) = T.mem[iM]
<1>1. mem_read(em) \/ mem_write(em) BY EmRequest
<1>2. /\ em_access = [write |-> mem_write(em), addr |-> em.alu_result,
                      data |-> em.r_data_2, size |-> size(em.word.op)]
      /\ em_access \in Access
  BY EmRequest
<1>3. /\ iM - 1 \in 0..retired - 1 /\ iM \in Nat /\ em.alu_result = Res(T, iM - 1)
      /\ em.word = W(T, iM - 1) /\ em.r_data_2 = T.regs[iM - 1][em.word.rs2]
      /\ em.alu_result \in Words
      /\ InMemory(em.alu_result, size(em.word.op))
      /\ (mem_write(em) <=> W(T, iM - 1).op \in S_TYPE)
  BY <1>1, EmAccess, Counts DEF Is
<1>4. RunOf(T) BY DEF Checking
<1>5. Executes(T, iM - 1) /\ iM - 1 \in 0..retired /\ iM - 1 + 1 = iM BY <1>3, <1>4, RunSteps
<1>6. InMemory(em_access.addr, em_access.size) BY <1>2, <1>3
<1>7. T.mem[iM - 1] \in [Bytes -> 0..BYTE - 1] BY <1>4, <1>5, RunTypes
<1>8. loaded(em_access) = loadedFrom(T.mem[iM - 1], em.alu_result, size(em.word.op))
  BY <1>2, <1>6, LoadedIs
<1>9. loaded(em_access) \in Words
  <2>1. em.alu_result \in Nat /\ em.alu_result + size(em.word.op) <= 4 * D_MEM_DEPTH
    BY <1>3, WordSame DEF InMemory
  <2> QED BY <1>7, <1>8, <2>1, SizeType, LoadIn
<1>10. merged(em_access) = storedTo(dmem, em.alu_result, em.r_data_2, size(em.word.op))
  BY <1>2, <1>6, MergedIs
<1>11. T.mem[iM] = NextMem(W(T, iM - 1), T.pc[iM - 1], T.regs[iM - 1], T.mem[iM - 1])
  BY <1>5 DEF Executes
<1>12. em_access.write <=> W(T, iM - 1).op \in S_TYPE BY <1>2, <1>3
<1>13. CASE W(T, iM - 1).op \in S_TYPE
  <2>1. T.mem[iM] = storedTo(T.mem[iM - 1], Res(T, iM - 1), T.regs[iM - 1][W(T, iM - 1).rs2],
                             size(W(T, iM - 1).op))
    BY <1>11, <1>13 DEF NextMem, Res
  <2>2. T.mem[iM] = storedTo(dmem, em.alu_result, em.r_data_2, size(em.word.op))
    BY <1>3, <2>1
  <2>3. (IF em_access.write THEN merged(em_access) ELSE dmem) = merged(em_access)
    BY <1>12, <1>13
  <2> QED BY <1>8, <1>9, <1>10, <2>2, <2>3
<1>14. CASE W(T, iM - 1).op \notin S_TYPE
  <2>1. T.mem[iM] = T.mem[iM - 1] BY <1>11, <1>14 DEF NextMem
  <2>2. (IF em_access.write THEN merged(em_access) ELSE dmem) = dmem BY <1>12, <1>14
  <2> QED BY <1>8, <1>9, <2>1, <2>2
<1> QED BY <1>13, <1>14

\* A stall moves the one access through issue, port and answer, and does it once.
LEMMA StallPort ==
  ASSUME NEW T, Checking(T), QueuesAre(T), Clock, req_stall
  PROVE  PortOK(T)' /\ Seen'
<1>1. em_access # None /\ ~Answered BY Stall
<1>2. /\ iM' = iM /\ ~wb'.valid /\ em' = em BY StallCounts
<1>3. em_access' = em_access BY <1>2 DEF em_access, mem_read, mem_write
<1>4. mem_read(em) \/ mem_write(em) BY <1>1, EmRequest
<1>5. iM <= retired /\ retired' = retired BY <1>4, EmAccess, ClockFrame
<1>6. reached = iM /\ reached' = iM BY <1>2, <1>5 DEF reached
<1>7. dmem = T.mem[iM - 1] BY <1>1, PortFacts
<1>8. ASSUME IoQuiet', dmem' = T.mem[iM - 1], ~Answered',
             \/ Asked' /\ Seen' /\ Len(accesses') = T.acc[iM - 1]
             \/ Working' /\ ~Asked' /\ ~Quiet' /\ Seen' /\ Len(accesses') = T.acc[iM]
      PROVE  PortOK(T)' /\ Seen'
  BY <1>1, <1>2, <1>3, <1>6, <1>8 DEF PortOK
<1>9. CASE Quiet
  <2>1. /\ lsu_state' = "RESP_WAITING" /\ cpu_data_in' = em_access /\ port' = None
        /\ cpu_ready_out' = TRUE /\ cpu_data_out' = None
        /\ IoQuiet' /\ dmem' = dmem /\ accesses' = accesses
    BY <1>1, <1>9, PortIssues
  <2>2. Asked' /\ ~Answered' BY <1>3, <2>1 DEF Asked, Answered
  <2>3. Len(accesses) = T.acc[iM - 1] BY <1>1, <1>9, PortFacts
  <2> QED BY <1>7, <1>8, <2>1, <2>2, <2>3, SeenSame
<1>10. CASE Asked
  <2>1. /\ lsu_state' = "RESP_WAITING" /\ cpu_data_out' = None /\ IoQuiet' /\ dmem' = dmem
        /\ \/ /\ port' = None /\ cpu_data_in' = em_access /\ cpu_ready_out' = TRUE
              /\ accesses' = accesses
           \/ /\ port' = em_access /\ cpu_ready_out' = FALSE
              /\ accesses' = IF Len(accesses) <= Len(expected_accesses)
                             THEN accesses \o <<em_access>> ELSE accesses
    BY <1>1, <1>10, PortAsked
  <2>2. ~Answered' BY <2>1 DEF Answered
  <2>3. Len(accesses) = T.acc[iM - 1] BY <1>1, <1>10, PortFacts
  <2>4. CASE port' = None /\ cpu_data_in' = em_access /\ cpu_ready_out' = TRUE /\ accesses' = accesses
    <3>1. Asked' BY <1>3, <2>1, <2>4 DEF Asked
    <3> QED BY <1>7, <1>8, <2>1, <2>2, <2>3, <2>4, <3>1, SeenSame
  <2>5. CASE /\ port' = em_access /\ cpu_ready_out' = FALSE
             /\ accesses' = IF Len(accesses) <= Len(expected_accesses)
                            THEN accesses \o <<em_access>> ELSE accesses
    <3>1. Working' /\ ~Asked' /\ ~Quiet' BY <1>1, <1>3, <2>1, <2>5 DEF Working, Asked, Quiet
    <3>2. Seen' /\ Len(accesses') = T.acc[iM] BY <1>1, <2>3, <2>5, SeenNext
    <3> QED BY <1>7, <1>8, <2>1, <2>2, <3>1, <3>2
  <2> QED BY <2>1, <2>4, <2>5
<1>11. CASE Working
  <2>1. /\ lsu_state' = "RESP_WAITING" /\ IoQuiet' /\ accesses' = accesses
        /\ \/ /\ port' = em_access /\ cpu_ready_out' = FALSE /\ cpu_data_out' = None
              /\ dmem' = dmem
           \/ /\ port' = None /\ cpu_data_in' = None /\ cpu_ready_out' = TRUE
              /\ cpu_data_out' = [data |-> loaded(em_access)]
              /\ dmem' = IF em_access.write THEN merged(em_access) ELSE dmem
    BY <1>1, <1>11, PortWorking
  <2>2. ~Quiet /\ ~Asked BY <1>1, <1>11 DEF Working, Quiet, Asked
  <2>3. Len(accesses) = T.acc[iM] BY <1>6, <2>2, PortFacts
  <2>4. Seen' BY <2>1, SeenSame
  <2>5. CASE port' = em_access /\ cpu_ready_out' = FALSE /\ cpu_data_out' = None /\ dmem' = dmem
    <3>1. Working' /\ ~Asked' /\ ~Quiet' /\ ~Answered'
      BY <1>1, <1>3, <2>1, <2>5 DEF Working, Asked, Quiet, Answered
    <3> QED BY <1>7, <1>8, <2>1, <2>3, <2>4, <2>5, <3>1
  <2>6. CASE /\ port' = None /\ cpu_data_in' = None /\ cpu_ready_out' = TRUE
             /\ cpu_data_out' = [data |-> loaded(em_access)]
             /\ dmem' = IF em_access.write THEN merged(em_access) ELSE dmem
    <3>1. /\ loaded(em_access) = loadedFrom(T.mem[iM - 1], em.alu_result, size(em.word.op))
          /\ loaded(em_access) \in Words
          /\ dmem' = T.mem[iM]
      BY <1>1, <1>7, <2>6, MemoryDone
    <3>2. cpu_data_out' # None
      <4>1. cpu_data_out' \in [data : Words] BY <2>6, <3>1
      <4> QED BY <4>1, PortsAssumption
    <3>3. Answered' /\ ~Asked' /\ ~Quiet' BY <2>1, <2>6, <3>2 DEF Answered, Asked, Quiet
    <3>4. cpu_data_out' = [data |-> loadedFrom(T.mem[iM' - 1], em'.alu_result, size(em'.word.op))]
      BY <1>2, <2>6, <3>1
    <3> QED BY <1>1, <1>2, <1>3, <1>6, <2>1, <2>3, <2>4, <3>1, <3>3, <3>4 DEF PortOK
  <2> QED BY <2>1, <2>5, <2>6
<1> QED BY <1>1, <1>9, <1>10, <1>11, PortFacts

-----------------------------------------------------------------------------
(* The period as a whole.                                                   *)

\* A request is not the absence of one.
LEMMA RequestIs ==
  ASSUME NEW w \in BOOLEAN, NEW addr \in Words, NEW d \in Words, NEW op
  PROVE  [write |-> w, addr |-> addr, data |-> d, size |-> size(op)] # None
<1>1. [write |-> w, addr |-> addr, data |-> d, size |-> size(op)] \in Access
  BY SizeType DEF Access
<1> QED BY <1>1, PipelineAssumption

\* An advance leaves the memory as far as the instructions that have passed it.
LEMMA AdvancePort ==
  ASSUME NEW T, Checking(T), QueuesAre(T), Ended(T), Clock, ~req_stall, n' < retired
  PROVE  PortOK(T)' /\ Seen'
<1>1. Quiet' /\ IoQuiet' /\ dmem' = dmem /\ accesses' = accesses BY PortRests
<1>2. Seen' BY <1>1, SeenSame
<1>3. ~Answered' BY <1>1 DEF Quiet, Answered
<1>4. em_access = None \/ Answered BY Stall
<1>5. ~(em_access # None /\ ~Answered) /\ ~(em_access # None /\ (Quiet \/ Asked))
  BY <1>4 DEF Quiet, Asked, Answered
<1>6. dmem = T.mem[reached] /\ Len(accesses) = T.acc[reached] BY <1>5, PortFacts
<1>7. n' = iW /\ iM' = iX /\ em'.valid = ex.valid /\ em'.word = ex.word BY AdvanceCounts
<1>8. iM <= retired BY <1>7, Counts
<1>9. reached = iM BY <1>8 DEF reached
<1>10. SameRun /\ retired' = retired BY ClockFrame DEF SameRun
<1>11. RunOf(T) BY DEF Checking
<1>12. EmOK(T)' /\ BeyondOK(T)' BY Stages
<1>13. CASE ex.valid /\ ex.word.op \in MemOps
  <2>1. ~Inert(em)' BY <1>7, <1>13 DEF Inert
  <2>2. iX # retired + 1 BY <1>7, <1>10, <1>12, <1>13, <2>1 DEF BeyondOK
  <2>3. iX <= retired /\ iX - 1 = iM /\ iX - 1 \in 0..retired - 1
    <3>1. iX = iM + 1 /\ iM \in Nat /\ retired \in Nat BY <1>13, Counts
    <3> QED BY <1>8, <2>2, <3>1
  <2>4. em_access' # None => PortOK(T)' BY <1>1, <1>3, <1>6, <1>7, <1>9, <2>3 DEF PortOK
  <2>5. em_access' # None
    <3>1. /\ ex.word = W(T, iX - 1) /\ InstructionOK(T, iX - 1)
          /\ T.regs[iX - 1] \in [Regs -> Words]
      BY <1>13, <2>3, ExIs
    <3>2. em'.alu_result = alu_result /\ em'.r_data_2 = rd_2_fwd BY AdvanceStep
    <3>3. em'.alu_result \in Words
      BY <1>11, <1>13, <2>3, <3>1, <3>2, AluResult, ResultType
    <3>4. em'.r_data_2 \in Words
      <4>1. em'.r_data_2 = T.regs[iX - 1][ex.word.rs2] BY <1>13, <2>3, <3>2, AluResult
      <4>2. ex.word.rs2 \in Regs BY <3>1 DEF InstructionOK
      <4> QED BY <3>1, <4>1, <4>2
    <3>5. mem_read(em)' \/ mem_write(em)' BY <1>7, <1>13 DEF mem_read, mem_write, MemOps
    <3>6. mem_write(em)' \in BOOLEAN BY <1>7, <1>13 DEF mem_write
    <3>7. em_access' = [write |-> mem_write(em)', addr |-> em'.alu_result,
                        data |-> em'.r_data_2, size |-> size(em'.word.op)]
      BY <3>5 DEF em_access
    <3> QED BY <3>3, <3>4, <3>6, <3>7, RequestIs
  <2> QED BY <1>2, <2>4, <2>5
<1>14. CASE ~(ex.valid /\ ex.word.op \in MemOps)
  <2>1. ~mem_read(em)' /\ ~mem_write(em)' BY <1>7, <1>14 DEF mem_read, mem_write, MemOps
  <2>2. em_access' = None BY <2>1 DEF em_access
  <2>3. reached' = IF iX <= retired THEN iX ELSE retired BY <1>7, <1>10 DEF reached
  <2>4. T.mem[reached'] = T.mem[iM] /\ T.acc[reached'] = T.acc[iM]
    <3>1. CASE ~ex.valid BY <1>8, <2>3, <3>1, Counts
    <3>2. CASE ex.valid /\ iX <= retired
      <4>1. iX - 1 \in 0..retired - 1 /\ iX - 1 = iM /\ iX - 1 + 1 = iX /\ ex.word = W(T, iX - 1)
        BY <3>2, ExIs
      <4>2. T.mem[iX - 1 + 1] = T.mem[iX - 1] /\ T.acc[iX - 1 + 1] = T.acc[iX - 1]
        BY <1>11, <1>14, <3>2, <4>1, MemStep
      <4> QED BY <2>3, <3>2, <4>1, <4>2
    <3>3. CASE ex.valid /\ ~(iX <= retired)
      <4>1. iM = retired
        <5>1. iX = iM + 1 /\ iM \in Nat /\ retired \in Nat BY <3>3, Counts
        <5> QED BY <1>8, <3>3, <5>1
      <4> QED BY <2>3, <3>3, <4>1
    <3> QED BY <3>1, <3>2, <3>3
  <2>5. PortOK(T)' BY <1>1, <1>3, <1>6, <1>9, <2>2, <2>4 DEF PortOK
  <2> QED BY <1>2, <2>5
<1> QED BY <1>13, <1>14

\* With the last comparison, everything the program stores is in memory.
LEMMA LastStep ==
  ASSUME NEW T, Checking(T), QueuesAre(T), Clock, n' = retired
  PROVE  dmem' = T.mem[retired] /\ Len(accesses') = T.acc[retired] /\ Seen'
<1>1. iW = retired /\ wb.valid
  <2>1. iW = retired BY CompareStep
  <2> QED BY <2>1, Counts
<1>2. em_access = None
  <2> SUFFICES ASSUME em_access # None PROVE FALSE OBVIOUS
  <2>1. mem_read(em) \/ mem_write(em) BY EmRequest
  <2>2. iM - 1 \in 0..retired - 1 /\ iM - 1 = iW BY <2>1, EmAccess
  <2>3. retired \in Nat BY Counts
  <2> QED BY <1>1, <2>2, <2>3
<1>3. ~req_stall BY <1>2, Stall
<1>4. dmem' = dmem /\ accesses' = accesses BY <1>3, PortRests
<1>5. reached = retired BY <1>1, Counts DEF reached
<1>6. dmem = T.mem[reached] /\ Len(accesses) = T.acc[reached] BY <1>2, PortFacts
<1> QED BY <1>4, <1>5, <1>6, SeenSame

\* One period of the clock.
LEMMA ClockStep ==
  ASSUME NEW T, RunOf(T), PipelineOK(T), QueuesAre(T), Ended(T), n < retired, Clock
  PROVE  error' = error /\ PipelineOK(T)' /\ QueuesAre(T)'
<1>1. Checking(T) BY DEF Checking
<1>2. error' = error /\ n' = iW /\ QueuesAre(T)' BY <1>1, CompareStep
<1>3. SameRun /\ imem' = imem /\ retired' = retired BY ClockFrame DEF SameRun
<1>4. code' = code BY <1>3, RunFrame
<1>5. Len(code') \in 0..IMEM_DEPTH /\ imem' = padded(code', IMEM_DEPTH, ZeroWord)
  BY <1>3, <1>4 DEF PipelineOK
<1>6. n' \in 0..retired BY <1>1, <1>2, Counts
<1>7. file' = T.regs[n'] BY <1>1, <1>2, ClockFetch, FileWritten
<1>8. CASE n' < retired
  <2>1. /\ WbOK(T)' /\ EmOK(T)' /\ ExOK(T)' /\ IdOK(T)' /\ FetchOK(T)'
        /\ BeyondOK(T)' /\ BtbOK'
    BY <1>1, <1>8, Stages
  <2>2. PortOK(T)' /\ Seen' BY <1>1, <1>8, StallPort, AdvancePort
  <2>3. ~(n' = retired) BY <1>6, <1>8
  <2> QED BY <1>2, <1>3, <1>5, <1>6, <1>7, <2>1, <2>2, <2>3 DEF PipelineOK
<1>9. CASE ~(n' < retired)
  <2>1. n' = retired BY <1>1, <1>6, <1>9, Counts
  <2>2. dmem' = T.mem[retired] /\ Len(accesses') = T.acc[retired] /\ Seen'
    BY <1>1, <2>1, LastStep
  <2> QED BY <1>2, <1>3, <1>5, <1>6, <1>7, <1>9, <2>1, <2>2 DEF PipelineOK
<1> QED BY <1>8, <1>9

-----------------------------------------------------------------------------
(* The golden model and the assembler read the same source.                 *)

\* The golden model's opcode lists are the core's classes.
LEMMA Lists ==
  /\ GoldenModel!lists.r_type_instr = R_TYPE /\ GoldenModel!lists.i_type_4_instr = I_TYPE_4
  /\ GoldenModel!lists.b_type_instr = B_TYPE /\ GoldenModel!lists.j_type_instr = J_TYPE
  /\ GoldenModel!lists.i_type_2_instr = I_TYPE_2 /\ GoldenModel!lists.s_type_instr = S_TYPE
  /\ GoldenModel!lists.i_type_3_instr = I_TYPE_3
  /\ GoldenModel!lists.u_type_instr = U_TYPE_1 \union U_TYPE_2
BY DEF GoldenModel!lists, R_TYPE, I_TYPE_4, B_TYPE, J_TYPE, I_TYPE_2, S_TYPE, I_TYPE_3,
       U_TYPE_1, U_TYPE_2

\* An opcode is of one class.
LEMMA Disjoint ==
  \A op :
  /\ op \in R_TYPE => op \notin I_TYPE_4 \union B_TYPE \union J_TYPE \union I_TYPE_2 \union S_TYPE
                       \union I_TYPE_3 \union U_TYPE_1 \union U_TYPE_2 \union {"nop", "ebreak", "li"}
  /\ op \in I_TYPE_4 => op \notin B_TYPE \union J_TYPE \union I_TYPE_2 \union S_TYPE
                       \union I_TYPE_3 \union U_TYPE_1 \union U_TYPE_2 \union {"nop", "ebreak", "li"}
  /\ op \in B_TYPE => op \notin J_TYPE \union I_TYPE_2 \union S_TYPE
                       \union I_TYPE_3 \union U_TYPE_1 \union U_TYPE_2 \union {"nop", "ebreak", "li"}
  /\ op \in J_TYPE => op \notin I_TYPE_2 \union S_TYPE
                       \union I_TYPE_3 \union U_TYPE_1 \union U_TYPE_2 \union {"nop", "ebreak", "li"}
  /\ op \in I_TYPE_2 => op \notin S_TYPE
                       \union I_TYPE_3 \union U_TYPE_1 \union U_TYPE_2 \union {"nop", "ebreak", "li"}
  /\ op \in S_TYPE => op \notin I_TYPE_3 \union U_TYPE_1 \union U_TYPE_2 \union {"nop", "ebreak", "li"}
  /\ op \in I_TYPE_3 => op \notin U_TYPE_1 \union U_TYPE_2 \union {"nop", "ebreak", "li"}
  /\ op \in U_TYPE_1 \union U_TYPE_2 => op \notin {"nop", "ebreak", "li"}
  /\ op \in Shifts => op \in I_TYPE_4
BY DEF R_TYPE, I_TYPE_4, B_TYPE, J_TYPE, I_TYPE_2, S_TYPE, I_TYPE_3, U_TYPE_1, U_TYPE_2, Shifts

\* With a label defined once, the last definition is the one the assembler finds.
LEMMA Labels ==
  ASSUME SourceRead, NEW lab \in DOMAIN label_dic
  PROVE  label_dic[lab] = address(program.lines, lab) /\ label_dic[lab] \in Int
<1> DEFINE lines == program.lines
           L == GoldenModel!labelled(lines, lab)
           at == CHOOSE i \in DOMAIN lines : lab \in lines[i].labels
<1>1. label_dic[lab] = 4 * GoldenModel!before(lines, Max(L))
  BY DEF SourceRead
<1>2. lab \in UNION {lines[i].labels : i \in DOMAIN lines} BY DEF SourceRead
<1>3. PICK j \in DOMAIN lines : lab \in lines[j].labels BY <1>2
<1>4. at \in DOMAIN lines /\ lab \in lines[at].labels BY <1>3
<1>5. L = {at}
  <2>1. ASSUME NEW i \in DOMAIN lines, lab \in lines[i].labels PROVE i = at
    <3>1. lab \in lines[i].labels \intersect lines[at].labels BY <1>4, <2>1
    <3> QED BY <1>4, <3>1, SourceAssumption DEF SourceRead
  <2> QED BY <1>4, <2>1 DEF GoldenModel!labelled
<1>6. at \in Int
  <2>1. DOMAIN lines \subseteq Int BY SourceAssumption DEF SourceRead
  <2> HIDE DEF at
  <2> QED BY <1>4, <2>1
<1>7. Max(L) = at
  <2> HIDE DEF at
  <2>1. \A y \in L : at >= y BY <1>5, <1>6
  <2> QED BY <1>5, <2>1 DEF Max
<1> DEFINE C == {i \in 1..at - 1 : lines[i].text # None}
<1>8. Cardinality(C) \in Nat
  <2> HIDE DEF at
  <2>1. IsFiniteSet(1..at - 1) BY <1>6, FS_Interval
  <2>2. C \in SUBSET (1..at - 1) OBVIOUS
  <2>3. IsFiniteSet(C) BY <2>1, <2>2, FS_Subset
  <2> QED BY <2>3, FS_CardinalityType
<1>9. GoldenModel!before(lines, Max(L)) = Cardinality(C)
  <2>1. GoldenModel!before(lines, at) = Cardinality(C)
    BY DEF GoldenModel!before, GoldenModel!Cardinality, Cardinality
  <2> HIDE DEF at, C, L
  <2> QED BY <1>7, <2>1
<1>10. address(lines, lab) = 4 * Cardinality(C) BY DEF address
<1> QED BY <1>1, <1>8, <1>9, <1>10

\* The assembler has a word for each line of the golden model.
LEMMA CodeIs ==
  ASSUME SourceRead
  PROVE  /\ Len(instrs) \in Nat /\ DOMAIN instrs = 1..Len(instrs) /\ Len(code) = Len(instrs)
         /\ \A k \in 1..Len(instrs) :
              /\ WellFormed(instrs[k])
              /\ code[k] = encode(program.lines, instrs[k], 4 * (k - 1))
<1>1. /\ Len(instrs) \in Nat /\ DOMAIN instrs = 1..Len(instrs)
      /\ \A k \in DOMAIN instrs : WellFormed(instrs[k])
  BY SourceAssumption DEF SourceRead
<1>2. code = [k \in DOMAIN instrs |-> encode(program.lines, instrs[k], 4 * (k - 1))]
  BY DEF SourceRead, code, assemble, GoldenModel!instructions
<1>3. code = [k \in 1..Len(instrs) |-> encode(program.lines, instrs[k], 4 * (k - 1))]
  BY <1>1, <1>2
<1>4. Len(code) = Len(instrs)
  <2> DEFINE e(k) == encode(program.lines, instrs[k], 4 * (k - 1))
             s == [k \in 1..Len(instrs) |-> e(k)]
  <2>1. s \in Seq({e(k) : k \in 1..Len(instrs)})
    <3> HIDE DEF e
    <3> QED BY <1>1
  <2>2. DOMAIN s = 1..Len(s) /\ Len(s) \in Nat BY <2>1
  <2>3. DOMAIN s = 1..Len(instrs) OBVIOUS
  <2>4. \A x, y \in Nat : 1..x = 1..y => x = y
    <3> SUFFICES ASSUME NEW x \in Nat, NEW y \in Nat, 1..x = 1..y PROVE x = y OBVIOUS
    <3>1. x <= y
      <4>1. x > 0 => x \in 1..x OBVIOUS
      <4> QED BY <4>1
    <3>2. y <= x
      <4>1. y > 0 => y \in 1..y OBVIOUS
      <4> QED BY <4>1
    <3> QED BY <3>1, <3>2
  <2>5. Len(s) = Len(instrs)
    <3> HIDE DEF s
    <3> QED BY <1>1, <2>2, <2>3, <2>4
  <2> QED BY <1>3, <2>5
<1> QED BY <1>1, <1>3, <1>4

\* A line the golden model can decode and the word the assembler makes of it agree.
LEMMA Decoded ==
  ASSUME SourceRead, NEW k \in 1..Len(instrs), NEW i, NEW w,
         i = GoldenModel!decode_instr(instrs[k], k - 1),
         w = encode(program.lines, instrs[k], 4 * (k - 1)),
         ~i.wrong, ~i.stop
  PROVE  Agrees(i, w)
<1> DEFINE op   == instrs[k].op
           args == instrs[k].args
           here == 4 * (k - 1)
           lab  == Len(args) > 0 /\ args[Len(args)] \in DOMAIN label_dic
           field(rd, rs1, rs2, imm) ==
             [op |-> op, rd |-> rd, rs1 |-> rs1, rs2 |-> rs2, imm |-> word(imm)]
           to(a) == address(program.lines, a)
<1>1. i = GoldenModel!operands(op, args, k - 1) BY DEF GoldenModel!decode_instr
<1>2. Len(instrs) \in Nat /\ WellFormed(instrs[k]) BY CodeIs
<1>3. here \in Int /\ (k - 1) * 4 = here BY <1>2
<1>4. 0 \in Regs /\ 0 \in Int /\ UPPER \in Int BY PipelineAssumption, WordAssumption
<1>5. \A a \in DOMAIN label_dic : label_dic[a] = to(a) /\ to(a) \in Int BY Labels
<1>6. \A y \in Immediates : y \in Int /\ shamt(y) \in Int
  <2>1. \A y \in Immediates : y \in Int BY WordTypes DEF Immediates
  <2>2. \A y \in Int : shamt(y) \in Int BY Shift, WordTypes
  <2> QED BY <2>1, <2>2
<1>7. \A y \in Int : word(y) \in Words BY WordIn
<1> HIDE DEF op, args, here, to
<1>10. CASE op \in R_TYPE
  <2>1. Len(args) = 3 /\ i = [GoldenModel!parsed(op, "r_type") EXCEPT
                                !.rd = args[1], !.r1 = args[2], !.r2 = args[3]]
    BY <1>1, <1>10, Lists, Disjoint DEF GoldenModel!operands, GoldenModel!instr_wrong, GoldenModel!parsed
  <2>2. w = field(args[1], args[2], args[3], 0)
    <3>1. op \notin Shifts BY <1>10, Disjoint
    <3> QED BY <1>10, <2>1, <3>1, Disjoint DEF encode, op, args, Shifts
  <2>3. args[1] \in Regs /\ args[2] \in Regs /\ args[3] \in Regs
    BY <1>2, <1>10, <2>1 DEF WellFormed, op, args
  <2>4. i.opcode = op /\ i.instr_class = "r_type" /\ i.rd = args[1] /\ i.r1 = args[2] /\ i.r2 = args[3]
    BY <2>1 DEF GoldenModel!parsed
  <2>5. w.op = op /\ w.rd = args[1] /\ w.rs1 = args[2] /\ w.rs2 = args[3] /\ w.imm = word(0)
    BY <2>2
  <2>6. w.imm \in Words BY <1>4, <1>7, <2>5
  <2> QED BY <1>10, <2>3, <2>4, <2>5, <2>6 DEF Agrees, AgreesR, Same
<1>11. CASE op \in I_TYPE_4
  <2>1. Len(args) = 3 /\ i = [GoldenModel!parsed(op, "i_type_4") EXCEPT
                                !.rd = args[1], !.r1 = args[2], !.imm = args[3]]
    BY <1>1, <1>11, Lists, Disjoint DEF GoldenModel!operands, GoldenModel!instr_wrong, GoldenModel!parsed
  <2>2. w = field(args[1], args[2], 0, IF op \in Shifts THEN shamt(args[3]) ELSE args[3])
    BY <1>11, <2>1, Disjoint DEF encode, op, args, Shifts
  <2>3. args[1] \in Regs /\ args[2] \in Regs /\ args[3] \in Immediates
    BY <1>2, <1>11, <2>1 DEF WellFormed, op, args
  <2>4. i.opcode = op /\ i.instr_class = "i_type_4" /\ i.rd = args[1] /\ i.r1 = args[2] /\ i.imm = args[3]
    BY <2>1 DEF GoldenModel!parsed
  <2>5. /\ w.op = op /\ w.rd = args[1] /\ w.rs1 = args[2] /\ w.rs2 = 0
        /\ w.imm = word(IF op \in Shifts THEN shamt(args[3]) ELSE args[3])
    BY <2>2
  <2>6. w.imm \in Words BY <1>6, <1>7, <2>3, <2>5
  <2> QED BY <1>4, <1>11, <2>3, <2>4, <2>5, <2>6 DEF Agrees, AgreesI, Same
<1>12. CASE op \in B_TYPE
  <2>1. /\ Len(args) = 3 /\ args[3] \in DOMAIN label_dic
        /\ i = [GoldenModel!parsed(op, "b_type") EXCEPT
                  !.r1 = args[1], !.r2 = args[2], !.b_offset = label_dic[args[3]] - here]
    BY <1>1, <1>3, <1>12, Lists, Disjoint
       DEF GoldenModel!operands, GoldenModel!instr_wrong, GoldenModel!parsed
  <2>2. w = field(0, args[1], args[2], to(args[3]) - here)
    BY <1>12, Disjoint DEF encode, op, args, to, here
  <2>3. args[1] \in Regs /\ args[2] \in Regs
    BY <1>2, <1>12, <2>1 DEF WellFormed, op, args
  <2>4. to(args[3]) - here \in Int /\ label_dic[args[3]] - here = to(args[3]) - here
    BY <1>3, <1>5, <2>1
  <2>5. /\ i.opcode = op /\ i.instr_class = "b_type" /\ i.rd = 0 /\ i.r1 = args[1] /\ i.r2 = args[2]
        /\ i.b_offset = to(args[3]) - here
    BY <2>1, <2>4 DEF GoldenModel!parsed
  <2>6. /\ w.op = op /\ w.rd = 0 /\ w.rs1 = args[1] /\ w.rs2 = args[2]
        /\ w.imm = word(to(args[3]) - here)
    BY <2>2
  <2>7. w.imm \in Words BY <1>7, <2>4, <2>6
  <2> QED BY <1>4, <1>12, <2>3, <2>4, <2>5, <2>6, <2>7 DEF Agrees, AgreesB, Same
<1>13. CASE op \in J_TYPE
  <2>1. /\ Len(args) = 2 /\ args[2] \in DOMAIN label_dic
        /\ i = [GoldenModel!parsed(op, "j_type") EXCEPT
                  !.rd = args[1], !.j_offset = label_dic[args[2]] - here]
    BY <1>1, <1>3, <1>13, Lists, Disjoint
       DEF GoldenModel!operands, GoldenModel!instr_wrong, GoldenModel!parsed
  <2>2. w = field(args[1], 0, 0, to(args[2]) - here)
    BY <1>13, Disjoint DEF encode, op, args, to, here
  <2>3. args[1] \in Regs BY <1>2, <1>13, <2>1 DEF WellFormed, op, args
  <2>4. to(args[2]) - here \in Int /\ label_dic[args[2]] - here = to(args[2]) - here
    BY <1>3, <1>5, <2>1
  <2>5. /\ i.opcode = op /\ i.instr_class = "j_type" /\ i.rd = args[1]
        /\ i.j_offset = to(args[2]) - here
    BY <2>1, <2>4 DEF GoldenModel!parsed
  <2>6. /\ w.op = op /\ w.rd = args[1] /\ w.rs1 = 0 /\ w.rs2 = 0
        /\ w.imm = word(to(args[2]) - here)
    BY <2>2
  <2>7. w.imm \in Words BY <1>7, <2>4, <2>6
  <2> QED BY <1>4, <1>13, <2>3, <2>4, <2>5, <2>6, <2>7 DEF Agrees, AgreesJ, Same
<1>14. CASE op \in I_TYPE_2 /\ Len(args) = 3
  <2>1. i = [GoldenModel!parsed(op, "i_type_2") EXCEPT
               !.rd = args[1], !.r1 = args[2], !.imm = args[3]]
    BY <1>1, <1>14, Lists, Disjoint DEF GoldenModel!operands, GoldenModel!instr_wrong, GoldenModel!parsed
  <2>2. w = field(args[1], args[2], 0, args[3])
    BY <1>14, Disjoint DEF encode, op, args, Shifts
  <2>3. args[1] \in Regs /\ args[2] \in Regs /\ args[3] \in Immediates
    BY <1>2, <1>14, <2>1 DEF WellFormed, op, args
  <2>4. i.opcode = op /\ i.instr_class = "i_type_2" /\ i.rd = args[1] /\ i.r1 = args[2] /\ i.imm = args[3]
    BY <2>1 DEF GoldenModel!parsed
  <2>5. w.op = op /\ w.rd = args[1] /\ w.rs1 = args[2] /\ w.rs2 = 0 /\ w.imm = word(args[3])
    BY <2>2
  <2>6. w.imm \in Words BY <1>6, <1>7, <2>3, <2>5
  <2> QED BY <1>4, <1>14, <2>3, <2>4, <2>5, <2>6 DEF Agrees, AgreesJR, Same
<1>15. CASE op \in I_TYPE_2 /\ Len(args) # 3
  <2>1. Len(args) = 2 /\ i = [GoldenModel!parsed(op, "i_type_2") EXCEPT
               !.rd = args[1], !.r1 = args[2].reg, !.imm = args[2].imm]
    BY <1>1, <1>15, Lists, Disjoint DEF GoldenModel!operands, GoldenModel!instr_wrong, GoldenModel!parsed
  <2>2. w = field(args[1], args[2].reg, 0, args[2].imm)
    BY <1>15, <2>1, Disjoint DEF encode, op, args, Shifts
  <2>3. args[1] \in Regs /\ args[2].reg \in Regs /\ args[2].imm \in Immediates
    BY <1>2, <1>15, <2>1 DEF WellFormed, OffsetBase, op, args
  <2>4. /\ i.opcode = op /\ i.instr_class = "i_type_2" /\ i.rd = args[1] /\ i.r1 = args[2].reg
        /\ i.imm = args[2].imm
    BY <2>1 DEF GoldenModel!parsed
  <2>5. w.op = op /\ w.rd = args[1] /\ w.rs1 = args[2].reg /\ w.rs2 = 0 /\ w.imm = word(args[2].imm)
    BY <2>2
  <2>6. w.imm \in Words BY <1>6, <1>7, <2>3, <2>5
  <2> QED BY <1>4, <1>15, <2>3, <2>4, <2>5, <2>6 DEF Agrees, AgreesJR, Same
<1>16. CASE op \in S_TYPE
  <2>1. Len(args) = 2 /\ i = [GoldenModel!parsed(op, "s_type") EXCEPT
               !.r2 = args[1], !.r1 = args[2].reg, !.imm = args[2].imm]
    BY <1>1, <1>16, Lists, Disjoint DEF GoldenModel!operands, GoldenModel!instr_wrong, GoldenModel!parsed
  <2>2. w = field(0, args[2].reg, args[1], args[2].imm)
    BY <1>16, <2>1, Disjoint DEF encode, op, args, Shifts
  <2>3. args[1] \in Regs /\ args[2].reg \in Regs /\ args[2].imm \in Immediates
    BY <1>2, <1>16, <2>1 DEF WellFormed, OffsetBase, op, args
  <2>4. /\ i.opcode = op /\ i.instr_class = "s_type" /\ i.rd = 0 /\ i.r1 = args[2].reg
        /\ i.r2 = args[1] /\ i.imm = args[2].imm
    BY <2>1 DEF GoldenModel!parsed
  <2>5. /\ w.op = op /\ w.rd = 0 /\ w.rs1 = args[2].reg /\ w.rs2 = args[1]
        /\ w.imm = word(args[2].imm)
    BY <2>2
  <2>6. w.imm \in Words BY <1>6, <1>7, <2>3, <2>5
  <2> QED BY <1>4, <1>16, <2>3, <2>4, <2>5, <2>6 DEF Agrees, AgreesS, Same
<1>17. CASE op \in I_TYPE_3
  <2>1. Len(args) = 2 /\ i = [GoldenModel!parsed(op, "i_type_3") EXCEPT
               !.rd = args[1], !.r1 = args[2].reg, !.imm = args[2].imm]
    BY <1>1, <1>17, Lists, Disjoint DEF GoldenModel!operands, GoldenModel!instr_wrong, GoldenModel!parsed
  <2>2. w = field(args[1], args[2].reg, 0, args[2].imm)
    BY <1>17, <2>1, Disjoint DEF encode, op, args, Shifts
  <2>3. args[1] \in Regs /\ args[2].reg \in Regs /\ args[2].imm \in Immediates
    BY <1>2, <1>17, <2>1 DEF WellFormed, OffsetBase, op, args
  <2>4. /\ i.opcode = op /\ i.instr_class = "i_type_3" /\ i.rd = args[1] /\ i.r1 = args[2].reg
        /\ i.imm = args[2].imm
    BY <2>1 DEF GoldenModel!parsed
  <2>5. w.op = op /\ w.rd = args[1] /\ w.rs1 = args[2].reg /\ w.rs2 = 0 /\ w.imm = word(args[2].imm)
    BY <2>2
  <2>6. w.imm \in Words BY <1>6, <1>7, <2>3, <2>5
  <2> QED BY <1>4, <1>17, <2>3, <2>4, <2>5, <2>6 DEF Agrees, AgreesL, Same
<1>18. CASE op \in U_TYPE_1 \union U_TYPE_2
  <2>1. Len(args) = 2 /\ i = [GoldenModel!parsed(op, "u_type") EXCEPT !.rd = args[1], !.imm = args[2]]
    BY <1>1, <1>18, Lists, Disjoint DEF GoldenModel!operands, GoldenModel!instr_wrong, GoldenModel!parsed
  <2>2. w = field(args[1], 0, 0, args[2] * UPPER)
    BY <1>18, <2>1, Disjoint DEF encode, op, args, Shifts
  <2>3. args[1] \in Regs /\ args[2] \in Int BY <1>2, <1>18, <2>1 DEF WellFormed, op, args
  <2>4. i.opcode = op /\ i.instr_class = "u_type" /\ i.rd = args[1] /\ i.imm = args[2]
    BY <2>1 DEF GoldenModel!parsed
  <2>5. w.op = op /\ w.rd = args[1] /\ w.rs1 = 0 /\ w.rs2 = 0 /\ w.imm = word(args[2] * UPPER)
    BY <2>2
  <2>6. w.imm \in Words
    <3>1. args[2] * UPPER \in Int BY <1>4, <2>3
    <3> QED BY <1>7, <2>5, <3>1
  <2> QED BY <1>4, <1>18, <2>3, <2>4, <2>5, <2>6 DEF Agrees, AgreesU, Same
<1>19. CASE op = "nop"
  <2>1. i = GoldenModel!parsed(op, "nop_type")
    BY <1>1, <1>19, Lists, Disjoint DEF GoldenModel!operands
  <2>2. w = [op |-> "addi", rd |-> 0, rs1 |-> 0, rs2 |-> 0, imm |-> 0]
    BY <1>19, Disjoint DEF encode, op, args, Shifts
  <2>3. 0 \in Words BY WordTypes DEF Words
  <2> QED BY <1>4, <1>19, <2>1, <2>2, <2>3 DEF GoldenModel!parsed, Agrees, AgreesN
<1>20. CASE op \notin R_TYPE \union I_TYPE_4 \union B_TYPE \union J_TYPE \union I_TYPE_2 \union S_TYPE
                        \union I_TYPE_3 \union U_TYPE_1 \union U_TYPE_2 \union {"nop"}
  <2>1. CASE op = "ebreak"
    <3>1. i = [GoldenModel!parsed(op, "stop") EXCEPT !.stop = TRUE]
      BY <1>1, <1>20, <2>1, Lists, Disjoint DEF GoldenModel!operands
    <3> QED BY <3>1 DEF GoldenModel!parsed
  <2>2. CASE op # "ebreak"
    <3>1. i = GoldenModel!instr_wrong(op)
      BY <1>1, <1>20, <2>2, Lists DEF GoldenModel!operands
    <3> QED BY <3>1 DEF GoldenModel!parsed, GoldenModel!instr_wrong
  <2> QED BY <2>1, <2>2
<1> QED BY <1>10, <1>11, <1>12, <1>13, <1>14, <1>15, <1>16, <1>17, <1>18, <1>19, <1>20

-----------------------------------------------------------------------------
(* The golden model executes a line as the core executes its word.          *)

\* The sum of the bits of a word.
LEMMA BitSum ==
  ASSUME NEW f, \A i \in 0..31 : f[i] \in {0, IF i < WORD_BITS THEN 2 ^ i ELSE 0}
  PROVE  /\ (((f[0] + f[1] + f[2] + f[3]) + (f[4] + f[5] + f[6] + f[7]))
             + ((f[8] + f[9] + f[10] + f[11]) + (f[12] + f[13] + f[14] + f[15]))
             + ((f[16] + f[17] + f[18] + f[19]) + (f[20] + f[21] + f[22] + f[23]))
             + ((f[24] + f[25] + f[26] + f[27]) + (f[28] + f[29] + f[30] + f[31]))) \in Words
<1>1. /\ f[0] \in {0, IF 0 < WORD_BITS THEN 2 ^ 0 ELSE 0}
      /\ f[1] \in {0, IF 1 < WORD_BITS THEN 2 ^ 1 ELSE 0}
      /\ f[2] \in {0, IF 2 < WORD_BITS THEN 2 ^ 2 ELSE 0}
      /\ f[3] \in {0, IF 3 < WORD_BITS THEN 2 ^ 3 ELSE 0}
  OBVIOUS
<1>2. /\ f[4] \in {0, IF 4 < WORD_BITS THEN 2 ^ 4 ELSE 0}
      /\ f[5] \in {0, IF 5 < WORD_BITS THEN 2 ^ 5 ELSE 0}
      /\ f[6] \in {0, IF 6 < WORD_BITS THEN 2 ^ 6 ELSE 0}
      /\ f[7] \in {0, IF 7 < WORD_BITS THEN 2 ^ 7 ELSE 0}
  OBVIOUS
<1>3. /\ f[8] \in {0, IF 8 < WORD_BITS THEN 2 ^ 8 ELSE 0}
      /\ f[9] \in {0, IF 9 < WORD_BITS THEN 2 ^ 9 ELSE 0}
      /\ f[10] \in {0, IF 10 < WORD_BITS THEN 2 ^ 10 ELSE 0}
      /\ f[11] \in {0, IF 11 < WORD_BITS THEN 2 ^ 11 ELSE 0}
  OBVIOUS
<1>4. /\ f[12] \in {0, IF 12 < WORD_BITS THEN 2 ^ 12 ELSE 0}
      /\ f[13] \in {0, IF 13 < WORD_BITS THEN 2 ^ 13 ELSE 0}
      /\ f[14] \in {0, IF 14 < WORD_BITS THEN 2 ^ 14 ELSE 0}
      /\ f[15] \in {0, IF 15 < WORD_BITS THEN 2 ^ 15 ELSE 0}
  OBVIOUS
<1>5. /\ f[16] \in {0, IF 16 < WORD_BITS THEN 2 ^ 16 ELSE 0}
      /\ f[17] \in {0, IF 17 < WORD_BITS THEN 2 ^ 17 ELSE 0}
      /\ f[18] \in {0, IF 18 < WORD_BITS THEN 2 ^ 18 ELSE 0}
      /\ f[19] \in {0, IF 19 < WORD_BITS THEN 2 ^ 19 ELSE 0}
  OBVIOUS
<1>6. /\ f[20] \in {0, IF 20 < WORD_BITS THEN 2 ^ 20 ELSE 0}
      /\ f[21] \in {0, IF 21 < WORD_BITS THEN 2 ^ 21 ELSE 0}
      /\ f[22] \in {0, IF 22 < WORD_BITS THEN 2 ^ 22 ELSE 0}
      /\ f[23] \in {0, IF 23 < WORD_BITS THEN 2 ^ 23 ELSE 0}
  OBVIOUS
<1>7. /\ f[24] \in {0, IF 24 < WORD_BITS THEN 2 ^ 24 ELSE 0}
      /\ f[25] \in {0, IF 25 < WORD_BITS THEN 2 ^ 25 ELSE 0}
      /\ f[26] \in {0, IF 26 < WORD_BITS THEN 2 ^ 26 ELSE 0}
      /\ f[27] \in {0, IF 27 < WORD_BITS THEN 2 ^ 27 ELSE 0}
  OBVIOUS
<1>8. /\ f[28] \in {0, IF 28 < WORD_BITS THEN 2 ^ 28 ELSE 0}
      /\ f[29] \in {0, IF 29 < WORD_BITS THEN 2 ^ 29 ELSE 0}
      /\ f[30] \in {0, IF 30 < WORD_BITS THEN 2 ^ 30 ELSE 0}
      /\ f[31] \in {0, IF 31 < WORD_BITS THEN 2 ^ 31 ELSE 0}
  OBVIOUS
<1>10. CASE WORD_BITS = 4
  <2>1. (f[0] + f[1] + f[2] + f[3]) \in 0..15 * 2 ^ 0 BY <1>1, <1>10, SMT
  <2>2. (f[4] + f[5] + f[6] + f[7]) \in 0..0 BY <1>2, <1>10, SMT
  <2>3. (f[8] + f[9] + f[10] + f[11]) \in 0..0 BY <1>3, <1>10, SMT
  <2>4. (f[12] + f[13] + f[14] + f[15]) \in 0..0 BY <1>4, <1>10, SMT
  <2>5. (f[16] + f[17] + f[18] + f[19]) \in 0..0 BY <1>5, <1>10, SMT
  <2>6. (f[20] + f[21] + f[22] + f[23]) \in 0..0 BY <1>6, <1>10, SMT
  <2>7. (f[24] + f[25] + f[26] + f[27]) \in 0..0 BY <1>7, <1>10, SMT
  <2>8. (f[28] + f[29] + f[30] + f[31]) \in 0..0 BY <1>8, <1>10, SMT
  <2> QED BY <1>10, <2>1, <2>2, <2>3, <2>4, <2>5, <2>6, <2>7, <2>8, WordCases, SMT DEF Words
<1>11. CASE WORD_BITS = 8
  <2>1. (f[0] + f[1] + f[2] + f[3]) \in 0..15 * 2 ^ 0 BY <1>1, <1>11, SMT
  <2>2. (f[4] + f[5] + f[6] + f[7]) \in 0..15 * 2 ^ 4 BY <1>2, <1>11, SMT
  <2>3. (f[8] + f[9] + f[10] + f[11]) \in 0..0 BY <1>3, <1>11, SMT
  <2>4. (f[12] + f[13] + f[14] + f[15]) \in 0..0 BY <1>4, <1>11, SMT
  <2>5. (f[16] + f[17] + f[18] + f[19]) \in 0..0 BY <1>5, <1>11, SMT
  <2>6. (f[20] + f[21] + f[22] + f[23]) \in 0..0 BY <1>6, <1>11, SMT
  <2>7. (f[24] + f[25] + f[26] + f[27]) \in 0..0 BY <1>7, <1>11, SMT
  <2>8. (f[28] + f[29] + f[30] + f[31]) \in 0..0 BY <1>8, <1>11, SMT
  <2> QED BY <1>11, <2>1, <2>2, <2>3, <2>4, <2>5, <2>6, <2>7, <2>8, WordCases, SMT DEF Words
<1>12. CASE WORD_BITS = 16
  <2>1. (f[0] + f[1] + f[2] + f[3]) \in 0..15 * 2 ^ 0 BY <1>1, <1>12, SMT
  <2>2. (f[4] + f[5] + f[6] + f[7]) \in 0..15 * 2 ^ 4 BY <1>2, <1>12, SMT
  <2>3. (f[8] + f[9] + f[10] + f[11]) \in 0..15 * 2 ^ 8 BY <1>3, <1>12, SMT
  <2>4. (f[12] + f[13] + f[14] + f[15]) \in 0..15 * 2 ^ 12 BY <1>4, <1>12, SMT
  <2>5. (f[16] + f[17] + f[18] + f[19]) \in 0..0 BY <1>5, <1>12, SMT
  <2>6. (f[20] + f[21] + f[22] + f[23]) \in 0..0 BY <1>6, <1>12, SMT
  <2>7. (f[24] + f[25] + f[26] + f[27]) \in 0..0 BY <1>7, <1>12, SMT
  <2>8. (f[28] + f[29] + f[30] + f[31]) \in 0..0 BY <1>8, <1>12, SMT
  <2> QED BY <1>12, <2>1, <2>2, <2>3, <2>4, <2>5, <2>6, <2>7, <2>8, WordCases, SMT DEF Words
<1>13. CASE WORD_BITS = 32
  <2>1. (f[0] + f[1] + f[2] + f[3]) \in 0..15 * 2 ^ 0 BY <1>1, <1>13, SMT
  <2>2. (f[4] + f[5] + f[6] + f[7]) \in 0..15 * 2 ^ 4 BY <1>2, <1>13, SMT
  <2>3. (f[8] + f[9] + f[10] + f[11]) \in 0..15 * 2 ^ 8 BY <1>3, <1>13, SMT
  <2>4. (f[12] + f[13] + f[14] + f[15]) \in 0..15 * 2 ^ 12 BY <1>4, <1>13, SMT
  <2>5. (f[16] + f[17] + f[18] + f[19]) \in 0..15 * 2 ^ 16 BY <1>5, <1>13, SMT
  <2>6. (f[20] + f[21] + f[22] + f[23]) \in 0..15 * 2 ^ 20 BY <1>6, <1>13, SMT
  <2>7. (f[24] + f[25] + f[26] + f[27]) \in 0..15 * 2 ^ 24 BY <1>7, <1>13, SMT
  <2>8. (f[28] + f[29] + f[30] + f[31]) \in 0..15 * 2 ^ 28 BY <1>8, <1>13, SMT
  <2> QED BY <1>13, <2>1, <2>2, <2>3, <2>4, <2>5, <2>6, <2>7, <2>8, WordCases, SMT DEF Words
<1> QED BY <1>10, <1>11, <1>12, <1>13, WordAssumption

\* The bitwise operators make words.
LEMMA BitwiseIn == \A x, y : x & y \in Words /\ (x | y) \in Words /\ x ^^ y \in Words
<1> SUFFICES ASSUME NEW x, NEW y PROVE x & y \in Words /\ (x | y) \in Words /\ x ^^ y \in Words
  OBVIOUS
<1> DEFINE bit(z, i) == (z \div 2 ^ i) % 2 = 1
<1>1. x & y \in Words
  <2> DEFINE f == [i \in 0..31 |-> IF i < WORD_BITS /\ (bit(x, i) /\ bit(y, i)) THEN 2 ^ i ELSE 0]
  <2>1. \A i \in 0..31 : f[i] \in {0, IF i < WORD_BITS THEN 2 ^ i ELSE 0} OBVIOUS
  <2>2. x & y = (((f[0] + f[1] + f[2] + f[3]) + (f[4] + f[5] + f[6] + f[7]))
             + ((f[8] + f[9] + f[10] + f[11]) + (f[12] + f[13] + f[14] + f[15]))
             + ((f[16] + f[17] + f[18] + f[19]) + (f[20] + f[21] + f[22] + f[23]))
             + ((f[24] + f[25] + f[26] + f[27]) + (f[28] + f[29] + f[30] + f[31])))
    BY DEF &, bitwise
  <2> QED
    <3> HIDE DEF f
    <3> QED BY <2>1, <2>2, BitSum
<1>2. (x | y) \in Words
  <2> DEFINE f == [i \in 0..31 |-> IF i < WORD_BITS /\ (bit(x, i) \/ bit(y, i)) THEN 2 ^ i ELSE 0]
  <2>1. \A i \in 0..31 : f[i] \in {0, IF i < WORD_BITS THEN 2 ^ i ELSE 0} OBVIOUS
  <2>2. (x | y) = (((f[0] + f[1] + f[2] + f[3]) + (f[4] + f[5] + f[6] + f[7]))
             + ((f[8] + f[9] + f[10] + f[11]) + (f[12] + f[13] + f[14] + f[15]))
             + ((f[16] + f[17] + f[18] + f[19]) + (f[20] + f[21] + f[22] + f[23]))
             + ((f[24] + f[25] + f[26] + f[27]) + (f[28] + f[29] + f[30] + f[31])))
    BY DEF |, bitwise
  <2> QED
    <3> HIDE DEF f
    <3> QED BY <2>1, <2>2, BitSum
<1>3. x ^^ y \in Words
  <2> DEFINE f == [i \in 0..31 |-> IF i < WORD_BITS /\ (bit(x, i) # bit(y, i)) THEN 2 ^ i ELSE 0]
  <2>1. \A i \in 0..31 : f[i] \in {0, IF i < WORD_BITS THEN 2 ^ i ELSE 0} OBVIOUS
  <2>2. x ^^ y = (((f[0] + f[1] + f[2] + f[3]) + (f[4] + f[5] + f[6] + f[7]))
             + ((f[8] + f[9] + f[10] + f[11]) + (f[12] + f[13] + f[14] + f[15]))
             + ((f[16] + f[17] + f[18] + f[19]) + (f[20] + f[21] + f[22] + f[23]))
             + ((f[24] + f[25] + f[26] + f[27]) + (f[28] + f[29] + f[30] + f[31])))
    BY DEF ^^, bitwise
  <2> QED
    <3> HIDE DEF f
    <3> QED BY <2>1, <2>2, BitSum
<1> QED BY <1>1, <1>2, <1>3

\* The golden model's words are the core's.
LEMMA SameWords ==
  /\ GoldenModel!WORD = WORD /\ GoldenModel!BYTE = BYTE /\ GoldenModel!HALF = HALF
  /\ \A x : GoldenModel!word(x) = word(x)
  /\ \A x : GoldenModel!to_signed(x) = to_signed(x)
  /\ \A x : GoldenModel!shamt(x) = shamt(x)
  /\ \A x, y : GoldenModel!signExtend(x, y) = signExtend(x, y)
  /\ \A x, y : GoldenModel!byteOf(x, y) = byteOf(x, y)
<1>1. GoldenModel!WORD = WORD /\ GoldenModel!BYTE = BYTE /\ GoldenModel!HALF = HALF
  BY DEF GoldenModel!WORD, WORD, GoldenModel!BYTE, BYTE, GoldenModel!HALF, HALF
<1>2. \A x : GoldenModel!word(x) = word(x) BY <1>1 DEF GoldenModel!word, word
<1>3. \A x : GoldenModel!to_signed(x) = to_signed(x)
  BY <1>1, <1>2 DEF GoldenModel!to_signed, to_signed
<1>4. \A x : GoldenModel!shamt(x) = shamt(x) BY DEF GoldenModel!shamt, shamt
<1>5. \A x, y : GoldenModel!signExtend(x, y) = signExtend(x, y)
  BY <1>2 DEF GoldenModel!signExtend, signExtend
<1>6. \A x, y : GoldenModel!byteOf(x, y) = byteOf(x, y)
  BY <1>1 DEF GoldenModel!byteOf, byteOf
<1> QED BY <1>1, <1>2, <1>3, <1>4, <1>5, <1>6

\* The ALU, opcode by opcode.
LEMMA AluTable ==
  ASSUME NEW x, NEW y
  PROVE  /\ \A op \in S_TYPE \union I_TYPE_3 \union U_TYPE_1 \union U_TYPE_2 \union J_TYPE
                        \union {"add", "addi"} : alu(op, x, y) = word(to_signed(x) + to_signed(y))
         /\ alu("sub", x, y) = word(to_signed(x) - to_signed(y))
         /\ \A op \in {"and", "andi"} : alu(op, x, y) = (x & y)
         /\ \A op \in {"or", "ori"}   : alu(op, x, y) = (x | y)
         /\ \A op \in {"xor", "xori"} : alu(op, x, y) = (x ^^ y)
         /\ \A op \in {"sll", "slli"} : alu(op, x, y) = word(x * 2 ^ shamt(y))
         /\ \A op \in {"srl", "srli"} : alu(op, x, y) = x \div 2 ^ shamt(y)
         /\ \A op \in {"sra", "srai"} : alu(op, x, y) = word(to_signed(x) \div 2 ^ shamt(y))
         /\ \A op \in {"slt", "slti", "blt"} :
              alu(op, x, y) = IF to_signed(x) < to_signed(y) THEN 1 ELSE 0
         /\ \A op \in {"sltu", "sltiu", "bltu"} : alu(op, x, y) = IF x < y THEN 1 ELSE 0
         /\ alu("bge", x, y) = IF to_signed(x) >= to_signed(y) THEN 1 ELSE 0
         /\ alu("bgeu", x, y) = IF x >= y THEN 1 ELSE 0
         /\ alu("beq", x, y) = IF x = y THEN 1 ELSE 0
         /\ alu("bne", x, y) = IF x # y THEN 1 ELSE 0
         /\ \A op \in I_TYPE_2 :
              alu(op, x, y) = word(to_signed(x) + to_signed(y)) - (word(to_signed(x) + to_signed(y)) % 2)
<1>1. \A op \in S_TYPE \union I_TYPE_3 \union U_TYPE_1 \union U_TYPE_2 \union J_TYPE
        \union {"add", "addi"} : alu(op, x, y) = word(to_signed(x) + to_signed(y))
  BY DEF alu, S_TYPE, I_TYPE_3, U_TYPE_1, U_TYPE_2, J_TYPE, I_TYPE_2
<1>2. alu("sub", x, y) = word(to_signed(x) - to_signed(y))
  BY DEF alu, S_TYPE, I_TYPE_3, U_TYPE_1, U_TYPE_2, J_TYPE, I_TYPE_2
<1>3. \A op \in {"and", "andi"} : alu(op, x, y) = (x & y)
  BY DEF alu, S_TYPE, I_TYPE_3, U_TYPE_1, U_TYPE_2, J_TYPE, I_TYPE_2
<1>4. \A op \in {"or", "ori"} : alu(op, x, y) = (x | y)
  BY DEF alu, S_TYPE, I_TYPE_3, U_TYPE_1, U_TYPE_2, J_TYPE, I_TYPE_2
<1>5. \A op \in {"xor", "xori"} : alu(op, x, y) = (x ^^ y)
  BY DEF alu, S_TYPE, I_TYPE_3, U_TYPE_1, U_TYPE_2, J_TYPE, I_TYPE_2
<1>6. \A op \in {"sll", "slli"} : alu(op, x, y) = word(x * 2 ^ shamt(y))
  BY DEF alu, S_TYPE, I_TYPE_3, U_TYPE_1, U_TYPE_2, J_TYPE, I_TYPE_2
<1>7. \A op \in {"srl", "srli"} : alu(op, x, y) = x \div 2 ^ shamt(y)
  BY DEF alu, S_TYPE, I_TYPE_3, U_TYPE_1, U_TYPE_2, J_TYPE, I_TYPE_2
<1>8. \A op \in {"sra", "srai"} : alu(op, x, y) = word(to_signed(x) \div 2 ^ shamt(y))
  BY DEF alu, S_TYPE, I_TYPE_3, U_TYPE_1, U_TYPE_2, J_TYPE, I_TYPE_2
<1>9. \A op \in {"slt", "slti", "blt"} :
        alu(op, x, y) = IF to_signed(x) < to_signed(y) THEN 1 ELSE 0
  BY DEF alu, S_TYPE, I_TYPE_3, U_TYPE_1, U_TYPE_2, J_TYPE, I_TYPE_2
<1>10. \A op \in {"sltu", "sltiu", "bltu"} : alu(op, x, y) = IF x < y THEN 1 ELSE 0
  BY DEF alu, S_TYPE, I_TYPE_3, U_TYPE_1, U_TYPE_2, J_TYPE, I_TYPE_2
<1>11. alu("bge", x, y) = IF to_signed(x) >= to_signed(y) THEN 1 ELSE 0
  BY DEF alu, S_TYPE, I_TYPE_3, U_TYPE_1, U_TYPE_2, J_TYPE, I_TYPE_2
<1>12. alu("bgeu", x, y) = IF x >= y THEN 1 ELSE 0
  BY DEF alu, S_TYPE, I_TYPE_3, U_TYPE_1, U_TYPE_2, J_TYPE, I_TYPE_2
<1>13. alu("beq", x, y) = IF x = y THEN 1 ELSE 0
  BY DEF alu, S_TYPE, I_TYPE_3, U_TYPE_1, U_TYPE_2, J_TYPE, I_TYPE_2
<1>14. alu("bne", x, y) = IF x # y THEN 1 ELSE 0
  BY DEF alu, S_TYPE, I_TYPE_3, U_TYPE_1, U_TYPE_2, J_TYPE, I_TYPE_2
<1>15. \A op \in I_TYPE_2 :
         alu(op, x, y) = word(to_signed(x) + to_signed(y)) - (word(to_signed(x) + to_signed(y)) % 2)
  BY DEF alu, S_TYPE, I_TYPE_3, U_TYPE_1, U_TYPE_2, J_TYPE, I_TYPE_2
<1> QED BY <1>1, <1>2, <1>3, <1>4, <1>5, <1>6, <1>7, <1>8, <1>9, <1>10, <1>11, <1>12, <1>13,
           <1>14, <1>15

\* The golden model's result, opcode by opcode.
LEMMA ResTable ==
  ASSUME NEW i, NEW x, x = register_file[i.r1], NEW y, y = register_file[i.r2]
  PROVE  /\ i.opcode = "add"  => GoldenModel!res(i) = to_signed(x) + to_signed(y)
         /\ i.opcode = "sub"  => GoldenModel!res(i) = to_signed(x) - to_signed(y)
         /\ i.opcode = "and"  => GoldenModel!res(i) = (x & y)
         /\ i.opcode = "or"   => GoldenModel!res(i) = (x | y)
         /\ i.opcode = "xor"  => GoldenModel!res(i) = (x ^^ y)
         /\ i.opcode = "sll"  => GoldenModel!res(i) = x * 2 ^ shamt(y)
         /\ i.opcode = "srl"  => GoldenModel!res(i) = x \div 2 ^ shamt(y)
         /\ i.opcode = "sra"  => GoldenModel!res(i) = to_signed(x) \div 2 ^ shamt(y)
         /\ i.opcode = "slt"  => GoldenModel!res(i) = IF to_signed(x) < to_signed(y) THEN 1 ELSE 0
         /\ i.opcode = "sltu" => GoldenModel!res(i) = IF x < y THEN 1 ELSE 0
         /\ i.opcode = "addi" => GoldenModel!res(i) = to_signed(x) + i.imm
         /\ i.opcode = "andi" => GoldenModel!res(i) = (x & word(i.imm))
         /\ i.opcode = "ori"  => GoldenModel!res(i) = (x | word(i.imm))
         /\ i.opcode = "xori" => GoldenModel!res(i) = (x ^^ word(i.imm))
         /\ i.opcode = "slti" => GoldenModel!res(i) = IF to_signed(x) < i.imm THEN 1 ELSE 0
         /\ i.opcode = "sltiu" => GoldenModel!res(i) = IF x < word(i.imm) THEN 1 ELSE 0
         /\ i.opcode = "slli" => GoldenModel!res(i) = x * 2 ^ shamt(i.imm)
         /\ i.opcode = "srli" => GoldenModel!res(i) = x \div 2 ^ shamt(i.imm)
         /\ i.opcode = "srai" => GoldenModel!res(i) = to_signed(x) \div 2 ^ shamt(i.imm)
         /\ i.opcode \in Jumps => GoldenModel!res(i) = pc + 4
         /\ i.opcode = "auipc" => GoldenModel!res(i) = pc + i.imm * UPPER
         /\ i.opcode = "lui"  => GoldenModel!res(i) = i.imm * UPPER
<1>1. i.opcode = "add"  => GoldenModel!res(i) = to_signed(x) + to_signed(y)
  BY SameWords DEF GoldenModel!res
<1>2. i.opcode = "sub"  => GoldenModel!res(i) = to_signed(x) - to_signed(y)
  BY SameWords DEF GoldenModel!res
<1>3. i.opcode = "and"  => GoldenModel!res(i) = (x & y)
  BY SameWords DEF GoldenModel!res, GoldenModel!&, &, GoldenModel!bitwise, bitwise
<1>4. i.opcode = "or"   => GoldenModel!res(i) = (x | y)
  BY SameWords DEF GoldenModel!res, GoldenModel!|, |, GoldenModel!bitwise, bitwise
<1>5. i.opcode = "xor"  => GoldenModel!res(i) = (x ^^ y)
  BY SameWords DEF GoldenModel!res, GoldenModel!^^, ^^, GoldenModel!bitwise, bitwise
<1>6. i.opcode = "sll"  => GoldenModel!res(i) = x * 2 ^ shamt(y)
  BY SameWords DEF GoldenModel!res
<1>7. i.opcode = "srl"  => GoldenModel!res(i) = x \div 2 ^ shamt(y)
  BY SameWords DEF GoldenModel!res
<1>8. i.opcode = "sra"  => GoldenModel!res(i) = to_signed(x) \div 2 ^ shamt(y)
  BY SameWords DEF GoldenModel!res
<1>9. i.opcode = "slt"  => GoldenModel!res(i) = IF to_signed(x) < to_signed(y) THEN 1 ELSE 0
  BY SameWords DEF GoldenModel!res
<1>10. i.opcode = "sltu" => GoldenModel!res(i) = IF x < y THEN 1 ELSE 0
  BY SameWords DEF GoldenModel!res
<1>11. i.opcode = "addi" => GoldenModel!res(i) = to_signed(x) + i.imm
  BY SameWords DEF GoldenModel!res
<1>12. i.opcode = "andi" => GoldenModel!res(i) = (x & word(i.imm))
  BY DEF GoldenModel!res, GoldenModel!&, &, GoldenModel!bitwise, bitwise,
         GoldenModel!word, word, GoldenModel!WORD, WORD
<1>13. i.opcode = "ori"  => GoldenModel!res(i) = (x | word(i.imm))
  BY DEF GoldenModel!res, GoldenModel!|, |, GoldenModel!bitwise, bitwise,
         GoldenModel!word, word, GoldenModel!WORD, WORD
<1>14. i.opcode = "xori" => GoldenModel!res(i) = (x ^^ word(i.imm))
  BY DEF GoldenModel!res, GoldenModel!^^, ^^, GoldenModel!bitwise, bitwise,
         GoldenModel!word, word, GoldenModel!WORD, WORD
<1>15. i.opcode = "slti" => GoldenModel!res(i) = IF to_signed(x) < i.imm THEN 1 ELSE 0
  BY SameWords DEF GoldenModel!res
<1>16. i.opcode = "sltiu" => GoldenModel!res(i) = IF x < word(i.imm) THEN 1 ELSE 0
  BY SameWords DEF GoldenModel!res
<1>17. i.opcode = "slli" => GoldenModel!res(i) = x * 2 ^ shamt(i.imm)
  BY SameWords DEF GoldenModel!res
<1>18. i.opcode = "srli" => GoldenModel!res(i) = x \div 2 ^ shamt(i.imm)
  BY SameWords DEF GoldenModel!res
<1>19. i.opcode = "srai" => GoldenModel!res(i) = to_signed(x) \div 2 ^ shamt(i.imm)
  BY SameWords DEF GoldenModel!res
<1>20. i.opcode \in Jumps => GoldenModel!res(i) = pc + 4
  BY SameWords DEF GoldenModel!res, Jumps, J_TYPE, I_TYPE_2
<1>21. i.opcode = "auipc" => GoldenModel!res(i) = pc + i.imm * UPPER
  BY SameWords DEF GoldenModel!res
<1>22. i.opcode = "lui"  => GoldenModel!res(i) = i.imm * UPPER
  BY SameWords DEF GoldenModel!res
<1> QED BY <1>1, <1>2, <1>3, <1>4, <1>5, <1>6, <1>7, <1>8, <1>9, <1>10, <1>11, <1>12,
           <1>13, <1>14, <1>15, <1>16, <1>17, <1>18, <1>19, <1>20, <1>21, <1>22

\* The divisors of the shifts are positive.
LEMMA Powers == \A s \in 0..31 : 2 ^ s \in Nat \ {0}
<1> SUFFICES ASSUME NEW s \in 0..31 PROVE 2 ^ s \in Nat \ {0} OBVIOUS
<1>2. CASE s \in 0..7
  <2>1. s = 0 \/ s = 1 \/ s = 2 \/ s = 3 \/ s = 4 \/ s = 5 \/ s = 6 \/ s = 7 BY <1>2
  <2>2. 2 ^ 0 \in Nat \ {0} /\ 2 ^ 1 \in Nat \ {0} /\ 2 ^ 2 \in Nat \ {0} /\ 2 ^ 3 \in Nat \ {0}
          /\ 2 ^ 4 \in Nat \ {0} /\ 2 ^ 5 \in Nat \ {0} /\ 2 ^ 6 \in Nat \ {0}
          /\ 2 ^ 7 \in Nat \ {0} BY SMT
  <2> QED BY <2>1, <2>2, Zenon
<1>3. CASE s \in 8..15
  <2>1. s = 8 \/ s = 9 \/ s = 10 \/ s = 11 \/ s = 12 \/ s = 13 \/ s = 14 \/ s = 15 BY <1>3
  <2>2. 2 ^ 8 \in Nat \ {0} /\ 2 ^ 9 \in Nat \ {0} /\ 2 ^ 10 \in Nat \ {0} /\ 2 ^ 11 \in Nat \ {0}
          /\ 2 ^ 12 \in Nat \ {0} /\ 2 ^ 13 \in Nat \ {0} /\ 2 ^ 14 \in Nat \ {0}
          /\ 2 ^ 15 \in Nat \ {0} BY SMT
  <2> QED BY <2>1, <2>2, Zenon
<1>4. CASE s \in 16..23
  <2>1. s = 16 \/ s = 17 \/ s = 18 \/ s = 19 \/ s = 20 \/ s = 21 \/ s = 22 \/ s = 23 BY <1>4
  <2>2. 2 ^ 16 \in Nat \ {0} /\ 2 ^ 17 \in Nat \ {0} /\ 2 ^ 18 \in Nat \ {0}
          /\ 2 ^ 19 \in Nat \ {0} /\ 2 ^ 20 \in Nat \ {0} /\ 2 ^ 21 \in Nat \ {0}
          /\ 2 ^ 22 \in Nat \ {0} /\ 2 ^ 23 \in Nat \ {0} BY SMT
  <2> QED BY <2>1, <2>2, Zenon
<1>5. CASE s \in 24..31
  <2>1. s = 24 \/ s = 25 \/ s = 26 \/ s = 27 \/ s = 28 \/ s = 29 \/ s = 30 \/ s = 31 BY <1>5
  <2>2. 2 ^ 24 \in Nat \ {0} /\ 2 ^ 25 \in Nat \ {0} /\ 2 ^ 26 \in Nat \ {0}
          /\ 2 ^ 27 \in Nat \ {0} /\ 2 ^ 28 \in Nat \ {0} /\ 2 ^ 29 \in Nat \ {0}
          /\ 2 ^ 30 \in Nat \ {0} /\ 2 ^ 31 \in Nat \ {0} BY SMT
  <2> QED BY <2>1, <2>2, Zenon
<1> QED BY <1>2, <1>3, <1>4, <1>5

\* So is the one a shift amount gives.
LEMMA PowerIn == \A x \in Int : 2 ^ shamt(x) \in Nat \ {0}
<1>1. \A x \in Int : shamt(x) \in 0..31 BY Shift, WordAssumption
<1> QED BY <1>1, Powers

\* A word shifted right is a word.
LEMMA Shifted == \A x \in Words, d \in Nat \ {0} : x \div d \in Words
<1>1. \A x \in Nat, d \in Nat \ {0} : x \div d \in Nat /\ x \div d <= x BY SMT
<1> QED BY <1>1, WordTypes DEF Words

\* What these classes write is the ALU's result.
LEMMA ValueIsResult ==
  ASSUME NEW w, NEW p, NEW regs, NEW m, w.op \in R_TYPE \union I_TYPE_4 \union U_TYPE_2
  PROVE  Value(w, p, regs, m) = Result(w, p, regs)
<1>1. w.op \notin I_TYPE_3 /\ w.op \notin Jumps /\ w.op \notin U_TYPE_1
  BY DEF R_TYPE, I_TYPE_4, I_TYPE_3, U_TYPE_1, U_TYPE_2, Jumps, J_TYPE, I_TYPE_2
<1> QED BY <1>1 DEF Value

\* Register-register instructions: golden model and core write the same.
LEMMA ValueR ==
  ASSUME NEW m, GoldenAt(m), NEW i, NEW w, AgreesR(i, w), w.rs1 \in Regs, w.rs2 \in Regs
  PROVE  word(GoldenModel!res(i)) = Value(w, pc, register_file, m)
<1> DEFINE x == register_file[w.rs1]
           y == register_file[w.rs2]
<1>1. x \in Words /\ y \in Words /\ x \in Int /\ y \in Int BY WordSame DEF GoldenAt
<1>2. w.op \in R_TYPE /\ i.opcode = w.op /\ register_file[i.r1] = x /\ register_file[i.r2] = y
  BY DEF AgreesR, Same
<1>3. Value(w, pc, register_file, m) = alu(w.op, x, y)
  <2>1. w.op \notin J_TYPE \union U_TYPE_2 BY <1>2, Disjoint
  <2> QED BY <1>2, <2>1, ValueIsResult DEF Result
<1>4. word(0) = 0 /\ word(1) = 1
  <2>1. 0 \in Words /\ 1 \in Words BY WordTypes DEF Words
  <2> QED BY <2>1, WordSame
<1>5. w.op \in {"add", "sub", "and", "or", "xor", "sll", "srl", "sra", "slt", "sltu"}
  BY <1>2 DEF R_TYPE
<1> HIDE DEF x, y
<1>10. CASE w.op = "add"
  BY <1>2, <1>3, <1>10, AluTable, ResTable
<1>11. CASE w.op = "sub"
  BY <1>2, <1>3, <1>11, AluTable, ResTable
<1>12. CASE w.op = "and"
  BY <1>2, <1>3, <1>12, AluTable, ResTable, BitwiseIn, WordSame
<1>13. CASE w.op = "or"
  BY <1>2, <1>3, <1>13, AluTable, ResTable, BitwiseIn, WordSame
<1>14. CASE w.op = "xor"
  BY <1>2, <1>3, <1>14, AluTable, ResTable, BitwiseIn, WordSame
<1>15. CASE w.op = "sll"
  BY <1>2, <1>3, <1>15, AluTable, ResTable
<1>16. CASE w.op = "srl"
  <2>1. x \div 2 ^ shamt(y) \in Words BY <1>1, PowerIn, Shifted
  <2> QED BY <1>2, <1>3, <1>16, <2>1, AluTable, ResTable, WordSame
<1>17. CASE w.op = "sra"
  BY <1>2, <1>3, <1>17, AluTable, ResTable
<1>18. CASE w.op = "slt"
  BY <1>2, <1>3, <1>4, <1>18, AluTable, ResTable
<1>19. CASE w.op = "sltu"
  BY <1>2, <1>3, <1>4, <1>19, AluTable, ResTable
<1> QED BY <1>5, <1>10, <1>11, <1>12, <1>13, <1>14, <1>15, <1>16, <1>17, <1>18, <1>19

\* Register-immediate instructions: the same, shifts with their amount in the immediate.
LEMMA ValueI ==
  ASSUME NEW m, GoldenAt(m), NEW i, NEW w, AgreesI(i, w), w.rs1 \in Regs
  PROVE  word(GoldenModel!res(i)) = Value(w, pc, register_file, m)
<1> DEFINE x == register_file[w.rs1]
           c == i.imm
<1>1. x \in Words /\ x \in Int /\ c \in Int
  <2>1. c \in Int BY WordTypes DEF AgreesI, Immediates
  <2> QED BY <2>1, WordSame DEF GoldenAt
<1>2. w.op \in I_TYPE_4 /\ i.opcode = w.op /\ register_file[i.r1] = x /\ c \in Immediates
  BY DEF AgreesI, Same
<1>3. Value(w, pc, register_file, m) = alu(w.op, x, w.imm)
  <2>1. w.op \notin J_TYPE \union U_TYPE_2 \union R_TYPE \union B_TYPE BY <1>2, Disjoint
  <2> QED BY <1>2, <2>1, ValueIsResult DEF Result
<1>4. word(0) = 0 /\ word(1) = 1
  <2>1. 0 \in Words /\ 1 \in Words BY WordTypes DEF Words
  <2> QED BY <2>1, WordSame
<1>5. w.op \notin Shifts => w.imm = word(c) /\ to_signed(w.imm) = c
  BY <1>2, SignedOfWord DEF AgreesI
<1>6. w.op \in Shifts => shamt(w.imm) = shamt(c)
  BY <1>1, Shift DEF AgreesI
<1>7. w.op \in {"addi", "andi", "ori", "xori", "slti", "sltiu"} => w.op \notin Shifts
  BY DEF Shifts
<1>8. w.op \in {"slli", "srli", "srai"} => w.op \in Shifts BY DEF Shifts
<1>9. w.op \in {"addi", "andi", "ori", "xori", "slti", "sltiu", "slli", "srli", "srai"}
  BY <1>2 DEF I_TYPE_4
<1> HIDE DEF x, c
<1>10. CASE w.op = "addi"
  <2>1. word(GoldenModel!res(i)) = word(to_signed(x) + c) BY <1>2, <1>10, ResTable DEF c
  <2>2. alu(w.op, x, w.imm) = word(to_signed(x) + to_signed(w.imm)) BY <1>10, AluTable
  <2> QED BY <1>3, <1>5, <1>7, <1>10, <2>1, <2>2
<1>11. CASE w.op = "andi"
  <2>1. GoldenModel!res(i) = (x & word(c)) BY <1>2, <1>11, ResTable DEF c
  <2>2. alu(w.op, x, w.imm) = (x & w.imm) BY <1>11, AluTable
  <2> QED BY <1>3, <1>5, <1>7, <1>11, <2>1, <2>2, BitwiseIn, WordSame
<1>12. CASE w.op = "ori"
  <2>1. GoldenModel!res(i) = (x | word(c)) BY <1>2, <1>12, ResTable DEF c
  <2>2. alu(w.op, x, w.imm) = (x | w.imm) BY <1>12, AluTable
  <2> QED BY <1>3, <1>5, <1>7, <1>12, <2>1, <2>2, BitwiseIn, WordSame
<1>13. CASE w.op = "xori"
  <2>1. GoldenModel!res(i) = (x ^^ word(c)) BY <1>2, <1>13, ResTable DEF c
  <2>2. alu(w.op, x, w.imm) = (x ^^ w.imm) BY <1>13, AluTable
  <2> QED BY <1>3, <1>5, <1>7, <1>13, <2>1, <2>2, BitwiseIn, WordSame
<1>14. CASE w.op = "slti"
  <2>1. GoldenModel!res(i) = IF to_signed(x) < c THEN 1 ELSE 0 BY <1>2, <1>14, ResTable DEF c
  <2>2. alu(w.op, x, w.imm) = IF to_signed(x) < to_signed(w.imm) THEN 1 ELSE 0 BY <1>14, AluTable
  <2> QED BY <1>3, <1>4, <1>5, <1>7, <1>14, <2>1, <2>2
<1>15. CASE w.op = "sltiu"
  <2>1. GoldenModel!res(i) = IF x < word(c) THEN 1 ELSE 0 BY <1>2, <1>15, ResTable DEF c
  <2>2. alu(w.op, x, w.imm) = IF x < w.imm THEN 1 ELSE 0 BY <1>15, AluTable
  <2> QED BY <1>3, <1>4, <1>5, <1>7, <1>15, <2>1, <2>2
<1>16. CASE w.op = "slli"
  <2>1. GoldenModel!res(i) = x * 2 ^ shamt(c) BY <1>2, <1>16, ResTable DEF c
  <2>2. alu(w.op, x, w.imm) = word(x * 2 ^ shamt(w.imm)) BY <1>16, AluTable
  <2> QED BY <1>3, <1>6, <1>8, <1>16, <2>1, <2>2
<1>17. CASE w.op = "srli"
  <2>1. GoldenModel!res(i) = x \div 2 ^ shamt(c) BY <1>2, <1>17, ResTable DEF c
  <2>2. alu(w.op, x, w.imm) = x \div 2 ^ shamt(w.imm) BY <1>17, AluTable
  <2>3. x \div 2 ^ shamt(c) \in Words BY <1>1, PowerIn, Shifted
  <2> QED BY <1>3, <1>6, <1>8, <1>17, <2>1, <2>2, <2>3, WordSame
<1>18. CASE w.op = "srai"
  <2>1. GoldenModel!res(i) = to_signed(x) \div 2 ^ shamt(c) BY <1>2, <1>18, ResTable DEF c
  <2>2. alu(w.op, x, w.imm) = word(to_signed(x) \div 2 ^ shamt(w.imm)) BY <1>18, AluTable
  <2> QED BY <1>3, <1>6, <1>8, <1>18, <2>1, <2>2
<1> QED BY <1>9, <1>10, <1>11, <1>12, <1>13, <1>14, <1>15, <1>16, <1>17, <1>18

\* An immediate is an integer.
LEMMA Immediate == \A y \in Immediates : y \in Int
BY WordTypes DEF Immediates

\* Jumps, and the two U-type instructions.
LEMMA ValueJ ==
  ASSUME NEW m, GoldenAt(m), NEW i, NEW w, i.opcode = w.op, w.op \in Jumps
  PROVE  word(GoldenModel!res(i)) = Value(w, pc, register_file, m)
<1>1. GoldenModel!res(i) = pc + 4 BY ResTable
<1>2. w.op \notin I_TYPE_3 /\ w.op \notin U_TYPE_1
  BY DEF Jumps, J_TYPE, I_TYPE_2, I_TYPE_3, U_TYPE_1
<1>3. Value(w, pc, register_file, m) = word(pc + 4) BY <1>2 DEF Value
<1> QED BY <1>1, <1>3

\* lui and auipc write the same in both.
LEMMA ValueU ==
  ASSUME NEW m, GoldenAt(m), NEW i, NEW w, AgreesU(i, w)
  PROVE  word(GoldenModel!res(i)) = Value(w, pc, register_file, m)
<1>1. pc \in Int BY WordSame DEF GoldenAt
<1>2. i.imm * UPPER \in Int BY WordAssumption DEF AgreesU
<1>3. CASE w.op = "lui"
  <2>1. w.op \notin I_TYPE_3 /\ w.op \notin Jumps /\ w.op \in U_TYPE_1
    BY <1>3 DEF Jumps, J_TYPE, I_TYPE_2, I_TYPE_3, U_TYPE_1
  <2>2. GoldenModel!res(i) = i.imm * UPPER BY <1>3, ResTable DEF AgreesU, Same
  <2>3. Value(w, pc, register_file, m) = w.imm BY <2>1 DEF Value
  <2> QED BY <2>2, <2>3 DEF AgreesU
<1>4. CASE w.op = "auipc"
  <2>1. w.op \in U_TYPE_2 /\ w.op \notin R_TYPE \union B_TYPE
    BY <1>4 DEF U_TYPE_2, R_TYPE, B_TYPE
  <2>2. GoldenModel!res(i) = pc + i.imm * UPPER BY <1>4, ResTable DEF AgreesU, Same
  <2>3. Value(w, pc, register_file, m) = alu(w.op, pc, w.imm)
    BY <2>1, ValueIsResult DEF Result
  <2>4. alu(w.op, pc, w.imm) = word(to_signed(pc) + to_signed(w.imm)) BY <2>1, AluTable
  <2>5. word(to_signed(pc) + to_signed(w.imm)) = word(to_signed(pc) + i.imm * UPPER)
    BY <1>1, <1>2, SignedAddWords DEF AgreesU
  <2>6. word(to_signed(pc) + i.imm * UPPER) = word(pc + i.imm * UPPER)
    BY <1>1, <1>2, WordOfSum
  <2> QED BY <2>2, <2>3, <2>4, <2>5, <2>6
<1>5. w.op \in {"lui", "auipc"} BY DEF AgreesU, U_TYPE_1, U_TYPE_2
<1> QED BY <1>3, <1>4, <1>5

\* The address of a load or a store.
LEMMA AddressIs ==
  ASSUME NEW m, GoldenAt(m), NEW i, NEW w, w.op \in MemOps, w.rs1 \in Regs,
         i.r1 = w.rs1, i.imm \in Immediates, w.imm = word(i.imm)
  PROVE  /\ GoldenModel!addrOf(i) = Result(w, pc, register_file)
         /\ Result(w, pc, register_file) \in Words
<1> DEFINE x == register_file[w.rs1]
<1>1. x \in Words /\ x \in Int BY WordSame DEF GoldenAt
<1>2. i.imm \in Int BY Immediate
<1>3. w.op \notin J_TYPE \union U_TYPE_2 \union R_TYPE \union B_TYPE /\ w.op \in S_TYPE \union I_TYPE_3
  BY Disjoint DEF MemOps
<1>4. Result(w, pc, register_file) = alu(w.op, x, w.imm) BY <1>3 DEF Result
<1>5. alu(w.op, x, w.imm) = word(to_signed(x) + to_signed(w.imm)) BY <1>3, AluTable
<1>6. to_signed(w.imm) = i.imm BY SignedOfWord
<1>7. GoldenModel!addrOf(i) = word(to_signed(x) + i.imm)
  BY SameWords DEF GoldenModel!addrOf
<1>8. word(to_signed(x) + i.imm) \in Words
  <2>1. to_signed(x) + i.imm \in Int BY <1>1, <1>2, SignedIn
  <2> QED BY <2>1, WordIn
<1> QED BY <1>4, <1>5, <1>6, <1>7, <1>8

\* The size of an access is the same in both.
LEMMA SizeIs == \A op : GoldenModel!sizeOf(op) = size(op) /\ size(op) \in {1, 2, 4}
BY DEF GoldenModel!sizeOf, size

\* The bytes an access within the memory reaches.
LEMMA BytesOf ==
  ASSUME NEW addr \in Words, NEW sz \in {1, 2, 4}, InMemory(addr, sz), NEW j \in 0..sz - 1
  PROVE  addr + j \in Bytes /\ word(addr + j) = addr + j /\ addr + j \in Int
<1>1. addr + j \in Bytes BY WordTypes, PortsAssumption DEF Words, Bytes, InMemory
<1>2. addr + j \in Words BY <1>1, WordTypes, PortsAssumption DEF Words, Bytes
<1> QED BY <1>1, <1>2, WordSame

\* A load reads the same bytes in the golden model's sparse memory and in the array.
LEMMA LoadIs ==
  ASSUME NEW m, GoldenAt(m), NEW addr \in Words, NEW sz \in {1, 2, 4}, InMemory(addr, sz)
  PROVE  GoldenModel!load_mem(addr, sz) = loadedFrom(m, addr, sz)
<1>1. \A j \in 0..3 : j < sz => GoldenModel!mem_get(addr + j) = m[addr + j]
  <2> SUFFICES ASSUME NEW j \in 0..3, j < sz PROVE GoldenModel!mem_get(addr + j) = m[addr + j]
    OBVIOUS
  <2>1. j \in 0..sz - 1 OBVIOUS
  <2>2. addr + j \in Bytes /\ word(addr + j) = addr + j BY <2>1, BytesOf
  <2>3. m[addr + j] = IF addr + j \in DOMAIN data_mem THEN data_mem[addr + j] ELSE 0
    BY <2>2 DEF GoldenAt
  <2>4. GoldenModel!word(addr + j) = addr + j BY <2>2, SameWords
  <2> QED BY <2>3, <2>4 DEF GoldenModel!mem_get
<1> DEFINE g(j) == IF j < sz THEN GoldenModel!mem_get(addr + j) * BYTE ^ j ELSE 0
           l(j) == IF j < sz THEN m[addr + j] * BYTE ^ j ELSE 0
<1>2. g(0) = l(0) /\ g(1) = l(1) /\ g(2) = l(2) /\ g(3) = l(3)
  <2>1. \A j \in 0..3 : g(j) = l(j) BY <1>1
  <2>2. 0 \in 0..3 /\ 1 \in 0..3 /\ 2 \in 0..3 /\ 3 \in 0..3 OBVIOUS
  <2> HIDE DEF g, l
  <2> QED BY <2>1, <2>2
<1>3. GoldenModel!load_mem(addr, sz) = g(0) + g(1) + g(2) + g(3)
  BY SameWords DEF GoldenModel!load_mem
<1>4. loadedFrom(m, addr, sz) = l(0) + l(1) + l(2) + l(3) BY DEF loadedFrom
<1> HIDE DEF g, l
<1> QED BY <1>2, <1>3, <1>4

\* Loads write the same in both, sign extension included.
LEMMA ValueL ==
  ASSUME NEW m, GoldenAt(m), NEW i, NEW w, AgreesL(i, w), w.rs1 \in Regs,
         InMemory(Result(w, pc, register_file), size(w.op))
  PROVE  word(GoldenModel!res(i)) = Value(w, pc, register_file, m)
<1> DEFINE addr  == Result(w, pc, register_file)
           value == loadedFrom(m, addr, size(w.op))
<1>1. w.op \in I_TYPE_3 /\ w.op \in MemOps /\ i.opcode = w.op BY DEF AgreesL, Same, MemOps
<1>2. GoldenModel!addrOf(i) = addr /\ addr \in Words BY <1>1, AddressIs DEF AgreesL
<1>3. GoldenModel!load_mem(addr, size(w.op)) = value BY <1>2, SizeIs, LoadIs
<1>4. value \in Words
  <2>0. addr \in Nat /\ addr + size(w.op) <= 4 * D_MEM_DEPTH BY <1>2, WordSame DEF InMemory
  <2>1. m \in [Bytes -> 0..BYTE - 1] BY DEF GoldenAt
  <2> QED BY <2>0, <2>1, SizeIs, LoadIn
<1>5. Value(w, pc, register_file, m) = extended(w.op, value)
  <2>1. w.op \notin Jumps /\ w.op \notin U_TYPE_1
    BY <1>1 DEF Jumps, J_TYPE, I_TYPE_2, I_TYPE_3, U_TYPE_1
  <2> QED BY <1>1, <2>1 DEF Value
<1>6. BYTE > 0 /\ BYTE \in Int /\ HALF > 0 /\ HALF \in Int /\ value \in Int
  BY <1>4, WordTypes, WordSame
<1> HIDE DEF addr, value
<1>7. w.op \in {"lb", "lbu", "lh", "lhu", "lw"} BY <1>1 DEF I_TYPE_3
<1>8. CASE w.op = "lb"
  <2>1. GoldenModel!res(i) = signExtend(value, BYTE)
    BY <1>1, <1>2, <1>3, <1>8, SizeIs, SameWords DEF GoldenModel!res
  <2>2. signExtend(value, BYTE) \in Words BY <1>6, SignExtendIn
  <2> QED BY <1>5, <1>8, <2>1, <2>2, WordSame DEF extended
<1>9. CASE w.op = "lh"
  <2>1. GoldenModel!res(i) = signExtend(value, HALF)
    BY <1>1, <1>2, <1>3, <1>9, SizeIs, SameWords DEF GoldenModel!res
  <2>2. signExtend(value, HALF) \in Words BY <1>6, SignExtendIn
  <2> QED BY <1>5, <1>9, <2>1, <2>2, WordSame DEF extended
<1>10. CASE w.op \in {"lbu", "lhu", "lw"}
  <2>1. GoldenModel!res(i) = value
    BY <1>1, <1>2, <1>3, <1>10, SizeIs DEF GoldenModel!res
  <2> QED BY <1>4, <1>5, <1>10, <2>1, WordSame DEF extended
<1> QED BY <1>7, <1>8, <1>9, <1>10

\* A store, in the golden model's sparse memory and in the memory by byte.
LEMMA StoreIs ==
  ASSUME NEW m, GoldenAt(m), NEW addr \in Words, NEW sz \in {1, 2, 4}, InMemory(addr, sz),
         NEW val \in Words
  PROVE  LET s == GoldenModel!stored(addr, val, sz)
         IN  /\ storedTo(m, addr, val, sz) \in [Bytes -> 0..BYTE - 1]
             /\ DOMAIN s \subseteq Bytes
             /\ \A b \in Bytes : storedTo(m, addr, val, sz)[b] = IF b \in DOMAIN s THEN s[b] ELSE 0
<1> DEFINE s == GoldenModel!stored(addr, val, sz)
           A == {word(addr + j) : j \in 0..sz - 1}
<1>1. addr \in Int /\ sz \in Int BY WordSame
<1>2. A = addr .. addr + sz - 1
  <2>1. \A j \in 0..sz - 1 : word(addr + j) = addr + j BY BytesOf
  <2>2. ASSUME NEW b \in addr .. addr + sz - 1 PROVE b \in A
    <3>1. b - addr \in 0..sz - 1 /\ addr + (b - addr) = b BY <1>1
    <3>2. word(addr + (b - addr)) = b BY <2>1, <3>1
    <3> QED BY <3>1, <3>2
  <2>3. ASSUME NEW j \in 0..sz - 1 PROVE word(addr + j) \in addr .. addr + sz - 1
    BY <1>1, <2>1
  <2> QED BY <2>2, <2>3
<1>3. A \subseteq Bytes BY BytesOf
<1>4. \A b \in A : word(b - addr) = b - addr
  <2> SUFFICES ASSUME NEW b \in A PROVE word(b - addr) = b - addr OBVIOUS
  <2>1. b - addr \in 0..3 BY <1>1, <1>2
  <2>2. b - addr \in Words BY <2>1, WordTypes DEF Words
  <2> QED BY <2>2, WordSame
<1>5. s = [b \in A \union DOMAIN data_mem |-> IF b \in A THEN byteOf(val, b - addr) ELSE data_mem[b]]
  <2>1. s = [b \in A \union DOMAIN data_mem |->
              IF b \in A THEN byteOf(val, word(b - addr)) ELSE data_mem[b]]
    <3> DEFINE B == {GoldenModel!word(addr + j) : j \in 0..sz - 1}
    <3>1. A = B BY SameWords
    <3>2. s = [b \in B \union DOMAIN data_mem |-> IF b \in B
                THEN GoldenModel!byteOf(val, GoldenModel!word(b - addr)) ELSE data_mem[b]]
      BY DEF GoldenModel!stored
    <3> HIDE DEF A, B, s
    <3> QED BY <3>1, <3>2, SameWords
  <2> HIDE DEF A, s
  <2> QED BY <1>4, <2>1
<1>6. \A j \in 0..3 : byteOf(val, j) \in 0..BYTE - 1 BY ByteIn, WordSame
<1>7. \A b \in A : byteOf(val, b - addr) \in 0..BYTE - 1
  <2>1. \A b \in A : b - addr \in 0..3 BY <1>1, <1>2
  <2> HIDE DEF A
  <2> QED BY <1>6, <2>1
<1>8. storedTo(m, addr, val, sz) = [b \in Bytes |-> IF b \in A THEN byteOf(val, b - addr) ELSE m[b]]
  BY <1>2 DEF storedTo
<1> HIDE DEF A, s
<1>9. storedTo(m, addr, val, sz) \in [Bytes -> 0..BYTE - 1] BY <1>7, <1>8 DEF GoldenAt
<1>10. DOMAIN s \subseteq Bytes BY <1>3, <1>5 DEF GoldenAt
<1>11. \A b \in Bytes : storedTo(m, addr, val, sz)[b] = IF b \in DOMAIN s THEN s[b] ELSE 0
  BY <1>3, <1>5, <1>8 DEF GoldenAt
<1> QED BY <1>9, <1>10, <1>11 DEF s

\* A branch is taken in the golden model when the ALU's lowest bit says so.
LEMMA BranchIs ==
  ASSUME NEW m, GoldenAt(m), NEW i, NEW w, AgreesB(i, w), w.rs1 \in Regs, w.rs2 \in Regs
  PROVE  GoldenModel!branches(i) <=> Result(w, pc, register_file) % 2 = 1
<1> DEFINE x == register_file[w.rs1]
           y == register_file[w.rs2]
           r == Result(w, pc, register_file)
<1>1. x \in Words /\ y \in Words BY DEF GoldenAt
<1>2. w.op \in B_TYPE /\ i.opcode = w.op /\ register_file[i.r1] = x /\ register_file[i.r2] = y
  BY DEF AgreesB, Same
<1>3. r = alu(w.op, x, y)
  <2>1. w.op \notin J_TYPE \union U_TYPE_2 BY <1>2, Disjoint
  <2> QED BY <1>2, <2>1 DEF Result
<1>4. 0 % 2 # 1 /\ 1 % 2 = 1 OBVIOUS
<1>5. to_signed(x) = to_signed(y) <=> x = y BY <1>1, SignedInjective
<1>6. w.op \in {"beq", "bne", "blt", "bltu", "bge", "bgeu"} BY <1>2 DEF B_TYPE
<1> HIDE DEF x, y, r
<1>10. CASE w.op = "beq"
  <2>1. r = IF x = y THEN 1 ELSE 0 BY <1>3, <1>10, AluTable
  <2>2. GoldenModel!branches(i) <=> x = y
    BY <1>2, <1>5, <1>10, SameWords DEF GoldenModel!branches
  <2> QED BY <1>4, <2>1, <2>2 DEF r
<1>11. CASE w.op = "bne"
  <2>1. r = IF x # y THEN 1 ELSE 0 BY <1>3, <1>11, AluTable
  <2>2. GoldenModel!branches(i) <=> x # y
    BY <1>2, <1>5, <1>11, SameWords DEF GoldenModel!branches
  <2> QED BY <1>4, <2>1, <2>2 DEF r
<1>12. CASE w.op = "blt"
  <2>1. r = IF to_signed(x) < to_signed(y) THEN 1 ELSE 0 BY <1>3, <1>12, AluTable
  <2>2. GoldenModel!branches(i) <=> to_signed(x) < to_signed(y)
    BY <1>2, <1>5, <1>12, SameWords DEF GoldenModel!branches
  <2> QED BY <1>4, <2>1, <2>2 DEF r
<1>13. CASE w.op = "bltu"
  <2>1. r = IF x < y THEN 1 ELSE 0 BY <1>3, <1>13, AluTable
  <2>2. GoldenModel!branches(i) <=> x < y
    BY <1>2, <1>5, <1>13, SameWords DEF GoldenModel!branches
  <2> QED BY <1>4, <2>1, <2>2 DEF r
<1>14. CASE w.op = "bge"
  <2>1. r = IF to_signed(x) >= to_signed(y) THEN 1 ELSE 0 BY <1>3, <1>14, AluTable
  <2>2. GoldenModel!branches(i) <=> to_signed(x) >= to_signed(y)
    BY <1>2, <1>5, <1>14, SameWords DEF GoldenModel!branches
  <2> QED BY <1>4, <2>1, <2>2 DEF r
<1>15. CASE w.op = "bgeu"
  <2>1. r = IF x >= y THEN 1 ELSE 0 BY <1>3, <1>15, AluTable
  <2>2. GoldenModel!branches(i) <=> x >= y
    BY <1>2, <1>5, <1>15, SameWords DEF GoldenModel!branches
  <2> QED BY <1>4, <2>1, <2>2 DEF r
<1> QED BY <1>6, <1>10, <1>11, <1>12, <1>13, <1>14, <1>15

\* The pc after a branch.
LEMMA NextPcB ==
  ASSUME NEW m, GoldenAt(m), NEW i, NEW w, AgreesB(i, w), w.rs1 \in Regs, w.rs2 \in Regs
  PROVE  GoldenModel!next_pc(i) = NextPc(w, pc, register_file)
<1> DEFINE taken == Result(w, pc, register_file) % 2 = 1
<1>1. pc \in Int /\ i.b_offset \in Int /\ w.imm = word(i.b_offset) BY WordSame DEF GoldenAt, AgreesB
<1>2. w.op \in B_TYPE /\ w.op \notin Jumps /\ i.instr_class = "b_type"
  BY Disjoint DEF AgreesB, Same, Jumps
<1>3. GoldenModel!next_pc(i) = word(IF taken THEN pc + i.b_offset ELSE pc + 4)
  <2>1. GoldenModel!branches(i) <=> taken BY BranchIs
  <2> HIDE DEF taken
  <2> QED BY <1>2, <2>1, SameWords DEF GoldenModel!next_pc
<1>4. NextPc(w, pc, register_file) = word(pc + IF taken THEN w.imm ELSE 4) BY <1>2 DEF NextPc
<1>5. word(pc + w.imm) = word(pc + i.b_offset) BY <1>1, WordOfSum
<1> HIDE DEF taken
<1> QED BY <1>3, <1>4, <1>5

\* The pc after jal.
LEMMA NextPcJ ==
  ASSUME NEW m, GoldenAt(m), NEW i, NEW w, AgreesJ(i, w)
  PROVE  GoldenModel!next_pc(i) = NextPc(w, pc, register_file)
<1>1. pc \in Int /\ i.j_offset \in Int /\ w.imm = word(i.j_offset) BY WordSame DEF GoldenAt, AgreesJ
<1>2. w.op \in J_TYPE /\ w.op \in Jumps /\ w.op \notin R_TYPE \union B_TYPE
      /\ i.instr_class = "j_type"
  BY Disjoint DEF AgreesJ, Same, Jumps
<1>3. GoldenModel!next_pc(i) = word(pc + i.j_offset) BY <1>2, SameWords DEF GoldenModel!next_pc
<1>4. NextPc(w, pc, register_file) = alu(w.op, pc, w.imm) BY <1>2 DEF NextPc, Result
<1>5. alu(w.op, pc, w.imm) = word(to_signed(pc) + to_signed(w.imm)) BY <1>2, AluTable
<1>6. word(to_signed(pc) + to_signed(w.imm)) = word(to_signed(pc) + i.j_offset)
  BY <1>1, SignedAddWords
<1>7. word(to_signed(pc) + i.j_offset) = word(pc + i.j_offset) BY <1>1, WordOfSum
<1> QED BY <1>3, <1>4, <1>5, <1>6, <1>7

\* The pc after jalr: the lowest bit is cleared before or after the cut to a word.
LEMMA NextPcJR ==
  ASSUME NEW m, GoldenAt(m), NEW i, NEW w, AgreesJR(i, w), w.rs1 \in Regs
  PROVE  GoldenModel!next_pc(i) = NextPc(w, pc, register_file)
<1> DEFINE x == register_file[w.rs1]
           t == to_signed(x) + i.imm
<1>1. x \in Int /\ i.imm \in Int BY WordSame, Immediate DEF GoldenAt, AgreesJR
<1>2. /\ w.op \in I_TYPE_2 /\ w.op \in Jumps /\ i.instr_class = "i_type_2"
      /\ w.op \notin R_TYPE \union B_TYPE \union J_TYPE \union U_TYPE_2
      /\ register_file[i.r1] = x /\ to_signed(w.imm) = i.imm
  BY Disjoint, SignedOfWord DEF AgreesJR, Same, Jumps
<1>3. t \in Int BY <1>1, SignedIn
<1>4. GoldenModel!next_pc(i) = word(t - (t % 2))
  BY <1>2, SameWords DEF GoldenModel!next_pc
<1>5. NextPc(w, pc, register_file) = alu(w.op, x, w.imm) BY <1>2 DEF NextPc, Result
<1>6. alu(w.op, x, w.imm) = word(t) - (word(t) % 2) BY <1>2, AluTable
<1>7. word(t) - (word(t) % 2) = word(t - (t % 2)) BY <1>3, WordEven
<1> QED BY <1>4, <1>5, <1>6, <1>7

\* The pc after any instruction.
LEMMA NextPcIs ==
  ASSUME NEW m, GoldenAt(m), NEW i, NEW w, Agrees(i, w)
  PROVE  GoldenModel!next_pc(i) = NextPc(w, pc, register_file)
<1>1. CASE AgreesB(i, w) BY <1>1, NextPcB DEF Agrees
<1>2. CASE AgreesJ(i, w) BY <1>2, NextPcJ
<1>3. CASE AgreesJR(i, w) BY <1>3, NextPcJR DEF Agrees
<1>4. CASE AgreesR(i, w) \/ AgreesI(i, w) \/ AgreesS(i, w) \/ AgreesL(i, w) \/ AgreesU(i, w)
           \/ AgreesN(i, w)
  <2>1. i.instr_class \in {"r_type", "i_type_4", "s_type", "i_type_3", "u_type", "nop_type"}
    BY <1>4 DEF AgreesR, AgreesI, AgreesS, AgreesL, AgreesU, AgreesN, Same
  <2>2. w.op \in R_TYPE \union I_TYPE_4 \union S_TYPE \union I_TYPE_3 \union U_TYPE_1 \union U_TYPE_2
    BY <1>4 DEF AgreesR, AgreesI, AgreesS, AgreesL, AgreesU, AgreesN, I_TYPE_4
  <2>3. w.op \notin Jumps /\ w.op \notin B_TYPE BY <2>2, Disjoint DEF Jumps
  <2>4. GoldenModel!next_pc(i) = word(pc + 4) BY <2>1, SameWords DEF GoldenModel!next_pc
  <2>5. NextPc(w, pc, register_file) = word(pc + 4) BY <2>3 DEF NextPc
  <2> QED BY <2>4, <2>5
<1> QED BY <1>1, <1>2, <1>3, <1>4 DEF Agrees

\* Integers are closed under what the results are made of.
LEMMA Closed ==
  /\ \A a, b \in Int : a + b \in Int /\ a - b \in Int /\ a * b \in Int
  /\ \A a \in Int, d \in Nat \ {0} : a * d \in Int /\ a \div d \in Int
OBVIOUS

\* What is written to a register is a word.
LEMMA ResR ==
  ASSUME NEW m, GoldenAt(m), NEW i, NEW w, AgreesR(i, w), w.rs1 \in Regs, w.rs2 \in Regs
  PROVE  GoldenModel!res(i) \in Int
<1> DEFINE x == register_file[w.rs1]
           y == register_file[w.rs2]
           sx == to_signed(x)
           sy == to_signed(y)
           d == 2 ^ shamt(y)
<1>1. x \in Int /\ y \in Int BY WordSame DEF GoldenAt
<1>2. w.op \in R_TYPE /\ i.opcode = w.op /\ register_file[i.r1] = x /\ register_file[i.r2] = y
  BY DEF AgreesR, Same
<1>3. sx \in Int /\ sy \in Int /\ d \in Nat \ {0} BY <1>1, SignedIn, PowerIn
<1>4. (x & y) \in Int /\ (x | y) \in Int /\ (x ^^ y) \in Int BY BitwiseIn, WordSame
<1>5. w.op \in {"add", "sub", "and", "or", "xor", "sll", "srl", "sra", "slt", "sltu"}
  BY <1>2 DEF R_TYPE
<1>6. GoldenModel!res(i) \in {sx + sy, sx - sy, (x & y), (x | y), (x ^^ y), x * d, x \div d,
                              sx \div d, 0, 1}
  BY <1>2, <1>5, ResTable
<1>7. sx + sy \in Int /\ sx - sy \in Int /\ x * d \in Int /\ x \div d \in Int /\ sx \div d \in Int
  BY <1>1, <1>3, Closed
<1> HIDE DEF x, y, sx, sy, d
<1> QED BY <1>4, <1>6, <1>7

\* The same of the register-immediate instructions.
LEMMA ResI ==
  ASSUME NEW m, GoldenAt(m), NEW i, NEW w, AgreesI(i, w), w.rs1 \in Regs
  PROVE  GoldenModel!res(i) \in Int
<1> DEFINE x == register_file[w.rs1]
           y == word(i.imm)
           sx == to_signed(x)
           d == 2 ^ shamt(i.imm)
<1>1. x \in Int /\ i.imm \in Int BY WordSame, Immediate DEF GoldenAt, AgreesI
<1>2. w.op \in I_TYPE_4 /\ i.opcode = w.op /\ register_file[i.r1] = x BY DEF AgreesI, Same
<1>3. sx \in Int /\ d \in Nat \ {0} BY <1>1, SignedIn, PowerIn
<1>4. (x & y) \in Int /\ (x | y) \in Int /\ (x ^^ y) \in Int BY BitwiseIn, WordSame
<1>5. w.op \in {"addi", "andi", "ori", "xori", "slti", "sltiu", "slli", "srli", "srai"}
  BY <1>2 DEF I_TYPE_4
<1>6. GoldenModel!res(i) \in {sx + i.imm, (x & y), (x | y), (x ^^ y), x * d, x \div d,
                              sx \div d, 0, 1}
  BY <1>2, <1>5, ResTable
<1>7. sx + i.imm \in Int /\ x * d \in Int /\ x \div d \in Int /\ sx \div d \in Int
  BY <1>1, <1>3, Closed
<1> HIDE DEF x, y, sx, d
<1> QED BY <1>4, <1>6, <1>7

\* Any instruction that writes a register writes the same in both, and a word.
LEMMA ValueIs ==
  ASSUME NEW m, GoldenAt(m), NEW i, NEW w, Agrees(i, w), w.op \in RegWriters, w.rd # 0,
         w.op \in MemOps => InMemory(Result(w, pc, register_file), size(w.op))
  PROVE  /\ GoldenModel!word(GoldenModel!res(i)) = Value(w, pc, register_file, m)
         /\ Value(w, pc, register_file, m) \in Words
<1>1. GoldenModel!word(GoldenModel!res(i)) = word(GoldenModel!res(i)) BY SameWords
<1>2. CASE AgreesR(i, w) BY <1>1, <1>2, ValueR, ResR, WordIn DEF Agrees
<1>3. CASE AgreesI(i, w) BY <1>1, <1>3, ValueI, ResI, WordIn DEF Agrees
<1>4. CASE AgreesJ(i, w) \/ AgreesJR(i, w)
  <2>1. i.opcode = w.op /\ w.op \in Jumps BY <1>4 DEF AgreesJ, AgreesJR, Same, Jumps
  <2>2. GoldenModel!res(i) = pc + 4 BY <2>1, ResTable
  <2>3. pc + 4 \in Int BY WordSame DEF GoldenAt
  <2> QED BY <1>1, <2>1, <2>2, <2>3, ValueJ, WordIn
<1>5. CASE AgreesU(i, w)
  <2>1. pc \in Int /\ i.imm * UPPER \in Int BY <1>5, WordSame, WordAssumption DEF GoldenAt, AgreesU
  <2>2. i.opcode \in {"lui", "auipc"} BY <1>5 DEF AgreesU, Same, U_TYPE_1, U_TYPE_2
  <2>3. GoldenModel!res(i) \in Int BY <2>1, <2>2, ResTable
  <2> QED BY <1>1, <1>5, <2>3, ValueU, WordIn
<1>6. CASE AgreesL(i, w)
  <2>1. w.op \in I_TYPE_3 /\ w.op \in MemOps /\ i.opcode = w.op BY <1>6 DEF AgreesL, Same, MemOps
  <2>2. word(GoldenModel!res(i)) = Value(w, pc, register_file, m) BY <1>6, <2>1, ValueL DEF Agrees
  <2>3. Value(w, pc, register_file, m) \in Words
    <3> DEFINE value == loadedFrom(m, Result(w, pc, register_file), size(w.op))
    <3>1. Value(w, pc, register_file, m) = extended(w.op, value)
      <4>1. w.op \notin Jumps /\ w.op \notin U_TYPE_1
        BY <2>1 DEF Jumps, J_TYPE, I_TYPE_2, I_TYPE_3, U_TYPE_1
      <4> QED BY <2>1, <4>1 DEF Value
    <3>2. Result(w, pc, register_file) \in Words BY <1>6, <2>1, AddressIs DEF Agrees, AgreesL
    <3>3. value \in Words
      <4>1. Result(w, pc, register_file) \in Nat
            /\ Result(w, pc, register_file) + size(w.op) <= 4 * D_MEM_DEPTH
        BY <2>1, <3>2, WordSame DEF InMemory
      <4>2. m \in [Bytes -> 0..BYTE - 1] BY DEF GoldenAt
      <4> QED BY <4>1, <4>2, SizeIs, LoadIn
    <3>4. BYTE > 0 /\ BYTE \in Int /\ HALF > 0 /\ HALF \in Int /\ value \in Int
      BY <3>3, WordTypes, WordSame
    <3> HIDE DEF value
    <3>5. signExtend(value, BYTE) \in Words /\ signExtend(value, HALF) \in Words
      BY <3>4, SignExtendIn
    <3> QED BY <3>1, <3>3, <3>5 DEF extended
  <2> QED BY <1>1, <2>2, <2>3
<1>7. ~AgreesN(i, w) BY DEF AgreesN
<1>8. ~AgreesB(i, w) /\ ~AgreesS(i, w) BY DEF AgreesB, AgreesS
<1> QED BY <1>2, <1>3, <1>4, <1>5, <1>6, <1>7, <1>8 DEF Agrees

\* The registers after an instruction.
LEMMA FileIs ==
  ASSUME NEW m, GoldenAt(m), NEW i, NEW w, Agrees(i, w),
         w.op \in MemOps => InMemory(Result(w, pc, register_file), size(w.op))
  PROVE  /\ NextRegs(w, pc, register_file, m) =
              IF i.rd = 0 THEN register_file
              ELSE [register_file EXCEPT ![i.rd] = GoldenModel!word(GoldenModel!res(i))]
         /\ NextRegs(w, pc, register_file, m) \in [Regs -> Words]
         /\ NextRegs(w, pc, register_file, m)[0] = 0
<1>1. register_file \in [Regs -> Words] /\ register_file[0] = 0 /\ 0 \in Regs
  BY PipelineAssumption DEF GoldenAt
<1>2. w.rd \in Regs /\ i.rd = w.rd BY DEF Agrees
<1>3. CASE w.rd = 0 BY <1>1, <1>2, <1>3 DEF NextRegs
<1>4. CASE w.rd # 0
  <2>1. w.op \in RegWriters
    <3>1. AgreesR(i, w) \/ AgreesI(i, w) \/ AgreesJ(i, w) \/ AgreesJR(i, w) \/ AgreesL(i, w)
          \/ AgreesU(i, w)
      BY <1>4 DEF Agrees, AgreesB, AgreesS, AgreesN
    <3> QED BY <3>1 DEF RegWriters, AgreesR, AgreesI, AgreesJ, AgreesJR, AgreesL, AgreesU
  <2> DEFINE v == Value(w, pc, register_file, m)
  <2>2. GoldenModel!word(GoldenModel!res(i)) = v /\ v \in Words BY <1>4, <2>1, ValueIs
  <2>3. NextRegs(w, pc, register_file, m) = [register_file EXCEPT ![w.rd] = v]
    BY <1>4, <2>1 DEF NextRegs
  <2> HIDE DEF v
  <2> QED BY <1>1, <1>2, <1>4, <2>2, <2>3
<1> QED BY <1>3, <1>4

\* A pc is a word.
LEMMA PcIn ==
  ASSUME NEW m, GoldenAt(m), NEW i, NEW w, Agrees(i, w)
  PROVE  NextPc(w, pc, register_file) \in Words
<1>1. NextPc(w, pc, register_file) = GoldenModel!next_pc(i) BY NextPcIs
<1>2. pc \in Int BY WordSame DEF GoldenAt
<1>3. CASE AgreesB(i, w)
  <2>1. i.instr_class = "b_type" /\ i.b_offset \in Int BY <1>3 DEF AgreesB, Same
  <2>2. pc + i.b_offset \in Int /\ pc + 4 \in Int BY <1>2, <2>1
  <2> QED BY <1>1, <2>1, <2>2, WordIn, SameWords DEF GoldenModel!next_pc
<1>4. CASE AgreesJ(i, w)
  <2>1. i.instr_class = "j_type" /\ i.j_offset \in Int BY <1>4 DEF AgreesJ, Same
  <2> QED BY <1>1, <1>2, <2>1, WordIn, SameWords DEF GoldenModel!next_pc
<1>5. CASE AgreesJR(i, w)
  <2>1. i.instr_class = "i_type_2" /\ i.imm \in Int /\ register_file[i.r1] \in Int
    BY <1>5, Immediate, WordSame DEF AgreesJR, Same, GoldenAt, Agrees
  <2> DEFINE t == to_signed(register_file[i.r1]) + i.imm
  <2>2. t \in Int BY <2>1, SignedIn
  <2>3. GoldenModel!next_pc(i) = word(t - (t % 2)) BY <2>1, SameWords DEF GoldenModel!next_pc
  <2>4. t - (t % 2) \in Int
    <3> HIDE DEF t
    <3> QED BY <2>2
  <2> QED BY <1>1, <2>3, <2>4, WordIn
<1>6. CASE ~AgreesB(i, w) /\ ~AgreesJ(i, w) /\ ~AgreesJR(i, w)
  <2>1. i.instr_class \in {"r_type", "i_type_4", "s_type", "i_type_3", "u_type", "nop_type"}
    BY <1>6 DEF Agrees, AgreesR, AgreesI, AgreesS, AgreesL, AgreesU, AgreesN, Same
  <2>2. GoldenModel!next_pc(i) = word(pc + 4) BY <2>1, SameWords DEF GoldenModel!next_pc
  <2> QED BY <1>1, <1>2, <2>2, WordIn
<1> QED BY <1>3, <1>4, <1>5, <1>6

-----------------------------------------------------------------------------
(* The golden model extends the run.                                        *)

\* The access the golden model notes is the one the word makes.
LEMMA AccessIs ==
  ASSUME NEW m, GoldenAt(m), NEW i, NEW w, Agrees(i, w)
  PROVE  /\ w.op \in MemOps =>
              /\ access(i) = <<[write |-> w.op \in S_TYPE, addr |-> Result(w, pc, register_file),
                                size |-> size(w.op)]>>
              /\ Result(w, pc, register_file) \in Words
              /\ GoldenModel!addrOf(i) = Result(w, pc, register_file)
         /\ w.op \notin MemOps => access(i) = <<>>
<1>1. CASE AgreesS(i, w)
  <2>1. w.op \in MemOps /\ w.op \in S_TYPE /\ i.instr_class = "s_type" /\ i.opcode = w.op
    BY <1>1 DEF AgreesS, Same, MemOps
  <2>2. (w.op \in S_TYPE) = TRUE /\ (i.instr_class = "s_type") = TRUE BY <2>1
  <2>3. /\ GoldenModel!addrOf(i) = Result(w, pc, register_file)
        /\ Result(w, pc, register_file) \in Words
    BY <1>1, <2>1, AddressIs DEF AgreesS, Agrees
  <2> QED BY <2>1, <2>2, <2>3, SizeIs DEF access
<1>2. CASE AgreesL(i, w)
  <2>1. w.op \in MemOps /\ w.op \notin S_TYPE /\ i.instr_class = "i_type_3" /\ i.opcode = w.op
    BY <1>2, Disjoint DEF AgreesL, Same, MemOps
  <2>2. (w.op \in S_TYPE) = FALSE /\ (i.instr_class = "s_type") = FALSE BY <2>1
  <2>3. /\ GoldenModel!addrOf(i) = Result(w, pc, register_file)
        /\ Result(w, pc, register_file) \in Words
    BY <1>2, <2>1, AddressIs DEF AgreesL, Agrees
  <2> QED BY <2>1, <2>2, <2>3, SizeIs DEF access
<1>3. CASE ~AgreesS(i, w) /\ ~AgreesL(i, w)
  <2>1. w.op \in R_TYPE \union I_TYPE_4 \union B_TYPE \union J_TYPE \union I_TYPE_2
          \union U_TYPE_1 \union U_TYPE_2
    BY <1>3 DEF Agrees, AgreesR, AgreesI, AgreesB, AgreesJ, AgreesJR, AgreesU, AgreesN, I_TYPE_4
  <2>2. w.op \notin MemOps BY <2>1, Disjoint DEF MemOps
  <2>3. i.instr_class \notin {"s_type", "i_type_3"}
    BY <1>3 DEF Agrees, AgreesR, AgreesI, AgreesB, AgreesJ, AgreesJR, AgreesU, AgreesN, Same
  <2> QED BY <2>2, <2>3 DEF access
<1> QED BY <1>1, <1>2, <1>3

\* The memory after an instruction.
LEMMA MemIs ==
  ASSUME NEW m, GoldenAt(m), NEW i, NEW w, Agrees(i, w),
         w.op \in MemOps => InMemory(Result(w, pc, register_file), size(w.op)),
         NEW d, d = IF i.instr_class = "s_type"
                    THEN GoldenModel!stored(GoldenModel!addrOf(i), register_file[i.r2],
                                            GoldenModel!sizeOf(i.opcode))
                    ELSE data_mem
  PROVE  LET e == NextMem(w, pc, register_file, m)
         IN  /\ e \in [Bytes -> 0..BYTE - 1] /\ DOMAIN d \subseteq Bytes
             /\ \A b \in Bytes : e[b] = IF b \in DOMAIN d THEN d[b] ELSE 0
<1>1. CASE AgreesS(i, w)
  <2> DEFINE addr == Result(w, pc, register_file)
             val  == register_file[w.rs2]
             s == GoldenModel!stored(addr, val, size(w.op))
             e == storedTo(m, addr, val, size(w.op))
  <2>1. w.op \in MemOps /\ w.op \in S_TYPE /\ i.instr_class = "s_type" /\ i.opcode = w.op
        /\ i.r2 = w.rs2 /\ w.rs2 \in Regs
    BY <1>1 DEF AgreesS, Same, MemOps, Agrees
  <2>2. GoldenModel!addrOf(i) = addr /\ addr \in Words BY <2>1, AccessIs
  <2>3. val \in Words BY <2>1 DEF GoldenAt
  <2>4. d = s BY <2>1, <2>2, SizeIs
  <2>5. NextMem(w, pc, register_file, m) = e BY <2>1 DEF NextMem
  <2>6. /\ e \in [Bytes -> 0..BYTE - 1] /\ DOMAIN s \subseteq Bytes
        /\ \A b \in Bytes : e[b] = IF b \in DOMAIN s THEN s[b] ELSE 0
    BY <2>1, <2>2, <2>3, SizeIs, StoreIs
  <2> HIDE DEF e, s
  <2> QED BY <2>4, <2>5, <2>6
<1>2. CASE ~AgreesS(i, w)
  <2>1. w.op \notin S_TYPE
    <3>1. w.op \in R_TYPE \union I_TYPE_4 \union B_TYPE \union J_TYPE \union I_TYPE_2
            \union U_TYPE_1 \union U_TYPE_2 \union I_TYPE_3
      BY <1>2 DEF Agrees, AgreesR, AgreesI, AgreesB, AgreesJ, AgreesJR, AgreesU, AgreesN,
                  AgreesL, I_TYPE_4
    <3> QED BY <3>1, Disjoint
  <2>2. i.instr_class # "s_type"
    BY <1>2 DEF Agrees, AgreesR, AgreesI, AgreesB, AgreesJ, AgreesJR, AgreesU, AgreesN, AgreesL, Same
  <2>3. NextMem(w, pc, register_file, m) = m /\ d = data_mem BY <2>1, <2>2 DEF NextMem
  <2> QED BY <2>3 DEF GoldenAt
<1> QED BY <1>1, <1>2

\* One instruction of the golden model is one more step of the run.
LEMMA ExecStep ==
  ASSUME NEW T, RunOf(T), GoldenIs(T), QueuesAre(T), SourceRead, SourceParsed,
         transactions_checked = 0, ExecInstr, Aligned'
  PROVE  /\ \E S : RunOf(S)' /\ GoldenIs(S)' /\ QueuesAre(S)'
         /\ retired' = retired + 1
<1> PICK R : R = retired OBVIOUS
<1> DEFINE m == T.mem[R]
           i == parsed_instrs[pc \div 4 + 1]
           w == WordAt(pc)
           r1 == NextRegs(w, pc, register_file, m)
           m1 == NextMem(w, pc, register_file, m)
           p1 == NextPc(w, pc, register_file)
           made == IF w.op \in MemOps
                   THEN <<[write |-> w.op \in S_TYPE, addr |-> Result(w, pc, register_file),
                           size |-> size(w.op)]>>
                   ELSE <<>>
<1>1. /\ ~GoldenModel!golden_ended /\ ~i.wrong
      /\ register_file' = IF i.rd = 0 THEN register_file
                          ELSE [register_file EXCEPT ![i.rd] = GoldenModel!word(GoldenModel!res(i))]
      /\ data_mem' = IF i.instr_class = "s_type"
                     THEN GoldenModel!stored(GoldenModel!addrOf(i), register_file[i.r2],
                                             GoldenModel!sizeOf(i.opcode))
                     ELSE data_mem
      /\ pc' = GoldenModel!next_pc(i)
      /\ golden_reg_queue' = Append(golden_reg_queue, register_file')
      /\ golden_pc_queue' = Append(golden_pc_queue, pc)
      /\ retired' = retired + 1
      /\ expected_accesses' = expected_accesses \o access(i)
      /\ program' = program /\ transactions_checked' = transactions_checked
  BY DEF ExecInstr, GoldenModel!exec_instr
<1>2. pc \div 4 + 1 \in DOMAIN parsed_instrs /\ ~i.stop BY <1>1 DEF GoldenModel!golden_ended
<1>3. R \in Nat /\ R \in 0..R BY DEF RunOf
<1>4. GoldenAt(m)
  <2>1. pc = T.pc[R] /\ register_file = T.regs[R] BY DEF GoldenIs
  <2>2. /\ T.pc[R] \in Words /\ T.regs[R] \in [Regs -> Words] /\ T.regs[R][0] = 0
        /\ T.mem[R] \in [Bytes -> 0..BYTE - 1]
    BY <1>3, RunTypes
  <2> QED BY <2>1, <2>2 DEF GoldenIs, GoldenAt
<1>5. /\ pc \in Nat /\ pc \div 4 + 1 \in 1..Len(instrs) /\ Len(code) = Len(instrs)
      /\ w = encode(program.lines, instrs[pc \div 4 + 1], 4 * ((pc \div 4 + 1) - 1))
  <2>1. pc \div 4 + 1 \in 1..Len(instrs) /\ Len(code) = Len(instrs)
    BY <1>2, CodeIs DEF SourceParsed
  <2>2. pc \in Nat BY <1>4, WordSame DEF GoldenAt
  <2> QED BY <2>1, <2>2, CodeIs DEF WordAt
<1>6. i = GoldenModel!decode_instr(instrs[pc \div 4 + 1], (pc \div 4 + 1) - 1)
  <2> DEFINE k == pc \div 4 + 1
  <2>1. k \in DOMAIN parsed_instrs BY <1>2
  <2>2. parsed_instrs[k] = GoldenModel!decode_instr(instrs[k], k - 1)
    <3> HIDE DEF k
    <3> QED BY <2>1 DEF SourceParsed
  <2> QED BY <2>2
<1>7. Agrees(i, w)
  <2> DEFINE k == pc \div 4 + 1
  <2>1. k \in 1..Len(instrs) /\ w = encode(program.lines, instrs[k], 4 * (k - 1))
        /\ i = GoldenModel!decode_instr(instrs[k], k - 1)
    BY <1>5, <1>6
  <2> HIDE DEF k, i, w
  <2> QED BY <1>1, <1>2, <2>1, Decoded
<1>8. access(i) = made BY <1>4, <1>7, AccessIs
<1>9. w.op \in MemOps => Result(w, pc, register_file) \in Words BY <1>4, <1>7, AccessIs
<1> HIDE DEF i, w
<1>10. expected_accesses \in Seq(Expected) BY DEF RunOf
<1>11. made \in Seq(Expected) /\ Len(made) = IF w.op \in MemOps THEN 1 ELSE 0
  <2>1. CASE w.op \in MemOps
    <3> DEFINE a == [write |-> w.op \in S_TYPE, addr |-> Result(w, pc, register_file), size |-> size(w.op)]
    <3>1. a \in Expected
      <4>1. (w.op \in S_TYPE) \in BOOLEAN OBVIOUS
      <4> QED BY <1>9, <2>1, <4>1, SizeIs DEF Expected
    <3>2. made = <<a>> BY <2>1
    <3> HIDE DEF a, made
    <3> QED BY <2>1, <3>1, <3>2
  <2>2. CASE w.op \notin MemOps BY <2>2
  <2> QED BY <2>1, <2>2
<1>12. /\ expected_accesses' \in Seq(Expected)
       /\ Len(expected_accesses') = Len(expected_accesses) + Len(made)
       /\ \A j \in 1..Len(expected_accesses) : expected_accesses'[j] = expected_accesses[j]
       /\ \A j \in DOMAIN expected_accesses :
            j \in DOMAIN expected_accesses' /\ expected_accesses'[j] = expected_accesses[j]
  <2>1. expected_accesses' = expected_accesses \o made BY <1>1, <1>8
  <2> HIDE DEF made
  <2>2. \A s, t \in Seq(Expected) : /\ s \o t \in Seq(Expected) /\ Len(s \o t) = Len(s) + Len(t)
                                    /\ \A j \in 1..Len(s) : (s \o t)[j] = s[j]
                                    /\ DOMAIN s = 1..Len(s) /\ Len(s) \in Nat
    OBVIOUS
  <2>3. /\ expected_accesses \o made \in Seq(Expected)
        /\ Len(expected_accesses \o made) = Len(expected_accesses) + Len(made)
        /\ \A j \in 1..Len(expected_accesses) : (expected_accesses \o made)[j] = expected_accesses[j]
        /\ DOMAIN expected_accesses = 1..Len(expected_accesses) /\ Len(expected_accesses) \in Nat
        /\ DOMAIN (expected_accesses \o made) = 1..Len(expected_accesses \o made)
        /\ Len(made) \in Nat
    BY <1>10, <1>11, <2>2
  <2> QED BY <2>1, <2>3
<1>13. w.op \in MemOps =>
         LET j == Len(expected_accesses) + 1
         IN  /\ j \in DOMAIN expected_accesses'
             /\ expected_accesses'[j] = [write |-> w.op \in S_TYPE, size |-> size(w.op),
                                         addr |-> Result(w, pc, register_file)]
             /\ InMemory(Result(w, pc, register_file), size(w.op))
  <2> SUFFICES ASSUME w.op \in MemOps
               PROVE  LET j == Len(expected_accesses) + 1
                      IN  /\ j \in DOMAIN expected_accesses'
                          /\ expected_accesses'[j] = [write |-> w.op \in S_TYPE, size |-> size(w.op),
                                                      addr |-> Result(w, pc, register_file)]
                          /\ InMemory(Result(w, pc, register_file), size(w.op))
    OBVIOUS
  <2> DEFINE a == [write |-> w.op \in S_TYPE, addr |-> Result(w, pc, register_file), size |-> size(w.op)]
             j == Len(expected_accesses) + 1
  <2>1. expected_accesses' = Append(expected_accesses, a)
    <3>1. made = <<a>> OBVIOUS
    <3> HIDE DEF a, made
    <3>2. expected_accesses \o <<a>> = Append(expected_accesses, a) BY <1>10
    <3> QED BY <1>1, <1>8, <3>1, <3>2
  <2>2. j \in DOMAIN expected_accesses' /\ expected_accesses'[j] = a
    <3> HIDE DEF a
    <3> QED BY <1>10, <2>1
  <2>3. InMemory(a.addr, a.size)
    <3> HIDE DEF a
    <3>1. InMemory(expected_accesses'[j].addr, expected_accesses'[j].size)
      BY <2>2 DEF Aligned, InMemory
    <3> QED BY <2>2, <3>1
  <2> QED BY <2>2, <2>3
<1>14. register_file' = r1 /\ r1 \in [Regs -> Words] /\ r1[0] = 0
  BY <1>1, <1>4, <1>7, <1>13, FileIs
<1>15. pc' = p1 /\ p1 \in Words BY <1>1, <1>4, <1>7, NextPcIs, PcIn
<1>16. /\ m1 \in [Bytes -> 0..BYTE - 1] /\ DOMAIN data_mem' \subseteq Bytes
       /\ \A b \in Bytes : m1[b] = IF b \in DOMAIN data_mem' THEN data_mem'[b] ELSE 0
  BY <1>1, <1>4, <1>7, <1>13, MemIs
<1>17. pc % 4 = 0
  <2>1. golden_pc_queue \in Seq(Words) /\ pc \in Words BY <1>4 DEF QueuesAre, GoldenAt
  <2>2. /\ Len(golden_pc_queue) + 1 \in DOMAIN golden_pc_queue'
        /\ golden_pc_queue'[Len(golden_pc_queue) + 1] = pc
    BY <1>1, <2>1
  <2> QED BY <2>2 DEF Aligned
<1> PICK S : S = [pc   |-> [k \in 0..R + 1 |-> IF k \in 0..R THEN T.pc[k] ELSE p1],
                  regs |-> [k \in 0..R + 1 |-> IF k \in 0..R THEN T.regs[k] ELSE r1],
                  mem  |-> [k \in 0..R + 1 |-> IF k \in 0..R THEN T.mem[k] ELSE m1],
                  acc  |-> [k \in 0..R + 1 |-> IF k \in 0..R THEN T.acc[k]
                                               ELSE T.acc[R] + Len(made)]]
  OBVIOUS
<1>18. \A k \in 0..R : /\ S.pc[k] = T.pc[k] /\ S.regs[k] = T.regs[k]
                       /\ S.mem[k] = T.mem[k] /\ S.acc[k] = T.acc[k]
  <2> HIDE DEF p1, r1, m1, made
  <2>1. \A k \in 0..R : k \in 0..R + 1 BY <1>3
  <2> QED BY <2>1
<1>19. /\ S.pc[R + 1] = p1 /\ S.regs[R + 1] = r1 /\ S.mem[R + 1] = m1
       /\ S.acc[R + 1] = T.acc[R] + Len(made)
  <2> HIDE DEF p1, r1, m1, made
  <2>1. R + 1 \in 0..R + 1 /\ R + 1 \notin 0..R BY <1>3
  <2> QED BY <2>1
<1> HIDE DEF p1, r1, m1, made
<1>20. code' = code BY <1>1 DEF code
<1>21. \A k \in 0..R : W(S, k)' = W(T, k) /\ Res(S, k)' = Res(T, k)
  <2>1. \A k \in 0..R : W(S, k)' = W(T, k) BY <1>18, <1>20 DEF W, WordAt
  <2> QED BY <1>18, <2>1 DEF Res
<1>22. T.acc[R] \in Nat /\ T.acc[R] = Len(expected_accesses) BY <1>3, RunTypes DEF RunOf
<1>23. \A k \in 0..R - 1 : Executes(S, k)'
  <2> SUFFICES ASSUME NEW k \in 0..R - 1 PROVE Executes(S, k)' OBVIOUS
  <2>1. Executes(T, k) /\ k \in 0..R /\ k + 1 \in 0..R BY RunSteps
  <2>2. W(S, k)' = W(T, k) /\ Res(S, k)' = Res(T, k) BY <1>21, <2>1
  <2>3. /\ S.pc[k] = T.pc[k] /\ S.regs[k] = T.regs[k] /\ S.mem[k] = T.mem[k] /\ S.acc[k] = T.acc[k]
        /\ S.pc[k + 1] = T.pc[k + 1] /\ S.regs[k + 1] = T.regs[k + 1]
        /\ S.mem[k + 1] = T.mem[k + 1] /\ S.acc[k + 1] = T.acc[k + 1]
    BY <1>18, <2>1
  <2>4. InstructionOK(S, k)' BY <1>20, <2>1, <2>2, <2>3 DEF Executes, InstructionOK
  <2>5. AccessOK(S, k)'
    <3> SUFFICES ASSUME W(T, k).op \in MemOps
                 PROVE  /\ InMemory(Res(T, k), size(W(T, k).op))
                        /\ T.acc[k + 1] \in DOMAIN expected_accesses'
                        /\ expected_accesses'[T.acc[k + 1]] =
                             [write |-> W(T, k).op \in S_TYPE, addr |-> Res(T, k),
                              size |-> size(W(T, k).op)]
      BY <2>2, <2>3, Zenon DEF AccessOK
    <3>1. /\ InMemory(Res(T, k), size(W(T, k).op))
          /\ T.acc[k + 1] \in DOMAIN expected_accesses
          /\ expected_accesses[T.acc[k + 1]] =
               [write |-> W(T, k).op \in S_TYPE, addr |-> Res(T, k), size |-> size(W(T, k).op)]
      BY <2>1, Zenon DEF Executes, AccessOK
    <3> QED BY <1>12, <3>1
  <2> QED BY <2>1, <2>2, <2>3, <2>4, <2>5 DEF Executes
<1>24. T.pc[R] = pc /\ T.regs[R] = register_file BY DEF GoldenIs
<1>25. /\ S.pc[R] = pc /\ S.regs[R] = register_file /\ S.mem[R] = m /\ S.acc[R] = T.acc[R]
       /\ W(S, R)' = w /\ Res(S, R)' = Result(w, pc, register_file)
  <2>1. W(T, R) = w BY <1>24 DEF W, w
  <2> QED BY <1>3, <1>18, <1>21, <1>24, <2>1 DEF Res
<1>26. Executes(S, R)'
  <2>1. InstructionOK(S, R)'
    <3>1. pc \div 4 < Len(code) BY <1>5
    <3>2. w.imm \in Words /\ w.rd \in Regs /\ w.rs1 \in Regs /\ w.rs2 \in Regs BY <1>7 DEF Agrees
    <3> QED BY <1>17, <1>20, <1>25, <3>1, <3>2 DEF InstructionOK
  <2>2. S.acc[R + 1] = S.acc[R] + IF w.op \in MemOps THEN 1 ELSE 0
    BY <1>11, <1>19, <1>25
  <2>3. AccessOK(S, R)'
    <3> SUFFICES ASSUME w.op \in MemOps
                 PROVE  /\ InMemory(Result(w, pc, register_file), size(w.op))
                        /\ S.acc[R + 1] \in DOMAIN expected_accesses'
                        /\ expected_accesses'[S.acc[R + 1]] =
                             [write |-> w.op \in S_TYPE, addr |-> Result(w, pc, register_file),
                              size |-> size(w.op)]
      BY <1>25 DEF AccessOK, InMemory
    <3>1. S.acc[R + 1] = Len(expected_accesses) + 1 BY <1>22, <1>25, <2>2
    <3> QED BY <1>13, <3>1
  <2>4. /\ S.regs[R + 1] = NextRegs(w, pc, register_file, m)
        /\ S.mem[R + 1] = NextMem(w, pc, register_file, m)
        /\ S.pc[R + 1] = NextPc(w, pc, register_file)
    BY <1>19 DEF r1, m1, p1
  <2> QED BY <1>25, <2>1, <2>2, <2>3, <2>4 DEF Executes
<1>27. RunOf(S)'
  <2>1. R + 1 \in Nat /\ retired' = R + 1 BY <1>1, <1>3
  <2>2. \A k \in 0..R + 1 : k \in 0..R \/ k = R + 1 BY <1>3
  <2>3. /\ S.pc \in [0..R + 1 -> Words] /\ S.regs \in [0..R + 1 -> [Regs -> Words]]
        /\ S.mem \in [0..R + 1 -> [Bytes -> 0..BYTE - 1]] /\ S.acc \in [0..R + 1 -> Nat]
    <3>1. \A k \in 0..R : /\ T.pc[k] \in Words /\ T.regs[k] \in [Regs -> Words]
                          /\ T.mem[k] \in [Bytes -> 0..BYTE - 1] /\ T.acc[k] \in Nat
      BY RunTypes
    <3>2. T.acc[R] + Len(made) \in Nat BY <1>11, <1>22
    <3> QED BY <1>14, <1>15, <1>16, <3>1, <3>2
  <2>4. \A k \in 0..R + 1 : S.regs[k][0] = 0
    <3>1. \A k \in 0..R : S.regs[k][0] = 0
      <4>1. \A k \in 0..R : T.regs[k][0] = 0 BY RunTypes
      <4> QED BY <1>18, <4>1
    <3>2. S.regs[R + 1][0] = 0 BY <1>14, <1>19
    <3> QED BY <2>2, <3>1, <3>2
  <2>5. /\ S.pc[0] = 0 /\ S.acc[0] = 0 /\ S.regs[0] = [r \in Regs |-> 0]
        /\ S.mem[0] = [b \in Bytes |-> 0]
    <3>1. 0 \in 0..R BY <1>3
    <3> QED BY <1>18, <3>1 DEF RunOf
  <2>6. \A k \in 0..R + 1 - 1 : Executes(S, k)'
    <3>1. \A k \in 0..R + 1 - 1 : k \in 0..R - 1 \/ k = R BY <1>3
    <3> QED BY <1>23, <1>26, <3>1
  <2>7. S.acc[R + 1] = Len(expected_accesses')
    BY <1>12, <1>19, <1>22
  <2>8. expected_accesses' \in Seq(Expected) BY <1>12
  <2>9. /\ retired' \in Nat /\ S.pc \in [0..retired' -> Words] /\ S.acc \in [0..retired' -> Nat]
        /\ S.regs \in [0..retired' -> [Regs -> Words]]
        /\ S.mem \in [0..retired' -> [Bytes -> 0..BYTE - 1]]
        /\ \A k \in 0..retired' : S.regs[k][0] = 0
        /\ S.acc[retired'] = Len(expected_accesses')
    BY <2>1, <2>3, <2>4, <2>7
  <2>10. \A k \in 0..retired' - 1 : Executes(S, k)'
    <3> SUFFICES ASSUME NEW k \in 0..retired' - 1 PROVE Executes(S, k)' OBVIOUS
    <3>1. k \in 0..R + 1 - 1 BY <1>3, <2>1
    <3> QED BY <2>6, <3>1
  <2> QED BY <2>5, <2>8, <2>9, <2>10 DEF RunOf
<1>28. GoldenIs(S)'
  <2>1. retired' = R + 1 BY <1>1
  <2> QED BY <1>14, <1>15, <1>16, <1>19, <2>1 DEF GoldenIs
<1>29. QueuesAre(S)'
  <2>1. /\ golden_pc_queue \in Seq(Words) /\ golden_reg_queue \in Seq([Regs -> Words])
        /\ Len(golden_pc_queue) = R /\ Len(golden_reg_queue) = R
        /\ \A j \in 1..R : golden_pc_queue[j] = T.pc[j - 1] /\ golden_reg_queue[j] = T.regs[j]
    <3>1. R - transactions_checked = R /\ \A j \in 1..R : transactions_checked + j - 1 = j - 1
                                                          /\ transactions_checked + j = j
      BY <1>3
    <3> QED BY <3>1 DEF QueuesAre
  <2>2. /\ golden_pc_queue' = Append(golden_pc_queue, pc)
        /\ golden_reg_queue' = Append(golden_reg_queue, r1)
    BY <1>1, <1>14
  <2>3. pc \in Words BY <1>4 DEF GoldenAt
  <2>4. /\ golden_pc_queue' \in Seq(Words) /\ Len(golden_pc_queue') = R + 1
        /\ \A j \in 1..R : golden_pc_queue'[j] = golden_pc_queue[j]
        /\ golden_pc_queue'[R + 1] = pc
    BY <2>1, <2>2, <2>3
  <2>5. /\ golden_reg_queue' \in Seq([Regs -> Words]) /\ Len(golden_reg_queue') = R + 1
        /\ \A j \in 1..R : golden_reg_queue'[j] = golden_reg_queue[j]
        /\ golden_reg_queue'[R + 1] = r1
    BY <1>14, <2>1, <2>2
  <2>6. \A j \in 1..R + 1 : /\ golden_pc_queue'[j] = S.pc[j - 1]
                            /\ golden_reg_queue'[j] = S.regs[j]
    <3> SUFFICES ASSUME NEW j \in 1..R + 1
                 PROVE  golden_pc_queue'[j] = S.pc[j - 1] /\ golden_reg_queue'[j] = S.regs[j]
      OBVIOUS
    <3>1. CASE j \in 1..R
      <4>1. j - 1 \in 0..R /\ j \in 0..R BY <1>3, <3>1
      <4> QED BY <1>18, <2>1, <2>4, <2>5, <3>1, <4>1
    <3>2. CASE j = R + 1
      <4>1. j - 1 = R BY <1>3, <3>2
      <4> QED BY <1>19, <1>25, <2>4, <2>5, <3>2, <4>1
    <3> QED BY <1>3, <3>1, <3>2
  <2>7. /\ transactions_checked' = 0 /\ retired' = R + 1 /\ R + 1 - 0 = R + 1
        /\ \A j \in 1..R + 1 : 0 + j - 1 = j - 1 /\ 0 + j = j
    BY <1>1, <1>3
  <2>8. /\ Len(golden_pc_queue') = retired' - transactions_checked'
        /\ Len(golden_reg_queue') = retired' - transactions_checked'
    BY <2>4, <2>5, <2>7
  <2>9. \A j \in 1..retired' - transactions_checked' :
          /\ golden_pc_queue'[j] = S.pc[transactions_checked' + j - 1]
          /\ golden_reg_queue'[j] = S.regs[transactions_checked' + j]
    <3> SUFFICES ASSUME NEW j \in 1..retired' - transactions_checked'
                 PROVE  /\ golden_pc_queue'[j] = S.pc[transactions_checked' + j - 1]
                        /\ golden_reg_queue'[j] = S.regs[transactions_checked' + j]
      OBVIOUS
    <3>1. j \in 1..R + 1 BY <2>7
    <3>2. transactions_checked' + j - 1 = j - 1 /\ transactions_checked' + j = j BY <2>7, <3>1
    <3> QED BY <2>6, <3>1, <3>2
  <2> QED BY <2>4, <2>5, <2>8, <2>9 DEF QueuesAre
<1> QED BY <1>1, <1>27, <1>28, <1>29

\* ebreak is no access.
LEMMA Stops ==
  ASSUME SourceRead, NEW k \in 1..Len(instrs), GoldenModel!decode_instr(instrs[k], k - 1).stop
  PROVE  encode(program.lines, instrs[k], 4 * (k - 1)).op \notin MemOps
<1> DEFINE op   == instrs[k].op
           args == instrs[k].args
           i    == GoldenModel!operands(op, args, k - 1)
<1>1. i.stop BY DEF GoldenModel!decode_instr
<1>2. op = "ebreak"
  <2> SUFFICES ASSUME op # "ebreak" PROVE FALSE OBVIOUS
  <2> HIDE DEF op, args
  <2>1. CASE op \in R_TYPE
    BY <1>1, <2>1, Lists, Disjoint DEF GoldenModel!operands, GoldenModel!instr_wrong, GoldenModel!parsed
  <2>2. CASE op \in I_TYPE_4
    BY <1>1, <2>2, Lists, Disjoint DEF GoldenModel!operands, GoldenModel!instr_wrong, GoldenModel!parsed
  <2>3. CASE op \in B_TYPE
    BY <1>1, <2>3, Lists, Disjoint DEF GoldenModel!operands, GoldenModel!instr_wrong, GoldenModel!parsed
  <2>4. CASE op \in J_TYPE
    BY <1>1, <2>4, Lists, Disjoint DEF GoldenModel!operands, GoldenModel!instr_wrong, GoldenModel!parsed
  <2>5. CASE op \in I_TYPE_2
    BY <1>1, <2>5, Lists, Disjoint DEF GoldenModel!operands, GoldenModel!instr_wrong, GoldenModel!parsed
  <2>6. CASE op \in S_TYPE
    BY <1>1, <2>6, Lists, Disjoint DEF GoldenModel!operands, GoldenModel!instr_wrong, GoldenModel!parsed
  <2>7. CASE op \in I_TYPE_3
    BY <1>1, <2>7, Lists, Disjoint DEF GoldenModel!operands, GoldenModel!instr_wrong, GoldenModel!parsed
  <2>8. CASE op \in U_TYPE_1 \union U_TYPE_2
    BY <1>1, <2>8, Lists, Disjoint DEF GoldenModel!operands, GoldenModel!instr_wrong, GoldenModel!parsed
  <2>9. CASE op = "nop"
    BY <1>1, <2>9, Lists, Disjoint DEF GoldenModel!operands, GoldenModel!instr_wrong, GoldenModel!parsed
  <2>10. CASE op \notin R_TYPE \union I_TYPE_4 \union B_TYPE \union J_TYPE \union I_TYPE_2 \union S_TYPE
                        \union I_TYPE_3 \union U_TYPE_1 \union U_TYPE_2 \union {"nop"}
    BY <1>1, <2>10, Lists DEF GoldenModel!operands, GoldenModel!instr_wrong, GoldenModel!parsed
  <2> QED BY <2>1, <2>2, <2>3, <2>4, <2>5, <2>6, <2>7, <2>8, <2>9, <2>10
<1>3. encode(program.lines, instrs[k], 4 * (k - 1)).op = "ebreak"
  <2>1. op \notin R_TYPE \union I_TYPE_4 \union B_TYPE \union J_TYPE \union I_TYPE_2 \union S_TYPE
          \union I_TYPE_3 \union U_TYPE_1 \union U_TYPE_2 \union {"nop", "li"}
    BY <1>2, Disjoint
  <2>2. op \notin {"slli", "srli", "srai"} BY <1>2
  <2> QED BY <1>2, <2>1, <2>2 DEF encode
<1>4. "ebreak" \notin MemOps BY Disjoint DEF MemOps
<1> QED BY <1>3, <1>4

\* The golden model ends past its last line or at ebreak.
LEMMA EndsIs ==
  ASSUME SourceRead, SourceParsed, NEW T, RunOf(T), GoldenIs(T), GoldenModel!golden_ended
  PROVE  Ended(T)
<1> SUFFICES ASSUME pc \div 4 < Len(code) PROVE WordAt(pc).op \notin MemOps
  BY DEF Ended, GoldenIs, W
<1> DEFINE k == pc \div 4 + 1
<1>1. pc \in Nat
  <2>1. retired \in 0..retired BY DEF RunOf
  <2>2. T.pc[retired] \in Words BY <2>1, RunTypes
  <2> QED BY <2>2, WordSame DEF GoldenIs
<1>2. k \in 1..Len(instrs) /\ k \in DOMAIN instrs /\ Len(code) = Len(instrs) BY <1>1, CodeIs
<1>3. k \in DOMAIN parsed_instrs /\ parsed_instrs[k] = GoldenModel!decode_instr(instrs[k], k - 1)
  <2> HIDE DEF k
  <2> QED BY <1>2 DEF SourceParsed
<1>4. parsed_instrs[k].stop BY <1>3 DEF GoldenModel!golden_ended
<1>5. code[k] = encode(program.lines, instrs[k], 4 * (k - 1))
  <2> HIDE DEF k
  <2> QED BY <1>2, CodeIs
<1>6. encode(program.lines, instrs[k], 4 * (k - 1)).op \notin MemOps
  <2> HIDE DEF k
  <2> QED BY <1>2, <1>3, <1>4, Stops
<1> QED BY <1>5, <1>6 DEF WordAt

-----------------------------------------------------------------------------
(* The steps of the test.                                                   *)

\* The test starts in the invariant.
LEMMA InitInv == Init => Inv
<1> SUFFICES ASSUME Init PROVE Inv OBVIOUS
<1>1. program \in Programs /\ error = 0 BY DEF Init
<1>2. GoldenFresh BY DEF Init, GoldenModel!GoldenInit, GoldenFresh
<1>3. CoreFresh BY DEF Init, LSU!LsuInit, CoreFresh
<1>4. CASE program.mode = "scoreboard"
  <2>1. phase = "load_asm" BY <1>4 DEF Init
  <2> QED BY <1>1, <1>2, <1>3, <1>4, <2>1 DEF Inv, ScoredInv
<1>5. CASE program.mode # "scoreboard"
  <2>1. phase = "load" BY <1>5 DEF Init
  <2> QED BY <1>1, <1>2, <1>5, <2>1 DEF Inv, UnscoredInv, GoldenFresh
<1> QED BY <1>4, <1>5

\* load_asm reads the source the assembler is given.
LEMMA LoadAsmInv == ASSUME Inv, LoadAsm PROVE Inv'
<1>1. /\ program' = program /\ error' = error /\ phase = "load_asm" /\ phase' = "parse_asm"
      /\ expected_accesses' = expected_accesses /\ transactions_checked' = transactions_checked
  BY DEF LoadAsm
<1>2. GoldenModel!load_asm(program.lines) BY DEF LoadAsm
<1>3. program.mode = "scoreboard" /\ GoldenFresh /\ CoreFresh
  BY <1>1 DEF Inv, ScoredInv, UnscoredInv
<1>4. GoldenFresh'
  BY <1>1, <1>2, <1>3 DEF GoldenModel!load_asm, GoldenModel!machineVars, GoldenFresh
<1>5. CoreFresh'
  BY <1>1, <1>3 DEF LoadAsm, coreVars, pipelineVars, lsuVars, CoreFresh
<1>6. SourceRead'
  <2>1. \A S : GoldenModel!Max(S) = Max(S) BY DEF GoldenModel!Max, Max
  <2>2. program \in Programs BY DEF Inv
  <2>3. instrs' = GoldenModel!instructions(program.lines) BY <1>2 DEF GoldenModel!load_asm
  <2>4. label_dic' = [lab \in UNION {program.lines[i].labels : i \in DOMAIN program.lines} |->
            4 * GoldenModel!before(program.lines,
                                   GoldenModel!Max(GoldenModel!labelled(program.lines, lab)))]
    BY <1>2 DEF GoldenModel!load_asm
  <2>5. label_dic' = [lab \in UNION {program.lines[i].labels : i \in DOMAIN program.lines} |->
            4 * GoldenModel!before(program.lines,
                                   Max(GoldenModel!labelled(program.lines, lab)))]
    BY <2>1, <2>4
  <2>6. program' = program /\ program \in Programs /\ program.mode = "scoreboard"
    BY <1>1, <1>3, <2>2
  <2> QED BY <2>3, <2>5, <2>6 DEF SourceRead
<1> QED BY <1>1, <1>3, <1>4, <1>5, <1>6 DEF Inv, ScoredInv

\* The run that has no step yet.
LEMMA FirstRun ==
  ASSUME GoldenFresh, CoreFresh
  PROVE  \E T : RunOf(T) /\ GoldenIs(T) /\ QueuesAre(T)
<1> DEFINE r0 == [r \in Regs |-> 0]
           m0 == [b \in Bytes |-> 0]
<1> PICK T : T = [pc  |-> [k \in 0..0 |-> 0],  regs |-> [k \in 0..0 |-> r0],
                  mem |-> [k \in 0..0 |-> m0], acc  |-> [k \in 0..0 |-> 0]]
  OBVIOUS
<1>1. 0 \in Words /\ 0 \in 0..BYTE - 1 /\ 0 \in Regs BY WordTypes, PipelineAssumption DEF Words
<1>2. r0 \in [Regs -> Words] /\ r0[0] = 0 /\ m0 \in [Bytes -> 0..BYTE - 1] BY <1>1
<1>3. T.pc[0] = 0 /\ T.regs[0] = r0 /\ T.mem[0] = m0 /\ T.acc[0] = 0
  <2> HIDE DEF r0, m0
  <2> QED OBVIOUS
<1>4. /\ T.pc \in [0..0 -> Words] /\ T.regs \in [0..0 -> [Regs -> Words]]
      /\ T.mem \in [0..0 -> [Bytes -> 0..BYTE - 1]] /\ T.acc \in [0..0 -> Nat]
  <2> HIDE DEF r0, m0
  <2> QED BY <1>1, <1>2
<1>5. /\ retired = 0 /\ expected_accesses = <<>> /\ transactions_checked = 0 /\ data_mem = <<>>
      /\ golden_pc_queue = <<>> /\ golden_reg_queue = <<>> /\ pc = 0 /\ register_file = r0
  BY DEF GoldenFresh, CoreFresh
<1>6. RunOf(T)
  <2>1. 0..retired - 1 = {} BY <1>5
  <2>2. \A k \in 0..retired : T.regs[k][0] = 0 BY <1>2, <1>3, <1>5
  <2>3. expected_accesses \in Seq(Expected) /\ Len(expected_accesses) = 0 BY <1>5
  <2> QED BY <1>3, <1>4, <1>5, <2>1, <2>2, <2>3 DEF RunOf
<1>7. GoldenIs(T)
  <2>1. DOMAIN data_mem = {} BY <1>5
  <2>2. \A b \in Bytes : T.mem[retired][b] = 0 BY <1>3, <1>5
  <2> QED BY <1>3, <1>5, <2>1, <2>2 DEF GoldenIs
<1>8. QueuesAre(T)
  <2>1. 1..retired - transactions_checked = {} /\ retired - transactions_checked = 0 BY <1>5
  <2>2. /\ golden_pc_queue \in Seq(Words) /\ golden_reg_queue \in Seq([Regs -> Words])
        /\ Len(golden_pc_queue) = 0 /\ Len(golden_reg_queue) = 0
    BY <1>5
  <2> QED BY <2>1, <2>2 DEF QueuesAre
<1> QED BY <1>6, <1>7, <1>8

\* A step that leaves the golden model and the scoreboard's queues alone.
LEMMA RunKept ==
  ASSUME NEW T, RunOf(T), GoldenIs(T), QueuesAre(T), UNCHANGED goldenVars,
         program' = program, expected_accesses' = expected_accesses,
         transactions_checked' = transactions_checked
  PROVE  /\ RunOf(T)' /\ GoldenIs(T)' /\ QueuesAre(T)' /\ SameRun
         /\ Ended(T) => Ended(T)'
<1>1. SameRun BY DEF SameRun, goldenVars, machineVars
<1>2. RunOf(T)' BY <1>1, RunStable
<1>3. GoldenIs(T)' BY DEF goldenVars, machineVars, GoldenIs
<1>4. QueuesAre(T)' BY DEF goldenVars, machineVars, QueuesAre
<1>5. Ended(T) => Ended(T)'
  <2>1. code' = code /\ W(T, retired)' = W(T, retired')
    BY <1>1, RunFrame DEF SameRun, W, WordAt
  <2>2. \A k : W(T, k)' = W(T, k) BY <1>1, RunFrame
  <2>3. retired' = retired BY <1>1 DEF SameRun
  <2>4. code' = code BY <1>1, RunFrame
  <2>5. W(T, retired)' = W(T, retired) BY <2>3, <2>4 DEF W, WordAt
  <2> QED BY <2>3, <2>4, <2>5 DEF Ended
<1> QED BY <1>1, <1>2, <1>3, <1>4, <1>5

\* parse_asm decodes every line of it.
LEMMA ParseAsmInv == ASSUME Inv, ParseAsm PROVE Inv'
<1>1. /\ program' = program /\ error' = error /\ phase = "parse_asm"
      /\ phase' = IF raised' = None THEN "exec" ELSE "failed"
      /\ expected_accesses' = expected_accesses /\ transactions_checked' = transactions_checked
      /\ GoldenModel!parse_asm
  BY DEF ParseAsm
<1>2. program \in Programs /\ program.mode = "scoreboard" /\ GoldenFresh /\ CoreFresh /\ SourceRead
  BY <1>1 DEF Inv, ScoredInv, UnscoredInv
<1>3. instrs' = instrs /\ label_dic' = label_dic /\ GoldenFresh'
  BY <1>1, <1>2 DEF GoldenModel!parse_asm, GoldenModel!machineVars, GoldenFresh
<1>4. CoreFresh' BY <1>1, <1>2 DEF ParseAsm, coreVars, pipelineVars, lsuVars, CoreFresh
<1>5. CASE phase' = "exec"
  <2>1. raised' # "NameError" BY <1>1, <1>5, ExceptionAssumption
  <2>2. parsed_instrs' = [i \in DOMAIN instrs |-> GoldenModel!decode_instr(instrs[i], i - 1)]
    BY <1>1, <2>1 DEF GoldenModel!parse_asm
  <2>3. SourceRead' BY <1>1, <1>2, <1>3 DEF SourceRead
  <2>4. \A i \in DOMAIN instrs :
          GoldenModel!decode_instr(instrs[i], i - 1)' = GoldenModel!decode_instr(instrs[i], i - 1)
    BY <1>3 DEF GoldenModel!decode_instr, GoldenModel!operands, GoldenModel!parsed, GoldenModel!instr_wrong
  <2>5. SourceParsed'
    <3>1. SourceParsed' <=> parsed_instrs' = [i \in DOMAIN instrs' |->
                                GoldenModel!decode_instr(instrs[i], i - 1)']
      BY DEF SourceParsed
    <3> QED BY <1>3, <2>2, <2>4, <3>1
  <2>6. \E T : RunOf(T)' /\ GoldenIs(T)' /\ QueuesAre(T)'
    <3>1. PICK T : RunOf(T) /\ GoldenIs(T) /\ QueuesAre(T) BY <1>2, FirstRun
    <3>2. /\ retired' = retired /\ pc' = pc /\ register_file' = register_file /\ data_mem' = data_mem
          /\ golden_pc_queue' = golden_pc_queue /\ golden_reg_queue' = golden_reg_queue
      BY <1>1 DEF GoldenModel!parse_asm, GoldenModel!machineVars
    <3>3. SameRun BY <1>1, <3>2 DEF SameRun
    <3>4. RunOf(T)' BY <3>1, <3>3, RunStable
    <3>5. GoldenIs(T)' BY <3>1, <3>2 DEF GoldenIs
    <3>6. QueuesAre(T)' BY <1>1, <3>1, <3>2 DEF QueuesAre
    <3> QED BY <3>4, <3>5, <3>6
  <2>7. \E T : Executed(T)' BY <1>5, <2>6 DEF Executed
  <2>8. ScoredInv' BY <1>4, <1>5, <2>3, <2>5, <2>7 DEF ScoredInv
  <2> QED BY <1>1, <1>2, <2>8 DEF Inv
<1>6. CASE phase' = "failed"
  <2>1. accesses' = <<>> /\ expected_accesses' \in Seq(Expected)
    BY <1>3, <1>4 DEF CoreFresh, GoldenFresh
  <2>2. ScoredInv' BY <1>6, <2>1 DEF ScoredInv
  <2> QED BY <1>1, <1>2, <2>2 DEF Inv
<1> QED BY <1>1, <1>5, <1>6

\* exec_instr extends the run.
LEMMA ExecInstrInv == ASSUME Inv, ExecInstr, Aligned' PROVE Inv'
<1>1. /\ program' = program /\ error' = error /\ phase = "exec" /\ phase' = phase
      /\ transactions_checked' = transactions_checked
      /\ instrs' = instrs /\ label_dic' = label_dic /\ parsed_instrs' = parsed_instrs
  BY DEF ExecInstr, GoldenModel!exec_instr, GoldenModel!sourceVars
<1>2. program \in Programs /\ program.mode = "scoreboard" /\ CoreFresh /\ SourceRead /\ SourceParsed
  BY <1>1 DEF Inv, ScoredInv, UnscoredInv
<1>3. PICK T : RunOf(T) /\ GoldenIs(T) /\ QueuesAre(T)
  BY <1>1, <1>2 DEF Inv, ScoredInv, Executed
<1>4. transactions_checked = 0 BY <1>2 DEF CoreFresh
<1>5. \E S : RunOf(S)' /\ GoldenIs(S)' /\ QueuesAre(S)' BY <1>2, <1>3, <1>4, ExecStep
<1>6. CoreFresh' BY <1>1, <1>2 DEF ExecInstr, coreVars, pipelineVars, lsuVars, CoreFresh
<1>7. SourceRead' BY <1>1, <1>2 DEF SourceRead
<1>8. SourceParsed'
  <2>1. \A i \in DOMAIN instrs :
          GoldenModel!decode_instr(instrs[i], i - 1)' = GoldenModel!decode_instr(instrs[i], i - 1)
    BY <1>1 DEF GoldenModel!decode_instr, GoldenModel!operands, GoldenModel!parsed, GoldenModel!instr_wrong
  <2>2. SourceParsed' <=> parsed_instrs' = [i \in DOMAIN instrs' |->
                              GoldenModel!decode_instr(instrs[i], i - 1)']
    BY DEF SourceParsed
  <2>3. parsed_instrs = [i \in DOMAIN instrs |-> GoldenModel!decode_instr(instrs[i], i - 1)]
    BY <1>2 DEF SourceParsed
  <2> QED BY <1>1, <2>1, <2>2, <2>3
<1>9. \E S : Executed(S)' BY <1>1, <1>5 DEF Executed
<1>10. ScoredInv' BY <1>1, <1>6, <1>7, <1>8, <1>9 DEF ScoredInv
<1> QED BY <1>1, <1>2, <1>10 DEF Inv

\* A test that fails before its core has run.
LEMMA FailsInv ==
  ASSUME Inv, program' = program, error' = error, phase' = "failed", UNCHANGED coreVars,
         phase \in {"exec", "load"}, transactions_checked' = transactions_checked,
         golden_pc_queue' = golden_pc_queue, data_mem' = data_mem,
         expected_accesses' = expected_accesses
  PROVE  Inv'
<1>1. CASE program.mode = "scoreboard"
  <2>1. CoreFresh BY <1>1 DEF Inv, ScoredInv
  <2>2. accesses' = <<>> BY <2>1 DEF CoreFresh, coreVars
  <2>3. PICK T : RunOf(T) BY <1>1 DEF Inv, ScoredInv, Executed
  <2>4. expected_accesses' \in Seq(Expected) BY <2>3 DEF RunOf
  <2>5. ScoredInv' BY <2>2, <2>4 DEF ScoredInv
  <2> QED BY <1>1, <2>5 DEF Inv
<1>2. CASE program.mode # "scoreboard"
  <2>1. UnscoredInv' BY <1>2 DEF Inv, UnscoredInv
  <2> QED BY <1>2, <2>1 DEF Inv
<1> QED BY <1>1, <1>2

\* A line that cannot be decoded ends the test before the core runs.
LEMMA ExecUndecodableInv == ASSUME Inv, ExecUndecodable PROVE Inv'
<1>1. /\ program' = program /\ error' = error /\ phase = "exec" /\ phase' = "failed"
      /\ UNCHANGED coreVars /\ transactions_checked' = transactions_checked
      /\ golden_pc_queue' = golden_pc_queue /\ data_mem' = data_mem
      /\ expected_accesses' = expected_accesses
  BY DEF ExecUndecodable, GoldenModel!exec_undecodable, GoldenModel!machineVars
<1> QED BY <1>1, FailsInv

\* So does a program that does not fit.
LEMMA TooLargeInv == ASSUME Inv, TooLarge PROVE Inv'
<1>1. /\ program' = program /\ error' = error /\ phase = "load" /\ phase' = "failed"
      /\ UNCHANGED coreVars /\ transactions_checked' = transactions_checked
      /\ golden_pc_queue' = golden_pc_queue /\ data_mem' = data_mem
      /\ expected_accesses' = expected_accesses
  BY DEF TooLarge, goldenVars, machineVars
<1> QED BY <1>1, FailsInv

\* The golden model ends where the run ends.
LEMMA GoldenEndsInv == ASSUME Inv, GoldenEnds PROVE Inv'
<1>1. /\ program' = program /\ error' = error /\ phase = "exec"
      /\ phase' = IF retired > 0 THEN "load" ELSE "failed"
      /\ UNCHANGED coreVars /\ UNCHANGED goldenVars
      /\ transactions_checked' = transactions_checked /\ expected_accesses' = expected_accesses
      /\ GoldenModel!golden_ended
  BY DEF GoldenEnds
<1>2. CASE ~(retired > 0)
  <2>1. golden_pc_queue' = golden_pc_queue /\ data_mem' = data_mem
    BY <1>1 DEF goldenVars, machineVars
  <2> QED BY <1>1, <1>2, <2>1, FailsInv
<1>3. CASE retired > 0
  <2>1. program \in Programs /\ program.mode = "scoreboard" /\ CoreFresh /\ SourceRead /\ SourceParsed
    BY <1>1 DEF Inv, ScoredInv, UnscoredInv
  <2>2. PICK T : RunOf(T) /\ GoldenIs(T) /\ QueuesAre(T)
    BY <1>1, <2>1 DEF Inv, ScoredInv, Executed
  <2>3. Ended(T) BY <1>1, <2>1, <2>2, EndsIs
  <2>4. RunOf(T)' /\ GoldenIs(T)' /\ QueuesAre(T)' /\ Ended(T)' /\ retired' = retired
    BY <1>1, <2>2, <2>3, RunKept DEF SameRun
  <2>5. phase' = "load" BY <1>1, <1>3
  <2>6. Executed(T)' BY <1>3, <2>4, <2>5 DEF Executed
  <2>7. CoreFresh' BY <1>1, <2>1 DEF coreVars, pipelineVars, lsuVars, CoreFresh
  <2>8. ScoredInv' BY <2>5, <2>6, <2>7 DEF ScoredInv
  <2> QED BY <1>1, <2>1, <2>8 DEF Inv
<1> QED BY <1>2, <1>3

\* The bytes of 0 are 0.
LEMMA ZeroBytes == \A j \in 0..3 : byteOf(0, j) = 0
<1>1. BYTE \in Nat \ {0} BY WordTypes
<1>2. BYTE ^ 0 \in Nat \ {0} /\ BYTE ^ 1 \in Nat \ {0} BY <1>1, BytePowers
<1>3. BYTE * BYTE \in Nat \ {0} /\ BYTE * BYTE * BYTE \in Nat \ {0}
  <2>1. \A y, z \in Nat \ {0} : y * z \in Nat \ {0} OBVIOUS
  <2> QED BY <1>1, <2>1
<1>4. BYTE ^ 2 \in Nat \ {0} /\ BYTE ^ 3 \in Nat \ {0} BY <1>3, BytePowers
<1>5. \A d, b \in Nat \ {0} : (0 \div d) % b = 0 OBVIOUS
<1>6. \A j \in 0..3 : j = 0 \/ j = 1 \/ j = 2 \/ j = 3 OBVIOUS
<1>7. \A j \in 0..3 : BYTE ^ j \in Nat \ {0} BY <1>2, <1>4, <1>6
<1> QED BY <1>1, <1>5, <1>7 DEF byteOf

\* Loading writes the program the run is of, and zeros, over what an earlier test left.
LEMMA LoadInv == ASSUME Inv, Load PROVE Inv'
<1>1. /\ program' = program /\ error' = error /\ phase = "load" /\ phase' = "reset" /\ fits
      /\ UNCHANGED goldenVars /\ UNCHANGED pipelineVars /\ accesses' = accesses
      /\ transactions_checked' = transactions_checked /\ expected_accesses' = expected_accesses
  BY DEF Load
<1>2. CASE program.mode = "scoreboard"
  <2>1. program \in Programs /\ CoreFresh BY <1>1, <1>2 DEF Inv, ScoredInv
  <2>2. PICK T : Executed(T) BY <1>1, <1>2 DEF Inv, ScoredInv
  <2>3. RunOf(T) /\ GoldenIs(T) /\ QueuesAre(T) /\ Ended(T) /\ retired > 0
    BY <1>1, <2>2 DEF Executed
  <2>4. RunOf(T)' /\ GoldenIs(T)' /\ QueuesAre(T)' /\ Ended(T)' /\ retired' = retired
    BY <1>1, <2>3, RunKept DEF SameRun
  <2>5. Executed(T)' BY <1>1, <2>3, <2>4 DEF Executed
  <2>6. CoreFresh' BY <1>1, <2>1 DEF pipelineVars, lsuVars, CoreFresh
  <2>7. program.data = <<>> BY <1>2, <2>1, SourceAssumption
  <2>8. imem' = padded(code, IMEM_DEPTH, ZeroWord)
        /\ dmem' = [b \in Bytes |-> byteOf(padded(program.data, D_MEM_DEPTH, 0)[b \div 4], b % 4)]
    BY <1>2 DEF Load, load_memories, code
  <2>9. dmem' = [b \in Bytes |-> 0]
    <3>1. Len(program.data) = 0 BY <2>7
    <3>2. padded(program.data, D_MEM_DEPTH, 0) = [i \in 0..D_MEM_DEPTH - 1 |-> 0]
      BY <3>1 DEF padded
    <3>3. \A b \in Bytes : b \div 4 \in 0..D_MEM_DEPTH - 1 /\ b % 4 \in 0..3
      BY PortsAssumption DEF Bytes
    <3>4. \A b \in Bytes : padded(program.data, D_MEM_DEPTH, 0)[b \div 4] = 0
      BY <3>2, <3>3
    <3>5. \A b \in Bytes : byteOf(padded(program.data, D_MEM_DEPTH, 0)[b \div 4], b % 4) = 0
      BY <3>3, <3>4, ZeroBytes
    <3> QED BY <2>8, <3>5
  <2>10. code' = code BY <1>1 DEF code
  <2>11. Len(code) \in 0..IMEM_DEPTH
    <3>1. Len(code) \in Nat
      <4>1. code = [i \in DOMAIN GoldenModel!instructions(program.lines) |->
                 encode(program.lines, GoldenModel!instructions(program.lines)[i], 4 * (i - 1))]
        BY DEF code, assemble, GoldenModel!instructions
      <4> DEFINE N == Len(GoldenModel!instructions(program.lines))
                 e(i) == encode(program.lines, GoldenModel!instructions(program.lines)[i], 4 * (i - 1))
      <4>2. N \in Nat /\ DOMAIN GoldenModel!instructions(program.lines) = 1..N
        BY <1>2, <2>1, SourceAssumption
      <4>3. code = [i \in 1..N |-> e(i)] BY <4>1, <4>2
      <4>4. code \in Seq({e(i) : i \in 1..N})
        <5> HIDE DEF e, N
        <5> QED BY <4>2, <4>3
      <4> QED BY <4>4
    <3> QED BY <1>1, <3>1, PipelineAssumption DEF fits, code
  <2>12. Loaded' BY <2>8, <2>9, <2>10, <2>11 DEF Loaded
  <2>13. ScoredInv' BY <1>1, <2>5, <2>6, <2>12 DEF ScoredInv
  <2> QED BY <1>1, <1>2, <2>1, <2>13 DEF Inv
<1>3. CASE program.mode # "scoreboard"
  <2>1. UnscoredInv' BY <1>1, <1>3 DEF Inv, UnscoredInv, goldenVars, machineVars
  <2> QED BY <1>1, <1>3, <2>1 DEF Inv
<1> QED BY <1>2, <1>3

\* Reset puts the pipeline at the start of the run.
LEMMA ResetPipeline ==
  ASSUME NEW T, RunOf(T), Reset, CoreFresh, Loaded, retired > 0
  PROVE  PipelineOK(T)'
<1>1. /\ PipelineReset(imem) /\ PortsReset /\ UNCHANGED lsuVars /\ UNCHANGED goldenVars
      /\ dmem' = dmem /\ program' = program /\ imem' = imem
      /\ transactions_checked' = transactions_checked /\ expected_accesses' = expected_accesses
  BY DEF Reset
<1>2. SameRun /\ retired' = retired BY <1>1 DEF goldenVars, machineVars, SameRun
<1>3. code' = code BY <1>2, RunFrame
<1>4. Len(code') \in 0..IMEM_DEPTH /\ imem' = padded(code', IMEM_DEPTH, ZeroWord)
  BY <1>1, <1>3 DEF Loaded
<1>5. retired \in Nat /\ 0 < retired' /\ 0 \in 0..retired' BY <1>2 DEF RunOf
<1>6. n' = 0 BY <1>1 DEF CoreFresh, n
<1>7. /\ wb' = WbBubble /\ em' = EmBubble /\ ex' = ExBubble /\ id' = IdBubble
      /\ if_pc' = 0 /\ imem_data' = imem[0] /\ output_valid' = TRUE
      /\ file' = [r \in Regs |-> 0] /\ wrap_idx' = 0
      /\ buff' = [i \in 0..BTB_DEPTH - 1 |-> [tag |-> 0, target |-> 0, valid |-> FALSE]]
  BY <1>1 DEF PipelineReset
<1>8. wb'.valid = FALSE /\ em'.valid = FALSE /\ ex'.valid = FALSE /\ id'.valid = FALSE
  BY <1>7 DEF WbBubble, EmBubble, ExBubble, IdBubble
<1>9. iW' = 0 /\ iM' = 0 /\ iX' = 0 /\ iD' = 0
  <2>1. one(wb)' = 0 /\ one(em)' = 0 /\ one(ex)' = 0 /\ one(id)' = 0 BY <1>8 DEF one
  <2> QED BY <1>6, <2>1 DEF iW, iM, iX, iD
<1>10. /\ T.pc[0] = 0 /\ T.acc[0] = 0 /\ T.regs[0] = [r \in Regs |-> 0]
       /\ T.mem[0] = [b \in Bytes |-> 0]
  BY DEF RunOf
<1>11. file' = T.regs[n'] BY <1>6, <1>7, <1>10
<1>12. WbOK(T)' BY <1>8 DEF WbOK
<1>13. EmOK(T)' BY <1>8 DEF EmOK
<1>14. ExOK(T)' BY <1>8 DEF ExOK
<1>15. IdOK(T)' BY <1>8 DEF IdOK
<1>16. BeyondOK(T)' BY <1>8 DEF BeyondOK
<1>17. FetchOK(T)'
  <2>1. IMEM_DEPTH \in Nat \ {0} /\ 0 \div 4 = 0 BY PipelineAssumption
  <2>2. 0 % IMEM_DEPTH = 0 /\ 0 < IMEM_DEPTH BY <2>1
  <2>3. imem_data' = imem'[(if_pc' \div 4) % IMEM_DEPTH] BY <1>1, <1>7, <2>1, <2>2
  <2>4. output_valid' = (if_pc' \div 4 < IMEM_DEPTH) BY <1>7, <2>1, <2>2
  <2>5. if_pc' = T.pc[iD'] BY <1>7, <1>9, <1>10
  <2> QED BY <2>3, <2>4, <2>5 DEF FetchOK
<1>18. BtbOK'
  <2>1. \A i \in 0..BTB_DEPTH - 1 : ~buff'[i].valid BY <1>7
  <2>2. DOMAIN buff' = 0..BTB_DEPTH - 1 BY <1>7
  <2>3. wrap_idx' \in 0..BTB_DEPTH - 1 BY <1>7, PipelineAssumption
  <2> QED BY <2>1, <2>2, <2>3 DEF BtbOK
<1>19. accesses' = <<>> BY <1>1 DEF PortsReset
<1>20. PortOK(T)'
  <2>1. em_access' = None BY <1>8 DEF em_access, mem_read, mem_write
  <2>2. Quiet' /\ IoQuiet'
    BY <1>1 DEF PortsReset, CoreFresh, lsuVars, Quiet, IoQuiet
  <2>3. ~Answered' BY <2>2 DEF Quiet, Answered
  <2>4. reached' = 0 BY <1>5, <1>9 DEF reached
  <2>5. dmem' = T.mem[reached'] BY <1>1, <1>10, <2>4 DEF Loaded
  <2>6. Len(accesses') = T.acc[reached'] BY <1>10, <1>19, <2>4
  <2> QED BY <2>1, <2>2, <2>3, <2>5, <2>6 DEF PortOK
<1>21. Seen' BY <1>19 DEF Seen
<1>22. ~(n' = retired') BY <1>5, <1>6
<1> QED BY <1>4, <1>5, <1>6, <1>11, <1>12, <1>13, <1>14, <1>15, <1>16, <1>17, <1>18, <1>20,
           <1>21, <1>22 DEF PipelineOK

\* The core comes out of reset at the start of the run.
LEMMA ResetInv == ASSUME Inv, Reset PROVE Inv'
<1>1. /\ program' = program /\ error' = error /\ phase = "reset" /\ phase' = "running"
      /\ UNCHANGED goldenVars
      /\ transactions_checked' = transactions_checked /\ expected_accesses' = expected_accesses
  BY DEF Reset
<1>2. CASE program.mode = "scoreboard"
  <2>1. program \in Programs /\ CoreFresh /\ Loaded BY <1>1, <1>2 DEF Inv, ScoredInv
  <2>2. PICK T : Executed(T) BY <1>1, <1>2 DEF Inv, ScoredInv
  <2>3. RunOf(T) /\ GoldenIs(T) /\ QueuesAre(T) /\ Ended(T) /\ retired > 0
    BY <1>1, <2>2 DEF Executed
  <2>4. RunOf(T)' /\ GoldenIs(T)' /\ QueuesAre(T)' /\ Ended(T)' /\ retired' = retired
    BY <1>1, <2>3, RunKept DEF SameRun
  <2>5. PipelineOK(T)' BY <2>1, <2>3, ResetPipeline
  <2>6. Executed(T)' BY <1>1, <2>3, <2>4, <2>5 DEF Executed
  <2>7. ScoredInv' BY <1>1, <2>6 DEF ScoredInv
  <2> QED BY <1>1, <1>2, <2>1, <2>7 DEF Inv
<1>3. CASE program.mode # "scoreboard"
  <2>1. UnscoredInv' BY <1>1, <1>3 DEF Inv, UnscoredInv, goldenVars, machineVars
  <2> QED BY <1>1, <1>3, <2>1 DEF Inv
<1> QED BY <1>2, <1>3

\* A period of the clock keeps the core on the run and the comparisons succeeding.
LEMMA ClockInv == ASSUME Inv, Clock PROVE Inv'
<1>1. /\ program' = program /\ retired' = retired /\ expected_accesses' = expected_accesses
      /\ phase' = phase /\ phase = "running" /\ Compare /\ ~finished
      /\ pc' = pc /\ register_file' = register_file /\ data_mem' = data_mem
  BY ClockFrame DEF Clock
<1>2. CASE program.mode = "scoreboard"
  <2>1. PICK T : Executed(T) BY <1>1, <1>2 DEF Inv, ScoredInv
  <2>2. RunOf(T) /\ GoldenIs(T) /\ QueuesAre(T) /\ Ended(T) /\ retired > 0 /\ PipelineOK(T)
    BY <1>1, <2>1 DEF Executed
  <2>3. n < retired
    <3>1. ~(n >= retired) BY <1>1, <1>2 DEF finished, n
    <3>2. retired \in Nat /\ n \in 0..retired BY <2>2 DEF RunOf, PipelineOK
    <3> QED BY <3>1, <3>2
  <2>4. error' = error /\ PipelineOK(T)' /\ QueuesAre(T)' BY <2>2, <2>3, ClockStep
  <2>5. SameRun BY <1>1 DEF SameRun
  <2>6. RunOf(T)' BY <2>2, <2>5, RunStable
  <2>7. GoldenIs(T)' BY <1>1, <2>2 DEF GoldenIs
  <2>8. Ended(T)'
    <3>1. code' = code BY <2>5, RunFrame
    <3>2. W(T, retired)' = W(T, retired) BY <1>1, <3>1 DEF W, WordAt
    <3> QED BY <1>1, <2>2, <3>1, <3>2 DEF Ended
  <2>9. phase' # "done" BY <1>1
  <2>10. Executed(T)' BY <1>1, <2>2, <2>4, <2>6, <2>7, <2>8, <2>9 DEF Executed
  <2>11. ScoredInv' BY <1>1, <2>10 DEF ScoredInv
  <2> QED BY <1>1, <1>2, <2>4, <2>11 DEF Inv
<1>3. CASE program.mode # "scoreboard"
  <2>1. golden_pc_queue = <<>> /\ data_mem = <<>> BY <1>3 DEF Inv, UnscoredInv
  <2>2. error' = error /\ golden_pc_queue' = golden_pc_queue BY <1>1, <2>1 DEF Compare
  <2>3. UnscoredInv' BY <1>1, <2>1, <2>2 DEF UnscoredInv
  <2> QED BY <1>1, <1>3, <2>2, <2>3 DEF Inv
<1> QED BY <1>2, <1>3

\* When every instruction has been compared the memory is the run's last.
LEMMA FinishInv == ASSUME Inv, Finish PROVE Inv'
<1>1. /\ program' = program /\ error' = error /\ phase = "running" /\ phase' = "done"
      /\ UNCHANGED goldenVars /\ UNCHANGED coreVars /\ finished
      /\ transactions_checked' = transactions_checked /\ expected_accesses' = expected_accesses
  BY DEF Finish
<1>2. CASE program.mode = "scoreboard"
  <2>1. program \in Programs BY DEF Inv
  <2>2. PICK T : Executed(T) BY <1>1, <1>2 DEF Inv, ScoredInv
  <2>3. RunOf(T) /\ GoldenIs(T) /\ QueuesAre(T) /\ Ended(T) /\ retired > 0 /\ PipelineOK(T)
    BY <1>1, <2>2 DEF Executed
  <2>4. RunOf(T)' /\ GoldenIs(T)' /\ QueuesAre(T)' /\ Ended(T)' /\ retired' = retired
    BY <1>1, <2>3, RunKept DEF SameRun
  <2>5. n = retired
    <3>1. n >= retired BY <1>1, <1>2 DEF finished, n
    <3>2. retired \in Nat /\ n \in 0..retired BY <2>3 DEF RunOf, PipelineOK
    <3> QED BY <3>1, <3>2
  <2>6. dmem = T.mem[retired] /\ Len(accesses) = T.acc[retired] /\ Seen
    BY <2>3, <2>5 DEF PipelineOK
  <2>7. dmem' = dmem /\ accesses' = accesses BY <1>1 DEF coreVars, memoryVars
  <2>8. Seen' BY <1>1, <2>6, <2>7 DEF Seen, seen
  <2>9. Executed(T)' BY <1>1, <2>3, <2>4, <2>6, <2>7, <2>8 DEF Executed
  <2>10. transactions_checked' = retired' BY <1>1, <2>4, <2>5 DEF n
  <2>11. ScoredInv' BY <1>1, <2>9, <2>10 DEF ScoredInv
  <2> QED BY <1>1, <1>2, <2>1, <2>11 DEF Inv
<1>3. CASE program.mode # "scoreboard"
  <2>1. UnscoredInv' BY <1>1, <1>3 DEF Inv, UnscoredInv, goldenVars, machineVars
  <2> QED BY <1>1, <1>3, <2>1 DEF Inv
<1> QED BY <1>2, <1>3

\* A step that changes nothing leaves the pipeline where it is in the run.
LEMMA PipelineKept ==
  ASSUME NEW T, PipelineOK(T), UNCHANGED vars
  PROVE  PipelineOK(T)'
<1>1. /\ wb' = wb /\ em' = em /\ ex' = ex /\ id' = id /\ file' = file
      /\ if_pc' = if_pc /\ imem_data' = imem_data /\ output_valid' = output_valid
      /\ buff' = buff /\ wrap_idx' = wrap_idx
  BY DEF vars, coreVars, pipelineVars, stageVars
<1>2. /\ lsu_state' = lsu_state /\ cpu_data_in' = cpu_data_in /\ io_req' = io_req
      /\ io_access_r' = io_access_r /\ port' = port /\ cpu_ready_out' = cpu_ready_out
      /\ cpu_data_out' = cpu_data_out /\ io_port' = io_port /\ io_ack' = io_ack
      /\ dmem' = dmem /\ accesses' = accesses
  BY DEF vars, coreVars, pipelineVars, lsuVars, portVars, memoryVars
<1>3. /\ program' = program /\ imem' = imem /\ transactions_checked' = transactions_checked
      /\ expected_accesses' = expected_accesses /\ retired' = retired
  BY DEF vars, benchVars, goldenVars, machineVars
<1>4. SameRun BY <1>3 DEF SameRun
<1>5. /\ code' = code /\ (\A k : W(T, k)' = W(T, k)) /\ (\A k : Res(T, k)' = Res(T, k))
      /\ (\A k : LoadValue(T, k)' = LoadValue(T, k))
      /\ (\A k, p : Pending(T, k, p)' <=> Pending(T, k, p))
  BY <1>4, RunFrame
<1>6. n' = n /\ iW' = iW /\ iM' = iM /\ iX' = iX /\ iD' = iD
  BY <1>1, <1>3 DEF n, iW, iM, iX, iD, one
<1>7. /\ exPending(T)' <=> exPending(T)
      /\ idPending(T)' <=> idPending(T)
  <2>1. Pending(T, iX - 1, ex.predicted)' <=> Pending(T, iX - 1, ex.predicted)
    BY <1>1, <1>5, <1>6 DEF Pending
  <2>2. Pending(T, iD - 1, id.predicted)' <=> Pending(T, iD - 1, id.predicted)
    BY <1>1, <1>5, <1>6 DEF Pending
  <2> QED BY <1>1, <1>3, <1>6, <2>1, <2>2 DEF exPending, idPending
<1>8. WbOK(T) => WbOK(T)'
  <2>1. W(T, n)' = W(T, n) /\ Res(T, n)' = Res(T, n) /\ LoadValue(T, n)' = LoadValue(T, n)
    BY <1>5, <1>6 DEF W, WordAt, Res, LoadValue
  <2> QED BY <1>1, <1>3, <1>6, <2>1 DEF WbOK, Is, mem_read
<1>9. EmOK(T) => EmOK(T)'
  <2>1. W(T, iM - 1)' = W(T, iM - 1) /\ Res(T, iM - 1)' = Res(T, iM - 1)
    BY <1>5, <1>6 DEF W, WordAt, Res
  <2> QED BY <1>1, <1>3, <1>6, <2>1 DEF EmOK, Is
<1>10. ExOK(T) => ExOK(T)'
  <2>1. W(T, iX - 1)' = W(T, iX - 1) BY <1>5, <1>6 DEF W, WordAt
  <2> QED BY <1>1, <1>3, <1>6, <2>1 DEF ExOK, Is, Operand, writes, reg_write, mem_read
<1>11. IdOK(T) => IdOK(T)'
  <2>1. W(T, iD - 1)' = W(T, iD - 1) BY <1>5, <1>6 DEF W, WordAt
  <2> QED BY <1>1, <1>3, <1>6, <1>7, <2>1 DEF IdOK, Is
<1>12. FetchOK(T) => FetchOK(T)' BY <1>1, <1>3, <1>6, <1>7 DEF FetchOK
<1>13. BeyondOK(T) => BeyondOK(T)' BY <1>1, <1>3, <1>6, <1>7 DEF BeyondOK, Inert
<1>14. BtbOK => BtbOK' BY <1>1, <1>3, <1>6 DEF BtbOK
<1>15. em_access' = em_access /\ reached' = reached
  BY <1>1, <1>3, <1>6 DEF em_access, mem_read, mem_write, reached
<1>16. /\ Quiet' <=> Quiet
       /\ Asked' <=> Asked
       /\ Working' <=> Working
       /\ Answered' <=> Answered
       /\ IoQuiet' <=> IoQuiet
  BY <1>2, <1>15 DEF Quiet, Asked, Working, Answered, IoQuiet
<1>17. PortOK(T) => PortOK(T)' BY <1>1, <1>2, <1>6, <1>15, <1>16 DEF PortOK
<1>18. Seen' BY <1>2, <1>3 DEF PipelineOK, Seen, seen
<1> QED BY <1>1, <1>2, <1>3, <1>5, <1>6, <1>8, <1>9, <1>10, <1>11, <1>12, <1>13, <1>14, <1>17,
           <1>18 DEF PipelineOK

\* The invariant is one of the state: a step that changes nothing keeps it.
LEMMA StutterInv == ASSUME Inv, UNCHANGED vars PROVE Inv'
<1>1. /\ program' = program /\ error' = error /\ phase' = phase /\ UNCHANGED goldenVars
      /\ UNCHANGED coreVars /\ imem' = imem
      /\ transactions_checked' = transactions_checked /\ expected_accesses' = expected_accesses
  BY DEF vars, benchVars
<1>2. CASE program.mode = "scoreboard"
  <2>1. ScoredInv BY <1>2 DEF Inv
  <2>2. GoldenFresh => GoldenFresh' BY <1>1 DEF goldenVars, machineVars, GoldenFresh
  <2>3. CoreFresh => CoreFresh' BY <1>1 DEF coreVars, pipelineVars, lsuVars, CoreFresh
  <2>4. SourceRead => SourceRead' BY <1>1 DEF goldenVars, sourceVars, SourceRead
  <2>5. SourceParsed => SourceParsed'
    <3>1. instrs' = instrs /\ label_dic' = label_dic /\ parsed_instrs' = parsed_instrs
      BY <1>1 DEF goldenVars, sourceVars
    <3>2. \A i \in DOMAIN instrs :
            GoldenModel!decode_instr(instrs[i], i - 1)' = GoldenModel!decode_instr(instrs[i], i - 1)
      BY <3>1 DEF GoldenModel!decode_instr, GoldenModel!operands, GoldenModel!parsed,
                  GoldenModel!instr_wrong
    <3>3. SourceParsed' <=> parsed_instrs' = [i \in DOMAIN instrs' |->
                                GoldenModel!decode_instr(instrs[i], i - 1)']
      BY DEF SourceParsed
    <3>4. SourceParsed <=> parsed_instrs = [i \in DOMAIN instrs |->
                               GoldenModel!decode_instr(instrs[i], i - 1)]
      BY DEF SourceParsed
    <3> QED BY <3>1, <3>2, <3>3, <3>4
  <2>6. (\E T : Executed(T)) => (\E T : Executed(T)')
    <3> SUFFICES ASSUME NEW T, Executed(T) PROVE Executed(T)' OBVIOUS
    <3>1. RunOf(T) /\ GoldenIs(T) /\ QueuesAre(T) BY DEF Executed
    <3>2. /\ RunOf(T)' /\ GoldenIs(T)' /\ QueuesAre(T)' /\ retired' = retired
          /\ Ended(T) => Ended(T)'
      BY <1>1, <3>1, RunKept DEF SameRun
    <3>3. PipelineOK(T) => PipelineOK(T)' BY PipelineKept
    <3>4. Seen => Seen' BY <1>1 DEF coreVars, Seen, seen
    <3>5. dmem' = dmem /\ accesses' = accesses BY <1>1 DEF coreVars, memoryVars
    <3> QED BY <1>1, <3>2, <3>3, <3>4, <3>5 DEF Executed
  <2>7. Loaded => Loaded'
    <3>1. code' = code BY <1>1 DEF code
    <3>2. dmem' = dmem BY <1>1 DEF coreVars, memoryVars
    <3> QED BY <1>1, <3>1, <3>2 DEF Loaded
  <2>8. accesses' = accesses /\ retired' = retired BY <1>1 DEF coreVars, goldenVars, machineVars
  <2>9. ScoredInv'
    BY <1>1, <2>1, <2>2, <2>3, <2>4, <2>5, <2>6, <2>7, <2>8 DEF ScoredInv
  <2> QED BY <1>1, <1>2, <2>9 DEF Inv
<1>3. CASE program.mode # "scoreboard"
  <2>1. UnscoredInv' BY <1>1, <1>3 DEF Inv, UnscoredInv, goldenVars, machineVars
  <2> QED BY <1>1, <1>3, <2>1 DEF Inv
<1> QED BY <1>2, <1>3

-----------------------------------------------------------------------------
(* The theorems.                                                            *)

\* Inv is inductive, of runs that stay Aligned.
LEMMA NextInv == Inv /\ Aligned' /\ [Next]_vars => Inv'
<1> SUFFICES ASSUME Inv, Aligned', [Next]_vars PROVE Inv' OBVIOUS
<1>1. CASE LoadAsm BY <1>1, LoadAsmInv
<1>2. CASE ParseAsm BY <1>2, ParseAsmInv
<1>3. CASE ExecInstr BY <1>3, ExecInstrInv
<1>4. CASE ExecUndecodable BY <1>4, ExecUndecodableInv
<1>5. CASE GoldenEnds BY <1>5, GoldenEndsInv
<1>6. CASE TooLarge BY <1>6, TooLargeInv
<1>7. CASE Load BY <1>7, LoadInv
<1>8. CASE Reset BY <1>8, ResetInv
<1>9. CASE Clock BY <1>9, ClockInv
<1>10. CASE Finish BY <1>10, FinishInv
<1>11. CASE ended BY <1>11, StutterInv DEF ended
<1>12. CASE UNCHANGED vars BY <1>12, StutterInv
<1> QED BY <1>1, <1>2, <1>3, <1>4, <1>5, <1>6, <1>7, <1>8, <1>9, <1>10, <1>11, <1>12 DEF Next

\* The invariant, always.
LEMMA InvAlways == Spec /\ []Aligned => []Inv
<1>1. Init => Inv BY InitInv
<1>2. Inv /\ Aligned' /\ [Next]_vars => Inv' BY NextInv
<1> QED BY <1>1, <1>2, PTL DEF Spec

\* In the order of the run, and all of them when it is over.
LEMMA InvOrder == Inv => AccessesInProgramOrder
<1> SUFFICES ASSUME Inv, program.mode = "scoreboard"
             PROVE  /\ Len(accesses) <= Len(expected_accesses)
                    /\ \A i \in DOMAIN accesses : seen(accesses[i]) = expected_accesses[i]
                    /\ phase = "done" => Len(accesses) = Len(expected_accesses)
  BY DEF AccessesInProgramOrder
<1>1. ScoredInv BY DEF Inv
<1>2. CASE phase \in {"running", "done"}
  <2>1. PICK T : Executed(T) BY <1>1, <1>2 DEF ScoredInv
  <2>2. Seen BY <1>2, <2>1 DEF Executed, PipelineOK
  <2>3. RunOf(T) BY <2>1 DEF Executed
  <2>4. expected_accesses \in Seq(Expected) /\ accesses \in Seq(Access)
    BY <2>2, <2>3 DEF RunOf, Seen
  <2>5. Len(accesses) <= Len(expected_accesses)
    <3> SUFFICES ASSUME ~(Len(accesses) <= Len(expected_accesses)) PROVE FALSE OBVIOUS
    <3>1. Len(accesses) \in Nat /\ Len(expected_accesses) \in Nat
          /\ DOMAIN accesses = 1..Len(accesses) /\ DOMAIN expected_accesses = 1..Len(expected_accesses)
      BY <2>4
    <3>2. Len(accesses) \in DOMAIN accesses /\ Len(accesses) \notin DOMAIN expected_accesses
      BY <3>1
    <3> QED BY <2>2, <3>2 DEF Seen
  <2>6. phase = "done" => Len(accesses) = Len(expected_accesses)
    BY <2>1, <2>3 DEF Executed, RunOf
  <2> QED BY <2>2, <2>5, <2>6 DEF Seen
<1>3. CASE phase \notin {"running", "done"}
  <2>1. accesses = <<>> BY <1>1, <1>3 DEF ScoredInv, CoreFresh
  <2>2. expected_accesses \in Seq(Expected)
    <3>1. CASE phase \in {"load_asm", "parse_asm"}
      <4>1. expected_accesses = <<>> BY <1>1, <3>1 DEF ScoredInv, GoldenFresh
      <4> QED BY <4>1
    <3>2. CASE phase \in {"exec", "load", "reset"}
      <4>1. PICK T : RunOf(T) BY <1>1, <3>2 DEF ScoredInv, Executed
      <4> QED BY <4>1 DEF RunOf
    <3>3. CASE phase = "failed" BY <1>1, <3>3 DEF ScoredInv
    <3> QED BY <1>1, <1>3, <3>1, <3>2, <3>3 DEF ScoredInv
  <2> QED BY <1>3, <2>1, <2>2
<1> QED BY <1>2, <1>3

\* Byte by byte, wherever the golden model has stored.
LEMMA InvMemory == Inv => MemoryEndsAsGolden
<1> SUFFICES ASSUME Inv, phase = "done", NEW addr \in DOMAIN data_mem
             PROVE  dmem[addr] = data_mem[addr]
  BY DEF MemoryEndsAsGolden
<1>1. CASE program.mode = "scoreboard"
  <2>1. PICK T : Executed(T) BY <1>1 DEF Inv, ScoredInv
  <2>2. GoldenIs(T) /\ dmem = T.mem[retired] BY <2>1 DEF Executed
  <2> QED BY <2>2 DEF GoldenIs
<1>2. CASE program.mode # "scoreboard"
  <2>1. data_mem = <<>> BY <1>2 DEF Inv, UnscoredInv
  <2>2. DOMAIN data_mem = {} BY <2>1
  <2> QED BY <2>2
<1> QED BY <1>1, <1>2

THEOREM NothingMismatchesHolds == Spec /\ []Aligned => []NothingMismatches
<1>1. Inv => NothingMismatches BY DEF Inv, NothingMismatches
<1> QED BY <1>1, InvAlways, PTL

THEOREM AccessesInProgramOrderHolds == Spec /\ []Aligned => []AccessesInProgramOrder
BY InvOrder, InvAlways, PTL

THEOREM MemoryEndsAsGoldenHolds == Spec /\ []Aligned => []MemoryEndsAsGolden
BY InvMemory, InvAlways, PTL
=============================================================================
