-------------------------- MODULE BootSystem_proofs --------------------------
(***************************************************************************)
(* Proofs about BootSystem, for every image, every width and every garbling *)
(* of the line: no byte comes while the bootloader is deaf, an ACK tells    *)
(* the truth, the core starts on the image, the reply leaves through the    *)
(* pin the bootloader still owns, and the SDRAM port has changed hands      *)
(* before the core's first request.  The host must be slow enough for a     *)
(* block to be written between two bytes (SlowLine), records of one memory  *)
(* must not overlap (Disjoint), and the core must take longer to its first  *)
(* request than mem_ready stays low (LOW < FIRST); each theorem names the   *)
(* ones it needs.                                                           *)
(***************************************************************************)
EXTENDS BootSystem, TLAPS

\* The reply is started, on the line or just over only in the state that waits for it.
Replying ==
  /\ tx_left \in Nat
  /\ tx_start # None \/ tx_left > 0 \/ tx_valid => current_state = "REPLY"
  /\ tx_valid => tx_left = 0 /\ tx_start = None
  /\ tx_start # None => tx_left = 0
  /\ current_state # "FINISHED" => boot_active

\* The host sends slowly enough for a block to be written between two bytes.
SlowLine == LOW + 3 < BYTE_TIME

HeaderStates == {"CHECK_SUM_BYTE", "RECORD_LENGTH", "DEST_MEM_BYTE", "START_ADDR_BYTES"}
PayloadStates == {"PROGRAM_BYTES", "DRAM_WRITE", "SUM_BYTE", "REPLY"}

In(s)    == current_state = s
record   == Image[rec]
size     == Len(record.payload)
due      == IF rx # None THEN pos - 1 ELSE pos    \* the number of the byte the machine takes next
count(c, p) == WORD * c + p
received == count(check_sum_ctr, pyld_cntr)       \* payload bytes taken
BlockBytes == BLOCK_WORDS * WORD

\* The state of the machine is the place of the next byte in the record.
InHeader ==
  /\ In("CHECK_SUM_BYTE") => due = 1
  /\ In("RECORD_LENGTH") => due = 2
  /\ In("DEST_MEM_BYTE") => due = 3
  /\ In("START_ADDR_BYTES") => due = 4 + hdr_ctr
  /\ ~In("START_ADDR_BYTES") => hdr_ctr = 0

\* While the SDRAM is powering up, the host is in its first header.
PoweringUp ==
  low > LOW =>
    /\ rec = 1 /\ pos \in 1 .. 7 /\ gap \in 0 .. BYTE_TIME
    /\ pos * BYTE_TIME - gap + low <= POWER_UP
    /\ current_state \in HeaderStates /\ hdr_ctr \in 0 .. 3 /\ InHeader

HostTypes ==
  /\ rec \in 1 .. Len(Image) + 1 /\ pos \in Nat \ {0} /\ gap \in 0 .. BYTE_TIME
  /\ sum \in Byte /\ rx \in Byte \union {None}
  /\ rx # None => gap = BYTE_TIME - 1 /\ rec <= Len(Image) /\ pos \in 2 .. size + 9

MachineTypes ==
  /\ current_state \in HeaderStates \union PayloadStates \union {"FINISHED"}
  /\ hdr_ctr \in 0 .. 3 /\ start_addr \in [0 .. 3 -> Byte]
  /\ check_sum_ctr \in Nat /\ pyld_cntr \in 0 .. WORD - 1 /\ prg_byte_cntr \in Nat
  /\ sum_acc \in Byte /\ mem_addr \in Nat
  /\ pyld_buff \in [0 .. WORD - 1 -> Byte] /\ blk_buff \in [0 .. BlockBytes - 1 -> Byte]
Strobes ==
  /\ imem_we \in BOOLEAN /\ dram_valid \in BOOLEAN /\ sum_ok \in BOOLEAN
  /\ imem_we => In("PROGRAM_BYTES") \/ In("SUM_BYTE")
  /\ dram_valid => In("DRAM_WRITE")

InPayload ==
  /\ current_state \in PayloadStates =>
       /\ rec <= Len(Image) /\ received <= size
       /\ due = IF In("REPLY") THEN 9 + received ELSE 8 + received
  /\ In("PROGRAM_BYTES") => received < size
  /\ In("SUM_BYTE") \/ In("REPLY") => received = size
  /\ In("DRAM_WRITE") \/ In("SUM_BYTE") \/ In("REPLY") => pyld_cntr = 0
  /\ In("DRAM_WRITE") \/ In("REPLY") => rx = None

Records ==
  /\ In("FINISHED") <=> rec > Len(Image)
  /\ ~In("FINISHED") => record_ctr = rec - 1
  /\ current_state \in HeaderStates =>
       check_sum_ctr = 0 /\ pyld_cntr = 0 /\ prg_byte_cntr = 0 /\ sum_acc = 0

\* A block is taken by the SDRAM before the next byte comes.
Pace ==
  In("DRAM_WRITE") => /\ ~dram_valid => gap >= LOW + 2
                      /\ dram_valid /\ ~mem_ready => gap >= low + 1

\* The header as the machine has it.
Header ==
  rec <= Len(Image) =>
    /\ due > 1 => check_sum = record.words
    /\ due > 2 => record_len = Len(Image)
    /\ due > 3 => dest_mem = record.dest
    /\ \A i \in 0 .. 3 : due > 4 + i => start_addr[i] = record.addr[i]

\* The byte on its way.
HeaderWire  == rx # None /\ due <= 7 => rx = headerOf(record)[due]
PayloadWire == rx # None /\ due \in 8 .. size + 7 /\ ~garbled => rx = record.payload[due - 7]

\* The two sums differ exactly when a byte was garbled.
acc == IF rx # None /\ In("PROGRAM_BYTES") THEN (sum_acc + rx) % BYTES ELSE sum_acc
Sums ==
  /\ garbled \in BOOLEAN
  /\ rec <= Len(Image) =>
       /\ pos \in 2 .. 8 => sum = 0 /\ ~garbled
       /\ pos \in 2 .. size + 8 => (acc = sum <=> ~garbled)
       /\ In("SUM_BYTE") /\ rx # None => (rx = sum_acc <=> ~garbled)
       /\ In("REPLY") => (sum_ok <=> ~garbled)
Replies ==
  In("REPLY") => (IF tx_start # None THEN tx_start ELSE tx_byte) = IF sum_ok THEN ACK ELSE NAK

\* Where the payload goes.
pending == imem_we \/ In("DRAM_WRITE")
unit    == IF record.dest = DEST_DRAM THEN BlockBytes ELSE WORD
done    == IF pending THEN prg_byte_cntr - unit ELSE prg_byte_cntr
inBlock(c, p) == (c % BLOCK_WORDS) * WORD + p
partial == IF record.dest = DEST_DRAM THEN inBlock(check_sum_ctr, pyld_cntr) ELSE pyld_cntr
Placed ==
  /\ current_state \in PayloadStates =>
       /\ received = prg_byte_cntr + partial
       /\ record.dest = DEST_DRAM => prg_byte_cntr % BlockBytes = 0
       /\ In("DRAM_WRITE") \/ In("SUM_BYTE") \/ In("REPLY") => partial = 0
       /\ In("DRAM_WRITE") => record.dest = DEST_DRAM
  /\ imem_we => record.dest = DEST_IMEM /\ partial = 0 /\ rx = None
  /\ pending => /\ prg_byte_cntr >= unit
                /\ mem_addr = address(record.addr) + (prg_byte_cntr - unit)

memory(r) == IF r.dest = DEST_IMEM THEN imem ELSE dram
buffer    == IF record.dest = DEST_DRAM THEN blk_buff ELSE pyld_buff
Contents ==
  current_state \in PayloadStates /\ ~garbled =>
    /\ \A i \in 1 .. done : Holds(memory(record), record, i)
    /\ \A j \in 0 .. unit - 1 : done + j < received => buffer[j] = record.payload[done + j + 1]

\* No two records of one memory overlap.
Disjoint ==
  \A k, l \in DOMAIN Image :
    k # l /\ Image[k].dest = Image[l].dest =>
      \/ address(Image[k].addr) + Len(Image[k].payload) <= address(Image[l].addr)
      \/ address(Image[l].addr) + Len(Image[l].payload) <= address(Image[k].addr)

Earlier == \A k \in 1 .. rec - 1 : Written(Image[k])

\* The port is the loader's until it has finished.
Owned == boot_active => boot_sel

\* Everything but the data, and the data.
Control == /\ low \in Nat /\ PoweringUp /\ HostTypes /\ MachineTypes /\ Strobes
           /\ Replying /\ Replies /\ Owned
           /\ InHeader /\ InPayload /\ Records /\ Pace /\ Header /\ HeaderWire /\ PayloadWire /\ Sums

-----------------------------------------------------------------------------
(* Arithmetic, and the constants.                                           *)

\* Multiples of a word length.
LEMMA NextWord ==
  ASSUME NEW w \in Nat, NEW c \in Nat
  PROVE  w * (c + 1) = w * c + w /\ (c + 1) * w = c * w + w /\ w * c \in Nat /\ c * w = w * c
OBVIOUS

\* Division with remainder.
LEMMA Divide ==
  ASSUME NEW n \in Nat, NEW p \in Nat \ {0}
  PROVE  \E q \in Nat : n = p * q + (n % p) /\ q = n \div p /\ n % p \in 0 .. p - 1
<1> DEFINE q == n \div p
           r == n % p
<1>1. n = p * q + r /\ q \in Nat /\ r \in 0 .. p - 1 OBVIOUS
<1>2. q = n \div p /\ r = n % p OBVIOUS
<1> HIDE DEF q, r
<1> QED BY <1>1, <1>2, Zenon

\* Multiples of n are closed under sums and rounding down.
LEMMA CommonMultiple ==
  ASSUME NEW b \in Nat \ {0}, NEW x \in Nat, NEW y \in Nat, x % b = 0, y % b = 0
  PROVE  (x + y) % b = 0 /\ (x \div b) * b = x /\ b % b = 0 /\ (x + b) % b = 0
<1>1. PICK p \in Nat : x = b * p + 0 /\ p = x \div b BY Divide
<1>2. PICK q \in Nat : y = b * q + 0
  <2>1. \E q \in Nat : y = b * q + (y % b) BY Divide, Zenon
  <2> QED BY <2>1
<1>3. \A n \in Nat : (b * n + 0) % b = 0 OBVIOUS
<1>4. x + y = b * (p + q) + 0 /\ x + b = b * (p + 1) + 0 /\ b = b * 1 + 0 /\ p * b = x BY <1>1, <1>2
<1>5. p + q \in Nat /\ p + 1 \in Nat /\ 1 \in Nat OBVIOUS
<1>6. (b * (p + q) + 0) % b = 0 /\ (b * (p + 1) + 0) % b = 0 /\ (b * 1 + 0) % b = 0 BY <1>3, <1>5
<1> QED BY <1>1, <1>4, <1>6, Zenon

\* A multiple of n less n is one.
LEMMA BlockBefore ==
  ASSUME NEW b \in Nat \ {0}, NEW x \in Nat, x % b = 0, x >= b
  PROVE  x - b \in Nat /\ (x - b) % b = 0
<1>1. PICK q \in Nat : x = b * q + 0 BY Divide
<1>2. q # 0
  <2>1. b * 0 = 0 OBVIOUS
  <2> QED BY <1>1, <2>1
<1>3. q - 1 \in Nat /\ q = (q - 1) + 1 BY <1>2
<1>4. PICK p \in Nat : q = p + 1 BY <1>3
<1>5. b * (p + 1) = b * p + b /\ b * p \in Nat BY NextWord
<1>6. x - b = b * p + 0
  <2>1. b * q = b * p + b BY <1>4, <1>5
  <2> DEFINE m == b * q
             n == b * p
  <2>2. m = n + b /\ x = m + 0 /\ n \in Nat BY <1>1, <1>5, <2>1
  <2> HIDE DEF m, n
  <2>3. x - b = n + 0 BY <2>2
  <2> QED BY <2>3 DEF n
<1>7. (b * p + 0) % b = 0
  <2>1. \A n \in Nat : (b * n + 0) % b = 0 OBVIOUS
  <2> QED BY <2>1
<1>8. x - b \in Nat OBVIOUS
<1> QED BY <1>6, <1>7, <1>8, Zenon

\* The place in the block turns over with the block.
LEMMA CountInBlock ==
  ASSUME NEW c \in Nat, NEW b \in Nat \ {0}
  PROVE  /\ c % b \in 0 .. b - 1
         /\ (c + 1) % b = IF c % b = b - 1 THEN 0 ELSE (c % b) + 1
<1>1. c % b \in 0 .. b - 1 BY Divide
<1>2. PICK q \in Nat, m \in 0 .. b - 1 : m = c % b /\ c = b * q + m BY Divide
<1>3. \A n \in Nat, i \in 0 .. b - 1 : (b * n + i) % b = i OBVIOUS
<1>4. CASE m = b - 1
  <2>1. c + 1 = b * (q + 1) + 0 BY <1>2, <1>4
  <2>2. (b * (q + 1) + 0) % b = 0 BY <1>3
  <2> QED BY <1>1, <1>2, <1>4, <2>1, <2>2
<1>5. CASE m # b - 1
  <2>1. c + 1 = b * q + (m + 1) /\ m + 1 \in 0 .. b - 1 BY <1>2, <1>5
  <2>2. (b * q + (m + 1)) % b = m + 1 BY <1>3, <2>1
  <2> QED BY <1>1, <1>2, <1>5, <2>1, <2>2
<1> QED BY <1>4, <1>5

\* Two sums that differ go on differing; a byte that is off makes equal ones differ.
LEMMA SumsApart ==
  ASSUME NEW b \in Nat \ {0}, NEW x \in 0 .. b - 1, NEW y \in 0 .. b - 1, NEW v \in 0 .. b - 1,
         NEW d \in 1 .. b - 1
  PROVE  /\ (x + v) % b \in 0 .. b - 1
         /\ (x + v) % b = (y + v) % b <=> x = y
         /\ (x + ((v + d) % b)) % b # (x + v) % b
         /\ (v + d) % b # v
<1>1. \A s \in 0 .. 2 * b - 1 : s % b = IF s >= b THEN s - b ELSE s
  <2>1. SUFFICES ASSUME NEW s \in 0 .. 2 * b - 1 PROVE s % b = IF s >= b THEN s - b ELSE s OBVIOUS
  <2>2. \A n \in Nat, i \in 0 .. b - 1 : (b * n + i) % b = i OBVIOUS
  <2>3. CASE s < b
    <3>1. s = b * 0 + s /\ s \in 0 .. b - 1 BY <2>3
    <3> QED BY <2>2, <2>3, <3>1
  <2>4. CASE s >= b
    <3>1. s = b * 1 + (s - b) /\ s - b \in 0 .. b - 1 BY <2>4
    <3> QED BY <2>2, <2>4, <3>1
  <2> QED BY <2>3, <2>4
<1>2. x + v \in 0 .. 2 * b - 1 /\ y + v \in 0 .. 2 * b - 1 /\ v + d \in 0 .. 2 * b - 1 OBVIOUS
<1>3. PICK e \in 0 .. b - 1 : e = (v + d) % b /\ e # v BY <1>1, <1>2
<1>4. x + e \in 0 .. 2 * b - 1 OBVIOUS
<1>5. (x + e) % b # (x + v) % b
  <2>1. (x + e) % b = IF x + e >= b THEN x + e - b ELSE x + e BY <1>1, <1>4
  <2>2. (x + v) % b = IF x + v >= b THEN x + v - b ELSE x + v BY <1>1, <1>2
  <2>3. e \in 0 .. b - 1 /\ e # v BY <1>3
  <2> QED BY <2>1, <2>2, <2>3
<1>6. (x + v) % b \in 0 .. b - 1 /\ ((x + v) % b = (y + v) % b <=> x = y) BY <1>1, <1>2
<1> QED BY <1>3, <1>5, <1>6

\* What the assumptions say of the constants.
LEMMA Constants ==
  /\ BYTES \in Nat /\ BYTES >= 2 /\ WORD \in Nat \ {0} /\ BLOCK_WORDS \in Nat \ {0}
  /\ BlockBytes \in Nat \ {0} /\ AddrSpace \in Nat \ {0} /\ Byte \subseteq Nat
  /\ {BYTE_TIME, REPLY_TIME, POWER_UP, LOW, FIRST} \subseteq Nat \ {0}
  /\ None \notin Byte /\ None # ACK /\ None # NAK /\ ACK # NAK
  /\ Len(Image) \in 1 .. BYTES - 1 /\ Deltas \subseteq 1 .. BYTES - 1
<1>1. BYTES \in Nat /\ WORD \in Nat \ {0} /\ BLOCK_WORDS \in Nat \ {0} /\ BYTES >= 2
  BY BootAssumption DEF Byte
<1>2. BlockBytes \in Nat \ {0}
  <2>1. \A x, y \in Nat \ {0} : x * y \in Nat \ {0} OBVIOUS
  <2> QED BY <1>1, <2>1 DEF BlockBytes
<1>3. AddrSpace \in Nat \ {0}
  <2>1. \A x, y \in Nat \ {0} : x * y \in Nat \ {0} OBVIOUS
  <2>2. BYTES * BYTES \in Nat \ {0} BY <1>1, <2>1
  <2>3. BYTES * BYTES * BYTES \in Nat \ {0} BY <1>1, <2>1, <2>2
  <2>4. BYTES * BYTES * BYTES * BYTES \in Nat \ {0} BY <1>1, <2>1, <2>3
  <2> QED BY <2>4 DEF AddrSpace
<1>4. Len(Image) \in 1 .. BYTES - 1 BY <1>1, ImageAssumption DEF Byte
<1> QED BY <1>1, <1>2, <1>3, <1>4, BootAssumption, SystemAssumption DEF Byte

\* An address of bytes is a number.
LEMMA AddressInNat ==
  ASSUME NEW b \in [0 .. 3 -> Byte]
  PROVE  address(b) \in Nat
<1>1. b[0] \in Nat /\ b[1] \in Nat /\ b[2] \in Nat /\ b[3] \in Nat
  <2>1. \A i \in 0 .. 3 : b[i] \in Nat BY Constants
  <2> QED BY <2>1
<1>2. \A x, y \in Nat : x + BYTES * y \in Nat BY Constants
<1>3. b[2] + BYTES * b[3] \in Nat BY <1>1, <1>2
<1>4. b[1] + BYTES * (b[2] + BYTES * b[3]) \in Nat BY <1>1, <1>2, <1>3
<1>5. b[0] + BYTES * (b[1] + BYTES * (b[2] + BYTES * b[3])) \in Nat BY <1>1, <1>2, <1>4
<1> QED BY <1>5 DEF address

\* What the assumption on the image says of a record.
LEMMA RecordFacts ==
  ASSUME NEW k \in 1 .. Len(Image)
  PROVE  /\ Image[k] \in Record /\ Image[k].payload \in Seq(Byte) /\ Image[k].addr \in [0 .. 3 -> Byte]
         /\ Image[k].dest \in {DEST_IMEM, DEST_DRAM} /\ DEST_IMEM # DEST_DRAM
         /\ Image[k].words \in 1 .. BYTES - 1 /\ Len(Image[k].payload) \in Nat
         /\ Len(Image[k].payload) = Image[k].words * WORD
         /\ address(Image[k].addr) \in Nat
         /\ address(Image[k].addr) + Len(Image[k].payload) < AddrSpace
         /\ Image[k].dest = DEST_DRAM => /\ Image[k].words % BLOCK_WORDS = 0
                                         /\ address(Image[k].addr) % BlockBytes = 0
<1>1. Image \in Seq(Record) /\ k \in DOMAIN Image BY ImageAssumption
<1>2. Image[k] \in Record BY <1>1
<1>3. /\ Image[k].payload \in Seq(Byte) /\ Image[k].addr \in [0 .. 3 -> Byte]
      /\ Image[k].dest \in {DEST_IMEM, DEST_DRAM} /\ DEST_IMEM # DEST_DRAM
      /\ Image[k].words \in 1 .. BYTES - 1 /\ Len(Image[k].payload) \in Nat
  <2>1. /\ Image[k].payload \in Seq(Byte) /\ Image[k].addr \in [0 .. 3 -> Byte]
        /\ Image[k].dest \in {DEST_IMEM, DEST_DRAM} /\ Image[k].words \in Byte \ {0}
    BY <1>2 DEF Record
  <2>2. \A n \in Byte \ {0} : n \in 1 .. BYTES - 1
    <3>1. BYTES \in Nat BY Constants
    <3> QED BY <3>1 DEF Byte
  <2> QED BY <2>1, <2>2, BootAssumption
<1>4. address(Image[k].addr) \in Nat BY <1>3, AddressInNat
<1> QED BY <1>1, <1>2, <1>3, <1>4, ImageAssumption DEF BlockBytes

-----------------------------------------------------------------------------
(* The SDRAM powers up while the first header is sent.                      *)

\* A header is bytes.
LEMMA HeaderBytes ==
  ASSUME NEW k \in 1 .. Len(Image), NEW i \in 1 .. 7
  PROVE  headerOf(Image[k])[i] \in Byte
<1>1. Image[k].words \in Byte /\ Len(Image) \in Byte /\ Image[k].dest \in Byte
  <2>1. Image[k] \in Record BY RecordFacts
  <2>2. Image[k].words \in Byte /\ Image[k].dest \in {DEST_IMEM, DEST_DRAM} BY <2>1 DEF Record
  <2> QED BY <2>2, BootAssumption, ImageAssumption
<1>2. /\ Image[k].addr[0] \in Byte /\ Image[k].addr[1] \in Byte
      /\ Image[k].addr[2] \in Byte /\ Image[k].addr[3] \in Byte
  BY RecordFacts
<1>3. i = 1 \/ i = 2 \/ i = 3 \/ i = 4 \/ i = 5 \/ i = 6 \/ i = 7 OBVIOUS
<1> QED BY <1>1, <1>2, <1>3 DEF headerOf

\* At reset the host is before its first byte.
LEMMA InitPoweringUp == Init => PoweringUp
<1> SUFFICES ASSUME Init PROVE PoweringUp OBVIOUS
<1>1. rec = 1 /\ pos = 1 /\ gap = BYTE_TIME /\ low = POWER_UP /\ due = 1 /\ hdr_ctr = 0
      /\ In("CHECK_SUM_BYTE")
  BY DEF Init, BootInit, due, In
<1>2. pos * BYTE_TIME - gap + low <= POWER_UP BY <1>1, Constants
<1>3. gap \in 0 .. BYTE_TIME BY <1>1, Constants
<1> QED BY <1>1, <1>2, <1>3 DEF PoweringUp, HeaderStates, InHeader, In

\* A byte of the header moves the machine on by one place; without a byte it stays.
LEMMA HeaderMoves ==
  ASSUME Next, current_state \in HeaderStates, hdr_ctr \in 0 .. 3, InHeader
  PROVE  /\ rx = None => current_state' = current_state /\ hdr_ctr' = hdr_ctr
         /\ rx # None => \/ In("CHECK_SUM_BYTE") /\ current_state' = "RECORD_LENGTH" /\ hdr_ctr' = hdr_ctr
                         \/ In("RECORD_LENGTH") /\ current_state' = "DEST_MEM_BYTE" /\ hdr_ctr' = hdr_ctr
                         \/ In("DEST_MEM_BYTE") /\ current_state' = "START_ADDR_BYTES" /\ hdr_ctr' = hdr_ctr
                         \/ In("START_ADDR_BYTES") /\ hdr_ctr # 3 /\ current_state' = current_state
                              /\ hdr_ctr' = hdr_ctr + 1
                         \/ In("START_ADDR_BYTES") /\ hdr_ctr = 3 /\ current_state' = "PROGRAM_BYTES"
                              /\ hdr_ctr' = 0
<1> USE DEF In, Took, Goto, header, Receiving
<1>1. BootClock(rx, tx_valid, mem_ready) BY DEF Next
<1>2. \/ CheckSumByte(rx) \/ RecordLength(rx) \/ DestMemByte(rx) \/ StartAddrBytes(rx)
      \/ BootWait(rx, tx_valid)
  BY <1>1 DEF HeaderStates, BootClock, PayloadByte, ImemWord, DramWord, DramWrite, SumByte, Reply, Finished
<1>3. CASE CheckSumByte(rx) BY <1>3 DEF CheckSumByte
<1>4. CASE RecordLength(rx) BY <1>4 DEF RecordLength
<1>5. CASE DestMemByte(rx) BY <1>5 DEF DestMemByte
<1>6. CASE StartAddrBytes(rx) BY <1>6 DEF StartAddrBytes
<1>7. CASE BootWait(rx, tx_valid) BY <1>7 DEF BootWait, HeaderStates
<1> QED BY <1>2, <1>3, <1>4, <1>5, <1>6, <1>7

\* The clocks mem_ready may stay low go down by one, or are at most LOW.
LEMMA LowFalls ==
  ASSUME Next, low \in Nat
  PROVE  low' \in Nat /\ (low' > LOW => low' = low - 1)
<1>1. /\ mem_ready => low' = LOW
      /\ ~mem_ready /\ low = 0 => low' = 0
      /\ ~mem_ready /\ low # 0 => low' = low - 1
  BY Zenon DEF Next, Sdram
<1> QED BY <1>1, Constants

\* The seven bytes of the first header outlast the power-up.
LEMMA PoweringUpStep ==
  ASSUME low \in Nat, PoweringUp, Next
  PROVE  PoweringUp'
<1> SUFFICES ASSUME low' > LOW PROVE PoweringUp' BY DEF PoweringUp
<1>1. low' = low - 1 /\ low > LOW BY LowFalls, Constants
<1>2. /\ rec = 1 /\ pos \in 1 .. 7 /\ gap \in 0 .. BYTE_TIME
      /\ current_state \in HeaderStates /\ hdr_ctr \in 0 .. 3 /\ InHeader
  BY <1>1 DEF PoweringUp
<1>3. sending
  <2>1. 1 \in 1 .. Len(Image) BY Constants
  <2>2. rec <= Len(Image) /\ size \in Nat BY <1>2, <2>1, RecordFacts DEF record, size
  <2> QED BY <1>2, <2>2 DEF sending, payload, size, record
<1>4. \/ gap = 0 /\ gap' = BYTE_TIME - 1 /\ pos' = pos + 1 /\ rec' = rec /\ rx' # None
      \/ gap > 0 /\ gap' = gap - 1 /\ pos' = pos /\ rec' = rec /\ rx' = None
  <2>1. Send => rx' # None
    <3>1. rec \in 1 .. Len(Image) BY <1>2, Constants
    <3>2. outgoing \in Byte BY <1>2, <3>1, HeaderBytes DEF outgoing
    <3>3. Send => rx' = outgoing BY <1>2 DEF Send, Arrives
    <3> QED BY <3>2, <3>3, Constants
  <2> QED BY <1>3, <2>1 DEF Next, Host, Send, Count, Listen
<1>5. pos' * BYTE_TIME - gap' + low' <= POWER_UP
  <2>1. (pos + 1) * BYTE_TIME = pos * BYTE_TIME + BYTE_TIME /\ pos * BYTE_TIME \in Nat
    BY <1>2, NextWord, Constants
  <2>2. PICK p \in Nat : p = pos * BYTE_TIME BY <2>1
  <2>3. p - gap + low <= POWER_UP BY <1>1, <2>2 DEF PoweringUp
  <2>4. CASE gap = 0 /\ gap' = BYTE_TIME - 1 /\ pos' = pos + 1
    <3>1. pos' * BYTE_TIME = p + BYTE_TIME BY <2>1, <2>2, <2>4
    <3>2. p + BYTE_TIME \in Nat BY Constants
    <3>3. (p + BYTE_TIME) - gap' + low' <= POWER_UP
      <4>1. p - 0 + low <= POWER_UP /\ gap' = BYTE_TIME - 1 BY <2>3, <2>4
      <4>2. p + BYTE_TIME - (BYTE_TIME - 1) + (low - 1) <= POWER_UP BY <4>1, Constants
      <4>3. low' = low - 1 BY <1>1
      <4>4. BYTE_TIME \in Nat /\ POWER_UP \in Nat BY Constants
      <4> QED BY <4>1, <4>2, <4>3, <4>4
    <3> QED BY <3>1, <3>3, Zenon
  <2>5. CASE gap > 0 /\ gap' = gap - 1 /\ pos' = pos
    <3>1. p - (gap - 1) + (low - 1) <= POWER_UP BY <1>2, <2>3, Constants
    <3> QED BY <1>1, <2>2, <2>5, <3>1, Zenon
  <2> QED BY <1>4, <2>4, <2>5
<1>6. pos' \in 1 .. 7 /\ gap' \in 0 .. BYTE_TIME
  <2>3. pos' \in 1 .. 8 BY <1>2, <1>4
  <2>4. gap' \in 0 .. BYTE_TIME
    <3>1. BYTE_TIME \in Nat \ {0} BY Constants
    <3> QED BY <1>2, <1>4, <3>1
  <2>1. pos' \in 1 .. 8 /\ gap' \in 0 .. BYTE_TIME BY <2>3, <2>4
  <2>2. pos' # 8
    <3>1. SUFFICES ASSUME pos' = 8 PROVE FALSE OBVIOUS
    <3>2. 8 * BYTE_TIME - gap' + (low - 1) <= POWER_UP /\ low - 1 > LOW BY <1>1, <1>5, <3>1
    <3>3. POWER_UP <= 7 * BYTE_TIME BY SystemAssumption
    <3> QED BY <2>1, <3>2, <3>3, Constants
  <2> QED BY <2>1, <2>2
<1>7. due' = IF rx # None THEN due + 1 ELSE due
  BY <1>2, <1>4 DEF due
<1>9. due \in Nat
  <2>1. pos \in Nat /\ pos - 1 \in Nat BY <1>2
  <2> QED BY <2>1 DEF due
<1>8. current_state' \in HeaderStates /\ hdr_ctr' \in 0 .. 3 /\ InHeader'
  <2>1. due' <= 7
    <3>1. pos' \in 1 .. 7 BY <1>6
    <3>2. due' = pos' - 1 \/ due' = pos' BY DEF due
    <3> QED BY <3>1, <3>2
  <2>2. CASE rx = None
    <3>1. current_state' = current_state /\ hdr_ctr' = hdr_ctr BY <1>2, <2>2, HeaderMoves
    <3>2. due' = due BY <1>7, <2>2
    <3> QED BY <1>2, <3>1, <3>2 DEF InHeader, In
  <2>3. CASE rx # None
    <3>1. due' = due + 1 BY <1>7, <2>3
    <3>2. due <= 6 BY <1>2, <2>1, <3>1 DEF due
    <3>3. ~(In("START_ADDR_BYTES") /\ hdr_ctr = 3) BY <1>2, <3>2 DEF InHeader
    <3>4. \/ In("CHECK_SUM_BYTE") /\ current_state' = "RECORD_LENGTH" /\ hdr_ctr' = hdr_ctr
          \/ In("RECORD_LENGTH") /\ current_state' = "DEST_MEM_BYTE" /\ hdr_ctr' = hdr_ctr
          \/ In("DEST_MEM_BYTE") /\ current_state' = "START_ADDR_BYTES" /\ hdr_ctr' = hdr_ctr
          \/ In("START_ADDR_BYTES") /\ hdr_ctr # 3 /\ current_state' = current_state
               /\ hdr_ctr' = hdr_ctr + 1
      BY <1>2, <2>3, <3>3, HeaderMoves
    <3>5. current_state' \in HeaderStates /\ hdr_ctr' \in 0 .. 3 BY <1>2, <3>4 DEF In, HeaderStates
    <3>6. InHeader'
      <4>1. CASE In("CHECK_SUM_BYTE") BY <1>2, <3>1, <3>4, <4>1 DEF InHeader, In
      <4>2. CASE In("RECORD_LENGTH") BY <1>2, <3>1, <3>4, <4>2 DEF InHeader, In
      <4>3. CASE In("DEST_MEM_BYTE")
        <5>1. InHeader /\ hdr_ctr = 0 BY <1>2, <4>3 DEF InHeader, In
        <5> QED BY <1>2, <3>1, <3>4, <4>3 DEF InHeader, In
      <4>4. CASE In("START_ADDR_BYTES")
        <5>1. due = 4 + hdr_ctr BY <1>2, <4>4 DEF InHeader
        <5>2. current_state' = "START_ADDR_BYTES" /\ hdr_ctr' = hdr_ctr + 1 BY <3>4, <4>4 DEF In
        <5>3. due' = 4 + hdr_ctr'
          <6>1. \A d, h, e, g \in Nat : d = 4 + h /\ e = d + 1 /\ g = h + 1 => e = 4 + g OBVIOUS
          <6>2. due \in Nat /\ due' \in Nat /\ hdr_ctr \in Nat /\ hdr_ctr' \in Nat BY <1>2, <1>9, <3>1, <5>2
          <6> QED BY <3>1, <5>1, <5>2, <6>1, <6>2
        <5> QED BY <5>2, <5>3 DEF InHeader, In
      <4> QED BY <3>4, <4>1, <4>2, <4>3, <4>4
    <3> QED BY <3>5, <3>6
  <2> QED BY <2>2, <2>3
<1> QED BY <1>2, <1>4, <1>5, <1>6, <1>8 DEF PoweringUp

-----------------------------------------------------------------------------
(* The words counted, and the length of the record.                         *)

\* Words and a remainder of bytes, against whole words.
LEMMA Whole ==
  ASSUME NEW c \in Nat, NEW p \in 0 .. WORD - 1, NEW w \in Nat
  PROVE  /\ count(c, p) \in Nat
         /\ count(c, p) < w * WORD => c < w
         /\ c < w => count(c, p) < w * WORD
         /\ count(c, p) = w * WORD => c = w /\ p = 0
         /\ c = w /\ p = 0 => count(c, p) = w * WORD
<1>1. WORD \in Nat \ {0} /\ p \in Nat /\ WORD - 1 \in Nat BY Constants
<1> DEFINE a == WORD * c
           b == w * WORD
<1>2. a \in Nat /\ b \in Nat BY <1>1
<1>3. count(c, p) = a + p BY DEF count
<1>7. (a + p < b <=> c < w) /\ (a + p = b <=> c = w /\ p = 0)
  <2>4. CASE c < w
    <3>1. PICK d \in Nat : w = c + 1 + d
      <4>1. w - c - 1 \in Nat /\ w = c + 1 + (w - c - 1) BY <2>4
      <4> QED BY <4>1
    <3>2. (c + 1 + d) * WORD = WORD * c + WORD + WORD * d /\ WORD * d \in Nat BY <1>1
    <3>3. PICK e \in Nat : b = a + WORD + e
      <4>1. b = a + WORD + WORD * d BY <3>1, <3>2
      <4> QED BY <3>2, <4>1
    <3> HIDE DEF a, b
    <3> QED BY <1>1, <1>2, <2>4, <3>3
  <2>5. CASE c = w
    <3>1. w * WORD = WORD * w BY <1>1
    <3>2. a = b BY <2>5, <3>1
    <3> HIDE DEF a, b
    <3> QED BY <1>1, <1>2, <2>5, <3>2
  <2>6. CASE c > w
    <3>1. PICK d \in Nat : c = w + 1 + d
      <4>1. c - w - 1 \in Nat /\ c = w + 1 + (c - w - 1) BY <2>6
      <4> QED BY <4>1
    <3>2. WORD * (w + 1 + d) = w * WORD + WORD + WORD * d /\ WORD * d \in Nat BY <1>1
    <3>3. PICK e \in Nat : a = b + WORD + e
      <4>1. a = b + WORD + WORD * d BY <3>1, <3>2
      <4> QED BY <3>2, <4>1
    <3> HIDE DEF a, b
    <3> QED BY <1>1, <1>2, <2>6, <3>3
  <2> QED BY <2>4, <2>5, <2>6
<1>8. a + p \in Nat BY <1>1, <1>2
<1> QED BY <1>3, <1>7, <1>8, Zenon

\* The bytes taken of a record: all of them exactly with its last whole word.
LEMMA CountWords ==
  ASSUME NEW k \in 1 .. Len(Image), NEW c \in Nat, NEW p \in 0 .. WORD - 1
  PROVE  /\ count(c, p) \in Nat /\ count(0, 0) = 0
         /\ count(c, p) < Len(Image[k].payload) => c < Image[k].words
         /\ c < Image[k].words => count(c, p) < Len(Image[k].payload)
         /\ count(c, p) = Len(Image[k].payload) => c = Image[k].words /\ p = 0
         /\ c = Image[k].words /\ p = 0 => count(c, p) = Len(Image[k].payload)
         /\ p # WORD - 1 => p + 1 \in 0 .. WORD - 1 /\ count(c, p + 1) = count(c, p) + 1
         /\ p = WORD - 1 => count(c + 1, 0) = count(c, p) + 1
         /\ c < Image[k].words => (c + 1) % BYTES = c + 1
<1>1. Len(Image[k].payload) = Image[k].words * WORD /\ Image[k].words \in 1 .. BYTES - 1
  BY RecordFacts
<1>2. Image[k].words \in Nat /\ WORD \in Nat \ {0} /\ BYTES \in Nat BY <1>1, Constants
<1>3. count(0, 0) = 0 BY <1>2 DEF count
<1>4. p # WORD - 1 => p + 1 \in 0 .. WORD - 1 BY <1>2
<1>5. count(c, p + 1) = count(c, p) + 1
  <2>1. WORD * c \in Nat BY <1>2
  <2> DEFINE a == WORD * c
  <2>2. a \in Nat /\ count(c, p + 1) = a + (p + 1) /\ count(c, p) = a + p BY <2>1 DEF count
  <2> HIDE DEF a
  <2> QED BY <2>2
<1>6. p = WORD - 1 => count(c + 1, 0) = count(c, p) + 1
  <2>1. WORD * c \in Nat /\ WORD * (c + 1) = WORD * c + WORD BY <1>2, NextWord
  <2> DEFINE a == WORD * c
  <2>2. a \in Nat /\ count(c + 1, 0) = (a + WORD) + 0 /\ count(c, p) = a + p BY <2>1 DEF count
  <2> HIDE DEF a
  <2> QED BY <1>2, <2>2
<1>7. c < Image[k].words => (c + 1) % BYTES = c + 1
  <2>1. \A n \in 0 .. BYTES - 1 : n % BYTES = n BY <1>2
  <2>2. c < Image[k].words => c + 1 \in 0 .. BYTES - 1 BY <1>1, <1>2
  <2> QED BY <2>1, <2>2
<1>8. /\ count(c, p) \in Nat
      /\ count(c, p) < Len(Image[k].payload) => c < Image[k].words
      /\ c < Image[k].words => count(c, p) < Len(Image[k].payload)
      /\ count(c, p) = Len(Image[k].payload) => c = Image[k].words /\ p = 0
      /\ c = Image[k].words /\ p = 0 => count(c, p) = Len(Image[k].payload)
  <2>1. /\ count(c, p) \in Nat
        /\ count(c, p) < Image[k].words * WORD => c < Image[k].words
        /\ c < Image[k].words => count(c, p) < Image[k].words * WORD
        /\ count(c, p) = Image[k].words * WORD => c = Image[k].words /\ p = 0
        /\ c = Image[k].words /\ p = 0 => count(c, p) = Image[k].words * WORD
    <3> DEFINE w == Image[k].words
    <3>1. w \in Nat BY <1>2
    <3> HIDE DEF w
    <3>2. /\ count(c, p) \in Nat
          /\ count(c, p) < w * WORD => c < w
          /\ c < w => count(c, p) < w * WORD
          /\ count(c, p) = w * WORD => c = w /\ p = 0
          /\ c = w /\ p = 0 => count(c, p) = w * WORD
      BY <3>1, Whole, Zenon
    <3> QED BY <3>2 DEF w
  <2> QED BY <1>1, <2>1, Zenon
<1> QED BY <1>3, <1>4, <1>5, <1>6, <1>7, <1>8

-----------------------------------------------------------------------------
(* What the host does in a clock, and the types.                            *)

\* The clocks of the host: a byte goes out, one is being sent, nothing to send, a reply is in.
Sends  == /\ sending /\ gap = 0 /\ gap' = BYTE_TIME - 1 /\ pos' = pos + 1 /\ rec' = rec
          /\ rx' \in Byte
Counts == /\ sending /\ gap > 0 /\ gap' = gap - 1 /\ pos' = pos /\ rec' = rec /\ rx' = None
Waits  == /\ ~sending /\ gap' = gap /\ pos' = pos /\ rec' = rec /\ rx' = None
          /\ ~(tx_valid /\ rec <= Len(Image))
Turns  == /\ ~sending /\ tx_valid /\ rec <= Len(Image)
          /\ gap' = BYTE_TIME /\ pos' = 1 /\ rec' = (IF tx_byte = ACK THEN rec + 1 ELSE rec) /\ rx' = None

\* The host sends bytes.
LEMMA Outgoing ==
  ASSUME HostTypes, sending
  PROVE  outgoing \in Byte
<1>1. rec \in 1 .. Len(Image) /\ pos \in Nat \ {0} /\ pos <= Len(payload) + 8 /\ sum \in Byte
  BY Constants DEF HostTypes, sending
<1>2. payload \in Seq(Byte) /\ Len(payload) \in Nat BY <1>1, RecordFacts DEF payload
<1>3. CASE pos <= 7
  <2>1. pos \in 1 .. 7 BY <1>1, <1>3
  <2> QED BY <1>1, <1>3, <2>1, HeaderBytes DEF outgoing
<1>4. CASE pos > 7 /\ pos <= Len(payload) + 7
  <2>1. pos - 7 \in 1 .. Len(payload) BY <1>1, <1>2, <1>4
  <2>2. payload[pos - 7] \in Byte BY <1>2, <2>1
  <2> QED BY <1>1, <1>4, <2>2 DEF outgoing
<1>5. CASE pos > Len(payload) + 7 BY <1>1, <1>2, <1>5 DEF outgoing
<1> QED BY <1>1, <1>2, <1>3, <1>4, <1>5

\* A clock of the host is one of the four.
LEMMA HostMoves ==
  ASSUME HostTypes, Next
  PROVE  Sends \/ Counts \/ Waits \/ Turns
<1>1. Host BY DEF Next
<1>2. CASE Send
  <2>1. sending /\ outgoing \in Byte BY <1>2, Outgoing DEF Send
  <2>2. \A d \in Deltas : (outgoing + d) % BYTES \in Byte
    <3>1. \A n \in Nat : n % BYTES \in 0 .. BYTES - 1 BY Constants
    <3>2. outgoing \in Nat /\ Deltas \subseteq Nat BY <2>1, Constants
    <3>3. \A d \in Deltas : outgoing + d \in Nat BY <3>2
    <3> QED BY <3>1, <3>3 DEF Byte
  <2>3. rx' \in Byte BY <1>2, <2>1, <2>2 DEF Send, Arrives
  <2> QED BY <1>2, <2>3 DEF Send, Sends
<1>3. CASE Count BY <1>3 DEF Count, Counts
<1>4. CASE Listen BY <1>4 DEF Listen, Waits, Turns
<1> QED BY <1>1, <1>2, <1>3, <1>4 DEF Host

\* The host keeps its types.
LEMMA HostTypesStep ==
  ASSUME HostTypes, Next
  PROVE  HostTypes'
<1>1. Sends \/ Counts \/ Waits \/ Turns BY HostMoves
<1>2. BYTE_TIME \in Nat \ {0} /\ Len(Image) \in Nat /\ None \notin Byte BY Constants
<1>3. rec \in 1 .. Len(Image) + 1 /\ pos \in Nat \ {0} /\ gap \in 0 .. BYTE_TIME BY DEF HostTypes
<1>4. sum' \in Byte
  <2>1. Host BY DEF Next
  <2>2. CASE Send
    <3>1. sending /\ outgoing \in Byte /\ sum \in Byte BY <2>2, Outgoing DEF Send, HostTypes
    <3>2. sum + outgoing \in Nat /\ BYTES \in Nat /\ BYTES >= 2 BY <3>1, Constants
    <3>3. \A n \in Nat : n % BYTES \in 0 .. BYTES - 1 BY <3>2
    <3>4. (sum + outgoing) % BYTES \in Byte /\ 0 \in Byte BY <3>2, <3>3 DEF Byte
    <3> QED BY <2>2, <3>4 DEF Send
  <2> QED BY <2>1, <2>2 DEF Host, Count, Listen, HostTypes
<1>5. CASE Sends
  <2>1. rec \in 1 .. Len(Image) /\ pos <= size + 8 /\ size \in Nat
    <3>1. rec \in 1 .. Len(Image) /\ pos <= Len(payload) + 8 BY <1>2, <1>3, <1>5 DEF Sends, sending
    <3> QED BY <3>1, RecordFacts DEF size, record, payload
  <2>2. rec' = rec /\ size' = size BY <1>5 DEF Sends, size, record
  <2>3. pos' \in 2 .. size + 9 /\ pos' \in Nat \ {0} BY <1>3, <1>5, <2>1 DEF Sends
  <2>4. gap' = BYTE_TIME - 1 /\ gap' \in 0 .. BYTE_TIME BY <1>2, <1>5 DEF Sends
  <2>5. rec' \in 1 .. Len(Image) + 1 /\ rec' <= Len(Image) BY <1>2, <2>1, <2>2
  <2>6. pos' \in 2 .. size' + 9 BY <2>2, <2>3
  <2> QED BY <1>4, <1>5, <2>3, <2>4, <2>5, <2>6 DEF HostTypes, Sends
<1>6. CASE Counts \/ Waits
  <2>1. gap' \in 0 .. BYTE_TIME BY <1>2, <1>3, <1>6 DEF Counts, Waits
  <2> QED BY <1>3, <1>4, <1>6, <2>1 DEF Counts, Waits, HostTypes
<1>7. CASE Turns
  <2>1. rec' \in 1 .. Len(Image) + 1 BY <1>2, <1>3, <1>7 DEF Turns
  <2>2. gap' \in 0 .. BYTE_TIME /\ pos' \in Nat \ {0} /\ rx' = None BY <1>2, <1>7 DEF Turns
  <2> QED BY <1>4, <2>1, <2>2 DEF HostTypes
<1> QED BY <1>1, <1>5, <1>6, <1>7

\* The machine's registers keep their types.
LEMMA MachineTypesStep ==
  ASSUME HostTypes, MachineTypes, Next
  PROVE  MachineTypes'
<1> USE DEF NoWrite, NoStrobe, Goto, Took, outcome, header, progress, buffers, NewRecord
<1>1. BootClock(rx, tx_valid, mem_ready) BY DEF Next
<1>2. rx # None => rx \in Byte BY DEF HostTypes
<1>3. /\ \A n \in Nat : n % BYTES \in Byte /\ n % BYTES \in Nat /\ n % AddrSpace \in Nat
      /\ 0 \in Byte /\ 0 \in 0 .. WORD - 1 /\ Byte \subseteq Nat
  <2>1. \A n \in Nat : n % BYTES \in 0 .. BYTES - 1 /\ n % AddrSpace \in 0 .. AddrSpace - 1
    BY Constants
  <2>2. \A n \in Nat : n % BYTES \in Byte /\ n % BYTES \in Nat /\ n % AddrSpace \in Nat
    <3>1. BYTES \in Nat /\ AddrSpace \in Nat BY Constants
    <3>2. \A n \in Nat : n % BYTES \in Nat /\ n % AddrSpace \in Nat BY <2>1, <3>1
    <3> QED BY <2>1, <3>2 DEF Byte
  <2>3. 0 \in Byte /\ 0 \in 0 .. WORD - 1 BY Constants DEF Byte
  <2> QED BY <2>2, <2>3, Constants
<1>4. /\ current_state \in HeaderStates \union PayloadStates \union {"FINISHED"}
      /\ hdr_ctr \in 0 .. 3 /\ start_addr \in [0 .. 3 -> Byte]
      /\ check_sum_ctr \in Nat /\ pyld_cntr \in 0 .. WORD - 1 /\ prg_byte_cntr \in Nat
      /\ sum_acc \in Byte /\ mem_addr \in Nat
      /\ pyld_buff \in [0 .. WORD - 1 -> Byte] /\ blk_buff \in [0 .. BlockBytes - 1 -> Byte]
  BY DEF MachineTypes
<1>5. CASE CheckSumByte(rx) \/ RecordLength(rx) \/ DestMemByte(rx)
  BY <1>3, <1>4, <1>5 DEF CheckSumByte, RecordLength, DestMemByte, MachineTypes, HeaderStates
<1>6. CASE StartAddrBytes(rx)
  <2>1. start_addr' \in [0 .. 3 -> Byte] BY <1>2, <1>4, <1>6 DEF StartAddrBytes
  <2>2. hdr_ctr' \in 0 .. 3 BY <1>4, <1>6 DEF StartAddrBytes
  <2>3. current_state' \in HeaderStates \union PayloadStates \union {"FINISHED"}
    BY <1>4, <1>6 DEF StartAddrBytes, PayloadStates
  <2> QED BY <1>4, <1>6, <2>1, <2>2, <2>3 DEF StartAddrBytes, MachineTypes
<1>7. ASSUME rx # None, Assemble(rx), Accumulate(rx)
      PROVE  /\ sum_acc' \in Byte
             /\ pyld_buff' \in [0 .. WORD - 1 -> Byte] /\ blk_buff' \in [0 .. BlockBytes - 1 -> Byte]
  <2>1. sum_acc + rx \in Nat
    <3>1. sum_acc \in Nat /\ rx \in Nat BY <1>2, <1>3, <1>4, <1>7
    <3> QED BY <3>1
  <2>2. sum_acc' \in Byte BY <1>3, <1>7, <2>1 DEF Accumulate
  <2> QED BY <1>2, <1>4, <1>7, <2>2 DEF Assemble
<1>8. CASE PayloadByte(rx)
  <2>1. pyld_cntr' \in 0 .. WORD - 1
    BY <1>4, <1>8, Constants DEF PayloadByte, wordOver
  <2> QED BY <1>4, <1>7, <1>8, <2>1 DEF PayloadByte, MachineTypes
<1>9. ASSUME CountWord PROVE check_sum_ctr' \in Nat /\ pyld_cntr' \in 0 .. WORD - 1
  <2>1. check_sum_ctr + 1 \in Nat BY <1>4
  <2> QED BY <1>3, <1>9, <2>1 DEF CountWord
<1>10. CASE ImemWord(rx)
  <2>1. offset \in Nat /\ (prg_byte_cntr + WORD) % AddrSpace \in Nat
    <3>1. address(start_addr) + prg_byte_cntr \in Nat BY <1>4, AddressInNat
    <3>2. prg_byte_cntr + WORD \in Nat BY <1>4, Constants
    <3> QED BY <1>3, <3>1, <3>2 DEF offset
  <2>2. current_state' \in PayloadStates BY <1>10 DEF ImemWord, PayloadStates
  <2> QED BY <1>4, <1>7, <1>9, <1>10, <2>1, <2>2 DEF ImemWord, MachineTypes
<1>11. CASE DramWord(rx)
  <2>1. offset \in Nat /\ (prg_byte_cntr + BLOCK_WORDS * WORD) % AddrSpace \in Nat
    <3>1. address(start_addr) + prg_byte_cntr \in Nat BY <1>4, AddressInNat
    <3>2. BLOCK_WORDS * WORD \in Nat BY Constants DEF BlockBytes
    <3>3. prg_byte_cntr + BLOCK_WORDS * WORD \in Nat BY <1>4, <3>2
    <3> QED BY <1>3, <3>1, <3>3 DEF offset
  <2>2. current_state' \in PayloadStates BY <1>11 DEF DramWord, PayloadStates
  <2>3. mem_addr' \in Nat /\ prg_byte_cntr' \in Nat BY <1>4, <1>11, <2>1, Zenon DEF DramWord
  <2> QED BY <1>4, <1>7, <1>9, <1>11, <2>2, <2>3 DEF DramWord, MachineTypes
<1>12. CASE DramWrite(mem_ready)
  BY <1>4, <1>12 DEF DramWrite, MachineTypes, PayloadStates
<1>13. CASE SumByte(rx)
  BY <1>4, <1>13 DEF SumByte, MachineTypes, PayloadStates
<1>14. CASE Reply(tx_valid)
  BY <1>3, <1>4, <1>14 DEF Reply, MachineTypes, HeaderStates
<1>15. CASE Finished
  BY <1>4, <1>15 DEF Finished, MachineTypes
<1>16. CASE BootWait(rx, tx_valid)
  BY <1>4, <1>16 DEF BootWait, MachineTypes
<1> QED BY <1>1, <1>5, <1>6, <1>8, <1>10, <1>11, <1>12, <1>13, <1>14, <1>15, <1>16 DEF BootClock

\* The write strobes belong to the states that raise them.
LEMMA StrobesStep ==
  ASSUME Strobes, Next
  PROVE  Strobes'
<1> USE DEF NoWrite, NoStrobe, Goto, Took, outcome, header, progress, buffers
<1>1. BootClock(rx, tx_valid, mem_ready) BY DEF Next
<1>2. /\ imem_we' \in BOOLEAN /\ dram_valid' \in BOOLEAN /\ sum_ok' \in BOOLEAN
  BY <1>1, Zenon DEF Strobes, BootClock, CheckSumByte, RecordLength, DestMemByte, StartAddrBytes,
     PayloadByte, ImemWord, DramWord, DramWrite, SumByte, Reply, Finished, BootWait
<1>3. imem_we' => current_state' = "PROGRAM_BYTES" \/ current_state' = "SUM_BYTE"
  BY <1>1 DEF BootClock, CheckSumByte, RecordLength, DestMemByte, StartAddrBytes,
     PayloadByte, ImemWord, DramWord, DramWrite, SumByte, Reply, Finished, BootWait
<1>4. dram_valid' => current_state' = "DRAM_WRITE"
  <2>1. dram_valid => current_state = "DRAM_WRITE" BY DEF Strobes, In
  <2> QED BY <1>1, <2>1 DEF BootClock, CheckSumByte, RecordLength, DestMemByte, StartAddrBytes,
     PayloadByte, ImemWord, DramWord, DramWrite, SumByte, Reply, Finished, BootWait, Receiving
<1> QED BY <1>2, <1>3, <1>4 DEF Strobes, In

-----------------------------------------------------------------------------
(* The machine keeps its place in the record.                               *)

\* A byte taken is the next one, and no other comes with the following clock.
LEMMA Takes ==
  ASSUME SlowLine, HostTypes, Replying, InPayload, Next, rx # None
  PROVE  /\ rx \in Byte /\ rx' = None /\ rec' = rec /\ rec \in 1 .. Len(Image) /\ pos' = pos
         /\ pos \in Nat \ {0} /\ due = pos - 1 /\ due' = due + 1 /\ due \in Nat \ {0}
         /\ record' = record /\ size' = size /\ size \in Nat
         /\ (pos <= size + 8 => gap' = BYTE_TIME - 2) /\ ~tx_valid
<1>1. rx \in Byte /\ rec \in 1 .. Len(Image) /\ pos \in Nat \ {0} /\ gap = BYTE_TIME - 1 /\ pos >= 2
  <2>1. /\ rec \in 1 .. Len(Image) + 1 /\ rec <= Len(Image) /\ rx \in Byte
        /\ pos \in Nat \ {0} /\ gap = BYTE_TIME - 1 /\ pos \in 2 .. size + 9
    BY DEF HostTypes
  <2>2. rec \in 1 .. Len(Image) BY <2>1, Constants
  <2>3. pos >= 2
    <3>1. size \in Nat BY <2>2, RecordFacts DEF size, record
    <3> QED BY <2>1, <3>1
  <2> QED BY <2>1, <2>2, <2>3
<1>2. ~tx_valid
  <2>1. ~In("REPLY") BY DEF InPayload
  <2> QED BY <2>1 DEF Replying, In
<1>3. gap > 0 /\ BYTE_TIME \in Nat BY <1>1, Constants DEF SlowLine
<1>4. Counts \/ Waits
  <2>1. ~Sends BY <1>3 DEF Sends
  <2> QED BY <1>2, <2>1, HostMoves DEF Turns
<1>5. rx' = None /\ rec' = rec /\ pos' = pos BY <1>4 DEF Counts, Waits
<1>6. due = pos - 1 /\ due' = pos BY <1>5 DEF due
<1>7. due' = due + 1 /\ due \in Nat \ {0} BY <1>1, <1>6
<1>8. record' = record /\ size' = size /\ size \in Nat BY <1>1, <1>5, RecordFacts DEF record, size
<1>9. pos <= size + 8 => gap' = BYTE_TIME - 2
  <2>1. SUFFICES ASSUME pos <= size + 8 PROVE gap' = BYTE_TIME - 2 OBVIOUS
  <2>2. sending BY <1>1, <2>1 DEF sending, payload, size, record
  <2>3. gap' = gap - 1 BY <1>4, <2>2 DEF Counts, Waits
  <2> QED BY <1>1, <1>3, <2>3
<1> QED BY <1>1, <1>2, <1>5, <1>6, <1>7, <1>8, <1>9

\* Without a byte the place stays, unless a reply has just come in.
LEMMA Listens ==
  ASSUME HostTypes, Next, rx = None, ~tx_valid
  PROVE  /\ rec' = rec /\ due = pos /\ due' = due /\ due \in Nat \ {0} /\ size' = size /\ record' = record
         /\ Sends \/ Counts \/ Waits
<1>1. Sends \/ Counts \/ Waits BY HostMoves DEF Turns
<1>2. rec' = rec BY <1>1 DEF Sends, Counts, Waits
<1>3. pos \in Nat \ {0} /\ None \notin Byte BY Constants DEF HostTypes
<1>4. due = pos BY DEF due
<1>5. due' = pos
  <2>1. due' = IF rx' # None THEN pos' - 1 ELSE pos' BY DEF due
  <2>2. CASE Sends
    <3>1. pos' = pos + 1 /\ rx' # None BY <1>3, <2>2 DEF Sends
    <3> QED BY <1>3, <2>1, <3>1
  <2>3. CASE Counts \/ Waits BY <2>1, <2>3 DEF Counts, Waits
  <2> QED BY <1>1, <2>2, <2>3
<1> QED BY <1>1, <1>2, <1>3, <1>4, <1>5 DEF size, record

\* The byte on its way is the host's.
LEMMA HeaderWireStep ==
  ASSUME HostTypes, Next
  PROVE  HeaderWire'
<1> SUFFICES ASSUME rx' # None, due' <= 7 PROVE rx' = headerOf(record')[due'] BY DEF HeaderWire
<1>1. Send
  <2>1. Host BY DEF Next
  <2> QED BY <2>1 DEF Host, Count, Listen
<1>2. rec' = rec /\ pos' = pos + 1 /\ pos \in Nat \ {0} BY <1>1 DEF Send, HostTypes
<1>3. due' = pos
  <2>1. due' = pos' - 1 BY DEF due
  <2> QED BY <1>2, <2>1
<1>4. pos <= 7 BY <1>3
<1>5. rx' = outgoing BY <1>1, <1>2, <1>4 DEF Send, Arrives
<1> QED BY <1>2, <1>3, <1>4, <1>5 DEF outgoing, record

\* The places of the header.
LEMMA HeaderAt ==
  ASSUME NEW r
  PROVE  /\ headerOf(r)[1] = r.words /\ headerOf(r)[2] = Len(Image) /\ headerOf(r)[3] = r.dest
         /\ \A i \in 0 .. 3 : headerOf(r)[4 + i] = r.addr[i]
<1>1. \A i \in 0 .. 3 : i = 0 \/ i = 1 \/ i = 2 \/ i = 3 OBVIOUS
<1> QED BY <1>1 DEF headerOf

\* A byte of the header.
LEMMA HeaderStep ==
  ASSUME SlowLine, HostTypes, MachineTypes, Replying, InHeader, InPayload, Records, Header, HeaderWire,
         Next, rx # None, current_state \in HeaderStates
  PROVE  InHeader' /\ InPayload' /\ Records' /\ Pace' /\ Header'
<1> USE DEF In, Took, Goto, header, outcome, NewRecord, progress
<1>1. /\ rx \in Byte /\ rx' = None /\ rec' = rec /\ rec \in 1 .. Len(Image)
      /\ due' = due + 1 /\ due \in Nat \ {0} /\ record' = record /\ size' = size /\ size \in Nat
  BY Takes
<1>2. hdr_ctr \in 0 .. 3 BY DEF MachineTypes
<1>3. \/ CheckSumByte(rx) \/ RecordLength(rx) \/ DestMemByte(rx) \/ StartAddrBytes(rx)
  <2>1. BootClock(rx, tx_valid, mem_ready) BY DEF Next
  <2> QED BY <2>1 DEF HeaderStates, BootClock, PayloadByte, ImemWord, DramWord, DramWrite, SumByte, Reply,
                      Finished, BootWait
<1>4. rec \in Nat /\ Len(Image) \in Nat /\ rec <= Len(Image) BY <1>1, Constants
<1>5. /\ due <= 7 => rx = headerOf(record)[due]
      /\ due > 1 => check_sum = record.words
      /\ due > 2 => record_len = Len(Image)
      /\ due > 3 => dest_mem = record.dest
      /\ \A i \in 0 .. 3 : due > 4 + i => start_addr[i] = record.addr[i]
  BY <1>4 DEF HeaderWire, Header
<1>6. record_ctr = rec - 1 /\ check_sum_ctr \in Nat
  BY DEF Records, HeaderStates, MachineTypes
<1>7. CASE CheckSumByte(rx) \/ RecordLength(rx) \/ DestMemByte(rx)
  <2>1. due \in 1 .. 3 /\ hdr_ctr = 0 BY <1>7 DEF InHeader, CheckSumByte, RecordLength, DestMemByte
  <2>2. /\ check_sum_ctr' = 0 /\ pyld_cntr' = 0 /\ prg_byte_cntr' = 0 /\ sum_acc' = 0
        /\ record_ctr' = record_ctr /\ hdr_ctr' = 0
    BY <1>7, <2>1 DEF CheckSumByte, RecordLength, DestMemByte, Records, HeaderStates
  <2>3. current_state' = IF due = 1 THEN "RECORD_LENGTH" ELSE IF due = 2 THEN "DEST_MEM_BYTE"
                         ELSE "START_ADDR_BYTES"
    BY <1>7 DEF InHeader, CheckSumByte, RecordLength, DestMemByte
  <2>4. InHeader' BY <1>1, <2>1, <2>2, <2>3 DEF InHeader
  <2>5. InPayload' /\ Pace' BY <2>3 DEF InPayload, Pace, PayloadStates
  <2>6. Records' BY <1>1, <1>4, <1>6, <2>2, <2>3 DEF Records
  <2>7. /\ due' > 1 => check_sum' = record.words
        /\ due' > 2 => record_len' = Len(Image)
        /\ due' > 3 => dest_mem' = record.dest
    <3>1. CASE CheckSumByte(rx)
      <4>1. due = 1 /\ check_sum' = rx BY <3>1 DEF InHeader, CheckSumByte
      <4> QED BY <1>1, <1>5, <4>1, HeaderAt
    <3>2. CASE RecordLength(rx)
      <4>1. due = 2 /\ record_len' = rx /\ check_sum' = check_sum BY <3>2 DEF InHeader, RecordLength
      <4> QED BY <1>1, <1>5, <4>1, HeaderAt
    <3>3. CASE DestMemByte(rx)
      <4>1. due = 3 /\ dest_mem' = rx /\ check_sum' = check_sum /\ record_len' = record_len
        BY <3>3 DEF InHeader, DestMemByte
      <4> QED BY <1>1, <1>5, <4>1, HeaderAt
    <3> QED BY <1>7, <3>1, <3>2, <3>3
  <2>8. \A i \in 0 .. 3 : ~(due' > 4 + i) BY <1>1, <2>1
  <2> QED BY <1>1, <2>4, <2>5, <2>6, <2>7, <2>8 DEF Header
<1>8. CASE StartAddrBytes(rx)
  <2>1. due = 4 + hdr_ctr /\ current_state = "START_ADDR_BYTES" BY <1>8 DEF InHeader, StartAddrBytes
  <2>2. /\ UNCHANGED <<check_sum, record_len, dest_mem, check_sum_ctr, pyld_cntr, prg_byte_cntr,
                       sum_acc, record_ctr>>
        /\ start_addr' = [start_addr EXCEPT ![hdr_ctr] = rx]
        /\ \/ hdr_ctr = 3 /\ hdr_ctr' = 0 /\ current_state' = "PROGRAM_BYTES"
           \/ hdr_ctr # 3 /\ hdr_ctr' = hdr_ctr + 1 /\ current_state' = "START_ADDR_BYTES"
    BY <1>8 DEF StartAddrBytes
  <2>3. check_sum_ctr = 0 /\ pyld_cntr = 0 /\ prg_byte_cntr = 0 /\ sum_acc = 0
    BY <2>1 DEF Records, HeaderStates
  <2>4. InHeader'
    <3>1. CASE hdr_ctr = 3 BY <2>2, <3>1 DEF InHeader
    <3>2. CASE hdr_ctr # 3
      <4>1. due' = 4 + hdr_ctr' BY <1>1, <1>2, <2>1, <2>2, <3>2
      <4> QED BY <2>2, <3>2, <4>1 DEF InHeader
    <3> QED BY <3>1, <3>2
  <2>5. InPayload'
    <3>1. CASE hdr_ctr = 3
      <4>1. received' = 0
        <5>1. count(0, 0) = 0
          <6>1. 0 \in 0 .. WORD - 1 BY Constants
          <6> QED BY <1>1, <6>1, CountWords, Zenon
        <5> QED BY <2>2, <2>3, <5>1 DEF received
      <4>2. size > 0
        <5>1. count(0, 0) < size <=> 0 < record.words
          <6>1. 0 \in 0 .. WORD - 1 BY Constants
          <6> QED BY <1>1, <6>1, CountWords DEF size, record
        <5>2. 0 < record.words BY <1>1, RecordFacts DEF record
        <5>3. count(0, 0) = 0
          <6>1. 0 \in 0 .. WORD - 1 BY Constants
          <6> QED BY <1>1, <6>1, CountWords
        <5> QED BY <5>1, <5>2, <5>3
      <4>3. due' = 8 + 0 BY <1>1, <2>1, <3>1
      <4>4. current_state' = "PROGRAM_BYTES" BY <2>2, <3>1
      <4> QED BY <1>1, <1>4, <4>1, <4>2, <4>3, <4>4 DEF InPayload
    <3>2. CASE hdr_ctr # 3 BY <2>2, <3>2 DEF InPayload, PayloadStates
    <3> QED BY <3>1, <3>2
  <2>6. Pace' BY <2>2 DEF Pace
  <2>7. Records' BY <1>1, <1>4, <1>6, <2>2, <2>3 DEF Records
  <2>8. ASSUME NEW i \in 0 .. 3, due' > 4 + i PROVE start_addr'[i] = record.addr[i]
    <3>1. start_addr \in [0 .. 3 -> Byte] BY DEF MachineTypes
    <3>2. CASE i = hdr_ctr
      <4>1. rx = record.addr[i] BY <1>2, <1>5, <2>1, <3>2, HeaderAt
      <4> QED BY <1>2, <2>2, <3>1, <3>2, <4>1
    <3>3. CASE i # hdr_ctr
      <4>1. due > 4 + i BY <1>1, <1>2, <2>1, <2>8, <3>3
      <4> QED BY <1>2, <1>5, <2>2, <3>1, <3>3, <4>1
    <3> QED BY <3>2, <3>3
  <2>9. due > 3 /\ due > 2 /\ due > 1 BY <1>2, <2>1
  <2> QED BY <1>1, <1>5, <2>2, <2>4, <2>5, <2>6, <2>7, <2>8, <2>9 DEF Header
<1> QED BY <1>3, <1>7, <1>8

\* What the count of the words says about the bytes.
LEMMA Counted ==
  ASSUME MachineTypes, rec \in 1 .. Len(Image)
  PROVE  /\ received \in Nat /\ size \in Nat
         /\ received < size <=> check_sum_ctr < record.words
         /\ received = size <=> check_sum_ctr = record.words /\ pyld_cntr = 0
         /\ record.words \in 1 .. BYTES - 1
<1>1. check_sum_ctr \in Nat /\ pyld_cntr \in 0 .. WORD - 1 BY DEF MachineTypes
<1>2. /\ received \in Nat
      /\ received < size <=> check_sum_ctr < record.words
      /\ received = size <=> check_sum_ctr = record.words /\ pyld_cntr = 0
  <2>1. rec \in 1 .. Len(Image) OBVIOUS
  <2>2. count(check_sum_ctr, pyld_cntr) \in Nat BY <1>1, <2>1, CountWords
  <2>3. count(check_sum_ctr, pyld_cntr) < Len(Image[rec].payload) => check_sum_ctr < Image[rec].words
    BY <1>1, <2>1, CountWords, Zenon
  <2>4. check_sum_ctr < Image[rec].words => count(check_sum_ctr, pyld_cntr) < Len(Image[rec].payload)
    BY <1>1, <2>1, CountWords, Zenon
  <2>5. count(check_sum_ctr, pyld_cntr) = Len(Image[rec].payload) =>
          check_sum_ctr = Image[rec].words /\ pyld_cntr = 0
    BY <1>1, <2>1, CountWords
  <2>6. check_sum_ctr = Image[rec].words /\ pyld_cntr = 0 =>
          count(check_sum_ctr, pyld_cntr) = Len(Image[rec].payload)
    BY <1>1, <2>1, CountWords, Zenon
  <2> QED BY <2>2, <2>3, <2>4, <2>5, <2>6, Zenon DEF received, size, record
<1>3. size \in Nat /\ record.words \in 1 .. BYTES - 1 BY RecordFacts DEF size, record
<1> QED BY <1>2, <1>3

\* A byte inside a word.
LEMMA TakeByte ==
  ASSUME MachineTypes, rec \in 1 .. Len(Image), received < size, PayloadByte(rx)
  PROVE  /\ received' = received + 1 /\ received' < size
         /\ check_sum_ctr' = check_sum_ctr /\ pyld_cntr' = pyld_cntr + 1
<1>1. /\ pyld_cntr # WORD - 1 /\ check_sum_ctr' = check_sum_ctr /\ pyld_cntr' = pyld_cntr + 1
      /\ check_sum_ctr \in Nat /\ pyld_cntr \in 0 .. WORD - 1
  BY DEF PayloadByte, wordOver, MachineTypes
<1>2. pyld_cntr + 1 \in 0 .. WORD - 1 BY <1>1, CountWords
<1>3. received' = count(check_sum_ctr, pyld_cntr + 1) BY <1>1 DEF received
<1>4. received' = received + 1 BY <1>1, <1>3, CountWords DEF received
<1>5. check_sum_ctr < record.words BY Counted
<1>6. received' < size BY <1>1, <1>2, <1>3, <1>5, CountWords DEF size, record
<1> QED BY <1>1, <1>4, <1>6

\* A byte that completes a word: the machine's last word is the record's.
LEMMA TakeWord ==
  ASSUME MachineTypes, rec \in 1 .. Len(Image), received < size, wordOver, CountWord,
         check_sum = record.words
  PROVE  /\ received' = received + 1 /\ received' <= size
         /\ check_sum_ctr' = check_sum_ctr + 1 /\ pyld_cntr' = 0
         /\ lastWord <=> received' = size
<1>1. pyld_cntr = WORD - 1 /\ check_sum_ctr \in Nat /\ pyld_cntr \in 0 .. WORD - 1
  BY DEF wordOver, MachineTypes
<1>2. check_sum_ctr < record.words /\ record.words \in Nat BY Counted
<1>3. check_sum_ctr' = check_sum_ctr + 1 /\ pyld_cntr' = 0
  <2>1. (check_sum_ctr + 1) % BYTES = check_sum_ctr + 1 BY <1>1, <1>2, CountWords DEF record
  <2> QED BY <2>1 DEF CountWord
<1>4. received' = count(check_sum_ctr + 1, 0) BY <1>3 DEF received
<1>5. received' = received + 1
  <2>1. count(check_sum_ctr + 1, 0) = count(check_sum_ctr, pyld_cntr) + 1 BY <1>1, CountWords
  <2> QED BY <1>4, <2>1 DEF received
<1>6. received' = size <=> check_sum_ctr + 1 = record.words
  <2>1. check_sum_ctr + 1 \in Nat /\ 0 \in 0 .. WORD - 1 BY <1>1, Constants
  <2> QED BY <1>4, <2>1, CountWords DEF size, record
<1>7. received \in Nat /\ size \in Nat BY Counted
<1>8. received' <= size BY <1>5, <1>7
<1> QED BY <1>3, <1>5, <1>6, <1>8 DEF lastWord

\* A byte of the payload.
LEMMA PayloadStep ==
  ASSUME SlowLine, HostTypes, MachineTypes, Strobes, Replying, InHeader, InPayload, Records, Header,
         Next, rx # None, In("PROGRAM_BYTES")
  PROVE  InHeader' /\ InPayload' /\ Records' /\ Pace' /\ Header'
<1> USE DEF In
<1>1. /\ rx' = None /\ rec' = rec /\ rec \in 1 .. Len(Image) /\ pos \in Nat \ {0} /\ due = pos - 1
      /\ due' = due + 1 /\ due \in Nat \ {0} /\ record' = record /\ size' = size /\ size \in Nat
      /\ (pos <= size + 8 => gap' = BYTE_TIME - 2)
  BY Takes
<1>2. received \in Nat /\ received < size /\ due = 8 + received
  BY <1>1, Counted DEF InPayload, PayloadStates
<1>3. rec \in Nat /\ Len(Image) \in Nat /\ rec <= Len(Image) BY <1>1, Constants
<1>4. /\ check_sum = record.words /\ record_len = Len(Image) /\ dest_mem = record.dest
      /\ \A i \in 0 .. 3 : start_addr[i] = record.addr[i]
  <2>1. due > 1 /\ due > 2 /\ due > 3 /\ \A i \in 0 .. 3 : due > 4 + i BY <1>2
  <2> QED BY <1>3, <2>1 DEF Header
<1>5. /\ PayloadByte(rx) \/ ImemWord(rx) \/ DramWord(rx)
      /\ UNCHANGED <<check_sum, record_len, dest_mem, start_addr, hdr_ctr, record_ctr, dram_valid>>
  <2>1. BootClock(rx, tx_valid, mem_ready) BY DEF Next
  <2>2. PayloadByte(rx) \/ ImemWord(rx) \/ DramWord(rx)
    BY <2>1 DEF BootClock, CheckSumByte, RecordLength, DestMemByte, StartAddrBytes, DramWrite, SumByte,
                Reply, Finished, BootWait, Took
  <2> QED BY <2>2 DEF PayloadByte, ImemWord, DramWord, header, outcome
<1>6. /\ received' = received + 1
      /\ \/ current_state' = "PROGRAM_BYTES" /\ received' < size
         \/ current_state' = "SUM_BYTE" /\ received' = size /\ pyld_cntr' = 0
         \/ current_state' = "DRAM_WRITE" /\ received' <= size /\ pyld_cntr' = 0
  <2>1. CASE PayloadByte(rx) BY <1>1, <1>2, <2>1, TakeByte DEF PayloadByte
  <2>2. CASE ImemWord(rx) \/ DramWord(rx)
    <3>1. /\ received' = received + 1 /\ received' <= size /\ pyld_cntr' = 0
          /\ lastWord <=> received' = size
      BY <1>1, <1>2, <1>4, <2>2, TakeWord DEF ImemWord, DramWord
    <3>2. received' # size => received' < size BY <1>1, <1>2, <3>1
    <3>3. \/ current_state' = IF lastWord THEN "SUM_BYTE" ELSE "PROGRAM_BYTES"
          \/ current_state' = "DRAM_WRITE"
      BY <2>2 DEF ImemWord, DramWord, Goto
    <3> QED BY <3>1, <3>2, <3>3
  <2> QED BY <1>5, <2>1, <2>2
<1>7. InHeader' BY <1>5, <1>6 DEF InHeader
<1>8. InPayload'
  <2>1. due' = 8 + received' BY <1>1, <1>2, <1>6
  <2>2. rec' <= Len(Image) /\ received' <= size' BY <1>1, <1>2, <1>3, <1>6
  <2> QED BY <1>1, <1>6, <2>1, <2>2 DEF InPayload
<1>9. Records'
  <2>1. record_ctr' = rec' - 1 /\ hdr_ctr' = 0 BY <1>1, <1>5 DEF Records, InHeader
  <2>2. ~(rec' > Len(Image)) BY <1>1, <1>3
  <2> QED BY <1>6, <2>1, <2>2 DEF Records, HeaderStates
<1>10. Pace'
  <2>1. pos <= size + 8 BY <1>1, <1>2
  <2>2. gap' >= LOW + 2 BY <1>1, <2>1, Constants DEF SlowLine
  <2>3. ~dram_valid' BY <1>5 DEF Strobes
  <2> QED BY <2>2, <2>3 DEF Pace
<1>11. Header' BY <1>1, <1>4, <1>5 DEF Header
<1> QED BY <1>7, <1>8, <1>9, <1>10, <1>11

\* The sum.
LEMMA SumStep ==
  ASSUME SlowLine, HostTypes, MachineTypes, Replying, InHeader, InPayload, Records, Header,
         Next, rx # None, In("SUM_BYTE")
  PROVE  /\ SumByte(rx) /\ InHeader' /\ InPayload' /\ Records' /\ Pace' /\ Header'
<1> USE DEF In
<1>1. /\ rx' = None /\ rec' = rec /\ rec \in 1 .. Len(Image)
      /\ due' = due + 1 /\ due \in Nat \ {0} /\ record' = record /\ size' = size /\ size \in Nat
  BY Takes
<1>2. received \in Nat /\ received = size /\ due = 8 + received /\ pyld_cntr = 0
  BY <1>1, Counted DEF InPayload, PayloadStates
<1>3. rec \in Nat /\ Len(Image) \in Nat /\ rec <= Len(Image) BY <1>1, Constants
<1>4. SumByte(rx)
  <2>1. BootClock(rx, tx_valid, mem_ready) BY DEF Next
  <2> QED BY <2>1 DEF BootClock, CheckSumByte, RecordLength, DestMemByte, StartAddrBytes, PayloadByte,
                ImemWord, DramWord, DramWrite, Reply, Finished, BootWait, Took
<1>5. /\ UNCHANGED <<check_sum, record_len, dest_mem, start_addr, hdr_ctr, record_ctr, check_sum_ctr,
                     pyld_cntr>>
      /\ current_state' = "REPLY"
  BY <1>4 DEF SumByte, header, progress, Goto
<1>6. received' = received BY <1>5 DEF received
<1>7. InHeader' BY <1>5 DEF InHeader
<1>8. InPayload'
  <2>1. due' = 9 + received' BY <1>1, <1>2, <1>6
  <2>2. rec' <= Len(Image) /\ received' = size' BY <1>1, <1>2, <1>3, <1>6
  <2>3. received' <= size' BY <1>1, <2>2
  <2> QED BY <1>1, <1>2, <1>5, <2>1, <2>2, <2>3 DEF InPayload
<1>9. Records'
  <2>1. record_ctr' = rec' - 1 /\ hdr_ctr' = 0 BY <1>1, <1>5 DEF Records, InHeader
  <2>2. ~(rec' > Len(Image)) BY <1>1, <1>3
  <2> QED BY <1>5, <2>1, <2>2 DEF Records, HeaderStates
<1>10. Pace' BY <1>5 DEF Pace
<1>11. Header'
  <2>1. due > 1 /\ due > 2 /\ due > 3 /\ \A i \in 0 .. 3 : due > 4 + i BY <1>2
  <2> QED BY <1>1, <1>3, <1>5, <2>1 DEF Header
<1> QED BY <1>4, <1>7, <1>8, <1>9, <1>10, <1>11

\* A clock without a byte, except the end of a reply.
LEMMA QuietStep ==
  ASSUME SlowLine, low \in Nat, PoweringUp, HostTypes, MachineTypes, Strobes, Replying, InHeader, InPayload,
         Records, Pace, Header, Next, rx = None, ~tx_valid
  PROVE  /\ InHeader' /\ InPayload' /\ Records' /\ Pace' /\ Header'
         /\ DramWrite(mem_ready) \/ Finished \/ BootWait(rx, tx_valid)
<1> USE DEF In
<1>1. /\ rec' = rec /\ due = pos /\ due' = due /\ due \in Nat \ {0} /\ size' = size /\ record' = record
      /\ Sends \/ Counts \/ Waits
  BY Listens
<1>2. DramWrite(mem_ready) \/ Finished \/ BootWait(rx, tx_valid)
  <2>1. BootClock(rx, tx_valid, mem_ready) BY DEF Next
  <2> QED BY <2>1 DEF BootClock, CheckSumByte, RecordLength, DestMemByte, StartAddrBytes, PayloadByte,
                ImemWord, DramWord, SumByte, Reply, Took
<1>3. /\ UNCHANGED <<check_sum, record_len, dest_mem, start_addr, hdr_ctr, record_ctr, check_sum_ctr,
                     pyld_cntr, prg_byte_cntr, sum_acc>>
      /\ current_state' # current_state => current_state = "DRAM_WRITE" /\ mem_ready /\ dram_valid
           /\ current_state' = IF check_sum_ctr = check_sum THEN "SUM_BYTE" ELSE "PROGRAM_BYTES"
  BY <1>2 DEF DramWrite, Finished, BootWait, header, progress, outcome
<1>4. received' = received BY <1>3 DEF received
<1>5. Header' BY <1>1, <1>3 DEF Header
<1>6. InHeader' BY <1>1, <1>3 DEF InHeader
<1>7. Records' BY <1>1, <1>3 DEF Records, HeaderStates
<1>8. rec \in Nat /\ Len(Image) \in Nat BY Constants DEF HostTypes
<1>9. gap \in 0 .. BYTE_TIME /\ BYTE_TIME \in Nat /\ LOW \in Nat BY Constants DEF HostTypes
<1>10. CASE current_state = "DRAM_WRITE"
  <2>1. rec \in 1 .. Len(Image) /\ received <= size /\ due = 8 + received /\ pyld_cntr = 0
    <3>1. rec <= Len(Image) /\ received <= size /\ due = 8 + received /\ pyld_cntr = 0
      BY <1>10 DEF InPayload, PayloadStates
    <3> QED BY <1>8, <3>1 DEF HostTypes
  <2>2. received \in Nat /\ size \in Nat BY <2>1, Counted
  <2>3. DramWrite(mem_ready) BY <1>2, <1>10 DEF Finished, BootWait, Receiving
  <2>4. \/ dram_valid /\ mem_ready /\ dram_valid' = FALSE
             /\ current_state' = IF check_sum_ctr = check_sum THEN "SUM_BYTE" ELSE "PROGRAM_BYTES"
        \/ ~(dram_valid /\ mem_ready) /\ dram_valid' = TRUE /\ current_state' = "DRAM_WRITE"
    BY <2>3 DEF DramWrite
  <2>5. CASE dram_valid /\ mem_ready /\ dram_valid' = FALSE
             /\ current_state' = IF check_sum_ctr = check_sum THEN "SUM_BYTE" ELSE "PROGRAM_BYTES"
    <3>1. check_sum = record.words
      <4>1. due > 1 /\ rec <= Len(Image) BY <1>8, <2>1, <2>2
      <4> QED BY <4>1 DEF Header
    <3>2. received = size <=> check_sum_ctr = record.words BY <2>1, Counted
    <3>3. check_sum_ctr # check_sum => received < size BY <2>1, <2>2, <3>1, <3>2
    <3>4. InPayload'
      <4>1. rec' <= Len(Image) /\ received' <= size' /\ due' = 8 + received' BY <1>1, <1>4, <1>8, <2>1
      <4>2. CASE check_sum_ctr = check_sum
        <5>1. received' = size' /\ current_state' = "SUM_BYTE" /\ pyld_cntr' = 0
          BY <1>1, <1>3, <1>4, <2>1, <2>5, <3>1, <3>2, <4>2
        <5> QED BY <4>1, <5>1 DEF InPayload
      <4>3. CASE check_sum_ctr # check_sum
        <5>1. received' < size' /\ current_state' = "PROGRAM_BYTES" BY <1>1, <1>4, <2>5, <3>3, <4>3
        <5> QED BY <4>1, <5>1 DEF InPayload
      <4> QED BY <4>2, <4>3
    <3>5. Pace' BY <2>5 DEF Pace
    <3> QED BY <1>2, <1>5, <1>6, <1>7, <3>4, <3>5
  <2>6. CASE ~(dram_valid /\ mem_ready) /\ dram_valid' = TRUE /\ current_state' = "DRAM_WRITE"
    <3>1. /\ ~dram_valid => gap >= LOW + 2
          /\ dram_valid => gap >= low + 1
      BY <1>10, <2>6 DEF Pace
    <3>2. gap > 0
      <4>1. CASE dram_valid BY <1>9, <3>1, <4>1
      <4>2. CASE ~dram_valid BY <1>9, <3>1, <4>2
      <4> QED BY <4>1, <4>2
    <3>3. rx' = None /\ gap' >= gap - 1 /\ gap' \in Nat
      <4>1. Counts \/ Waits BY <1>1, <3>2 DEF Sends
      <4> QED BY <1>9, <3>2, <4>1 DEF Counts, Waits
    <3>4. low <= LOW BY <1>9, <1>10 DEF PoweringUp, HeaderStates
    <3>5. low' \in Nat /\ low' <= LOW
      <4>1. low' \in Nat /\ (low' > LOW => low' = low - 1) BY LowFalls
      <4> QED BY <1>9, <3>4, <4>1
    <3>6. ~mem_ready' => gap' >= low' + 1
      <4>1. CASE dram_valid
        <5>1. ~mem_ready BY <2>6, <4>1
        <5>2. /\ low = 0 => mem_ready'
              /\ low # 0 => low' = low - 1
          BY <5>1, Zenon DEF Next, Sdram
        <5> QED BY <1>9, <3>1, <3>3, <4>1, <5>2
      <4>2. CASE ~dram_valid
        <5>1. gap' >= LOW + 1 BY <1>9, <3>1, <3>3, <4>2
        <5>2. gap' >= low' + 1
          <6>1. LOW \in Nat /\ gap' \in Nat /\ low' \in Nat /\ low' <= LOW BY <1>9, <3>3, <3>5
          <6>2. \A a, b, c \in Nat : b <= a /\ c >= a + 1 => c >= b + 1 OBVIOUS
          <6> QED BY <5>1, <6>1, <6>2, Zenon
        <5> QED BY <5>2
      <4> QED BY <4>1, <4>2
    <3>7. Pace' BY <2>6, <3>6 DEF Pace
    <3>8. InPayload'
      <4>1. rec' <= Len(Image) /\ received' <= size' /\ due' = 8 + received' /\ pyld_cntr' = 0
        BY <1>1, <1>3, <1>4, <1>8, <2>1
      <4> QED BY <2>6, <3>3, <4>1 DEF InPayload
    <3> QED BY <1>2, <1>5, <1>6, <1>7, <3>7, <3>8
  <2> QED BY <2>4, <2>5, <2>6
<1>11. CASE current_state # "DRAM_WRITE"
  <2>1. current_state' = current_state BY <1>3, <1>11
  <2>2. Pace' BY <1>11, <2>1 DEF Pace
  <2>3. current_state = "REPLY" => rx' = None
    <3>1. SUFFICES ASSUME current_state = "REPLY" PROVE rx' = None OBVIOUS
    <3>2. rec <= Len(Image) /\ due = 9 + received /\ received = size BY <3>1 DEF InPayload, PayloadStates
    <3>3. rec \in 1 .. Len(Image) BY <1>8, <3>2 DEF HostTypes
    <3>4. size \in Nat BY <3>3, Counted
    <3>5. ~sending BY <1>1, <3>2, <3>4 DEF sending, size, record, payload
    <3> QED BY <1>1, <3>5 DEF Sends, Waits, Counts
  <2>4. InPayload'
    <3>1. current_state \in PayloadStates =>
            /\ rec' <= Len(Image) /\ received' <= size'
            /\ due' = IF current_state' = "REPLY" THEN 9 + received' ELSE 8 + received'
      BY <1>1, <1>4, <2>1 DEF InPayload
    <3> QED BY <1>1, <1>3, <1>4, <1>11, <2>1, <2>3, <3>1 DEF InPayload
  <2> QED BY <1>2, <1>5, <1>6, <1>7, <2>2, <2>4
<1> QED BY <1>10, <1>11

\* What the reply says.
LEMMA RepliesStep ==
  ASSUME Replying, Replies, Next
  PROVE  Replies'
<1> USE DEF In, Took, Goto, NoWrite, NoStrobe, outcome
<1>1. BootClock(rx, tx_valid, mem_ready) BY DEF Next
<1>2. tx_byte' = IF tx_start # None THEN tx_start ELSE tx_byte BY DEF Next, Tx
<1>3. CASE SumByte(rx)
  <2>1. tx_start' = IF sum_ok' THEN ACK ELSE NAK BY <1>3 DEF SumByte
  <2>2. tx_start' # None BY <2>1, Constants
  <2> QED BY <2>1, <2>2 DEF Replies
<1>4. CASE current_state = "REPLY" /\ BootWait(rx, tx_valid)
  <2>1. tx_start' = None /\ sum_ok' = sum_ok BY <1>4 DEF BootWait
  <2>2. tx_byte' = IF sum_ok THEN ACK ELSE NAK BY <1>2, <1>4 DEF Replies
  <2> QED BY <2>1, <2>2 DEF Replies
<1>5. CASE ~SumByte(rx) /\ ~(current_state = "REPLY" /\ BootWait(rx, tx_valid))
  <2>1. current_state' # "REPLY"
    BY <1>1, <1>5 DEF BootClock, CheckSumByte, RecordLength, DestMemByte, StartAddrBytes, PayloadByte,
       ImemWord, DramWord, DramWrite, Reply, Finished, BootWait, Receiving
  <2> QED BY <2>1 DEF Replies
<1> QED BY <1>3, <1>4, <1>5

\* The reply comes in, and machine and host turn to the same record.
LEMMA ReplyStep ==
  ASSUME HostTypes, MachineTypes, Replying, Replies, InHeader, InPayload, Records, Header, Next, tx_valid
  PROVE  /\ InHeader' /\ InPayload' /\ Records' /\ Pace' /\ Header'
         /\ Reply(tx_valid) /\ rx = None /\ rx' = None /\ rec \in 1 .. Len(Image)
         /\ rec' = (IF sum_ok THEN rec + 1 ELSE rec) /\ pos' = 1
         /\ current_state' = IF sum_ok /\ rec = Len(Image) THEN "FINISHED" ELSE "CHECK_SUM_BYTE"
<1> USE DEF In
<1>1. current_state = "REPLY" /\ tx_start = None /\ tx_left = 0 BY DEF Replying
<1>2. Reply(tx_valid)
  <2>1. BootClock(rx, tx_valid, mem_ready) BY DEF Next
  <2> QED BY <1>1, <2>1 DEF BootClock, CheckSumByte, RecordLength, DestMemByte, StartAddrBytes, PayloadByte,
                ImemWord, DramWord, DramWrite, SumByte, Finished, BootWait, Took, Receiving
<1>3. Len(Image) \in 1 .. BYTES - 1 /\ BYTES \in Nat BY Constants
<1>4. rx = None /\ rec <= Len(Image) /\ due = 9 + received /\ received = size
  BY <1>1 DEF InPayload, PayloadStates
<1>5. rec \in 1 .. Len(Image) BY <1>3, <1>4 DEF HostTypes
<1>6. size \in Nat /\ received \in Nat BY <1>5, Counted
<1>7. Turns
  <2>1. pos = due BY <1>4 DEF due
  <2>2. ~sending BY <1>4, <1>6, <2>1 DEF sending, size, record, payload
  <2> QED BY <1>4, <2>2, HostMoves DEF Sends, Counts, Waits
<1>8. rec' = (IF sum_ok THEN rec + 1 ELSE rec) /\ pos' = 1 /\ rx' = None
  <2>1. tx_byte = ACK <=> sum_ok BY <1>1, Constants DEF Replies
  <2> QED BY <1>7, <2>1 DEF Turns
<1>9. record_ctr = rec - 1 /\ record_len = Len(Image) /\ hdr_ctr = 0
  <2>1. due > 2 BY <1>4, <1>6
  <2> QED BY <1>1, <1>4, <2>1 DEF Records, Header, InHeader
<1>10. lastRecord <=> rec = Len(Image)
  <2>1. record_ctr + 1 = rec BY <1>5, <1>9
  <2> QED BY <1>9, <2>1 DEF lastRecord
<1>11. current_state' = IF sum_ok /\ rec = Len(Image) THEN "FINISHED" ELSE "CHECK_SUM_BYTE"
  BY <1>2, <1>10 DEF Reply, Goto
<1>12. /\ check_sum_ctr' = 0 /\ pyld_cntr' = 0 /\ prg_byte_cntr' = 0 /\ sum_acc' = 0
       /\ hdr_ctr' = 0 /\ UNCHANGED header
  BY <1>2, <1>9 DEF Reply, NewRecord, NoWrite, header
<1>13. due' = 1 BY <1>8 DEF due
<1>14. InHeader' BY <1>11, <1>12, <1>13 DEF InHeader
<1>15. InPayload' /\ Pace' BY <1>11 DEF InPayload, Pace, PayloadStates
<1>16. Header' BY <1>13 DEF Header
<1>17. Records'
  <2>1. CASE sum_ok /\ rec = Len(Image)
    <3>1. rec' > Len(Image) /\ current_state' = "FINISHED" BY <1>3, <1>8, <1>11, <2>1
    <3> QED BY <3>1 DEF Records, HeaderStates
  <2>2. CASE sum_ok /\ rec # Len(Image)
    <3>1. record_ctr' = (record_ctr + 1) % BYTES BY <1>2, <1>10, <2>2 DEF Reply
    <3>2. record_ctr + 1 \in 0 .. BYTES - 1 /\ record_ctr + 1 = rec BY <1>3, <1>5, <1>9
    <3>3. \A n \in 0 .. BYTES - 1 : n % BYTES = n BY <1>3
    <3>4. record_ctr' = rec BY <3>1, <3>2, <3>3
    <3>5. record_ctr' = rec' - 1 /\ ~(rec' > Len(Image)) BY <1>3, <1>5, <1>8, <2>2, <3>4
    <3> QED BY <1>11, <1>12, <2>2, <3>5 DEF Records
  <2>3. CASE ~sum_ok
    <3>1. record_ctr' = record_ctr BY <1>2, <2>3 DEF Reply
    <3>2. record_ctr' = rec' - 1 /\ ~(rec' > Len(Image)) BY <1>3, <1>5, <1>8, <1>9, <2>3, <3>1
    <3> QED BY <1>11, <1>12, <2>3, <3>2 DEF Records
  <2> QED BY <2>1, <2>2, <2>3
<1> QED BY <1>2, <1>4, <1>5, <1>8, <1>11, <1>14, <1>15, <1>16, <1>17

-----------------------------------------------------------------------------
(* The sums of host and machine.                                            *)

\* The byte of the payload on its way is the host's, if the line has not garbled it.
LEMMA PayloadWireStep ==
  ASSUME HostTypes, Next
  PROVE  PayloadWire'
<1> SUFFICES ASSUME rx' # None, due' \in 8 .. size' + 7, ~garbled'
             PROVE  rx' = (record.payload)'[due' - 7]
  BY DEF PayloadWire
<1>1. Send
  <2>1. Host BY DEF Next
  <2> QED BY <2>1 DEF Host, Count, Listen
<1>2. rec' = rec /\ pos' = pos + 1 /\ pos \in Nat \ {0} /\ rec \in 1 .. Len(Image)
  BY <1>1, Constants DEF Send, HostTypes, sending
<1>3. due' = pos
  <2>1. due' = pos' - 1 BY DEF due
  <2> QED BY <1>2, <2>1
<1>4. size' = size /\ size \in Nat /\ record' = record BY <1>2, RecordFacts DEF size, record
<1>5. pos > 7 /\ pos <= size + 7 BY <1>3, <1>4
<1>6. rx' = outgoing BY <1>1 DEF Send, Arrives
<1>7. outgoing = record.payload[pos - 7]
  <2>1. ~(pos <= 7) BY <1>2, <1>5
  <2> QED BY <1>5, <2>1 DEF outgoing, payload, record, size
<1> QED BY <1>3, <1>4, <1>6, <1>7

\* The machine adds what it takes.
LEMMA AccStep ==
  ASSUME Replying, Records, InPayload, HostTypes, Next, ~tx_valid
  PROVE  sum_acc' = acc
<1> USE DEF In, Took, Goto, progress, NewRecord, NoWrite
<1>1. BootClock(rx, tx_valid, mem_ready) BY DEF Next
<1>2. CASE CheckSumByte(rx) \/ RecordLength(rx) \/ DestMemByte(rx) \/ StartAddrBytes(rx)
  BY <1>2 DEF CheckSumByte, RecordLength, DestMemByte, StartAddrBytes, acc, Records, HeaderStates
<1>3. CASE PayloadByte(rx) \/ ImemWord(rx) \/ DramWord(rx)
  BY <1>3 DEF PayloadByte, ImemWord, DramWord, Accumulate, acc
<1>4. CASE DramWrite(mem_ready) \/ SumByte(rx)
  BY <1>4 DEF DramWrite, SumByte, acc
<1>5. CASE Finished \/ BootWait(rx, tx_valid)
  BY <1>5 DEF Finished, BootWait, acc, Receiving
<1> QED BY <1>1, <1>2, <1>3, <1>4, <1>5 DEF BootClock, Reply

\* What a byte does to the sums.
LEMMA SendSums ==
  ASSUME SlowLine, HostTypes, MachineTypes, Sums, Records, InPayload, InHeader,
         HostTypes', MachineTypes', Records', InPayload', InHeader', Header, Replying, Next, ~tx_valid, Send
  PROVE  Sums'
<1> USE DEF In
<1>1. /\ sending /\ gap = 0 /\ gap' = BYTE_TIME - 1 /\ pos' = pos + 1 /\ rec' = rec
      /\ sum' = (IF pos <= 7 THEN 0 ELSE (sum + outgoing) % BYTES) /\ Arrives(outgoing)
      /\ outgoing \in Byte
  BY Outgoing DEF Send
<1>2. /\ rec \in 1 .. Len(Image) /\ rec <= Len(Image) /\ pos \in Nat \ {0} /\ sum \in Byte /\ sum_acc \in Byte
      /\ pos <= size + 8 /\ size \in Nat /\ size >= 1
  <2>1. /\ rec \in 1 .. Len(Image) + 1 /\ rec <= Len(Image) /\ pos <= size + 8
        /\ pos \in Nat \ {0} /\ sum \in Byte /\ sum_acc \in Byte
    BY <1>1 DEF HostTypes, MachineTypes, sending, size, payload, record
  <2>2. rec \in 1 .. Len(Image) BY <2>1, Constants
  <2>3. size \in Nat /\ size = record.words * WORD /\ record.words \in Nat \ {0}
    BY <2>2, RecordFacts DEF size, record
  <2>4. \A x, y \in Nat \ {0} : x * y >= 1 OBVIOUS
  <2>5. size >= 1 BY <2>3, <2>4, Constants
  <2> QED BY <2>1, <2>2, <2>3, <2>5
<1>3. rx = None
  <2>1. BYTE_TIME - 1 > 0 BY Constants DEF SlowLine
  <2>2. rx # None => gap = BYTE_TIME - 1 BY DEF HostTypes
  <2> QED BY <1>1, <2>1, <2>2
<1>4. rx' \in Byte /\ rx' # None
  <2>1. ~Counts /\ ~Waits /\ ~Turns BY <1>1 DEF Counts, Waits, Turns
  <2>2. rx' \in Byte BY <2>1, HostMoves DEF Sends
  <2> QED BY <2>2, Constants
<1>5. due' = pos /\ record' = record /\ size' = size
  <2>1. due' = pos' - 1 BY <1>4 DEF due
  <2> QED BY <1>1, <1>2, <2>1 DEF record, size
<1>6. sum_acc' = sum_acc BY <1>3, AccStep DEF acc
<1>7. /\ pos \in 2 .. 8 => sum = 0 /\ ~garbled
      /\ pos \in 2 .. size + 8 => (sum_acc = sum <=> ~garbled)
      /\ garbled \in BOOLEAN
  BY <1>2, <1>3 DEF Sums, acc
<1>8. ~(current_state' = "REPLY") BY <1>4 DEF InPayload
<1>9. \/ rx' = outgoing /\ garbled' = (garbled /\ pos > 1)
      \/ /\ ~garbled /\ pos > 7 /\ garbled' = TRUE
         /\ \E d \in Deltas : rx' = (outgoing + d) % BYTES
  BY <1>1 DEF Arrives
<1>10. garbled' \in BOOLEAN BY <1>7, <1>9
<1>11. CASE pos <= 7
  <2>1. sum' = 0 /\ garbled' = FALSE /\ pos' \in 2 .. 8
    <3>1. sum' = 0 /\ pos' \in 2 .. 8 BY <1>1, <1>2, <1>11
    <3>2. garbled' = (garbled /\ pos > 1) BY <1>9, <1>11, <1>2
    <3>3. pos # 1 => pos \in 2 .. 8 BY <1>2, <1>11
    <3>4. pos = 1 => ~(pos > 1) OBVIOUS
    <3> QED BY <1>7, <3>1, <3>2, <3>3, <3>4
  <2>2. current_state' \in HeaderStates
    <3>1. due' <= 7 BY <1>5, <1>11
    <3>2. current_state' \notin PayloadStates
      <4>1. received' \in Nat
        <5>1. rec' \in 1 .. Len(Image) BY <1>1, <1>2
        <5>2. /\ check_sum_ctr' \in Nat /\ pyld_cntr' \in 0 .. WORD - 1 BY DEF MachineTypes
        <5> QED BY <1>2, <5>2, CountWords DEF received
      <4>2. current_state' \in PayloadStates => due' >= 8
        <5>1. current_state' \in PayloadStates => due' = 8 + received' \/ due' = 9 + received'
          BY DEF InPayload
        <5> QED BY <4>1, <5>1
      <4> QED BY <1>2, <1>5, <3>1, <4>2
    <3>3. current_state' # "FINISHED"
      <4>1. ~(rec' > Len(Image)) BY <1>1, <1>2, Constants
      <4> QED BY <4>1 DEF Records
    <3> QED BY <3>2, <3>3 DEF MachineTypes
  <2>3. sum_acc' = 0 /\ acc' = sum_acc'
    <3>1. sum_acc' = 0 BY <2>2 DEF Records
    <3> QED BY <2>2, <3>1 DEF acc, HeaderStates
  <2>4. ~(current_state' = "SUM_BYTE") BY <2>2 DEF HeaderStates
  <2> QED BY <1>8, <2>1, <2>3, <2>4 DEF Sums
<1>12. BYTES \in Nat \ {0} /\ outgoing \in 0 .. BYTES - 1 /\ sum \in 0 .. BYTES - 1
       /\ sum_acc \in 0 .. BYTES - 1
  BY <1>1, <1>2, Constants DEF Byte
<1>13. CASE pos > 7 /\ pos <= size + 7
  <2>1. In("PROGRAM_BYTES")'
    <3>1. current_state' \in PayloadStates
      <4>1. due' > 7 BY <1>2, <1>5, <1>13
      <4>2. current_state' # "FINISHED"
        <5>1. ~(rec' > Len(Image)) BY <1>1, <1>2, Constants
        <5> QED BY <5>1 DEF Records
      <4>3. current_state' \notin HeaderStates
        <5>1. current_state' \in HeaderStates => due' \in 1 .. 3 \/ due' = 4 + hdr_ctr'
          BY DEF InHeader, HeaderStates
        <5>2. hdr_ctr' \in 0 .. 3 BY DEF MachineTypes
        <5> QED BY <4>1, <5>1, <5>2
      <4> QED BY <4>2, <4>3 DEF MachineTypes
    <3>2. current_state' # "DRAM_WRITE" /\ current_state' # "REPLY" BY <1>4 DEF InPayload
    <3>3. current_state' # "SUM_BYTE"
      <4>1. SUFFICES ASSUME current_state' = "SUM_BYTE" PROVE FALSE OBVIOUS
      <4>2. due' = 8 + received' /\ received' = size' BY <3>1, <4>1 DEF InPayload
      <4>3. pos = 8 + size BY <1>5, <4>2
      <4> QED BY <1>2, <1>13, <4>3
    <3> QED BY <3>1, <3>2, <3>3 DEF PayloadStates
  <2>2. acc' = (sum_acc + rx') % BYTES BY <1>4, <1>6, <2>1 DEF acc
  <2>3. sum' = (sum + outgoing) % BYTES
    <3>1. ~(pos <= 7) BY <1>2, <1>13
    <3> QED BY <1>1, <3>1
  <2>4. sum_acc = sum <=> ~garbled
    <3>1. pos \in 2 .. size + 8 BY <1>2, <1>13
    <3> QED BY <1>7, <3>1
  <2>5. acc' = sum' <=> ~garbled'
    <3>1. CASE rx' = outgoing /\ garbled' = (garbled /\ pos > 1)
      <4>1. garbled' = garbled
        <5>1. pos > 1 BY <1>2, <1>13
        <5> QED BY <1>7, <3>1, <5>1
      <4>2. (sum_acc + outgoing) % BYTES = (sum + outgoing) % BYTES <=> sum_acc = sum
        <5>1. 1 \in 1 .. BYTES - 1 BY Constants
        <5> QED BY <1>12, <5>1, SumsApart
      <4> QED BY <2>2, <2>3, <2>4, <3>1, <4>1, <4>2
    <3>2. ASSUME NEW d \in Deltas, rx' = (outgoing + d) % BYTES, garbled' = TRUE, ~garbled
          PROVE  acc' = sum' <=> ~garbled'
      <4>1. d \in 1 .. BYTES - 1 BY Constants
      <4>2. (sum + ((outgoing + d) % BYTES)) % BYTES # (sum + outgoing) % BYTES
        BY <1>12, <4>1, SumsApart
      <4>3. sum_acc = sum BY <2>4, <3>2
      <4>4. acc' # sum' BY <2>2, <2>3, <3>2, <4>2, <4>3, Zenon
      <4> QED BY <3>2, <4>4
    <3>3. pos # 1 BY <1>13
    <3> QED BY <1>9, <3>1, <3>2, <3>3
  <2>6. ~(pos' \in 2 .. 8) BY <1>1, <1>2, <1>13
  <2> QED BY <1>8, <1>10, <2>1, <2>5, <2>6 DEF Sums
<1>14. CASE pos = size + 8
  <2>1. pos' = size + 9 BY <1>1, <1>2, <1>14
  <2>2. ~(pos' \in 2 .. 8) /\ ~(pos' \in 2 .. size' + 8) BY <1>2, <1>5, <2>1
  <2>3. outgoing = sum
    <3>1. ~(pos <= 7) /\ ~(pos <= Len(payload) + 7)
      <4>1. ~(pos <= 7) /\ ~(pos <= size + 7) BY <1>2, <1>14
      <4> QED BY <4>1 DEF size, record, payload
    <3> QED BY <3>1 DEF outgoing
  <2>4. sum_acc = sum <=> ~garbled
    <3>1. pos \in 2 .. size + 8 BY <1>2, <1>14
    <3> QED BY <1>7, <3>1
  <2>5. rx' = sum_acc' <=> ~garbled'
    <3>1. CASE rx' = outgoing /\ garbled' = (garbled /\ pos > 1)
      <4>1. garbled' = garbled
        <5>1. pos > 1 BY <1>2, <1>14
        <5> QED BY <1>7, <3>1, <5>1
      <4> QED BY <1>6, <2>3, <2>4, <3>1, <4>1
    <3>2. ASSUME NEW d \in Deltas, rx' = (outgoing + d) % BYTES, garbled' = TRUE, ~garbled
          PROVE  rx' = sum_acc' <=> ~garbled'
      <4>1. d \in 1 .. BYTES - 1 BY Constants
      <4>2. (outgoing + d) % BYTES # outgoing BY <1>12, <4>1, SumsApart
      <4> QED BY <1>6, <2>3, <2>4, <3>2, <4>2
    <3>3. pos # 1 BY <1>2, <1>14
    <3> QED BY <1>9, <3>1, <3>2, <3>3
  <2> QED BY <1>8, <1>10, <2>2, <2>5 DEF Sums
<1>15. pos <= 7 \/ (pos > 7 /\ pos <= size + 7) \/ pos = size + 8 BY <1>2
<1> QED BY <1>11, <1>13, <1>14, <1>15

\* The sums of host and machine differ exactly while a byte has been garbled.
LEMMA SumsStep ==
  ASSUME SlowLine, HostTypes, MachineTypes, Sums, Records, InPayload, InHeader, Header, Replying, Replies,
         HostTypes', MachineTypes', Records', InPayload', InHeader', Next
  PROVE  Sums'
<1> USE DEF In, Took, Goto
<1>1. CASE Send /\ ~tx_valid BY <1>1, SendSums
<1>2. CASE ~tx_valid /\ ~Send
  <2>1. Count \/ Listen BY <1>2 DEF Next, Host
  <2>2. /\ sum' = sum /\ garbled' = garbled /\ rx' = None /\ rec' = rec /\ pos' = pos
    BY <1>2, <2>1 DEF Count, Listen
  <2>3. acc' = sum_acc' BY <2>2 DEF acc
  <2>4. acc' = acc BY <1>2, <2>3, AccStep
  <2>5. size' = size BY <2>2 DEF size, record
  <2>6. current_state' = "REPLY" => \/ In("REPLY") /\ sum_ok' = sum_ok
                                    \/ In("SUM_BYTE") /\ rx # None /\ sum_ok' = (rx = sum_acc)
    <3>1. BootClock(rx, tx_valid, mem_ready) BY DEF Next
    <3>2. current_state' = "REPLY" => SumByte(rx) \/ (BootWait(rx, tx_valid) /\ In("REPLY"))
      BY <3>1 DEF BootClock, CheckSumByte, RecordLength, DestMemByte, StartAddrBytes, PayloadByte,
         ImemWord, DramWord, DramWrite, Reply, Finished, BootWait, Receiving
    <3> QED BY <3>2 DEF SumByte, BootWait, outcome
  <2>7. /\ garbled' \in BOOLEAN
        /\ rec' <= Len(Image) =>
             /\ pos' \in 2 .. 8 => sum' = 0 /\ ~garbled'
             /\ pos' \in 2 .. size' + 8 => (acc' = sum' <=> ~garbled')
    BY <2>2, <2>4, <2>5 DEF Sums
  <2>8. rec' <= Len(Image) /\ current_state' = "REPLY" => (sum_ok' <=> ~garbled')
    BY <2>2, <2>6 DEF Sums
  <2> QED BY <2>2, <2>7, <2>8 DEF Sums
<1>3. CASE tx_valid
  <2>1. pos' = 1 /\ rx' = None /\ current_state' # "REPLY" BY <1>3, ReplyStep
  <2>2. garbled' \in BOOLEAN
    <3>1. ~Send
      <4>1. Send => rx' = outgoing \/ \E d \in Deltas : rx' = (outgoing + d) % BYTES BY DEF Send, Arrives
      <4>2. Send => pos' = pos + 1 /\ pos \in Nat \ {0} BY DEF Send, HostTypes
      <4> QED BY <2>1, <4>2
    <3>2. Count \/ Listen BY <3>1 DEF Next, Host
    <3> QED BY <3>2 DEF Count, Listen, Sums
  <2>3. ~(pos' \in 2 .. 8) /\ ~(pos' \in 2 .. size' + 8)
    <3>1. \A n : ~(1 \in 2 .. n) OBVIOUS
    <3> QED BY <2>1, <3>1
  <2> QED BY <2>1, <2>2, <2>3 DEF Sums
<1> QED BY <1>1, <1>2, <1>3

-----------------------------------------------------------------------------
(* Where the payload goes.                                                  *)

\* What a write leaves in a memory.
LEMMA WrittenInside ==
  ASSUME NEW m, NEW a \in Nat, NEW n \in Nat, NEW b, DOMAIN b = 0 .. n - 1, NEW j \in 0 .. n - 1
  PROVE  a + j \in DOMAIN written(m, a, b) /\ written(m, a, b)[a + j] = b[j]
<1> DEFINE w == written(m, a, b)
<1>1. w = [y \in DOMAIN m \union {a + i : i \in 0 .. n - 1} |->
             IF y - a \in 0 .. n - 1 THEN b[y - a] ELSE m[y]]
  BY DEF written
<1>2. a + j \in {a + i : i \in 0 .. n - 1} OBVIOUS
<1>3. (a + j) - a = j OBVIOUS
<1> HIDE DEF w
<1>4. a + j \in DOMAIN w /\ w[a + j] = b[j] BY <1>1, <1>2, <1>3
<1> QED BY <1>4 DEF w

\* What a write leaves alone.
LEMMA WrittenOutside ==
  ASSUME NEW m, NEW a \in Nat, NEW n \in Nat, NEW b, DOMAIN b = 0 .. n - 1, NEW x \in Nat,
         x < a \/ x >= a + n, x \in DOMAIN m
  PROVE  x \in DOMAIN written(m, a, b) /\ written(m, a, b)[x] = m[x]
<1> DEFINE w == written(m, a, b)
<1>1. w = [y \in DOMAIN m \union {a + i : i \in 0 .. n - 1} |->
             IF y - a \in 0 .. n - 1 THEN b[y - a] ELSE m[y]]
  BY DEF written
<1>2. x - a \notin 0 .. n - 1 OBVIOUS
<1> HIDE DEF w
<1>3. x \in DOMAIN w /\ w[x] = m[x] BY <1>1, <1>2
<1> QED BY <1>3 DEF w

\* The place in the block counts on, and turns over with the last byte of a block.
LEMMA InBlock ==
  ASSUME NEW c \in Nat, NEW p \in 0 .. WORD - 1
  PROVE  /\ inBlock(c, p) \in 0 .. BlockBytes - 1
         /\ inBlock(0, 0) = 0
         /\ inBlock(c, p + 1) = inBlock(c, p) + 1
         /\ p = WORD - 1 /\ c % BLOCK_WORDS # BLOCK_WORDS - 1 =>
              inBlock(c + 1, 0) = inBlock(c, p) + 1
         /\ p = WORD - 1 /\ c % BLOCK_WORDS = BLOCK_WORDS - 1 =>
              inBlock(c + 1, 0) = 0 /\ inBlock(c, p) = BlockBytes - 1
<1>1. WORD \in Nat \ {0} /\ BLOCK_WORDS \in Nat \ {0} /\ p \in Nat BY Constants
<1>2. /\ c % BLOCK_WORDS \in 0 .. BLOCK_WORDS - 1
      /\ (c + 1) % BLOCK_WORDS = IF c % BLOCK_WORDS = BLOCK_WORDS - 1 THEN 0 ELSE (c % BLOCK_WORDS) + 1
  BY <1>1, CountInBlock
<1>3. PICK m \in 0 .. BLOCK_WORDS - 1 : m = c % BLOCK_WORDS BY <1>2
<1>4. PICK q \in Nat : q = m * WORD BY <1>1
<1>5. inBlock(c, p) = q + p /\ inBlock(c, p + 1) = q + (p + 1) BY <1>3, <1>4 DEF inBlock
<1>6. PICK r \in Nat : BlockBytes = q + WORD + r /\ (m = BLOCK_WORDS - 1 => r = 0)
  <2>1. PICK d \in Nat : BLOCK_WORDS = m + 1 + d
    <3>1. BLOCK_WORDS - m - 1 \in Nat /\ BLOCK_WORDS = m + 1 + (BLOCK_WORDS - m - 1) BY <1>1, <1>3
    <3> QED BY <3>1
  <2>2. m \in Nat BY <1>3
  <2>3. (m + 1 + d) * WORD = m * WORD + WORD + d * WORD /\ d * WORD \in Nat BY <1>1, <2>2
  <2>4. BlockBytes = m * WORD + WORD + d * WORD BY <2>1, <2>3 DEF BlockBytes
  <2>5. m = BLOCK_WORDS - 1 => d * WORD = 0
    <3>1. m = BLOCK_WORDS - 1 => d = 0 BY <1>1, <2>1, <2>2
    <3>2. 0 * WORD = 0 BY <1>1
    <3> QED BY <3>1, <3>2
  <2> QED BY <1>4, <2>3, <2>4, <2>5
<1>7. inBlock(c, p) \in 0 .. BlockBytes - 1
  <2>1. q + p \in 0 .. (q + WORD + r) - 1 BY <1>1
  <2>2. BlockBytes = q + WORD + r BY <1>6
  <2>3. inBlock(c, p) = q + p BY <1>5
  <2> QED BY <2>1, <2>2, <2>3, Zenon
<1>8. inBlock(0, 0) = 0
  <2>1. 0 % BLOCK_WORDS = 0 BY <1>1
  <2>2. 0 * WORD + 0 = 0 BY <1>1
  <2> QED BY <2>1, <2>2 DEF inBlock
<1>9. inBlock(c, p + 1) = inBlock(c, p) + 1 BY <1>1, <1>5
<1>10. ASSUME p = WORD - 1, c % BLOCK_WORDS # BLOCK_WORDS - 1
       PROVE  inBlock(c + 1, 0) = inBlock(c, p) + 1
  <2>1. (c + 1) % BLOCK_WORDS = m + 1 BY <1>2, <1>3, <1>10
  <2>2. (m + 1) * WORD = q + WORD BY <1>1, <1>3, <1>4, NextWord
  <2>3. inBlock(c + 1, 0) = q + WORD + 0 BY <2>1, <2>2 DEF inBlock
  <2> QED BY <1>1, <1>5, <1>10, <2>3
<1>11. ASSUME p = WORD - 1, c % BLOCK_WORDS = BLOCK_WORDS - 1
       PROVE  inBlock(c + 1, 0) = 0 /\ inBlock(c, p) = BlockBytes - 1
  <2>1. (c + 1) % BLOCK_WORDS = 0 BY <1>2, <1>11
  <2>2. 0 * WORD + 0 = 0 BY <1>1
  <2>3. inBlock(c + 1, 0) = 0 BY <2>1, <2>2 DEF inBlock
  <2>4. BlockBytes = q + WORD
    <3>1. r = 0 /\ BlockBytes = q + WORD + r
      <4>1. m = BLOCK_WORDS - 1 BY <1>3, <1>11
      <4>2. r = 0 BY <1>6, <4>1
      <4> QED BY <1>6, <4>2
    <3> QED BY <1>1, <3>1
  <2> QED BY <1>1, <1>5, <1>11, <2>3, <2>4
<1> QED BY <1>7, <1>8, <1>9, <1>10, <1>11

\* A write lands in a memory in this clock.
lands == imem_we \/ (In("DRAM_WRITE") /\ dram_valid /\ mem_ready)

\* The port stays the loader's while it is active.
LEMMA OwnedStep ==
  ASSUME Owned, Replying, Next
  PROVE  Owned'
<1>1. boot_active' => boot_active
  <2>1. BootClock(rx, tx_valid, mem_ready) BY DEF Next
  <2> QED BY <2>1 DEF BootClock, CheckSumByte, RecordLength, DestMemByte, StartAddrBytes, PayloadByte,
       ImemWord, DramWord, DramWrite, SumByte, Reply, Finished, BootWait, outcome
<1>2. boot_sel' = IF mem_ready THEN boot_active ELSE boot_sel BY DEF Next, Owner
<1> QED BY <1>1, <1>2 DEF Owned

\* The two ways a memory changes.
LEMMA MemoryStep ==
  ASSUME Owned, Replying, Strobes, Next
  PROVE  /\ imem' = IF imem_we THEN written(imem, mem_addr, pyld_buff) ELSE imem
         /\ dram' = IF In("DRAM_WRITE") /\ dram_valid /\ mem_ready
                    THEN written(dram, blockBase, blk_buff) ELSE dram
<1>1. imem' = IF imem_we THEN written(imem, mem_addr, pyld_buff) ELSE imem BY DEF Next, InstMem
<1>2. dram_valid => In("DRAM_WRITE") /\ boot_sel BY DEF Strobes, In, Replying, Owned
<1>3. Sdram BY DEF Next
<1>4. CASE mem_ready /\ cpu_in_valid
  <2>1. dram' = IF boot_sel THEN written(dram, blockBase, blk_buff) ELSE dram BY <1>3, <1>4 DEF Sdram
  <2>2. boot_sel => dram_valid BY <1>4 DEF cpu_in_valid
  <2> QED BY <1>1, <1>2, <1>4, <2>1, <2>2
<1>5. CASE ~(mem_ready /\ cpu_in_valid)
  <2>1. dram' = dram BY <1>3, <1>5 DEF Sdram
  <2>2. ~(dram_valid /\ mem_ready) BY <1>2, <1>5 DEF cpu_in_valid
  <2> QED BY <1>1, <2>1, <2>2
<1> QED BY <1>4, <1>5

\* The place of the next byte is the place in its word or block.
LEMMA PartialFacts ==
  ASSUME MachineTypes, rec \in 1 .. Len(Image)
  PROVE  /\ unit \in Nat \ {0} /\ partial \in 0 .. unit - 1
         /\ received \in Nat /\ size \in Nat /\ prg_byte_cntr \in Nat
         /\ address(record.addr) \in Nat /\ address(record.addr) + size < AddrSpace
         /\ AddrSpace \in Nat \ {0} /\ BlockBytes \in Nat \ {0} /\ WORD \in Nat \ {0}
         /\ buffer \in [0 .. unit - 1 -> Byte]
<1>1. check_sum_ctr \in Nat /\ pyld_cntr \in 0 .. WORD - 1 /\ prg_byte_cntr \in Nat
      /\ pyld_buff \in [0 .. WORD - 1 -> Byte] /\ blk_buff \in [0 .. BlockBytes - 1 -> Byte]
  BY DEF MachineTypes
<1>2. /\ address(record.addr) \in Nat /\ address(record.addr) + size < AddrSpace
  BY RecordFacts DEF record, size
<1>3. AddrSpace \in Nat \ {0} /\ BlockBytes \in Nat \ {0} /\ WORD \in Nat \ {0} BY Constants
<1>4. unit \in Nat \ {0} BY <1>3 DEF unit
<1>5. partial \in 0 .. unit - 1
  <2>1. inBlock(check_sum_ctr, pyld_cntr) \in 0 .. BlockBytes - 1 BY <1>1, InBlock
  <2> QED BY <1>1, <2>1 DEF partial, unit
<1>6. received \in Nat /\ size \in Nat BY Counted
<1>7. buffer \in [0 .. unit - 1 -> Byte] BY <1>1 DEF buffer, unit
<1> QED BY <1>1, <1>2, <1>3, <1>4, <1>5, <1>6, <1>7

\* What the machine knows of its record while it takes the payload.
LEMMA AtPayload ==
  ASSUME Control, current_state \in PayloadStates
  PROVE  /\ rec \in 1 .. Len(Image) /\ check_sum = record.words /\ record_len = Len(Image)
         /\ dest_mem = record.dest /\ start_addr = record.addr
         /\ record.dest \in {DEST_IMEM, DEST_DRAM} /\ DEST_IMEM # DEST_DRAM
<1>1. rec \in 1 .. Len(Image) /\ rec <= Len(Image)
  <2>1. rec <= Len(Image) /\ rec \in 1 .. Len(Image) + 1 BY DEF Control, InPayload, HostTypes
  <2> QED BY <2>1, Constants
<1>2. received \in Nat BY <1>1, Counted DEF Control
<1>3. due = 8 + received \/ due = 9 + received BY DEF Control, InPayload
<1>4. due > 1 /\ due > 2 /\ due > 3 /\ \A i \in 0 .. 3 : due > 4 + i BY <1>2, <1>3
<1>5. /\ check_sum = record.words /\ record_len = Len(Image) /\ dest_mem = record.dest
      /\ \A i \in 0 .. 3 : start_addr[i] = record.addr[i]
  BY <1>1, <1>4 DEF Control, Header
<1>6. start_addr \in [0 .. 3 -> Byte] /\ record.addr \in [0 .. 3 -> Byte]
  BY <1>1, RecordFacts DEF Control, MachineTypes, record
<1>7. start_addr = record.addr BY <1>5, <1>6
<1> QED BY <1>1, <1>5, <1>7, RecordFacts DEF record

\* A byte of the payload goes to its place in the word or block, which may complete it.
Fills == /\ prg_byte_cntr' = prg_byte_cntr /\ partial + 1 \in 0 .. unit - 1 /\ partial' = partial + 1
         /\ In("PROGRAM_BYTES")' /\ imem_we' = FALSE
Completes ==
  /\ prg_byte_cntr' = prg_byte_cntr + unit /\ partial = unit - 1 /\ partial' = 0
  /\ mem_addr' = address(record.addr) + prg_byte_cntr
  /\ \/ record.dest = DEST_IMEM /\ imem_we' = TRUE /\ current_state' \in {"PROGRAM_BYTES", "SUM_BYTE"}
     \/ record.dest = DEST_DRAM /\ imem_we' = FALSE /\ In("DRAM_WRITE")'

\* A byte of the payload moves one place on.
LEMMA ByteMoves ==
  ASSUME SlowLine, Control, Placed, Next, rx # None, In("PROGRAM_BYTES")
  PROVE  /\ buffer' = [buffer EXCEPT ![partial] = rx]
         /\ ~pending /\ record' = record /\ size' = size /\ rec' = rec /\ received' = received + 1 /\ rx' = None
         /\ Fills \/ Completes
<1> USE DEF In
<1>1. /\ rec \in 1 .. Len(Image) /\ check_sum = record.words
      /\ dest_mem = record.dest /\ start_addr = record.addr
      /\ record.dest \in {DEST_IMEM, DEST_DRAM} /\ DEST_IMEM # DEST_DRAM
  BY AtPayload DEF PayloadStates
<1>2. /\ rx' = None /\ rec' = rec /\ record' = record /\ size' = size /\ rx \in Byte
  BY Takes DEF Control
<1>3. received < size /\ received = prg_byte_cntr + partial
      /\ (record.dest = DEST_DRAM => prg_byte_cntr % BlockBytes = 0)
  BY DEF Control, InPayload, Placed, PayloadStates
<1>4. /\ unit \in Nat \ {0} /\ partial \in 0 .. unit - 1
      /\ received \in Nat /\ size \in Nat /\ prg_byte_cntr \in Nat
      /\ address(record.addr) \in Nat /\ address(record.addr) + size < AddrSpace
      /\ AddrSpace \in Nat \ {0} /\ BlockBytes \in Nat \ {0} /\ WORD \in Nat \ {0}
  BY <1>1, PartialFacts DEF Control
<1>5. check_sum_ctr \in Nat /\ pyld_cntr \in 0 .. WORD - 1 BY DEF Control, MachineTypes
<1>6. ~pending BY DEF pending, Placed
<1>7. PayloadByte(rx) \/ ImemWord(rx) \/ DramWord(rx)
  <2>1. BootClock(rx, tx_valid, mem_ready) BY DEF Next
  <2> QED BY <2>1 DEF BootClock, CheckSumByte, RecordLength, DestMemByte, StartAddrBytes, DramWrite, SumByte,
                Reply, Finished, BootWait, Took
<1>8. buffer' = [buffer EXCEPT ![partial] = rx]
  <2>1. Assemble(rx) BY <1>7 DEF PayloadByte, ImemWord, DramWord
  <2> QED BY <1>1, <1>2, <2>1 DEF Assemble, buffer, partial, inBlock
<1>9. received' = received + 1
  <2>1. CASE PayloadByte(rx) BY <1>1, <1>3, <2>1, TakeByte DEF Control
  <2>2. CASE ImemWord(rx) \/ DramWord(rx) BY <1>1, <1>3, <2>2, TakeWord DEF Control, ImemWord, DramWord
  <2> QED BY <1>7, <2>1, <2>2
<1>10. ASSUME partial = unit - 1
       PROVE  /\ offset = address(record.addr) + prg_byte_cntr
              /\ (prg_byte_cntr + unit) % AddrSpace = prg_byte_cntr + unit
  <2>1. \A n \in 0 .. AddrSpace - 1 : n % AddrSpace = n BY <1>4
  <2>2. prg_byte_cntr + unit <= size BY <1>3, <1>4, <1>10
  <2>3. prg_byte_cntr + unit \in 0 .. AddrSpace - 1 BY <1>4, <2>2
  <2>4. address(record.addr) + prg_byte_cntr \in 0 .. AddrSpace - 1 BY <1>4, <2>2
  <2> QED BY <1>1, <2>1, <2>3, <2>4 DEF offset
<1>11. CASE PayloadByte(rx)
  <2>1. /\ pyld_cntr # WORD - 1 /\ check_sum_ctr' = check_sum_ctr /\ pyld_cntr' = pyld_cntr + 1
        /\ prg_byte_cntr' = prg_byte_cntr /\ current_state' = current_state /\ imem_we' = FALSE
    BY <1>11 DEF PayloadByte, wordOver, NoStrobe
  <2>2. pyld_cntr + 1 \in 0 .. WORD - 1 BY <1>1, <1>5, <2>1, CountWords
  <2>3. partial' = partial + 1 /\ partial + 1 \in 0 .. unit - 1
    <3>1. CASE record.dest = DEST_DRAM
      <4>1. inBlock(check_sum_ctr, pyld_cntr + 1) = inBlock(check_sum_ctr, pyld_cntr) + 1
        BY <1>5, InBlock
      <4>2. inBlock(check_sum_ctr, pyld_cntr + 1) \in 0 .. BlockBytes - 1 BY <1>5, <2>2, InBlock
      <4> QED BY <1>2, <2>1, <3>1, <4>1, <4>2 DEF partial, unit
    <3>2. CASE record.dest # DEST_DRAM BY <1>2, <2>1, <2>2, <3>2 DEF partial, unit
    <3> QED BY <3>1, <3>2
  <2>4. Fills BY <2>1, <2>3 DEF Fills
  <2> QED BY <1>2, <1>6, <1>8, <1>9, <2>4
<1>12. CASE ImemWord(rx)
  <2>1. /\ pyld_cntr = WORD - 1 /\ pyld_cntr' = 0 /\ record.dest = DEST_IMEM
        /\ mem_addr' = offset /\ prg_byte_cntr' = (prg_byte_cntr + WORD) % AddrSpace
        /\ imem_we' = TRUE /\ current_state' \in {"PROGRAM_BYTES", "SUM_BYTE"}
    BY <1>1, <1>12 DEF ImemWord, wordOver, CountWord
  <2>2. partial = unit - 1 /\ partial' = 0 /\ unit = WORD BY <1>1, <1>2, <2>1 DEF partial, unit
  <2>3. Completes BY <1>10, <2>1, <2>2 DEF Completes
  <2> QED BY <1>2, <1>6, <1>8, <1>9, <2>3
<1>13. CASE DramWord(rx)
  <2>1. /\ pyld_cntr = WORD - 1 /\ pyld_cntr' = 0 /\ record.dest = DEST_DRAM /\ imem_we' = FALSE
    BY <1>1, <1>13 DEF DramWord, wordOver, CountWord, NoStrobe
  <2>2. check_sum_ctr' = check_sum_ctr + 1 /\ (lastWord <=> received' = size)
    BY <1>1, <1>3, <1>13, TakeWord DEF Control, DramWord
  <2>3. unit = BlockBytes /\ partial = inBlock(check_sum_ctr, pyld_cntr)
        /\ partial' = inBlock(check_sum_ctr + 1, 0)
    BY <1>2, <2>1, <2>2 DEF unit, partial
  <2>4. CASE blockOver
    <3>1. /\ mem_addr' = offset /\ prg_byte_cntr' = (prg_byte_cntr + BLOCK_WORDS * WORD) % AddrSpace
          /\ current_state' = "DRAM_WRITE"
      BY <1>13, <2>4 DEF DramWord, Goto
    <3>2. partial = unit - 1 /\ partial' = 0
      <4>1. check_sum_ctr % BLOCK_WORDS = BLOCK_WORDS - 1 BY <2>4 DEF blockOver
      <4>2. inBlock(check_sum_ctr + 1, 0) = 0 /\ inBlock(check_sum_ctr, pyld_cntr) = BlockBytes - 1
        BY <1>5, <2>1, <4>1, InBlock
      <4> QED BY <2>3, <4>2
    <3>3. Completes BY <1>10, <2>1, <2>3, <3>1, <3>2 DEF Completes, BlockBytes
    <3> QED BY <1>2, <1>6, <1>8, <1>9, <3>3
  <2>5. CASE ~blockOver
    <3>1. /\ prg_byte_cntr' = prg_byte_cntr
          /\ current_state' = IF lastWord THEN "SUM_BYTE" ELSE "PROGRAM_BYTES"
      BY <1>13, <2>5 DEF DramWord, Goto
    <3>2. check_sum_ctr % BLOCK_WORDS # BLOCK_WORDS - 1 BY <2>5 DEF blockOver
    <3>3. partial' = partial + 1 BY <1>5, <2>1, <2>3, <3>2, InBlock
    <3>4. partial + 1 \in 0 .. unit - 1
      <4>1. inBlock(check_sum_ctr + 1, 0) \in 0 .. BlockBytes - 1
        <5>1. check_sum_ctr + 1 \in Nat /\ 0 \in 0 .. WORD - 1 BY <1>4, <1>5
        <5> QED BY <5>1, InBlock
      <4> QED BY <2>3, <3>3, <4>1
    <3>5. ~lastWord
      <4>1. SUFFICES ASSUME lastWord PROVE FALSE OBVIOUS
      <4>2. check_sum_ctr + 1 = record.words BY <1>1, <4>1 DEF lastWord
      <4>3. record.words % BLOCK_WORDS = 0 BY <1>1, <2>1, RecordFacts DEF record
      <4>4. (check_sum_ctr + 1) % BLOCK_WORDS = (check_sum_ctr % BLOCK_WORDS) + 1
        BY <1>5, <3>2, CountInBlock, Constants
      <4>5. check_sum_ctr % BLOCK_WORDS \in 0 .. BLOCK_WORDS - 1 BY <1>5, CountInBlock, Constants
      <4>6. (check_sum_ctr % BLOCK_WORDS) + 1 # 0 BY <4>5, Constants
      <4> QED BY <4>2, <4>3, <4>4, <4>6
    <3>6. Fills BY <2>1, <3>1, <3>3, <3>4, <3>5 DEF Fills
    <3> QED BY <1>2, <1>6, <1>8, <1>9, <3>6
  <2> QED BY <2>4, <2>5
<1> QED BY <1>7, <1>11, <1>12, <1>13

\* The clock after a byte brings no other, so it cannot garble one.
LEMMA StillGarbled ==
  ASSUME SlowLine, Control, Next, rx # None
  PROVE  garbled' = garbled
<1>1. gap = BYTE_TIME - 1 BY DEF Control, HostTypes
<1>2. gap # 0 BY <1>1, Constants DEF SlowLine
<1> QED BY <1>2 DEF Next, Host, Send, Count, Listen

\* A byte of the payload in the word or block.
LEMMA ByteData ==
  ASSUME SlowLine, Control, Placed, Contents, Next, rx # None, In("PROGRAM_BYTES")
  PROVE  Placed' /\ Contents' /\ imem' = imem /\ dram' = dram
<1> USE DEF In
<1>1. /\ buffer' = [buffer EXCEPT ![partial] = rx]
      /\ ~pending /\ record' = record /\ size' = size /\ rec' = rec /\ received' = received + 1 /\ rx' = None
      /\ Fills \/ Completes
  BY ByteMoves
<1>2. rec \in 1 .. Len(Image) BY AtPayload DEF PayloadStates
<1>3. /\ unit \in Nat \ {0} /\ partial \in 0 .. unit - 1
      /\ received \in Nat /\ size \in Nat /\ prg_byte_cntr \in Nat
      /\ BlockBytes \in Nat \ {0} /\ buffer \in [0 .. unit - 1 -> Byte]
  BY <1>2, PartialFacts DEF Control
<1>4. received = prg_byte_cntr + partial /\ (record.dest = DEST_DRAM => prg_byte_cntr % BlockBytes = 0)
      /\ received < size /\ due = 8 + received
  BY DEF Placed, PayloadStates, Control, InPayload
<1>5. unit' = unit /\ done = prg_byte_cntr BY <1>1 DEF unit, done
<1>6. imem' = imem /\ dram' = dram
  BY <1>1, MemoryStep DEF Control, pending
<1>7. Placed'
  <2>1. CASE Fills
    <3>1. received' = prg_byte_cntr' + partial' BY <1>1, <1>3, <1>4, <2>1 DEF Fills
    <3> QED BY <1>1, <1>4, <2>1, <3>1 DEF Fills, Placed, pending
  <2>2. CASE Completes
    <3>1. received' = prg_byte_cntr' + partial' BY <1>1, <1>3, <1>4, <2>2 DEF Completes
    <3>2. record.dest = DEST_DRAM => prg_byte_cntr' % BlockBytes = 0
      <4>1. SUFFICES ASSUME record.dest = DEST_DRAM PROVE prg_byte_cntr' % BlockBytes = 0 OBVIOUS
      <4>2. prg_byte_cntr' = prg_byte_cntr + BlockBytes BY <2>2, <4>1 DEF Completes, unit
      <4>3. prg_byte_cntr % BlockBytes = 0 BY <1>4, <4>1
      <4>4. (prg_byte_cntr + BlockBytes) % BlockBytes = 0 BY <1>3, <4>3, CommonMultiple
      <4> QED BY <4>2, <4>4
    <3>3. prg_byte_cntr' >= unit' /\ mem_addr' = address(record.addr) + (prg_byte_cntr' - unit')
      <4>1. prg_byte_cntr' >= unit' BY <1>3, <1>5, <2>2 DEF Completes
      <4>2. prg_byte_cntr' - unit' = prg_byte_cntr BY <1>3, <1>5, <2>2 DEF Completes
      <4> QED BY <2>2, <4>1, <4>2 DEF Completes
    <3> QED BY <1>1, <2>2, <3>1, <3>2, <3>3 DEF Completes, Placed
  <2> QED BY <1>1, <2>1, <2>2
<1>8. Contents'
  <2>1. SUFFICES ASSUME ~garbled'
                 PROVE  /\ \A i \in 1 .. done' : Holds(memory(record)', record', i)
                        /\ \A j \in 0 .. unit' - 1 : done' + j < received' =>
                             buffer'[j] = (record.payload)'[done' + j + 1]
    BY DEF Contents
  <2>2. done' = done
    <3>1. CASE Fills
      <4>1. ~pending' BY <3>1 DEF Fills, pending
      <4> QED BY <1>5, <3>1, <4>1 DEF Fills, done
    <3>2. CASE Completes
      <4>1. pending' BY <3>2 DEF Completes, pending
      <4>2. prg_byte_cntr' - unit' = prg_byte_cntr BY <1>3, <1>5, <3>2 DEF Completes
      <4> QED BY <1>5, <4>1, <4>2 DEF done
    <3> QED BY <1>1, <3>1, <3>2
  <2>3. ~garbled BY <2>1, StillGarbled
  <2>4. /\ \A i \in 1 .. done : Holds(memory(record), record, i)
        /\ \A j \in 0 .. unit - 1 : done + j < received => buffer[j] = record.payload[done + j + 1]
    BY <2>3 DEF Contents, PayloadStates
  <2>5. memory(record)' = memory(record) BY <1>1, <1>6 DEF memory
  <2>6. ASSUME NEW j \in 0 .. unit - 1, done + j < received'
        PROVE  buffer'[j] = record.payload[done + j + 1]
    <3>1. CASE j = partial
      <4>1. buffer'[j] = rx BY <1>1, <1>3, <3>1
      <4>2. rx = record.payload[due - 7]
        <5>1. due \in 8 .. size + 7 BY <1>3, <1>4
        <5> QED BY <2>3, <5>1 DEF Control, PayloadWire
      <4>3. due - 7 = done + j + 1 BY <1>3, <1>4, <1>5, <3>1
      <4> QED BY <4>1, <4>2, <4>3
    <3>2. CASE j # partial
      <4>1. buffer'[j] = buffer[j] BY <1>1, <1>3, <3>2
      <4>2. done + j < received BY <1>1, <1>3, <1>4, <1>5, <2>6, <3>2
      <4> QED BY <2>4, <4>1, <4>2
    <3> QED BY <3>1, <3>2
  <2> QED BY <1>1, <1>5, <2>2, <2>4, <2>5, <2>6
<1> QED BY <1>6, <1>7, <1>8

\* The registers stay, and the word or block that was waiting lands or goes on waiting.
Rests == /\ UNCHANGED <<prg_byte_cntr, check_sum_ctr, pyld_cntr, mem_addr, pyld_buff, blk_buff, rec>>
         /\ imem_we' = FALSE
         /\ (current_state' = "DRAM_WRITE" <=> current_state = "DRAM_WRITE" /\ ~lands)
         /\ \/ current_state = "DRAM_WRITE" \/ current_state' = current_state
            \/ current_state = "SUM_BYTE" /\ current_state' = "REPLY"
         /\ (~garbled' => ~garbled)

\* In the payload's states, a clock without a byte is such a one.
LEMMA AllRests ==
  ASSUME SlowLine, Control, Next, ~tx_valid, current_state \in PayloadStates,
         ~(rx # None /\ In("PROGRAM_BYTES"))
  PROVE  Rests
<1> USE DEF In
<1>1. BootClock(rx, tx_valid, mem_ready) BY DEF Next
<1>2. DramWrite(mem_ready) \/ SumByte(rx) \/ BootWait(rx, tx_valid)
  BY <1>1 DEF BootClock, CheckSumByte, RecordLength, DestMemByte, StartAddrBytes, PayloadByte,
       ImemWord, DramWord, Reply, Finished, PayloadStates, Took
<1>3. ~imem_we \/ current_state # "DRAM_WRITE" BY DEF Control, Strobes
<1>4. /\ UNCHANGED <<prg_byte_cntr, check_sum_ctr, pyld_cntr, mem_addr, pyld_buff, blk_buff>>
      /\ imem_we' = FALSE
      /\ current_state' = "DRAM_WRITE" <=> current_state = "DRAM_WRITE" /\ ~lands
      /\ \/ current_state = "DRAM_WRITE" \/ current_state' = current_state
         \/ current_state = "SUM_BYTE" /\ current_state' = "REPLY"
  <2>1. CASE DramWrite(mem_ready)
    <3>1. /\ UNCHANGED <<prg_byte_cntr, check_sum_ctr, pyld_cntr, mem_addr, pyld_buff, blk_buff>>
          /\ imem_we' = FALSE /\ current_state = "DRAM_WRITE"
      BY <2>1 DEF DramWrite, NoStrobe, progress, buffers
    <3>2. CASE dram_valid /\ mem_ready
      <4>1. current_state' # "DRAM_WRITE" BY <2>1, <3>2 DEF DramWrite
      <4>2. lands BY <3>1, <3>2 DEF lands
      <4> QED BY <3>1, <4>1, <4>2, Zenon
    <3>3. CASE ~(dram_valid /\ mem_ready)
      <4>1. current_state' = "DRAM_WRITE" BY <2>1, <3>3 DEF DramWrite
      <4>2. ~lands BY <1>3, <3>1, <3>3 DEF lands
      <4> QED BY <3>1, <4>1, <4>2, Zenon
    <3> QED BY <3>2, <3>3
  <2>2. CASE SumByte(rx)
    BY <2>2 DEF SumByte, Took, Goto, progress, buffers
  <2>3. CASE BootWait(rx, tx_valid)
    <3>1. /\ UNCHANGED <<prg_byte_cntr, check_sum_ctr, pyld_cntr, mem_addr, pyld_buff, blk_buff>>
          /\ imem_we' = FALSE /\ current_state' = current_state
      BY <2>3 DEF BootWait, NoWrite, NoStrobe, progress, buffers
    <3>2. current_state # "DRAM_WRITE" BY <2>3 DEF BootWait, Receiving
    <3> QED BY <3>1, <3>2, Zenon
  <2> QED BY <1>2, <2>1, <2>2, <2>3
<1>5. rec' = rec /\ (~garbled' => ~garbled)
  <2>1. CASE rx # None
    <3>1. garbled' = garbled BY <2>1, StillGarbled
    <3>2. rec' = rec BY <2>1, Takes DEF Control
    <3> QED BY <3>1, <3>2
  <2>2. CASE rx = None
    <3>1. rec' = rec /\ due = pos BY <2>2, Listens DEF Control
    <3>2. pos > 1
      <4>1. rec \in 1 .. Len(Image) BY AtPayload
      <4>2. received \in Nat BY <4>1, Counted DEF Control
      <4>3. due = 8 + received \/ due = 9 + received BY DEF Control, InPayload
      <4> QED BY <3>1, <4>2, <4>3
    <3>3. garbled' = garbled \/ garbled' = (garbled /\ pos > 1) \/ garbled' = TRUE
      BY DEF Next, Host, Send, Arrives, Count, Listen
    <3>4. garbled \in BOOLEAN BY DEF Control, Sums
    <3> QED BY <3>1, <3>2, <3>3, <3>4
  <2> QED BY <2>1, <2>2
<1> QED BY <1>4, <1>5 DEF Rests

\* A write takes the buffer to its place in the memory of the record.
LEMMA Landing ==
  ASSUME Control, Placed, Next, lands
  PROVE  /\ pending /\ current_state \in PayloadStates /\ partial = 0 /\ rec \in 1 .. Len(Image)
         /\ memory(record)' = written(memory(record), mem_addr, buffer) \/ record' # record
         /\ record.dest = DEST_IMEM => imem' = written(imem, mem_addr, buffer) /\ dram' = dram
         /\ record.dest = DEST_DRAM => dram' = written(dram, mem_addr, buffer) /\ imem' = imem
<1> USE DEF In
<1>1. pending /\ current_state \in PayloadStates
  BY DEF lands, pending, Control, Strobes, PayloadStates
<1>2. rec \in 1 .. Len(Image) /\ record.dest \in {DEST_IMEM, DEST_DRAM} /\ DEST_IMEM # DEST_DRAM
  BY <1>1, AtPayload
<1>3. partial = 0 BY DEF lands, Placed, PayloadStates
<1>4. CASE imem_we
  <2>1. record.dest = DEST_IMEM /\ current_state # "DRAM_WRITE" BY <1>4 DEF Placed, Control, Strobes
  <2>2. imem' = written(imem, mem_addr, buffer) /\ dram' = dram
    BY <1>2, <1>4, <2>1, MemoryStep DEF Control, buffer
  <2> QED BY <1>1, <1>2, <1>3, <2>1, <2>2 DEF memory
<1>5. CASE ~imem_we
  <2>1. current_state = "DRAM_WRITE" /\ dram_valid /\ mem_ready /\ record.dest = DEST_DRAM
    BY <1>5 DEF lands, Placed, PayloadStates
  <2>2. blockBase = mem_addr
    <3>1. /\ address(record.addr) \in Nat /\ prg_byte_cntr \in Nat /\ BlockBytes \in Nat \ {0}
      BY <1>2, PartialFacts DEF Control
    <3>2. mem_addr = address(record.addr) + (prg_byte_cntr - BlockBytes) /\ prg_byte_cntr >= BlockBytes
      BY <1>1, <2>1 DEF Placed, unit
    <3>3. address(record.addr) % BlockBytes = 0 BY <1>2, <2>1, RecordFacts DEF record
    <3>4. prg_byte_cntr % BlockBytes = 0 BY <1>1, <2>1 DEF Placed
    <3>5. prg_byte_cntr - BlockBytes \in Nat /\ (prg_byte_cntr - BlockBytes) % BlockBytes = 0
      BY <3>1, <3>2, <3>4, BlockBefore
    <3>6. (mem_addr \div BlockBytes) * BlockBytes = mem_addr
      <4> DEFINE y == prg_byte_cntr - BlockBytes
                 x == address(record.addr)
      <4>1. x \in Nat /\ y \in Nat /\ x % BlockBytes = 0 /\ y % BlockBytes = 0 /\ mem_addr = x + y
        BY <3>1, <3>2, <3>3, <3>5
      <4> HIDE DEF x, y
      <4>2. (x + y) % BlockBytes = 0 BY <3>1, <4>1, CommonMultiple
      <4>3. x + y \in Nat BY <4>1
      <4>4. ((x + y) \div BlockBytes) * BlockBytes = x + y BY <3>1, <4>2, <4>3, CommonMultiple
      <4> QED BY <4>1, <4>4
    <3> QED BY <3>6 DEF blockBase, BlockBytes
  <2>3. dram' = written(dram, mem_addr, buffer) /\ imem' = imem
    BY <1>5, <2>1, <2>2, MemoryStep DEF Control, buffer
  <2> QED BY <1>1, <1>2, <1>3, <2>1, <2>3 DEF memory
<1> QED BY <1>4, <1>5

\* Without a write the memories stay.
LEMMA MemoryRests ==
  ASSUME Control, Next, ~lands
  PROVE  imem' = imem /\ dram' = dram
BY MemoryStep DEF Control, lands

\* What is in the memory and in the buffer while the machine takes no payload.
LEMMA RestData ==
  ASSUME Control, Placed, Contents, Next, current_state \in PayloadStates, Rests
  PROVE  Placed' /\ Contents'
<1> USE DEF In
<1>1. rec \in 1 .. Len(Image) /\ record.dest \in {DEST_IMEM, DEST_DRAM} /\ DEST_IMEM # DEST_DRAM
  BY AtPayload
<1>2. record' = record BY DEF Rests, record
<1>3. unit' = unit /\ partial' = partial /\ received' = received /\ buffer' = buffer
  BY <1>2 DEF Rests, unit, partial, received, buffer
<1>4. /\ unit \in Nat \ {0} /\ prg_byte_cntr \in Nat /\ address(record.addr) \in Nat
      /\ buffer \in [0 .. unit - 1 -> Byte]
  BY <1>1, PartialFacts DEF Control
<1>5. received = prg_byte_cntr + partial /\ (record.dest = DEST_DRAM => prg_byte_cntr % BlockBytes = 0)
  BY DEF Placed
<1>6. pending' => pending /\ ~lands /\ current_state = "DRAM_WRITE"
  BY DEF pending, Rests
<1>7. pending /\ ~lands => pending'
  BY DEF pending, Rests, lands
<1>8. Placed'
  <2>1. current_state' = "DRAM_WRITE" => record'.dest = DEST_DRAM /\ partial' = 0
    BY <1>2, <1>3 DEF Rests, Placed
  <2>2. current_state' \in {"SUM_BYTE", "REPLY"} => partial' = 0
    BY <1>3 DEF Rests, Placed, PayloadStates
  <2>3. pending' => /\ prg_byte_cntr' >= unit'
                    /\ mem_addr' = address(record'.addr) + (prg_byte_cntr' - unit')
    <3>1. SUFFICES ASSUME pending' PROVE prg_byte_cntr' >= unit'
                    /\ mem_addr' = address(record'.addr) + (prg_byte_cntr' - unit')
      OBVIOUS
    <3>2. prg_byte_cntr >= unit /\ mem_addr = address(record.addr) + (prg_byte_cntr - unit)
      BY <1>6, <3>1 DEF Placed
    <3> QED BY <1>2, <1>3, <3>2 DEF Rests
  <2>4. received' = prg_byte_cntr' + partial' /\ (record'.dest = DEST_DRAM => prg_byte_cntr' % BlockBytes = 0)
    BY <1>2, <1>3, <1>5 DEF Rests
  <2> QED BY <2>1, <2>2, <2>3, <2>4 DEF Placed, Rests
<1>9. Contents'
  <2>1. SUFFICES ASSUME ~garbled'
                 PROVE  /\ \A i \in 1 .. done' : Holds(memory(record)', record', i)
                        /\ \A j \in 0 .. unit' - 1 : done' + j < received' =>
                             buffer'[j] = (record.payload)'[done' + j + 1]
    BY DEF Contents
  <2>2. /\ \A i \in 1 .. done : Holds(memory(record), record, i)
        /\ \A j \in 0 .. unit - 1 : done + j < received => buffer[j] = record.payload[done + j + 1]
    BY <2>1 DEF Contents, Rests
  <2>3. CASE ~lands
    <3>1. done' = done
      <4>1. pending' <=> pending BY <1>6, <1>7, <2>3
      <4> QED BY <1>3, <4>1 DEF done, Rests
    <3>2. memory(record)' = memory(record) BY <1>2, <2>3, MemoryRests DEF memory
    <3> QED BY <1>2, <1>3, <2>2, <3>1, <3>2
  <2>4. CASE lands
    <3>1. /\ pending /\ partial = 0
          /\ memory(record)' = written(memory(record), mem_addr, buffer)
      BY <1>2, <2>4, Landing
    <3>2. /\ prg_byte_cntr >= unit /\ done = prg_byte_cntr - unit /\ mem_addr = address(record.addr) + done
      BY <3>1 DEF Placed, done
    <3>3. done' = prg_byte_cntr /\ received' = prg_byte_cntr
      <4>1. ~pending' BY <1>6, <2>4
      <4>2. received = prg_byte_cntr BY <1>4, <1>5, <3>1
      <4> QED BY <1>3, <4>1, <4>2 DEF done, Rests
    <3>4. done \in Nat /\ prg_byte_cntr = done + unit BY <1>4, <3>2
    <3>5. ASSUME NEW i \in 1 .. prg_byte_cntr PROVE Holds(memory(record)', record', i)
      <4> DEFINE a == address(record.addr) + i - 1
      <4>1. a \in Nat /\ i \in Nat BY <1>4
      <4>2. mem_addr \in Nat /\ DOMAIN buffer = 0 .. unit - 1 BY <1>4, <3>2, <3>4
      <4>3. CASE i <= done
        <5>1. i \in 1 .. done BY <3>4, <4>1, <4>3
        <5>2. a \in DOMAIN memory(record) /\ memory(record)[a] = record.payload[i]
          BY <2>2, <5>1 DEF Holds
        <5>3. a < mem_addr BY <1>4, <3>2, <3>4, <4>1, <4>3
        <5> HIDE DEF a
        <5>4. a \in DOMAIN written(memory(record), mem_addr, buffer)
              /\ written(memory(record), mem_addr, buffer)[a] = record.payload[i]
          BY <1>4, <4>1, <4>2, <5>2, <5>3, WrittenOutside
        <5> QED BY <1>2, <3>1, <5>4 DEF Holds, a
      <4>4. CASE i > done
        <5> DEFINE j == i - 1 - done
        <5>1. j \in 0 .. unit - 1 /\ done + j + 1 = i /\ a = mem_addr + j
          BY <1>4, <3>2, <3>4, <4>1, <4>4
        <5>2. done + j < received BY <1>3, <3>3, <3>4, <4>1, <4>4
        <5> HIDE DEF a, j
        <5>3. buffer[j] = record.payload[i] BY <2>2, <5>1, <5>2
        <5>4. a \in DOMAIN written(memory(record), mem_addr, buffer)
              /\ written(memory(record), mem_addr, buffer)[a] = buffer[j]
          <6>1. unit \in Nat BY <1>4
          <6>2. /\ mem_addr + j \in DOMAIN written(memory(record), mem_addr, buffer)
                /\ written(memory(record), mem_addr, buffer)[mem_addr + j] = buffer[j]
            <7> DEFINE m == memory(record)
                       b == buffer
            <7>1. DOMAIN b = 0 .. unit - 1 BY <4>2
            <7> HIDE DEF m, b
            <7>2. mem_addr + j \in DOMAIN written(m, mem_addr, b) /\ written(m, mem_addr, b)[mem_addr + j] = b[j]
              BY <6>1, <4>2, <5>1, <7>1, WrittenInside
            <7> QED BY <7>2 DEF m, b
          <6> QED BY <6>2, <5>1, Zenon
        <5> QED BY <1>2, <3>1, <5>3, <5>4 DEF Holds, a
      <4> QED BY <3>4, <4>1, <4>3, <4>4
    <3>6. ASSUME NEW j \in 0 .. unit - 1 PROVE ~(done' + j < received')
      BY <1>4, <3>3
    <3> QED BY <1>3, <3>3, <3>5, <3>6
  <2> QED BY <2>3, <2>4
<1> QED BY <1>8, <1>9

\* The payload begins with nothing taken.
LEMMA HeaderData ==
  ASSUME SlowLine, Control, Control', Placed, Next, current_state \in HeaderStates
  PROVE  Placed' /\ Contents' /\ imem' = imem /\ dram' = dram /\ rec' = rec
<1> USE DEF In
<1>1. ~lands BY DEF lands, Control, Strobes, HeaderStates
<1>2. /\ imem_we' = FALSE
      /\ current_state' \in HeaderStates
           \/ (current_state' = "PROGRAM_BYTES" /\ UNCHANGED progress)
  <2>1. BootClock(rx, tx_valid, mem_ready) BY DEF Next
  <2>2. CheckSumByte(rx) \/ RecordLength(rx) \/ DestMemByte(rx) \/ StartAddrBytes(rx) \/ BootWait(rx, tx_valid)
    BY <2>1 DEF HeaderStates, BootClock, PayloadByte, ImemWord, DramWord, DramWrite, SumByte, Reply,
                      Finished, Took
  <2> QED BY <2>2 DEF CheckSumByte, RecordLength, DestMemByte, StartAddrBytes, BootWait, NoWrite, NoStrobe,
        Goto, HeaderStates, Took
<1>3. rec' = rec
  <2>1. ~tx_valid BY DEF Control, Replying, HeaderStates
  <2>2. CASE rx # None BY <2>2, Takes DEF Control
  <2>3. CASE rx = None BY <2>1, <2>3, Listens DEF Control
  <2> QED BY <2>2, <2>3
<1>4. CASE current_state' \in HeaderStates
  BY <1>1, <1>2, <1>3, <1>4, MemoryRests DEF Placed, Contents, pending, HeaderStates, PayloadStates
<1>5. CASE current_state' = "PROGRAM_BYTES" /\ UNCHANGED progress
  <2>1. check_sum_ctr' = 0 /\ pyld_cntr' = 0 /\ prg_byte_cntr' = 0
    BY <1>5 DEF progress, Control, Records
  <2>2. rec \in 1 .. Len(Image) /\ rec' \in 1 .. Len(Image)
    <3>1. rec' <= Len(Image) /\ rec \in 1 .. Len(Image) + 1
      BY <1>5 DEF Control, InPayload, PayloadStates, HostTypes
    <3> QED BY <1>3, <3>1, Constants
  <2>3. 0 \in 0 .. WORD - 1 BY Constants
  <2>4. received' = 0 /\ partial' = 0
    <3>1. received' = count(0, 0) BY <2>1 DEF received
    <3>2. count(0, 0) = 0 BY <2>2, <2>3, CountWords
    <3>3. inBlock(0, 0) = 0 BY <2>3, InBlock
    <3> QED BY <2>1, <3>1, <3>2, <3>3 DEF partial
  <2>5. ~pending' /\ done' = 0 BY <1>2, <1>5, <2>1 DEF pending, done
  <2>6. 0 % BlockBytes = 0 BY Constants
  <2>7. received' = prg_byte_cntr' + partial' BY <2>1, <2>4
  <2>8. Placed' BY <1>2, <1>5, <2>1, <2>5, <2>6, <2>7 DEF Placed
  <2>9. Contents'
    <3>1. \A i \in 1 .. done' : FALSE BY <2>5
    <3>2. \A j \in 0 .. unit' - 1 : ~(done' + j < received')
      <4>1. unit' \in Nat \ {0} BY Constants DEF unit
      <4>2. \A j \in 0 .. unit' - 1 : ~(0 + j < 0) BY <4>1
      <4> QED BY <2>4, <2>5, <4>2
    <3> QED BY <3>1, <3>2 DEF Contents
  <2> QED BY <1>1, <1>3, <2>8, <2>9, MemoryRests
<1> QED BY <1>2, <1>4, <1>5

-----------------------------------------------------------------------------
(* The whole invariant.                                                     *)

\* At reset there is no reply.
LEMMA InitReplying == Init => Replying
BY BootAssumption DEF Init, BootInit, Replying

\* What a step of the state machine does to the reply.
LEMMA BootStep ==
  ASSUME Next
  PROVE  \/ current_state' = current_state /\ tx_start' = None /\ boot_active' = boot_active
              /\ (current_state = "REPLY" => ~tx_valid)
         \/ current_state \notin {"REPLY", "FINISHED"} /\ current_state' \notin {"REPLY", "FINISHED"}
              /\ tx_start' = None /\ boot_active' = boot_active
         \/ current_state = "SUM_BYTE" /\ current_state' = "REPLY" /\ boot_active' = boot_active
         \/ current_state = "REPLY" /\ tx_valid /\ tx_start' = None /\ boot_active' = boot_active
         \/ current_state = "FINISHED" /\ current_state' = "FINISHED" /\ tx_start' = None
              /\ ~boot_active'
<1> USE DEF NoWrite, NoStrobe, Goto, Took, outcome, Receiving
<1>1. BootClock(rx, tx_valid, mem_ready) BY DEF Next
<1>2. CASE CheckSumByte(rx) \/ RecordLength(rx) \/ DestMemByte(rx)
  BY <1>2 DEF CheckSumByte, RecordLength, DestMemByte
<1>3. CASE StartAddrBytes(rx)
  BY <1>3 DEF StartAddrBytes
<1>4. CASE PayloadByte(rx) \/ ImemWord(rx) \/ DramWord(rx)
  BY <1>4 DEF PayloadByte, ImemWord, DramWord
<1>5. CASE DramWrite(mem_ready)
  BY <1>5 DEF DramWrite
<1>6. CASE SumByte(rx)
  BY <1>6 DEF SumByte
<1>7. CASE Reply(tx_valid)
  BY <1>7 DEF Reply
<1>8. CASE Finished
  BY <1>8 DEF Finished
<1>9. CASE BootWait(rx, tx_valid)
  BY <1>9 DEF BootWait
<1> QED BY <1>1, <1>2, <1>3, <1>4, <1>5, <1>6, <1>7, <1>8, <1>9 DEF BootClock

\* A step keeps the reply where it belongs.
LEMMA ReplyingStep == Replying /\ Next => Replying'
<1> SUFFICES ASSUME Replying, Next PROVE Replying' OBVIOUS
<1>1. /\ tx_left' = IF tx_start # None THEN REPLY_TIME ELSE IF tx_left > 0 THEN tx_left - 1 ELSE 0
      /\ tx_valid' <=> tx_left = 1
  BY DEF Next, Tx
<1>2. REPLY_TIME \in Nat BY SystemAssumption
<1>3. tx_start = None /\ tx_left = 0 => tx_left' = 0 /\ ~tx_valid' BY <1>1
<1>4. tx_left' \in Nat BY <1>1, <1>2 DEF Replying
<1>5. CASE current_state = "REPLY" /\ ~tx_valid /\ current_state' = "REPLY" /\ tx_start' = None
             /\ boot_active' = boot_active
  BY <1>1, <1>4, <1>5 DEF Replying
<1>6. CASE current_state # "REPLY" /\ current_state' # "REPLY" /\ tx_start' = None
             /\ (current_state' # "FINISHED" => boot_active' = boot_active)
             /\ (current_state' # "FINISHED" => current_state # "FINISHED")
  BY <1>3, <1>4, <1>6 DEF Replying
<1>7. CASE current_state = "SUM_BYTE" /\ current_state' = "REPLY" /\ boot_active' = boot_active
  BY <1>3, <1>4, <1>7 DEF Replying
<1>8. CASE current_state = "REPLY" /\ tx_valid /\ tx_start' = None /\ boot_active' = boot_active
  BY <1>3, <1>4, <1>8 DEF Replying
<1> QED BY <1>5, <1>6, <1>7, <1>8, BootStep

\* The reply leaves through the uart_tx of the bootloader: the pin goes over to the core's
\* uart only after the last stop bit.
THEOREM ReplyLeaves == Spec => []ReplyOnPin
<1>1. Replying => ReplyOnPin BY DEF Replying, ReplyOnPin
<1>2. Replying /\ UNCHANGED vars => Replying'
  BY DEF Replying, vars, bootVars, outcome, txVars
<1> QED BY <1>1, <1>2, InitReplying, ReplyingStep, PTL DEF Spec

\* A byte that has come finds the machine in a state that takes it.
LEMMA Takeable ==
  ASSUME HostTypes, MachineTypes, InPayload, Records, rx # None
  PROVE  current_state \in HeaderStates \union {"PROGRAM_BYTES", "SUM_BYTE"}
<1>1. rec <= Len(Image) /\ rec \in 1 .. Len(Image) + 1 BY DEF HostTypes
<1>2. current_state # "FINISHED"
  <2>1. ~(rec > Len(Image)) BY <1>1, Constants
  <2> QED BY <2>1 DEF Records, In
<1> QED BY <1>2 DEF MachineTypes, InPayload, In, PayloadStates

\* The control part holds at reset.
LEMMA InitControl == Init => Control
<1> SUFFICES ASSUME Init PROVE Control OBVIOUS
<1> USE DEF In
<1>1. /\ rec = 1 /\ pos = 1 /\ gap = BYTE_TIME /\ sum = 0 /\ garbled = FALSE /\ rx = None
      /\ tx_left = 0 /\ tx_valid = FALSE /\ low = POWER_UP /\ boot_sel = TRUE
      /\ current_state = "CHECK_SUM_BYTE" /\ hdr_ctr = 0 /\ record_ctr = 0
      /\ start_addr = [i \in 0..3 |-> 0] /\ mem_addr = 0 /\ imem_we = FALSE /\ dram_valid = FALSE
      /\ check_sum_ctr = 0 /\ pyld_cntr = 0 /\ sum_acc = 0 /\ prg_byte_cntr = 0 /\ sum_ok = FALSE
      /\ pyld_buff = [i \in 0 .. WORD - 1 |-> 0]
      /\ blk_buff = [i \in 0 .. BLOCK_WORDS * WORD - 1 |-> 0]
  BY DEF Init, BootInit
<1>2. due = 1 BY <1>1 DEF due
<1>3. 0 \in Byte
  <2>1. BYTES \in Nat /\ BYTES >= 2 BY Constants
  <2> QED BY <2>1 DEF Byte
<1>4. HostTypes
  <2>1. BYTE_TIME \in Nat \ {0} /\ Len(Image) \in 1 .. BYTES - 1 /\ BYTES \in Nat BY Constants
  <2>2. rec \in 1 .. Len(Image) + 1 /\ pos \in Nat \ {0} /\ gap \in 0 .. BYTE_TIME BY <1>1, <2>1
  <2> QED BY <1>1, <1>3, <2>2 DEF HostTypes
<1>5. MachineTypes
  <2>1. 0 \in 0 .. WORD - 1 BY Constants
  <2>2. hdr_ctr \in 0 .. 3 /\ check_sum_ctr \in Nat /\ pyld_cntr \in 0 .. WORD - 1
        /\ prg_byte_cntr \in Nat /\ mem_addr \in Nat /\ sum_acc \in Byte
    BY <1>1, <1>3, <2>1
  <2>3. start_addr \in [0 .. 3 -> Byte] /\ pyld_buff \in [0 .. WORD - 1 -> Byte]
        /\ blk_buff \in [0 .. BlockBytes - 1 -> Byte]
    BY <1>1, <1>3 DEF BlockBytes
  <2>4. current_state \in HeaderStates BY <1>1 DEF HeaderStates
  <2> QED BY <2>2, <2>3, <2>4 DEF MachineTypes
<1>6. Strobes /\ Replies /\ Owned /\ InHeader /\ Pace /\ HeaderWire /\ PayloadWire
  BY <1>1, <1>2 DEF Strobes, Replies, Owned, InHeader, Pace, HeaderWire, PayloadWire
<1>7. InPayload BY <1>1 DEF InPayload, PayloadStates
<1>8. Records
  <2>1. ~(rec > Len(Image)) /\ rec - 1 = 0 BY <1>1, Constants
  <2> QED BY <1>1, <2>1 DEF Records
<1>9. Header BY <1>2 DEF Header
<1>10. Sums
  <2>1. ~(pos \in 2 .. 8) /\ ~(pos \in 2 .. size + 8) BY <1>1
  <2> QED BY <1>1, <2>1 DEF Sums
<1>11. low \in Nat BY <1>1, Constants
<1> QED BY <1>4, <1>5, <1>6, <1>7, <1>8, <1>9, <1>10, <1>11, InitReplying, InitPoweringUp DEF Control

\* A clock keeps the control part.
LEMMA ControlStep ==
  ASSUME SlowLine, Control, Next
  PROVE  Control'
<1> USE DEF In
<1>1. /\ low \in Nat /\ PoweringUp /\ HostTypes /\ MachineTypes /\ Strobes /\ Replying /\ Replies /\ Owned
      /\ InHeader /\ InPayload /\ Records /\ Pace /\ Header /\ HeaderWire /\ PayloadWire /\ Sums
  BY DEF Control
<1>2. InHeader' /\ InPayload' /\ Records' /\ Pace' /\ Header'
  <2>1. CASE tx_valid BY <1>1, <2>1, ReplyStep
  <2>2. CASE ~tx_valid /\ rx = None BY <1>1, <2>2, QuietStep
  <2>3. CASE rx # None
    <3>1. CASE current_state \in HeaderStates BY <1>1, <2>3, <3>1, HeaderStep
    <3>2. CASE current_state = "PROGRAM_BYTES" BY <1>1, <2>3, <3>2, PayloadStep
    <3>3. CASE current_state = "SUM_BYTE" BY <1>1, <2>3, <3>3, SumStep
    <3> QED BY <1>1, <2>3, <3>1, <3>2, <3>3, Takeable
  <2> QED BY <2>1, <2>2, <2>3
<1>3. low' \in Nat /\ PoweringUp' BY <1>1, LowFalls, PoweringUpStep
<1>4. HostTypes' /\ MachineTypes' /\ Strobes' /\ Replying' /\ Replies' /\ Owned'
  BY <1>1, HostTypesStep, MachineTypesStep, StrobesStep, ReplyingStep, RepliesStep, OwnedStep
<1>5. HeaderWire' /\ PayloadWire' BY <1>1, HeaderWireStep, PayloadWireStep
<1>6. Sums' BY <1>1, <1>2, <1>4, SumsStep
<1> QED BY <1>2, <1>3, <1>4, <1>5, <1>6 DEF Control

\* A stutter keeps it.
LEMMA ControlRests ==
  ASSUME Control, UNCHANGED vars
  PROVE  Control'
<1> USE DEF vars, bootVars, header, progress, outcome, buffers, hostVars, txVars, portVars, coreVars, In
<1>1. PoweringUp' /\ (low \in Nat)' BY DEF Control, PoweringUp, InHeader, due
<1>2. HostTypes' BY DEF Control, HostTypes, size, record
<1>3. MachineTypes' /\ Strobes' BY DEF Control, MachineTypes, Strobes
<1>4. Replying' /\ Replies' /\ Owned' BY DEF Control, Replying, Replies, Owned
<1>5. InHeader' /\ InPayload' /\ Records' /\ Pace'
  BY DEF Control, InHeader, InPayload, Records, Pace, due, received, size, record
<1>6. Header' /\ HeaderWire' /\ PayloadWire'
  BY DEF Control, Header, HeaderWire, PayloadWire, due, size, record
<1>7. Sums' BY DEF Control, Sums, acc, size, record
<1> QED BY <1>1, <1>2, <1>3, <1>4, <1>5, <1>6, <1>7 DEF Control

\* The bootloader ignores rx_valid in two states; a host whose bytes come further apart
\* than the SDRAM needs for a block never sends one into them.
THEOREM NothingDropped == SlowLine => (Spec => []NoByteDropped)
<1> SUFFICES ASSUME SlowLine PROVE Spec => []NoByteDropped OBVIOUS
<1>1. Control /\ [Next]_vars => Control' BY ControlStep, ControlRests
<1>2. Control => NoByteDropped
  <2> SUFFICES ASSUME Control, rx # None PROVE current_state \in Receiving BY DEF NoByteDropped
  <2> QED BY Takeable DEF Control, Receiving, HeaderStates
<1> QED BY <1>1, <1>2, InitControl, PTL DEF Spec

-----------------------------------------------------------------------------
\* The data part.
Data == Placed /\ Contents

\* The data part holds at reset.
LEMMA InitData == Init => Data
BY DEF Init, BootInit, Data, Placed, Contents, In, pending, PayloadStates

\* The machine leaves its record, or has left the last one.
LEMMA NoRecordData ==
  ASSUME imem_we' = FALSE, current_state' \in {"CHECK_SUM_BYTE", "FINISHED"}
  PROVE  Data'
BY DEF Data, Placed, Contents, In, pending, PayloadStates

\* A clock keeps the data part.
LEMMA DataStep ==
  ASSUME SlowLine, Control, Data, Next
  PROVE  Data'
<1> USE DEF In
<1>1. Control' BY ControlStep
<1>2. Placed /\ Contents BY DEF Data
<1>3. CASE tx_valid
  <2>1. Reply(tx_valid) /\ current_state' \in {"CHECK_SUM_BYTE", "FINISHED"}
    BY <1>3, ReplyStep DEF Control
  <2>2. imem_we' = FALSE BY <2>1 DEF Reply, NoWrite, NoStrobe
  <2> QED BY <2>1, <2>2, NoRecordData
<1>4. CASE current_state \in HeaderStates BY <1>1, <1>2, <1>4, HeaderData DEF Data
<1>5. CASE current_state \in PayloadStates /\ ~tx_valid
  <2>1. CASE rx # None /\ current_state = "PROGRAM_BYTES" BY <1>2, <2>1, ByteData DEF Data
  <2>2. CASE ~(rx # None /\ current_state = "PROGRAM_BYTES")
    <3>1. Rests BY <1>5, <2>2, AllRests
    <3> QED BY <1>2, <1>5, <3>1, RestData DEF Data
  <2> QED BY <2>1, <2>2
<1>6. CASE current_state = "FINISHED"
  <2>1. BootClock(rx, tx_valid, mem_ready) BY DEF Next
  <2>2. imem_we' = FALSE /\ current_state' = "FINISHED"
    BY <1>6, <2>1 DEF BootClock, CheckSumByte, RecordLength, DestMemByte, StartAddrBytes, PayloadByte,
      ImemWord, DramWord, DramWrite, SumByte, Reply, Finished, BootWait, NoWrite, NoStrobe, Took, Receiving
  <2> QED BY <2>2, NoRecordData
<1> QED BY <1>3, <1>4, <1>5, <1>6 DEF Control, MachineTypes

\* A stutter keeps it.
LEMMA DataRests ==
  ASSUME Data, UNCHANGED vars
  PROVE  Data'
<1> USE DEF vars, bootVars, header, progress, outcome, buffers, hostVars, txVars, portVars, coreVars, In
<1>1. Placed' BY DEF Data, Placed, received, partial, pending, unit, record
<1>2. Contents' BY DEF Data, Contents, received, pending, unit, record, done, memory, buffer, Holds
<1> QED BY <1>1, <1>2 DEF Data

\* What an acknowledged record left behind.
LEMMA RecordWritten ==
  ASSUME Control, Data, In("REPLY"), sum_ok
  PROVE  Written(record) /\ ~lands
<1> USE DEF In
<1>1. rec \in 1 .. Len(Image) BY AtPayload DEF PayloadStates
<1>2. ~pending /\ ~lands BY DEF Control, Strobes, pending, lands
<1>3. ~garbled BY <1>1 DEF Control, Sums
<1>4. done = size
  <2>1. received = size BY DEF Control, InPayload
  <2>2. received = prg_byte_cntr + partial /\ partial = 0 BY DEF Data, Placed, PayloadStates
  <2>3. prg_byte_cntr \in Nat BY DEF Control, MachineTypes
  <2> QED BY <1>2, <2>1, <2>2, <2>3 DEF done
<1>5. \A i \in 1 .. size : Holds(memory(record), record, i)
  BY <1>3, <1>4 DEF Data, Contents, PayloadStates
<1>6. DOMAIN record.payload = 1 .. size BY <1>1, RecordFacts DEF record, size
<1> QED BY <1>2, <1>5, <1>6 DEF Written, memory

\* An acknowledgement on the line says that the record is in the memory it names.
THEOREM AcksAreTrue == SlowLine => (Spec => []AckMeansWritten)
<1> SUFFICES ASSUME SlowLine PROVE Spec => []AckMeansWritten OBVIOUS
<1>1. Init => Control /\ Data BY InitControl, InitData
<1>2. Control /\ Data /\ [Next]_vars => Control' /\ Data'
  BY ControlStep, ControlRests, DataStep, DataRests
<1>3. Control /\ Data => AckMeansWritten
  <2> SUFFICES ASSUME Control, Data, tx_left > 0, tx_byte = ACK PROVE Written(Image[rec])
    BY DEF AckMeansWritten
  <2>1. In("REPLY") /\ tx_start = None
    <3>1. tx_left # 0 BY DEF Control, Replying
    <3> QED BY <3>1 DEF Control, Replying, In
  <2>2. sum_ok BY <2>1, Constants DEF Control, Replies
  <2> QED BY <2>1, <2>2, RecordWritten DEF record
<1> QED BY <1>1, <1>2, <1>3, PTL DEF Spec

-----------------------------------------------------------------------------
\* At reset nothing has been acknowledged.
LEMMA InitEarlier == Init => Earlier
<1> SUFFICES ASSUME Init PROVE Earlier OBVIOUS
<1>1. rec = 1 BY DEF Init
<1> QED BY <1>1 DEF Earlier

\* A write for one record leaves the other records alone.
LEMMA OthersKept ==
  ASSUME Disjoint, Control, Data, Next, lands, NEW k \in 1 .. Len(Image), k # rec, Written(Image[k])
  PROVE  Written(Image[k])'
<1> DEFINE r == Image[k]
           A == address(record.addr)
<1>1. /\ pending /\ partial = 0 /\ rec \in 1 .. Len(Image)
      /\ record.dest = DEST_IMEM => imem' = written(imem, mem_addr, buffer) /\ dram' = dram
      /\ record.dest = DEST_DRAM => dram' = written(dram, mem_addr, buffer) /\ imem' = imem
      /\ current_state \in PayloadStates
  BY Landing DEF Data
<1>2. /\ unit \in Nat \ {0} /\ prg_byte_cntr \in Nat /\ A \in Nat /\ size \in Nat
      /\ buffer \in [0 .. unit - 1 -> Byte]
  BY <1>1, PartialFacts DEF Control
<1>3. /\ r.payload \in Seq(Byte) /\ r.dest \in {DEST_IMEM, DEST_DRAM} /\ DEST_IMEM # DEST_DRAM
      /\ address(r.addr) \in Nat /\ Len(r.payload) \in Nat
      /\ record.dest \in {DEST_IMEM, DEST_DRAM}
  BY <1>1, RecordFacts DEF record
<1>4. prg_byte_cntr <= size /\ prg_byte_cntr >= unit /\ mem_addr = A + (prg_byte_cntr - unit)
  <2>1. received <= size BY <1>1 DEF Control, InPayload
  <2>2. received = prg_byte_cntr BY <1>1, <1>2 DEF Data, Placed
  <2> QED BY <1>1, <2>1, <2>2 DEF Data, Placed
<1>5. mem_addr \in Nat /\ A <= mem_addr /\ mem_addr + unit <= A + size BY <1>2, <1>4
<1>6. DOMAIN r.payload = 1 .. Len(r.payload) BY <1>3
<1>7. SUFFICES ASSUME NEW i \in 1 .. Len(r.payload)
               PROVE  Holds(IF r.dest = DEST_IMEM THEN imem' ELSE dram', r, i)
  BY <1>6 DEF Written, Holds
<1> DEFINE a == address(r.addr) + i - 1
<1>8. a \in Nat /\ a >= address(r.addr) /\ a < address(r.addr) + Len(r.payload) BY <1>3
<1>9. Holds(IF r.dest = DEST_IMEM THEN imem ELSE dram, r, i) BY <1>6 DEF Written
<1>10. CASE r.dest # record.dest
  <2>1. (IF r.dest = DEST_IMEM THEN imem' ELSE dram') = (IF r.dest = DEST_IMEM THEN imem ELSE dram)
    BY <1>1, <1>3, <1>10
  <2> QED BY <1>9, <2>1
<1>11. CASE r.dest = record.dest
  <2> DEFINE m == IF r.dest = DEST_IMEM THEN imem ELSE dram
  <2>1. (IF r.dest = DEST_IMEM THEN imem' ELSE dram') = written(m, mem_addr, buffer)
    BY <1>1, <1>3, <1>11
  <2>2. \/ address(r.addr) + Len(r.payload) <= A
        \/ A + size <= address(r.addr)
    <3>1. k \in DOMAIN Image /\ rec \in DOMAIN Image
      <4>1. DOMAIN Image = 1 .. Len(Image) BY ImageAssumption
      <4> QED BY <1>1, <4>1
    <3> QED BY <1>11, <3>1 DEF Disjoint, record, size
  <2>3. a < mem_addr \/ a >= mem_addr + unit
    <3> HIDE DEF a, A
    <3> QED BY <1>2, <1>3, <1>5, <1>8, <2>2
  <2>4. a \in DOMAIN m /\ m[a] = r.payload[i] BY <1>9 DEF Holds
  <2>5. DOMAIN buffer = 0 .. unit - 1 /\ unit \in Nat BY <1>2
  <2>6. a \in DOMAIN written(m, mem_addr, buffer) /\ written(m, mem_addr, buffer)[a] = m[a]
    <3> HIDE DEF a, m
    <3> QED BY <1>5, <1>8, <2>3, <2>4, <2>5, WrittenOutside
  <2> QED BY <2>1, <2>4, <2>6 DEF Holds
<1> QED BY <1>10, <1>11

\* The records already acknowledged stay written, and the next joins them.
LEMMA EarlierStep ==
  ASSUME SlowLine, Disjoint, Control, Data, Earlier, Next
  PROVE  Earlier'
<1>1. rec \in 1 .. Len(Image) + 1 /\ Len(Image) \in Nat BY Constants DEF Control, HostTypes
<1>2. CASE tx_valid
  <2>1. /\ rec \in 1 .. Len(Image) /\ rec' = (IF sum_ok THEN rec + 1 ELSE rec)
    BY <1>2, ReplyStep DEF Control
  <2>2. In("REPLY") BY <1>2 DEF Control, Replying, In
  <2>3. ~lands BY <2>2 DEF Control, Strobes, lands, In
  <2>4. imem' = imem /\ dram' = dram BY <2>3, MemoryRests
  <2>5. ASSUME NEW k \in 1 .. rec' - 1 PROVE Written(Image[k])
    <3>1. CASE k \in 1 .. rec - 1 BY <3>1 DEF Earlier
    <3>2. CASE k \notin 1 .. rec - 1
      <4>1. k = rec /\ sum_ok BY <1>1, <2>1, <3>2
      <4> QED BY <2>2, <4>1, RecordWritten DEF record
    <3> QED BY <3>1, <3>2
  <2> QED BY <2>4, <2>5 DEF Earlier, Written, Holds
<1>3. CASE ~tx_valid
  <2>1. rec' = rec
    <3>1. CASE rx # None BY <3>1, Takes DEF Control
    <3>2. CASE rx = None BY <1>3, <3>2, Listens DEF Control
    <3> QED BY <3>1, <3>2
  <2>2. CASE ~lands
    <3>1. imem' = imem /\ dram' = dram BY <2>2, MemoryRests
    <3> QED BY <2>1, <3>1 DEF Earlier, Written, Holds
  <2>3. CASE lands
    <3>1. ASSUME NEW k \in 1 .. rec - 1 PROVE Written(Image[k])'
      <4>1. k \in 1 .. Len(Image) /\ k # rec BY <1>1
      <4>2. Written(Image[k]) BY DEF Earlier
      <4> QED BY <2>3, <4>1, <4>2, OthersKept
    <3> QED BY <2>1, <3>1 DEF Earlier
  <2> QED BY <2>2, <2>3
<1> QED BY <1>2, <1>3

\* The core leaves reset with every record in its memory, unless two records of one
\* memory overlap: the later of those is then there, and the earlier partly.
THEOREM ReleasedOnImage == SlowLine /\ Disjoint => (Spec => []CoreStartsOnImage)
<1> SUFFICES ASSUME SlowLine, Disjoint PROVE Spec => []CoreStartsOnImage OBVIOUS
<1> DEFINE Inv == Control /\ Data /\ Earlier
<1>1. Init => Inv BY InitControl, InitData, InitEarlier
<1>2. Inv /\ [Next]_vars => Inv'
  <2>1. Inv /\ Next => Inv' BY ControlStep, DataStep, EarlierStep
  <2>2. Inv /\ UNCHANGED vars => Inv'
    <3>1. Earlier /\ UNCHANGED vars => Earlier'
      BY DEF Earlier, Written, Holds, vars, hostVars, portVars
    <3> QED BY <3>1, ControlRests, DataRests
  <2> QED BY <2>1, <2>2
<1>3. Inv => CoreStartsOnImage
  <2> SUFFICES ASSUME Control, Earlier, ~boot_active, NEW i \in DOMAIN Image
               PROVE  Written(Image[i])
    BY DEF CoreStartsOnImage
  <2>1. rec > Len(Image) BY DEF Control, Replying, Records, In
  <2>2. rec \in 1 .. Len(Image) + 1 /\ Len(Image) \in Nat /\ i \in 1 .. Len(Image)
    <3>1. DOMAIN Image = 1 .. Len(Image) BY ImageAssumption
    <3> QED BY <3>1, Constants DEF Control, HostTypes
  <2>3. i \in 1 .. rec - 1 BY <2>1, <2>2
  <2> QED BY <2>3 DEF Earlier
<1> QED BY <1>1, <1>2, <1>3, PTL DEF Spec

-----------------------------------------------------------------------------
\* Once the core is released, the port is its own by the first mem_ready; until then the
\* clocks the core has had and those mem_ready may stay low are at most LOW together.
HandingOver ==
  /\ low \in Nat /\ core_wait \in 0..FIRST
  /\ boot_active => core = "reset" /\ core_wait = 0 /\ boot_sel
  /\ ~boot_active => low <= LOW
  /\ ~boot_active /\ boot_sel /\ mem_ready => core_wait <= LOW + 1
  /\ ~boot_active /\ boot_sel /\ ~mem_ready => core_wait + low <= LOW
  /\ core # "reset" => ~boot_sel
  /\ HandoffKeepsRequest

\* At reset the port is the loader's and the core is silent.
LEMMA InitHandingOver == Init => HandingOver
BY Constants DEF Init, BootInit, HandingOver, HandoffKeepsRequest

\* A clock keeps the countdown.
LEMMA HandingOverStep ==
  ASSUME LOW < FIRST, Replying, PoweringUp, HandingOver, Next
  PROVE  HandingOver'
<1>1. LOW \in Nat /\ FIRST \in Nat BY Constants
<1>2. boot_active' => boot_active BY BootStep DEF Replying
<1>3. /\ \/ core = "reset" /\ boot_active /\ UNCHANGED <<core, core_wait>>
         \/ /\ core = "reset" /\ ~boot_active
            /\ core_wait' = IF core_wait = FIRST THEN FIRST ELSE core_wait + 1
            /\ core' \in (IF core_wait = FIRST THEN {"reset", "asking"} ELSE {"reset"})
         \/ /\ core = "asking" /\ core' = IF mem_ready THEN "asked" ELSE "asking"
            /\ UNCHANGED core_wait
         \/ core = "asked" /\ UNCHANGED <<core, core_wait>>
      /\ boot_sel' = IF mem_ready THEN boot_active ELSE boot_sel
  BY DEF Next, Core, Owner
<1>4. \/ mem_ready /\ low' = LOW
      \/ ~mem_ready /\ low = 0 /\ mem_ready' /\ low' = 0
      \/ ~mem_ready /\ low > 0 /\ low' = low - 1
  <2>1. /\ mem_ready => low' = LOW
        /\ ~mem_ready /\ low = 0 => mem_ready' /\ low' = 0
        /\ ~mem_ready /\ low # 0 => low' = low - 1
    BY Zenon DEF Next, Sdram
  <2> QED BY <1>1, <2>1 DEF HandingOver
<1>5. served' = IF mem_ready /\ cpu_in_valid THEN ~boot_sel ELSE served
  BY DEF Next, Sdram
<1>6. low' \in Nat /\ core_wait' \in 0..FIRST
  BY <1>1, <1>3, <1>4 DEF HandingOver
<1>7. boot_active' => core' = "reset" /\ core_wait' = 0 /\ boot_sel'
  BY <1>2, <1>3 DEF HandingOver
<1>8. ~boot_active' => low <= LOW /\ low' <= LOW
  <2>1. ASSUME ~boot_active' PROVE low <= LOW
    <3>1. CASE ~boot_active BY <3>1 DEF HandingOver
    <3>2. CASE boot_active
      <4>1. current_state = "FINISHED" BY <2>1, <3>2, BootStep
      <4>2. ~(low > LOW) BY <4>1 DEF PoweringUp, HeaderStates
      <4> QED BY <1>1, <4>2 DEF HandingOver
    <3> QED BY <3>1, <3>2
  <2>2. low <= LOW => low' <= LOW BY <1>1, <1>4 DEF HandingOver
  <2> QED BY <2>1, <2>2
<1>9. CASE boot_active
  <2>1. core' = "reset" /\ core_wait' = 0 BY <1>3, <1>9 DEF HandingOver
  <2>2. core_wait' <= LOW + 1 /\ (~boot_active' => core_wait' + low' <= LOW)
    <3>1. 0 <= LOW + 1 /\ \A l \in Nat : l <= LOW => 0 + l <= LOW BY <1>1
    <3> QED BY <1>6, <1>8, <2>1, <3>1, Zenon
  <2>3. core' # "asked" BY <2>1
  <2> QED BY <1>6, <1>7, <1>8, <2>1, <2>2, <2>3, Zenon DEF HandingOver, HandoffKeepsRequest
<1>10. CASE ~boot_active /\ boot_sel /\ ~mem_ready
  <2>1. boot_sel' /\ ~boot_active' BY <1>2, <1>3, <1>10
  <2>2. core = "reset" /\ core_wait + low <= LOW BY <1>10 DEF HandingOver
  <2>3. core' = "reset" /\ core_wait' = core_wait + 1
    BY <1>1, <1>3, <1>6, <1>10, <2>2 DEF HandingOver
  <2>4. /\ mem_ready' => core_wait' <= LOW + 1
        /\ ~mem_ready' => core_wait' + low' <= LOW
    BY <1>1, <1>4, <1>10, <2>2, <2>3 DEF HandingOver
  <2>5. core' # "asked" BY <2>3
  <2> QED BY <1>6, <1>8, <2>1, <2>3, <2>4, <2>5, Zenon DEF HandingOver, HandoffKeepsRequest
<1>11. CASE ~boot_active /\ (~boot_sel \/ mem_ready)
  <2>1. ~boot_sel' /\ ~boot_active' BY <1>2, <1>3, <1>11
  <2>2. ASSUME core' = "asked" PROVE served'
    <3>1. CASE core = "asked"
      <4>1. ~boot_sel /\ served BY <3>1 DEF HandingOver, HandoffKeepsRequest
      <4> QED BY <1>5, <4>1
    <3>2. CASE core = "asking" /\ mem_ready
      <4>1. ~boot_sel BY <3>2 DEF HandingOver
      <4>2. cpu_in_valid BY <3>2, <4>1 DEF cpu_in_valid
      <4> QED BY <1>5, <3>2, <4>1, <4>2
    <3> QED BY <1>3, <2>2, <3>1, <3>2
  <2> QED BY <1>6, <1>8, <2>1, <2>2, Zenon DEF HandingOver, HandoffKeepsRequest
<1> QED BY <1>9, <1>10, <1>11

\* The core's first request finds the port its own and reaches the controller, if it comes
\* later than mem_ready can stay low.
THEOREM HandoffSafe == LOW < FIRST => (Spec => []HandoffKeepsRequest)
<1> SUFFICES ASSUME LOW < FIRST PROVE Spec => []HandoffKeepsRequest OBVIOUS
<1> DEFINE Inv == Replying /\ PoweringUp /\ HandingOver
<1>1. Init => Inv BY InitReplying, InitPoweringUp, InitHandingOver
<1>2. Inv /\ [Next]_vars => Inv'
  <2>1. Inv /\ UNCHANGED vars => Inv'
    BY DEF Replying, PoweringUp, InHeader, In, due, HandingOver, HandoffKeepsRequest, vars, bootVars,
           header, outcome, hostVars, txVars, portVars, coreVars
  <2>2. Inv /\ Next => Inv'
    <3>1. HandingOver => low \in Nat BY DEF HandingOver
    <3> QED BY <3>1, ReplyingStep, PoweringUpStep, HandingOverStep
  <2> QED BY <2>1, <2>2
<1>3. Inv => HandoffKeepsRequest BY DEF HandingOver
<1> QED BY <1>1, <1>2, <1>3, PTL DEF Spec
=============================================================================
