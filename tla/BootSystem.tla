----------------------------- MODULE BootSystem -----------------------------
(***************************************************************************)
(* Booting (rtl/RV32I.v): a host sends an image over a serial line that    *)
(* may garble bytes, the bootloader writes it through the memory port it   *)
(* owns while boot_sel is up, and the port then goes over to the core.     *)
(* A step is a clock; a byte takes BYTE_TIME of them on the wire.          *)
(***************************************************************************)
EXTENDS Bootloader, Sequences

CONSTANTS Image,        \* the records: dest, addr (four bytes), words, payload
          BYTE_TIME,    \* clocks between two bytes of the host
          REPLY_TIME,   \* clocks a reply takes
          POWER_UP,     \* most clocks, less one, that mem_ready stays low at first
          LOW,          \* and after that
          FIRST,        \* clocks from reset to the core's first memory request
          ERRORS,       \* garbled bytes, over the whole load
          Deltas        \* by how much a garbled byte is off

\* The SDRAM is up before the first header has been sent.
ASSUME SystemAssumption ==
  /\ {BYTE_TIME, REPLY_TIME, POWER_UP, LOW, FIRST} \subseteq Nat \ {0} /\ ERRORS \in Nat
  /\ Deltas \subseteq 1 .. BYTES - 1
  /\ POWER_UP <= 7 * BYTE_TIME

Record == [dest : {DEST_IMEM, DEST_DRAM}, addr : [0 .. 3 -> Byte], words : Byte \ {0},
           payload : Seq(Byte)]

\* What the loader enforces: whole words, for the SDRAM whole blocks, inside the memory.
ASSUME ImageAssumption ==
  /\ Image \in Seq(Record) /\ Len(Image) \in Byte \ {0}
  /\ \A k \in DOMAIN Image :
       LET r == Image[k]
       IN  /\ Len(r.payload) = r.words * WORD
           /\ address(r.addr) + Len(r.payload) < AddrSpace
           /\ r.dest = DEST_DRAM => /\ r.words % BLOCK_WORDS = 0
                                    /\ address(r.addr) % (BLOCK_WORDS * WORD) = 0

VARIABLES rec, pos, gap, sum,        \* the host: next byte, clocks to it, sum so far
          errors, garbled,           \* the line: errors left, one in this record
          rx,                        \* rx_out of the rx_valid pulse, or None
          tx_left, tx_byte, tx_valid,
          imem, dram,                \* byte address -> byte, where written
          mem_ready, low,            \* the SDRAM port, and clocks it may stay low
          boot_sel,
          core, core_wait,           \* the core's first miss
          served                     \* that request has reached the controller

hostVars == <<rec, pos, gap, sum, errors, garbled, rx>>
txVars   == <<tx_left, tx_byte, tx_valid>>
portVars == <<imem, dram, mem_ready, low, boot_sel>>
coreVars == <<core, core_wait, served>>
vars     == <<bootVars, hostVars, txVars, portVars, coreVars>>

headerOf(r) == <<r.words, Len(Image), r.dest, r.addr[0], r.addr[1], r.addr[2], r.addr[3]>>

Init ==
  /\ BootInit
  /\ rec = 1 /\ pos = 1 /\ gap = BYTE_TIME /\ sum = 0 /\ errors = ERRORS /\ garbled = FALSE
  /\ rx = None
  /\ tx_left = 0 /\ tx_byte = None /\ tx_valid = FALSE
  /\ imem = <<>> /\ dram = <<>>
  /\ mem_ready = FALSE /\ low = POWER_UP /\ boot_sel = TRUE
  /\ core = "reset" /\ core_wait = 0 /\ served = FALSE

-----------------------------------------------------------------------------
(* The host and the line.                                                   *)

payload == Image[rec].payload

\* Header, payload, and the sum of the payload.
sending  == rec <= Len(Image) /\ pos <= Len(payload) + 8
outgoing == IF pos <= 7 THEN headerOf(Image[rec])[pos]
            ELSE IF pos <= Len(payload) + 7 THEN payload[pos - 7] ELSE sum

\* The line garbles at most one byte of a record, and none of its header: the sum
\* covers no more.
Arrives(byte) ==
  \/ rx' = byte /\ garbled' = (garbled /\ pos > 1) /\ UNCHANGED errors
  \/ /\ errors > 0 /\ ~garbled /\ pos > 7
     /\ \E d \in Deltas : rx' = (byte + d) % BYTES
     /\ errors' = errors - 1 /\ garbled' = TRUE

Send ==
  /\ sending /\ gap = 0
  /\ Arrives(outgoing)
  /\ sum' = IF pos <= 7 THEN 0 ELSE (sum + outgoing) % BYTES
  /\ gap' = BYTE_TIME - 1 /\ pos' = pos + 1 /\ UNCHANGED rec

Count == /\ sending /\ gap > 0
         /\ gap' = gap - 1 /\ rx' = None /\ UNCHANGED <<rec, pos, sum, errors, garbled>>

\* A refused record is sent again.
Listen ==
  /\ ~sending /\ rx' = None /\ UNCHANGED <<sum, errors, garbled>>
  /\ \/ /\ tx_valid /\ rec <= Len(Image) /\ gap' = BYTE_TIME /\ pos' = 1
        /\ rec' = IF tx_byte = ACK THEN rec + 1 ELSE rec
     \/ ~(tx_valid /\ rec <= Len(Image)) /\ UNCHANGED <<rec, pos, gap>>

Host == Send \/ Count \/ Listen

\* uart_tx at the level of a frame.
Tx == /\ tx_left' = IF tx_start # None THEN REPLY_TIME ELSE IF tx_left > 0 THEN tx_left - 1 ELSE 0
      /\ tx_byte' = IF tx_start # None THEN tx_start ELSE tx_byte
      /\ tx_valid' = (tx_left = 1)

-----------------------------------------------------------------------------
(* The memories, the owner of the SDRAM port, and the core behind it.       *)

written(m, addr, bytes) ==
  [a \in DOMAIN m \union {addr + i : i \in DOMAIN bytes} |->
     IF a - addr \in DOMAIN bytes THEN bytes[a - addr] ELSE m[a]]

InstMem == imem' = IF imem_we THEN written(imem, mem_addr, pyld_buff) ELSE imem

\* The controller ignores the address bits below a block.
blockBase == (mem_addr \div (BLOCK_WORDS * WORD)) * (BLOCK_WORDS * WORD)

cpu_in_valid == IF boot_sel THEN dram_valid ELSE core = "asking"

Sdram ==
  \/ /\ mem_ready /\ cpu_in_valid
     /\ mem_ready' = FALSE /\ low' = LOW
     /\ dram' = IF boot_sel THEN written(dram, blockBase, blk_buff) ELSE dram
     /\ served' = ~boot_sel
  \/ /\ mem_ready /\ ~cpu_in_valid
     /\ mem_ready' \in BOOLEAN /\ low' = LOW          \* a refresh begins
     /\ UNCHANGED <<dram, served>>
  \/ /\ ~mem_ready
     /\ mem_ready' \in (IF low = 0 THEN {TRUE} ELSE BOOLEAN)
     /\ low' = IF low = 0 THEN 0 ELSE low - 1
     /\ UNCHANGED <<dram, served>>

\* Wrong: the port goes over when the core first asks for it.
Owner_OnDemand == boot_sel' = IF mem_ready /\ core = "asking" THEN boot_active ELSE boot_sel

Owner == boot_sel' = IF mem_ready THEN boot_active ELSE boot_sel

\* core_reset is boot_active; the cache's memory port drops its request when it sees
\* mem_ready, which it does whoever owns the port.
Core ==
  \/ core = "reset" /\ boot_active /\ UNCHANGED <<core, core_wait>>
  \/ /\ core = "reset" /\ ~boot_active
     /\ core_wait' = IF core_wait = FIRST THEN FIRST ELSE core_wait + 1
     /\ core' \in (IF core_wait = FIRST THEN {"reset", "asking"} ELSE {"reset"})
  \/ /\ core = "asking" /\ core' = IF mem_ready THEN "asked" ELSE "asking"
     /\ UNCHANGED core_wait
  \/ core = "asked" /\ UNCHANGED <<core, core_wait>>

Next ==
  /\ BootClock(rx, tx_valid, mem_ready)
  /\ Host /\ Tx /\ InstMem /\ Sdram /\ Owner /\ Core

Spec == Init /\ [][Next]_vars /\ WF_vars(Next)

-----------------------------------------------------------------------------
Holds(m, r, i) == LET a == address(r.addr) + i - 1
                  IN  a \in DOMAIN m /\ m[a] = r.payload[i]
Written(r) == \A i \in DOMAIN r.payload : Holds(IF r.dest = DEST_IMEM THEN imem ELSE dram, r, i)

\* Every byte arrives in a state that takes it: the machine ignores rx_valid while it
\* waits for the SDRAM and while it replies.
NoByteDropped == rx # None => current_state \in Receiving

\* An acknowledged record is in the memory it names, byte for byte, although the
\* payload was written before its sum was known to be right.
AckMeansWritten == tx_left > 0 /\ tx_byte = ACK /\ rec <= Len(Image) => Written(Image[rec])

\* The core is released on the whole image ("corruption never reaches the core").
CoreStartsOnImage == ~boot_active => \A i \in DOMAIN Image : Written(Image[i])

\* The reply is out before the pin goes over to the core's uart.
ReplyOnPin == tx_left > 0 => boot_active

\* The port has changed hands before the core first uses it: the cache believes any
\* mem_ready it sees, and a request the controller did not get would hang the core.
HandoffKeepsRequest == core = "asked" => served

\* With finitely many garbled bytes the load ends.
BootEnds == <>(~boot_active)
=============================================================================
