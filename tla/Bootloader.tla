----------------------------- MODULE Bootloader -----------------------------
(***************************************************************************)
(* The state machine of bootloader (rtl/bootloader.v): it takes records    *)
(* byte by byte off its uart_rx, writes their payload to the instruction   *)
(* memory or, a block at a time, to the SDRAM, answers each with one byte  *)
(* and releases the core after the last.  uart_rx and uart_tx appear as    *)
(* the byte of the rx_valid pulse and as the tx_valid pulse.               *)
(*                                                                         *)
(* Widths are parameters: a byte has BYTES values and its registers wrap   *)
(* at that; the comparisons with check_sum-1 and record_len-1 are 32 bits  *)
(* wide in the code, so a field of 0 matches nothing.                      *)
(***************************************************************************)
EXTENDS Naturals

CONSTANTS BYTES,         \* 256
          WORD,          \* bytes of a word: 4
          BLOCK_WORDS,   \* words of an SDRAM block: 8
          DEST_IMEM, DEST_DRAM, ACK, NAK, None

Byte      == 0 .. BYTES - 1
AddrSpace == BYTES * BYTES * BYTES * BYTES

\* Four bytes, the low one first.
address(b) == b[0] + BYTES * (b[1] + BYTES * (b[2] + BYTES * b[3]))

ASSUME BootAssumption ==
  /\ BYTES \in Nat /\ WORD \in Nat \ {0} /\ BLOCK_WORDS \in Nat \ {0}
  /\ {DEST_IMEM, DEST_DRAM} \subseteq Byte /\ DEST_IMEM # DEST_DRAM /\ ACK # NAK
  /\ None \notin Byte \union {ACK, NAK}

VARIABLES current_state, boot_active,
          check_sum, record_len, dest_mem, start_addr, hdr_ctr,   \* the header
          check_sum_ctr, pyld_cntr, sum_acc, prg_byte_cntr,       \* this record so far
          sum_ok, record_ctr,
          pyld_buff, blk_buff, mem_addr,                          \* the write ports
          imem_we, dram_valid,
          tx_start                                                \* tx_din, or None

header   == <<check_sum, record_len, dest_mem, start_addr, hdr_ctr>>
progress == <<check_sum_ctr, pyld_cntr, sum_acc, prg_byte_cntr>>
outcome  == <<sum_ok, record_ctr, boot_active>>
buffers  == <<pyld_buff, blk_buff, mem_addr>>
bootVars == <<current_state, header, progress, outcome, buffers, imem_we, dram_valid, tx_start>>

Receiving == {"CHECK_SUM_BYTE", "RECORD_LENGTH", "DEST_MEM_BYTE", "START_ADDR_BYTES",
              "PROGRAM_BYTES", "SUM_BYTE"}

BootInit ==
  /\ current_state = "CHECK_SUM_BYTE" /\ boot_active = TRUE
  /\ check_sum = 0 /\ record_len = 0 /\ dest_mem = 0
  /\ start_addr = [i \in 0..3 |-> 0] /\ hdr_ctr = 0
  /\ check_sum_ctr = 0 /\ pyld_cntr = 0 /\ sum_acc = 0 /\ prg_byte_cntr = 0
  /\ sum_ok = FALSE /\ record_ctr = 0
  /\ pyld_buff = [i \in 0 .. WORD - 1 |-> 0]
  /\ blk_buff = [i \in 0 .. BLOCK_WORDS * WORD - 1 |-> 0]
  /\ mem_addr = 0 /\ imem_we = FALSE /\ dram_valid = FALSE /\ tx_start = None

-----------------------------------------------------------------------------
Goto(s)      == current_state' = s
NewRecord    == check_sum_ctr' = 0 /\ pyld_cntr' = 0 /\ sum_acc' = 0 /\ prg_byte_cntr' = 0
NoStrobe     == imem_we' = FALSE /\ tx_start' = None
NoWrite      == NoStrobe /\ UNCHANGED <<buffers, dram_valid>>
Took(s, rx)  == current_state = s /\ rx # None

CheckSumByte(rx) ==
  /\ Took("CHECK_SUM_BYTE", rx) /\ Goto("RECORD_LENGTH")
  /\ check_sum' = rx /\ NewRecord
  /\ NoWrite /\ UNCHANGED <<record_len, dest_mem, start_addr, hdr_ctr, outcome>>

RecordLength(rx) ==
  /\ Took("RECORD_LENGTH", rx) /\ Goto("DEST_MEM_BYTE")
  /\ record_len' = rx
  /\ NoWrite /\ UNCHANGED <<check_sum, dest_mem, start_addr, hdr_ctr, progress, outcome>>

DestMemByte(rx) ==
  /\ Took("DEST_MEM_BYTE", rx) /\ Goto("START_ADDR_BYTES")
  /\ dest_mem' = rx
  /\ NoWrite /\ UNCHANGED <<check_sum, record_len, start_addr, hdr_ctr, progress, outcome>>

\* Wrong: the byte index is left where the last address ended.
StartAddrBytes_NoReset(rx) ==
  /\ Took("START_ADDR_BYTES", rx)
  /\ start_addr' = [start_addr EXCEPT ![hdr_ctr] = rx]
  /\ \/ hdr_ctr = 3 /\ Goto("PROGRAM_BYTES") /\ UNCHANGED hdr_ctr
     \/ hdr_ctr # 3 /\ hdr_ctr' = hdr_ctr + 1 /\ UNCHANGED current_state
  /\ NoWrite /\ UNCHANGED <<check_sum, record_len, dest_mem, progress, outcome>>

StartAddrBytes(rx) ==
  /\ Took("START_ADDR_BYTES", rx)
  /\ start_addr' = [start_addr EXCEPT ![hdr_ctr] = rx]
  /\ \/ hdr_ctr = 3 /\ hdr_ctr' = 0 /\ Goto("PROGRAM_BYTES")
     \/ hdr_ctr # 3 /\ hdr_ctr' = hdr_ctr + 1 /\ UNCHANGED current_state
  /\ NoWrite /\ UNCHANGED <<check_sum, record_len, dest_mem, progress, outcome>>

-----------------------------------------------------------------------------
(* The payload.                                                             *)

offset    == (address(start_addr) + prg_byte_cntr) % AddrSpace
wordOver  == pyld_cntr = WORD - 1
lastWord  == check_sum_ctr + 1 = check_sum
blockOver == check_sum_ctr % BLOCK_WORDS = BLOCK_WORDS - 1

Accumulate(rx) == sum_acc' = (sum_acc + rx) % BYTES

\* The byte goes into the block for the SDRAM, into the word for anything else.
Assemble(rx) ==
  \/ /\ dest_mem = DEST_DRAM
     /\ blk_buff' = [blk_buff EXCEPT ![(check_sum_ctr % BLOCK_WORDS) * WORD + pyld_cntr] = rx]
     /\ UNCHANGED pyld_buff
  \/ /\ dest_mem # DEST_DRAM
     /\ pyld_buff' = [pyld_buff EXCEPT ![pyld_cntr] = rx]
     /\ UNCHANGED blk_buff

PayloadByte(rx) ==
  /\ Took("PROGRAM_BYTES", rx) /\ ~wordOver
  /\ Accumulate(rx) /\ Assemble(rx) /\ pyld_cntr' = pyld_cntr + 1
  /\ NoStrobe
  /\ UNCHANGED <<current_state, header, check_sum_ctr, prg_byte_cntr, outcome, mem_addr,
                 dram_valid>>

CountWord == pyld_cntr' = 0 /\ check_sum_ctr' = (check_sum_ctr + 1) % BYTES

\* A word completed for the instruction memory; for an unknown destination it is
\* counted and dropped.
ImemWord(rx) ==
  /\ Took("PROGRAM_BYTES", rx) /\ wordOver /\ dest_mem # DEST_DRAM
  /\ Accumulate(rx) /\ Assemble(rx) /\ CountWord
  /\ mem_addr' = offset /\ prg_byte_cntr' = (prg_byte_cntr + WORD) % AddrSpace
  /\ imem_we' = (dest_mem = DEST_IMEM) /\ tx_start' = None
  /\ current_state' = IF lastWord THEN "SUM_BYTE" ELSE "PROGRAM_BYTES"
  /\ UNCHANGED <<header, outcome, dram_valid>>

\* A word completed for the SDRAM: a full block is handed over, and the count is
\* looked at again only after that; a last block that is not full is not.
DramWord(rx) ==
  /\ Took("PROGRAM_BYTES", rx) /\ wordOver /\ dest_mem = DEST_DRAM
  /\ Accumulate(rx) /\ Assemble(rx) /\ CountWord
  /\ NoStrobe /\ UNCHANGED <<header, outcome, dram_valid>>
  /\ \/ /\ blockOver /\ Goto("DRAM_WRITE")
        /\ mem_addr' = offset
        /\ prg_byte_cntr' = (prg_byte_cntr + BLOCK_WORDS * WORD) % AddrSpace
     \/ /\ ~blockOver
        /\ current_state' = IF lastWord THEN "SUM_BYTE" ELSE "PROGRAM_BYTES"
        /\ UNCHANGED <<mem_addr, prg_byte_cntr>>

\* Wrong: an idle controller counts as having taken a request not yet driven.
DramWrite_NotQualified(dram_ready) ==
  /\ current_state = "DRAM_WRITE"
  /\ dram_valid' = ~dram_ready
  /\ current_state' = IF ~dram_ready THEN "DRAM_WRITE"
                      ELSE IF check_sum_ctr = check_sum THEN "SUM_BYTE" ELSE "PROGRAM_BYTES"
  /\ NoStrobe /\ UNCHANGED <<header, progress, outcome, buffers>>

\* dram_valid is still low in the first cycle; bytes that arrive here are lost.
DramWrite(dram_ready) ==
  /\ current_state = "DRAM_WRITE"
  /\ \/ /\ dram_valid /\ dram_ready
        /\ dram_valid' = FALSE
        /\ current_state' = IF check_sum_ctr = check_sum THEN "SUM_BYTE" ELSE "PROGRAM_BYTES"
     \/ ~(dram_valid /\ dram_ready) /\ dram_valid' = TRUE /\ UNCHANGED current_state
  /\ NoStrobe /\ UNCHANGED <<header, progress, outcome, buffers>>

-----------------------------------------------------------------------------
(* The end of a record.                                                     *)

SumByte(rx) ==
  /\ Took("SUM_BYTE", rx) /\ Goto("REPLY")
  /\ sum_ok' = (rx = sum_acc)
  /\ tx_start' = IF rx = sum_acc THEN ACK ELSE NAK
  /\ imem_we' = FALSE
  /\ UNCHANGED <<header, progress, record_ctr, boot_active, buffers, dram_valid>>

\* Wrong: the record counter is compared one too late.
lastRecord_OneLate == record_ctr = record_len

lastRecord == record_ctr + 1 = record_len

\* Wrong: the reply is not waited for, or its meaning is forgotten.
Reply_AtOnce(tx_valid) ==
  /\ current_state = "REPLY"
  /\ NewRecord
  /\ record_ctr' = IF ~sum_ok THEN record_ctr ELSE IF lastRecord THEN 0 ELSE record_ctr + 1
  /\ current_state' = IF sum_ok /\ lastRecord THEN "FINISHED" ELSE "CHECK_SUM_BYTE"
  /\ NoWrite /\ UNCHANGED <<header, sum_ok, boot_active>>
Reply_CountsAny(tx_valid) ==
  /\ current_state = "REPLY" /\ tx_valid
  /\ NewRecord
  /\ record_ctr' = IF lastRecord THEN 0 ELSE record_ctr + 1
  /\ current_state' = IF lastRecord THEN "FINISHED" ELSE "CHECK_SUM_BYTE"
  /\ NoWrite /\ UNCHANGED <<header, sum_ok, boot_active>>

\* The stop bit of the reply is out; the host sends a refused record again.
Reply(tx_valid) ==
  /\ current_state = "REPLY" /\ tx_valid
  /\ NewRecord
  /\ \/ ~sum_ok /\ Goto("CHECK_SUM_BYTE") /\ UNCHANGED record_ctr
     \/ sum_ok /\ lastRecord /\ Goto("FINISHED") /\ record_ctr' = 0
     \/ /\ sum_ok /\ ~lastRecord /\ Goto("CHECK_SUM_BYTE")
        /\ record_ctr' = (record_ctr + 1) % BYTES
  /\ NoWrite /\ UNCHANGED <<header, sum_ok, boot_active>>

Finished ==
  /\ current_state = "FINISHED"
  /\ boot_active' = FALSE
  /\ NoWrite /\ UNCHANGED <<current_state, header, progress, sum_ok, record_ctr>>

BootWait(rx, tx_valid) ==
  /\ \/ current_state \in Receiving /\ rx = None
     \/ current_state = "REPLY" /\ ~tx_valid
  /\ NoWrite /\ UNCHANGED <<current_state, header, progress, outcome>>

\* One posedge: rx is the byte of rx_valid, tx_valid and dram_ready are levels.
BootClock(rx, tx_valid, dram_ready) ==
  \/ CheckSumByte(rx) \/ RecordLength(rx) \/ DestMemByte(rx) \/ StartAddrBytes(rx)
  \/ PayloadByte(rx) \/ ImemWord(rx) \/ DramWord(rx) \/ DramWrite(dram_ready)
  \/ SumByte(rx) \/ Reply(tx_valid) \/ Finished \/ BootWait(rx, tx_valid)
=============================================================================
