------------------------------ MODULE UartLine ------------------------------
(***************************************************************************)
(* uart_tx (rtl/io/uart.v) and a listener on the two ends of a serial      *)
(* line: uart_rx, or the uart_probe of the C test bench                    *)
(* (tb/cocotb/c_test/c_ctb.py).  Each is paced by its own clock: a step is *)
(* one clock, and either end may or may not tick in it.  The two are not   *)
(* synchronised: within a frame the listener may gain or lose DRIFT ticks. *)
(***************************************************************************)
EXTENDS Integers

CONSTANTS SAMPLES,       \* ticks per bit: 16 in the code
          Formats,       \* the frame formats CONFIG may be set to
          Bytes,         \* what is sent
          DRIFT, None

Byte == [0..7 -> BOOLEAN]

ASSUME LineAssumption ==
  /\ SAMPLES \in Nat /\ SAMPLES >= 4
  /\ Formats \subseteq [data_bits : 0..7, stop_bits : 0..3, parity_en : BOOLEAN,
                         parity_odd : BOOLEAN]
  /\ Bytes \subseteq Byte /\ None \notin Bytes \union [byte : Byte, bad : BOOLEAN]
  /\ DRIFT \in Nat

VARIABLES listener,    \* "uart_rx" or "uart_probe"
          config,      \* the fields of CONFIG, the same at both ends
          tx_state, tx_s, tx_n, tx_sb, tx_b, tx_o, tx,
          rx_state, rx_s, rx_n, rx_sb, rx_b, rx_o, rx_pe,
          drift,       \* receiver ticks less sender ticks, in this frame
          in_flight,   \* the byte being sent and not yet received, or None
          got          \* the receiver's pulse: the byte, and whether it was bad; or None

txVars == <<tx_state, tx_s, tx_n, tx_sb, tx_b, tx_o, tx>>
rxVars == <<rx_state, rx_s, rx_n, rx_sb, rx_b, rx_o, rx_pe>>
vars   == <<listener, config, txVars, rxVars, drift, in_flight, got>>

DataBits  == config.data_bits      \* the bit count minus one
StopBits  == config.stop_bits
ParityEn  == config.parity_en
ParityOdd == config.parity_odd

States == {"IDLE", "START", "DATA", "PARITY", "STOP"}

\* The low DataBits+1 bits of a byte are what a frame carries.
carried(byte) == [i \in 0..7 |-> i <= DataBits /\ byte[i]]
shift(b, in)  == [i \in 0..7 |-> IF i = 7 THEN in ELSE b[i + 1]]
shiftBy(b, k) == [i \in 0..7 |-> i + k <= 7 /\ b[i + k]]

\* STOP_BITS - 1 in two bits: 0 counts as four.
lastStop == (StopBits + 3) % 4

Init ==
  /\ listener \in {"uart_rx", "uart_probe"} /\ config \in Formats
  /\ listener = "uart_probe" => ~ParityEn       \* it has no notion of a parity bit
  /\ tx_state = "IDLE" /\ tx_s = 0 /\ tx_n = 0 /\ tx_sb = 0 /\ tx_o = FALSE /\ tx = TRUE
  /\ rx_state = "IDLE" /\ rx_s = 0 /\ rx_n = 0 /\ rx_sb = 0 /\ rx_o = FALSE /\ rx_pe = FALSE
  /\ tx_b = [i \in 0..7 |-> FALSE] /\ rx_b = [i \in 0..7 |-> FALSE]
  /\ drift = 0 /\ in_flight = None /\ got = None

-----------------------------------------------------------------------------
(* uart_tx.  output_valid is the last tick of the last stop bit.            *)

TxCount == tx_s # SAMPLES - 1 /\ tx_s' = tx_s + 1
           /\ UNCHANGED <<tx_state, tx_n, tx_sb, tx_b, tx_o>>
bitOver == tx_s = SAMPLES - 1

TxStart(din) ==
  /\ tx_state = "IDLE" /\ tx' = TRUE
  /\ tx_state' = "START" /\ tx_s' = 0 /\ tx_o' = FALSE /\ tx_b' = din
  /\ UNCHANGED <<tx_n, tx_sb>>

TxHold == UNCHANGED <<tx_state, tx_s, tx_n, tx_sb, tx_b, tx_o>>

\* The level the state puts on the line, registered.
level == CASE tx_state = "START"  -> FALSE
           [] tx_state = "DATA"   -> tx_b[0]
           [] tx_state = "PARITY" -> IF ParityOdd THEN ~tx_o ELSE tx_o
           [] OTHER               -> TRUE

TxStartBit == /\ tx_state = "START"
              /\ TxCount \/ (/\ bitOver /\ tx_state' = "DATA" /\ tx_s' = 0 /\ tx_n' = 0
                             /\ UNCHANGED <<tx_sb, tx_b, tx_o>>)
TxDataBit ==
  /\ tx_state = "DATA"
  /\ \/ TxCount
     \/ /\ bitOver /\ tx_s' = 0
        /\ tx_b' = shift(tx_b, FALSE) /\ tx_o' = (tx_o # tx_b[0])
        /\ \/ /\ tx_n = DataBits /\ tx_sb' = 0 /\ UNCHANGED tx_n
              /\ tx_state' = IF ParityEn THEN "PARITY" ELSE "STOP"
           \/ tx_n # DataBits /\ tx_n' = (tx_n + 1) % 8 /\ UNCHANGED <<tx_sb, tx_state>>
TxParityBit == /\ tx_state = "PARITY"
               /\ TxCount \/ (/\ bitOver /\ tx_state' = "STOP" /\ tx_s' = 0
                              /\ UNCHANGED <<tx_n, tx_sb, tx_b, tx_o>>)
TxStopBit ==
  /\ tx_state = "STOP"
  /\ \/ TxCount
     \/ /\ bitOver /\ tx_s' = 0 /\ UNCHANGED <<tx_n, tx_b, tx_o>>
        /\ \/ tx_sb = lastStop /\ tx_state' = "IDLE" /\ UNCHANGED tx_sb
           \/ tx_sb # lastStop /\ tx_sb' = (tx_sb + 1) % 4 /\ UNCHANGED tx_state

TxClock(tick) ==
  \/ /\ tx' = level
     /\ \/ (~tick \/ tx_state = "IDLE") /\ TxHold
        \/ tick /\ (TxStartBit \/ TxDataBit \/ TxParityBit \/ TxStopBit)
  \/ \E din \in Bytes : TxStart(din)

-----------------------------------------------------------------------------
(* uart_rx, enabled throughout.  A falling line starts a frame, half a bit   *)
(* later the first sample point is set, and every bit is sampled once.       *)

RxCount == rx_s' = rx_s + 1 /\ got' = None
           /\ UNCHANGED <<rx_state, rx_n, rx_sb, rx_b, rx_o, rx_pe>>

RxIdle == rx_state = "IDLE" /\ tx /\ got' = None /\ UNCHANGED rxVars

RxFalling ==
  /\ rx_state = "IDLE" /\ ~tx
  /\ rx_state' = "START" /\ rx_s' = 0 /\ rx_sb' = 0 /\ rx_n' = 0
  /\ rx_o' = FALSE /\ rx_pe' = FALSE /\ rx_b' = [i \in 0..7 |-> FALSE]
  /\ got' = None

RxStartBit ==
  /\ rx_state = "START"
  /\ \/ rx_s # SAMPLES \div 2 - 1 /\ RxCount
     \/ /\ rx_s = SAMPLES \div 2 - 1
        /\ rx_state' = "DATA" /\ rx_s' = 0 /\ rx_n' = 0 /\ got' = None
        /\ UNCHANGED <<rx_sb, rx_b, rx_o, rx_pe>>

sampling == rx_s = SAMPLES - 1

RxDataBit ==
  /\ rx_state = "DATA"
  /\ \/ ~sampling /\ RxCount
     \/ /\ sampling /\ rx_s' = 0 /\ got' = None
        /\ rx_o' = (rx_o # tx)
        /\ UNCHANGED <<rx_sb, rx_pe>>
        /\ \/ /\ rx_n = DataBits
              /\ rx_b' = shiftBy(shift(rx_b, tx), 7 - DataBits)
              /\ rx_state' = IF ParityEn THEN "PARITY" ELSE "STOP"
              /\ UNCHANGED rx_n
           \/ /\ rx_n # DataBits
              /\ rx_b' = shift(rx_b, tx) /\ rx_n' = (rx_n + 1) % 8
              /\ UNCHANGED rx_state

\* Wrong: odd and even parity are exchanged.
RxParityBit_Swapped ==
  /\ rx_state = "PARITY"
  /\ \/ ~sampling /\ RxCount
     \/ /\ sampling /\ rx_s' = 0 /\ rx_state' = "STOP" /\ got' = None
        /\ rx_pe' = IF ParityOdd THEN rx_o # tx ELSE rx_o = tx
        /\ UNCHANGED <<rx_n, rx_sb, rx_b, rx_o>>

RxParityBit ==
  /\ rx_state = "PARITY"
  /\ \/ ~sampling /\ RxCount
     \/ /\ sampling /\ rx_s' = 0 /\ rx_state' = "STOP" /\ got' = None
        /\ rx_pe' = IF ParityOdd THEN rx_o = tx ELSE rx_o # tx
        /\ UNCHANGED <<rx_n, rx_sb, rx_b, rx_o>>

\* Wrong: the receiver waits for one stop bit more than is sent.
RxStopBit_OneMore ==
  /\ rx_state = "STOP"
  /\ \/ ~sampling /\ RxCount
     \/ /\ sampling /\ rx_s' = 0 /\ UNCHANGED <<rx_n, rx_b, rx_o>>
        /\ \/ /\ rx_sb = lastStop + 1 /\ rx_state' = "IDLE" /\ rx_pe' = FALSE
              /\ got' = [byte |-> rx_b, bad |-> rx_pe]
              /\ UNCHANGED rx_sb
           \/ /\ rx_sb # lastStop + 1 /\ rx_sb' = (rx_sb + 1) % 4
              /\ got' = None /\ UNCHANGED <<rx_state, rx_pe>>

RxStopBit ==
  /\ rx_state = "STOP"
  /\ \/ ~sampling /\ RxCount
     \/ /\ sampling /\ rx_s' = 0 /\ UNCHANGED <<rx_n, rx_b, rx_o>>
        /\ \/ /\ rx_sb = lastStop /\ rx_state' = "IDLE" /\ rx_pe' = FALSE
              /\ got' = [byte |-> rx_b, bad |-> rx_pe]
              /\ UNCHANGED rx_sb
           \/ /\ rx_sb # lastStop /\ rx_sb' = (rx_sb + 1) % 4
              /\ got' = None /\ UNCHANGED <<rx_state, rx_pe>>

RxClock(tick) ==
  \/ RxIdle \/ RxFalling
  \/ tick /\ (RxStartBit \/ RxDataBit \/ RxParityBit \/ RxStopBit)
  \/ ~tick /\ rx_state # "IDLE" /\ got' = None /\ UNCHANGED rxVars

-----------------------------------------------------------------------------
(* uart_probe.  It waits for the line to fall as uart_rx does, but looks     *)
(* again in the middle of the start bit, and asserts that a stop bit is one. *)

ProbeConfirm ==
  /\ rx_state = "START" /\ rx_s = SAMPLES \div 2 - 1
  /\ rx_state' = IF tx THEN "IDLE" ELSE "DATA"
  /\ rx_s' = 0 /\ got' = None
  /\ UNCHANGED <<rx_n, rx_sb, rx_b, rx_o, rx_pe>>

\* byte_value |= 1 << i
ProbeData ==
  /\ rx_state = "DATA" /\ sampling
  /\ rx_b' = [rx_b EXCEPT ![rx_n] = tx] /\ rx_n' = (rx_n + 1) % 8
  /\ rx_state' = IF rx_n = DataBits THEN "STOP" ELSE "DATA"
  /\ rx_s' = 0 /\ got' = None
  /\ UNCHANGED <<rx_sb, rx_o, rx_pe>>

ProbeStop ==
  /\ rx_state = "STOP" /\ sampling
  /\ rx_sb' = (rx_sb + 1) % 4 /\ rx_s' = 0
  /\ rx_state' = IF rx_sb = lastStop THEN "IDLE" ELSE "STOP"
  /\ got' = IF rx_sb = lastStop \/ ~tx THEN [byte |-> rx_b, bad |-> ~tx] ELSE None
  /\ UNCHANGED <<rx_n, rx_b, rx_o, rx_pe>>

ProbeWaits == /\ ~(rx_state = "START" /\ rx_s = SAMPLES \div 2 - 1)
              /\ ~(rx_state \in {"DATA", "STOP"} /\ sampling)
              /\ RxCount

ProbeClock(tick) ==
  \/ RxIdle \/ RxFalling
  \/ tick /\ rx_state # "IDLE" /\ (ProbeConfirm \/ ProbeData \/ ProbeStop \/ ProbeWaits)
  \/ ~tick /\ rx_state # "IDLE" /\ got' = None /\ UNCHANGED rxVars

Listen(tick) == \/ listener = "uart_rx" /\ RxClock(tick)
                \/ listener = "uart_probe" /\ ProbeClock(tick)

-----------------------------------------------------------------------------
Observe(tx_tick, rx_tick) ==
  LET starting == tx_state = "IDLE" /\ tx_state' = "START"
  IN  /\ drift' = IF tx_state = "IDLE" THEN 0
                  ELSE drift + (IF rx_tick THEN 1 ELSE 0) - (IF tx_tick THEN 1 ELSE 0)
      /\ drift' \in -DRIFT .. DRIFT
      /\ in_flight' = IF starting THEN tx_b' ELSE IF got # None THEN None ELSE in_flight

Next == \E tx_tick, rx_tick \in BOOLEAN :
          TxClock(tx_tick) /\ Listen(rx_tick) /\ Observe(tx_tick, rx_tick)
          /\ UNCHANGED <<listener, config>>

Spec == Init /\ [][Next]_vars

-----------------------------------------------------------------------------
\* Everything the listener reports, the receiver or the probe, is the frame being sent:
\* no frame is split, made up from a data bit, reported twice or reported as bad.
ReceivesWhatIsSent ==
  got # None => /\ in_flight # None
                /\ got = [byte |-> carried(in_flight), bad |-> FALSE]

\* The listener has reported a frame before the next one begins, so that none is
\* swallowed while it is still busy with the last.
NoneSwallowed == tx_state = "IDLE" => in_flight = None \/ got # None
=============================================================================
