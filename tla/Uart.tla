-------------------------------- MODULE Uart --------------------------------
(***************************************************************************)
(* The register file of uart (rtl/io/uart.v) behind its APB port, with the *)
(* two serial engines at the level of whole frames: the transmitter is     *)
(* busy with a byte until it raises tx_done, the receiver with a frame     *)
(* until it reports it good or bad.  UartLine has the engines bit by bit.  *)
(*                                                                         *)
(* CONTROL is the set of its bits that are 1.  CONFIG and IRQ hold what    *)
(* they are given and are not part of the state; a register address is its *)
(* name, "HOLE" an unmapped one whose low bits are those of RX_DATA.       *)
(***************************************************************************)
CONSTANTS Bytes, None

ControlBits == {"UART_ENABLE", "RX_ENABLE", "TX_ENABLE", "RX_OVERRUN"}
StatusBits  == {"PARITY_ERROR", "RX_VALID", "TX_EMPTY", "RX_BUSY", "TX_BUSY"}
Registers   == {"TX_DATA", "RX_DATA", "CONTROL", "CONFIG", "STATUS", "IRQ", "HOLE"}
Frame       == [byte : Bytes, good : BOOLEAN]

VARIABLES tx_data, rx_data, control,      \* file[0], file[1], file[2]
          tx_empty, rx_valid, parity_error, tx_start,
          PREADY, PSLVERR, PRDATA,
          tx_frame,                       \* the byte uart_tx is sending, or None
          rx_frame                        \* the frame uart_rx is in, or None

uartVars == <<tx_data, rx_data, control, tx_empty, rx_valid, parity_error, tx_start,
              PREADY, PSLVERR, PRDATA, tx_frame, rx_frame>>

UartTypeOK ==
  /\ {tx_data, rx_data, tx_frame} \subseteq Bytes \union {None}
  /\ control \subseteq ControlBits
  /\ {tx_empty, rx_valid, parity_error, tx_start, PREADY, PSLVERR} \subseteq BOOLEAN
  /\ rx_frame \in Frame \union {None}

UartInit ==
  /\ tx_data = None /\ rx_data = None /\ control = {}
  /\ tx_empty = TRUE /\ rx_valid = FALSE /\ parity_error = FALSE /\ tx_start = FALSE
  /\ PREADY = FALSE /\ PSLVERR = FALSE /\ PRDATA = None
  /\ tx_frame = None /\ rx_frame = None

tx_en   == {"UART_ENABLE", "TX_ENABLE"} \subseteq control
rx_en   == {"UART_ENABLE", "RX_ENABLE"} \subseteq control /\ "RX_OVERRUN" \notin control
status  == {f \in StatusBits :
              \/ f = "PARITY_ERROR" /\ parity_error
              \/ f = "RX_VALID" /\ rx_valid
              \/ f = "TX_EMPTY" /\ tx_empty
              \/ f = "RX_BUSY" /\ rx_frame # None
              \/ f = "TX_BUSY" /\ tx_frame # None}

\* Wrong: the second cycle of the access phase is taken too.
access_EveryCycle(sel) == sel

\* An access is taken in the first cycle of the access phase only.
access(sel)      == sel /\ ~PREADY
mapped(p)        == p.reg # "HOLE"
read_only(p)     == p.reg \in {"RX_DATA", "HOLE", "STATUS"}
store(sel, p, r) == access(sel) /\ p.write /\ mapped(p) /\ ~read_only(p) /\ p.reg = r
fetch(sel, p, r) == access(sel) /\ ~p.write /\ p.reg \in r

rdata(p) == CASE p.reg = "STATUS"  -> status
              [] p.reg = "CONTROL" -> control
              [] p.reg = "TX_DATA" -> tx_data
              [] p.reg \in {"RX_DATA", "HOLE"} -> rx_data
              [] OTHER -> None

ApbAnswer(sel, p) ==
  /\ PREADY' = access(sel)
  /\ PSLVERR' = (access(sel) /\ (~mapped(p) \/ (p.write /\ read_only(p))))
  /\ PRDATA' = IF access(sel) /\ ~p.write THEN rdata(p) ELSE PRDATA

\* Wrong: a frame is started on top of the one being sent.
TxRegisters_WhileBusy(sel, p, tx_done) ==
  LET starts == store(sel, p, "TX_DATA") /\ tx_en
  IN  /\ tx_data' = IF store(sel, p, "TX_DATA") THEN p.data ELSE tx_data
      /\ tx_start' = starts
      /\ tx_empty' = (tx_done \/ (tx_empty /\ ~starts))

\* Writing TX_DATA starts a frame if the last one is over; the byte is overwritten
\* either way.
TxRegisters(sel, p, tx_done) ==
  LET starts == store(sel, p, "TX_DATA") /\ tx_en /\ tx_empty
  IN  /\ tx_data' = IF store(sel, p, "TX_DATA") THEN p.data ELSE tx_data
      /\ tx_start' = starts
      /\ tx_empty' = (tx_done \/ (tx_empty /\ ~starts))

\* The frame that finds an unread byte is lost, and the bit that says so beats a
\* software write to CONTROL.
ControlRegister(sel, p, rx_data_valid) ==
  control' = (IF store(sel, p, "CONTROL") THEN p.data ELSE control)
             \union (IF rx_data_valid /\ rx_valid THEN {"RX_OVERRUN"} ELSE {})

\* Wrong: the read that races with a frame's arrival clears the flag.
RxRegisters_ClearWins(sel, p, rx_data_valid) ==
  LET clear == fetch(sel, p, {"RX_DATA", "HOLE"})
      lands == rx_data_valid /\ ~rx_valid
  IN  /\ rx_data' = IF lands THEN rx_frame.byte ELSE rx_data
      /\ rx_valid' = ((lands \/ rx_valid) /\ ~clear)

RxRegisters(sel, p, rx_data_valid) ==
  \/ rx_data_valid /\ ~rx_valid /\ rx_data' = rx_frame.byte /\ rx_valid' = TRUE
  \/ rx_data_valid /\ rx_valid /\ UNCHANGED <<rx_data, rx_valid>>
  \/ /\ ~rx_data_valid
     /\ rx_valid' = (rx_valid /\ ~fetch(sel, p, {"RX_DATA", "HOLE"}))
     /\ UNCHANGED rx_data

\* Wrong: the poll that races with an error clears it unseen.
ParityFlag_ClearWins(sel, p, rx_parity_err) ==
  parity_error' = ((rx_parity_err \/ parity_error) /\ ~fetch(sel, p, {"STATUS"}))

ParityFlag(sel, p, rx_parity_err) ==
  parity_error' = (rx_parity_err \/ (parity_error /\ ~fetch(sel, p, {"STATUS"})))

\* The engines: a frame ends in any cycle after it began.
Transmitter(tx_done) ==
  \/ tx_frame = None /\ tx_start /\ ~tx_done /\ tx_frame' = tx_data
  \/ tx_frame = None /\ ~tx_start /\ ~tx_done /\ UNCHANGED tx_frame
  \/ tx_frame # None /\ tx_done /\ tx_frame' = None
  \/ tx_frame # None /\ ~tx_done /\ UNCHANGED tx_frame

Receiver(rx_over) ==
  \/ rx_frame = None /\ rx_en /\ ~rx_over /\ rx_frame' \in Frame
  \/ rx_frame = None /\ ~rx_over /\ UNCHANGED rx_frame
  \/ rx_frame # None /\ rx_over /\ rx_frame' = None
  \/ rx_frame # None /\ ~rx_over /\ UNCHANGED rx_frame

\* One posedge: sel is PSEL && PENABLE, p the rest of the APB bus.
UartClock(sel, p, tx_done, rx_over) ==
  LET rx_data_valid == rx_over /\ rx_frame.good
      rx_parity_err == rx_over /\ ~rx_frame.good
  IN  /\ Transmitter(tx_done) /\ Receiver(rx_over)
      /\ ApbAnswer(sel, p)
      /\ TxRegisters(sel, p, tx_done)
      /\ ControlRegister(sel, p, rx_data_valid)
      /\ RxRegisters(sel, p, rx_data_valid)
      /\ ParityFlag(sel, p, rx_parity_err)
=============================================================================
