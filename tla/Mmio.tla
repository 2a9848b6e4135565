-------------------------------- MODULE Mmio --------------------------------
(***************************************************************************)
(* mmio (rtl/mmio.v): the APB bridge, SIM_EXIT and the UART behind the     *)
(* LSU's io port.  The LSU raises one request pulse and waits for io_ack.  *)
(* Which 4K window an address lies in is the "window" of a request; those  *)
(* above the last slave fail the bridge's decode.                          *)
(***************************************************************************)
EXTENDS Uart, Naturals

CONSTANTS Requests,   \* the io accesses software may make
          Codes       \* exit codes

\* What software writes fits the register it writes, and an answer is not None.
ReadData == Bytes \union {None} \union (SUBSET ControlBits) \union (SUBSET StatusBits)
Answers  == [err : BOOLEAN, data : ReadData \union Codes]

ASSUME RequestAssumption ==
  /\ None \notin Requests \union Codes \union Bytes \union Frame
  /\ None \notin Answers
  /\ \A r \in Requests :
       /\ r.write \in BOOLEAN
       /\ r.write /\ r.window = "UART" /\ r.reg = "TX_DATA" => r.data \in Bytes
       /\ r.write /\ r.window = "UART" /\ r.reg = "CONTROL" => r.data \subseteq ControlBits
       /\ r.write /\ r.window = "EXIT" /\ r.reg = "EXIT_CODE" => r.data \in Codes

VARIABLES waiting, io_req, io_ack,                  \* the LSU's io port
          apb_state, PSEL, PENABLE, apb,            \* the bridge; apb: PWRITE, PADDR, PWDATA
          exit_code,                                \* None while exit_valid is low
          age,          \* clocks the LSU has waited, up to one more than it should
          taken,        \* times a slave has acted on the request being served
          unread,       \* the received byte software has not been handed, or None
          unflagged,    \* receive errors software has had no chance to see
          to_send       \* the byte accepted for sending and not yet sent, or None

bridgeVars == <<io_ack, apb_state, PSEL, PENABLE, apb>>
ghostVars  == <<age, taken, unread, unflagged, to_send>>
AnswerTime == 4
vars       == <<uartVars, waiting, io_req, bridgeVars, exit_code, ghostVars>>

TypeOK ==
  /\ UartTypeOK
  /\ waiting \in BOOLEAN /\ io_req \in Requests \union {None}
  /\ io_ack = None \/ io_ack.err \in BOOLEAN
  /\ apb_state \in {"IDLE", "SETUP", "ACCESS"}
  /\ PSEL \in {"EXIT", "UART", None} /\ PENABLE \in BOOLEAN
  /\ apb \in Requests \union {None}
  /\ exit_code \in Codes \union {None}
  /\ age \in 0 .. AnswerTime + 1 /\ taken \in 0..2 /\ unread \in Bytes \union {None} /\ to_send \in Bytes \union {None}
  /\ unflagged \subseteq {"overrun", "parity"}

Init ==
  /\ UartInit
  /\ waiting = FALSE /\ io_req = None /\ io_ack = None
  /\ apb_state = "IDLE" /\ PSEL = None /\ PENABLE = FALSE /\ apb = None
  /\ exit_code = None
  /\ age = 0 /\ taken = 0 /\ unread = None /\ unflagged = {} /\ to_send = None

\* The LSU's side.
Ask    == ~waiting /\ io_req' \in Requests /\ waiting' = TRUE
Rest   == ~waiting /\ io_req' = None /\ UNCHANGED waiting
Await  == waiting /\ io_req' = None /\ waiting' = (io_ack = None)

\* io_apb_bridge.
\* Wrong: one window too many, or a slave whose PREADY is not in the mux.
Windows_OneMore     == {"EXIT", "UART", "none"}
PREADY_C_WithoutExit == PSEL = "UART" /\ PREADY

Windows == {"EXIT", "UART"}
PREADY_C == (PSEL = "EXIT") \/ (PSEL = "UART" /\ PREADY)

DecodeError ==
  /\ apb_state = "IDLE" /\ io_req # None /\ io_req.window \notin Windows
  /\ io_ack' = [err |-> TRUE, data |-> None]
  /\ UNCHANGED <<apb_state, PSEL, PENABLE, apb>>
Setup ==
  /\ apb_state = "IDLE" /\ io_req # None /\ io_req.window \in Windows
  /\ PSEL' = io_req.window /\ apb' = io_req /\ apb_state' = "SETUP"
  /\ io_ack' = None /\ UNCHANGED PENABLE
BridgeIdle ==
  /\ apb_state = "IDLE" /\ io_req = None
  /\ PENABLE' = FALSE /\ PSEL' = None /\ io_ack' = None
  /\ UNCHANGED <<apb_state, apb>>
Enable ==
  /\ apb_state = "SETUP"
  /\ PENABLE' = TRUE /\ apb_state' = "ACCESS"
  /\ UNCHANGED <<io_ack, PSEL, apb>>
Complete ==
  /\ apb_state = "ACCESS" /\ PREADY_C
  /\ PENABLE' = FALSE /\ PSEL' = None /\ apb_state' = "IDLE"
  /\ io_ack' = IF PSEL = "UART" THEN [err |-> PSLVERR, data |-> PRDATA]
                                ELSE [err |-> FALSE, data |-> exit_code]
  /\ apb' = None
AccessWait == apb_state = "ACCESS" /\ ~PREADY_C /\ UNCHANGED bridgeVars

Bridge == DecodeError \/ Setup \/ BridgeIdle \/ Enable \/ Complete \/ AccessWait

\* sim_exit: the first write to its register wins.
exit_write == PSEL = "EXIT" /\ PENABLE /\ apb.write /\ apb.reg = "EXIT_CODE"
SimExit    == exit_code' = IF exit_write /\ exit_code = None THEN apb.data ELSE exit_code

uart_sel == PSEL = "UART" /\ PENABLE

\* Bookkeeping for the properties.
Observe(tx_done, rx_over) ==
  LET acts  == access(uart_sel) \/ (PSEL = "EXIT" /\ PENABLE)
      lost  == rx_over /\ rx_frame.good /\ rx_valid
      bad   == rx_over /\ ~rx_frame.good
      lands == rx_over /\ rx_frame.good /\ ~rx_valid
      handed == access(uart_sel) /\ ~apb.write /\ apb.reg \in {"RX_DATA", "HOLE"}
      clears == access(uart_sel) /\ apb.write /\ apb.reg = "CONTROL" /\ "RX_OVERRUN" \notin apb.data
      polls  == access(uart_sel) /\ ~apb.write /\ apb.reg = "STATUS"
  IN  /\ age' = IF ~waiting THEN 0 ELSE IF age > AnswerTime THEN age ELSE age + 1
      /\ taken' = IF io_req # None THEN 0
                  ELSE IF acts /\ taken < 2 THEN taken + 1 ELSE taken
      /\ unread' = IF lands THEN rx_frame.byte ELSE IF handed THEN None ELSE unread
      /\ unflagged' = (unflagged \ ((IF clears THEN {"overrun"} ELSE {}) \union
                                    (IF polls THEN {"parity"} ELSE {})))
                      \union (IF lost THEN {"overrun"} ELSE {})
                      \union (IF bad THEN {"parity"} ELSE {})
      /\ to_send' = IF store(uart_sel, apb, "TX_DATA") /\ tx_en /\ tx_empty THEN apb.data
                    ELSE IF tx_done THEN None ELSE to_send

Cycle(tx_done, rx_over) ==
  /\ Ask \/ Rest \/ Await
  /\ Bridge
  /\ SimExit
  /\ UartClock(uart_sel, apb, tx_done, rx_over)
  /\ Observe(tx_done, rx_over)

Next == \E tx_done, rx_over \in BOOLEAN : Cycle(tx_done, rx_over)

Spec == Init /\ [][Next]_vars

-----------------------------------------------------------------------------
\* Every request acts on its slave exactly once before it is acknowledged, although
\* PREADY is registered in the UART and PENABLE therefore stays up for two cycles;
\* one that fails the decode acts on none.
ActsExactlyOnce ==
  /\ taken <= 1
  /\ io_ack # None /\ waiting /\ io_req = None => (taken = 1 \/ io_ack.err)

\* A byte that has landed in RX_DATA stays there, and flagged, until software has
\* been handed it: no later frame and no read racing with its arrival loses it.
NoByteForgotten == unread # None => rx_valid /\ rx_data = unread

\* A lost frame or a bad one is flagged until software clears the flag or polls it,
\* whatever it does in the cycle the error is raised.
NoErrorForgotten ==
  /\ "overrun" \in unflagged => "RX_OVERRUN" \in control
  /\ "parity" \in unflagged => parity_error

\* The byte on its way out is the one software was told has been accepted, nothing
\* written to TX_DATA meanwhile changes it, and the transmitter counts as busy only
\* while that byte is about to be sent or being sent: it becomes free again.
SendsWhatWasAccepted ==
  /\ tx_empty <=> to_send = None
  /\ tx_frame # None => tx_frame = to_send
  /\ tx_start => tx_data = to_send /\ tx_frame = None
  /\ ~tx_empty => tx_start \/ tx_frame # None

\* The bridge has no timeout, and yet no io access hangs the core: each is answered
\* within four clocks, whichever window and register it names.
EveryRequestAnswered == waiting => age <= AnswerTime

-----------------------------------------------------------------------------
\* What uart.v:173 says of RX_DATA: "the read consumes the byte".  Then RX_VALID is
\* only ever up for a byte software has not been handed.
ReadConsumesByte == rx_valid => unread # None
=============================================================================
