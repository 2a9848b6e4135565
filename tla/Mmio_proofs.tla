----------------------------- MODULE Mmio_proofs -----------------------------
(***************************************************************************)
(* Proofs about Mmio for every set of requests and of bytes.  One io       *)
(* access goes through six phases, of which the phase invariant says where *)
(* the bridge, the UART's PREADY and the two ghosts age and taken stand;   *)
(* the rest of the invariant is about the UART and needs from the bridge   *)
(* only that the request it presents is one software may make.             *)
(***************************************************************************)
EXTENDS Mmio, TLAPS

\* The phases of an access.
Resting  == /\ ~waiting /\ io_req = None /\ io_ack = None
            /\ apb_state = "IDLE" /\ PSEL = None /\ ~PENABLE /\ ~PREADY
Asked    == /\ waiting /\ io_req \in Requests /\ io_ack = None
            /\ apb_state = "IDLE" /\ PSEL = None /\ ~PENABLE /\ ~PREADY
            /\ age = 0
Served   == /\ waiting /\ io_req = None /\ io_ack = None
            /\ PSEL \in Windows /\ apb \in Requests /\ apb.window = PSEL
Selected == Served /\ apb_state = "SETUP" /\ ~PENABLE /\ ~PREADY /\ age = 1 /\ taken = 0
Enabled  == Served /\ apb_state = "ACCESS" /\ PENABLE /\ ~PREADY /\ age = 2 /\ taken = 0
Acted    == Served /\ apb_state = "ACCESS" /\ PENABLE /\ PREADY /\ PSEL = "UART"
            /\ age = 3 /\ taken = 1
Answered == /\ waiting /\ io_req = None /\ io_ack \in Answers
            /\ apb_state = "IDLE" /\ PSEL = None /\ ~PENABLE /\ ~PREADY
            /\ age \in 1..AnswerTime /\ (taken = 1 \/ io_ack.err)

Phase == Resting \/ Asked \/ Selected \/ Enabled \/ Acted \/ Answered

PortTypes == /\ age \in 0 .. AnswerTime + 1 /\ taken \in 0..1
             /\ apb \in Requests \union {None}
             /\ exit_code \in Codes \union {None}
             /\ waiting \in BOOLEAN /\ PENABLE \in BOOLEAN
DataTypes == /\ UartTypeOK /\ PRDATA \in ReadData
             /\ unread \in Bytes \union {None} /\ to_send \in Bytes \union {None}
             /\ unflagged \subseteq {"overrun", "parity"}

\* The transmitter starts only a byte it has accepted.
StartsAccepted == tx_start => ~tx_empty

IInv == /\ Phase /\ PortTypes /\ DataTypes
        /\ NoByteForgotten /\ NoErrorForgotten /\ SendsWhatWasAccepted /\ StartsAccepted

-----------------------------------------------------------------------------
LEMMA InitIInv == Init => IInv
<1> SUFFICES ASSUME Init PROVE IInv OBVIOUS
<1>1. UartTypeOK
  <2>1. {tx_empty, rx_valid, parity_error, tx_start, PREADY, PSLVERR} \subseteq BOOLEAN
    BY Zenon DEF Init, UartInit
  <2>2. {tx_data, rx_data, tx_frame} \subseteq Bytes \union {None} BY DEF Init, UartInit
  <2>4. control \subseteq ControlBits BY DEF Init, UartInit
  <2>3. rx_frame \in Frame \union {None} BY DEF Init, UartInit
  <2> QED BY <2>1, <2>2, <2>3, <2>4 DEF UartTypeOK
<1>2. PortTypes /\ Phase
  <2>1. waiting = FALSE /\ PENABLE = FALSE /\ PREADY = FALSE BY DEF Init, UartInit
  <2>2. ~waiting /\ ~PENABLE /\ ~PREADY /\ waiting \in BOOLEAN /\ PENABLE \in BOOLEAN
    BY ONLY <2>1, Zenon
  <2> QED BY <2>2 DEF Init, UartInit, PortTypes, AnswerTime, Phase, Resting
<1>3. DataTypes BY <1>1 DEF Init, UartInit, DataTypes, ReadData
<1>4. NoByteForgotten /\ NoErrorForgotten /\ SendsWhatWasAccepted /\ StartsAccepted
  BY DEF Init, UartInit, NoByteForgotten, NoErrorForgotten, SendsWhatWasAccepted, StartsAccepted
<1> QED BY <1>1, <1>2, <1>3, <1>4 DEF IInv

\* A read returns something a register can hold.
LEMMA ReadType ==
  ASSUME UartTypeOK, NEW p
  PROVE  rdata(p) \in ReadData
<1>1. status \in ReadData /\ control \in ReadData /\ tx_data \in ReadData /\ rx_data \in ReadData
        /\ None \in ReadData
  BY DEF status, ReadData, UartTypeOK
<1> QED BY <1>1 DEF rdata

\* A cycle takes the access from one phase to the next.
LEMMA PhaseStep ==
  ASSUME Phase, PortTypes, DataTypes,
         NEW tx_done \in BOOLEAN, NEW rx_over \in BOOLEAN, Cycle(tx_done, rx_over)
  PROVE  Phase' /\ PortTypes'
<1> DEFINE acts == access(uart_sel) \/ (PSEL = "EXIT" /\ PENABLE)
<1>1. /\ Ask \/ Rest \/ Await
      /\ DecodeError \/ Setup \/ BridgeIdle \/ Enable \/ Complete \/ AccessWait
      /\ exit_code' = IF exit_write /\ exit_code = None THEN apb.data ELSE exit_code
      /\ PREADY' = access(uart_sel)
      /\ PSLVERR \in BOOLEAN /\ PREADY \in BOOLEAN
      /\ age' = IF ~waiting THEN 0 ELSE IF age > 4 THEN age ELSE age + 1
      /\ taken' = IF io_req # None THEN 0 ELSE IF acts /\ taken < 2 THEN taken + 1 ELSE taken
  BY DEF Cycle, Bridge, SimExit, UartClock, ApbAnswer, Observe, DataTypes, UartTypeOK, AnswerTime
<1>2. exit_code' \in Codes \union {None}
  <2>1. CASE exit_write
    <3>1. apb \in Requests /\ apb.window = "EXIT" /\ apb.write /\ apb.reg = "EXIT_CODE"
      BY <2>1 DEF exit_write, Phase, Resting, Asked, Served, Selected, Enabled, Acted, Answered
    <3> QED BY <1>1, <3>1, RequestAssumption DEF PortTypes
  <2>2. CASE ~exit_write
    BY <1>1, <2>2 DEF PortTypes
  <2> QED BY <2>1, <2>2
<1>3. None \notin Requests /\ None \notin Answers BY RequestAssumption
<1>4. age' \in 0..5 /\ taken \in Nat BY <1>1 DEF PortTypes, AnswerTime
<1>5. ~PENABLE => ~PREADY' /\ taken' = IF io_req # None THEN 0 ELSE taken
  BY <1>1 DEF access, uart_sel
<1>6. PENABLE /\ PSEL \in Windows /\ ~PREADY /\ taken = 0 /\ io_req = None
        => taken' = 1 /\ (PREADY' <=> PSEL = "UART")
  <2>1. access(uart_sel) <=> PENABLE /\ PSEL = "UART" /\ ~PREADY BY DEF access, uart_sel
  <2>2. PREADY' <=> access(uart_sel) BY <1>1, Zenon
  <2> QED BY <1>1, <2>1, <2>2 DEF Windows
<1>7. PREADY /\ PSEL = "UART" /\ taken = 1 /\ io_req = None => taken' = 1 /\ ~PREADY'
  BY <1>1 DEF access, uart_sel
<1>16. /\ Await => io_req' = None
       /\ Await /\ io_ack = None => waiting'
       /\ Await /\ io_ack # None => ~waiting'
  BY Zenon DEF Await
<1> HIDE DEF acts
<1>15. waiting' \in BOOLEAN /\ PENABLE' \in BOOLEAN
  <2>1. waiting' \in BOOLEAN BY <1>1 DEF Ask, Rest, Await, PortTypes
  <2>2. PENABLE' \in BOOLEAN
    BY <1>1 DEF DecodeError, Setup, BridgeIdle, Enable, Complete, AccessWait, bridgeVars, PortTypes
  <2> QED BY <2>1, <2>2
<1>8. ASSUME NEW P, P => Phase', P => taken' \in 0..1 /\ apb' \in Requests \union {None},
             P
      PROVE  Phase' /\ PortTypes'
  BY <1>2, <1>4, <1>8, <1>15 DEF PortTypes, AnswerTime
<1>9. CASE Resting
  <2>1. BridgeIdle /\ (Ask \/ Rest)
    BY <1>1, <1>9 DEF Resting, DecodeError, Setup, Enable, Complete, AccessWait, Await
  <2>2. /\ apb_state' = "IDLE" /\ apb' = apb /\ ~PENABLE' /\ PSEL' = None /\ io_ack' = None
        /\ ~PREADY' /\ taken' = taken
    BY <1>5, <1>9, <2>1 DEF Resting, BridgeIdle
  <2>3. \/ waiting' /\ io_req' \in Requests /\ age' = 0
        \/ waiting' = waiting /\ io_req' = None
    BY <1>1, <1>9, <2>1 DEF Resting, Ask, Rest
  <2>4. Resting' \/ Asked' BY <1>9, <2>2, <2>3 DEF Resting, Asked
  <2> QED BY <1>8, <1>9, <2>2, <2>3, <2>4 DEF Phase, PortTypes, Resting
<1>10. CASE Asked
  <2>1. (DecodeError \/ Setup) /\ Await
    BY <1>1, <1>3, <1>10 DEF Asked, BridgeIdle, Enable, Complete, AccessWait, Ask, Rest
  <2>2. io_req' = None /\ waiting' /\ ~PREADY' /\ taken' = 0 /\ age' = 1
    BY <1>1, <1>3, <1>5, <1>10, <1>16, <2>1 DEF Asked
  <2>3. CASE DecodeError
    <3>1. io_ack' = [err |-> TRUE, data |-> None] /\ io_ack' \in Answers
      BY <2>3 DEF DecodeError, Answers, ReadData
    <3>2. apb_state' = "IDLE" /\ PSEL' = None /\ PENABLE' = PENABLE /\ apb' = apb
      BY <1>10, <2>3 DEF Asked, DecodeError
    <3>3. Answered' BY <1>10, <2>2, <3>1, <3>2 DEF Asked, Answered, AnswerTime
    <3> QED BY <1>8, <1>10, <2>2, <3>2, <3>3 DEF Phase, PortTypes
  <2>4. CASE Setup
    <3>1. /\ io_ack' = None /\ apb_state' = "SETUP" /\ PENABLE' = PENABLE
          /\ apb' = io_req /\ PSEL' = io_req.window /\ PSEL' \in Windows
      BY <2>4 DEF Setup
    <3>2. Selected' BY <1>10, <2>2, <3>1 DEF Asked, Selected, Served, Windows
    <3> QED BY <1>8, <1>10, <2>2, <3>1, <3>2 DEF Phase, PortTypes, Asked
  <2> QED BY <2>1, <2>3, <2>4
<1>11. CASE Selected
  <2>1. Enable /\ Await
    BY <1>1, <1>11 DEF Selected, Served, DecodeError, Setup, BridgeIdle, Complete, AccessWait, Ask, Rest
  <2>2. /\ PENABLE' /\ apb_state' = "ACCESS" /\ io_ack' = None /\ PSEL' = PSEL /\ apb' = apb
        /\ io_req' = None /\ waiting' /\ ~PREADY' /\ taken' = 0 /\ age' = 2
    BY <1>1, <1>5, <1>11, <1>16, <2>1 DEF Selected, Served, Enable
  <2>3. Enabled' BY <1>11, <2>2 DEF Selected, Enabled, Served, Windows
  <2> QED BY <1>8, <1>11, <2>2, <2>3 DEF Phase, PortTypes
<1>12. CASE Enabled
  <2>1. (Complete \/ AccessWait) /\ Await
    BY <1>1, <1>12 DEF Enabled, Served, DecodeError, Setup, BridgeIdle, Enable, Ask, Rest
  <2>2. /\ io_req' = None /\ waiting' /\ taken' = 1 /\ age' = 3
        /\ (PREADY' <=> PSEL = "UART")
    BY <1>1, <1>6, <1>12, <1>16, <2>1 DEF Enabled, Served
  <2>3. CASE PSEL = "EXIT"
    <3>1. Complete BY <2>1, <2>3 DEF AccessWait, PREADY_C
    <3>2. io_ack' = [err |-> FALSE, data |-> exit_code] /\ io_ack' \in Answers
      BY <3>1, <2>3 DEF Complete, Answers, ReadData, PortTypes
    <3>3. ~PENABLE' /\ PSEL' = None /\ apb_state' = "IDLE" /\ apb' = None
      BY <3>1 DEF Complete
    <3>4. Answered' BY <2>2, <2>3, <3>2, <3>3 DEF Answered, AnswerTime
    <3> QED BY <1>8, <2>2, <3>3, <3>4 DEF Phase
  <2>4. CASE PSEL = "UART"
    <3>1. AccessWait BY <1>12, <2>1, <2>4 DEF Enabled, Complete, PREADY_C
    <3>2. /\ io_ack' = None /\ apb_state' = "ACCESS" /\ PSEL' = PSEL /\ PENABLE' = PENABLE
          /\ apb' = apb
      BY <1>12, <3>1 DEF Enabled, Served, AccessWait, bridgeVars
    <3>3. Acted' BY <1>12, <2>2, <2>4, <3>2 DEF Enabled, Acted, Served, Windows
    <3> QED BY <1>8, <2>2, <3>2, <3>3 DEF Phase, PortTypes
  <2> QED BY <1>12, <2>3, <2>4 DEF Enabled, Served, Windows
<1>13. CASE Acted
  <2>1. Complete /\ Await
    BY <1>1, <1>13 DEF Acted, Served, DecodeError, Setup, BridgeIdle, Enable, AccessWait, PREADY_C,
                       Ask, Rest
  <2>2. io_req' = None /\ waiting' /\ taken' = 1 /\ age' = 4 /\ ~PREADY'
    BY <1>1, <1>7, <1>13, <1>16, <2>1 DEF Acted, Served
  <2>3. io_ack' = [err |-> PSLVERR, data |-> PRDATA] /\ io_ack' \in Answers
    BY <1>1, <1>13, <2>1 DEF Complete, Acted, Answers, DataTypes
  <2>4. ~PENABLE' /\ PSEL' = None /\ apb_state' = "IDLE" /\ apb' = None
    BY <2>1 DEF Complete
  <2>5. Answered' BY <2>2, <2>3, <2>4 DEF Answered, AnswerTime
  <2> QED BY <1>8, <2>2, <2>4, <2>5 DEF Phase
<1>14. CASE Answered
  <2>1. BridgeIdle /\ Await
    BY <1>1, <1>14 DEF Answered, DecodeError, Setup, Enable, Complete, AccessWait, Ask, Rest
  <2>2. /\ io_req' = None /\ ~waiting' /\ taken' = taken /\ ~PREADY'
        /\ ~PENABLE' /\ PSEL' = None /\ io_ack' = None /\ apb_state' = "IDLE" /\ apb' = apb
    BY <1>3, <1>5, <1>14, <2>1 DEF Answered, Await, BridgeIdle
  <2>3. Resting' BY <2>2 DEF Resting
  <2> QED BY <1>8, <2>2, <2>3 DEF Phase, PortTypes
<1> QED BY <1>9, <1>10, <1>11, <1>12, <1>13, <1>14 DEF Phase

\* What the bridge presents to the UART is a request of software's, with data that fits.
LEMMA UartAccess ==
  ASSUME Phase, PortTypes
  PROVE  /\ uart_sel => apb \in Requests /\ apb.window = "UART"
         /\ store(uart_sel, apb, "TX_DATA") => apb.data \in Bytes
         /\ store(uart_sel, apb, "CONTROL") => apb.data \subseteq ControlBits
<1>1. uart_sel => apb \in Requests /\ apb.window = "UART"
  BY DEF uart_sel, Phase, Resting, Asked, Served, Selected, Enabled, Acted, Answered
<1> QED BY <1>1, RequestAssumption DEF store, access

\* A cycle of the UART: its registers, its flags, and the ghosts that follow a byte.
LEMMA DataStep ==
  ASSUME IInv, NEW tx_done \in BOOLEAN, NEW rx_over \in BOOLEAN, Cycle(tx_done, rx_over)
  PROVE  /\ DataTypes'
         /\ NoByteForgotten' /\ NoErrorForgotten' /\ SendsWhatWasAccepted' /\ StartsAccepted'
<1> DEFINE starts == store(uart_sel, apb, "TX_DATA") /\ tx_en /\ tx_empty
           good   == rx_over /\ rx_frame.good
           bad    == rx_over /\ ~rx_frame.good
           handed == fetch(uart_sel, apb, {"RX_DATA", "HOLE"})
           clears == access(uart_sel) /\ apb.write /\ apb.reg = "CONTROL"
                       /\ "RX_OVERRUN" \notin apb.data
           polls  == fetch(uart_sel, apb, {"STATUS"})
<1>1. /\ Transmitter(tx_done) /\ Receiver(rx_over) /\ ApbAnswer(uart_sel, apb)
      /\ TxRegisters(uart_sel, apb, tx_done)
      /\ ControlRegister(uart_sel, apb, good)
      /\ RxRegisters(uart_sel, apb, good)
      /\ ParityFlag(uart_sel, apb, bad)
  BY DEF Cycle, UartClock
<1>2. /\ unread' = IF good /\ ~rx_valid THEN rx_frame.byte ELSE IF handed THEN None ELSE unread
      /\ unflagged' = (unflagged \ ((IF clears THEN {"overrun"} ELSE {}) \union
                                    (IF polls THEN {"parity"} ELSE {})))
                      \union (IF good /\ rx_valid THEN {"overrun"} ELSE {})
                      \union (IF bad THEN {"parity"} ELSE {})
      /\ to_send' = IF starts THEN apb.data ELSE IF tx_done THEN None ELSE to_send
  BY DEF Cycle, Observe, fetch
<1>3. /\ store(uart_sel, apb, "TX_DATA") => apb.data \in Bytes
      /\ store(uart_sel, apb, "CONTROL") => apb.data \subseteq ControlBits
  BY UartAccess DEF IInv
<1>4. None \notin Bytes /\ None \notin Frame BY RequestAssumption
<1>5. /\ {tx_data, rx_data, tx_frame} \subseteq Bytes \union {None} /\ control \subseteq ControlBits
      /\ tx_empty \in BOOLEAN /\ rx_valid \in BOOLEAN /\ parity_error \in BOOLEAN
      /\ tx_start \in BOOLEAN
      /\ rx_frame \in Frame \union {None}
      /\ unread \in Bytes \union {None} /\ to_send \in Bytes \union {None}
      /\ unflagged \subseteq {"overrun", "parity"}
  BY DEF IInv, DataTypes, UartTypeOK
<1>6. rx_over => rx_frame \in Frame /\ rx_frame.byte \in Bytes
  BY <1>1, <1>5 DEF Receiver, Frame
<1>7. rx_frame' \in Frame \union {None} BY <1>1, <1>5 DEF Receiver
<1>8. PRDATA' \in ReadData
  BY <1>1, ReadType DEF ApbAnswer, IInv, DataTypes
<1>9. PREADY' \in BOOLEAN /\ PSLVERR' \in BOOLEAN
  BY <1>1 DEF ApbAnswer, access, uart_sel
\* The receiver's half.
<1>10. rx_data' \in Bytes \union {None} /\ rx_valid' \in BOOLEAN /\ unread' \in Bytes \union {None}
  BY <1>1, <1>2, <1>5, <1>6 DEF RxRegisters
<1>11. NoByteForgotten'
  <2>1. unread # None => rx_valid /\ rx_data = unread BY DEF NoByteForgotten, IInv
  <2>2. CASE good /\ ~rx_valid
    BY <1>1, <1>2, <2>2 DEF RxRegisters, NoByteForgotten
  <2>3. CASE good /\ rx_valid
    BY <1>1, <1>2, <2>1, <2>3 DEF RxRegisters, NoByteForgotten
  <2>4. CASE ~good
    BY <1>1, <1>2, <2>1, <2>4 DEF RxRegisters, NoByteForgotten
  <2> QED BY <2>2, <2>3, <2>4
<1>12. /\ control' \subseteq ControlBits /\ parity_error' \in BOOLEAN
       /\ unflagged' \subseteq {"overrun", "parity"}
  BY <1>1, <1>2, <1>3, <1>5 DEF ControlRegister, ParityFlag, ControlBits
<1>13. NoErrorForgotten'
  <2>1. "overrun" \in unflagged' => "RX_OVERRUN" \in control'
    BY <1>1, <1>2 DEF ControlRegister, NoErrorForgotten, IInv, store, read_only, mapped
  <2>2. "parity" \in unflagged' => parity_error'
    BY <1>1, <1>2 DEF ParityFlag, NoErrorForgotten, IInv
  <2> QED BY <2>1, <2>2 DEF NoErrorForgotten
\* The transmitter's half.
<1>14. /\ tx_data' = IF store(uart_sel, apb, "TX_DATA") THEN apb.data ELSE tx_data
       /\ tx_start' <=> starts
       /\ tx_empty' <=> (tx_done \/ (tx_empty /\ ~starts))
       /\ tx_start' \in BOOLEAN /\ tx_empty' \in BOOLEAN
  BY <1>1, <1>5 DEF TxRegisters
<1>15. starts => apb.data \in Bytes /\ tx_data' = apb.data /\ tx_empty
  BY <1>3, <1>14
<1> HIDE DEF starts, good, bad, handed, clears, polls
<1>16. /\ tx_empty <=> to_send = None
       /\ tx_frame # None => tx_frame = to_send
       /\ tx_start => tx_data = to_send /\ tx_frame = None /\ ~tx_empty
       /\ ~tx_empty => tx_start \/ tx_frame # None
  BY DEF IInv, SendsWhatWasAccepted, StartsAccepted
<1>17. tx_frame' \in Bytes \union {None} /\ tx_data' \in Bytes \union {None}
       /\ to_send' \in Bytes \union {None}
  BY <1>1, <1>2, <1>3, <1>5, <1>14, <1>15 DEF Transmitter
<1>18. SendsWhatWasAccepted' /\ StartsAccepted'
  <2>1. CASE starts
    <3>1. tx_frame = None /\ ~tx_start /\ ~tx_done BY <1>1, <1>4, <1>15, <1>16, <2>1 DEF Transmitter
    <3>2. tx_frame' = None BY <1>1, <3>1 DEF Transmitter
    <3>3. to_send' = apb.data /\ tx_data' = apb.data /\ apb.data # None BY <1>2, <1>4, <1>15, <2>1
    <3> QED BY <1>14, <2>1, <3>1, <3>2, <3>3 DEF SendsWhatWasAccepted, StartsAccepted
  <2>2. CASE ~starts /\ tx_done
    <3>1. tx_frame' = None /\ to_send' = None BY <1>1, <1>2, <2>2 DEF Transmitter
    <3> QED BY <1>14, <2>2, <3>1 DEF SendsWhatWasAccepted, StartsAccepted
  <2>3. CASE ~starts /\ ~tx_done
    <3>1. to_send' = to_send /\ ~tx_start' /\ (tx_empty' <=> tx_empty) BY <1>2, <1>14, <2>3
    <3>2. tx_frame' = IF tx_frame = None /\ tx_start THEN to_send ELSE tx_frame
      BY <1>1, <1>16, <2>3 DEF Transmitter
    <3> QED BY <1>16, <3>1, <3>2 DEF SendsWhatWasAccepted, StartsAccepted
  <2> QED BY <2>1, <2>2, <2>3
<1>19. UartTypeOK'
  <2>1. {tx_empty, rx_valid, parity_error, tx_start, PREADY, PSLVERR}' \subseteq BOOLEAN
    BY <1>9, <1>10, <1>12, <1>14, Zenon
  <2>2. {tx_data, rx_data, tx_frame}' \subseteq Bytes \union {None}
    BY <1>10, <1>17
  <2> QED BY <1>7, <1>12, <2>1, <2>2, Zenon DEF UartTypeOK
<1> QED BY <1>8, <1>10, <1>11, <1>12, <1>13, <1>17, <1>18, <1>19 DEF DataTypes

-----------------------------------------------------------------------------
LEMMA StutterIInv == IInv /\ UNCHANGED vars => IInv'
<1> SUFFICES ASSUME IInv, UNCHANGED vars PROVE IInv' OBVIOUS
<1> USE DEF vars, uartVars, bridgeVars, ghostVars, IInv
<1>1. Phase' BY DEF Phase, Resting, Asked, Served, Selected, Enabled, Acted, Answered
<1>2. PortTypes' /\ DataTypes' BY DEF PortTypes, DataTypes, UartTypeOK
<1>3. NoByteForgotten' /\ NoErrorForgotten' /\ SendsWhatWasAccepted' /\ StartsAccepted'
  BY DEF NoByteForgotten, NoErrorForgotten, SendsWhatWasAccepted, StartsAccepted
<1> QED BY <1>1, <1>2, <1>3

\* The access goes through its phases, and the UART keeps what it was given.
THEOREM Inductive == Spec => []IInv
<1>1. IInv /\ [Next]_vars => IInv'
  <2> SUFFICES ASSUME IInv, [Next]_vars PROVE IInv' OBVIOUS
  <2>1. ASSUME NEW tx_done \in BOOLEAN, NEW rx_over \in BOOLEAN, Cycle(tx_done, rx_over)
        PROVE  IInv'
    BY <2>1, PhaseStep, DataStep DEF IInv
  <2>2. CASE UNCHANGED vars
    BY <2>2, StutterIInv
  <2> QED BY <2>1, <2>2 DEF Next
<1> QED BY InitIInv, <1>1, PTL DEF Spec

\* The registers, the bridge and the ghosts keep their types.
THEOREM TypeCorrect == Spec => []TypeOK
<1>1. IInv => TypeOK
  <2> SUFFICES ASSUME IInv PROVE TypeOK OBVIOUS
  <2>1. /\ waiting \in BOOLEAN /\ PENABLE \in BOOLEAN /\ UartTypeOK
        /\ age \in 0 .. AnswerTime + 1 /\ taken \in 0..2 /\ apb \in Requests \union {None}
        /\ exit_code \in Codes \union {None} /\ unread \in Bytes \union {None}
        /\ to_send \in Bytes \union {None} /\ unflagged \subseteq {"overrun", "parity"}
    BY DEF IInv, PortTypes, DataTypes
  <2>2. /\ io_req \in Requests \union {None} /\ (io_ack = None \/ io_ack.err \in BOOLEAN)
        /\ apb_state \in {"IDLE", "SETUP", "ACCESS"} /\ PSEL \in {"EXIT", "UART", None}
    BY DEF IInv, Phase, Resting, Asked, Served, Selected, Enabled, Acted, Answered, Answers, Windows
  <2> QED BY <2>1, <2>2, Zenon DEF TypeOK
<1> QED BY Inductive, <1>1, PTL

\* Every request software makes acts on its slave exactly once before it is acknowledged,
\* and one that fails the decode on none.
THEOREM ActsOnce == Spec => []ActsExactlyOnce
<1>1. IInv => ActsExactlyOnce
  BY DEF IInv, PortTypes, ActsExactlyOnce, Phase, Resting, Asked, Served, Selected, Enabled, Acted,
         Answered
<1> QED BY Inductive, <1>1, PTL

\* No io access hangs the core: each is answered within four clocks.
THEOREM AlwaysAnswered == Spec => []EveryRequestAnswered
<1>1. IInv => EveryRequestAnswered
  BY DEF IInv, EveryRequestAnswered, Phase, Resting, Asked, Selected, Enabled, Acted, Answered,
         AnswerTime
<1> QED BY Inductive, <1>1, PTL

\* A byte that has landed stays until software has been handed it, whatever frame or read
\* comes in the same cycle.
THEOREM BytesKept == Spec => []NoByteForgotten
<1>1. IInv => NoByteForgotten BY DEF IInv
<1> QED BY Inductive, <1>1, PTL

\* An overrun or a bad frame stays flagged until software clears or polls the flag, also if
\* it does so in the cycle that raises it.
THEOREM ErrorsKept == Spec => []NoErrorForgotten
<1>1. IInv => NoErrorForgotten BY DEF IInv
<1> QED BY Inductive, <1>1, PTL

\* The byte being sent is the one that was accepted, and the transmitter is busy only with it.
THEOREM SendsAccepted == Spec => []SendsWhatWasAccepted
<1>1. IInv => SendsWhatWasAccepted BY DEF IInv
<1> QED BY Inductive, <1>1, PTL
=============================================================================
