--------------------------- MODULE UartLine_proofs --------------------------
(***************************************************************************)
(* Facts about the serial line, for every number of samples per bit, every *)
(* set of formats and of bytes, and every drift the samples leave room for.*)
(***************************************************************************)
EXTENDS UartLine, TLAPS

\* The listener samples within a bit although it has lost two ticks and the clocks drift.
Half   == SAMPLES \div 2
Margin == DRIFT + 2 <= Half

\* The bit the sender is at, and the bit the listener will sample next.
stopBit == DataBits + 2 + (IF ParityEn THEN 1 ELSE 0)
txBit == IF tx_state = "START" THEN 0
         ELSE IF tx_state = "DATA" THEN tx_n + 1
         ELSE IF tx_state = "PARITY" THEN DataBits + 2 ELSE stopBit + tx_sb
rxBit == IF rx_state = "START" THEN 0
         ELSE IF rx_state = "DATA" THEN rx_n + 1
         ELSE IF rx_state = "PARITY" THEN DataBits + 2 ELSE stopBit + rx_sb

ConfigTypes ==
  /\ listener \in {"uart_rx", "uart_probe"} /\ config \in Formats
  /\ listener = "uart_probe" => ~ParityEn
TxTypes ==
  /\ tx_state \in States /\ tx_s \in 0 .. SAMPLES - 1 /\ tx_n \in 0 .. 7 /\ tx_sb \in 0 .. 3
  /\ tx_b \in Byte /\ tx_o \in BOOLEAN /\ tx \in BOOLEAN /\ drift \in -DRIFT .. DRIFT
  /\ tx_state = "DATA" => tx_n <= DataBits
  /\ tx_state = "PARITY" => ParityEn /\ tx_sb = 0
  /\ tx_state = "STOP" => tx_sb <= lastStop
RxTypes ==
  /\ rx_state \in States /\ rx_s \in 0 .. SAMPLES - 1 /\ rx_n \in 0 .. 7 /\ rx_sb \in 0 .. 3
  /\ rx_b \in Byte /\ rx_o \in BOOLEAN /\ rx_pe = FALSE
  /\ rx_state = "START" => rx_s < Half /\ rx_n = 0 /\ rx_sb = 0
  /\ rx_state = "DATA" => rx_n <= DataBits /\ rx_sb = 0
  /\ rx_state = "PARITY" => ParityEn /\ rx_sb = 0
  /\ rx_state = "STOP" => rx_sb <= lastStop

\* The line follows the sender by a clock.
Line == tx_s >= 1 \/ tx_state = "IDLE" => tx = level

\* No frame; its start bit not yet noticed; both at it; reported, and its stop bit not over.
Quiet  == tx_state = "IDLE" /\ rx_state = "IDLE"
Begun  == /\ tx_state = "START" /\ rx_state = "IDLE"
          /\ \/ tx /\ tx_s = 0 /\ drift = 0
             \/ ~tx /\ tx_s \in 0 .. 1 /\ tx_s + drift \in 0 .. 1
Abreast ==
  /\ tx_state # "IDLE" /\ rx_state # "IDLE"
  /\ rx_state = "START" => tx_state = "START" /\ (tx_s - rx_s) + drift \in 0 .. 2
  /\ rx_state # "START" =>
       \/ txBit = rxBit /\ (tx_s - rx_s) + drift - Half + SAMPLES \in 0 .. 2
       \/ txBit = rxBit - 1 /\ (tx_s - rx_s) + drift - Half \in 0 .. 2
Ended == tx_state = "STOP" /\ tx_sb = lastStop /\ tx_s >= 1 /\ rx_state = "IDLE"
Place == Quiet \/ Begun \/ Abreast \/ Ended

\* A byte is in flight until it has been reported.
Flight ==
  /\ Begun \/ Abreast => in_flight \in Bytes /\ got = None
  /\ Quiet \/ Ended => in_flight = None \/ got # None
  /\ ReceivesWhatIsSent

\* What the sender has left to send, and what the listener has heard.
Sending ==
  Begun \/ Abreast =>
    /\ tx_state = "START" => tx_b = in_flight /\ tx_o = FALSE
    /\ tx_state = "DATA" => \A x \in 0 .. 7 : tx_b[x] = (x + tx_n <= 7 /\ in_flight[x + tx_n])
Hearing ==
  Abreast =>
    /\ rx_state = "START" => rx_b = [i \in 0 .. 7 |-> FALSE]
    /\ rx_state = "DATA" =>
         \A x \in 0 .. 7 :
           rx_b[x] = IF listener = "uart_rx" THEN x + rx_n >= 8 /\ in_flight[x + rx_n - 8]
                     ELSE x < rx_n /\ in_flight[x]
    /\ rx_state \in {"PARITY", "STOP"} => rx_b = carried(in_flight)
\* The parity so far, at both ends.
Parities ==
  Abreast /\ listener = "uart_rx" =>
    /\ rx_state = "START" => rx_o = FALSE
    /\ rx_state \in {"DATA", "PARITY"} =>
         rx_o = IF txBit = rxBit \/ tx_state # "DATA" THEN tx_o ELSE (tx_o # tx_b[0])

-----------------------------------------------------------------------------
(* The constants, and the moves of either end.                              *)

\* What the assumptions say.
LEMMA Constants ==
  ASSUME ConfigTypes
  PROVE  /\ SAMPLES \in Nat /\ SAMPLES >= 4 /\ DRIFT \in Nat
         /\ Half \in Nat /\ Half + Half <= SAMPLES /\ SAMPLES <= Half + Half + 1
         /\ DataBits \in 0 .. 7 /\ lastStop \in 0 .. 3 /\ ParityEn \in BOOLEAN /\ ParityOdd \in BOOLEAN
         /\ Bytes \subseteq Byte /\ None \notin Bytes /\ None \notin [byte : Byte, bad : BOOLEAN]
<1>1. SAMPLES \in Nat /\ SAMPLES >= 4 /\ DRIFT \in Nat BY LineAssumption
<1>2. Half \in Nat /\ Half + Half <= SAMPLES /\ SAMPLES <= Half + Half + 1 BY <1>1 DEF Half
<1>3. config \in [data_bits : 0..7, stop_bits : 0..3, parity_en : BOOLEAN, parity_odd : BOOLEAN]
  BY LineAssumption DEF ConfigTypes
<1>4. DataBits \in 0 .. 7 /\ StopBits \in 0 .. 3 /\ ParityEn \in BOOLEAN /\ ParityOdd \in BOOLEAN
  BY <1>3 DEF DataBits, StopBits, ParityEn, ParityOdd
<1>5. lastStop \in 0 .. 3 BY <1>4 DEF lastStop
<1> QED BY <1>1, <1>2, <1>4, <1>5, LineAssumption

TxIdles  == tx_state = "IDLE" /\ tx' = level /\ UNCHANGED <<tx_state, tx_s, tx_n, tx_sb, tx_b, tx_o>>
TxStarts == \E din \in Bytes : TxStart(din)
TxGoes(k) == /\ tx_state # "IDLE" /\ tx' = level /\ tx_s' = tx_s + k /\ tx_s' \in 0 .. SAMPLES - 1
             /\ UNCHANGED <<tx_state, tx_n, tx_sb, tx_b, tx_o>>
TxNext ==
  \/ /\ tx_state = "START" /\ tx_state' = "DATA" /\ tx_n' = 0 /\ UNCHANGED <<tx_sb, tx_b, tx_o>>
  \/ /\ tx_state = "DATA" /\ tx_b' = shift(tx_b, FALSE) /\ tx_o' = (tx_o # tx_b[0])
     /\ \/ tx_n # DataBits /\ tx_state' = "DATA" /\ tx_n' = tx_n + 1 /\ UNCHANGED tx_sb
        \/ /\ tx_n = DataBits /\ tx_state' = (IF ParityEn THEN "PARITY" ELSE "STOP")
           /\ tx_sb' = 0 /\ UNCHANGED tx_n
  \/ tx_state = "PARITY" /\ tx_state' = "STOP" /\ UNCHANGED <<tx_n, tx_sb, tx_b, tx_o>>
  \/ /\ tx_state = "STOP" /\ tx_sb # lastStop /\ tx_state' = "STOP" /\ tx_sb' = tx_sb + 1
     /\ UNCHANGED <<tx_n, tx_b, tx_o>>
TxTurns(k) == k = 1 /\ tx_s = SAMPLES - 1 /\ tx_s' = 0 /\ tx' = level /\ TxNext
TxEnds(k)  == /\ k = 1 /\ tx_s = SAMPLES - 1 /\ tx_s' = 0 /\ tx' = level
              /\ tx_state = "STOP" /\ tx_sb = lastStop /\ tx_state' = "IDLE"
              /\ UNCHANGED <<tx_n, tx_sb, tx_b, tx_o>>

ticks(t) == IF t THEN 1 ELSE 0

\* The sender in a clock.
LEMMA TxMoves ==
  ASSUME ConfigTypes, TxTypes, NEW t \in BOOLEAN, TxClock(t)
  PROVE  \/ TxIdles \/ TxStarts \/ TxGoes(ticks(t)) \/ TxTurns(ticks(t)) \/ TxEnds(ticks(t))
<1>1. SAMPLES \in Nat /\ SAMPLES >= 4 /\ tx_s \in 0 .. SAMPLES - 1 /\ DataBits \in 0 .. 7
      /\ lastStop \in 0 .. 3 /\ tx_n \in 0 .. 7 /\ tx_sb \in 0 .. 3
  BY Constants DEF TxTypes
<1>2. CASE TxStarts BY <1>2
<1>3. CASE tx_state = "IDLE" /\ tx' = level /\ TxHold BY <1>3 DEF TxIdles, TxHold
<1>4. CASE ~t /\ tx_state # "IDLE" /\ tx' = level /\ TxHold
  BY <1>1, <1>4 DEF TxHold, TxGoes, ticks
<1>5. CASE t /\ tx' = level /\ (TxStartBit \/ TxDataBit \/ TxParityBit \/ TxStopBit)
  <2>1. ticks(t) = 1 BY <1>5 DEF ticks
  <2>2. CASE TxCount /\ tx_state # "IDLE"
    <3>1. tx_s + 1 \in 0 .. SAMPLES - 1 BY <1>1, <2>2 DEF TxCount
    <3> QED BY <1>5, <2>1, <2>2, <3>1 DEF TxCount, TxGoes
  <2>3. CASE ~TxCount
    <3>1. CASE TxStartBit BY <1>5, <2>1, <2>3, <3>1 DEF TxStartBit, bitOver, TxTurns, TxNext
    <3>2. CASE TxDataBit
      <4>1. tx_n # DataBits => tx_n <= DataBits /\ tx_state' = "DATA" BY <2>3, <3>2 DEF TxDataBit, TxTypes
      <4>2. tx_n # DataBits => (tx_n + 1) % 8 = tx_n + 1
        <5>1. tx_n # DataBits => tx_n + 1 \in 0 .. 7 BY <1>1, <4>1
        <5>2. \A n \in 0 .. 7 : n % 8 = n OBVIOUS
        <5> QED BY <5>1, <5>2
      <4> QED BY <1>5, <2>1, <2>3, <3>2, <4>1, <4>2 DEF TxDataBit, bitOver, TxTurns, TxNext
    <3>3. CASE TxParityBit BY <1>5, <2>1, <2>3, <3>3 DEF TxParityBit, bitOver, TxTurns, TxNext
    <3>4. CASE TxStopBit
      <4>1. tx_sb # lastStop => (tx_sb + 1) % 4 = tx_sb + 1
        <5>1. tx_sb <= lastStop BY <3>4 DEF TxStopBit, TxTypes
        <5>2. tx_sb # lastStop => tx_sb + 1 \in 0 .. 3 BY <1>1, <5>1
        <5>3. \A n \in 0 .. 3 : n % 4 = n OBVIOUS
        <5> QED BY <5>2, <5>3
      <4> QED BY <1>5, <2>1, <2>3, <3>4, <4>1 DEF TxStopBit, bitOver, TxTurns, TxNext, TxEnds
    <3> QED BY <1>5, <3>1, <3>2, <3>3, <3>4
  <2> QED BY <1>5, <2>2, <2>3 DEF TxStartBit, TxDataBit, TxParityBit, TxStopBit
<1> QED BY <1>2, <1>3, <1>4, <1>5 DEF TxClock, TxStarts

RxGoes(k) == /\ rx_state # "IDLE" /\ rx_s' = rx_s + k /\ rx_s' \in 0 .. SAMPLES - 1
             /\ (rx_state = "START" => rx_s' < Half)
             /\ got' = None /\ UNCHANGED <<rx_state, rx_n, rx_sb, rx_b, rx_o, rx_pe>>
RxConfirms(k) == /\ k = 1 /\ rx_state = "START" /\ rx_s = Half - 1 /\ rx_s' = 0 /\ got' = None
                 /\ rx_state' = (IF listener = "uart_probe" /\ tx THEN "IDLE" ELSE "DATA")
                 /\ UNCHANGED <<rx_n, rx_sb, rx_b, rx_o, rx_pe>>
heard == IF listener = "uart_rx"
         THEN IF rx_n = DataBits THEN shiftBy(shift(rx_b, tx), 7 - DataBits) ELSE shift(rx_b, tx)
         ELSE [rx_b EXCEPT ![rx_n] = tx]
RxNext ==
  \/ /\ rx_state = "DATA" /\ rx_b' = heard /\ got' = None /\ UNCHANGED <<rx_sb, rx_pe>>
     /\ listener = "uart_rx" => rx_o' = (rx_o # tx)
     /\ rx_o' \in {rx_o, rx_o # tx}
     /\ \/ rx_n # DataBits /\ rx_state' = "DATA" /\ rx_n' = rx_n + 1
        \/ rx_n = DataBits /\ rx_state' = (IF ParityEn THEN "PARITY" ELSE "STOP") /\ rx_n' \in 0 .. 7
  \/ /\ rx_state = "PARITY" /\ listener = "uart_rx" /\ rx_state' = "STOP" /\ got' = None
     /\ rx_pe' = (IF ParityOdd THEN rx_o = tx ELSE rx_o # tx)
     /\ UNCHANGED <<rx_n, rx_sb, rx_b, rx_o>>
  \/ /\ rx_state = "STOP" /\ rx_sb # lastStop /\ rx_sb' = rx_sb + 1 /\ rx_state' = "STOP"
     /\ listener = "uart_rx" \/ tx => got' = None
     /\ UNCHANGED <<rx_n, rx_b, rx_o, rx_pe>>
RxSamples(k) == k = 1 /\ rx_s = SAMPLES - 1 /\ rx_s' = 0 /\ RxNext
RxReports(k) ==
  /\ k = 1 /\ rx_s = SAMPLES - 1 /\ rx_s' = 0
  /\ rx_state = "STOP" /\ rx_sb = lastStop /\ rx_state' = "IDLE" /\ rx_sb' \in 0 .. 3
  /\ got' = [byte |-> rx_b, bad |-> IF listener = "uart_rx" THEN rx_pe ELSE ~tx]
  /\ rx_pe' \in {rx_pe, FALSE}
  /\ UNCHANGED <<rx_n, rx_b, rx_o>>

\* The listener in a clock.
LEMMA RxMoves ==
  ASSUME ConfigTypes, RxTypes, NEW t \in BOOLEAN, Listen(t)
  PROVE  \/ RxIdle \/ RxFalling \/ RxGoes(ticks(t)) \/ RxConfirms(ticks(t)) \/ RxSamples(ticks(t))
         \/ RxReports(ticks(t))
<1>1. SAMPLES \in Nat /\ SAMPLES >= 4 /\ rx_s \in 0 .. SAMPLES - 1 /\ DataBits \in 0 .. 7
      /\ lastStop \in 0 .. 3 /\ rx_n \in 0 .. 7 /\ rx_sb \in 0 .. 3
      /\ Half \in Nat /\ Half + Half <= SAMPLES
  BY Constants DEF RxTypes
<1>2. /\ rx_state = "DATA" /\ rx_n # DataBits => (rx_n + 1) % 8 = rx_n + 1
      /\ (rx_n + 1) % 8 \in 0 .. 7
  <2>1. rx_state = "DATA" /\ rx_n # DataBits => rx_n + 1 \in 0 .. 7 BY <1>1 DEF RxTypes
  <2>2. \A n \in 0 .. 7 : n % 8 = n OBVIOUS
  <2>3. (rx_n + 1) % 8 \in 0 .. 7 BY <1>1
  <2> QED BY <2>1, <2>2, <2>3
<1>3. /\ rx_state = "STOP" /\ rx_sb # lastStop => (rx_sb + 1) % 4 = rx_sb + 1
      /\ (rx_sb + 1) % 4 \in 0 .. 3
  <2>1. rx_state = "STOP" /\ rx_sb # lastStop => rx_sb + 1 \in 0 .. 3 BY <1>1 DEF RxTypes
  <2>2. \A n \in 0 .. 3 : n % 4 = n OBVIOUS
  <2>3. (rx_sb + 1) % 4 \in 0 .. 3 BY <1>1
  <2> QED BY <2>1, <2>2, <2>3
<1>4. CASE RxIdle \/ RxFalling BY <1>4
<1>5. CASE ~t /\ rx_state # "IDLE" /\ got' = None /\ UNCHANGED rxVars
  <2>1. rx_s' = rx_s + 0 /\ rx_s' = rx_s BY <1>1, <1>5 DEF rxVars
  <2>2. rx_state = "START" => rx_s' < Half BY <2>1 DEF RxTypes
  <2> QED BY <1>1, <1>5, <2>1, <2>2 DEF RxGoes, ticks, rxVars
<1>6. CASE t /\ rx_state # "IDLE" /\ RxCount /\ rx_s # SAMPLES - 1
             /\ (rx_state = "START" => rx_s # SAMPLES \div 2 - 1)
  <2>1. rx_s + 1 \in 0 .. SAMPLES - 1 BY <1>1, <1>6
  <2>2. rx_state = "START" => rx_s + 1 < Half
    <3>1. rx_state = "START" => rx_s < Half /\ rx_s # Half - 1 BY <1>6 DEF RxTypes, Half
    <3> QED BY <1>1, <3>1
  <2> QED BY <1>6, <2>1, <2>2 DEF RxCount, RxGoes, ticks
<1>7. rx_state = "START" => rx_s # SAMPLES - 1 BY <1>1 DEF RxTypes
<1>8. CASE t /\ listener = "uart_rx" /\ (RxStartBit \/ RxDataBit \/ RxParityBit \/ RxStopBit)
  <2> USE <1>8
  <2>1. ticks(t) = 1 /\ rx_state # "IDLE" BY DEF ticks, RxStartBit, RxDataBit, RxParityBit, RxStopBit
  <2>2. CASE RxStartBit
    <3>1. CASE RxCount /\ rx_s # SAMPLES \div 2 - 1 BY <1>6, <1>7, <2>1, <2>2, <3>1 DEF RxStartBit
    <3>2. CASE rx_s = SAMPLES \div 2 - 1 /\ rx_state' = "DATA" /\ rx_s' = 0 /\ rx_n' = 0 /\ got' = None
               /\ UNCHANGED <<rx_sb, rx_b, rx_o, rx_pe>>
      <4>1. rx_state = "START" /\ rx_n = 0 BY <2>2 DEF RxStartBit, RxTypes
      <4> QED BY <2>1, <3>2, <4>1 DEF RxConfirms, Half
    <3> QED BY <2>2, <3>1, <3>2 DEF RxStartBit
  <2>3. CASE ~sampling /\ RxCount /\ (RxDataBit \/ RxParityBit \/ RxStopBit)
    <3>1. rx_state # "START" BY <2>3 DEF RxDataBit, RxParityBit, RxStopBit
    <3> QED BY <1>6, <2>1, <2>3, <3>1 DEF sampling
  <2>4. CASE sampling /\ RxDataBit
    <3>1. rx_state = "DATA" /\ rx_s = SAMPLES - 1 /\ rx_s' = 0 /\ got' = None /\ rx_o' = (rx_o # tx)
          /\ UNCHANGED <<rx_sb, rx_pe>>
      BY <2>4 DEF RxDataBit, sampling
    <3>2. /\ rx_b' = heard
          /\ \/ rx_n # DataBits /\ rx_state' = "DATA" /\ rx_n' = rx_n + 1
             \/ rx_n = DataBits /\ rx_state' = (IF ParityEn THEN "PARITY" ELSE "STOP") /\ rx_n' \in 0 .. 7
      BY <1>1, <1>2, <2>4, <3>1 DEF RxDataBit, sampling, heard
    <3> QED BY <2>1, <3>1, <3>2 DEF RxSamples, RxNext
  <2>5. CASE sampling /\ RxParityBit
    BY <2>1, <2>5 DEF RxParityBit, sampling, RxSamples, RxNext
  <2>6. CASE sampling /\ RxStopBit
    BY <1>1, <1>3, <2>1, <2>6 DEF RxStopBit, sampling, RxSamples, RxReports, RxNext
  <2> QED BY <2>2, <2>3, <2>4, <2>5, <2>6 DEF RxDataBit, RxParityBit, RxStopBit
<1>9. CASE t /\ listener = "uart_probe" /\ rx_state # "IDLE"
             /\ (ProbeConfirm \/ ProbeData \/ ProbeStop \/ ProbeWaits)
  <2> USE <1>9
  <2>1. ticks(t) = 1 /\ ~ParityEn /\ listener # "uart_rx" BY DEF ticks, ConfigTypes
  <2>2. CASE ProbeConfirm
    BY <2>1, <2>2 DEF ProbeConfirm, RxConfirms, Half
  <2>3. CASE ProbeData
    <3>1. rx_state = "DATA" /\ rx_s = SAMPLES - 1 /\ rx_s' = 0 /\ got' = None /\ rx_o' = rx_o
          /\ UNCHANGED <<rx_sb, rx_pe>> /\ rx_b' = heard
      BY <2>1, <2>3 DEF ProbeData, sampling, heard
    <3>2. \/ rx_n # DataBits /\ rx_state' = "DATA" /\ rx_n' = rx_n + 1
          \/ rx_n = DataBits /\ rx_state' = (IF ParityEn THEN "PARITY" ELSE "STOP") /\ rx_n' \in 0 .. 7
      BY <1>2, <2>1, <2>3 DEF ProbeData
    <3> QED BY <2>1, <3>1, <3>2 DEF RxSamples, RxNext
  <2>4. CASE ProbeStop
    BY <1>1, <1>3, <2>1, <2>4 DEF ProbeStop, sampling, RxSamples, RxReports, RxNext
  <2>5. CASE ProbeWaits
    <3>1. rx_state # "PARITY" BY <2>1 DEF RxTypes
    <3>2. rx_s # SAMPLES - 1 BY <1>7, <2>5, <3>1 DEF ProbeWaits, sampling, RxTypes, States
    <3> QED BY <1>6, <2>5, <3>2 DEF ProbeWaits
  <2> QED BY <2>2, <2>3, <2>4, <2>5
<1> QED BY <1>4, <1>5, <1>8, <1>9 DEF Listen, RxClock, ProbeClock

-----------------------------------------------------------------------------
(* The two ends together: which of the sender's moves meets which of the     *)
(* listener's.  DRIFT is what excludes the others.                           *)

Sure == /\ ConfigTypes /\ TxTypes /\ RxTypes /\ Line /\ Place
        /\ Flight /\ Sending /\ Hearing /\ Parities

\* The line is what the sender's state says.
Clear == tx_s >= 1 /\ tx = level

Rests(k)    == Quiet /\ RxIdle /\ TxIdles
Opens(k)    == Quiet /\ RxIdle /\ TxStarts
Falls(k)    == Begun /\ tx /\ RxIdle /\ TxGoes(k)
Notices(k)  == Begun /\ ~tx /\ RxFalling /\ TxGoes(k)
Advance(k, r) == Abreast /\ RxGoes(r) /\ TxGoes(k)
Catches(k, r) == Abreast /\ RxGoes(r) /\ rx_state # "START" /\ txBit = rxBit - 1 /\ TxTurns(k)
Confirms(k, r) == /\ Abreast /\ Clear /\ RxConfirms(r) /\ rx_state' = "DATA" /\ tx_state = "START"
                  /\ TxGoes(k) \/ TxTurns(k)
Hears(k, r) == /\ Abreast /\ Clear /\ txBit = rxBit /\ RxSamples(r)
               /\ TxGoes(k) \/ TxTurns(k)
Reports(k, r) == /\ Abreast /\ Clear /\ txBit = rxBit /\ RxReports(r)
                 /\ tx_state = "STOP" /\ tx_sb = lastStop
                 /\ TxGoes(k) \/ TxEnds(k)
Closes(k)   == Ended /\ RxIdle /\ (TxGoes(k) \/ TxEnds(k))
Joint(k, r) == \/ Rests(k) \/ Opens(k) \/ Falls(k) \/ Notices(k) \/ Advance(k, r) \/ Catches(k, r)
               \/ Confirms(k, r) \/ Hears(k, r) \/ Reports(k, r) \/ Closes(k)

\* At the same bit both are in the same state.
LEMMA SameBit ==
  ASSUME ConfigTypes, TxTypes, RxTypes, Abreast, rx_state # "START", txBit = rxBit
  PROVE  /\ tx_state = rx_state
         /\ rx_state = "DATA" => tx_n = rx_n
         /\ rx_state = "STOP" => tx_sb = rx_sb
<1>1. /\ DataBits \in 0 .. 7 /\ ParityEn \in BOOLEAN /\ tx_n \in 0 .. 7 /\ rx_n \in 0 .. 7
      /\ tx_sb \in 0 .. 3 /\ rx_sb \in 0 .. 3 /\ tx_state \in States /\ rx_state \in States
      /\ tx_state # "IDLE" /\ rx_state # "IDLE"
      /\ (tx_state = "DATA" => tx_n <= DataBits) /\ (rx_state = "DATA" => rx_n <= DataBits)
      /\ (tx_state = "PARITY" => ParityEn) /\ (rx_state = "PARITY" => ParityEn)
  BY Constants DEF TxTypes, RxTypes, Abreast
<1>2. /\ stopBit \in Nat /\ stopBit >= DataBits + 2 /\ (ParityEn => stopBit = DataBits + 3)
  BY <1>1 DEF stopBit
<1> QED BY <1>1, <1>2 DEF txBit, rxBit, States

\* The sender is never a bit behind a listener that waits for the last.
LEMMA LastBit ==
  ASSUME ConfigTypes, TxTypes, RxTypes, Abreast, rx_state # "START",
         tx_state = "STOP", tx_sb = lastStop
  PROVE  txBit # rxBit - 1
<1>1. /\ DataBits \in 0 .. 7 /\ ParityEn \in BOOLEAN /\ rx_n \in 0 .. 7 /\ lastStop \in 0 .. 3
      /\ rx_sb \in 0 .. 3 /\ rx_state \in States /\ rx_state # "IDLE"
      /\ (rx_state = "DATA" => rx_n <= DataBits) /\ (rx_state = "STOP" => rx_sb <= lastStop)
      /\ (rx_state = "PARITY" => ParityEn)
  BY Constants DEF TxTypes, RxTypes, Abreast
<1>2. /\ stopBit \in Nat /\ stopBit >= DataBits + 2 /\ (ParityEn => stopBit = DataBits + 3)
  BY <1>1 DEF stopBit
<1> QED BY <1>1, <1>2 DEF txBit, rxBit, States

\* What is sampled is the sender's bit, and its line is settled.
LEMMA Sampled ==
  ASSUME ConfigTypes, TxTypes, RxTypes, Line, Abreast, Margin
  PROVE  /\ rx_state # "START" /\ rx_s = SAMPLES - 1 => Clear /\ txBit = rxBit
         /\ rx_state = "START" /\ rx_s = Half - 1 => Clear
<1>1. /\ SAMPLES \in Nat /\ DRIFT \in Nat /\ Half \in Nat /\ Half + Half <= SAMPLES
      /\ SAMPLES <= Half + Half + 1 /\ tx_s \in 0 .. SAMPLES - 1 /\ rx_s \in 0 .. SAMPLES - 1
      /\ drift \in -DRIFT .. DRIFT /\ DRIFT + 2 <= Half
  BY Constants DEF TxTypes, RxTypes, Margin
<1>2. CASE rx_state = "START" /\ rx_s = Half - 1
  <2>1. (tx_s - rx_s) + drift \in 0 .. 2 BY <1>2 DEF Abreast
  <2>2. tx_s >= 1 BY <1>1, <1>2, <2>1
  <2> QED BY <1>2, <2>2 DEF Line, Clear
<1>3. CASE rx_state # "START" /\ rx_s = SAMPLES - 1
  <2>1. CASE txBit = rxBit /\ (tx_s - rx_s) + drift - Half + SAMPLES \in 0 .. 2
    <3>1. tx_s >= 1 BY <1>1, <1>3, <2>1
    <3> QED BY <1>3, <2>1, <3>1 DEF Line, Clear
  <2>2. ~ (tx_s - rx_s) + drift - Half \in 0 .. 2 BY <1>1, <1>3
  <2> QED BY <1>3, <2>1, <2>2 DEF Abreast
<1> QED BY <1>2, <1>3

\* While the listener only counts, the sender turns to the bit awaited.
LEMMA Turning ==
  ASSUME ConfigTypes, TxTypes, RxTypes, Abreast, Margin, NEW k \in 0 .. 1, NEW r \in 0 .. 1,
         drift' = drift + r - k, drift' \in -DRIFT .. DRIFT,
         k = 1, tx_s = SAMPLES - 1, RxGoes(r)
  PROVE  rx_state # "START" /\ txBit = rxBit - 1
<1>1. /\ SAMPLES \in Nat /\ DRIFT \in Nat /\ Half \in Nat /\ Half + Half <= SAMPLES
      /\ SAMPLES <= Half + Half + 1 /\ tx_s \in 0 .. SAMPLES - 1 /\ rx_s \in 0 .. SAMPLES - 1
      /\ drift \in -DRIFT .. DRIFT /\ DRIFT + 2 <= Half
  BY Constants DEF TxTypes, RxTypes, Margin
<1>2. rx_s + r <= SAMPLES - 1 /\ (rx_state = "START" => rx_s + r < Half) BY <1>1 DEF RxGoes
<1>3. drift + r - 1 >= -DRIFT BY <1>1
<1>4. rx_state # "START"
  <2>1. ~ (tx_s - rx_s) + drift \in 0 .. 2 \/ rx_s + r >= Half BY <1>1, <1>3
  <2> QED BY <1>1, <1>2, <2>1 DEF Abreast
<1>5. ~ (tx_s - rx_s) + drift - Half + SAMPLES \in 0 .. 2 BY <1>1, <1>2, <1>3
<1> QED BY <1>4, <1>5 DEF Abreast

\* In a clock one of ten pairs of moves happens.
LEMMA Together ==
  ASSUME ConfigTypes, TxTypes, RxTypes, Line, Place, Margin, NEW t \in BOOLEAN, NEW r \in BOOLEAN,
         TxClock(t), Listen(r), Observe(t, r)
  PROVE  Joint(ticks(t), ticks(r))
<1>1. \/ TxIdles \/ TxStarts \/ TxGoes(ticks(t)) \/ TxTurns(ticks(t)) \/ TxEnds(ticks(t))
  BY TxMoves
<1>2. \/ RxIdle \/ RxFalling \/ RxGoes(ticks(r)) \/ RxConfirms(ticks(r)) \/ RxSamples(ticks(r))
      \/ RxReports(ticks(r))
  BY RxMoves
<1>3. /\ rx_state = "IDLE" => RxIdle \/ RxFalling
      /\ rx_state # "IDLE" => \/ RxGoes(ticks(r)) \/ RxConfirms(ticks(r)) \/ RxSamples(ticks(r))
                              \/ RxReports(ticks(r))
  BY <1>2 DEF RxIdle, RxFalling, RxGoes, RxConfirms, RxSamples, RxReports, RxNext
<1>4. /\ tx_state = "IDLE" => TxIdles \/ TxStarts
      /\ tx_state # "IDLE" => TxGoes(ticks(t)) \/ TxTurns(ticks(t)) \/ TxEnds(ticks(t))
  BY <1>1 DEF TxIdles, TxStarts, TxStart, TxGoes, TxTurns, TxEnds, TxNext
<1>5. CASE Quiet
  <2>1. tx = TRUE BY <1>5 DEF Quiet, Line, level
  <2>2. RxIdle BY <1>3, <1>5, <2>1 DEF Quiet, RxFalling
  <2> QED BY <1>4, <1>5, <2>2 DEF Quiet, Joint, Rests, Opens
<1>6. CASE Begun
  <2>1. tx_s # SAMPLES - 1 BY <1>6, Constants DEF Begun
  <2>2. TxGoes(ticks(t)) BY <1>4, <1>6, <2>1 DEF Begun, TxTurns, TxEnds
  <2>3. (tx /\ RxIdle) \/ (~tx /\ RxFalling) BY <1>3, <1>6 DEF Begun, RxIdle, RxFalling
  <2> QED BY <1>6, <2>2, <2>3 DEF Joint, Falls, Notices
<1>7. CASE Ended
  <2>1. tx = TRUE BY <1>7 DEF Ended, Line, level
  <2>2. RxIdle BY <1>3, <1>7, <2>1 DEF Ended, RxFalling
  <2>3. ~TxTurns(ticks(t)) BY <1>7 DEF Ended, TxTurns, TxNext
  <2> QED BY <1>4, <1>7, <2>2, <2>3 DEF Ended, Joint, Closes
<1>8. CASE Abreast
  <2>1. tx_state # "IDLE" /\ rx_state # "IDLE" BY <1>8 DEF Abreast
  <2>2. /\ ticks(t) \in 0 .. 1 /\ ticks(r) \in 0 .. 1
        /\ drift' = drift + ticks(r) - ticks(t) /\ drift' \in -DRIFT .. DRIFT
    BY <2>1 DEF Observe, ticks
  <2>3. CASE RxGoes(ticks(r))
    <3>1. CASE TxGoes(ticks(t)) BY <1>8, <2>3, <3>1 DEF Joint, Advance
    <3>2. CASE TxTurns(ticks(t)) \/ TxEnds(ticks(t))
      <4>1. ticks(t) = 1 /\ tx_s = SAMPLES - 1 BY <3>2 DEF TxTurns, TxEnds
      <4>2. rx_state # "START" /\ txBit = rxBit - 1 BY <1>8, <2>2, <2>3, <4>1, Turning
      <4>3. ~TxEnds(ticks(t)) BY <1>8, <4>2, LastBit DEF TxEnds
      <4> QED BY <1>8, <2>3, <3>2, <4>2, <4>3 DEF Joint, Catches
    <3> QED BY <1>4, <2>1, <3>1, <3>2
  <2>4. CASE RxConfirms(ticks(r))
    <3>1. Clear BY <1>8, <2>4, Sampled DEF RxConfirms
    <3>2. tx_state = "START" BY <1>8, <2>4 DEF Abreast, RxConfirms
    <3>3. tx = FALSE BY <3>1, <3>2 DEF Clear, level
    <3>4. rx_state' = "DATA" BY <2>4, <3>3 DEF RxConfirms
    <3>5. ~TxEnds(ticks(t)) BY <3>2 DEF TxEnds
    <3> QED BY <1>4, <1>8, <2>1, <2>4, <3>1, <3>2, <3>4, <3>5 DEF Joint, Confirms
  <2>5. CASE RxSamples(ticks(r)) \/ RxReports(ticks(r))
    <3>1. rx_state # "START" /\ rx_s = SAMPLES - 1 BY <2>5 DEF RxSamples, RxReports, RxNext
    <3>2. Clear /\ txBit = rxBit BY <1>8, <3>1, Sampled
    <3>3. tx_state = rx_state /\ (rx_state = "STOP" => tx_sb = rx_sb) BY <1>8, <3>1, <3>2, SameBit
    <3>4. CASE RxSamples(ticks(r))
      <4>1. ~TxEnds(ticks(t)) BY <3>3, <3>4 DEF TxEnds, RxSamples, RxNext
      <4> QED BY <1>4, <1>8, <2>1, <3>2, <3>4, <4>1 DEF Joint, Hears
    <3>5. CASE RxReports(ticks(r))
      <4>1. tx_state = "STOP" /\ tx_sb = lastStop BY <3>3, <3>5 DEF RxReports
      <4>2. ~TxTurns(ticks(t)) BY <4>1 DEF TxTurns, TxNext
      <4> QED BY <1>4, <1>8, <2>1, <3>2, <3>5, <4>1, <4>2 DEF Joint, Reports
    <3> QED BY <2>5, <3>4, <3>5
  <2> QED BY <1>3, <2>1, <2>3, <2>4, <2>5
<1> QED BY <1>5, <1>6, <1>7, <1>8 DEF Place

-----------------------------------------------------------------------------
(* Each part of the invariant is kept.                                      *)

\* What is computed from the configuration stays.
LEMMA ConfigStep ==
  ASSUME ConfigTypes, UNCHANGED <<listener, config>>
  PROVE  /\ ConfigTypes' /\ DataBits' = DataBits /\ ParityEn' = ParityEn /\ ParityOdd' = ParityOdd
         /\ lastStop' = lastStop /\ stopBit' = stopBit
BY DEF ConfigTypes, DataBits, ParityEn, ParityOdd, lastStop, StopBits, stopBit

\* The sender's variables keep to their ranges.
LEMMA TxTypesStep ==
  ASSUME ConfigTypes, TxTypes, UNCHANGED <<listener, config>>, NEW t \in BOOLEAN, TxClock(t),
         drift' \in -DRIFT .. DRIFT
  PROVE  TxTypes'
<1>1. /\ SAMPLES \in Nat /\ SAMPLES >= 4 /\ DataBits \in 0 .. 7 /\ lastStop \in 0 .. 3
      /\ tx_state \in States /\ tx_s \in 0 .. SAMPLES - 1 /\ tx_n \in 0 .. 7 /\ tx_sb \in 0 .. 3
      /\ Bytes \subseteq Byte
  BY Constants DEF TxTypes
<1>2. DataBits' = DataBits /\ lastStop' = lastStop /\ ParityEn' = ParityEn BY ConfigStep
<1>3. level \in BOOLEAN
  <2>1. tx_b[0] \in BOOLEAN BY DEF TxTypes, Byte
  <2> QED BY <2>1 DEF level, TxTypes
<1>4. CASE TxStarts
  <2>1. PICK din \in Bytes : TxStart(din) BY <1>4 DEF TxStarts
  <2>2. /\ tx_state' = "START" /\ tx_s' = 0 /\ tx_n' = tx_n /\ tx_sb' = tx_sb /\ tx_b' \in Byte
        /\ tx_o' \in BOOLEAN /\ tx' \in BOOLEAN
    BY <1>1, <2>1 DEF TxStart
  <2>3. 0 \in 0 .. SAMPLES - 1 BY <1>1
  <2> QED BY <1>1, <2>2, <2>3 DEF TxTypes, States
<1>5. CASE TxIdles \/ TxGoes(ticks(t)) \/ TxEnds(ticks(t))
  <2>1. /\ tx_s' \in 0 .. SAMPLES - 1 /\ tx' \in BOOLEAN
        /\ UNCHANGED <<tx_n, tx_sb, tx_b, tx_o>>
        /\ tx_state' \in {tx_state, "IDLE"}
    BY <1>1, <1>3, <1>5 DEF TxIdles, TxGoes, TxEnds
  <2> QED BY <1>1, <1>2, <2>1 DEF TxTypes, States
<1>6. CASE TxTurns(ticks(t))
  <2>1. tx_s' = 0 /\ tx' \in BOOLEAN /\ 0 \in 0 .. SAMPLES - 1 BY <1>1, <1>3, <1>6 DEF TxTurns
  <2>2. tx_b' \in Byte /\ tx_o' \in BOOLEAN
    <3>1. shift(tx_b, FALSE) \in Byte BY DEF shift, TxTypes, Byte
    <3> QED BY <1>6, <3>1 DEF TxTurns, TxNext, TxTypes
  <2>3. /\ tx_state' \in States /\ tx_n' \in 0 .. 7 /\ tx_sb' \in 0 .. 3
        /\ tx_state' = "DATA" => tx_n' <= DataBits
        /\ tx_state' = "STOP" => tx_sb' <= lastStop
    <3>1. TxNext BY <1>6 DEF TxTurns
    <3>2. tx_state = "DATA" => tx_n <= DataBits BY DEF TxTypes
    <3>3. tx_state = "STOP" => tx_sb <= lastStop BY DEF TxTypes
    <3>4. tx_state = "PARITY" => tx_sb = 0 BY DEF TxTypes
    <3>5. CASE tx_state = "DATA"
      <4>1. \/ tx_n # DataBits /\ tx_state' = "DATA" /\ tx_n' = tx_n + 1 /\ tx_sb' = tx_sb
            \/ tx_state' \in {"PARITY", "STOP"} /\ tx_sb' = 0 /\ tx_n' = tx_n
        BY <3>1, <3>5 DEF TxNext
      <4> QED BY <1>1, <3>2, <3>5, <4>1 DEF States
    <3>6. CASE tx_state # "DATA"
      <4>1. \/ tx_state = "START" /\ tx_state' = "DATA" /\ tx_n' = 0 /\ tx_sb' = tx_sb
            \/ tx_state = "PARITY" /\ tx_state' = "STOP" /\ tx_n' = tx_n /\ tx_sb' = tx_sb
            \/ /\ tx_state = "STOP" /\ tx_sb # lastStop /\ tx_state' = "STOP" /\ tx_n' = tx_n
               /\ tx_sb' = tx_sb + 1
        BY <3>1, <3>6 DEF TxNext
      <4> QED BY <1>1, <3>3, <3>4, <4>1 DEF States
    <3> QED BY <3>5, <3>6
  <2>4. tx_state' = "PARITY" => ParityEn /\ tx_sb' = 0 BY <1>6 DEF TxTurns, TxNext
  <2> QED BY <1>2, <2>1, <2>2, <2>3, <2>4 DEF TxTypes
<1> QED BY <1>4, <1>5, <1>6, TxMoves

\* A clock after the sender's state has changed the line has.
LEMMA LineStep ==
  ASSUME ConfigTypes, TxTypes, UNCHANGED <<listener, config>>, NEW t \in BOOLEAN, TxClock(t)
  PROVE  Line'
<1>1. ParityOdd' = ParityOdd BY ConfigStep
<1>2. CASE TxStarts BY <1>2 DEF TxStarts, TxStart, Line
<1>3. CASE TxIdles \/ TxGoes(ticks(t))
  <2>1. tx' = level /\ UNCHANGED <<tx_state, tx_b, tx_o>> BY <1>3 DEF TxIdles, TxGoes
  <2> QED BY <1>1, <2>1 DEF Line, level
<1>4. CASE TxTurns(ticks(t)) BY <1>4 DEF TxTurns, TxNext, Line
<1>5. CASE TxEnds(ticks(t)) BY <1>5 DEF TxEnds, Line, level
<1> QED BY <1>2, <1>3, <1>4, <1>5, TxMoves

\* The parity bit that is heard agrees with the bits that were.
LEMMA ParityAgrees ==
  ASSUME ConfigTypes, TxTypes, RxTypes, Parities, Abreast, Clear, txBit = rxBit,
         rx_state = "PARITY", listener = "uart_rx"
  PROVE  (IF ParityOdd THEN rx_o = tx ELSE rx_o # tx) = FALSE
<1>1. tx_state = "PARITY" BY SameBit
<1>2. rx_o = tx_o BY DEF Parities
<1>3. tx = IF ParityOdd THEN ~tx_o ELSE tx_o BY <1>1 DEF Clear, level
<1>4. tx_o \in BOOLEAN BY DEF TxTypes
<1> QED BY <1>2, <1>3, <1>4

\* With a bit heard the receiver's byte is a byte.
LEMMA HeardType ==
  ASSUME TxTypes, RxTypes
  PROVE  heard \in Byte
<1>1. rx_b \in Byte /\ tx \in BOOLEAN BY DEF TxTypes, RxTypes
<1>2. shift(rx_b, tx) \in Byte BY <1>1 DEF shift, Byte
<1>3. shiftBy(shift(rx_b, tx), 7 - DataBits) \in Byte BY DEF shiftBy, Byte
<1>4. [rx_b EXCEPT ![rx_n] = tx] \in Byte BY <1>1 DEF Byte
<1> QED BY <1>2, <1>3, <1>4 DEF heard

\* The listener's variables keep to their ranges, and no parity error is ever flagged.
LEMMA RxTypesStep ==
  ASSUME Sure, Margin, NEW k, NEW r, Joint(k, r), UNCHANGED <<listener, config>>
  PROVE  RxTypes'
<1>1. /\ SAMPLES \in Nat /\ SAMPLES >= 4 /\ DataBits \in 0 .. 7 /\ lastStop \in 0 .. 3
      /\ Half \in Nat /\ Half >= 1 /\ Half <= SAMPLES
      /\ rx_state \in States /\ rx_s \in 0 .. SAMPLES - 1 /\ rx_n \in 0 .. 7 /\ rx_sb \in 0 .. 3
  BY Constants DEF Sure, RxTypes, Margin
<1>2. DataBits' = DataBits /\ lastStop' = lastStop /\ ParityEn' = ParityEn BY ConfigStep DEF Sure
<1>3. rx_b \in Byte /\ rx_o \in BOOLEAN /\ rx_pe = FALSE /\ tx \in BOOLEAN BY DEF Sure, RxTypes, TxTypes
<1>4. CASE RxIdle BY <1>1, <1>2, <1>4 DEF Sure, RxTypes, RxIdle, rxVars
<1>5. CASE RxFalling
  <2>1. [i \in 0 .. 7 |-> FALSE] \in Byte BY DEF Byte
  <2>2. /\ rx_state' = "START" /\ rx_s' = 0 /\ rx_sb' = 0 /\ rx_n' = 0 /\ rx_o' = FALSE
        /\ rx_pe' = FALSE /\ rx_b' \in Byte
    BY <1>5, <2>1 DEF RxFalling
  <2>3. 0 \in 0 .. SAMPLES - 1 /\ 0 < Half BY <1>1
  <2>4. rx_o' \in BOOLEAN BY <2>2
  <2> QED BY <2>2, <2>3, <2>4 DEF RxTypes, States
<1>6. CASE RxGoes(r) BY <1>1, <1>2, <1>6 DEF Sure, RxTypes, RxGoes
<1>7. CASE RxConfirms(r) /\ rx_state' = "DATA"
  <2>1. rx_n = 0 /\ rx_sb = 0 BY <1>7 DEF Sure, RxTypes, RxConfirms
  <2> QED BY <1>1, <1>2, <1>3, <1>7, <2>1 DEF RxTypes, RxConfirms, States
<1>8. CASE Abreast /\ Clear /\ txBit = rxBit /\ RxSamples(r)
  <2>1. heard \in Byte BY HeardType DEF Sure
  <2>2. rx_b' \in Byte BY <1>3, <1>8, <2>1 DEF RxSamples, RxNext
  <2>3. rx_o' \in BOOLEAN BY <1>3, <1>8 DEF RxSamples, RxNext
  <2>4. rx_pe' = FALSE BY <1>3, <1>8, ParityAgrees DEF RxSamples, RxNext, Sure
  <2>5. /\ rx_s' = 0 /\ rx_state' \in States /\ rx_state' \notin {"IDLE", "START"}
        /\ rx_n' \in 0 .. 7 /\ rx_sb' \in 0 .. 3
        /\ rx_state' = "DATA" => rx_n' <= DataBits /\ rx_sb' = 0
        /\ rx_state' = "STOP" => rx_sb' <= lastStop
    BY <1>1, <1>8 DEF RxSamples, RxNext, Sure, RxTypes, States
  <2>6. rx_state' = "PARITY" => ParityEn /\ rx_sb' = 0
    BY <1>8 DEF RxSamples, RxNext, Sure, RxTypes
  <2> QED BY <1>1, <1>2, <2>2, <2>3, <2>4, <2>5, <2>6 DEF RxTypes
<1>9. CASE RxReports(r)
  <2>1. rx_pe' = FALSE /\ rx_b' \in Byte /\ rx_o' \in BOOLEAN BY <1>3, <1>9 DEF RxReports
  <2>2. rx_s' = 0 /\ rx_state' = "IDLE" /\ rx_n' \in 0 .. 7 /\ rx_sb' \in 0 .. 3 BY <1>1, <1>9 DEF RxReports
  <2> QED BY <1>1, <2>1, <2>2 DEF RxTypes, States
<1> QED BY <1>4, <1>5, <1>6, <1>7, <1>8, <1>9
        DEF Joint, Rests, Opens, Falls, Notices, Advance, Catches, Confirms, Hears, Reports, Closes

\* When the sender turns, and when the listener samples, it is at the next bit.
LEMMA NextBits ==
  ASSUME ConfigTypes, TxTypes, RxTypes, UNCHANGED <<listener, config>>
  PROVE  /\ TxNext => txBit' = txBit + 1
         /\ RxNext => rxBit' = rxBit + 1
<1>1. stopBit' = stopBit /\ DataBits' = DataBits BY ConfigStep
<1>2. /\ DataBits \in 0 .. 7 /\ ParityEn \in BOOLEAN /\ tx_n \in 0 .. 7 /\ rx_n \in 0 .. 7
      /\ tx_sb \in 0 .. 3 /\ rx_sb \in 0 .. 3
  BY Constants DEF TxTypes, RxTypes
<1>3. stopBit = DataBits + 2 + (IF ParityEn THEN 1 ELSE 0) BY DEF stopBit
<1>4. ASSUME TxNext PROVE txBit' = txBit + 1
  <2>1. \/ tx_state = "START" /\ tx_state' = "DATA" /\ tx_n' = 0
        \/ tx_state = "DATA" /\ tx_n # DataBits /\ tx_state' = "DATA" /\ tx_n' = tx_n + 1
        \/ /\ tx_state = "DATA" /\ tx_n = DataBits /\ tx_sb' = 0
           /\ tx_state' = (IF ParityEn THEN "PARITY" ELSE "STOP")
        \/ tx_state = "PARITY" /\ tx_state' = "STOP" /\ tx_sb' = tx_sb
        \/ tx_state = "STOP" /\ tx_state' = "STOP" /\ tx_sb' = tx_sb + 1
    BY <1>4 DEF TxNext
  <2>2. tx_state = "PARITY" => ParityEn /\ tx_sb = 0 BY DEF TxTypes
  <2> QED BY <1>1, <1>2, <1>3, <2>1, <2>2 DEF txBit
<1>5. ASSUME RxNext PROVE rxBit' = rxBit + 1
  BY <1>1, <1>2, <1>3, <1>5 DEF RxNext, rxBit, RxTypes
<1> QED BY <1>4, <1>5

\* How far the sender is ahead, counted in ticks, is the same in every step: what one
\* end gains on the other is what drift says.
LEMMA PlaceStep ==
  ASSUME ConfigTypes, TxTypes, RxTypes, Line, Place, Margin, NEW t \in BOOLEAN, NEW u \in BOOLEAN,
         NEW k, NEW r, k = ticks(t), r = ticks(u),
         Joint(k, r), Observe(t, u), UNCHANGED <<listener, config>>
  PROVE  /\ Rests(k) => Quiet'
         /\ Opens(k) \/ Falls(k) => Begun'
         /\ Notices(k) \/ Advance(k, r) \/ Catches(k, r) \/ Confirms(k, r) \/ Hears(k, r) => Abreast'
         /\ Reports(k, r) \/ Closes(k) => Quiet' \/ Ended'
<1>1. /\ SAMPLES \in Nat /\ SAMPLES >= 4 /\ DRIFT \in Nat /\ Half \in Nat /\ Half + Half <= SAMPLES
      /\ SAMPLES <= Half + Half + 1 /\ tx_s \in 0 .. SAMPLES - 1 /\ rx_s \in 0 .. SAMPLES - 1
      /\ drift \in -DRIFT .. DRIFT /\ DRIFT + 2 <= Half /\ k \in 0 .. 1 /\ r \in 0 .. 1
  BY Constants DEF TxTypes, RxTypes, Margin, ticks
<1>2. tx_state # "IDLE" => drift' = drift + r - k BY DEF Observe, ticks
<1>3. /\ stopBit' = stopBit /\ DataBits' = DataBits /\ lastStop' = lastStop
  BY ConfigStep
<1>4. /\ DataBits \in 0 .. 7 /\ stopBit \in Nat /\ lastStop \in 0 .. 3
      /\ tx_n \in 0 .. 7 /\ rx_n \in 0 .. 7 /\ tx_sb \in 0 .. 3 /\ rx_sb \in 0 .. 3
  BY Constants DEF TxTypes, RxTypes, stopBit
<1>5. txBit \in Nat /\ rxBit \in Nat BY <1>4 DEF txBit, rxBit
<1>6. ASSUME Rests(k) PROVE Quiet' BY <1>6 DEF Rests, Quiet, RxIdle, rxVars, TxIdles
<1>7. ASSUME Opens(k) PROVE Begun'
  <2>1. PICK din \in Bytes : TxStart(din) BY <1>7 DEF Opens, TxStarts
  <2>2. drift' = 0 BY <1>7 DEF Opens, Quiet, Observe
  <2> QED BY <1>7, <2>1, <2>2 DEF Opens, Quiet, RxIdle, rxVars, TxStart, Begun
<1>8. ASSUME Falls(k) PROVE Begun'
  <2>1. tx_state = "START" /\ rx_state' = "IDLE" /\ tx_state' = "START"
    BY <1>8 DEF Falls, Begun, RxIdle, rxVars, TxGoes
  <2>2. tx_s' = k /\ drift' = r - k
    <3>1. tx_s = 0 /\ drift = 0 BY <1>8 DEF Falls, Begun
    <3>2. tx_s' = tx_s + k BY <1>8 DEF Falls, TxGoes
    <3> QED BY <1>1, <1>2, <2>1, <3>1, <3>2
  <2>3. tx' = FALSE BY <1>8, <2>1 DEF Falls, TxGoes, level
  <2>4. tx_s' \in 0 .. 1 /\ tx_s' + drift' \in 0 .. 1 BY <1>1, <2>2
  <2> QED BY <2>1, <2>3, <2>4 DEF Begun
<1>9. ASSUME Notices(k) PROVE Abreast'
  <2>1. tx_state = "START" /\ rx_state' = "START" /\ tx_state' = "START" /\ rx_s' = 0 /\ tx_s' = tx_s + k
    BY <1>9 DEF Notices, Begun, RxFalling, TxGoes
  <2>2. tx_s \in 0 .. 1 /\ tx_s + drift \in 0 .. 1 BY <1>9 DEF Notices, Begun
  <2>3. (tx_s' - rx_s') + drift' \in 0 .. 2 BY <1>1, <1>2, <2>1, <2>2
  <2> QED BY <2>1, <2>3 DEF Abreast
<1>10. Abreast => tx_state # "IDLE" /\ rx_state # "IDLE" BY DEF Abreast
<1>11. TxGoes(k) => txBit' = txBit /\ tx_state' = tx_state /\ tx_s' = tx_s + k
  BY <1>3 DEF TxGoes, txBit
<1>12. /\ TxTurns(k) => txBit' = txBit + 1 /\ tx_state' # "IDLE" /\ tx_s' = 0 /\ tx_s = SAMPLES - 1 /\ k = 1
       /\ TxTurns(k) /\ tx_state = "START" => tx_state' = "DATA"
  BY NextBits DEF TxTurns, TxNext
<1>13. ASSUME Advance(k, r) PROVE Abreast'
  <2>1. /\ TxGoes(k) /\ Abreast /\ rx_state' = rx_state /\ rx_s' = rx_s + r /\ rxBit' = rxBit
        /\ rx_state # "IDLE"
    BY <1>3, <1>10, <1>13 DEF Advance, RxGoes, rxBit
  <2>2. (tx_s' - rx_s') + drift' = (tx_s - rx_s) + drift BY <1>1, <1>2, <1>10, <1>11, <2>1
  <2>3. rx_state = "START" => tx_state = "START" /\ (tx_s' - rx_s') + drift' \in 0 .. 2
    BY <2>1, <2>2 DEF Abreast
  <2>4. rx_state # "START" =>
          \/ txBit = rxBit /\ (tx_s' - rx_s') + drift' - Half + SAMPLES \in 0 .. 2
          \/ txBit = rxBit - 1 /\ (tx_s' - rx_s') + drift' - Half \in 0 .. 2
    <3>1. Abreast BY <2>1
    <3>2. (tx_s - rx_s) + drift - Half + SAMPLES = (tx_s' - rx_s') + drift' - Half + SAMPLES
      BY <1>1, <1>2, <1>10, <1>11, <2>1
    <3>3. (tx_s - rx_s) + drift - Half = (tx_s' - rx_s') + drift' - Half
      BY <1>1, <1>2, <1>10, <1>11, <2>1
    <3> QED BY <3>1, <3>2, <3>3, ZenonT(30) DEF Abreast
  <2>5. tx_state' = tx_state /\ txBit' = txBit /\ tx_state # "IDLE" BY <1>10, <1>11, <2>1
  <2> QED BY <2>1, <2>3, <2>4, <2>5 DEF Abreast
<1>14. ASSUME Catches(k, r) PROVE Abreast'
  <2>1. /\ TxTurns(k) /\ Abreast /\ rx_state' = rx_state /\ rx_s' = rx_s + r /\ rxBit' = rxBit
        /\ rx_state \notin {"IDLE", "START"} /\ txBit = rxBit - 1
    BY <1>3, <1>10, <1>14 DEF Catches, RxGoes, rxBit
  <2>2. (tx_s - rx_s) + drift - Half \in 0 .. 2 BY <1>5, <2>1 DEF Abreast
  <2>3. (tx_s' - rx_s') + drift' - Half + SAMPLES \in 0 .. 2
    BY <1>1, <1>2, <1>10, <1>12, <2>1, <2>2
  <2>4. txBit' = rxBit' BY <1>5, <1>12, <2>1
  <2> QED BY <1>12, <2>1, <2>3, <2>4 DEF Abreast
<1>15. ASSUME Confirms(k, r) PROVE Abreast'
  <2>1. /\ Abreast /\ rx_state = "START" /\ rx_state' = "DATA" /\ rx_s = Half - 1 /\ rx_s' = 0 /\ r = 1
        /\ tx_state = "START" /\ (TxGoes(k) \/ TxTurns(k)) /\ rx_n' = 0
    BY <1>15 DEF Confirms, RxConfirms, RxTypes
  <2>2. txBit = 0 /\ rxBit' = 1 BY <2>1 DEF txBit, rxBit
  <2>3. (tx_s - rx_s) + drift \in 0 .. 2 BY <2>1 DEF Abreast
  <2>4. CASE TxGoes(k)
    <3>1. (tx_s' - rx_s') + drift' - Half \in 0 .. 2 BY <1>1, <1>2, <1>11, <2>1, <2>3, <2>4
    <3>2. txBit' = rxBit' - 1 BY <1>11, <2>2, <2>4
    <3> QED BY <1>11, <2>1, <2>4, <3>1, <3>2 DEF Abreast
  <2>5. CASE TxTurns(k)
    <3>1. (tx_s' - rx_s') + drift' - Half + SAMPLES \in 0 .. 2
      BY <1>1, <1>2, <1>12, <2>1, <2>3, <2>5
    <3>2. txBit' = rxBit' BY <1>12, <2>2, <2>5
    <3> QED BY <1>12, <2>1, <2>5, <3>1, <3>2 DEF Abreast
  <2> QED BY <2>1, <2>4, <2>5
<1>16. ASSUME Hears(k, r) PROVE Abreast'
  <2>1. /\ Abreast /\ txBit = rxBit /\ rx_s = SAMPLES - 1 /\ rx_s' = 0 /\ r = 1 /\ RxNext
        /\ TxGoes(k) \/ TxTurns(k)
    BY <1>16 DEF Hears, RxSamples
  <2>2. rxBit' = rxBit + 1 /\ rx_state # "START" /\ rx_state' \notin {"IDLE", "START"}
    BY <2>1, NextBits DEF RxNext
  <2>3. (tx_s - rx_s) + drift - Half + SAMPLES \in 0 .. 2 BY <1>5, <2>1, <2>2 DEF Abreast
  <2>4. CASE TxGoes(k)
    <3>1. (tx_s' - rx_s') + drift' - Half \in 0 .. 2 BY <1>1, <1>2, <1>10, <1>11, <2>1, <2>3, <2>4
    <3>2. txBit' = rxBit' - 1 BY <1>5, <1>11, <2>1, <2>2, <2>4
    <3> QED BY <1>10, <1>11, <2>1, <2>2, <2>4, <3>1, <3>2 DEF Abreast
  <2>5. CASE TxTurns(k)
    <3>1. (tx_s' - rx_s') + drift' - Half + SAMPLES \in 0 .. 2
      BY <1>1, <1>2, <1>10, <1>12, <2>1, <2>3, <2>5
    <3>2. txBit' = rxBit' BY <1>5, <1>12, <2>1, <2>2, <2>5
    <3> QED BY <1>12, <2>2, <2>5, <3>1, <3>2 DEF Abreast
  <2> QED BY <2>1, <2>4, <2>5
<1>17. ASSUME Reports(k, r) \/ Closes(k) PROVE Quiet' \/ Ended'
  <2>1. /\ rx_state' = "IDLE" /\ tx_state = "STOP" /\ tx_sb = lastStop /\ tx_s >= 1
        /\ TxGoes(k) \/ TxEnds(k)
    BY <1>17 DEF Reports, Closes, RxReports, RxIdle, rxVars, Ended, Clear
  <2>2. CASE TxGoes(k)
    <3>1. tx_s' >= 1 BY <1>1, <1>11, <2>1, <2>2
    <3> QED BY <1>3, <2>1, <2>2, <3>1 DEF TxGoes, Ended
  <2>3. CASE TxEnds(k) BY <2>1, <2>3 DEF TxEnds, Quiet
  <2> QED BY <2>1, <2>2, <2>3
<1> QED BY <1>6, <1>7, <1>8, <1>9, <1>13, <1>14, <1>15, <1>16, <1>17

\* The places exclude one another.
LEMMA Apart ==
  /\ Quiet \/ Ended => ~Begun /\ ~Abreast
  /\ Begun \/ Abreast => ~Quiet /\ ~Ended
BY DEF Quiet, Begun, Abreast, Ended

-----------------------------------------------------------------------------
(* The byte in flight.                                                      *)

\* A byte of the line is not None, nor is a report of one.
LEMMA NotNone ==
  ASSUME ConfigTypes, NEW byte \in Byte, NEW bad \in BOOLEAN
  PROVE  [byte |-> byte, bad |-> bad] # None
<1>1. [byte |-> byte, bad |-> bad] \in [byte : Byte, bad : BOOLEAN] OBVIOUS
<1> QED BY <1>1, Constants

\* A byte that is being sent stays in flight until its report, and the report is of it.
LEMMA FlightStep ==
  ASSUME Sure, Margin, NEW t \in BOOLEAN, NEW u \in BOOLEAN, NEW k, NEW r, k = ticks(t), r = ticks(u),
         Joint(k, r), Observe(t, u), UNCHANGED <<listener, config>>
  PROVE  /\ Flight'
         /\ Begun \/ Abreast => in_flight' = in_flight
<1> USE DEF Sure
<1>1. /\ None \notin Bytes /\ Bytes \subseteq Byte BY Constants
<1>2. tx_state # "IDLE" => in_flight' = IF got # None THEN None ELSE in_flight
  BY DEF Observe
<1>3. Begun \/ Abreast => in_flight' = in_flight /\ in_flight' \in Bytes /\ in_flight' # None
  <2>1. Begun \/ Abreast => tx_state # "IDLE" BY DEF Begun, Abreast
  <2> QED BY <1>1, <1>2, <2>1 DEF Flight
<1>4. Quiet \/ Ended => in_flight = None \/ got # None BY DEF Flight
<1>5. CASE Rests(k)
  <2>1. in_flight' = None /\ got' = None
    BY <1>4, <1>5 DEF Rests, TxIdles, Quiet, Observe, RxIdle
  <2>2. Quiet' BY <1>5, PlaceStep
  <2>3. ~Begun' /\ ~Abreast' BY <2>2 DEF Quiet, Begun, Abreast
  <2>4. ~Begun /\ ~Abreast BY <1>5, Apart DEF Rests
  <2> QED BY <2>1, <2>3, <2>4 DEF Flight, ReceivesWhatIsSent
<1>6. CASE Opens(k)
  <2>1. PICK din \in Bytes : TxStart(din) BY <1>6 DEF Opens, TxStarts
  <2>2. in_flight' = din /\ got' = None
    BY <1>6, <2>1 DEF Opens, Quiet, TxStart, Observe, RxIdle
  <2>3. Begun' BY <1>6, PlaceStep
  <2>4. ~Quiet' /\ ~Ended' BY <2>3 DEF Quiet, Begun, Ended
  <2>5. ~Begun /\ ~Abreast BY <1>6, Apart DEF Opens
  <2> QED BY <2>2, <2>4, <2>5 DEF Flight, ReceivesWhatIsSent
<1>7. CASE Closes(k)
  <2>1. in_flight' = None /\ got' = None
    BY <1>2, <1>4, <1>7 DEF Closes, Ended, RxIdle
  <2>2. Quiet' \/ Ended' BY <1>7, PlaceStep
  <2>3. ~Begun' /\ ~Abreast' BY <2>2 DEF Quiet, Ended, Begun, Abreast
  <2>4. ~Begun /\ ~Abreast BY <1>7, Apart DEF Closes
  <2> QED BY <2>1, <2>3, <2>4 DEF Flight, ReceivesWhatIsSent
<1>8. CASE Reports(k, r)
  <2>1. Abreast /\ rx_state = "STOP" /\ tx_state = "STOP" /\ Clear /\ rx_s = SAMPLES - 1
    BY <1>8 DEF Reports, RxReports
  <2>2. tx = TRUE BY <2>1 DEF Clear, level
  <2>3. got' = [byte |-> rx_b, bad |-> FALSE]
    <3>1. got' = [byte |-> rx_b, bad |-> IF listener = "uart_rx" THEN rx_pe ELSE ~tx]
      BY <1>8 DEF Reports, RxReports
    <3>2. rx_pe = FALSE BY DEF RxTypes
    <3> QED BY <2>2, <3>1, <3>2
  <2>4. rx_b = carried(in_flight) /\ rx_b \in Byte BY <2>1 DEF Hearing, RxTypes
  <2>5. carried(in_flight)' = carried(in_flight)
    <3>1. DataBits' = DataBits BY ConfigStep
    <3> QED BY <1>3, <2>1, <3>1 DEF carried
  <2>6. got' # None BY <2>3, <2>4, NotNone
  <2>7. Quiet' \/ Ended' BY <1>8, PlaceStep
  <2>8. ~Begun' /\ ~Abreast' BY <2>7 DEF Quiet, Ended, Begun, Abreast
  <2> QED BY <1>3, <2>1, <2>3, <2>4, <2>5, <2>6, <2>8 DEF Flight, ReceivesWhatIsSent
<1>9. CASE Falls(k) \/ Notices(k) \/ Advance(k, r) \/ Catches(k, r) \/ Confirms(k, r) \/ Hears(k, r)
  <2>1. Begun \/ Abreast BY <1>9 DEF Falls, Notices, Advance, Catches, Confirms, Hears
  <2>2. got' = None
    <3>1. CASE Hears(k, r)
      <4>1. rx_state = "STOP" => tx = TRUE
        <5>1. rx_state # "START" BY <3>1 DEF Hears, RxSamples, RxNext
        <5>2. tx_state = rx_state BY <3>1, <5>1, SameBit DEF Hears
        <5> QED BY <3>1, <5>2 DEF Hears, Clear, level
      <4> QED BY <3>1, <4>1 DEF Hears, RxSamples, RxNext
    <3> QED BY <1>9, <3>1 DEF Falls, Notices, Advance, Catches, Confirms, RxIdle, RxFalling, RxGoes, RxConfirms
  <2>3. Begun' \/ Abreast' BY <1>9, PlaceStep
  <2>4. ~Quiet' /\ ~Ended' BY <2>3 DEF Quiet, Ended, Begun, Abreast
  <2> QED BY <1>3, <2>1, <2>2, <2>4 DEF Flight, ReceivesWhatIsSent
<1> QED BY <1>5, <1>6, <1>7, <1>8, <1>9 DEF Joint

-----------------------------------------------------------------------------
(* The bits.                                                                *)

\* The sender's shift register holds what is left of the byte.
LEMMA SendingStep ==
  ASSUME Sure, Margin, NEW t \in BOOLEAN, NEW u \in BOOLEAN, NEW k, NEW r, k = ticks(t), r = ticks(u),
         Joint(k, r), Observe(t, u), UNCHANGED <<listener, config>>
  PROVE  Sending'
<1> USE DEF Sure
<1>1. Bytes \subseteq Byte /\ DataBits \in 0 .. 7 /\ tx_n \in 0 .. 7 BY Constants DEF TxTypes
<1>2. Begun \/ Abreast => in_flight' = in_flight /\ in_flight \in Byte BY <1>1, FlightStep DEF Flight
<1>3. CASE Rests(k) \/ Closes(k) \/ Reports(k, r)
  <2>1. Quiet' \/ Ended' BY <1>3, PlaceStep
  <2>2. ~Begun' /\ ~Abreast' BY <2>1 DEF Quiet, Ended, Begun, Abreast
  <2> QED BY <2>2 DEF Sending
<1>4. CASE Opens(k)
  <2>1. PICK din \in Bytes : TxStart(din) BY <1>4 DEF Opens, TxStarts
  <2>2. in_flight' = din BY <1>4, <2>1 DEF Opens, Quiet, TxStart, Observe
  <2> QED BY <2>1, <2>2 DEF TxStart, Sending
<1>5. CASE (Begun \/ Abreast) /\ TxGoes(k)
  <2>1. UNCHANGED <<tx_state, tx_n, tx_b, tx_o>> BY <1>5 DEF TxGoes
  <2> QED BY <1>2, <1>5, <2>1 DEF Sending
<1>6. CASE Abreast /\ TxTurns(k)
  <2>1. TxNext BY <1>6 DEF TxTurns
  <2>2. CASE tx_state = "START"
    <3>1. tx_state' = "DATA" /\ tx_n' = 0 /\ tx_b' = tx_b BY <2>1, <2>2 DEF TxNext
    <3>2. tx_b = in_flight BY <1>6, <2>2 DEF Sending
    <3>3. \A x \in 0 .. 7 : x + 0 = x /\ x <= 7 OBVIOUS
    <3>4. \A x \in 0 .. 7 : in_flight[x] \in BOOLEAN BY <1>2, <1>6 DEF Byte
    <3>5. ASSUME NEW x \in 0 .. 7
          PROVE  tx_b'[x] = (x + tx_n' <= 7 /\ in_flight'[x + tx_n'])
      BY <1>2, <1>6, <3>1, <3>2, <3>3, <3>4
    <3> QED BY <3>1, <3>5 DEF Sending
  <2>3. CASE tx_state = "DATA" /\ tx_n # DataBits
    <3>1. /\ tx_state' = "DATA" /\ tx_n' = tx_n + 1 /\ tx_b' = shift(tx_b, FALSE)
      BY <2>1, <2>3 DEF TxNext
    <3>2. \A x \in 0 .. 7 : tx_b[x] = (x + tx_n <= 7 /\ in_flight[x + tx_n])
      BY <1>6, <2>3 DEF Sending
    <3>3. ASSUME NEW x \in 0 .. 7
          PROVE  tx_b'[x] = (x + tx_n' <= 7 /\ in_flight'[x + tx_n'])
      <4>1. CASE x = 7
        <5>1. tx_b'[x] = FALSE BY <3>1, <4>1 DEF shift
        <5>2. ~ x + tx_n' <= 7 BY <1>1, <3>1, <4>1
        <5> QED BY <5>1, <5>2
      <4>2. CASE x # 7
        <5>1. x + 1 \in 0 .. 7 /\ (x + 1) + tx_n = x + tx_n' BY <1>1, <3>1, <4>2
        <5>2. tx_b'[x] = tx_b[x + 1] BY <3>1, <4>2 DEF shift
        <5>3. tx_b[x + 1] = ((x + 1) + tx_n <= 7 /\ in_flight[(x + 1) + tx_n]) BY <3>2, <5>1
        <5> QED BY <1>2, <1>6, <5>1, <5>2, <5>3
      <4> QED BY <4>1, <4>2
    <3> QED BY <3>1, <3>3 DEF Sending
  <2>4. CASE tx_state # "START" /\ ~(tx_state = "DATA" /\ tx_n # DataBits)
    <3>1. tx_state \in {"DATA", "PARITY", "STOP"} BY <2>1, <2>4 DEF TxNext
    <3>2. tx_state' \in {"PARITY", "STOP"} BY <2>1, <2>4, <3>1, Zenon DEF TxNext
    <3> QED BY <3>2 DEF Sending
  <2> QED BY <2>2, <2>3, <2>4
<1> QED BY <1>3, <1>4, <1>5, <1>6
        DEF Joint, Falls, Notices, Advance, Catches, Confirms, Hears

\* What is sampled is the bit of the byte in flight.
LEMMA HeardBit ==
  ASSUME Sure, Abreast, Clear, txBit = rxBit, rx_state = "DATA"
  PROVE  tx = in_flight[rx_n] /\ rx_n \in 0 .. 7
<1> USE DEF Sure
<1>1. tx_state = "DATA" /\ tx_n = rx_n BY SameBit
<1>2. tx = tx_b[0] BY <1>1 DEF Clear, level
<1>3. rx_n \in 0 .. 7 BY DEF RxTypes
<1>4. 0 + rx_n = rx_n /\ rx_n <= 7 /\ 0 \in 0 .. 7 BY <1>3
<1>5. in_flight[rx_n] \in BOOLEAN
  <2>1. in_flight \in Byte BY Constants DEF Flight
  <2> QED BY <1>3, <2>1 DEF Byte
<1>6. tx_b[0] = (0 + rx_n <= 7 /\ in_flight[0 + rx_n]) BY <1>1, <1>4 DEF Sending
<1> QED BY <1>2, <1>3, <1>4, <1>5, <1>6

\* The listener's byte is what has been heard of the byte in flight.
LEMMA HearingStep ==
  ASSUME Sure, Margin, NEW t \in BOOLEAN, NEW u \in BOOLEAN, NEW k, NEW r, k = ticks(t), r = ticks(u),
         Joint(k, r), Observe(t, u), UNCHANGED <<listener, config>>
  PROVE  Hearing'
<1> USE DEF Sure
<1>1. Bytes \subseteq Byte /\ DataBits \in 0 .. 7 /\ rx_n \in 0 .. 7 BY Constants DEF RxTypes
<1>2. Begun \/ Abreast => in_flight' = in_flight /\ in_flight \in Byte BY <1>1, FlightStep DEF Flight
<1>3. DataBits' = DataBits BY ConfigStep
<1>4. CASE Rests(k) \/ Opens(k) \/ Falls(k) \/ Reports(k, r) \/ Closes(k)
  <2>1. Quiet' \/ Ended' \/ Begun' BY <1>4, PlaceStep
  <2>2. ~Abreast' BY <2>1 DEF Quiet, Ended, Begun, Abreast
  <2> QED BY <2>2 DEF Hearing
<1>5. CASE Notices(k) BY <1>5 DEF Notices, RxFalling, Hearing
<1>6. CASE Abreast /\ RxGoes(r)
  <2>1. UNCHANGED <<rx_state, rx_n, rx_b>> BY <1>6 DEF RxGoes
  <2>2. carried(in_flight)' = carried(in_flight) BY <1>2, <1>3, <1>6 DEF carried
  <2> QED BY <1>2, <1>6, <2>1, <2>2 DEF Hearing
<1>7. CASE Confirms(k, r)
  <2>1. rx_state = "START" /\ rx_state' = "DATA" /\ rx_n' = 0 /\ rx_b' = rx_b
    BY <1>7 DEF Confirms, RxConfirms, RxTypes
  <2>2. rx_b = [i \in 0 .. 7 |-> FALSE] BY <1>7, <2>1 DEF Confirms, Hearing
  <2>3. ASSUME NEW x \in 0 .. 7 PROVE ~ x + rx_n' >= 8 /\ ~ x < rx_n' BY <2>1
  <2>4. ASSUME NEW x \in 0 .. 7 PROVE rx_b'[x] = FALSE BY <2>1, <2>2
  <2>5. ASSUME NEW x \in 0 .. 7
        PROVE  rx_b'[x] = IF listener' = "uart_rx" THEN x + rx_n' >= 8 /\ in_flight'[x + rx_n' - 8]
                          ELSE x < rx_n' /\ in_flight'[x]
    BY <2>3, <2>4
  <2> QED BY <2>1, <2>5 DEF Hearing
<1>8. CASE Hears(k, r) /\ rx_state # "DATA"
  <2>1. rx_state \in {"PARITY", "STOP"} /\ rx_state' = "STOP" /\ rx_b' = rx_b
    BY <1>8 DEF Hears, RxSamples, RxNext
  <2>2. carried(in_flight)' = carried(in_flight) BY <1>2, <1>3, <1>8 DEF Hears, carried
  <2> QED BY <1>8, <2>1, <2>2 DEF Hears, Hearing
<1>9. CASE Hears(k, r) /\ rx_state = "DATA"
  <2>1. tx = in_flight[rx_n] BY <1>9, HeardBit DEF Hears
  <2>2. /\ rx_b' = heard
        /\ \/ rx_n # DataBits /\ rx_state' = "DATA" /\ rx_n' = rx_n + 1
           \/ rx_n = DataBits /\ rx_state' \in {"PARITY", "STOP"}
    BY <1>9 DEF Hears, RxSamples, RxNext
  <2>3. \A x \in 0 .. 7 :
          rx_b[x] = IF listener = "uart_rx" THEN x + rx_n >= 8 /\ in_flight[x + rx_n - 8]
                    ELSE x < rx_n /\ in_flight[x]
    BY <1>9 DEF Hears, Hearing
  <2>4. Abreast BY <1>9 DEF Hears
  <2>5. \A x \in 0 .. 7 : in_flight[x] \in BOOLEAN BY <1>2, <2>4 DEF Byte
  <2>6. ASSUME listener = "uart_rx", NEW x \in 0 .. 7
        PROVE  shift(rx_b, tx)[x] = (x + (rx_n + 1) >= 8 /\ in_flight[x + (rx_n + 1) - 8])
    <3>1. CASE x = 7
      <4>1. shift(rx_b, tx)[x] = in_flight[rx_n] BY <2>1, <3>1 DEF shift
      <4>2. x + (rx_n + 1) >= 8 /\ x + (rx_n + 1) - 8 = rx_n BY <1>1, <3>1
      <4> QED BY <1>1, <2>5, <4>1, <4>2
    <3>2. CASE x # 7
      <4>1. x + 1 \in 0 .. 7 /\ (x + 1) + rx_n = x + (rx_n + 1) /\ (x + 1) + rx_n - 8 = x + (rx_n + 1) - 8
        BY <1>1, <3>2
      <4>2. shift(rx_b, tx)[x] = rx_b[x + 1] BY <3>2 DEF shift
      <4>3. rx_b[x + 1] = ((x + 1) + rx_n >= 8 /\ in_flight[(x + 1) + rx_n - 8]) BY <2>3, <2>6, <4>1
      <4> QED BY <4>1, <4>2, <4>3
    <3> QED BY <3>1, <3>2
  <2>7. ASSUME listener # "uart_rx", NEW x \in 0 .. 7
        PROVE  [rx_b EXCEPT ![rx_n] = tx][x] = (x < rx_n + 1 /\ in_flight[x])
    <3>1. CASE x = rx_n
      <4>1. [rx_b EXCEPT ![rx_n] = tx][x] = in_flight[x] BY <2>1, <3>1 DEF RxTypes, Byte
      <4>2. x < rx_n + 1 BY <1>1, <3>1
      <4> QED BY <2>5, <4>1, <4>2
    <3>2. CASE x # rx_n
      <4>1. [rx_b EXCEPT ![rx_n] = tx][x] = rx_b[x] BY <3>2 DEF RxTypes, Byte
      <4>2. rx_b[x] = (x < rx_n /\ in_flight[x]) BY <2>3, <2>7
      <4>3. x < rx_n <=> x < rx_n + 1 BY <1>1, <3>2
      <4> QED BY <4>1, <4>2, <4>3
    <3> QED BY <3>1, <3>2
  <2>8. CASE rx_n # DataBits
    <3>1. rx_state' = "DATA" /\ rx_n' = rx_n + 1 BY <2>2, <2>8
    <3>2. ASSUME NEW x \in 0 .. 7
          PROVE  rx_b'[x] = IF listener' = "uart_rx" THEN x + rx_n' >= 8 /\ in_flight'[x + rx_n' - 8]
                            ELSE x < rx_n' /\ in_flight'[x]
      <4>1. CASE listener = "uart_rx"
        <5>1. rx_b' = shift(rx_b, tx) BY <2>2, <2>8, <4>1 DEF heard
        <5>2. rx_b'[x] = (x + (rx_n + 1) >= 8 /\ in_flight[x + (rx_n + 1) - 8]) BY <2>6, <4>1, <5>1
        <5> QED BY <1>2, <2>4, <3>1, <4>1, <5>2
      <4>2. CASE listener # "uart_rx"
        <5>1. rx_b' = [rx_b EXCEPT ![rx_n] = tx] BY <2>2, <4>2 DEF heard
        <5>2. rx_b'[x] = (x < rx_n + 1 /\ in_flight[x]) BY <2>7, <4>2, <5>1
        <5> QED BY <1>2, <2>4, <3>1, <4>2, <5>2
      <4> QED BY <4>1, <4>2
    <3> QED BY <3>1, <3>2 DEF Hearing
  <2>9. CASE rx_n = DataBits
    <3>1. rx_state' \in {"PARITY", "STOP"} BY <2>2, <2>9
    <3>2. ASSUME NEW x \in 0 .. 7 PROVE heard[x] = carried(in_flight)[x]
      <4>0. carried(in_flight)[x] = (x <= rx_n /\ in_flight[x]) BY <2>9 DEF carried
      <4>1. CASE listener = "uart_rx" /\ x <= rx_n
        <5>1. /\ x + (7 - DataBits) \in 0 .. 7
              /\ (x + (7 - DataBits)) + (rx_n + 1) >= 8
              /\ (x + (7 - DataBits)) + (rx_n + 1) - 8 = x
              /\ x + (7 - DataBits) <= 7
          BY <1>1, <2>9, <4>1
        <5>2. heard[x] = (x + (7 - DataBits) <= 7 /\ shift(rx_b, tx)[x + (7 - DataBits)])
          BY <2>9, <4>1 DEF heard, shiftBy
        <5>3. shift(rx_b, tx)[x + (7 - DataBits)]
              = ((x + (7 - DataBits)) + (rx_n + 1) >= 8 /\ in_flight[(x + (7 - DataBits)) + (rx_n + 1) - 8])
          BY <2>6, <4>1, <5>1
        <5> QED BY <2>5, <4>0, <4>1, <5>1, <5>2, <5>3
      <4>2. CASE listener = "uart_rx" /\ ~ x <= rx_n
        <5>1. ~ x + (7 - DataBits) <= 7 BY <1>1, <2>9, <4>2
        <5>2. heard[x] = (x + (7 - DataBits) <= 7 /\ shift(rx_b, tx)[x + (7 - DataBits)])
          BY <2>9, <4>2 DEF heard, shiftBy
        <5> QED BY <4>0, <4>2, <5>1, <5>2
      <4>3. CASE listener # "uart_rx"
        <5>1. heard[x] = (x < rx_n + 1 /\ in_flight[x]) BY <2>7, <4>3 DEF heard
        <5>2. x < rx_n + 1 <=> x <= rx_n BY <1>1
        <5> QED BY <4>0, <5>1, <5>2
      <4> QED BY <4>1, <4>2, <4>3
    <3>3. heard \in Byte /\ carried(in_flight) = [i \in 0 .. 7 |-> carried(in_flight)[i]]
      BY HeardType DEF carried
    <3>4. heard = carried(in_flight) BY <3>2, <3>3 DEF Byte
    <3>5. carried(in_flight)' = carried(in_flight) BY <1>2, <1>3, <2>4 DEF carried
    <3> QED BY <2>2, <3>1, <3>4, <3>5 DEF Hearing
  <2> QED BY <2>8, <2>9
<1> QED BY <1>4, <1>5, <1>6, <1>7, <1>8, <1>9 DEF Joint, Advance, Catches

\* The parity bits the two ends have come to.
LEMMA ParitiesStep ==
  ASSUME Sure, Margin, NEW t \in BOOLEAN, NEW u \in BOOLEAN, NEW k, NEW r, k = ticks(t), r = ticks(u),
         Joint(k, r), Observe(t, u), UNCHANGED <<listener, config>>
  PROVE  Parities'
<1> USE DEF Sure
<1>0. txBit \in Nat /\ rxBit \in Nat
  <2>1. stopBit \in Nat /\ DataBits \in 0 .. 7 BY Constants DEF stopBit
  <2> QED BY <2>1 DEF txBit, rxBit, TxTypes, RxTypes
<1>1. stopBit' = stopBit /\ DataBits' = DataBits BY ConfigStep
<1>2. /\ TxGoes(k) => /\ txBit' = txBit /\ tx_state' = tx_state /\ tx_o' = tx_o /\ tx_b' = tx_b
      /\ RxGoes(r) => /\ rxBit' = rxBit /\ rx_state' = rx_state /\ rx_o' = rx_o
  BY <1>1 DEF TxGoes, RxGoes, txBit, rxBit
<1>3. CASE Rests(k) \/ Opens(k) \/ Falls(k) \/ Reports(k, r) \/ Closes(k)
  <2>1. Quiet' \/ Ended' \/ Begun' BY <1>3, PlaceStep
  <2>2. ~Abreast' BY <2>1 DEF Quiet, Ended, Begun, Abreast
  <2> QED BY <2>2 DEF Parities
<1>4. CASE Notices(k) BY <1>4 DEF Notices, RxFalling, Parities
<1>5. CASE Advance(k, r)
  <2>1. Abreast /\ TxGoes(k) /\ RxGoes(r) BY <1>5 DEF Advance
  <2> QED BY <1>2, <2>1 DEF Parities
<1>6. CASE Catches(k, r)
  <2>1. Abreast /\ TxNext /\ RxGoes(r) /\ rx_state # "START" /\ txBit = rxBit - 1
    BY <1>6 DEF Catches, TxTurns
  <2>2. rxBit' = rxBit /\ txBit' = rxBit' BY <1>0, <1>2, <2>1, NextBits
  <2>3. listener = "uart_rx" /\ rx_state \in {"DATA", "PARITY"} => rx_o = tx_o'
    <3>1. txBit # rxBit BY <1>0, <2>1
    <3>2. CASE tx_state = "DATA" BY <2>1, <3>1, <3>2 DEF Parities, TxNext
    <3>3. CASE tx_state # "DATA" BY <2>1, <3>3 DEF Parities, TxNext
    <3> QED BY <3>2, <3>3
  <2> QED BY <1>2, <2>1, <2>2, <2>3 DEF Parities
<1>7. CASE Confirms(k, r)
  <2>1. /\ Abreast /\ rx_state = "START" /\ rx_state' = "DATA" /\ rx_o' = rx_o /\ rx_n' = 0
        /\ tx_state = "START" /\ tx_o = FALSE /\ (TxGoes(k) \/ TxNext)
    BY <1>7 DEF Confirms, RxConfirms, RxTypes, Sending, TxTurns
  <2>2. listener = "uart_rx" => rx_o' = tx_o BY <2>1 DEF Parities
  <2>3. tx_o' = tx_o /\ tx_state' \in {"START", "DATA"} BY <1>2, <2>1 DEF TxNext
  <2>4. tx_state' = "DATA" => txBit' = rxBit'
    <3>1. tx_state' = "DATA" => tx_n' = 0 BY <1>2, <2>1 DEF TxNext
    <3> QED BY <2>1, <3>1 DEF txBit, rxBit
  <2> QED BY <2>1, <2>2, <2>3, <2>4 DEF Parities
<1>8. CASE Hears(k, r) /\ rx_state # "DATA"
  <2>1. rx_state' = "STOP" BY <1>8 DEF Hears, RxSamples, RxNext
  <2> QED BY <2>1 DEF Parities
<1>9. CASE Hears(k, r) /\ rx_state = "DATA" /\ listener = "uart_rx"
  <2>1. Abreast /\ Clear /\ txBit = rxBit /\ RxNext /\ (TxGoes(k) \/ TxNext)
    BY <1>9 DEF Hears, RxSamples, TxTurns
  <2>2. tx_state = "DATA" BY <1>9, <2>1, SameBit
  <2>3. tx = tx_b[0] BY <2>1, <2>2 DEF Clear, level
  <2>4. rx_o = tx_o BY <1>9, <2>1 DEF Parities
  <2>5. rx_o' = (tx_o # tx_b[0]) BY <1>9, <2>1, <2>3, <2>4 DEF RxNext
  <2>6. rxBit' = rxBit + 1 /\ rx_state' # "START" BY <1>9, <2>1, NextBits DEF RxNext
  <2>7. CASE TxGoes(k)
    <3>1. tx_state' = "DATA" /\ txBit' # rxBit' BY <1>0, <1>2, <2>1, <2>2, <2>6, <2>7
    <3>2. rx_o' = (tx_o' # tx_b'[0]) BY <1>2, <2>5, <2>7
    <3> QED BY <2>6, <3>1, <3>2 DEF Parities
  <2>8. CASE TxNext
    <3>1. txBit' = rxBit' BY <2>1, <2>6, <2>8, NextBits
    <3>2. rx_o' = tx_o' BY <2>2, <2>5, <2>8 DEF TxNext
    <3> QED BY <2>6, <3>1, <3>2 DEF Parities
  <2> QED BY <2>1, <2>7, <2>8
<1> QED BY <1>3, <1>4, <1>5, <1>6, <1>7, <1>8, <1>9 DEF Joint, Parities

-----------------------------------------------------------------------------
(* The invariant.                                                           *)

\* It holds when both ends are idle.
LEMMA Initially ==
  ASSUME Init
  PROVE  Sure
<1>1. ConfigTypes BY DEF Init, ConfigTypes
<1>2. SAMPLES \in Nat /\ SAMPLES >= 4 /\ DRIFT \in Nat /\ DataBits \in 0 .. 7 /\ lastStop \in 0 .. 3
  BY <1>1, Constants
<1>3. 0 \in 0 .. SAMPLES - 1 /\ 0 \in -DRIFT .. DRIFT /\ 0 \in 0 .. 7 /\ 0 \in 0 .. 3 BY <1>2
<1>4. [i \in 0 .. 7 |-> FALSE] \in Byte BY DEF Byte
<1>5. TxTypes BY <1>3, <1>4 DEF Init, TxTypes, States
<1>6. RxTypes BY <1>3, <1>4 DEF Init, RxTypes, States
<1>7. Line BY DEF Init, Line, level
<1>8. Quiet /\ ~Begun /\ ~Abreast BY DEF Init, Quiet, Begun, Abreast
<1>9. Flight BY <1>8 DEF Init, Flight, ReceivesWhatIsSent
<1> QED BY <1>1, <1>5, <1>6, <1>7, <1>8, <1>9 DEF Sure, Place, Sending, Hearing, Parities

\* A clock of either end, or of both, keeps the invariant.
LEMMA Clocks ==
  ASSUME Margin, Sure, Next
  PROVE  Sure'
<1>1. PICK t, u \in BOOLEAN : TxClock(t) /\ Listen(u) /\ Observe(t, u) /\ UNCHANGED <<listener, config>>
  BY DEF Next
<1>2. /\ ConfigTypes /\ TxTypes /\ RxTypes /\ Line /\ Place BY DEF Sure
<1>3. Joint(ticks(t), ticks(u)) BY <1>1, <1>2, Together
<1>4. ConfigTypes' BY <1>1, <1>2, ConfigStep
<1>5. drift' \in -DRIFT .. DRIFT BY <1>1 DEF Observe
<1>6. TxTypes' BY <1>1, <1>2, <1>5, TxTypesStep
<1>7. RxTypes' BY <1>1, <1>3, RxTypesStep
<1>8. Line' BY <1>1, <1>2, LineStep
<1>9. Place' BY <1>1, <1>2, <1>3, PlaceStep DEF Joint, Place
<1>10. Flight' BY <1>1, <1>3, FlightStep
<1>11. Sending' BY <1>1, <1>3, SendingStep
<1>12. Hearing' BY <1>1, <1>3, HearingStep
<1>13. Parities' BY <1>1, <1>3, ParitiesStep
<1> QED BY <1>4, <1>6, <1>7, <1>8, <1>9, <1>10, <1>11, <1>12, <1>13 DEF Sure

\* A stutter keeps it.
LEMMA Idles ==
  ASSUME Sure, UNCHANGED vars
  PROVE  Sure'
<1> USE DEF vars, txVars, rxVars
<1>1. ConfigTypes' /\ DataBits' = DataBits /\ ParityEn' = ParityEn /\ ParityOdd' = ParityOdd
      /\ lastStop' = lastStop /\ stopBit' = stopBit
  BY ConfigStep DEF Sure
<1>2. TxTypes' BY <1>1 DEF Sure, TxTypes
<1>3. RxTypes' BY <1>1 DEF Sure, RxTypes
<1>4. Line' BY <1>1 DEF Sure, Line, level
<1>5. txBit' = txBit /\ rxBit' = rxBit BY <1>1 DEF txBit, rxBit
<1>6. Quiet' = Quiet /\ Begun' = Begun /\ Abreast' = Abreast /\ Ended' = Ended
  BY <1>1, <1>5 DEF Quiet, Begun, Abreast, Ended
<1>7. carried(in_flight)' = carried(in_flight) BY <1>1 DEF carried
<1>8. Place' /\ Flight' BY <1>6, <1>7 DEF Sure, Place, Flight, ReceivesWhatIsSent
<1>9. Sending' /\ Hearing' /\ Parities' BY <1>5, <1>6, <1>7 DEF Sure, Sending, Hearing, Parities
<1> QED BY <1>1, <1>2, <1>3, <1>4, <1>8, <1>9 DEF Sure

\* The invariant of the line, of which the two properties are parts.
THEOREM Invariant ==
  ASSUME Margin
  PROVE  Spec => []Sure
<1>1. Init => Sure BY Initially
<1>2. Sure /\ [Next]_vars => Sure' BY Clocks, Idles
<1> QED BY <1>1, <1>2, PTL DEF Spec

\* Whatever the bytes, the formats and the order in which the two clocks tick: as long as the
\* listener neither gains nor loses more than DRIFT ticks in a frame, and DRIFT is two less than
\* half a bit, all that uart_rx or the probe reports is the byte uart_tx is sending, and never
\* as bad.
THEOREM Delivered ==
  ASSUME Margin
  PROVE  Spec => []ReceivesWhatIsSent
<1>1. Sure => ReceivesWhatIsSent BY DEF Sure, Flight
<1> QED BY <1>1, Invariant, PTL

\* Under the same condition uart_tx is never idle again before the frame it sent is reported:
\* the listener is never busy with a frame when the next one begins.
THEOREM Kept ==
  ASSUME Margin
  PROVE  Spec => []NoneSwallowed
<1>1. Sure => NoneSwallowed
  BY DEF Sure, Place, Quiet, Begun, Abreast, Ended, Flight, NoneSwallowed
<1> QED BY <1>1, Invariant, PTL

=============================================================================
