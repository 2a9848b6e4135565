----------------------------- MODULE Sdram_proofs -----------------------------
(***************************************************************************)
(* Proofs about Sdram, for every burst length, every wait the controller   *)
(* is given that covers the chip's distances, and every client: no command *)
(* breaks a rule of the chip, and the data bus is never driven twice.      *)
(* State, counter and burst counter say which command is on the pins       *)
(* (Pins) and, of the chip, which rows are open, which burst runs and how  *)
(* long ago each command was (OpenRows, RunningBursts and Distances).      *)
(*                                                                         *)
(* The same state and counters bound the clocks until a refresh that is    *)
(* due has been done (Due), so every period gets its refresh; and with the *)
(* data on its way through the chip (Aligned, Fetched, Stored) they show   *)
(* that every burst moves the whole block of its request.                  *)
(***************************************************************************)
EXTENDS Sdram, TLAPS

In(s) == current_state = s
Col   == mem_addr_in \in [col : Nat]
Row   == mem_addr_in \in [row : Rows]

Types == /\ current_state \in States /\ counter \in Nat /\ burst_counter \in Nat
         /\ cpu_u_c_addr_reg \in Nat
         /\ mem_bank_select \in Banks /\ cpu_in \in Requests \union {None}

\* The command on the pins, and what the address pins carry with it.
InitPins ==
  /\ In("INIT_IDLE") => cmd = "NOP"
  /\ In("PRECHARGE_ALL") /\ counter = 0 => cmd = "PRE" /\ mem_addr_in = [all |-> TRUE]
  /\ In("PRECHARGE_ALL") /\ counter # 0 => cmd = "NOP"
  /\ In("AUTO_REFRESH_1") \/ In("AUTO_REFRESH_2") \/ In("PERIODIC_REFRESH") =>
       cmd = IF counter = 0 THEN "REF" ELSE "NOP"
  /\ In("SET_MODE") => cmd = IF counter = 0 THEN "MRS" ELSE "NOP"
  /\ In("NORMAL_IDLE") => cmd = "NOP"
AccessPins ==
  /\ In("ACTIVATE") => burst_counter = 0
  /\ In("ACTIVATE") /\ counter = 0 => cmd = "ACT" /\ Row
  /\ In("ACTIVATE") /\ counter # 0 => cmd = "NOP"
  /\ In("READ_BURST") =>
       /\ cmd = IF counter = 0 THEN "READ" ELSE IF burst_counter = BURST_LEN - 1 THEN "BST" ELSE "NOP"
       /\ counter # tCAS => burst_counter = 0
       /\ Col
  /\ In("WRITE_BURST") =>
       /\ burst_counter >= 1 /\ cmd = IF burst_counter = 1 THEN "WRITE" ELSE "NOP"
       /\ Col
  /\ In("PRECHARGE") =>
       /\ counter = 0 => cmd \in {"NOP", "BST"}
       /\ counter = 1 => cmd = "PRE"
       /\ counter > 1 => cmd = "NOP"
       /\ Col
  /\ ~In("READ_BURST") /\ ~In("WRITE_BURST") => burst_counter = 0
  /\ mem_data_oe => In("WRITE_BURST")
Pins == Types /\ InitPins /\ AccessPins

\* The rows that are open: the one that was activated, until it is precharged.
Closed   == \A b \in Banks : open[b] = None
OneOpen  == open[mem_bank_select] \in Rows /\ \A b \in Banks \ {mem_bank_select} : open[b] = None
RowOpen  == \/ In("ACTIVATE") /\ counter # 0
            \/ In("READ_BURST") \/ In("WRITE_BURST")
            \/ In("PRECHARGE") /\ counter <= 1
OpenRows == /\ open \in [Banks -> Rows \union {None}]
            /\ RowOpen => OneOpen
            /\ ~RowOpen => Closed

\* The burst that runs, and what it leaves on the bus.
Running(kind) == burst \in Chip!Bursts /\ burst.op = kind
Reading       == In("READ_BURST") /\ counter # 0
Writing       == In("WRITE_BURST") /\ burst_counter # 1
Stopping      == In("PRECHARGE") /\ counter = 0
RunningBursts ==
  /\ Reading => Running("READ")
  /\ Writing => Running("WRITE")
  /\ Stopping => burst = None \/ (cmd = "BST" /\ Running("WRITE"))
  /\ ~Reading /\ ~Writing /\ ~Stopping => burst = None
Bus ==
  /\ ~In("READ_BURST") => pipe = None
  /\ ~In("READ_BURST") /\ ~Stopping => DQ = None

\* How long ago each command was, in clocks, as far as the chip counts.
AtLeast(c, n) == age[c] >= n \/ age[c] = Chip!Longest
Refreshing    == In("AUTO_REFRESH_1") \/ In("AUTO_REFRESH_2") \/ In("PERIODIC_REFRESH")
PreAges ==
  /\ In("PRECHARGE_ALL") /\ counter # 0 => AtLeast("PRE", counter)
  /\ Refreshing \/ In("SET_MODE") \/ In("ACTIVATE") => AtLeast("PRE", dRP)
  /\ In("NORMAL_IDLE") => AtLeast("PRE", dRP - 1)
  /\ In("PRECHARGE") /\ counter > 1 => AtLeast("PRE", counter - 1)
RefAges ==
  /\ In("INIT_IDLE") => AtLeast("REF", counter)
  /\ Refreshing /\ counter # 0 => AtLeast("REF", counter)
  /\ ~In("INIT_IDLE") /\ ~(Refreshing /\ counter # 0) => AtLeast("REF", dRC)
ActAges ==
  /\ In("ACTIVATE") /\ counter # 0 => AtLeast("ACT", counter)
  /\ In("READ_BURST") /\ counter = 0 => AtLeast("ACT", dRCD)
  /\ In("WRITE_BURST") /\ burst_counter = 1 => AtLeast("ACT", dRCD)
DataAges ==
  /\ In("INIT_IDLE") => AtLeast("data", counter)
  /\ Writing \/ Stopping => AtLeast("data", 1)
  /\ ~In("INIT_IDLE") /\ ~In("WRITE_BURST") /\ ~Stopping => AtLeast("data", dDPL)
Distances == age \in Chip!Ages /\ PreAges /\ RefAges /\ ActAges /\ DataAges

IInv == Pins /\ OpenRows /\ RunningBursts /\ Bus /\ Distances /\ protocol

-----------------------------------------------------------------------------
(* The chip.                                                                *)

now    == Chip!running(cmd, mem_bank_select, mem_addr_in)
writes == now # None /\ now.op = "WRITE"
ChipClock == Chip!DeviceClock(cmd, mem_bank_select, mem_addr_in, mem_data_oe, mem_data_in)

\* The arithmetic of the distances.
LEMMA Constants ==
  /\ {BURST_LEN, Pwait, tRP, tRC, tMRD, tRCD, tCAS, dRP, dRC, dRCD, dDPL} \subseteq Nat \ {0}
  /\ BURST_LEN >= 2 /\ dDPL <= 2 /\ dDPL <= Pwait + 1 /\ dRC <= Pwait + 1
  /\ dRP <= tRP + 1 /\ dRC <= tRC + 1 /\ dRCD <= tRCD + 1
  /\ Chip!Longest \in Nat /\ Chip!Longest >= 4
  /\ dRP <= Chip!Longest /\ dRC <= Chip!Longest /\ dRCD <= Chip!Longest /\ dDPL <= Chip!Longest
<1>1. {BURST_LEN, Pwait, tRP, tRC, tMRD, tRCD, tCAS, dRP, dRC, dRCD, dDPL} \subseteq Nat \ {0}
  BY SdramAssumption, TimingAssumption
<1>2. dRC >= 1 /\ dRP >= 1 /\ dRCD >= 1 /\ dDPL >= 1 /\ {dRP, dRC, dRCD, dDPL} \subseteq Nat BY <1>1
<1> QED BY <1>1, <1>2, SdramAssumption, TimingAssumption DEF Chip!Longest

\* A distance grows by one in a clock, and starts again at one.
LEMMA AgeStep ==
  ASSUME age \in Chip!Ages, ChipClock
  PROVE  /\ age' \in Chip!Ages
         /\ \A c \in Chip!Timed : \A n \in Int :
              /\ c = cmd \/ (c = "data" /\ writes) => age'[c] = 1
              /\ ~(c = cmd \/ (c = "data" /\ writes)) /\ AtLeast(c, n) => AtLeast(c, n + 1)'
<1>1. age' = [c \in Chip!Timed |-> IF c = cmd \/ (c = "data" /\ writes) THEN 1
                                   ELSE IF age[c] = Chip!Longest THEN age[c] ELSE age[c] + 1]
  <2>1. DOMAIN age = Chip!Timed BY DEF Chip!Ages
  <2> QED BY <2>1 DEF ChipClock, Chip!DeviceClock, now, writes
<1>2. Chip!Longest \in Nat /\ Chip!Longest >= 1 BY Constants
<1>3. \A c \in Chip!Timed : age[c] \in 0..Chip!Longest BY DEF Chip!Ages
<1>4. \A c \in Chip!Timed : age'[c] \in 0..Chip!Longest BY <1>1, <1>2, <1>3
<1>5. age' \in Chip!Ages BY <1>1, <1>4 DEF Chip!Ages
<1> QED BY <1>1, <1>2, <1>3, <1>5 DEF AtLeast

\* A distance that is long enough stays so.
LEMMA StaysLong ==
  ASSUME NEW c \in Chip!Timed, NEW n \in Nat, age \in Chip!Ages, AtLeast(c, n + 1)
  PROVE  AtLeast(c, n)
BY DEF AtLeast, Chip!Ages

LEMMA Reached ==
  ASSUME NEW c \in Chip!Timed, NEW n \in Int, NEW d \in Nat, age \in Chip!Ages,
         AtLeast(c, n), d <= n, d <= Chip!Longest
  PROVE  age[c] >= d /\ AtLeast(c, d)
<1>1. age[c] \in Int /\ Chip!Longest \in Int BY Constants DEF Chip!Ages
<1> QED BY <1>1 DEF AtLeast

\* Every command finds the chip ready for it.
LEMMA CommandLegal ==
  ASSUME IInv
  PROVE  Chip!legal(cmd, mem_bank_select, mem_addr_in)
<1> USE Constants DEF IInv, Pins, Types, InitPins, AccessPins, In, States, InitStates
<1>1. Chip!Timed = {"PRE", "REF", "ACT", "data"} BY DEF Chip!Timed
<1>2. cmd \in {"ACT", "REF", "MRS"} => age["PRE"] >= dRP
  <2>1. cmd \in {"ACT", "REF", "MRS"} => Refreshing \/ In("SET_MODE") \/ In("ACTIVATE")
    BY DEF Refreshing
  <2> QED BY <1>1, <2>1, Reached DEF Distances, PreAges
<1>3. cmd # "NOP" => age["REF"] >= dRC
  <2>1. cmd # "NOP" => ~In("INIT_IDLE") /\ ~(Refreshing /\ counter # 0) BY DEF Refreshing
  <2> QED BY <1>1, <2>1, Reached DEF Distances, RefAges
<1>4. cmd \in {"ACT", "REF", "MRS"} => Closed /\ burst = None
  <2>1. cmd \in {"ACT", "REF", "MRS"} =>
          /\ ~In("READ_BURST") /\ ~In("WRITE_BURST") /\ ~In("PRECHARGE")
          /\ In("ACTIVATE") => counter = 0
    OBVIOUS
  <2> QED BY <2>1 DEF OpenRows, RowOpen, RunningBursts, Reading, Writing, Stopping
<1>5. cmd \in {"READ", "WRITE"} => open[mem_bank_select] # None /\ age["ACT"] >= dRCD /\ burst = None
  <2>1. cmd \in {"READ", "WRITE"} =>
          \/ In("READ_BURST") /\ counter = 0
          \/ In("WRITE_BURST") /\ burst_counter = 1
    OBVIOUS
  <2>2. cmd \in {"READ", "WRITE"} => open[mem_bank_select] \in Rows
    BY <2>1 DEF OpenRows, RowOpen, OneOpen
  <2>3. cmd \in {"READ", "WRITE"} => burst = None
    BY <2>1 DEF RunningBursts, Reading, Writing, Stopping
  <2>4. cmd \in {"READ", "WRITE"} => age["ACT"] >= dRCD
    BY <1>1, <2>1, Reached DEF Distances, ActAges
  <2> QED BY <2>2, <2>3, <2>4, TimingAssumption
<1>6. cmd = "PRE" => /\ burst = None /\ age["data"] >= dDPL
                     /\ "all" \in DOMAIN mem_addr_in \/ "col" \in DOMAIN mem_addr_in
  <2>1. cmd = "PRE" => \/ In("PRECHARGE_ALL") /\ counter = 0 /\ mem_addr_in = [all |-> TRUE]
                       \/ In("PRECHARGE") /\ counter = 1 /\ Col
    OBVIOUS
  <2>2. cmd = "PRE" => burst = None BY <2>1 DEF RunningBursts, Reading, Writing, Stopping
  <2>3. cmd = "PRE" => age["data"] >= dDPL
    BY <1>1, <2>1, Reached DEF Distances, DataAges, Stopping
  <2>4. cmd = "PRE" => "all" \in DOMAIN mem_addr_in \/ "col" \in DOMAIN mem_addr_in
    BY <2>1 DEF Col
  <2> QED BY <2>2, <2>3, <2>4
<1> HIDE DEF IInv, Pins, Types, InitPins, AccessPins, In, States, InitStates
<1>7. mem_bank_select \in Banks BY DEF IInv, Pins, Types
<1> QED BY <1>2, <1>3, <1>4, <1>5, <1>6, <1>7 DEF Chip!legal, Chip!allIdle, Chip!closesAll, Closed

\* What the chip does in each state of the controller.
LEMMA ChipAfter ==
  ASSUME IInv, ChipClock
  PROVE  /\ protocol'
         /\ writes <=> In("WRITE_BURST")
         /\ open' \in [Banks -> Rows \union {None}]
         /\ In("ACTIVATE") \/ In("READ_BURST") \/ In("WRITE_BURST") \/ Stopping =>
              open'[mem_bank_select] \in Rows /\ \A b \in Banks \ {mem_bank_select} : open'[b] = None
         /\ ~(In("ACTIVATE") \/ In("READ_BURST") \/ In("WRITE_BURST") \/ Stopping) => Closed'
         /\ In("READ_BURST") /\ cmd # "BST" => Running("READ")'
         /\ In("WRITE_BURST") => Running("WRITE")'
         /\ ~(In("READ_BURST") /\ cmd # "BST") /\ ~In("WRITE_BURST") => burst' = None
         /\ ~(In("READ_BURST") /\ cmd # "BST") => pipe' = None
         /\ DQ' = pipe
<1> USE DEF In, States, InitStates
<1>1. /\ burst' = IF now = None THEN None ELSE [now EXCEPT !.col = (@ + 1) % PAGE]
      /\ (now # None /\ now.op = "READ") \/ pipe' = None
      /\ DQ' = pipe
      /\ open' = IF cmd = "ACT" THEN [open EXCEPT ![mem_bank_select] = mem_addr_in.row]
                 ELSE IF cmd = "PRE" /\ Chip!closesAll(mem_addr_in) THEN [b \in Banks |-> None]
                 ELSE IF cmd = "PRE" THEN [open EXCEPT ![mem_bank_select] = None]
                 ELSE open
      /\ protocol' = (protocol /\ Chip!legal(cmd, mem_bank_select, mem_addr_in))
  BY DEF ChipClock, Chip!DeviceClock, now
<1>2. protocol' BY <1>1, CommandLegal DEF IInv
<1>3. now = IF cmd \in {"READ", "WRITE"}
            THEN [op |-> cmd, bank |-> mem_bank_select, col |-> mem_addr_in.col]
            ELSE IF cmd \in {"BST", "PRE"} THEN None ELSE burst
  BY DEF now, Chip!running
<1>4. /\ Types /\ InitPins /\ AccessPins /\ OpenRows /\ RunningBursts BY DEF IInv, Pins
<1>5. /\ cmd = "READ" => In("READ_BURST") /\ counter = 0 /\ Col
      /\ cmd = "WRITE" => In("WRITE_BURST") /\ burst_counter = 1 /\ Col
      /\ cmd = "BST" => In("READ_BURST") \/ Stopping
      /\ cmd = "ACT" <=> In("ACTIVATE") /\ counter = 0
      /\ cmd = "ACT" => Row
      /\ cmd = "PRE" => \/ In("PRECHARGE_ALL") /\ counter = 0 /\ mem_addr_in = [all |-> TRUE]
                        \/ In("PRECHARGE") /\ counter = 1 /\ Col
      /\ In("PRECHARGE") /\ counter = 1 => cmd = "PRE"
      /\ In("READ_BURST") => IF counter = 0 THEN cmd = "READ" ELSE cmd \in {"BST", "NOP"}
      /\ In("WRITE_BURST") => cmd = IF burst_counter = 1 THEN "WRITE" ELSE "NOP"
  BY <1>4 DEF Types, InitPins, AccessPins, Stopping
<1>6. mem_bank_select \in Banks /\ open \in [Banks -> Rows \union {None}]
  BY <1>4 DEF Types, OpenRows
\* The burst.
<1>7. cmd \in {"READ", "WRITE"} => now \in Chip!Bursts /\ now.op = cmd
  <2>1. cmd \in {"READ", "WRITE"} => Col BY <1>5
  <2> QED BY <1>3, <1>6, <2>1 DEF Chip!Bursts, Col
<1>8. In("READ_BURST") /\ cmd # "BST" => now \in Chip!Bursts /\ now.op = "READ"
  <2>1. In("READ_BURST") /\ counter # 0 /\ cmd = "NOP" => now = burst /\ Running("READ")
    BY <1>3, <1>4 DEF RunningBursts, Reading
  <2> QED BY <1>5, <1>7, <2>1 DEF Running
<1>9. In("WRITE_BURST") => now \in Chip!Bursts /\ now.op = "WRITE"
  <2>1. In("WRITE_BURST") /\ burst_counter # 1 => now = burst /\ Running("WRITE")
    BY <1>3, <1>4, <1>5 DEF RunningBursts, Writing
  <2> QED BY <1>5, <1>7, <2>1 DEF Running
<1>10. ~(In("READ_BURST") /\ cmd # "BST") /\ ~In("WRITE_BURST") => now = None
  <2>1. CASE cmd \in {"READ", "WRITE", "BST", "PRE"}
    BY <1>3, <1>5, <2>1
  <2>2. CASE cmd \notin {"READ", "WRITE", "BST", "PRE"}
    <3>1. now = burst BY <1>3, <2>2
    <3>2. ~In("READ_BURST") /\ ~In("WRITE_BURST") => burst = None
      BY <1>4, <2>2 DEF RunningBursts, Reading, Writing, Stopping
    <3> QED BY <2>2, <3>1, <3>2
  <2> QED BY <2>1, <2>2
<1>11. None \notin Chip!Bursts /\ PAGE \in Nat \ {0} BY TimingAssumption
<1>12. now \in Chip!Bursts => burst' \in Chip!Bursts /\ burst'.op = now.op
  <2>1. \A n \in Nat : (n + 1) % PAGE \in Nat BY <1>11
  <2> QED BY <1>1, <1>11, <2>1 DEF Chip!Bursts
<1>13. /\ writes <=> In("WRITE_BURST")
       /\ In("READ_BURST") /\ cmd # "BST" => Running("READ")'
       /\ In("WRITE_BURST") => Running("WRITE")'
       /\ ~(In("READ_BURST") /\ cmd # "BST") /\ ~In("WRITE_BURST") => burst' = None
       /\ ~(In("READ_BURST") /\ cmd # "BST") => pipe' = None
  BY <1>1, <1>8, <1>9, <1>10, <1>11, <1>12 DEF writes, Running
\* The rows.
<1>14. open' \in [Banks -> Rows \union {None}]
  BY <1>1, <1>5, <1>6 DEF Row
<1>15. CASE In("ACTIVATE") \/ In("READ_BURST") \/ In("WRITE_BURST") \/ Stopping
  <2>1. CASE cmd = "ACT"
    <3>1. Closed BY <1>4, <1>5, <2>1 DEF OpenRows, RowOpen
    <3>2. mem_addr_in.row \in Rows BY <1>5, <2>1 DEF Row
    <3> QED BY <1>1, <1>2, <1>6, <1>13, <1>14, <1>15, <2>1, <3>1, <3>2 DEF Closed
  <2>2. CASE cmd # "ACT"
    <3>1. cmd # "PRE" BY <1>5, <1>15 DEF Stopping
    <3>2. open' = open BY <1>1, <2>2, <3>1
    <3>3. RowOpen BY <1>5, <1>15, <2>2 DEF RowOpen, Stopping
    <3> QED BY <1>1, <1>2, <1>4, <1>13, <1>14, <1>15, <3>2, <3>3 DEF OpenRows, OneOpen
  <2> QED BY <2>1, <2>2
<1>16. CASE ~(In("ACTIVATE") \/ In("READ_BURST") \/ In("WRITE_BURST") \/ Stopping)
  <2>1. CASE In("PRECHARGE") /\ counter = 1
    <3>1. OneOpen /\ cmd = "PRE" BY <1>4, <1>5, <2>1 DEF OpenRows, RowOpen
    <3>2. Closed' BY <1>1, <1>6, <3>1 DEF OneOpen, Closed
    <3> QED BY <1>1, <1>2, <1>13, <1>14, <1>16, <3>2
  <2>2. CASE ~(In("PRECHARGE") /\ counter = 1)
    <3>1. Closed /\ cmd # "ACT"
      BY <1>4, <1>5, <1>16, <2>2 DEF OpenRows, RowOpen, Types, Stopping
    <3>2. Closed' BY <1>1, <1>6, <3>1 DEF Closed
    <3> QED BY <1>1, <1>2, <1>13, <1>14, <1>16, <3>2
  <2> QED BY <2>1, <2>2
<1> QED BY <1>15, <1>16

\* What a clock does to the distances in each state.
LEMMA AgesAfter ==
  ASSUME IInv, ChipClock
  PROVE  /\ age' \in Chip!Ages
         /\ \A n \in Int :
              /\ \A c \in {"PRE", "REF", "ACT"} :
                   cmd # c /\ AtLeast(c, n) => AtLeast(c, n + 1)' /\ AtLeast(c, n)'
              /\ ~In("WRITE_BURST") /\ AtLeast("data", n)
                   => AtLeast("data", n + 1)' /\ AtLeast("data", n)'
         /\ cmd = "PRE" => AtLeast("PRE", 1)'
         /\ cmd = "REF" => AtLeast("REF", 1)'
         /\ cmd = "ACT" => AtLeast("ACT", 1)'
         /\ In("WRITE_BURST") => AtLeast("data", 1)'
<1>1. age \in Chip!Ages /\ Chip!Timed = {"PRE", "REF", "ACT", "data"}
  BY DEF IInv, Distances, Chip!Timed
<1>2. cmd # "data"
  BY DEF IInv, Pins, Types, InitPins, AccessPins, In, States, InitStates
<1>3. age' \in Chip!Ages BY <1>1, AgeStep
<1>4. \A c \in Chip!Timed : \A n \in Int : AtLeast(c, n + 1)' => AtLeast(c, n)'
  BY <1>3 DEF AtLeast, Chip!Ages
<1>5. \A c \in Chip!Timed : age'[c] = 1 => AtLeast(c, 1)' BY DEF AtLeast
<1>6. writes <=> In("WRITE_BURST") BY ChipAfter
<1> QED BY <1>1, <1>2, <1>3, <1>4, <1>5, <1>6, AgeStep

-----------------------------------------------------------------------------
(* The controller.                                                          *)

\* A step that waits, or idles.
Holds == /\ current_state' = current_state /\ cmd' = "NOP" /\ mem_data_oe' = FALSE
         /\ UNCHANGED <<mem_bank_select, mem_addr_in, burst_counter, cpu_u_c_addr_reg>>

\* A step to another state.
Moves(s1, s2, c) ==
  /\ current_state = s1 /\ current_state' = s2 /\ counter' = 0 /\ cmd' = c
  /\ mem_data_oe' = FALSE /\ UNCHANGED <<burst_counter, cpu_u_c_addr_reg>>

\* The moves of the controller, by what the invariant tells apart.
Idles == Holds /\ counter' = counter /\ In("NORMAL_IDLE")
InitWaits == Holds /\ counter' = counter + 1 /\ In("INIT_IDLE")
ClosedWaits ==
  /\ Holds /\ counter' = counter + 1
  /\ In("PRECHARGE_ALL") \/ Refreshing \/ In("SET_MODE") \/ (In("PRECHARGE") /\ counter # 0)
ActWaits == Holds /\ counter' = counter + 1 /\ In("ACTIVATE")
ReadWaits == Holds /\ counter' = counter + 1 /\ In("READ_BURST") /\ counter # tCAS
ClosesAll ==
  /\ Moves("INIT_IDLE", "PRECHARGE_ALL", "PRE") /\ counter = Pwait
  /\ mem_addr_in' = [all |-> TRUE] /\ UNCHANGED mem_bank_select
FirstRefresh == Moves("PRECHARGE_ALL", "AUTO_REFRESH_1", "REF") /\ counter = tRP /\ UNCHANGED mem_bank_select
RefreshDone ==
  /\ counter = tRC /\ UNCHANGED mem_bank_select
  /\ \/ Moves("AUTO_REFRESH_1", "AUTO_REFRESH_2", "REF")
     \/ Moves("AUTO_REFRESH_2", "SET_MODE", "MRS")
     \/ Moves("PERIODIC_REFRESH", "NORMAL_IDLE", "NOP")
ModeSet == Moves("SET_MODE", "NORMAL_IDLE", "NOP") /\ UNCHANGED mem_bank_select
LeavesIdle ==
  /\ In("NORMAL_IDLE") /\ counter' = 0 /\ mem_data_oe' = FALSE /\ UNCHANGED burst_counter
  /\ cpu_u_c_addr_reg' \in Nat /\ mem_bank_select' \in Banks
  /\ \/ current_state' = "PERIODIC_REFRESH" /\ cmd' = "REF"
     \/ current_state' = "ACTIVATE" /\ cmd' = "ACT" /\ Row'
StartsBurst ==
  /\ In("ACTIVATE") /\ counter = tRCD /\ counter' = 0 /\ UNCHANGED <<mem_bank_select, cpu_u_c_addr_reg>>
  /\ Col'
  /\ \/ /\ current_state' = "READ_BURST" /\ cmd' = "READ" /\ mem_data_oe' = FALSE
        /\ UNCHANGED burst_counter
     \/ current_state' = "WRITE_BURST" /\ cmd' = "WRITE" /\ burst_counter' = 1
ReadGoesOn ==
  /\ In("READ_BURST") /\ counter = tCAS /\ burst_counter # BURST_LEN - 1
  /\ burst_counter' = burst_counter + 1
  /\ cmd' = IF burst_counter + 1 = BURST_LEN - 1 THEN "BST" ELSE "NOP"
  /\ mem_data_oe' = FALSE
  /\ UNCHANGED <<current_state, counter, mem_bank_select, mem_addr_in, cpu_u_c_addr_reg>>
ReadEnds ==
  /\ In("READ_BURST") /\ counter = tCAS /\ burst_counter = BURST_LEN - 1
  /\ current_state' = "PRECHARGE" /\ counter' = 0 /\ burst_counter' = 0 /\ cmd' = "NOP"
  /\ mem_data_oe' = FALSE /\ UNCHANGED <<mem_bank_select, mem_addr_in, cpu_u_c_addr_reg>>
WriteSteps ==
  /\ In("WRITE_BURST") /\ UNCHANGED <<mem_bank_select, mem_addr_in, cpu_u_c_addr_reg>>
  /\ \/ /\ current_state' = "WRITE_BURST" /\ burst_counter' = burst_counter + 1 /\ cmd' = "NOP"
        /\ UNCHANGED counter
     \/ /\ current_state' = "PRECHARGE" /\ counter' = 0 /\ burst_counter' = 0 /\ cmd' = "BST"
        /\ mem_data_oe' = FALSE
StartsPrecharge ==
  /\ Stopping /\ current_state' = "PRECHARGE" /\ counter' = 1
  /\ cmd' = "PRE" /\ mem_data_oe' = FALSE
  /\ UNCHANGED <<burst_counter, mem_bank_select, mem_addr_in, cpu_u_c_addr_reg>>
Precharged == Moves("PRECHARGE", "NORMAL_IDLE", "NOP") /\ counter = tRP /\ UNCHANGED mem_bank_select

\* Every step of the controller, less what the proofs do not need.
LEMMA ControllerSteps ==
  ASSUME Types, InitPins, AccessPins, CtrlClock(cpu_in, DQ)
  PROVE  \/ Idles \/ InitWaits \/ ClosedWaits \/ ActWaits \/ ReadWaits
         \/ ClosesAll \/ FirstRefresh \/ RefreshDone \/ ModeSet \/ LeavesIdle
         \/ StartsBurst \/ ReadGoesOn \/ ReadEnds \/ WriteSteps \/ StartsPrecharge \/ Precharged
<1> USE Constants DEF Idles, InitWaits, ClosedWaits, ActWaits, ReadWaits, ClosesAll, FirstRefresh, RefreshDone,
     ModeSet, LeavesIdle, StartsBurst, ReadGoesOn, ReadEnds, WriteSteps, StartsPrecharge, Precharged,
     In, Moves, Holds, Goto, Issue, NoPulse, KeepPins, Waiting, addrPins, cpuRegs, burstRegs
<1>1. CASE Initialise
  <2>1. CASE \E limit \in Nat : Waiting(limit)
    <3>1. Holds /\ counter' = counter + 1 BY <2>1
    <3>2. In("INIT_IDLE") \/ In("PRECHARGE_ALL") \/ Refreshing \/ In("SET_MODE")
      BY <1>1 DEF Initialise, InitStep, Refreshing
    <3>3. InitWaits \/ ClosedWaits BY <3>1, <3>2
    <3> QED BY <3>3
  <2>2. CASE InitStep("INIT_IDLE", Pwait, "PRE", "PRECHARGE_ALL") BY <2>2 DEF InitStep
  <2>3. CASE InitStep("PRECHARGE_ALL", tRP, "REF", "AUTO_REFRESH_1") BY <2>3 DEF InitStep
  <2>4. CASE \/ InitStep("AUTO_REFRESH_1", tRC, "REF", "AUTO_REFRESH_2")
             \/ InitStep("AUTO_REFRESH_2", tRC, "MRS", "SET_MODE")
    <3>1. RefreshDone BY <2>4 DEF InitStep
    <3> QED BY <3>1
  <2> QED BY <1>1, <2>1, <2>2, <2>3, <2>4 DEF Initialise
<1>2. CASE Initialised
  BY <1>2 DEF Initialised, InitPins
<1>3. CASE Accept(cpu_in)
  <2>1. /\ current_state = "NORMAL_IDLE" /\ current_state' = "ACTIVATE" /\ counter' = 0
        /\ cmd' = "ACT" /\ mem_data_oe' = FALSE /\ burst_counter' = burst_counter
        /\ mem_bank_select' = cpu_in.block.bank /\ mem_addr_in' = [row |-> cpu_in.block.row]
        /\ cpu_u_c_addr_reg' = cpu_in.block.ucol /\ cpu_in # None
    BY <1>3 DEF Accept
  <2>2. cpu_in.block \in Block BY <2>1 DEF Types, Requests
  <2>3. cpu_in.block.ucol \in Nat BY <2>2, SdramAssumption DEF Block
  <2> QED BY <2>1, <2>2, <2>3 DEF Block, Row
<1>4. CASE StartRefresh(cpu_in)
  BY <1>4 DEF StartRefresh, Types
<1>5. CASE Idle(cpu_in)
  BY <1>5 DEF Idle
<1>6. CASE Activate
  <2>1. CASE Waiting(tRCD)
    BY <1>6, <2>1 DEF Activate
  <2>2. CASE ~Waiting(tRCD)
    <3>1. cpu_u_c_addr_reg * BURST_LEN \in Nat
      <4>1. cpu_u_c_addr_reg \in Nat /\ BURST_LEN \in Nat BY DEF Types
      <4> QED BY ONLY <4>1
    <3>2. Col' /\ burst_counter = 0 BY <1>6, <2>2, <3>1 DEF Activate, Col, AccessPins
    <3> QED BY <1>6, <2>2, <3>2 DEF Activate
  <2> QED BY <2>1, <2>2
<1>7. CASE ReadBurst(DQ)
  BY <1>7 DEF ReadBurst, Types
<1>8. CASE WriteBurst
  BY <1>8 DEF WriteBurst
<1>9. CASE Precharge
  BY <1>9 DEF Precharge, Stopping
<1>10. CASE PeriodicRefresh
  <2>1. CASE Waiting(tRC)
    <3>1. Holds /\ counter' = counter + 1 /\ Refreshing
      BY <1>10, <2>1 DEF PeriodicRefresh, Refreshing
    <3>2. ClosedWaits BY <3>1
    <3> QED BY <3>2
  <2>2. CASE ~Waiting(tRC)
    <3>1. cmd = "NOP" /\ counter = tRC BY <1>10, <2>2 DEF PeriodicRefresh, InitPins
    <3>2. RefreshDone BY <1>10, <2>2, <3>1 DEF PeriodicRefresh
    <3> QED BY ONLY <3>2
  <2> QED BY <2>1, <2>2
<1> QED BY <1>1, <1>2, <1>3, <1>4, <1>5, <1>6, <1>7, <1>8, <1>9, <1>10 DEF CtrlClock

-----------------------------------------------------------------------------
(* A step keeps the invariant: first what only the state it leads to decides. *)

After == /\ protocol' /\ open' \in [Banks -> Rows \union {None}] /\ age' \in Chip!Ages
         /\ cpu_in' \in Requests \union {None}

\* A step out of the states in which every row is closed and no burst runs, to another.
LEMMA QuietStep ==
  ASSUME After, Pins', Closed', burst' = None, pipe' = None, DQ' = None,
         PreAges', RefAges', AtLeast("data", dDPL)',
         In("PRECHARGE_ALL")' \/ Refreshing' \/ In("SET_MODE")' \/ In("NORMAL_IDLE")'
           \/ (In("ACTIVATE")' /\ counter' = 0) \/ (In("PRECHARGE")' /\ counter' > 1)
  PROVE  IInv'
<1>1. /\ ~In("READ_BURST")' /\ ~In("WRITE_BURST")' /\ ~In("INIT_IDLE")'
      /\ In("ACTIVATE")' => counter' = 0
      /\ In("PRECHARGE")' => counter' > 1
  BY DEF In, Refreshing
<1>2. counter' \in Nat BY DEF Pins, Types
<1>3. ~RowOpen' /\ ~Reading' /\ ~Writing' /\ ~Stopping'
  BY <1>1, <1>2 DEF RowOpen, Reading, Writing, Stopping
<1>4. OpenRows' BY <1>3 DEF OpenRows, After
<1>5. RunningBursts' /\ Bus' BY <1>1, <1>3 DEF RunningBursts, Bus
<1>6. ActAges' /\ DataAges' BY <1>1, <1>3 DEF ActAges, DataAges
<1> QED BY <1>4, <1>5, <1>6 DEF IInv, Distances, After

LEMMA NextIInv ==
  ASSUME IInv, Next
  PROVE  IInv'
<1> USE Constants
<1>1. /\ ChipClock /\ CtrlClock(cpu_in, DQ) /\ Client BY DEF Next, ChipClock
<1>2. /\ Types /\ InitPins /\ AccessPins /\ OpenRows /\ RunningBursts /\ Bus
      /\ PreAges /\ RefAges /\ ActAges /\ DataAges
  BY DEF IInv, Pins, Distances
<1>3. cpu_in' \in Requests \union {None} BY <1>1, <1>2 DEF Client, Types
<1>4. After BY <1>1, <1>3, ChipAfter, AgesAfter DEF After
\* The chip, by the state the controller was in.
<1> DEFINE quiet == ~In("ACTIVATE") /\ ~In("READ_BURST") /\ ~In("WRITE_BURST") /\ ~Stopping
<1>5. quiet => Closed' /\ burst' = None /\ pipe' = None /\ DQ' = None
  BY <1>1, <1>2, ChipAfter DEF Bus
<1>6. \A n \in Int :
        /\ \A c \in {"PRE", "REF", "ACT"} :
             cmd # c /\ AtLeast(c, n) => AtLeast(c, n + 1)' /\ AtLeast(c, n)'
        /\ ~In("WRITE_BURST") /\ AtLeast("data", n) => AtLeast("data", n + 1)' /\ AtLeast("data", n)'
  BY <1>1, AgesAfter
<1>7. /\ cmd = "PRE" => AtLeast("PRE", 1)'
      /\ cmd = "REF" => AtLeast("REF", 1)'
      /\ cmd = "ACT" => AtLeast("ACT", 1)'
      /\ In("WRITE_BURST") => AtLeast("data", 1)'
  BY <1>1, AgesAfter
<1>8. \A c \in {"PRE", "REF", "ACT", "data"} : \A n, d \in Int :
        d <= n /\ d <= Chip!Longest /\ AtLeast(c, n)' => AtLeast(c, d)'
  BY <1>4 DEF After, AtLeast, Chip!Ages, Chip!Timed
<1> HIDE DEF quiet
<1>9. CASE Idles
  <2> USE DEF Idles
  <2>1. Pins' BY <1>2, <1>3, <1>9 DEF Pins, Types, InitPins, AccessPins, Holds, In, Col
  <2>2. PreAges' /\ RefAges' /\ AtLeast("data", dDPL)'
    BY <1>2, <1>6, <1>9 DEF PreAges, RefAges, DataAges, Holds, In, Refreshing, Stopping, InitPins
  <2>3. quiet BY <1>9 DEF quiet, In, Stopping
  <2> QED BY <1>4, <1>5, <1>9, <2>1, <2>2, <2>3, QuietStep DEF Holds, In
\* Waiting in a state.
<1>10. CASE InitWaits
  <2> USE DEF InitWaits
  <2>1. Pins' BY <1>2, <1>3, <1>10 DEF Pins, Types, InitPins, AccessPins, Holds, In, Col
  <2>2. quiet /\ cmd = "NOP" BY <1>2, <1>10 DEF quiet, In, Stopping, InitPins
  <2>3. AtLeast("REF", counter)' /\ AtLeast("data", counter)'
    <3>1. counter \in Int /\ AtLeast("REF", counter) /\ AtLeast("data", counter)
      BY <1>2, <1>10 DEF RefAges, DataAges, Types
    <3>2. PICK n \in Int : n = counter BY <3>1
    <3>3. AtLeast("REF", n + 1)' /\ AtLeast("data", n + 1)'
      BY <1>6, <1>10, <2>2, <3>1, <3>2 DEF In
    <3> QED BY <1>10, <3>2, <3>3 DEF AtLeast
  <2>4. In("INIT_IDLE")' /\ counter' # 0 BY <1>2, <1>10 DEF Holds, In, Types
  <2>5. ~RowOpen' /\ ~Reading' /\ ~Writing' /\ ~Stopping'
    BY <2>4 DEF RowOpen, Reading, Writing, Stopping, In
  <2>6. OpenRows' /\ RunningBursts' /\ Bus'
    BY <1>4, <1>5, <2>2, <2>5 DEF OpenRows, RunningBursts, Bus, After
  <2>7. PreAges' /\ RefAges' /\ ActAges' /\ DataAges'
    BY <2>3, <2>4, <2>5 DEF PreAges, RefAges, ActAges, DataAges, In, Refreshing
  <2> QED BY <1>4, <2>1, <2>6, <2>7 DEF IInv, Distances, After
<1>11. CASE ClosedWaits
  <2> USE DEF ClosedWaits
  <2>1. Pins' BY <1>2, <1>3, <1>11 DEF Pins, Types, InitPins, AccessPins, Holds, In, Col, Refreshing
  <2>2. quiet BY <1>11 DEF quiet, In, Stopping, Refreshing
  <2>3. PreAges'
    BY <1>2, <1>6, <1>7, <1>11 DEF PreAges, Holds, In, Refreshing, InitPins, AccessPins, Types
  <2>4. RefAges'
    BY <1>2, <1>6, <1>7, <1>11 DEF RefAges, Holds, In, Refreshing, InitPins, AccessPins, Types
  <2>5. AtLeast("data", dDPL)'
    BY <1>2, <1>6, <1>11 DEF DataAges, In, Refreshing, Stopping
  <2> QED BY <1>2, <1>4, <1>5, <1>11, <2>1, <2>2, <2>3, <2>4, <2>5, QuietStep DEF Holds, In,
        Refreshing, Types
<1>12. CASE ActWaits
  <2> USE DEF ActWaits
  <2>1. Pins' BY <1>2, <1>3, <1>12 DEF Pins, Types, InitPins, AccessPins, Holds, In, Col
  <2>2. PreAges' /\ RefAges' /\ AtLeast("data", dDPL)'
    BY <1>2, <1>6, <1>12 DEF PreAges, RefAges, DataAges, Holds, In, Refreshing,
       Stopping, AccessPins, Types
  <2>3. AtLeast("ACT", counter)'
    <3>1. PICK n \in Int : n = counter BY <1>2 DEF Types
    <3>2. CASE counter = 0 BY <1>2, <1>7, <1>12, <3>2 DEF AtLeast, AccessPins
    <3>3. CASE counter # 0
      <4>1. cmd = "NOP" /\ AtLeast("ACT", n) BY <1>2, <1>12, <3>1, <3>3 DEF AccessPins, ActAges
      <4>2. AtLeast("ACT", n + 1)' BY <1>6, <4>1
      <4> QED BY <1>12, <3>1, <4>2 DEF AtLeast
    <3> QED BY <3>2, <3>3
  <2>4. OneOpen' /\ burst' = None /\ pipe' = None /\ DQ' = None
    <3>1. ~In("READ_BURST") /\ ~In("WRITE_BURST") /\ ~Stopping BY <1>12 DEF In, Stopping
    <3>2. UNCHANGED mem_bank_select BY <1>12 DEF Holds
    <3>3. counter # 0 => OneOpen BY <1>2, <1>12 DEF OpenRows, RowOpen
    <3>4. counter = 0 => cmd = "ACT" /\ Row BY <1>2, <1>12 DEF AccessPins
    <3>5. OneOpen' BY <1>1, <1>12, <3>2, <3>3, <3>4, ChipAfter DEF OneOpen, In
    <3>6. burst' = None /\ pipe' = None /\ DQ' = None BY <1>1, <1>2, <1>12, <3>1, ChipAfter DEF Bus
    <3> QED BY <3>5, <3>6
  <2>5. In("ACTIVATE")' /\ counter' # 0 BY <1>2, <1>12 DEF Holds, In, Types
  <2>6. RowOpen' /\ ~Reading' /\ ~Writing' /\ ~Stopping'
    BY <2>5 DEF RowOpen, Reading, Writing, Stopping, In
  <2>7. OpenRows' /\ RunningBursts' /\ Bus'
    BY <1>4, <2>4, <2>6 DEF OpenRows, RunningBursts, Bus, After
  <2>8. ActAges' /\ DataAges'
    BY <2>2, <2>3, <2>5, <2>6 DEF ActAges, DataAges, In
  <2> QED BY <1>4, <2>1, <2>2, <2>7, <2>8 DEF IInv, Distances, After
<1>13. CASE ReadWaits
  <2> USE DEF ReadWaits
  <2>1. Pins' BY <1>2, <1>3, <1>13 DEF Pins, Types, InitPins, AccessPins, Holds, In, Col
  <2>2. PreAges' /\ RefAges' /\ AtLeast("data", dDPL)'
    BY <1>2, <1>6, <1>13 DEF PreAges, RefAges, DataAges, Holds, In, Refreshing, Stopping, AccessPins
  <2>3. cmd # "BST" BY <1>2, <1>13 DEF AccessPins, In
  <2>4. OneOpen' /\ Running("READ")'
    BY <1>1, <1>13, <2>3, ChipAfter DEF OneOpen, Holds, In
  <2> QED BY <1>2, <1>4, <1>13, <2>1, <2>2, <2>4 DEF Holds, In, After, IInv, OpenRows, RowOpen, Types,
        RunningBursts, Reading, Writing, Stopping, Bus, Distances, ActAges, DataAges, Refreshing
\* The initialisation.
<1>14. CASE ClosesAll
  <2> USE DEF ClosesAll
  <2>1. Pins' BY <1>2, <1>3, <1>14 DEF Pins, Types, InitPins, AccessPins, Moves, In, States, InitStates
  <2>2. quiet /\ cmd = "NOP" BY <1>2, <1>14 DEF quiet, In, Stopping, InitPins, Moves
  <2>3. AtLeast("REF", Pwait + 1)' /\ AtLeast("data", Pwait + 1)'
    BY <1>2, <1>6, <1>14, <2>2 DEF RefAges, DataAges, In, Moves
  <2>4. AtLeast("REF", dRC)' /\ AtLeast("data", dDPL)'
    BY <1>8, <2>3
  <2>5. PreAges' /\ RefAges' BY <1>14, <2>4 DEF PreAges, RefAges, Moves, In, Refreshing
  <2> QED BY <1>4, <1>5, <1>14, <2>1, <2>2, <2>4, <2>5, QuietStep DEF Moves, In
<1>15. CASE FirstRefresh
  <2> USE DEF FirstRefresh
  <2>1. Pins' BY <1>2, <1>3, <1>15 DEF Pins, Types, InitPins, AccessPins, Moves, In, States, InitStates
  <2>2. quiet /\ cmd = "NOP" BY <1>2, <1>15 DEF quiet, In, Stopping, InitPins, Moves
  <2>3. AtLeast("PRE", tRP + 1)' /\ AtLeast("REF", dRC)' /\ AtLeast("data", dDPL)'
    BY <1>2, <1>6, <1>15, <2>2 DEF PreAges, RefAges, DataAges, In, Moves, Refreshing, Stopping
  <2>4. AtLeast("PRE", dRP)' BY <1>8, <2>3
  <2>5. PreAges' /\ RefAges' BY <1>15, <2>3, <2>4 DEF PreAges, RefAges, Moves, In, Refreshing
  <2> QED BY <1>4, <1>5, <1>15, <2>1, <2>2, <2>3, <2>5, QuietStep DEF Moves, In, Refreshing
<1>16. CASE RefreshDone
  <2> USE DEF RefreshDone
  <2>1. Pins' BY <1>2, <1>3, <1>16 DEF Pins, Types, InitPins, AccessPins, Moves, In, States, InitStates
  <2>2. quiet /\ cmd = "NOP" BY <1>2, <1>16 DEF quiet, In, Stopping, InitPins, Moves
  <2>3. AtLeast("PRE", dRP)' /\ AtLeast("REF", tRC + 1)' /\ AtLeast("data", dDPL)'
    BY <1>2, <1>6, <1>16, <2>2 DEF PreAges, RefAges, DataAges, In, Moves, Refreshing, Stopping
  <2>4. AtLeast("PRE", dRP - 1)' /\ AtLeast("REF", dRC)' BY <1>8, <2>3
  <2>5. PreAges' /\ RefAges' BY <1>16, <2>3, <2>4 DEF PreAges, RefAges, Moves, In, Refreshing
  <2> QED BY <1>4, <1>5, <1>16, <2>1, <2>2, <2>3, <2>5, QuietStep DEF Moves, In, Refreshing
<1>17. CASE ModeSet
  <2> USE DEF ModeSet
  <2>1. Pins' BY <1>2, <1>3, <1>17 DEF Pins, Types, InitPins, AccessPins, Moves, In, States, InitStates
  <2>2. quiet /\ cmd \notin {"PRE", "REF"} BY <1>2, <1>17 DEF quiet, In, Stopping, InitPins, Moves
  <2>3. AtLeast("PRE", dRP)' /\ AtLeast("REF", dRC)' /\ AtLeast("data", dDPL)'
    BY <1>2, <1>6, <1>17, <2>2 DEF PreAges, RefAges, DataAges, In, Moves, Refreshing, Stopping
  <2>4. AtLeast("PRE", dRP - 1)' BY <1>8, <2>3
  <2>5. PreAges' /\ RefAges' BY <1>17, <2>3, <2>4 DEF PreAges, RefAges, Moves, In, Refreshing
  <2> QED BY <1>4, <1>5, <1>17, <2>1, <2>2, <2>3, <2>5, QuietStep DEF Moves, In
\* Out of NORMAL_IDLE.
<1>18. CASE LeavesIdle
  <2> USE DEF LeavesIdle
  <2>1. Pins' BY <1>2, <1>3, <1>18 DEF Pins, Types, InitPins, AccessPins, In, States, InitStates
  <2>2. quiet /\ cmd = "NOP" BY <1>2, <1>18 DEF quiet, In, Stopping, InitPins
  <2>3. AtLeast("PRE", (dRP - 1) + 1)' /\ AtLeast("REF", dRC)' /\ AtLeast("data", dDPL)'
    BY <1>2, <1>6, <1>18, <2>2 DEF PreAges, RefAges, DataAges, In, Refreshing, Stopping
  <2>4. AtLeast("PRE", dRP)' BY <1>8, <2>3
  <2>5. PreAges' /\ RefAges' BY <1>18, <2>3, <2>4 DEF PreAges, RefAges, In, Refreshing
  <2> QED BY <1>4, <1>5, <1>18, <2>1, <2>2, <2>3, <2>5, QuietStep DEF In, Refreshing
\* Into the bursts.
<1>19. CASE StartsBurst
  <2> USE DEF StartsBurst
  <2>1. Pins' BY <1>2, <1>3, <1>19 DEF Pins, Types, InitPins, AccessPins, In, States, InitStates
  <2>2. cmd = "NOP" BY <1>2, <1>19 DEF In, AccessPins
  <2>3. AtLeast("REF", dRC)' /\ AtLeast("ACT", tRCD + 1)' /\ AtLeast("data", dDPL)'
    BY <1>2, <1>6, <1>19, <2>2 DEF RefAges, ActAges, DataAges, In, Refreshing, Stopping
  <2>4. AtLeast("ACT", dRCD)' BY <1>8, <2>3
  <2>5. OneOpen' /\ burst' = None /\ pipe' = None /\ DQ' = None
    BY <1>1, <1>2, <1>19, ChipAfter DEF Bus, OneOpen, In, Stopping
  <2> QED BY <1>4, <1>19, <2>1, <2>3, <2>4, <2>5 DEF In, After, IInv, OpenRows, RowOpen,
        RunningBursts, Reading, Writing, Stopping, Bus, Distances, PreAges, RefAges, ActAges, DataAges,
        Refreshing
\* Along a read burst, and out of it.
<1>20. CASE ReadGoesOn
  <2> USE DEF ReadGoesOn
  <2>1. Pins' BY <1>2, <1>3, <1>20 DEF Pins, Types, InitPins, AccessPins, In, Col
  <2>2. cmd = "NOP" BY <1>2, <1>20 DEF In, AccessPins
  <2>3. AtLeast("REF", dRC)' /\ AtLeast("data", dDPL)'
    BY <1>2, <1>6, <1>20, <2>2 DEF RefAges, DataAges, In, Refreshing, Stopping
  <2>4. OneOpen' /\ Running("READ")' BY <1>1, <1>20, <2>2, ChipAfter DEF OneOpen, In
  <2> QED BY <1>4, <1>20, <2>1, <2>3, <2>4 DEF In, After, IInv, OpenRows, RowOpen,
        RunningBursts, Reading, Writing, Stopping, Bus, Distances, PreAges, RefAges, ActAges, DataAges,
        Refreshing
<1>21. CASE ReadEnds
  <2> USE DEF ReadEnds
  <2>1. Pins' BY <1>2, <1>3, <1>21 DEF Pins, Types, InitPins, AccessPins, In, Col, States
  <2>2. cmd = "BST" BY <1>2, <1>21 DEF In, AccessPins
  <2>3. AtLeast("REF", dRC)' /\ AtLeast("data", dDPL)'
    BY <1>2, <1>6, <1>21, <2>2 DEF RefAges, DataAges, In, Refreshing, Stopping
  <2>4. AtLeast("data", 1)' BY <1>8, <2>3
  <2>5. OneOpen' /\ burst' = None /\ pipe' = None BY <1>1, <1>21, <2>2, ChipAfter DEF OneOpen, In
  <2> QED BY <1>4, <1>21, <2>1, <2>3, <2>4, <2>5 DEF In, After, IInv, OpenRows, RowOpen,
        RunningBursts, Reading, Writing, Stopping, Bus, Distances, PreAges, RefAges, ActAges, DataAges,
        Refreshing
\* Along a write burst, and out of it.
<1>22. CASE WriteSteps
  <2> USE DEF WriteSteps
  <2>1. Pins' BY <1>2, <1>3, <1>22 DEF Pins, Types, InitPins, AccessPins, In, Col, States
  <2>2. cmd # "REF" BY <1>2, <1>22 DEF In, AccessPins
  <2>3. AtLeast("REF", dRC)' /\ AtLeast("data", 1)'
    BY <1>2, <1>6, <1>7, <1>22, <2>2 DEF RefAges, In, Refreshing
  <2>4. OneOpen' /\ Running("WRITE")' /\ pipe' = None /\ DQ' = None
    BY <1>1, <1>2, <1>22, ChipAfter DEF OneOpen, In, Bus, Stopping
  <2>5. CASE current_state' = "WRITE_BURST"
    <3>1. burst_counter' # 1 BY <1>2, <1>22, <2>5 DEF AccessPins, Types, In
    <3> QED BY <1>4, <1>22, <2>1, <2>3, <2>4, <2>5, <3>1 DEF In, After, IInv, OpenRows, RowOpen,
          RunningBursts, Reading, Writing, Stopping, Bus, Distances, PreAges, RefAges, ActAges, DataAges,
          Refreshing
  <2>6. CASE current_state' = "PRECHARGE"
    BY <1>4, <1>22, <2>1, <2>3, <2>4, <2>6 DEF In, After, IInv, OpenRows, RowOpen,
        RunningBursts, Reading, Writing, Stopping, Bus, Distances, PreAges, RefAges, ActAges, DataAges,
        Refreshing
  <2> QED BY <1>22, <2>5, <2>6
\* The precharge.
<1>23. CASE StartsPrecharge
  <2> USE DEF StartsPrecharge
  <2>1. Pins' BY <1>2, <1>3, <1>23 DEF Pins, Types, InitPins, AccessPins, In, Col, Stopping
  <2>2. cmd \in {"NOP", "BST"} BY <1>2, <1>23 DEF In, AccessPins, Stopping
  <2>3. AtLeast("REF", dRC)' /\ AtLeast("data", 2)'
    BY <1>2, <1>6, <1>23, <2>2 DEF RefAges, DataAges, In, Refreshing, Stopping
  <2>4. AtLeast("data", dDPL)' BY <1>8, <2>3
  <2>5. OneOpen' /\ burst' = None /\ pipe' = None /\ DQ' = None
    BY <1>1, <1>2, <1>23, ChipAfter DEF OneOpen, In, Stopping, Bus
  <2> QED BY <1>4, <1>23, <2>1, <2>3, <2>4, <2>5 DEF In, After, IInv, OpenRows, RowOpen,
        RunningBursts, Reading, Writing, Stopping, Bus, Distances, PreAges, RefAges, ActAges, DataAges,
        Refreshing
<1>24. CASE Precharged
  <2> USE DEF Precharged
  <2>1. Pins' BY <1>2, <1>3, <1>24 DEF Pins, Types, InitPins, AccessPins, Moves, In, States
  <2>2. quiet BY <1>24 DEF quiet, In, Stopping, Moves
  <2>3. AtLeast("REF", dRC)' /\ AtLeast("data", dDPL)'
    BY <1>2, <1>6, <1>24 DEF RefAges, DataAges, In, Moves, Refreshing, Stopping, AccessPins, Types
  <2>4. AtLeast("PRE", tRP)'
    BY <1>2, <1>6, <1>7, <1>24 DEF PreAges, In, Moves, AccessPins, Types
  <2>5. AtLeast("PRE", dRP - 1)' BY <1>8, <2>4
  <2>6. PreAges' /\ RefAges' BY <1>24, <2>3, <2>5 DEF PreAges, RefAges, Moves, In, Refreshing
  <2> QED BY <1>4, <1>5, <1>24, <2>1, <2>2, <2>3, <2>6, QuietStep DEF Moves, In
<1>25. Types /\ InitPins /\ AccessPins /\ CtrlClock(cpu_in, DQ) BY <1>1, <1>2
<1> QED
  BY ONLY ControllerSteps, <1>25, <1>9, <1>10, <1>11, <1>12, <1>13, <1>14, <1>15, <1>16, <1>17, <1>18,
     <1>19, <1>20, <1>21, <1>22, <1>23, <1>24

-----------------------------------------------------------------------------
LEMMA InitIInv == Init => IInv
<1> SUFFICES ASSUME Init PROVE IInv OBVIOUS
<1> USE Constants DEF Init, CtrlInit, In
<1>1. Pins BY DEF Pins, Types, InitPins, AccessPins, States, InitStates
<1>2. OpenRows /\ RunningBursts /\ Bus /\ protocol
  BY DEF Chip!DeviceInit, OpenRows, RowOpen, Closed, RunningBursts, Reading, Writing, Stopping, Bus
<1>3. age \in Chip!Ages /\ \A c \in Chip!Timed : age[c] = 0 BY DEF Chip!DeviceInit, Chip!Ages
<1>4. Distances
  BY <1>3 DEF Distances, PreAges, RefAges, ActAges, DataAges, AtLeast, Refreshing, Writing, Stopping,
              Chip!Timed
<1> QED BY <1>1, <1>2, <1>4 DEF IInv

LEMMA StutterIInv == IInv /\ UNCHANGED vars => IInv'
BY DEF IInv, vars, ctrlVars, deviceVars, addrPins, cpuRegs, burstRegs, Pins, Types, InitPins,
       AccessPins, OpenRows, RowOpen, Closed, OneOpen, RunningBursts, Running, Reading, Writing,
       Stopping, Bus, Distances, PreAges, RefAges, ActAges, DataAges, AtLeast, Refreshing, In, Col, Row

\* State and counter always say which command is on the pins and how the chip stands.
THEOREM Inductive == Spec => []IInv
<1>1. IInv /\ [Next]_vars => IInv' BY NextIInv, StutterIInv
<1> QED BY InitIInv, <1>1, PTL DEF Spec

\* No command of the controller ever breaks a rule of the chip, whatever its client asks for
\* and whenever refreshes fall due.
THEOREM RulesKept == Spec => []DeviceRulesKept
<1>1. IInv => DeviceRulesKept BY DEF IInv, DeviceRulesKept
<1> QED BY Inductive, <1>1, PTL

\* The controller and the chip never drive the data bus in the same clock.
THEOREM BusNeverContended == Spec => []NoBusContention
<1>1. IInv => NoBusContention
  BY DEF IInv, Pins, AccessPins, Bus, Stopping, In, NoBusContention
<1> QED BY Inductive, <1>1, PTL

-----------------------------------------------------------------------------
(* The refresh timer: every period gets exactly one refresh.                *)

\* The clocks from the start of a refresh, a precharge, a burst, an access, to the clock in
\* which a refresh is reported done.
ToRefresh == tRC + 2
ToClose   == tRP + 1 + ToRefresh
ToBurst   == tCAS + BURST_LEN + ToClose
ToAccess  == tRCD + 1 + ToBurst

\* The clocks the initialisation has taken so far.
elapsed == IF In("INIT_IDLE") THEN counter
           ELSE IF In("PRECHARGE_ALL") THEN Pwait + 1 + counter
           ELSE IF In("AUTO_REFRESH_1") THEN Pwait + tRP + 2 + counter
           ELSE IF In("AUTO_REFRESH_2") THEN Pwait + tRP + tRC + 3 + counter
           ELSE Pwait + tRP + 2 * tRC + 4 + counter

Initialising == current_state \in InitStates

Flags  == refresh_pending \in BOOLEAN /\ refresh_done \in BOOLEAN /\ mem_ready \in BOOLEAN
Bounds ==
  /\ refresh_counter \in 0 .. REFRESH_PERIOD - 1
  /\ mem_ready => In("NORMAL_IDLE")
  /\ In("ACTIVATE") => counter <= tRCD
  /\ In("READ_BURST") => counter <= tCAS /\ burst_counter <= BURST_LEN - 1
  /\ In("WRITE_BURST") => burst_counter <= BURST_LEN
  /\ In("PRECHARGE") => counter <= tRP
  /\ In("PERIODIC_REFRESH") => counter <= tRC

\* While a refresh is due, the period does not end before it has been done.
Room(n) == refresh_counter + n <= REFRESH_PERIOD - 1
Due ==
  refresh_pending /\ ~refresh_done =>
    /\ In("NORMAL_IDLE") /\ mem_ready => Room(Busy)
    /\ In("ACTIVATE") => Room(tRCD - counter + 1 + ToBurst)
    /\ In("READ_BURST") => Room(tCAS - counter + BURST_LEN - burst_counter + ToClose)
    /\ In("WRITE_BURST") => Room(BURST_LEN - burst_counter + 1 + ToClose)
    /\ In("PRECHARGE") => Room(tRP - counter + 1 + ToRefresh)
    /\ In("NORMAL_IDLE") /\ ~mem_ready => Room(ToRefresh)
    /\ In("PERIODIC_REFRESH") => Room(tRC - counter + 1)

\* What is owed is what is pending, less what is being done.
Owing ==
  /\ Initialising \/ (~In("PERIODIC_REFRESH") /\ ~refresh_done) =>
       owed = IF refresh_pending THEN 1 ELSE 0
  /\ In("PERIODIC_REFRESH") \/ refresh_done => owed = 0 /\ refresh_pending
  /\ refresh_done => In("NORMAL_IDLE") /\ ~mem_ready

\* The timer runs through the initialisation too.
Phase == Initialising => elapsed % REFRESH_PERIOD = refresh_counter

RefreshInv == Flags /\ Bounds /\ Due /\ Owing /\ Phase

\* A count modulo a period goes up by one, or starts again.
LEMMA CountModulo ==
  ASSUME NEW n \in Nat, NEW p \in Nat \ {0}
  PROVE  (n + 1) % p = IF n % p >= p - 1 THEN 0 ELSE (n % p) + 1
<1> DEFINE q == n \div p
           r == n % p
<1>1. n = p * q + r /\ q \in Nat /\ r \in 0 .. p - 1 OBVIOUS
<1> HIDE DEF q, r
<1>2. CASE r < p - 1
  <2>1. r + 1 \in 0 .. p - 1 BY <1>1, <1>2
  <2>2. n + 1 = q * p + (r + 1) BY <1>1
  <2>3. (q * p + (r + 1)) % p = r + 1 BY <1>1, <2>1
  <2> QED BY <1>2, <2>2, <2>3 DEF r
<1>3. CASE r = p - 1
  <2>1. n + 1 = (q + 1) * p + 0 BY <1>1, <1>3
  <2>2. ((q + 1) * p + 0) % p = 0 BY <1>1
  <2> QED BY <1>3, <2>1, <2>2 DEF r
<1> QED BY <1>1, <1>2, <1>3 DEF r

\* The initial state, and what the timer does in a clock.
LEMMA InitRefresh == Init => RefreshInv
<1> SUFFICES ASSUME Init PROVE RefreshInv OBVIOUS
<1> USE DEF Init, CtrlInit, In, Initialising, InitStates
<1>1. REFRESH_PERIOD \in Nat \ {0} BY SdramAssumption
<1>2. 0 % REFRESH_PERIOD = 0 BY <1>1
<1>3. Bounds BY <1>1 DEF Bounds
<1>7. Flags BY DEF Flags
<1>4. Due BY DEF Due
<1>5. Owing BY DEF Owing
<1>6. Phase BY <1>2 DEF Phase, elapsed
<1> QED BY <1>3, <1>4, <1>5, <1>6, <1>7 DEF RefreshInv

\* The clocks until a refresh that is due has been done, at most.
Left == IF In("ACTIVATE") THEN tRCD - counter + 1 + ToBurst
        ELSE IF In("READ_BURST") THEN tCAS - counter + BURST_LEN - burst_counter + ToClose
        ELSE IF In("WRITE_BURST") THEN BURST_LEN - burst_counter + 1 + ToClose
        ELSE IF In("PRECHARGE") THEN tRP - counter + 1 + ToRefresh
        ELSE IF In("PERIODIC_REFRESH") THEN tRC - counter + 1
        ELSE IF mem_ready THEN Busy ELSE ToRefresh

LEMMA DueIsLeft ==
  ASSUME Types
  PROVE  Due <=> (refresh_pending /\ ~refresh_done /\ ~Initialising => Room(Left))
BY DEF Due, Left, Types, In, States, InitStates, Initialising

\* The steps outside the initialisation, as the refresh timer sees them.
Steps(s1, s2) == In(s1) /\ In(s2)'
NoRefresh     == cmd' # "REF" /\ refresh_done' = FALSE
Busily        == NoRefresh /\ mem_ready' = FALSE

Accepts  == /\ Steps("NORMAL_IDLE", "ACTIVATE") /\ Busily
            /\ mem_ready /\ counter' = 0 /\ burst_counter' = 0
Starts   == /\ Steps("NORMAL_IDLE", "PERIODIC_REFRESH") /\ cmd' = "REF" /\ refresh_done' = FALSE /\ mem_ready' = FALSE
            /\ refresh_pending /\ ~refresh_done /\ counter' = 0
Rests    == /\ Steps("NORMAL_IDLE", "NORMAL_IDLE") /\ NoRefresh /\ mem_ready' \in BOOLEAN
            /\ ~(refresh_pending /\ ~refresh_done)
Opens    == /\ Steps("ACTIVATE", "ACTIVATE") /\ Busily /\ counter' = counter + 1 /\ counter < tRCD
Begins   == /\ Busily /\ counter = tRCD /\ counter' = 0
            /\ \/ Steps("ACTIVATE", "READ_BURST") /\ burst_counter' = 0
               \/ Steps("ACTIVATE", "WRITE_BURST") /\ burst_counter' = 1
Latency  == /\ Steps("READ_BURST", "READ_BURST") /\ Busily
            /\ counter < tCAS /\ counter' = counter + 1 /\ burst_counter' = burst_counter
Reads    == /\ Steps("READ_BURST", "READ_BURST") /\ Busily /\ counter' = counter
            /\ counter = tCAS /\ burst_counter < BURST_LEN - 1 /\ burst_counter' = burst_counter + 1
Writes   == /\ Steps("WRITE_BURST", "WRITE_BURST") /\ Busily
            /\ burst_counter < BURST_LEN /\ burst_counter' = burst_counter + 1
Ends     == /\ Busily /\ counter' = 0
            /\ \/ Steps("READ_BURST", "PRECHARGE") /\ counter = tCAS /\ burst_counter = BURST_LEN - 1
               \/ Steps("WRITE_BURST", "PRECHARGE") /\ burst_counter = BURST_LEN
Closes   == /\ Steps("PRECHARGE", "PRECHARGE") /\ Busily /\ counter' = counter + 1 /\ counter < tRP
IsClosed == /\ Steps("PRECHARGE", "NORMAL_IDLE") /\ NoRefresh
            /\ counter = tRP /\ mem_ready' \in BOOLEAN /\ (refresh_pending => mem_ready' = FALSE)
Recovers == /\ Steps("PERIODIC_REFRESH", "PERIODIC_REFRESH") /\ Busily
            /\ counter' = counter + 1 /\ counter < tRC
Reports  == /\ Steps("PERIODIC_REFRESH", "NORMAL_IDLE") /\ cmd' # "REF" /\ refresh_done' = TRUE /\ mem_ready' = FALSE
            /\ counter = tRC

LEMMA TimerSteps ==
  ASSUME Types, InitPins, AccessPins, Flags, Bounds, CtrlClock(cpu_in, DQ), ~Initialising
  PROVE  \/ Accepts \/ Starts \/ Rests \/ Opens \/ Begins \/ Latency \/ Reads \/ Writes \/ Ends
         \/ Closes \/ IsClosed \/ Recovers \/ Reports
<1> USE Constants DEF Steps, NoRefresh, Busily, Accepts, Starts, Rests, Opens, Begins, Latency, Reads,
     Writes, Ends, Closes, IsClosed, Recovers, Reports, Flags, Bounds, Types,
     In, Goto, Issue, NoPulse, KeepPins, Waiting, addrPins, cpuRegs, burstRegs
<1>1. ~Initialise /\ ~Initialised BY DEF Initialise, InitStep, Initialised, Initialising, InitStates
<1>2. CASE Accept(cpu_in)
  <2>1. Accepts BY <1>2 DEF Accept, AccessPins
  <2> QED BY <2>1
<1>3. CASE StartRefresh(cpu_in)
  <2>1. Starts BY <1>3 DEF StartRefresh
  <2> QED BY <2>1
<1>4. CASE Idle(cpu_in)
  <2>1. Rests BY <1>4 DEF Idle
  <2> QED BY <2>1
<1>5. CASE Activate
  <2>1. CASE Waiting(tRCD)
    <3>1. Opens BY <1>5, <2>1 DEF Activate
    <3> QED BY <3>1
  <2>2. CASE counter = tRCD
    <3>1. Begins BY <1>5, <2>2 DEF Activate, AccessPins
    <3> QED BY <3>1
  <2> QED BY <1>5, <2>1, <2>2 DEF Activate
<1>6. CASE ReadBurst(DQ)
  <2>1. CASE Waiting(tCAS)
    <3>1. Latency BY <1>6, <2>1 DEF ReadBurst
    <3> QED BY <3>1
  <2>2. CASE counter = tCAS /\ burst_counter = BURST_LEN - 1
    <3>1. Ends BY <1>6, <2>2 DEF ReadBurst
    <3> QED BY <3>1
  <2>3. CASE counter = tCAS /\ burst_counter # BURST_LEN - 1
    <3>1. Reads BY <1>6, <2>3 DEF ReadBurst
    <3> QED BY <3>1
  <2> QED BY <1>6, <2>1, <2>2, <2>3 DEF ReadBurst
<1>7. CASE WriteBurst
  <2>1. CASE burst_counter = BURST_LEN
    <3>1. Ends BY <1>7, <2>1 DEF WriteBurst
    <3> QED BY <3>1
  <2>2. CASE burst_counter # BURST_LEN
    <3>1. Writes BY <1>7, <2>2 DEF WriteBurst
    <3> QED BY <3>1
  <2> QED BY <2>1, <2>2
<1>8. CASE Precharge
  <2>1. CASE counter = tRP
    <3>1. IsClosed BY <1>8, <2>1 DEF Precharge
    <3> QED BY <3>1
  <2>2. CASE counter # tRP
    <3>1. Closes BY <1>8, <2>2 DEF Precharge
    <3> QED BY <3>1
  <2> QED BY <2>1, <2>2
<1>9. CASE PeriodicRefresh
  <2>1. CASE Waiting(tRC)
    <3>1. Recovers BY <1>9, <2>1 DEF PeriodicRefresh
    <3> QED BY <3>1
  <2>2. CASE ~Waiting(tRC)
    <3>1. Reports BY <1>9, <2>2 DEF PeriodicRefresh, InitPins
    <3> QED BY <3>1
  <2> QED BY <2>1, <2>2
<1> QED BY <1>1, <1>2, <1>3, <1>4, <1>5, <1>6, <1>7, <1>8, <1>9 DEF CtrlClock

\* Each clock brings a refresh that is due nearer.
LEMMA LeftFalls ==
  ASSUME Types, InitPins, AccessPins, Flags, Bounds, CtrlClock(cpu_in, DQ), ~Initialising
  PROVE  /\ ~Initialising' /\ Flags' /\ Bounds' /\ Left' \in Int /\ Left' <= Busy
         /\ Left \in Int /\ Left >= 1
         /\ refresh_pending /\ ~refresh_done /\ ~refresh_done' => Left' <= Left - 1
<1> USE Constants DEF Bounds, Types, Left, In, Steps, NoRefresh, Busily,
     ToAccess, ToBurst, ToClose, ToRefresh, Busy
<1>1. /\ refresh_counter' \in 0 .. REFRESH_PERIOD - 1 /\ refresh_pending' \in BOOLEAN
  BY SdramAssumption DEF CtrlClock, RefreshTimer
<1>2. Left \in Int /\ Left >= 1 OBVIOUS
<1> USE DEF Initialising, InitStates
<1> DEFINE Nearer == /\ Left' \in Int /\ Left' <= Busy
                     /\ refresh_pending /\ ~refresh_done /\ ~refresh_done' => Left' <= Left - 1
           G == ~Initialising' /\ Flags' /\ Bounds' /\ Nearer
<1>3. ASSUME Accepts PROVE G
  <2>1. Flags' BY <1>1, <1>3 DEF Accepts, Flags
  <2>2. ~Initialising' /\ Bounds' BY <1>1, <1>3 DEF Accepts
  <2>3. Nearer BY <1>1, <1>3 DEF Accepts
  <2> QED BY <2>1, <2>2, <2>3
<1>4. ASSUME Starts PROVE G
  <2>1. Flags' BY <1>1, <1>4 DEF Starts, Flags
  <2>2. ~Initialising' /\ Bounds' BY <1>1, <1>4 DEF Starts
  <2>3. Nearer BY <1>1, <1>4 DEF Starts
  <2> QED BY <2>1, <2>2, <2>3
<1>5. ASSUME Rests PROVE G
  <2>1. Flags' BY <1>1, <1>5 DEF Rests, Flags
  <2>2. ~Initialising' /\ Bounds' BY <1>1, <1>5 DEF Rests
  <2>3. Nearer BY <1>1, <1>5 DEF Rests
  <2> QED BY <2>1, <2>2, <2>3
<1>6. ASSUME Opens PROVE G
  <2>1. Flags' BY <1>1, <1>6 DEF Opens, Flags
  <2>2. ~Initialising' /\ Bounds' BY <1>1, <1>6 DEF Opens
  <2>3. Nearer BY <1>1, <1>6 DEF Opens
  <2> QED BY <2>1, <2>2, <2>3
<1>7. ASSUME Begins PROVE G
  <2>1. Flags' BY <1>1, <1>7 DEF Begins, Flags
  <2>2. ~Initialising' /\ Bounds' BY <1>1, <1>7 DEF Begins
  <2>3. Nearer BY <1>1, <1>7 DEF Begins
  <2> QED BY <2>1, <2>2, <2>3
<1>8. ASSUME Latency PROVE G
  <2>1. Flags' BY <1>1, <1>8 DEF Latency, Flags
  <2>2. ~Initialising' /\ Bounds' BY <1>1, <1>8 DEF Latency
  <2>3. Nearer BY <1>1, <1>8 DEF Latency
  <2> QED BY <2>1, <2>2, <2>3
<1>9. ASSUME Reads PROVE G
  <2>1. Flags' BY <1>1, <1>9 DEF Reads, Flags
  <2>2. ~Initialising' /\ Bounds' BY <1>1, <1>9 DEF Reads
  <2>3. Nearer BY <1>1, <1>9 DEF Reads
  <2> QED BY <2>1, <2>2, <2>3
<1>10. ASSUME Writes PROVE G
  <2>1. Flags' BY <1>1, <1>10 DEF Writes, Flags
  <2>2. ~Initialising' /\ Bounds' BY <1>1, <1>10 DEF Writes
  <2>3. Nearer BY <1>1, <1>10 DEF Writes
  <2> QED BY <2>1, <2>2, <2>3
<1>11. ASSUME Ends PROVE G
  <2>1. Flags' BY <1>1, <1>11 DEF Ends, Flags
  <2>2. ~Initialising' /\ Bounds' BY <1>1, <1>11 DEF Ends
  <2>3. Nearer BY <1>1, <1>11 DEF Ends
  <2> QED BY <2>1, <2>2, <2>3
<1>12. ASSUME Closes PROVE G
  <2>1. Flags' BY <1>1, <1>12 DEF Closes, Flags
  <2>2. ~Initialising' /\ Bounds' BY <1>1, <1>12 DEF Closes
  <2>3. Nearer BY <1>1, <1>12 DEF Closes
  <2> QED BY <2>1, <2>2, <2>3
<1>13. ASSUME IsClosed PROVE G
  <2>1. Flags' BY <1>1, <1>13 DEF IsClosed, Flags
  <2>2. ~Initialising' /\ Bounds' BY <1>1, <1>13 DEF IsClosed
  <2>3. Nearer BY <1>1, <1>13 DEF IsClosed
  <2> QED BY <2>1, <2>2, <2>3
<1>14. ASSUME Recovers PROVE G
  <2>1. Flags' BY <1>1, <1>14 DEF Recovers, Flags
  <2>2. ~Initialising' /\ Bounds' BY <1>1, <1>14 DEF Recovers
  <2>3. Nearer BY <1>1, <1>14 DEF Recovers
  <2> QED BY <2>1, <2>2, <2>3
<1>15. ASSUME Reports PROVE G
  <2>1. Flags' BY <1>1, <1>15 DEF Reports, Flags
  <2>2. ~Initialising' /\ Bounds' BY <1>1, <1>15 DEF Reports
  <2>3. Nearer BY <1>1, <1>15 DEF Reports
  <2> QED BY <2>1, <2>2, <2>3
<1> HIDE DEF G
<1>16. G BY ONLY TimerSteps, Types, InitPins, AccessPins, Flags, Bounds, CtrlClock(cpu_in, DQ), ~Initialising,
              <1>3, <1>4, <1>5, <1>6, <1>7, <1>8, <1>9, <1>10, <1>11, <1>12, <1>13, <1>14, <1>15
<1> QED BY <1>2, <1>16 DEF G

\* The initialisation: the timer runs with it, and ends it with room for an access.
LEMMA InitialisingStep ==
  ASSUME IInv, RefreshInv, CtrlClock(cpu_in, DQ), Initialising
  PROVE  /\ Flags' /\ Bounds' /\ Due' /\ Phase' /\ refresh_done' = FALSE
         /\ ~In("PERIODIC_REFRESH")'
<1> USE Constants DEF In, Initialising, InitStates, Goto, Issue, NoPulse, KeepPins, Waiting, addrPins,
     cpuRegs, burstRegs
<1>1. Types /\ Flags /\ Bounds /\ Phase BY DEF IInv, Pins, RefreshInv
<1>2. REFRESH_PERIOD \in Nat \ {0} BY SdramAssumption
<1>3. elapsed \in Nat /\ refresh_counter = elapsed % REFRESH_PERIOD
  BY <1>1 DEF elapsed, Types, Phase
<1>4. /\ refresh_counter' \in 0 .. REFRESH_PERIOD - 1 /\ refresh_pending' \in BOOLEAN
      /\ refresh_counter' = IF refresh_counter >= REFRESH_PERIOD - 1 THEN 0 ELSE refresh_counter + 1
  BY <1>1, <1>2 DEF CtrlClock, RefreshTimer, Flags, Bounds
<1>5. refresh_counter' = (elapsed + 1) % REFRESH_PERIOD
  <2>1. (elapsed + 1) % REFRESH_PERIOD
          = IF elapsed % REFRESH_PERIOD >= REFRESH_PERIOD - 1 THEN 0 ELSE (elapsed % REFRESH_PERIOD) + 1
    BY <1>2, <1>3, CountModulo
  <2> QED BY <1>3, <1>4, <2>1
<1>6. Initialise \/ Initialised
  BY DEF CtrlClock, Accept, StartRefresh, Idle, Activate, ReadBurst, WriteBurst, Precharge, PeriodicRefresh
<1>7. CASE Initialise
  <2>1. Initialising' /\ elapsed' = elapsed + 1 /\ mem_ready' = mem_ready /\ refresh_done' = FALSE
    BY <1>1, <1>7 DEF Initialise, InitStep, elapsed, Types
  <2>2. Bounds' BY <1>1, <1>4, <2>1 DEF Bounds
  <2>3. Flags' BY <1>1, <1>4, <2>1 DEF Flags
  <2>4. Due' BY <2>1 DEF Due
  <2>5. Phase' BY <1>5, <2>1 DEF Phase
  <2> QED BY <2>1, <2>2, <2>3, <2>4, <2>5
<1>8. CASE Initialised
  <2>1. /\ In("NORMAL_IDLE")' /\ mem_ready' = TRUE /\ refresh_done' = FALSE
        /\ elapsed = InitLength - 1 /\ InitLength \in Nat
    BY <1>8 DEF Initialised, elapsed, InitLength
  <2>2. refresh_counter' = InitLength % REFRESH_PERIOD BY <1>5, <2>1
  <2>3. Room(Busy)' BY <2>2, RefreshAssumption DEF Room, Busy, ToAccess, ToBurst, ToClose, ToRefresh
  <2>4. Bounds' BY <1>4, <2>1 DEF Bounds
  <2>5. Flags' BY <1>4, <2>1 DEF Flags
  <2>6. Due' BY <2>1, <2>3 DEF Due
  <2>7. Phase' BY <2>1 DEF Phase
  <2> QED BY <2>1, <2>4, <2>5, <2>6, <2>7
<1> QED BY <1>6, <1>7, <1>8

LEMMA NextRefresh ==
  ASSUME IInv, IInv', RefreshInv, Next
  PROVE  RefreshInv'
<1>1. CtrlClock(cpu_in, DQ) /\ Observe BY DEF Next
<1>2. Types /\ InitPins /\ AccessPins /\ Flags /\ Bounds /\ Owing /\ Types'
  BY DEF IInv, Pins, RefreshInv
<1>3. /\ refresh_counter' = IF refresh_counter >= REFRESH_PERIOD - 1 THEN 0 ELSE refresh_counter + 1
      /\ refresh_pending' = (refresh_counter >= REFRESH_PERIOD - 1 \/ (refresh_pending /\ ~refresh_done))
  BY <1>1 DEF CtrlClock, RefreshTimer
<1>4. CASE Initialising
  <2>1. /\ Flags' /\ Bounds' /\ Due' /\ Phase' /\ refresh_done' = FALSE /\ ~In("PERIODIC_REFRESH")'
    BY <1>1, <1>4, InitialisingStep
  <2>2. owed' = IF refresh_pending' THEN 1 ELSE 0
    BY <1>1, <1>4 DEF Observe, Initialising
  <2>3. Owing' BY <2>1, <2>2 DEF Owing
  <2> QED BY <2>1, <2>3 DEF RefreshInv
<1>5. CASE ~Initialising
  <2>1. /\ ~Initialising' /\ Flags' /\ Bounds' /\ Left' \in Int /\ Left' <= Busy
        /\ Left \in Int /\ Left >= 1
        /\ refresh_pending /\ ~refresh_done /\ ~refresh_done' => Left' <= Left - 1
    BY <1>1, <1>2, <1>5, LeftFalls
  <2>2. Phase' BY <2>1 DEF Phase
  <2>3. /\ REFRESH_PERIOD \in Nat \ {0} /\ Busy \in Nat /\ Busy <= REFRESH_PERIOD - 1
    <3>1. REFRESH_PERIOD \in Nat \ {0} /\ Busy \in Nat /\ InitLength \in Nat
      BY SdramAssumption DEF Busy, InitLength
    <3>2. InitLength % REFRESH_PERIOD >= 0 /\ InitLength % REFRESH_PERIOD \in Int BY <3>1
    <3> QED BY <3>1, <3>2, RefreshAssumption
  <2>4. refresh_pending /\ ~refresh_done => Room(Left)
    BY <1>2, <1>5, DueIsLeft DEF RefreshInv
  <2>5. refresh_counter \in 0 .. REFRESH_PERIOD - 1 BY <1>2 DEF Bounds
  <2>6. (refresh_pending /\ ~refresh_done => Room(Left))'
    <3>1. PICK m, n, b \in Int : m = Left /\ n = Left' /\ b = Busy BY <2>1, <2>3
    <3>2. /\ n <= b /\ b <= REFRESH_PERIOD - 1 /\ REFRESH_PERIOD \in Nat
          /\ m \in Int /\ n \in Int /\ b \in Int
      BY <2>1, <2>3, <3>1
    <3>3. CASE refresh_counter >= REFRESH_PERIOD - 1
      <4>1. refresh_counter' = 0 BY <1>3, <3>3
      <4>2. refresh_counter' + n <= REFRESH_PERIOD - 1 BY <3>2, <4>1
      <4> QED BY <3>1, <4>2 DEF Room
    <3>4. CASE ~(refresh_counter >= REFRESH_PERIOD - 1)
      <4>1. SUFFICES ASSUME refresh_pending', ~refresh_done' PROVE Room(Left)' OBVIOUS
      <4>2. refresh_counter' = refresh_counter + 1 BY <1>3, <3>4
      <4>3. refresh_pending /\ ~refresh_done BY <1>3, <3>4, <4>1
      <4>4. refresh_counter + m <= REFRESH_PERIOD - 1 BY <2>4, <3>1, <4>3 DEF Room
      <4>5. n <= m - 1 BY <2>1, <3>1, <3>2, <4>1, <4>3
      <4>6. refresh_counter' + n <= REFRESH_PERIOD - 1 BY <2>5, <3>2, <4>2, <4>4, <4>5
      <4> QED BY <3>1, <4>6 DEF Room
    <3> QED BY <3>3, <3>4
  <2>7. Due' BY <1>2, <2>1, <2>6 DEF Due, Left, Types, In, States, InitStates, Initialising
  <2>8. refresh_pending /\ ~refresh_done => refresh_counter < REFRESH_PERIOD - 1
    BY <2>1, <2>3, <2>4, <2>5 DEF Room
  <2>9. /\ In("PERIODIC_REFRESH") => ~refresh_done
        /\ owed \in {0, 1}
        /\ In("PERIODIC_REFRESH") \/ refresh_done => owed = 0 /\ refresh_pending
        /\ ~In("PERIODIC_REFRESH") /\ ~refresh_done => owed = IF refresh_pending THEN 1 ELSE 0
    BY <1>2 DEF Owing, In
  <2>10. owed' = IF refresh_counter >= REFRESH_PERIOD - 1
                 THEN (IF cmd' = "REF" THEN owed ELSE owed + 1)
                 ELSE (IF cmd' = "REF" THEN owed - 1 ELSE owed)
    BY <1>1, <1>5, <2>9 DEF Observe, Initialising
  <2>11. Owing'
    <3>1. CASE cmd' = "REF"
      <4>1. Starts BY <1>1, <1>2, <1>5, <3>1, TimerSteps
              DEF Accepts, Rests, Opens, Begins, Latency, Reads, Writes, Ends, Closes, IsClosed, Recovers,
                  Reports, NoRefresh, Busily
      <4>2. refresh_counter < REFRESH_PERIOD - 1 BY <2>8, <4>1 DEF Starts
      <4>3. owed = 1 BY <2>9, <4>1 DEF Starts, Steps, In
      <4>4. owed' = 0 BY <2>3, <2>5, <2>10, <3>1, <4>2, <4>3
      <4>5. refresh_pending' BY <1>3, <4>1 DEF Starts
      <4> QED BY <2>1, <4>1, <4>4, <4>5 DEF Owing, Starts, Steps, In
    <3>2. CASE cmd' # "REF" /\ In("PERIODIC_REFRESH")
      <4>1. Recovers \/ Reports BY <1>1, <1>2, <1>5, <3>2, TimerSteps
              DEF Accepts, Starts, Rests, Opens, Begins, Latency, Reads, Writes, Ends, Closes, IsClosed,
                  Steps, In
      <4>2. owed = 0 /\ refresh_pending /\ ~refresh_done BY <2>9, <3>2
      <4>3. owed' = 0 BY <2>3, <2>5, <2>8, <2>10, <3>2, <4>2
      <4>4. refresh_pending' BY <1>3, <4>2
      <4> QED BY <2>1, <4>1, <4>3, <4>4 DEF Owing, Recovers, Reports, Steps, In, Busily, NoRefresh
    <3>3. CASE cmd' # "REF" /\ ~In("PERIODIC_REFRESH")
      <4>1. ~In("PERIODIC_REFRESH")' /\ ~refresh_done'
        BY <1>1, <1>2, <1>5, <3>3, TimerSteps
        DEF Accepts, Starts, Rests, Opens, Begins, Latency, Reads, Writes, Ends, Closes, IsClosed,
            Recovers, Reports, NoRefresh, Busily, Steps, In
      <4>2. owed' = IF refresh_pending' THEN 1 ELSE 0
        <5>1. CASE refresh_counter >= REFRESH_PERIOD - 1
          <6>1. ~refresh_pending \/ refresh_done BY <2>3, <2>5, <2>8, <5>1
          <6>2. owed = 0 BY <2>9, <3>3, <6>1
          <6>3. owed' = 1 BY <2>10, <3>3, <5>1, <6>2
          <6>4. refresh_pending' BY <1>3, <5>1
          <6> QED BY <6>3, <6>4
        <5>2. CASE ~(refresh_counter >= REFRESH_PERIOD - 1)
          <6>1. owed' = owed BY <2>10, <3>3, <5>2
          <6>2. CASE refresh_done BY <1>3, <2>9, <5>2, <6>1, <6>2
          <6>3. CASE ~refresh_done BY <1>3, <2>9, <3>3, <5>2, <6>1, <6>3
          <6> QED BY <6>2, <6>3
        <5> QED BY <5>1, <5>2
      <4> QED BY <2>1, <4>1, <4>2 DEF Owing
    <3> QED BY <3>1, <3>2, <3>3
  <2> QED BY <2>1, <2>2, <2>7, <2>11 DEF RefreshInv
<1> QED BY <1>4, <1>5

LEMMA StutterRefresh == RefreshInv /\ UNCHANGED vars => RefreshInv'
BY DEF RefreshInv, vars, ctrlVars, deviceVars, addrPins, cpuRegs, burstRegs, Flags, Bounds, Due, Owing, Phase,
       Room, In, Initialising, elapsed

\* Every refresh period gets exactly one refresh, for all waits, burst lengths and periods in
\* which the longest access fits between the refresh and the next, and for every client.
THEOREM RefreshesKept == Spec => []OneRefreshPerPeriod
<1>1. Init => IInv /\ RefreshInv BY InitIInv, InitRefresh
<1>2. IInv /\ RefreshInv /\ [Next]_vars => (IInv /\ RefreshInv)'
  BY NextIInv, StutterIInv, NextRefresh, StutterRefresh
<1>3. RefreshInv => OneRefreshPerPeriod
  BY DEF RefreshInv, Owing, OneRefreshPerPeriod
<1> QED BY <1>1, <1>2, <1>3, PTL DEF Spec

-----------------------------------------------------------------------------
(* The block memory: the request in its burst, and the data on its way.     *)

\* The request being served, and how far its burst has come: the place in the block that the
\* chip reads or writes in this clock.
Serving      == In("ACTIVATE") \/ In("READ_BURST") \/ In("WRITE_BURST")
beat         == IF In("READ_BURST") THEN counter + burst_counter ELSE burst_counter - 1
cellOf(b, i) == <<b.bank, b.row, b.ucol * BURST_LEN + i>>
Value        == Half \union {None}

ChipTypes == /\ cells \in [Banks \X Rows \X Chip!Columns -> Value]
             /\ read_buffer \in [0 .. BURST_LEN - 1 -> Value]

\* The registers hold the request; its row is the one that is opened.
Held ==
  /\ Serving => /\ op \in Requests /\ op # None
                /\ mem_bank_select = op.block.bank /\ cpu_u_c_addr_reg = op.block.ucol
                /\ cpu_wr_reg = op.write /\ (op.write => cpu_data_in_reg = op.line)
  /\ ~Serving => op = None
  /\ In("READ_BURST") => op.write = FALSE
  /\ In("WRITE_BURST") => op.write = TRUE
  /\ In("ACTIVATE") /\ counter = 0 => mem_addr_in.row = op.block.row
  /\ Serving /\ RowOpen => open[mem_bank_select] = op.block.row

\* The chip counts the columns with the controller.
Aligned ==
  In("READ_BURST") \/ In("WRITE_BURST") =>
    /\ beat = 0 => mem_addr_in.col = op.block.ucol * BURST_LEN
    /\ beat \in 1 .. BURST_LEN - 1 =>
         burst.bank = op.block.bank /\ burst.col = op.block.ucol * BURST_LEN + beat

\* A read: what is on its way, on the bus, and in the buffer.
Fetched ==
  In("READ_BURST") =>
    /\ beat \in 1 .. BURST_LEN => pipe = cells[cellOf(op.block, beat - 1)]
    /\ beat >= 2 => DQ = cells[cellOf(op.block, beat - 2)]
    /\ \A i \in 0 .. burst_counter - 1 : read_buffer[i] = cells[cellOf(op.block, i)]

\* A write: what is on the bus, and in the chip.
Stored ==
  In("WRITE_BURST") =>
    /\ mem_data_oe /\ mem_data_in = op.line[beat]
    /\ \A i \in 0 .. beat - 1 : cells[cellOf(op.block, i)] = op.line[i]

DataInv == ChipTypes /\ Held /\ Aligned /\ Fetched /\ Stored

\* A place of a block is a column of its row, and no two places share one.
LEMMA CellInRange ==
  ASSUME NEW b \in Block, NEW i \in 0 .. BURST_LEN - 1
  PROVE  /\ b.ucol * BURST_LEN + i \in Chip!Columns
         /\ cellOf(b, i) \in Banks \X Rows \X Chip!Columns
<1>1. b.bank \in Banks /\ b.row \in Rows /\ b.ucol \in UCols BY DEF Block
<1>2. /\ b.ucol \in Nat /\ BURST_LEN \in Nat \ {0} /\ PAGE \in Nat
      /\ (b.ucol + 1) * BURST_LEN <= PAGE
  BY <1>1, SdramAssumption, TimingAssumption, GeometryAssumption
<1>3. PICK u \in Nat : u = b.ucol BY <1>2
<1>4. u * BURST_LEN \in Nat /\ (u + 1) * BURST_LEN = u * BURST_LEN + BURST_LEN BY <1>2
<1>5. u * BURST_LEN + i \in 0 .. PAGE - 1 BY <1>2, <1>3, <1>4
<1> QED BY <1>1, <1>3, <1>5 DEF cellOf, Chip!Columns

LEMMA CellsApart ==
  ASSUME NEW b \in Block, NEW c \in Block, NEW i \in 0 .. BURST_LEN - 1, NEW j \in 0 .. BURST_LEN - 1,
         cellOf(b, i) = cellOf(c, j)
  PROVE  b = c /\ i = j
<1>1. b.ucol \in Nat /\ c.ucol \in Nat /\ BURST_LEN \in Nat \ {0}
  BY SdramAssumption DEF Block
<1>2. /\ b.bank = c.bank /\ b.row = c.row
      /\ b.ucol * BURST_LEN + i = c.ucol * BURST_LEN + j
  BY DEF cellOf
<1>3. PICK u, v \in Nat : u = b.ucol /\ v = c.ucol BY <1>1
<1>4. u * BURST_LEN + i = v * BURST_LEN + j BY <1>2, <1>3
<1>5. u = v /\ i = j BY <1>1, <1>4
<1>6. \A d \in Block : d = [bank |-> d.bank, row |-> d.row, ucol |-> d.ucol] BY DEF Block
<1> QED BY <1>2, <1>3, <1>5, <1>6

\* An activation opens the row on the pins; then it stays open until the precharge.
LEMMA RowsAfter ==
  ASSUME IInv, ChipClock
  PROVE  /\ In("ACTIVATE") /\ counter = 0 => open' = [open EXCEPT ![mem_bank_select] = mem_addr_in.row]
         /\ (In("ACTIVATE") /\ counter # 0) \/ In("READ_BURST") \/ In("WRITE_BURST") => open' = open
<1>1. open' = IF cmd = "ACT" THEN [open EXCEPT ![mem_bank_select] = mem_addr_in.row]
              ELSE IF cmd = "PRE" /\ Chip!closesAll(mem_addr_in) THEN [b \in Banks |-> None]
              ELSE IF cmd = "PRE" THEN [open EXCEPT ![mem_bank_select] = None]
              ELSE open
  BY DEF ChipClock, Chip!DeviceClock
<1>2. /\ In("ACTIVATE") /\ counter = 0 => cmd = "ACT"
      /\ (In("ACTIVATE") /\ counter # 0) \/ In("READ_BURST") \/ In("WRITE_BURST") =>
           cmd # "ACT" /\ cmd # "PRE"
  BY DEF IInv, Pins, In, AccessPins
<1>3. cmd = "ACT" => open' = [open EXCEPT ![mem_bank_select] = mem_addr_in.row] BY <1>1
<1>4. cmd # "ACT" /\ cmd # "PRE" => open' = open BY <1>1
<1> QED BY <1>2, <1>3, <1>4

\* What the data of the chip does in a clock.
LEMMA DataAfter ==
  ASSUME IInv, Bounds, DataInv, ChipClock
  PROVE  /\ In("WRITE_BURST") =>
              cells' = [cells EXCEPT ![cellOf(op.block, beat)] = op.line[beat]]
         /\ ~In("WRITE_BURST") => cells' = cells
         /\ DQ' = pipe
         /\ In("READ_BURST") /\ beat \in 0 .. BURST_LEN - 1 => pipe' = cells[cellOf(op.block, beat)]
         /\ In("READ_BURST") \/ In("WRITE_BURST") =>
              (beat \in 0 .. BURST_LEN - 2 =>
                burst'.bank = op.block.bank /\ burst'.col = op.block.ucol * BURST_LEN + (beat + 1))
<1>1. /\ burst' = IF now = None THEN None ELSE [now EXCEPT !.col = (@ + 1) % PAGE]
      /\ cells' = IF now # None /\ now.op = "WRITE" /\ open[now.bank] # None
                  THEN [cells EXCEPT ![<<now.bank, open[now.bank], now.col>>] =
                          IF mem_data_oe THEN mem_data_in ELSE None]
                  ELSE cells
      /\ pipe' = IF now # None /\ now.op = "READ" /\ open[now.bank] # None
                 THEN cells[<<now.bank, open[now.bank], now.col>>] ELSE None
      /\ DQ' = pipe
  BY DEF ChipClock, Chip!DeviceClock, now
<1>2. now = IF cmd \in {"READ", "WRITE"}
            THEN [op |-> cmd, bank |-> mem_bank_select, col |-> mem_addr_in.col]
            ELSE IF cmd \in {"BST", "PRE"} THEN None ELSE burst
  BY DEF now, Chip!running
<1>3. /\ Types /\ AccessPins /\ OpenRows /\ RunningBursts
      /\ ChipTypes /\ Held /\ Aligned /\ Fetched /\ Stored
  BY DEF IInv, Pins, DataInv
<1>4. writes <=> In("WRITE_BURST") BY ChipAfter
<1>5. /\ BURST_LEN \in Nat /\ BURST_LEN >= 2 /\ PAGE \in Nat \ {0} /\ tCAS = 2 /\ None \notin Chip!Bursts
  BY Constants, GeometryAssumption, TimingAssumption
\* The burst that runs is the one of the request, at its beat.
<1>6. ASSUME In("READ_BURST") \/ In("WRITE_BURST"), beat \in 0 .. BURST_LEN - 1
      PROVE  /\ now # None /\ now.op = IF In("READ_BURST") THEN "READ" ELSE "WRITE"
             /\ now.bank = op.block.bank /\ now.col = op.block.ucol * BURST_LEN + beat
             /\ now \in Chip!Bursts
             /\ open[now.bank] # None /\ open[now.bank] = op.block.row
  <2>1. /\ op \in Requests /\ mem_bank_select = op.block.bank /\ open[mem_bank_select] = op.block.row
    BY <1>3, <1>6 DEF Held, Serving, RowOpen
  <2>2. op.block \in Block BY <2>1 DEF Requests
  <2>3. open[mem_bank_select] # None BY <2>1, <2>2, TimingAssumption DEF Block
  <2>4. op.block.ucol * BURST_LEN \in Nat
    <3>1. op.block.ucol \in Nat BY <2>2, SdramAssumption DEF Block
    <3> QED BY <1>5, <3>1
  <2>5. CASE beat = 0
    <3>1. cmd = IF In("READ_BURST") THEN "READ" ELSE "WRITE"
      BY <1>3, <1>5, <1>6, <2>5 DEF beat, In, AccessPins, Types, Bounds
    <3>2. mem_addr_in.col = op.block.ucol * BURST_LEN BY <1>3, <1>6, <2>5 DEF Aligned
    <3> QED BY <1>2, <1>5, <2>1, <2>2, <2>3, <2>4, <2>5, <3>1, <3>2, <1>6
            DEF Chip!Bursts, Block, In
  <2>6. CASE beat # 0
    <3>1. burst.bank = op.block.bank /\ burst.col = op.block.ucol * BURST_LEN + beat
      BY <1>3, <1>5, <1>6, <2>6 DEF Aligned
    <3>2. cmd \notin {"READ", "WRITE", "BST", "PRE"} /\ (Reading \/ Writing)
      BY <1>3, <1>5, <1>6, <2>6 DEF beat, In, AccessPins, Types, Bounds, Reading, Writing
    <3>3. burst \in Chip!Bursts /\ burst.op = IF In("READ_BURST") THEN "READ" ELSE "WRITE"
      BY <1>3, <1>6, <3>2 DEF RunningBursts, Running, Reading, Writing, In
    <3> QED BY <1>2, <1>5, <2>1, <2>3, <3>1, <3>2, <3>3
  <2> QED BY <2>5, <2>6
<1>7. In("WRITE_BURST") => beat \in 0 .. BURST_LEN - 1
  BY <1>3, <1>5 DEF In, beat, AccessPins, Types, Bounds
<1>8. In("WRITE_BURST") => cells' = [cells EXCEPT ![cellOf(op.block, beat)] = op.line[beat]]
  BY <1>1, <1>3, <1>6, <1>7 DEF cellOf, Stored, In
<1>9. ~In("WRITE_BURST") => cells' = cells BY <1>1, <1>4 DEF writes
<1>10. In("READ_BURST") /\ beat \in 0 .. BURST_LEN - 1 => pipe' = cells[cellOf(op.block, beat)]
  BY <1>1, <1>6 DEF cellOf, In
<1>11. ASSUME In("READ_BURST") \/ In("WRITE_BURST"), beat \in 0 .. BURST_LEN - 2
       PROVE  burst'.bank = op.block.bank /\ burst'.col = op.block.ucol * BURST_LEN + (beat + 1)
  <2>1. beat \in 0 .. BURST_LEN - 1 /\ beat + 1 \in 0 .. BURST_LEN - 1 /\ beat \in Nat BY <1>5, <1>11
  <2>2. op.block \in Block BY <1>3, <1>11 DEF Held, Serving, Requests
  <2>3. op.block.ucol * BURST_LEN + (beat + 1) \in 0 .. PAGE - 1
    BY <2>1, <2>2, CellInRange DEF Chip!Columns
  <2>4. op.block.ucol * BURST_LEN \in Nat
    <3>1. op.block.ucol \in Nat BY <2>2, SdramAssumption DEF Block
    <3> QED BY <1>5, <3>1
  <2>5. burst' = [now EXCEPT !.col = (now.col + 1) % PAGE] BY <1>1, <1>6, <1>11, <2>1
  <2>6. now.bank = op.block.bank /\ now.col + 1 = op.block.ucol * BURST_LEN + (beat + 1) /\ now \in Chip!Bursts
    BY <1>6, <1>11, <2>1, <2>4
  <2>7. PICK c \in 0 .. PAGE - 1 : c = now.col + 1 BY <2>3, <2>6
  <2>8. c % PAGE = c BY <1>5
  <2> QED BY <2>5, <2>6, <2>7, <2>8 DEF Chip!Bursts
<1> QED BY <1>1, <1>8, <1>9, <1>10, <1>11

\* The invariant of the data holds first, and through every clock.
LEMMA InitData == Init => DataInv
<1> SUFFICES ASSUME Init PROVE DataInv OBVIOUS
<1> USE DEF Init, CtrlInit, In
<1>1. ChipTypes BY DEF ChipTypes, Chip!DeviceInit, Value
<1>2. Held BY DEF Held, Serving
<1>3. Aligned /\ Fetched /\ Stored BY DEF Aligned, Fetched, Stored
<1> QED BY <1>1, <1>2, <1>3 DEF DataInv

LEMMA NextData ==
  ASSUME IInv, IInv', Bounds, Bounds', DataInv, Next
  PROVE  DataInv'
<1> USE Constants DEF In, Goto, Issue, NoPulse, KeepPins, Waiting, addrPins, cpuRegs, burstRegs
<1>1. ChipClock /\ CtrlClock(cpu_in, DQ) /\ Observe BY DEF Next, ChipClock
<1>2. /\ Types /\ InitPins /\ AccessPins /\ Bounds
      /\ ChipTypes /\ Held /\ Aligned /\ Fetched /\ Stored
  BY DEF IInv, Pins, DataInv
<1>3. /\ In("WRITE_BURST") => cells' = [cells EXCEPT ![cellOf(op.block, beat)] = op.line[beat]]
      /\ ~In("WRITE_BURST") => cells' = cells
      /\ DQ' = pipe
      /\ In("READ_BURST") /\ beat \in 0 .. BURST_LEN - 1 => pipe' = cells[cellOf(op.block, beat)]
      /\ In("READ_BURST") \/ In("WRITE_BURST") =>
           (beat \in 0 .. BURST_LEN - 2 =>
             burst'.bank = op.block.bank /\ burst'.col = op.block.ucol * BURST_LEN + (beat + 1))
  BY <1>1, <1>2, DataAfter
<1>4. op' = IF taken THEN cpu_in ELSE IF current_state' = "PRECHARGE" THEN None ELSE op
  BY <1>1 DEF Observe
<1>5. /\ BURST_LEN \in Nat /\ BURST_LEN >= 2 /\ tCAS = 2 /\ tRCD \in Nat
  BY GeometryAssumption
<1>6. taken <=> Accept(cpu_in)
  <2>1. taken => In("NORMAL_IDLE") BY <1>2 DEF taken, Bounds
  <2>2. taken => Accept(cpu_in)
    BY <1>1, <2>1 DEF CtrlClock, Initialise, InitStep, Initialised, StartRefresh, Idle, Activate, ReadBurst,
       WriteBurst, Precharge, PeriodicRefresh, taken
  <2> QED BY <2>2 DEF Accept, taken
\* A request is taken.
<1>7. CASE Accept(cpu_in)
  <2>1. /\ In("NORMAL_IDLE") /\ In("ACTIVATE")' /\ counter' = 0 /\ cells' = cells /\ op' = cpu_in
        /\ mem_bank_select' = cpu_in.block.bank /\ mem_addr_in' = [row |-> cpu_in.block.row]
        /\ cpu_u_c_addr_reg' = cpu_in.block.ucol /\ cpu_wr_reg' = cpu_in.write
        /\ cpu_data_in_reg' = IF cpu_in.write THEN cpu_in.line ELSE None
        /\ read_buffer' = read_buffer /\ cpu_in \in Requests /\ cpu_in # None
    BY <1>2, <1>3, <1>4, <1>6, <1>7 DEF Accept, Types
  <2>2. ChipTypes' BY <1>2, <2>1 DEF ChipTypes
  <2>3. Held' BY <2>1 DEF Held, Serving, RowOpen
  <2>4. Aligned' /\ Fetched' /\ Stored' BY <2>1 DEF Aligned, Fetched, Stored
  <2> QED BY <2>2, <2>3, <2>4 DEF DataInv
\* The row is opened, and the burst begun.
<1>8. CASE Activate
  <2>1. /\ op' = op /\ op \in Requests /\ op # None /\ mem_bank_select = op.block.bank
        /\ cpu_u_c_addr_reg = op.block.ucol
        /\ cpu_wr_reg = op.write /\ (op.write => cpu_data_in_reg = op.line)
        /\ cells' = cells /\ burst_counter = 0 /\ In("ACTIVATE")
        /\ counter = 0 => mem_addr_in.row = op.block.row
        /\ counter # 0 => open[mem_bank_select] = op.block.row
        /\ read_buffer' = read_buffer
    BY <1>2, <1>3, <1>4, <1>6, <1>8 DEF Activate, Held, Serving, RowOpen, AccessPins, Accept
  <2>2. ChipTypes' BY <1>2, <2>1 DEF ChipTypes
  <2>3. mem_bank_select' = mem_bank_select /\ open'[mem_bank_select] = op.block.row
    <3>1. open \in [Banks -> Rows \union {None}] /\ mem_bank_select \in Banks
      BY <1>2 DEF IInv, OpenRows, Types
    <3>2. mem_bank_select' = mem_bank_select BY <1>8 DEF Activate
    <3>3. CASE counter = 0
      <4>1. open' = [open EXCEPT ![mem_bank_select] = mem_addr_in.row] BY <1>1, <2>1, <3>3, RowsAfter
      <4> QED BY <2>1, <3>1, <3>2, <3>3, <4>1
    <3>4. CASE counter # 0
      <4>1. open' = open BY <1>1, <2>1, <3>4, RowsAfter
      <4> QED BY <2>1, <3>2, <3>4, <4>1
    <3> QED BY <3>3, <3>4
  <2>4. CASE Waiting(tRCD)
    <3>1. /\ In("ACTIVATE")' /\ counter' # 0
          /\ cpu_u_c_addr_reg' = cpu_u_c_addr_reg /\ cpu_wr_reg' = cpu_wr_reg
          /\ cpu_data_in_reg' = cpu_data_in_reg
      BY <1>2, <2>1, <2>4 DEF Types
    <3>2. Held' BY <2>1, <2>3, <3>1 DEF Held, Serving, RowOpen
    <3>3. Aligned' /\ Fetched' /\ Stored' BY <3>1 DEF Aligned, Fetched, Stored
    <3> QED BY <2>2, <3>2, <3>3 DEF DataInv
  <2>5. CASE ~Waiting(tRCD)
    <3>1. /\ counter' = 0 /\ cpu_u_c_addr_reg' = cpu_u_c_addr_reg /\ cpu_wr_reg' = cpu_wr_reg
          /\ cpu_data_in_reg' = cpu_data_in_reg
          /\ mem_addr_in' = [col |-> op.block.ucol * BURST_LEN]
      BY <1>8, <2>1, <2>5 DEF Activate
    <3>2. \/ /\ op.write = TRUE /\ In("WRITE_BURST")' /\ burst_counter' = 1
             /\ mem_data_in' = op.line[0] /\ mem_data_oe' = TRUE
          \/ op.write = FALSE /\ In("READ_BURST")' /\ burst_counter' = 0
      BY <1>8, <2>1, <2>5 DEF Activate, Requests
    <3>3. beat' = 0 BY <3>1, <3>2 DEF beat
    <3>4. Held' BY <2>1, <2>3, <3>1, <3>2 DEF Held, Serving
    <3>5. Aligned' BY <1>5, <2>1, <3>1, <3>3 DEF Aligned
    <3>6. Fetched' BY <1>5, <3>2, <3>3 DEF Fetched
    <3>7. Stored' BY <2>1, <3>2, <3>3 DEF Stored
    <3> QED BY <2>2, <3>4, <3>5, <3>6, <3>7 DEF DataInv
  <2> QED BY <2>4, <2>5
\* A halfword of a read.
<1>9. CASE ReadBurst(DQ)
  <2>1. /\ In("READ_BURST") /\ op \in Requests /\ op # None /\ op.write = FALSE /\ op.block \in Block
        /\ cells' = cells /\ open' = open /\ mem_bank_select' = mem_bank_select
        /\ UNCHANGED <<cpu_u_c_addr_reg, cpu_wr_reg, cpu_data_in_reg>>
        /\ beat = counter + burst_counter /\ beat \in 0 .. BURST_LEN + 1
        /\ burst_counter \in 0 .. BURST_LEN - 1 /\ counter \in 0 .. 2
        /\ (counter # tCAS => burst_counter = 0)
        /\ ~taken
    <3>1. /\ In("READ_BURST") /\ mem_bank_select' = mem_bank_select /\ ~taken
          /\ UNCHANGED <<cpu_u_c_addr_reg, cpu_wr_reg, cpu_data_in_reg>>
      BY <1>6, <1>9 DEF ReadBurst, Accept
    <3>2. op \in Requests /\ op # None /\ op.write = FALSE /\ cells' = cells BY <1>2, <1>3, <3>1 DEF Held, Serving
    <3>3. op.block \in Block BY <3>2 DEF Requests
    <3>4. open' = open BY <1>1, <3>1, RowsAfter
    <3>5. /\ counter \in 0 .. 2 /\ burst_counter \in 0 .. BURST_LEN - 1 /\ (counter # tCAS => burst_counter = 0)
          /\ beat = counter + burst_counter
      BY <1>2, <1>5, <3>1 DEF AccessPins, Types, Bounds, beat
    <3> QED BY <1>5, <3>1, <3>2, <3>3, <3>4, <3>5
  <2>2. counter = tCAS => read_buffer' = [read_buffer EXCEPT ![burst_counter] = cells[cellOf(op.block, burst_counter)]]
    <3>1. counter = tCAS => DQ = cells[cellOf(op.block, beat - 2)] /\ beat - 2 = burst_counter
      BY <1>2, <1>5, <2>1 DEF Fetched
    <3> QED BY <1>9, <3>1 DEF ReadBurst
  <2>3. ChipTypes'
    <3>1. cells[cellOf(op.block, burst_counter)] \in Value
      BY <1>2, <2>1, CellInRange DEF ChipTypes
    <3>2. counter # tCAS => read_buffer' = read_buffer BY <1>9 DEF ReadBurst
    <3> QED BY <1>2, <2>1, <2>2, <3>1, <3>2 DEF ChipTypes
  <2>4. CASE counter = tCAS /\ burst_counter = BURST_LEN - 1
    <3>1. current_state' = "PRECHARGE" BY <1>9, <2>4 DEF ReadBurst
    <3>2. ~Serving' /\ op' = None BY <1>4, <2>1, <3>1 DEF Serving
    <3> QED BY <2>3, <3>1, <3>2 DEF DataInv, Held, Aligned, Fetched, Stored, Serving
  <2>5. CASE ~(counter = tCAS /\ burst_counter = BURST_LEN - 1)
    <3>1. In("READ_BURST")' /\ op' = op BY <1>4, <1>9, <2>1, <2>5 DEF ReadBurst
    <3>2. \/ counter # tCAS /\ counter' = counter + 1 /\ burst_counter' = burst_counter /\ read_buffer' = read_buffer
          \/ counter = tCAS /\ counter' = counter /\ burst_counter' = burst_counter + 1
      BY <1>9, <2>5 DEF ReadBurst
    <3>3. beat' = beat + 1 /\ beat \in 0 .. BURST_LEN
      BY <1>2, <1>5, <2>1, <2>5, <3>1, <3>2 DEF beat, Types, Bounds
    <3>4. Held' BY <1>2, <2>1, <3>1 DEF Held, Serving, RowOpen
    <3>5. Aligned' BY <1>3, <1>5, <2>1, <3>1, <3>3 DEF Aligned
    <3>6. beat' \in 1 .. BURST_LEN => pipe' = cells[cellOf(op.block, beat' - 1)]
      <4>1. beat' \in 1 .. BURST_LEN => beat \in 0 .. BURST_LEN - 1 /\ beat' - 1 = beat BY <1>5, <3>3
      <4> QED BY <1>3, <2>1, <4>1
    <3>7. beat' >= 2 => DQ' = cells[cellOf(op.block, beat' - 2)]
      <4>1. beat' >= 2 => beat \in 1 .. BURST_LEN /\ beat' - 2 = beat - 1 BY <1>5, <3>3
      <4> QED BY <1>2, <1>3, <2>1, <4>1 DEF Fetched
    <3>8. \A i \in 0 .. burst_counter' - 1 : read_buffer'[i] = cells[cellOf(op.block, i)]
      <4>1. CASE counter # tCAS BY <1>2, <2>1, <3>2, <4>1 DEF Fetched
      <4>2. CASE counter = tCAS
        <5>1. SUFFICES ASSUME NEW i \in 0 .. burst_counter' - 1
                       PROVE  read_buffer'[i] = cells[cellOf(op.block, i)]
          OBVIOUS
        <5>2. i \in 0 .. burst_counter /\ burst_counter \in 0 .. BURST_LEN - 1 BY <2>1, <3>2, <4>2
        <5>3. i # burst_counter => read_buffer[i] = cells[cellOf(op.block, i)] BY <1>2, <2>1, <5>2 DEF Fetched
        <5>4. read_buffer'[i] = IF i = burst_counter THEN cells[cellOf(op.block, burst_counter)] ELSE read_buffer[i]
          <6>1. read_buffer' = [read_buffer EXCEPT ![burst_counter] = cells[cellOf(op.block, burst_counter)]]
            BY <2>2, <4>2
          <6>2. DOMAIN read_buffer = 0 .. BURST_LEN - 1 BY <1>2 DEF ChipTypes
          <6>3. i \in 0 .. BURST_LEN - 1 BY <1>5, <5>2
          <6> QED BY <6>1, <6>2, <6>3
        <5> QED BY <5>3, <5>4
      <4> QED BY <4>1, <4>2
    <3>9. Fetched' BY <2>1, <3>1, <3>6, <3>7, <3>8 DEF Fetched, cellOf
    <3>10. Stored' BY <3>1 DEF Stored
    <3> QED BY <2>3, <3>4, <3>5, <3>9, <3>10 DEF DataInv
  <2> QED BY <2>4, <2>5
\* A halfword of a write.
<1>10. CASE WriteBurst
  <2>1. /\ In("WRITE_BURST") /\ op \in Requests /\ op # None /\ op.write = TRUE /\ op.block \in Block
        /\ open' = open /\ mem_bank_select' = mem_bank_select /\ cpu_data_in_reg = op.line
        /\ UNCHANGED <<cpu_u_c_addr_reg, cpu_wr_reg, cpu_data_in_reg>>
        /\ beat = burst_counter - 1 /\ beat \in 0 .. BURST_LEN - 1 /\ read_buffer' = read_buffer
        /\ ~taken
    <3>1. /\ In("WRITE_BURST") /\ mem_bank_select' = mem_bank_select /\ ~taken
          /\ UNCHANGED <<cpu_u_c_addr_reg, cpu_wr_reg, cpu_data_in_reg, read_buffer>>
      BY <1>6, <1>10 DEF WriteBurst, Accept
    <3>2. op \in Requests /\ op # None /\ op.write = TRUE /\ cpu_data_in_reg = op.line BY <1>2, <3>1 DEF Held, Serving
    <3>3. op.block \in Block BY <3>2 DEF Requests
    <3>4. open' = open BY <1>1, <3>1, RowsAfter
    <3>5. burst_counter \in 1 .. BURST_LEN /\ beat = burst_counter - 1
      BY <1>2, <3>1 DEF AccessPins, Types, Bounds, beat
    <3> QED BY <1>5, <3>1, <3>2, <3>3, <3>4, <3>5
  <2>2. op.line \in [0 .. BURST_LEN - 1 -> Half] BY <2>1, GeometryAssumption DEF Requests, Line
  <2>3. cells' = [cells EXCEPT ![cellOf(op.block, beat)] = op.line[beat]] BY <1>3, <2>1
  <2>4. ChipTypes' BY <1>2, <2>1, <2>2, <2>3 DEF ChipTypes, Value
  <2>5. \A i \in 0 .. beat : cells'[cellOf(op.block, i)] = op.line[i]
    <3>1. SUFFICES ASSUME NEW i \in 0 .. beat PROVE cells'[cellOf(op.block, i)] = op.line[i] OBVIOUS
    <3>2. i \in 0 .. BURST_LEN - 1 BY <1>5, <2>1
    <3>3. cellOf(op.block, i) \in DOMAIN cells BY <1>2, <2>1, <3>2, CellInRange DEF ChipTypes
    <3>4. CASE i = beat BY <2>3, <3>3, <3>4
    <3>5. CASE i # beat
      <4>1. cellOf(op.block, i) # cellOf(op.block, beat) BY <2>1, <3>2, <3>5, CellsApart
      <4>2. i \in 0 .. beat - 1 BY <2>1, <3>5
      <4>3. cells[cellOf(op.block, i)] = op.line[i] BY <1>2, <2>1, <4>2 DEF Stored
      <4> QED BY <2>3, <3>3, <4>1, <4>3
    <3> QED BY <3>4, <3>5
  <2>6. CASE burst_counter = BURST_LEN
    <3>1. current_state' = "PRECHARGE" BY <1>10, <2>6 DEF WriteBurst
    <3>2. ~Serving' /\ op' = None BY <1>4, <2>1, <3>1 DEF Serving
    <3> QED BY <2>4, <3>1, <3>2 DEF DataInv, Held, Aligned, Fetched, Stored, Serving
  <2>7. CASE burst_counter # BURST_LEN
    <3>1. /\ In("WRITE_BURST")' /\ op' = op /\ burst_counter' = burst_counter + 1
          /\ mem_data_in' = op.line[burst_counter] /\ mem_data_oe' = TRUE
      BY <1>4, <1>10, <2>1, <2>7 DEF WriteBurst
    <3>2. beat' = beat + 1 /\ beat' = burst_counter /\ beat \in 0 .. BURST_LEN - 2 /\ beat' - 1 = beat
      BY <1>2, <1>5, <2>1, <2>7, <3>1 DEF beat, Types
    <3>3. Held' BY <1>2, <2>1, <3>1 DEF Held, Serving, RowOpen
    <3>4. Aligned' BY <1>3, <1>5, <2>1, <3>1, <3>2 DEF Aligned
    <3>5. Fetched' BY <3>1 DEF Fetched
    <3>6. Stored' BY <2>5, <3>1, <3>2 DEF Stored, cellOf
    <3> QED BY <2>4, <3>3, <3>4, <3>5, <3>6 DEF DataInv
  <2> QED BY <2>6, <2>7
\* Everything else.
<1>11. CASE ~Accept(cpu_in) /\ ~Activate /\ ~ReadBurst(DQ) /\ ~WriteBurst
  <2>1. ~Serving /\ ~Serving' /\ read_buffer' = read_buffer
    BY <1>1, <1>11 DEF Serving, CtrlClock, Initialise, InitStep, Initialised, StartRefresh, Idle, Precharge,
       PeriodicRefresh
  <2>2. op' = None BY <1>2, <1>4, <1>6, <1>11, <2>1 DEF Held
  <2>3. cells' = cells BY <1>3, <2>1 DEF Serving
  <2>4. ChipTypes' BY <1>2, <2>1, <2>3 DEF ChipTypes
  <2>5. Held' /\ Aligned' /\ Fetched' /\ Stored' BY <2>1, <2>2 DEF Held, Aligned, Fetched, Stored, Serving
  <2> QED BY <2>4, <2>5 DEF DataInv
<1> QED BY <1>7, <1>8, <1>9, <1>10, <1>11

LEMMA StutterData == DataInv /\ UNCHANGED vars => DataInv'
BY DEF DataInv, vars, ctrlVars, deviceVars, addrPins, cpuRegs, burstRegs, ChipTypes, Held, Aligned, Fetched,
       Stored, Serving, RowOpen, beat, cellOf, In

\* The array behind the port, and what a clock does to it.
LEMMA StoredStays ==
  ASSUME NEW b \in Block, cells' = cells
  PROVE  stored(b)' = stored(b)
BY DEF stored

\* The end of a burst: the buffer holds the block, or the chip holds the line.
LEMMA ReadDone ==
  ASSUME IInv, Bounds, DataInv, Next, In("READ_BURST"), current_state' = "PRECHARGE"
  PROVE  /\ op \in Requests /\ op # None /\ op.write = FALSE /\ op' = None /\ data_out_valid' = TRUE
         /\ cells' = cells /\ mem_ready' = mem_ready
         /\ read_buffer' = stored(op.block)
<1>1. /\ ChipClock /\ CtrlClock(cpu_in, DQ) /\ Observe BY DEF Next, ChipClock
<1>2. /\ Types /\ AccessPins /\ ChipTypes /\ Held /\ Fetched BY DEF IInv, Pins, DataInv
<1>3. /\ BURST_LEN \in Nat /\ BURST_LEN >= 2 /\ tCAS = 2 BY Constants, GeometryAssumption
<1>4. ReadBurst(DQ)
  BY <1>1 DEF CtrlClock, Initialise, InitStep, Initialised, Accept, StartRefresh, Idle, Activate, WriteBurst,
     Precharge, PeriodicRefresh, In
<1>5. /\ counter = tCAS /\ burst_counter = BURST_LEN - 1 /\ data_out_valid' = TRUE /\ mem_ready' = mem_ready
      /\ read_buffer' = [read_buffer EXCEPT ![burst_counter] = DQ]
  BY <1>4 DEF ReadBurst, Waiting
<1>6. op \in Requests /\ op # None /\ op.write = FALSE /\ cells' = cells /\ DQ = cells[cellOf(op.block, burst_counter)]
  <2>1. beat - 2 = burst_counter /\ beat >= 2 BY <1>3, <1>5 DEF beat
  <2> QED BY <1>1, <1>2, <2>1, DataAfter DEF Held, Serving, Fetched, In
<1>7. op' = None
  <2>1. ~taken BY DEF taken, Bounds, In
  <2> QED BY <1>1, <2>1 DEF Observe
<1>8. read_buffer' = [i \in 0 .. BURST_LEN - 1 |-> cells[cellOf(op.block, i)]]
  <2>1. \A i \in 0 .. BURST_LEN - 2 : read_buffer[i] = cells[cellOf(op.block, i)]
    BY <1>2, <1>3, <1>5 DEF Fetched
  <2>2. \A i \in 0 .. BURST_LEN - 1 : read_buffer'[i] = cells[cellOf(op.block, i)]
    BY <1>2, <1>3, <1>5, <1>6, <2>1 DEF ChipTypes
  <2>3. read_buffer' \in [0 .. BURST_LEN - 1 -> {read_buffer'[i] : i \in 0 .. BURST_LEN - 1}]
    BY <1>2, <1>3, <1>5 DEF ChipTypes
  <2> QED BY <2>2, <2>3
<1> QED BY <1>5, <1>6, <1>7, <1>8 DEF stored, cellOf

LEMMA WriteStep ==
  ASSUME IInv, Bounds, DataInv, Next, In("WRITE_BURST"), NEW b \in Block
  PROVE  /\ op \in Requests /\ op # None /\ op.write = TRUE /\ data_out_valid' = FALSE /\ mem_ready' = mem_ready
         /\ b # op.block => stored(b)' = stored(b)
         /\ current_state' = "PRECHARGE" /\ b = op.block => stored(b)' = op.line
         /\ op' = IF current_state' = "PRECHARGE" THEN None ELSE op
<1>1. /\ ChipClock /\ CtrlClock(cpu_in, DQ) /\ Observe BY DEF Next, ChipClock
<1>2. /\ Types /\ AccessPins /\ ChipTypes /\ Held /\ Stored BY DEF IInv, Pins, DataInv
<1>3. /\ BURST_LEN \in Nat /\ BURST_LEN >= 2 BY Constants
<1>4. WriteBurst
  BY <1>1 DEF CtrlClock, Initialise, InitStep, Initialised, Accept, StartRefresh, Idle, Activate, ReadBurst,
     Precharge, PeriodicRefresh, In
<1>5. /\ data_out_valid' = FALSE /\ mem_ready' = mem_ready
      /\ current_state' = "PRECHARGE" => burst_counter = BURST_LEN
  BY <1>4 DEF WriteBurst, NoPulse
<1>6. /\ op \in Requests /\ op # None /\ op.write = TRUE /\ op.block \in Block
      /\ beat \in 0 .. BURST_LEN - 1 /\ beat = burst_counter - 1
  <2>1. op \in Requests /\ op # None /\ op.write = TRUE BY <1>2 DEF Held, Serving
  <2>2. op.block \in Block BY <2>1 DEF Requests
  <2>3. beat \in 0 .. BURST_LEN - 1 /\ beat = burst_counter - 1
    BY <1>2, <1>3 DEF beat, In, AccessPins, Types, Bounds
  <2> QED BY <2>1, <2>2, <2>3
<1>7. cells' = [cells EXCEPT ![cellOf(op.block, beat)] = op.line[beat]] BY <1>1, DataAfter
<1>8. op' = IF current_state' = "PRECHARGE" THEN None ELSE op
  <2>1. ~taken BY DEF taken, Bounds, In
  <2> QED BY <1>1, <2>1 DEF Observe
<1>9. ASSUME b # op.block PROVE stored(b)' = stored(b)
  <2>1. \A i \in 0 .. BURST_LEN - 1 : cells'[cellOf(b, i)] = cells[cellOf(b, i)]
    <3>1. SUFFICES ASSUME NEW i \in 0 .. BURST_LEN - 1 PROVE cells'[cellOf(b, i)] = cells[cellOf(b, i)] OBVIOUS
    <3>2. cellOf(b, i) # cellOf(op.block, beat) BY <1>6, <1>9, CellsApart
    <3>3. cellOf(b, i) \in DOMAIN cells BY <1>2, CellInRange DEF ChipTypes
    <3> QED BY <1>7, <3>2, <3>3
  <2> QED BY <2>1 DEF stored, cellOf
<1>10. ASSUME current_state' = "PRECHARGE", b = op.block PROVE stored(b)' = op.line
  <2>1. \A i \in 0 .. BURST_LEN - 1 : cells'[cellOf(b, i)] = op.line[i]
    <3>1. SUFFICES ASSUME NEW i \in 0 .. BURST_LEN - 1 PROVE cells'[cellOf(b, i)] = op.line[i] OBVIOUS
    <3>2. cellOf(b, i) \in DOMAIN cells BY <1>2, CellInRange DEF ChipTypes
    <3>3. beat = BURST_LEN - 1 BY <1>5, <1>6, <1>10
    <3>4. CASE i = beat BY <1>7, <1>10, <3>2, <3>4
    <3>5. CASE i # beat
      <4>1. cellOf(b, i) # cellOf(op.block, beat) BY <1>6, <3>5, CellsApart
      <4>2. i \in 0 .. beat - 1 BY <1>3, <3>3, <3>5
      <4> QED BY <1>2, <1>7, <1>10, <3>2, <4>1, <4>2 DEF Stored
    <3> QED BY <3>4, <3>5
  <2>2. op.line \in [0 .. BURST_LEN - 1 -> Half]
    BY <1>6, GeometryAssumption DEF Requests, Line
  <2>3. op.line = [i \in 0 .. BURST_LEN - 1 |-> op.line[i]] BY <2>2
  <2> QED BY <2>1, <2>3 DEF stored, cellOf
<1> QED BY <1>5, <1>6, <1>8, <1>9, <1>10

\* Every clock of the controller is a clock of the block memory.
LEMMA PortStep ==
  ASSUME IInv, RefreshInv, RefreshInv', DataInv, DataInv', Next
  PROVE  Port!Clock(cpu_in)
<1> DEFINE array == [b \in Block |-> IF op # None /\ op.write /\ op.block = b THEN op.line ELSE stored(b)]
<1>1. /\ ChipClock /\ CtrlClock(cpu_in, DQ) /\ Observe BY DEF Next, ChipClock
<1>2. /\ Types /\ Flags /\ Flags' /\ Bounds /\ Held /\ Held' BY DEF IInv, Pins, RefreshInv, DataInv
<1>3. op' = IF taken THEN cpu_in ELSE IF current_state' = "PRECHARGE" THEN None ELSE op
  BY <1>1 DEF Observe
<1>4. ~In("WRITE_BURST") => \A b \in Block : stored(b)' = stored(b)
  BY <1>1, <1>2, DataAfter, StoredStays
<1>5. ~(In("READ_BURST") /\ current_state' = "PRECHARGE") => data_out_valid' = FALSE
  BY <1>1 DEF CtrlClock, Initialise, InitStep, Initialised, Accept, StartRefresh, Idle, Activate, ReadBurst,
     WriteBurst, Precharge, PeriodicRefresh, In, Waiting, NoPulse, Goto
<1>6. mem_ready' \in BOOLEAN BY <1>2 DEF Flags
\* A request is taken.
<1>7. CASE taken
  <2>1. In("NORMAL_IDLE") /\ mem_ready /\ cpu_in # None BY <1>2, <1>7 DEF taken, Bounds
  <2>2. Accept(cpu_in)
    BY <1>1, <1>7, <2>1 DEF CtrlClock, Initialise, InitStep, Initialised, StartRefresh, Idle, Activate, ReadBurst,
       WriteBurst, Precharge, PeriodicRefresh, taken, In
  <2>3. op = None /\ op' = cpu_in /\ mem_ready' = FALSE /\ data_out_valid' = FALSE
    BY <1>2, <1>3, <1>5, <1>7, <2>1, <2>2 DEF Held, Serving, In, Accept
  <2>4. array' = IF cpu_in.write THEN [array EXCEPT ![cpu_in.block] = cpu_in.line] ELSE array
    <3>1. \A b \in Block : stored(b)' = stored(b) BY <1>4, <2>1 DEF In
    <3>2. array = [b \in Block |-> stored(b)] BY <2>3
    <3>3. array' = [b \in Block |-> IF cpu_in.write /\ cpu_in.block = b THEN cpu_in.line ELSE stored(b)]
      BY <2>1, <2>3, <3>1
    <3> HIDE DEF array
    <3>4. CASE cpu_in.write BY <3>2, <3>3, <3>4
    <3>5. CASE ~cpu_in.write BY <3>2, <3>3, <3>5
    <3> QED BY <3>4, <3>5
  <2>5. Port!Accept(cpu_in) BY <2>1, <2>3, <2>4 DEF Port!Accept
  <2> QED BY <2>5 DEF Port!Clock
\* A burst ends.
<1>8. CASE In("READ_BURST") /\ current_state' = "PRECHARGE"
  <2>1. /\ op \in Requests /\ op # None /\ op.write = FALSE /\ op' = None /\ data_out_valid' = TRUE
        /\ read_buffer' = stored(op.block)
    BY <1>2, <1>8, ReadDone
  <2>2. array' = array BY <1>4, <1>8, <2>1 DEF In
  <2>3. array[op.block] = stored(op.block) BY <2>1 DEF Requests
  <2>4. Port!Finish BY <1>6, <2>1, <2>2, <2>3 DEF Port!Finish
  <2> QED BY <2>4 DEF Port!Clock
<1>9. CASE In("WRITE_BURST") /\ current_state' = "PRECHARGE"
  <2>1. op \in Requests /\ op # None /\ op.write = TRUE /\ op' = None /\ data_out_valid' = FALSE
    <3>1. op \in Requests /\ op # None BY <1>2, <1>9 DEF Held, Serving
    <3>2. op.block \in Block BY <3>1 DEF Requests
    <3> QED BY <1>2, <1>9, <3>2, WriteStep
  <2>2. \A b \in Block : stored(b)' = IF op.block = b THEN op.line ELSE stored(b)
    BY <1>2, <1>9, WriteStep
  <2>3. array' = array BY <2>1, <2>2
  <2>4. Port!Finish BY <1>6, <2>1, <2>3 DEF Port!Finish
  <2> QED BY <2>4 DEF Port!Clock
\* Everything else.
<1>10. CASE ~taken /\ ~((In("READ_BURST") \/ In("WRITE_BURST")) /\ current_state' = "PRECHARGE")
  <2>1. op' = op /\ data_out_valid' = FALSE
    <3>1. Serving => current_state' # "PRECHARGE"
      <4>1. Serving => Activate \/ In("READ_BURST") \/ In("WRITE_BURST")
        BY <1>1 DEF Serving, CtrlClock, Initialise, InitStep, Initialised, Accept, StartRefresh, Idle, ReadBurst,
           WriteBurst, Precharge, PeriodicRefresh, In
      <4>2. Activate => current_state' # "PRECHARGE" BY DEF Activate, Waiting, Goto
      <4> QED BY <1>10, <4>1, <4>2
    <3>2. current_state' = "PRECHARGE" => op = None BY <1>2, <3>1 DEF Held
    <3> QED BY <1>3, <1>5, <1>10, <3>2
  <2>2. \A b \in Block : (op # None /\ op.write /\ op.block = b) \/ stored(b)' = stored(b)
    <3>1. CASE In("WRITE_BURST") BY <1>2, <3>1, WriteStep
    <3>2. CASE ~In("WRITE_BURST") BY <1>4, <3>2
    <3> QED BY <3>1, <3>2
  <2>3. array' = array BY <2>1, <2>2
  <2>4. op # None => mem_ready' = mem_ready
    <3>1. op # None => Serving BY <1>2 DEF Held
    <3>2. Serving => Activate \/ ReadBurst(DQ) \/ WriteBurst
      BY <1>1 DEF Serving, CtrlClock, Initialise, InitStep, Initialised, Accept, StartRefresh, Idle, Precharge,
         PeriodicRefresh, In
    <3> QED BY <3>1, <3>2 DEF Activate, ReadBurst, WriteBurst, Waiting
  <2>5. Port!Wait(cpu_in) BY <1>6, <1>10, <2>1, <2>3, <2>4 DEF Port!Wait, taken
  <2> QED BY <2>5 DEF Port!Clock
<1> QED BY <1>7, <1>8, <1>9, <1>10

LEMMA InitPort == Init => Port!Init
<1> SUFFICES ASSUME Init PROVE Port!Init OBVIOUS
<1>1. \A b \in Block : stored(b) = [i \in 0 .. BURST_LEN - 1 |-> None]
  <2>1. cells = [c \in Banks \X Rows \X Chip!Columns |-> None] BY DEF Init, Chip!DeviceInit
  <2>2. \A b \in Block : \A i \in 0 .. BURST_LEN - 1 : cells[cellOf(b, i)] = None BY <2>1, CellInRange
  <2> QED BY <2>2 DEF stored, cellOf
<1> QED BY <1>1 DEF Init, CtrlInit, Port!Init

\* The controller on its chip is the block memory the cache relies on, whatever is asked of it.
THEOREM BlockMemory == Spec => ActsAsBlockMemory
<1>1. Init => IInv /\ RefreshInv /\ DataInv BY InitIInv, InitRefresh, InitData
<1>2. IInv /\ RefreshInv /\ DataInv /\ [Next]_vars => (IInv /\ RefreshInv /\ DataInv)'
  BY NextIInv, StutterIInv, NextRefresh, StutterRefresh, NextData, StutterData DEF RefreshInv
<1>3. IInv /\ RefreshInv /\ DataInv /\ (IInv /\ RefreshInv /\ DataInv)' /\ [Next]_vars
        => [Port!Clock(cpu_in)]_(Port!vars)
  <2>1. UNCHANGED vars => UNCHANGED Port!vars
    BY DEF vars, ctrlVars, deviceVars, addrPins, cpuRegs, burstRegs, Port!vars, stored
  <2> QED BY <2>1, PortStep
<1> QED BY <1>1, <1>2, <1>3, InitPort, PTL DEF Spec, ActsAsBlockMemory
=============================================================================
