---------------------------- MODULE SdramDevice ----------------------------
(***************************************************************************)
(* The SDRAM chip behind SRAM_controller, as the controller's commands     *)
(* assume it (an IS42S16320F; external to the repository): banks with one  *)
(* open row each, full-page bursts that run until they are stopped, CAS    *)
(* latency 2, and the minimum distances between commands.  Commands and    *)
(* write data are sampled on the clock edge that ends their cycle.         *)
(***************************************************************************)
EXTENDS Naturals, FiniteSets

CONSTANTS Banks, Rows, PAGE,    \* PAGE: columns of a row
          Half,                 \* what one column holds
          dRP, dRC, dRCD, dDPL, \* minimum distances, in clocks
          None

VARIABLES cells,     \* <<bank, row, column>> -> Half
          open,      \* Banks -> the open row, or None
          burst,     \* the running full-page burst, or None
          pipe, DQ,  \* CAS latency 2: fetched, and driven on the bus
          age,       \* clocks since each command, saturating
          protocol   \* no command so far broke the device's rules

Columns == 0 .. PAGE - 1
Timed   == {"PRE", "REF", "ACT", "data"}
Longest == dRC + dRP + dRCD + dDPL
Ages    == [Timed -> 0..Longest]
Bursts  == [op : {"READ", "WRITE"}, bank : Banks, col : Nat]

DeviceInit ==
  /\ cells = [c \in Banks \X Rows \X Columns |-> None]
  /\ open = [b \in Banks |-> None]
  /\ burst = None /\ pipe = None /\ DQ = None
  /\ age = [c \in Timed |-> 0]
  /\ protocol = TRUE

\* A10 of a PRE closes every bank; what the row pins put there would be accidental.
closesAll(addr) == "all" \in DOMAIN addr

\* The rules for each command, given how long ago the others were.
allIdle == \A b \in Banks : open[b] = None
legal(cmd, bank, addr) ==
  /\ cmd \in {"ACT", "REF", "MRS"} => age["PRE"] >= dRP
  /\ cmd # "NOP" => age["REF"] >= dRC
  /\ cmd = "ACT" => open[bank] = None
  /\ cmd \in {"REF", "MRS"} => allIdle /\ burst = None
  /\ cmd \in {"READ", "WRITE"} => open[bank] # None /\ age["ACT"] >= dRCD /\ burst = None
  /\ cmd = "PRE" => /\ burst = None /\ age["data"] >= dDPL
                    /\ closesAll(addr) \/ "col" \in DOMAIN addr

\* The burst that runs in this clock: a READ or WRITE starts at its own column.
running(cmd, bank, addr) ==
  IF cmd \in {"READ", "WRITE"} THEN [op |-> cmd, bank |-> bank, col |-> addr.col]
  ELSE IF cmd \in {"BST", "PRE"} THEN None ELSE burst

\* One clock: cmd, bank, addr and the write data are the controller's pins.
DeviceClock(cmd, bank, addr, oe, data) ==
  LET now  == running(cmd, bank, addr)
      cell == IF now = None THEN None ELSE <<now.bank, open[now.bank], now.col>>
      \* The distances count the clocks up to the edge that samples the command.
      older == [c \in DOMAIN age |->
                  IF age[c] = Longest THEN age[c] ELSE age[c] + 1]
      resets == {cmd} \union (IF now # None /\ now.op = "WRITE" THEN {"data"} ELSE {})
  IN  /\ burst' = IF now = None THEN None ELSE [now EXCEPT !.col = (@ + 1) % PAGE]
      /\ cells' = IF now # None /\ now.op = "WRITE" /\ open[now.bank] # None
                  THEN [cells EXCEPT ![cell] = IF oe THEN data ELSE None]
                  ELSE cells
      /\ pipe' = IF now # None /\ now.op = "READ" /\ open[now.bank] # None
                 THEN cells[cell] ELSE None
      /\ DQ' = pipe
      /\ open' = IF cmd = "ACT" THEN [open EXCEPT ![bank] = addr.row]
                 ELSE IF cmd = "PRE" /\ closesAll(addr) THEN [b \in Banks |-> None]
                 ELSE IF cmd = "PRE" THEN [open EXCEPT ![bank] = None]
                 ELSE open
      /\ age' = [c \in DOMAIN age |-> IF c \in resets THEN 1 ELSE older[c]]
      /\ protocol' = (protocol /\ legal(cmd, bank, addr))
=============================================================================
