------------------------------- MODULE MCMmio -------------------------------
EXTENDS Mmio, TLC
CONSTANTS a, b, pass, fail

MCBytes == {a, b}
MCCodes == {pass, fail}
on      == {"UART_ENABLE", "RX_ENABLE", "TX_ENABLE"}

get(w, r)    == [window |-> w, write |-> FALSE, reg |-> r, data |-> None]
put(w, r, d) == [window |-> w, write |-> TRUE, reg |-> r, data |-> d]

MCRequests ==
  {get("UART", r) : r \in {"RX_DATA", "STATUS", "CONTROL", "TX_DATA", "IRQ", "HOLE"}} \union
  {put("UART", "TX_DATA", c) : c \in MCBytes} \union
  {put("UART", "CONTROL", c) : c \in {on, {}}} \union
  {put("UART", r, None) : r \in {"RX_DATA", "CONFIG"}} \union
  {put("EXIT", "EXIT_CODE", c) : c \in MCCodes} \union
  {get("EXIT", "EXIT_CODE"), put("EXIT", "other", pass), get("none", "RX_DATA")}
MCSymm == Permutations(MCBytes) \union Permutations(MCCodes)
=============================================================================
