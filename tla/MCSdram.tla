------------------------------ MODULE MCSdram ------------------------------
EXTENDS Sdram
CONSTANTS b0, r0, x, y

\* Bursts of four, two neighbouring blocks of one row, two lines.
MCBanks  == {b0}
MCRows   == {r0}
MCUCols  == {0, 1}
line(v)  == [i \in 0 .. BURST_LEN - 1 |-> <<v, i>>]
MCLines  == {line(x), line(y)}
MCHalf   == {x, y} \X (0 .. BURST_LEN - 1)
=============================================================================
