----------------------------- MODULE MCUartLine -----------------------------
(* Frames of three bits with odd parity and one stop bit, of three bits with *)
(* two stop bits, of four with even parity, and of one bit.                  *)
EXTENDS UartLine

format(bits, stops, en, odd) ==
  [data_bits |-> bits - 1, stop_bits |-> stops, parity_en |-> en, parity_odd |-> odd]
MCFormats == {format(3, 1, TRUE, TRUE), format(3, 2, FALSE, TRUE),
              format(4, 1, TRUE, FALSE), format(1, 1, FALSE, FALSE)}

\* Bytes of four bits, so that shorter frames have a bit they must not carry.
MCBytes == {b \in [0..7 -> BOOLEAN] : \A i \in 4..7 : ~b[i]}
=============================================================================
