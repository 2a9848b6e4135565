--------------------------- MODULE MCRegisterFile ---------------------------
(* Two registers besides x0, and as many transactions as it takes to write, *)
(* overwrite and read back one of them.                                     *)
EXTENDS RegisterFileBench
MCAddr == 0..2
MCData == {0, 1}
=============================================================================
