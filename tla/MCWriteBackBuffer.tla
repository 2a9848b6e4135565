------------------------- MODULE MCWriteBackBuffer -------------------------
(* Small instance of the write-back ring for TLC: four slots, so that both  *)
(* pointers wrap several times, and three distinguishable entries.          *)
EXTENDS WriteBackBuffer
CONSTANTS e1, e2, e3
MCEntry == {e1, e2, e3}
=============================================================================
