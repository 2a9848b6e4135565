------------------------------- MODULE MCBoot -------------------------------
(* Booting for TLC: bytes of 16 values, words of two bytes, blocks of two    *)
(* words, so that every counter of the state machine turns over.             *)
EXTENDS BootSystem

record(d, a, w, p) == [dest |-> d, addr |-> [i \in 0 .. 3 |-> a[i + 1]], words |-> w, payload |-> p]

\* Two words of code, then two blocks of data.
MCImage == <<record(DEST_IMEM, <<0, 0, 0, 0>>, 2, <<1, 9, 14, 3>>),
             record(DEST_DRAM, <<4, 1, 0, 0>>, 4, <<5, 6, 7, 8, 15, 15, 1, 2>>)>>

MCDeltas == {1, 8}
=============================================================================
