---------------------------- MODULE AtomicMemory ----------------------------
(***************************************************************************)
(* What the whole memory system promises the pipeline: the memory stage    *)
(* works on one word-addressed store, one access at a time.  An access is  *)
(* begun, takes effect in one indivisible step, and is then handed on; a   *)
(* load hands MEM/WB the value its word had when it took effect.           *)
(***************************************************************************)
CONSTANTS Block, Words, Val, InitLine, None, Load, Store

VARIABLES contents,   \* Block -> Words -> Val
          access,     \* the access in the memory stage, or None
          done,       \* it has taken effect
          result,     \* what a load that has taken effect read
          mem_wb      \* what MEM/WB latched last, or None

vars == <<contents, access, done, result, mem_wb>>

Init ==
  /\ contents = [b \in Block |-> InitLine]
  /\ access = None /\ done = FALSE /\ result = None /\ mem_wb = None

\* An instruction without a memory access, or the cycles of an access.
Begin ==
  /\ access = None
  /\ access' \in Load \union Store
  /\ mem_wb' = None
  /\ UNCHANGED <<contents, done, result>>

Bubble ==
  /\ mem_wb' = None
  /\ UNCHANGED <<contents, access, done, result>>

PerformLoad ==
  /\ access \in Load /\ ~done
  /\ done' = TRUE
  /\ result' = contents[access.block][access.word]
  /\ mem_wb' = None
  /\ UNCHANGED <<contents, access>>

PerformStore ==
  /\ access \in Store /\ ~done
  /\ done' = TRUE
  /\ contents' = [contents EXCEPT ![access.block][access.word] = access.data]
  /\ mem_wb' = None
  /\ UNCHANGED <<access, result>>

\* The next access may enter the stage as this one leaves it.
Advance ==
  /\ access # None /\ done
  /\ mem_wb' = IF access \in Load THEN result ELSE None
  /\ access' \in Load \union Store \union {None}
  /\ done' = FALSE /\ result' = None
  /\ UNCHANGED contents

Next == Begin \/ Bubble \/ PerformLoad \/ PerformStore \/ Advance

Spec == Init /\ [][Next]_vars
=============================================================================
