-------------------------- MODULE MCMemorySystem --------------------------
(* Instances of the memory system for TLC: one set of four ways contended   *)
(* by five blocks, two of which the pipeline also stores to.                *)
EXTENDS MemorySystem, TLC
CONSTANTS s1, t1, t2, t3, t4, t5, w1, w2, v0, v1

MCSets     == {s1}
MCTags     == {t1, t2, t3, t4, t5}
MCVal      == {v0, v1}
MCInitLine == [w \in Words |-> v0]

blk(t) == [set |-> s1, tag |-> t]
loads(ts) == {[op |-> "load", block |-> blk(t), word |-> w1] : t \in ts}
stores(ts, ws, vs) == {[op |-> "store", block |-> blk(t), word |-> w, data |-> v]
                         : t \in ts, w \in ws, v \in vs}

\* For the data: t1 is stored to word by word and back, so that a refill must
\* merge and a stale line shows; the other four blocks only compete for the ways.
MCAccesses == loads(MCTags) \union stores({t1}, Words, {v1}) \union stores({t1}, {w1}, {v0})
MCOthers   == Permutations({t2, t3, t4, t5})

\* For the starved FIFO: every access dirties its line without changing the data,
\* so every eviction is a write-back.
MCAllDirty   == stores(MCTags, {w1}, {v0})
MCAllSymm    == Permutations(MCTags)

\* For the order and the fate of write-backs, without symmetry, which would be
\* unsound for liveness: one access per block, two of which become dirty, so that
\* one victim can follow another.
MCTwoDirty == loads({t3, t4, t5}) \union stores({t1, t2}, {w1}, {v0})

MCIo     == {[op |-> "io"]}
MCDesign == {FALSE}
MCForced == BOOLEAN
=============================================================================
