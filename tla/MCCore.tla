------------------------------- MODULE MCCore -------------------------------
(* The menu of programs: every sequence of four instructions of an          *)
(* alphabet in which each is a hazard for some other; every operation on    *)
(* operands at the edges of a word; loops, calls and returns; programs the  *)
(* benches must refuse; programs that check themselves.                     *)
EXTENDS DatapathBench

Line(text)      == [labels |-> {}, text |-> text]
At(label, text) == [labels |-> {label}, text |-> text]
Do(op, args)    == [op |-> op, args |-> args]
base(off, r)    == [imm |-> off, reg |-> r]
listing(texts)  == [i \in DOMAIN texts |-> Line(texts[i])]

Scored(lines) == [lines |-> lines, data |-> <<>>, mode |-> "scoreboard", correct |-> TRUE]

Prologue == listing(<<Do("addi", <<1, 0, 1>>), Do("addi", <<2, 0, 2>>),
                      Do("addi", <<3, 0, 4>>), Do("sw", <<3, base(0, 3)>>)>>)

Alphabet ==
  {Do("addi", <<1, 1, 1>>), Do("add", <<2, 1, 2>>),
   Do("lw", <<1, base(0, 3)>>), Do("lbu", <<2, base(0, 1)>>),
   Do("sw", <<2, base(0, 3)>>), Do("sb", <<1, base(0, 3)>>),
   Do("beq", <<1, 2, "end">>), Do("bne", <<1, 2, "end">>), Do("jal", <<2, "end">>)}

Straight(body) ==
  Scored(Prologue \o listing(body) \o
         <<At("end", Do("add", <<1, 1, 2>>)), Line(Do("ebreak", <<>>))>>)

\* Bodies gone through twice, so that their branches are predicted the second time, and
\* evict each other from a target buffer of one entry.
LoopAlphabet ==
  {Do("addi", <<1, 1, 1>>), Do("add", <<2, 1, 2>>), Do("lw", <<1, base(0, 3)>>),
   Do("sb", <<1, base(0, 3)>>), Do("beq", <<1, 2, "end">>), Do("bne", <<1, 2, "end">>),
   Do("jal", <<2, "end">>)}

Looped(body) ==
  Scored(Prologue \o <<Line(Do("addi", <<4, 0, 2>>)), [labels |-> {"top"}, text |-> None]>>
         \o listing(body) \o
         <<At("end", Do("addi", <<4, 4, -1>>)), Line(Do("bne", <<4, 0, "top">>)),
           Line(Do("add", <<1, 1, 2>>)), Line(Do("ebreak", <<>>))>>)

\* Operations, each at operands x and y.
Operands == {<<-3, 2>>, <<5, -128>>, <<127, 127>>, <<0, -1>>, <<-128, 7>>}

Load2(x, y) == <<Do("addi", <<1, 0, x>>), Do("addi", <<2, 0, y>>)>>
Operation(x, y) ==
  {Scored(listing(Load2(x, y) \o <<Do(op, <<3, 1, 2>>), Do("ebreak", <<>>)>>)) : op \in R_TYPE}
    \union
  {Scored(listing(Load2(x, y) \o <<Do(op, <<3, 1, y>>), Do("ebreak", <<>>)>>)) :
     op \in I_TYPE_4 \ {"slli", "srli", "srai"}}
    \union
  {Scored(listing(Load2(x, y) \o <<Do(op, <<3, 1, y % WORD_BITS>>), Do("ebreak", <<>>)>>)) :
     op \in {"slli", "srli", "srai"}}
    \union
  {Scored(listing(Load2(x, y) \o <<Do(op, <<1, 2, "end">>), Do("addi", <<3, 3, 1>>)>>)
            \o <<At("end", Do("nop", <<>>)), Line(Do("ebreak", <<>>))>>) : op \in B_TYPE}

\* Each load after a store of a negative value, at every place it can be at.
SubWord ==
  {Scored(listing(<<Do("addi", <<1, 0, -70>>), Do(s[1], <<1, base(s[2], 0)>>),
                    Do(l[1], <<2, base(l[2], 0)>>), Do("ebreak", <<>>)>>)) :
     s \in {<<"sw", 4>>, <<"sh", 4>>, <<"sh", 6>>, <<"sb", 5>>, <<"sb", 7>>},
     l \in {<<"lw", 4>>, <<"lh", 4>>, <<"lhu", 6>>, <<"lh", 6>>, <<"lb", 5>>, <<"lbu", 4>>, <<"lb", 7>>}}

\* A counted loop with a load and a store in it, and an inner branch: more taken
\* branches than the target buffer holds.
Loop ==
  Scored(<<Line(Do("lui", <<3, 0>>)), Line(Do("addi", <<1, 0, 3>>)),
           At("top", Do("lw", <<2, base(4, 3)>>)), Line(Do("beq", <<2, 1, "skip">>)),
           Line(Do("add", <<2, 2, 1>>)), Line(Do("sw", <<2, base(4, 3)>>)),
           At("skip", Do("addi", <<1, 1, -1>>)), Line(Do("bne", <<1, 0, "top">>)),
           Line(Do("auipc", <<2, 1>>)), Line(Do("ebreak", <<>>))>>)

\* A function called twice, from two places, and its return.
Call(return) ==
  Scored(<<Line(Do("jal", <<1, "fn">>)), Line(Do("jal", <<1, "fn">>)),
           Line(Do("sw", <<2, base(0, 0)>>)), Line(Do("ebreak", <<>>)),
           At("fn", Do("lw", <<3, base(0, 0)>>)), Line(Do("addi", <<2, 2, 1>>)),
           Line(Do("jalr", return))>>)

\* A jump through a register that a load has just written, and lines with labels only.
Indirect ==
  Scored(<<Line(Do("addi", <<1, 0, 24>>)), Line(Do("sw", <<1, base(0, 0)>>)),
           [labels |-> {"l1"}, text |-> None], Line(Do("lw", <<2, base(0, 0)>>)),
           Line(Do("jalr", <<3, 2, 1>>)), Line(Do("sw", <<2, base(4, 0)>>)),
           Line(Do("lui", <<1, 3>>)), At("l2", Do("lw", <<1, base(4, 0)>>)),
           Line(Do("add", <<2, 1, 3>>)), Line(Do("ebreak", <<>>))>>)

\* Refused: a pseudo-instruction the golden model does not know, nothing retired,
\* a program larger than the memory.  Accepted: running off the end.
Others ==
  {Scored(listing(<<Do("li", <<1, 5>>), Do("ebreak", <<>>)>>)),
   Scored(listing(<<Do("ebreak", <<>>)>>)),
   Scored(listing([i \in 1..IMEM_DEPTH + 1 |-> Do("nop", <<>>)])),
   Scored(listing(<<Do("nop", <<>>), Do("addi", <<1, 0, 1>>)>>))}

\* exit_check.s and data_init.s in mode "exit"; a program that relies on the zeros after
\* its data; crt0's clearing of .bss, in a C program and in an image on the core alone.
Verdict == <<Do("addi", <<3, 0, EXIT_OFFSET - WORD>>), Do("sw", <<1, base(0, 3)>>)>>
Spin    == <<At("loop", Do("jal", <<0, "loop">>))>>
SelfChecking(mode, data, texts, correct) ==
  [lines |-> listing(texts \o Verdict) \o Spin, data |-> data, mode |-> mode, correct |-> correct]

Reads(w, value) == <<Do("lw", <<1, base(4 * w, 0)>>), Do("addi", <<1, 1, -value>>)>>
Clear == <<Do("sw", <<0, base(4, 0)>>)>>
CheckThemselves ==
  {SelfChecking("exit", <<>>, <<Do("addi", <<1, 0, 5>>), Do("addi", <<2, 0, 5>>),
                                Do("sub", <<1, 1, 2>>)>>, TRUE),
   SelfChecking("exit", <<107>>, <<Do("li", <<2, 107>>), Do("lw", <<3, base(0, 0)>>),
                                   Do("sub", <<1, 3, 2>>)>>, TRUE),
   SelfChecking("exit", <<107>>, Reads(1, 0), TRUE),
   SelfChecking("exit", <<>>, <<Do("addi", <<3, 0, EXIT_OFFSET - WORD>>),
                                Do("lw", <<1, base(0, 3)>>)>>, TRUE),
   SelfChecking("c", <<107>>, Reads(0, 107), TRUE),
   SelfChecking("c", <<107>>, Clear \o Reads(1, 0), TRUE),
   SelfChecking("c", <<107>>, Reads(1, 0), FALSE),
   SelfChecking("image", <<107>>, Clear \o Reads(1, 0), TRUE),
   SelfChecking("image", <<107>>, Reads(0, 107), TRUE)}

MCPrograms == {Straight(b) : b \in [1..4 -> Alphabet]}
                \union {Looped(b) : b \in [1..3 -> LoopAlphabet]}
                \union UNION {Operation(o[1], o[2]) : o \in Operands}
                \union SubWord \union CheckThemselves \union Others
                \union {Loop, Indirect, Call(<<0, base(0, 1)>>), Call(<<0, 1, 0>>)}
MCRegs   == 0..4
MCIoPage == 240..255
=============================================================================
