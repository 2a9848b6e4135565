------------------------ MODULE MemorySystem_proofs ------------------------
(***************************************************************************)
(* Facts about the memory system for every geometry of the cache, every    *)
(* FIFO depth, every program and every pattern of starvation of the FIFO.  *)
(***************************************************************************)
EXTENDS MemorySystem, SequenceTheorems, FiniteSetTheorems, TLAPS

inMiss == cache_state \in {"WRITE_MISS", "READ_MISS"}
inRead == m_state \in {"M_PORT_READ_REQ", "M_PORT_READ_WAIT"}

\* A way marked valid has a tag and a line, in the RAM or in its write port: no
\* lookup, eviction or answer ever uses RAM contents nobody wrote.
ValidWaysHoldLines == \A p \in valid_bits_pw :
  tagOf(p[1], p[2]) \in Tags /\ lineOf(p[1], p[2]) \in Line

\* What the cache works on between accepting a request and answering it.
LookupInv ==
  /\ ready => cache_state = "IDLE" /\ ram_write = None
  /\ cache_state # "IDLE" =>
       /\ ram_write = None
       /\ req_r \in Request
       /\ lookup \in [tag : [Ways -> Tags \union {None}],
                      line : [Ways -> Line \union {None}]]
       /\ \A w \in Ways : <<req_r.block.set, w>> \in valid_bits_pw =>
            lookup.tag[w] \in Tags /\ lookup.line[w] \in Line
  /\ cache_state \notin {"IDLE", "DELAY_STATE"} => max_record_r \in Ways

CacheInv == CacheTypeOK /\ ValidWaysHoldLines /\ LookupInv

-----------------------------------------------------------------------------
LEMMA MaxOfWays ==
  ASSUME NEW S \in SUBSET Ways, S # {}
  PROVE  Max(S) \in S
<1>1. \E x \in S : \A y \in S : x >= y
  <2>1. CASE 3 \in S
    BY <2>1 DEF Ways
  <2>2. CASE 3 \notin S /\ 2 \in S
    BY <2>2 DEF Ways
  <2>3. CASE 3 \notin S /\ 2 \notin S /\ 1 \in S
    BY <2>3 DEF Ways
  <2>4. CASE 3 \notin S /\ 2 \notin S /\ 1 \notin S
    <3>1. \A y \in S : y = 0
      BY <2>4 DEF Ways
    <3> QED BY <3>1
  <2> QED BY <2>1, <2>2, <2>3, <2>4
<1> QED BY <1>1 DEF Max

LEMMA SelectedWay ==
  ASSUME CacheInv, cache_state \notin {"IDLE", "DELAY_STATE"}
  PROVE  /\ set_way_select_num \in Ways
         /\ set_way_select \subseteq Ways
         /\ set_way_select_num \in set_way_select
         /\ selected \in Sets \X Ways
         /\ hit => selected \in valid_bits_pw
<1>1. comparison \subseteq Ways
  BY DEF comparison
<1>2. hit => Max(comparison) \in comparison
  BY <1>1, MaxOfWays DEF hit
<1>3. max_record_r \in Ways /\ req_r.block.set \in Sets
  BY DEF CacheInv, LookupInv, Request, Load, Store, Block
<1> QED BY <1>1, <1>2, <1>3
    DEF set_way_select_num, set_way_select, selected, comparison

LEMMA MergedIsLine ==
  ASSUME NEW line \in Line, req_r \in Request
  PROVE  merged(line) \in Line
  BY DEF merged, Line, Request, Load, Store

LEMMA ExceptTwice ==
  ASSUME NEW S, NEW T, NEW f \in [S -> T], NEW i, NEW j, NEW x \in T, NEW y \in T
  PROVE  [f EXCEPT ![i] = x, ![j] = y] \in [S -> T]
  OBVIOUS

LEMMA MaxRecordType == \A rec : max_record(rec) \in Ways
  BY DEF max_record, Ways

LEMMA PlruTypes ==
  ASSUME NEW rec \in [0..2 -> BOOLEAN], NEW way \in Ways
  PROVE  update_access_rec(rec, way) \in [0..2 -> BOOLEAN]
<1>2. TRUE \in BOOLEAN /\ FALSE \in BOOLEAN /\ (way = 0) \in BOOLEAN /\ (way = 2) \in BOOLEAN
  OBVIOUS
<1>3. [rec EXCEPT ![0] = TRUE, ![2] = (way = 0)] \in [0..2 -> BOOLEAN]
  BY <1>2, ExceptTwice, Zenon
<1>4. [rec EXCEPT ![0] = FALSE, ![1] = (way = 2)] \in [0..2 -> BOOLEAN]
  BY <1>2, ExceptTwice, Zenon
<1> QED BY <1>3, <1>4, Zenon DEF update_access_rec

\* The RAMs after the edge agree with the view before it: committing the write
\* port changes nothing that a lookup would see.
LEMMA CommitKeepsView ==
  ASSUME CacheTypeOK, CommitRam, NEW s \in Sets, NEW w \in Ways
  PROVE  /\ tag_ram'[<<s, w>>] = tagOf(s, w)
         /\ data_ram'[<<s, w>>] = lineOf(s, w)
  BY DEF CommitRam, tagOf, lineOf, writing

LEMMA CommitTypes ==
  ASSUME CacheTypeOK, CommitRam
  PROVE  /\ tag_ram' \in [Sets \X Ways -> Tags \union {None}]
         /\ data_ram' \in [Sets \X Ways -> Line \union {None}]
  BY DEF CommitRam, CacheTypeOK, RamWrite

\* A step that raises no RAM write leaves every lookup's view as it was.
LEMMA QuietView ==
  ASSUME CacheInv, CommitRam, ram_write' = None, UNCHANGED valid_bits_pw
  PROVE  ValidWaysHoldLines'
<1> SUFFICES ASSUME NEW p \in valid_bits_pw
             PROVE  tagOf(p[1], p[2])' \in Tags /\ lineOf(p[1], p[2])' \in Line
  BY DEF ValidWaysHoldLines
<1>1. p = <<p[1], p[2]>> /\ p[1] \in Sets /\ p[2] \in Ways
  BY DEF CacheInv, CacheTypeOK
<1>2. /\ tagOf(p[1], p[2])' = tag_ram'[<<p[1], p[2]>>]
      /\ lineOf(p[1], p[2])' = data_ram'[<<p[1], p[2]>>]
  BY DEF tagOf, lineOf, writing
<1>3. /\ tag_ram'[<<p[1], p[2]>>] = tagOf(p[1], p[2])
      /\ data_ram'[<<p[1], p[2]>>] = lineOf(p[1], p[2])
  BY <1>1, CommitKeepsView DEF CacheInv
<1> QED BY <1>2, <1>3 DEF CacheInv, ValidWaysHoldLines

\* The same for a step that writes a line into ways of the latched request's set
\* and, if it also writes their tags, may mark one of them valid.
LEMMA WritingView ==
  ASSUME CacheInv, CommitRam, ram_write' # None,
         ram_write' \in RamWrite,
         \A p \in valid_bits_pw' :
           p \in Sets \X Ways /\
           (p \in valid_bits_pw \/ (/\ p[1] = ram_write'.set /\ p[2] \in ram_write'.ways
                                    /\ ram_write'.tag # None))
  PROVE  ValidWaysHoldLines'
<1> SUFFICES ASSUME NEW p \in valid_bits_pw'
             PROVE  tagOf(p[1], p[2])' \in Tags /\ lineOf(p[1], p[2])' \in Line
  BY DEF ValidWaysHoldLines
<1>1. p = <<p[1], p[2]>> /\ p[1] \in Sets /\ p[2] \in Ways
  OBVIOUS
<1>2. /\ tag_ram'[<<p[1], p[2]>>] = tagOf(p[1], p[2])
      /\ data_ram'[<<p[1], p[2]>>] = lineOf(p[1], p[2])
  BY <1>1, CommitKeepsView DEF CacheInv
<1>3. CASE p[1] = ram_write'.set /\ p[2] \in ram_write'.ways /\ ram_write'.tag # None
  BY <1>3 DEF tagOf, lineOf, writing, RamWrite
<1>4. CASE p \in valid_bits_pw
  <2>1. tagOf(p[1], p[2]) \in Tags /\ lineOf(p[1], p[2]) \in Line
    BY <1>4 DEF CacheInv, ValidWaysHoldLines
  <2> QED BY <2>1, <1>2 DEF tagOf, lineOf, writing, RamWrite
<1> QED BY <1>3, <1>4

\* One posedge of the cache, whatever the controller drives into it.
LEMMA CacheStep ==
  ASSUME CacheInv, NEW cpu_in \in Request \union {None},
         NEW refill \in Line \union {None}, CacheClock(cpu_in, refill)
  PROVE  CacheInv'
<1> USE DEF CacheInv
<1>1. CommitRam
  BY DEF CacheClock
<1>2. /\ tag_ram' \in [Sets \X Ways -> Tags \union {None}]
      /\ data_ram' \in [Sets \X Ways -> Line \union {None}]
  BY <1>1, CommitTypes
<1>3. CASE CacheAccept(cpu_in)
  <2>1. cpu_in \in Request /\ cpu_in.block.set \in Sets
    BY <1>3 DEF CacheAccept, Request, Load, Store, Block
  <2>2. lookup' \in [tag : [Ways -> Tags \union {None}], line : [Ways -> Line \union {None}]]
    BY <1>3, <2>1 DEF CacheAccept, CacheTypeOK
  <2>3. CacheTypeOK'
    BY <1>2, <1>3, <2>1, <2>2 DEF CacheAccept, CacheTypeOK, bitVars
  <2>4. ram_write = None
    BY <1>3 DEF CacheAccept, LookupInv
  <2>5. ValidWaysHoldLines'
    BY <1>1, <1>3, QuietView DEF CacheAccept, bitVars
  <2>6. ASSUME NEW w \in Ways, <<cpu_in.block.set, w>> \in valid_bits_pw
        PROVE  lookup'.tag[w] \in Tags /\ lookup'.line[w] \in Line
    <3> DEFINE p == <<cpu_in.block.set, w>>
    <3>1. tagOf(p[1], p[2]) \in Tags /\ lineOf(p[1], p[2]) \in Line
      BY <2>6 DEF ValidWaysHoldLines
    <3>2. tagOf(p[1], p[2]) = tag_ram[p] /\ lineOf(p[1], p[2]) = data_ram[p]
      BY <2>4 DEF tagOf, lineOf, writing
    <3> QED BY <1>3, <3>1, <3>2 DEF CacheAccept
  <2>7. LookupInv'
    BY <1>3, <2>1, <2>2, <2>6 DEF CacheAccept, LookupInv, bitVars
  <2> QED BY <2>3, <2>5, <2>7
<1>4. CASE CacheIdle(cpu_in)
  <2>1. CacheTypeOK'
    BY <1>2, <1>4 DEF CacheIdle, CacheTypeOK, bitVars
  <2>2. ValidWaysHoldLines'
    BY <1>1, <1>4, QuietView DEF CacheIdle, bitVars
  <2>3. LookupInv'
    BY <1>4 DEF CacheIdle, LookupInv
  <2> QED BY <2>1, <2>2, <2>3
<1>5. CASE Delay
  <2>1. req_r \in Request /\ req_r.block.set \in Sets
    BY <1>5 DEF Delay, LookupInv, Request, Load, Store, Block
  <2>2. access_rec[req_r.block.set] \in [0..2 -> BOOLEAN]
    BY <2>1 DEF CacheTypeOK
  <2>3. max_record_r' \in Ways
    BY <1>5, <2>2, MaxRecordType DEF Delay
  <2>4. CacheTypeOK'
    BY <1>2, <1>5, <2>3 DEF Delay, CacheTypeOK, bitVars
  <2>5. ValidWaysHoldLines'
    BY <1>1, <1>5, QuietView DEF Delay, bitVars
  <2>6. LookupInv'
    BY <1>5, <2>3 DEF Delay, LookupInv, bitVars
  <2> QED BY <2>4, <2>5, <2>6
<1>6. CASE MissWait(refill)
  <2>1. CacheTypeOK'
    BY <1>2, <1>6 DEF MissWait, CacheTypeOK, bitVars
  <2>2. ValidWaysHoldLines'
    BY <1>1, <1>6, QuietView DEF MissWait, bitVars
  <2>3. LookupInv'
    BY <1>6 DEF MissWait, LookupInv, bitVars
  <2> QED BY <2>1, <2>2, <2>3
<1>7. CASE Miss
  <2>1. cache_state \notin {"IDLE", "DELAY_STATE"} /\ req_r \in Request /\ req_r.block \in Block
    BY <1>7 DEF Miss, LookupInv, Request, Load, Store
  <2>2. set_way_select_num = max_record_r /\ max_record_r \in Ways
    BY <1>7, <2>1 DEF Miss, set_way_select_num, LookupInv
  <2>3. set_evict_valid => /\ lookup.tag[set_way_select_num] \in Tags
                           /\ lookup.line[set_way_select_num] \in Line
    BY <2>1, <2>2 DEF set_evict_valid, LookupInv
  <2>4. evicted' \in Victim \union {None}
    BY <1>7, <2>1, <2>3 DEF Miss, Victim, Block, CacheTypeOK
  <2>5. CacheTypeOK'
    BY <1>2, <1>7, <2>1, <2>4 DEF Miss, CacheTypeOK, bitVars
  <2>6. ValidWaysHoldLines'
    BY <1>1, <1>7, QuietView DEF Miss, bitVars
  <2>7. LookupInv'
    BY <1>7 DEF Miss, LookupInv, bitVars
  <2> QED BY <2>5, <2>6, <2>7
<1>8. ASSUME cache_state \notin {"IDLE", "DELAY_STATE"},
             NEW data \in Val \union {None}, EndAccess(data)
      PROVE  /\ ready' = FALSE
             /\ cache_state' = "IDLE"
             /\ cache_out' \in Answer
             /\ access_rec' \in [Sets -> [0..2 -> BOOLEAN]]
             /\ req_r' = None /\ lookup' = None /\ max_record_r' = None
  <2>1. set_way_select_num \in Ways /\ req_r.block.set \in Sets
    BY <1>8, SelectedWay DEF LookupInv, Request, Load, Store, Block
  <2>2. access_rec[req_r.block.set] \in [0..2 -> BOOLEAN]
    BY <2>1 DEF CacheTypeOK
  <2>3. update_access_rec(access_rec[req_r.block.set], set_way_select_num)
          \in [0..2 -> BOOLEAN]
    BY <2>1, <2>2, PlruTypes
  <2>4. access_rec' \in [Sets -> [0..2 -> BOOLEAN]]
    BY <1>8, <2>3 DEF EndAccess, CacheTypeOK
  <2>5. ready = FALSE
    BY <1>8 DEF LookupInv, CacheTypeOK
  <2> QED BY <1>8, <2>4, <2>5 DEF EndAccess, Answer
<1>9. CASE ReadHit
  <2>1. /\ cache_state \notin {"IDLE", "DELAY_STATE"}
        /\ lookup.line[set_way_select_num] \in Line
        /\ req_r.word \in Words
    BY <1>9, SelectedWay DEF ReadHit, LookupInv, Request, Load, Store, selected
  <2>2. lookup.line[set_way_select_num][req_r.word] \in Val
    BY <2>1 DEF Line
  <2>3. /\ ready' = FALSE
        /\ cache_state' = "IDLE"
        /\ cache_out' \in Answer
        /\ access_rec' \in [Sets -> [0..2 -> BOOLEAN]]
        /\ req_r' = None /\ lookup' = None /\ max_record_r' = None
    BY <1>8, <1>9, <2>1, <2>2 DEF ReadHit
  <2>4. CacheTypeOK'
    BY <1>2, <1>9, <2>3 DEF ReadHit, CacheTypeOK
  <2>5. ValidWaysHoldLines'
    BY <1>1, <1>9, QuietView DEF ReadHit
  <2> QED BY <2>3, <2>4, <2>5 DEF LookupInv
<1>10. CASE WriteHit
  <2>1. /\ cache_state \notin {"IDLE", "DELAY_STATE"}
        /\ lookup.line[set_way_select_num] \in Line
        /\ req_r \in Request /\ req_r.block.set \in Sets
        /\ set_way_select \subseteq Ways
        /\ selected \in Sets \X Ways
    BY <1>10, SelectedWay DEF WriteHit, LookupInv, Request, Load, Store, Block, selected
  <2>2. merged(lookup.line[set_way_select_num]) \in Line
    BY <2>1, MergedIsLine
  <2>3. /\ ready' = FALSE
        /\ cache_state' = "IDLE"
        /\ cache_out' \in Answer
        /\ access_rec' \in [Sets -> [0..2 -> BOOLEAN]]
        /\ req_r' = None /\ lookup' = None /\ max_record_r' = None
    BY <1>8, <1>10, <2>1 DEF WriteHit
  <2>4. ram_write' \in RamWrite
    BY <1>10, <2>1, <2>2 DEF WriteHit, RamWrite
  <2>5. CacheTypeOK'
    BY <1>2, <1>10, <2>1, <2>3, <2>4 DEF WriteHit, CacheTypeOK
  <2>6. ValidWaysHoldLines'
    <3>1. CASE ram_write' = None
      BY <3>1, <1>1, <1>10, QuietView DEF WriteHit
    <3>2. CASE ram_write' # None
      <4>1. \A p \in valid_bits_pw' : p \in Sets \X Ways /\ p \in valid_bits_pw
        BY <1>10 DEF WriteHit, CacheTypeOK
      <4> QED BY <3>2, <4>1, <1>1, <2>4, WritingView
    <3> QED BY <3>1, <3>2
  <2> QED BY <2>3, <2>5, <2>6 DEF LookupInv
<1>11. CASE Refill(refill)
  <2>1. /\ cache_state \notin {"IDLE", "DELAY_STATE"}
        /\ refill \in Line
        /\ req_r \in Request /\ req_r.block \in Block /\ req_r.word \in Words
        /\ set_way_select \subseteq Ways
        /\ set_way_select_num \in set_way_select
        /\ selected \in Sets \X Ways
    BY <1>11, SelectedWay DEF Refill, LookupInv, Request, Load, Store
  <2>2. merged(refill) \in Line /\ refill[req_r.word] \in Val
    BY <2>1, MergedIsLine DEF Line
  <2>3. /\ ready' = FALSE
        /\ cache_state' = "IDLE"
        /\ cache_out' \in Answer
        /\ access_rec' \in [Sets -> [0..2 -> BOOLEAN]]
        /\ req_r' = None /\ lookup' = None /\ max_record_r' = None
    BY <1>8, <1>11, <2>1, <2>2 DEF Refill
  <2>4. /\ ram_write'.set = req_r.block.set
        /\ ram_write'.ways = set_way_select
        /\ ram_write'.tag = req_r.block.tag
        /\ ram_write' \in RamWrite
        /\ req_r.block.tag \in Tags
    BY <1>11, <2>1, <2>2 DEF Refill, Block, RamWrite
  <2>5. CacheTypeOK'
    BY <1>2, <1>11, <2>1, <2>3, <2>4 DEF Refill, CacheTypeOK
  <2>6. ValidWaysHoldLines'
    <3>1. ram_write' # None /\ ram_write'.tag # None
      BY <1>11, <2>4, NoneAssumption DEF Refill
    <3>2. \A p \in valid_bits_pw' :
            p \in Sets \X Ways /\ (p \in valid_bits_pw \/ p = selected)
      BY <1>11, <2>1 DEF Refill, CacheTypeOK
    <3>3. selected[1] = ram_write'.set /\ selected[2] \in ram_write'.ways
      BY <2>1, <2>4 DEF selected
    <3> QED BY <1>1, <2>4, <3>1, <3>2, <3>3, WritingView
  <2> QED BY <2>3, <2>5, <2>6 DEF LookupInv
<1> QED BY <1>3, <1>4, <1>5, <1>6, <1>7, <1>9, <1>10, <1>11 DEF CacheClock

-----------------------------------------------------------------------------
(* The control invariant.  No part of it mentions data or addresses.        *)

\* A miss on its way: the pulse out of the cache, then the pending flag, then the
\* refill pulse; never two of them, and the cache waits in a miss state for all.
MissInv ==
  /\ evicted # None => miss # None
  /\ miss # None => inMiss /\ miss_pending = None /\ missed_in = None
  /\ miss_pending # None => inMiss /\ missed_in = None
  /\ missed_in # None => inMiss
  /\ inRead => miss_pending # None

\* The victim on its way to the FIFO: it leaves the staging register before the
\* miss behind it may be read, and the FIFO has room for the one being pushed.
VictimInv ==
  /\ miss # None => evict_hold = None /\ cache_fifo_in = None /\ ~drain_mode
  /\ evict_hold # None => miss_pending # None /\ ~inRead /\ cache_fifo_in = None
  /\ drain_mode => miss_pending # None /\ ~inRead
  /\ cache_fifo_in # None => ~fifo_full

\* A request pulse is only ever raised towards a ready cache.
PulseInv ==
  /\ c_state = "C_PORT_IDLE" => cpu_cache = None
  /\ cpu_cache # None => ready

IInv == /\ TypeOK /\ ValidWaysHoldLines /\ LookupInv
        /\ MissInv /\ VictimInv /\ PulseInv

-----------------------------------------------------------------------------
(* What each component does to the others' control, in one clock.           *)

LEMMA CacheEffects ==
  ASSUME LookupInv, MissInv, CacheClock(cpu_cache, missed_in)
  PROVE  /\ miss' # None => ~inMiss /\ inMiss'
         /\ evicted' # None => miss' # None
         /\ inMiss /\ missed_in = None => inMiss'
         /\ ready /\ cpu_cache = None => ready'
<1> USE DEF inMiss, MissInv
<1>1. CASE CacheAccept(cpu_cache) \/ CacheIdle(cpu_cache)
  BY <1>1 DEF CacheAccept, CacheIdle, LookupInv
<1>2. CASE Delay
  BY <1>2 DEF Delay
<1>3. CASE WriteHit \/ ReadHit
  BY <1>3 DEF WriteHit, ReadHit, EndAccess, LookupInv
<1>4. CASE Miss
  <2>1. evicted = None /\ ~inMiss /\ inMiss'
    BY <1>4 DEF Miss
  <2>2. req_r.block # None
    BY <1>4, NoneAssumption DEF Miss, LookupInv, Request, Load, Store
  <2> QED BY <1>4, <2>1, <2>2 DEF Miss, LookupInv
<1>5. CASE MissWait(missed_in)
  BY <1>5 DEF MissWait
<1>6. CASE Refill(missed_in)
  BY <1>6 DEF Refill, EndAccess, LookupInv
<1> QED BY <1>1, <1>2, <1>3, <1>4, <1>5, <1>6 DEF CacheClock

LEMMA MPortEffects ==
  ASSUME MissInv, NEW starved \in Starved, MPort(starved)
  PROVE  /\ miss_pending' # None => miss # None \/ miss_pending # None
         /\ miss # None => miss_pending' # None
         /\ missed_in' = None /\ miss_pending # None => miss_pending' # None
         /\ missed_in' # None => inRead /\ miss_pending' = None
         /\ inRead' => missed_in' = None /\ (inRead \/ cache_req)
<1> USE DEF inRead, MissInv, LatchMiss
<1>1. CASE StartWriteBack(starved)
  BY <1>1 DEF StartWriteBack
<1>2. CASE StartRead
  BY <1>2 DEF StartRead, cache_grant
<1>3. CASE MPortIdle(starved)
  BY <1>3 DEF MPortIdle
<1>4. CASE FifoRead
  BY <1>4 DEF FifoRead
<1>5. CASE WriteReq
  BY <1>5 DEF WriteReq
<1>6. CASE ReadReq
  BY <1>6 DEF ReadReq
<1>7. CASE ReadWait
  BY <1>7 DEF ReadWait
<1> QED BY <1>1, <1>2, <1>3, <1>4, <1>5, <1>6, <1>7 DEF MPort

\* The FIFO's queue keeps its type and bound, and grows only by a push.
LEMMA QueueStep ==
  ASSUME fifo_queue \in Seq(Victim), Len(fifo_queue) <= WB_FIFO_DEPTH,
         NEW victim \in Victim \union {None}, NEW read_en \in BOOLEAN,
         WRITE_BACK!Clock(victim, read_en)
  PROVE  /\ fifo_queue' \in Seq(Victim)
         /\ Len(fifo_queue') <= WB_FIFO_DEPTH
         /\ mem_fifo_out' \in Victim \union {None}
         /\ victim = None => Len(fifo_queue') <= Len(fifo_queue)
<1> DEFINE pop  == read_en /\ ~fifo_empty
           push == victim # None /\ ~fifo_full
           rest == IF pop THEN Tail(fifo_queue) ELSE fifo_queue
<1>1. /\ fifo_queue' = IF push THEN Append(rest, victim) ELSE rest
      /\ mem_fifo_out' = IF pop THEN Head(fifo_queue) ELSE None
  BY DEF WRITE_BACK!Clock, fifo_empty, fifo_full
<1>2. Len(fifo_queue) \in Nat /\ WB_FIFO_DEPTH \in Nat
  BY LenProperties, ControllerAssumption
<1>3. /\ rest \in Seq(Victim)
      /\ Len(rest) <= Len(fifo_queue) /\ Len(rest) \in Nat
      /\ pop => Head(fifo_queue) \in Victim
  BY <1>2, HeadTailProperties, LenProperties DEF fifo_empty, WRITE_BACK!empty
<1>4. push => victim \in Victim /\ Len(fifo_queue) < WB_FIFO_DEPTH
  BY <1>2 DEF fifo_full, WRITE_BACK!full
<1>5. push => /\ Append(rest, victim) \in Seq(Victim)
              /\ Len(Append(rest, victim)) = Len(rest) + 1
  BY <1>3, <1>4, AppendProperties
<1> QED BY <1>1, <1>2, <1>3, <1>4, <1>5

-----------------------------------------------------------------------------
LEMMA ControlStep ==
  ASSUME IInv, Next
  PROVE  MissInv' /\ VictimInv' /\ PulseInv'
<1> PICK starved \in Starved : ControllerClock(cpu_data_in, starved)
  BY DEF Next
<1> USE DEF IInv
<1>1. /\ miss' # None => ~inMiss /\ inMiss'
      /\ evicted' # None => miss' # None
      /\ inMiss /\ missed_in = None => inMiss'
      /\ ready /\ cpu_cache = None => ready'
  BY CacheEffects DEF ControllerClock
<1>2. /\ miss_pending' # None => miss # None \/ miss_pending # None
      /\ miss # None => miss_pending' # None
      /\ missed_in' = None /\ miss_pending # None => miss_pending' # None
      /\ missed_in' # None => inRead /\ miss_pending' = None
      /\ inRead' => missed_in' = None /\ (inRead \/ cache_req)
  BY MPortEffects DEF ControllerClock
<1>3. WriteBackPath /\ CPort(cpu_data_in)
  BY DEF ControllerClock
<1>4. MissInv'
  <2>1. evicted' # None => miss' # None
    BY <1>1
  <2>2. miss' # None => inMiss' /\ miss_pending' = None /\ missed_in' = None
    BY <1>1, <1>2 DEF MissInv
  <2>3. miss_pending' # None => inMiss' /\ missed_in' = None
    BY <1>1, <1>2 DEF MissInv
  <2>4. missed_in' # None => inMiss'
    BY <1>1, <1>2 DEF MissInv
  <2>5. inRead' => miss_pending' # None
    BY <1>2 DEF MissInv, cache_req
  <2> QED BY <2>1, <2>2, <2>3, <2>4, <2>5 DEF MissInv
<1>5. cache_fifo_in = None => Len(fifo_queue') <= Len(fifo_queue)
  <2>1. WRITE_BACK!Clock(cache_fifo_in, mem_fifo_read_en)
    BY DEF ControllerClock
  <2> QED BY <2>1, QueueStep DEF TypeOK, ControllerTypeOK
<1>6. Len(fifo_queue) \in Nat /\ Len(fifo_queue') \in Nat /\ WB_FIFO_DEPTH \in Nat
  <2>1. WRITE_BACK!Clock(cache_fifo_in, mem_fifo_read_en)
    BY DEF ControllerClock
  <2>2. fifo_queue' \in Seq(Victim)
    BY <2>1, QueueStep DEF TypeOK, ControllerTypeOK
  <2> QED BY <2>2, LenProperties, ControllerAssumption DEF TypeOK, ControllerTypeOK
<1>7. VictimInv'
  <2>1. miss' # None => evict_hold' = None /\ cache_fifo_in' = None /\ ~drain_mode'
    BY <1>1, <1>3 DEF WriteBackPath, HoldVictim, PushVictim, KeepVictim,
                      drain_mode_next, MissInv, VictimInv
  <2>2. evict_hold' # None => miss_pending' # None /\ ~inRead' /\ cache_fifo_in' = None
    BY <1>2, <1>3 DEF WriteBackPath, HoldVictim, PushVictim, KeepVictim,
                      cache_req, MissInv, VictimInv
  <2>3. drain_mode' => miss_pending' # None /\ ~inRead'
    BY <1>2, <1>3 DEF WriteBackPath, drain_mode_next, cache_req, MissInv, VictimInv
  <2>4. cache_fifo_in' # None => ~fifo_full'
    <3>1. cache_fifo_in' # None => ~fifo_full /\ cache_fifo_in = None
      BY <1>3 DEF WriteBackPath, HoldVictim, PushVictim, KeepVictim, VictimInv
    <3>2. Len(fifo_queue) <= WB_FIFO_DEPTH
      BY DEF TypeOK, ControllerTypeOK
    <3> QED BY <3>1, <3>2, <1>5, <1>6 DEF fifo_full, WRITE_BACK!full
  <2> QED BY <2>1, <2>2, <2>3, <2>4 DEF VictimInv
<1>8. PulseInv'
  BY <1>1, <1>3 DEF PulseInv, CPort, CPortAccept, CPortIdle, CPortAnswer, CPortWait
<1> QED BY <1>4, <1>7, <1>8
-----------------------------------------------------------------------------
(* Type correctness of one step, component by component.                    *)

LEMMA CPortTypes ==
  ASSUME ControllerTypeOK, cpu_data_in \in Request \union {None}, CPort(cpu_data_in)
  PROVE  /\ c_state' \in {"C_PORT_IDLE", "C_PORT_REQ"}
         /\ cpu_ready_out' \in BOOLEAN
         /\ cpu_cache' \in Request \union {None}
         /\ cpu_data_out' \in Answer \union {None}
  BY DEF ControllerTypeOK, CacheTypeOK, CPort, CPortAccept, CPortIdle, CPortAnswer,
         CPortWait

LEMMA WriteBackTypes ==
  ASSUME ControllerTypeOK, WriteBackPath
  PROVE  /\ evict_hold' \in Victim \union {None}
         /\ drain_mode' \in BOOLEAN
         /\ cache_fifo_in' \in Victim \union {None}
  BY DEF ControllerTypeOK, CacheTypeOK, WriteBackPath, HoldVictim, PushVictim, KeepVictim,
         drain_mode_next, fifo_empty, fifo_full, WRITE_BACK!empty, WRITE_BACK!full

LEMMA MPortTypes ==
  ASSUME ControllerTypeOK, NEW starved \in Starved, MPort(starved)
  PROVE  /\ mem_fifo_read_en' \in BOOLEAN
         /\ m_state' \in {"M_PORT_IDLE", "M_PORT_FIFO_READ", "M_PORT_WRITE_REQ",
                          "M_PORT_READ_REQ", "M_PORT_READ_WAIT"}
         /\ mem_req' \in Memory!MemReq \union {None}
         /\ missed_in' \in Line \union {None}
         /\ miss_pending' \in Block \union {None}
<1> USE DEF ControllerTypeOK, LatchMiss
<1>1. miss \in Block \union {None} /\ mem_data_out \in Line \union {None}
  BY DEF CacheTypeOK, Memory!TypeOK
<1>2. CASE StartWriteBack(starved)
  BY <1>1, <1>2 DEF StartWriteBack
<1>3. CASE StartRead
  <2>1. miss_pending \in Block
    BY <1>3 DEF StartRead, cache_grant, cache_req
  <2>2. mem_req' \in Memory!MemReq
    BY <1>3, <2>1 DEF StartRead, Memory!MemReq, Memory!Read
  <2> QED BY <1>1, <1>3, <2>2 DEF StartRead
<1>4. CASE MPortIdle(starved)
  BY <1>1, <1>4 DEF MPortIdle
<1>5. CASE FifoRead
  <2>1. mem_req' \in Memory!MemReq \union {None}
    <3>1. CASE mem_fifo_out # None
      <4>1. mem_req' = [write |-> TRUE, block |-> mem_fifo_out.block,
                        line |-> mem_fifo_out.line]
        BY <1>5, <3>1 DEF FifoRead
      <4>2. mem_fifo_out.block \in Block /\ mem_fifo_out.line \in Line
        BY <3>1 DEF Victim
      <4> QED BY <4>1, <4>2 DEF Memory!MemReq, Memory!Write
    <3>2. CASE mem_fifo_out = None
      BY <1>5, <3>2 DEF FifoRead
    <3> QED BY <3>1, <3>2
  <2> QED BY <1>1, <1>5, <2>1 DEF FifoRead
<1>6. CASE WriteReq
  BY <1>1, <1>6 DEF WriteReq
<1>7. CASE ReadReq
  BY <1>1, <1>7 DEF ReadReq
<1>8. CASE ReadWait
  BY <1>1, <1>8 DEF ReadWait
<1> QED BY <1>2, <1>3, <1>4, <1>5, <1>6, <1>7, <1>8 DEF MPort

LEMMA MemoryTypes ==
  ASSUME Memory!TypeOK, mem_req \in Memory!MemReq \union {None}, Memory!Clock(mem_req)
  PROVE  Memory!TypeOK'
<1> USE DEF Memory!TypeOK
<1>1. CASE Memory!Accept(mem_req)
  <2>1. mem_req \in Memory!MemReq
    BY <1>1 DEF Memory!Accept
  <2>2. mem_req.write => mem_req.block \in Block /\ mem_req.line \in Line
    BY <2>1 DEF Memory!MemReq, Memory!Read, Memory!Write
  <2>3. array' \in [Block -> Line]
    BY <1>1, <2>2 DEF Memory!Accept
  <2> QED BY <1>1, <2>1, <2>3 DEF Memory!Accept
<1>2. CASE Memory!Finish
  <2>1. mem_op \in Memory!MemReq
    BY <1>2 DEF Memory!Finish
  <2>2. ~mem_op.write => mem_op.block \in Block
    BY <2>1 DEF Memory!MemReq, Memory!Read, Memory!Write
  <2> QED BY <1>2, <2>2 DEF Memory!Finish
<1>3. CASE Memory!Wait(mem_req)
  BY <1>3 DEF Memory!Wait
<1> QED BY <1>1, <1>2, <1>3 DEF Memory!Clock

\* The LSU, the pipeline stage and the io bus.  A load that leaves the stage has
\* its answer: in the response cycle on the port, otherwise latched.
LEMMA StageTypes ==
  ASSUME TypeOK, Next
  PROVE  /\ em' \in Accesses \union IoAccess \union {None}
         /\ mem_wb' \in Val \union {None}
         /\ lsu_state' \in {"IDLE", "RESP_WAITING"}
         /\ cpu_data_in' \in Accesses \union {None}
         /\ io_req' \in IoAccess \union {None}
         /\ io_access_r' \in BOOLEAN
         /\ resp_data_r' \in Answer \union {None}
         /\ io_busy' \in BOOLEAN
         /\ io_ack' \in {IoAnswer, None}
<1> DEFINE r == LSU!resp(cpu_data_out, io_ack)
<1>1. /\ LSU!LsuClock(em, cpu_data_out, cpu_ready_out, io_ack, mem_advance)
      /\ Stalled \/ Advance
      /\ IoBus
  BY DEF Next
<1>2. cpu_data_out \in Answer \union {None} /\ io_ack \in Answer \union {None}
  BY DEF TypeOK, ControllerTypeOK, IoAnswer, Answer
<1>3. r \in Answer \union {None}
  BY <1>2 DEF LSU!resp
<1>4. IoBus => io_busy' \in BOOLEAN /\ io_ack' \in {IoAnswer, None}
  BY DEF IoBus, IoIdle, IoTake, IoWait, IoAnswered, TypeOK
<1>5. em' \in Accesses \union IoAccess \union {None}
  BY <1>1 DEF Stalled, Advance, TypeOK
<1>6. mem_wb' \in Val \union {None}
  <2>1. CASE Stalled \/ em \notin Load
    BY <1>1, <2>1 DEF Stalled, Advance
  <2>2. CASE Advance /\ em \in Load
    <3>1. em # None
      BY <2>2, NoneAssumption DEF Request
    <3> DEFINE responded == LSU!cache_responded(cpu_data_out, io_ack)
    <3>2. responded
      BY <2>2, <3>1 DEF Advance, mem_advance, req_stall, LSU!req_stall, TypeOK
    <3>5. r # None /\ LSU!be_cache_in(cpu_data_out, io_ack) = r
      BY <3>2 DEF LSU!cache_responded, LSU!be_cache_in
    <3>3. LSU!be_cache_in(cpu_data_out, io_ack) \in Answer
      BY <3>5, <1>3
    <3>4. \A a \in Answer : a.data \in Val \union {None}
      BY DEF Answer
    <3> QED BY <2>2, <3>3, <3>4 DEF Advance
  <2> QED BY <1>1, <2>1, <2>2
<1>7. /\ lsu_state' \in {"IDLE", "RESP_WAITING"}
      /\ cpu_data_in' \in Accesses \union {None}
      /\ io_req' \in IoAccess \union {None}
      /\ io_access_r' \in BOOLEAN
      /\ resp_data_r' \in Answer \union {None}
  <2>1. CASE LSU!LsuIssue(em)
    BY <2>1 DEF LSU!LsuIssue, TypeOK
  <2>2. CASE LSU!LsuIdle(em)
    BY <2>2 DEF LSU!LsuIdle, LSU!lsuVars, TypeOK
  <2>3. CASE LSU!LsuWait(cpu_data_out, cpu_ready_out, io_ack, mem_advance)
    <3>1. lsu_state = "RESP_WAITING" /\ r # None => mem_advance
      BY DEF mem_advance, req_stall, LSU!req_stall, LSU!cache_responded
    <3> QED BY <1>3, <2>3, <3>1 DEF LSU!LsuWait, TypeOK
  <2> QED BY <1>1, <2>1, <2>2, <2>3 DEF LSU!LsuClock
<1> QED BY <1>1, <1>4, <1>5, <1>6, <1>7

LEMMA TypeStep ==
  ASSUME IInv, Next
  PROVE  TypeOK' /\ ValidWaysHoldLines' /\ LookupInv'
<1> PICK starved \in Starved : ControllerClock(cpu_data_in, starved)
  BY DEF Next
<1> USE DEF IInv
<1>1. /\ CPort(cpu_data_in)
      /\ CacheClock(cpu_cache, missed_in)
      /\ WriteBackPath
      /\ WRITE_BACK!Clock(cache_fifo_in, mem_fifo_read_en)
      /\ MPort(starved)
      /\ Memory!Clock(mem_req)
  BY DEF ControllerClock
<1>2. ControllerTypeOK /\ cpu_data_in \in Request \union {None}
  BY AccessAssumption DEF TypeOK
<1>3. CacheInv'
  <2>1. CacheInv /\ cpu_cache \in Request \union {None} /\ missed_in \in Line \union {None}
    BY <1>2 DEF CacheInv, ControllerTypeOK
  <2> QED BY <1>1, <2>1, CacheStep
<1>4. /\ fifo_queue' \in Seq(Victim)
      /\ Len(fifo_queue') <= WB_FIFO_DEPTH
      /\ mem_fifo_out' \in Victim \union {None}
  BY <1>1, <1>2, QueueStep DEF ControllerTypeOK
<1>5. Memory!TypeOK'
  BY <1>1, <1>2, MemoryTypes DEF ControllerTypeOK
<1>6. ControllerTypeOK'
  BY <1>1, <1>2, <1>3, <1>4, <1>5, CPortTypes, WriteBackTypes, MPortTypes
     DEF CacheInv, ControllerTypeOK
<1> QED BY <1>3, <1>6, StageTypes DEF CacheInv, TypeOK

-----------------------------------------------------------------------------
LEMMA InitInv == Init => IInv
<1> SUFFICES ASSUME Init PROVE IInv
  OBVIOUS
<1> USE DEF Init, ControllerInit, CacheInit, WRITE_BACK!Init, Memory!Init, LSU!LsuInit
<1>1. CacheTypeOK
  BY DEF CacheTypeOK
<1>2. Memory!TypeOK
  BY ControllerAssumption DEF Memory!TypeOK
<1>3. fifo_queue \in Seq(Victim) /\ Len(fifo_queue) = 0
  OBVIOUS
<1>4. ControllerTypeOK
  <2>1. WB_FIFO_DEPTH \in Nat /\ 0 <= WB_FIFO_DEPTH
    BY ControllerAssumption
  <2> QED BY <1>1, <1>2, <1>3, <2>1 DEF ControllerTypeOK
<1>5. TypeOK
  BY <1>4 DEF TypeOK
<1>6. ValidWaysHoldLines /\ LookupInv
  BY DEF ValidWaysHoldLines, LookupInv
<1>7. MissInv /\ VictimInv /\ PulseInv
  BY DEF MissInv, VictimInv, PulseInv, inRead
<1> QED BY <1>5, <1>6, <1>7 DEF IInv

LEMMA StepInv == IInv /\ [Next]_vars => IInv'
<1> SUFFICES ASSUME IInv, [Next]_vars PROVE IInv'
  OBVIOUS
<1>1. CASE Next
  BY <1>1, ControlStep, TypeStep DEF IInv
<1>2. CASE UNCHANGED vars
  BY <1>2 DEF IInv, TypeOK, ControllerTypeOK, CacheTypeOK, Memory!TypeOK, ValidWaysHoldLines,
       LookupInv, MissInv, VictimInv, PulseInv, inMiss, inRead, tagOf, lineOf,
       writing, fifo_full, WRITE_BACK!full, vars, controllerVars, cacheVars, bitVars,
       ramVars, cPortVars, evictVars, fifoVars, mPortVars, memVars, stageVars, lsuVars
<1> QED BY <1>1, <1>2

LEMMA Invariance == Spec => []IInv
  BY InitInv, StepInv, PTL DEF Spec

-----------------------------------------------------------------------------
\* Every register of the memory stage keeps its type, for every geometry of the
\* cache, every FIFO depth and every set of accesses, starved FIFO or not.
THEOREM TypeCorrect == Spec => []TypeOK
<1>1. IInv => TypeOK
  BY DEF IInv
<1> QED BY <1>1, Invariance, PTL

\* No lookup, eviction or answer ever uses the contents of a RAM cell that nobody
\* wrote, although the tag and data RAMs have no reset (cache_bram).
THEOREM ValidLinesWritten == Spec => []ValidWaysHoldLines
<1>1. IInv => ValidWaysHoldLines
  BY DEF IInv
<1> QED BY <1>1, Invariance, PTL

\* A request pulse always finds the cache ready to take it (the C_PORT and the
\* inner cache never disagree about who is busy).
THEOREM PulsesTaken == Spec => []RequestAlwaysTaken
<1>1. IInv => RequestAlwaysTaken
  BY DEF IInv, PulseInv, LookupInv, RequestAlwaysTaken
<1> QED BY <1>1, Invariance, PTL

\* The staging register is empty whenever the cache evicts, however long the FIFO
\* is starved: no dirty line is overwritten on its way out.
THEOREM VictimsKept == Spec => []NoVictimOverwritten
<1>1. IInv => NoVictimOverwritten
  BY DEF IInv, MissInv, VictimInv, NoVictimOverwritten
<1> QED BY <1>1, Invariance, PTL

\* The FIFO has room for every victim that is pushed into it, at every depth.
THEOREM PushesAccepted == Spec => []PushNeverRefused
<1>1. IInv => PushNeverRefused
  BY DEF IInv, VictimInv, PushNeverRefused
<1> QED BY <1>1, Invariance, PTL

\* While a full FIFO drains, the miss that found it full is not read.
THEOREM DrainBeforeRead == Spec => []NoReadWhileDraining
<1>1. IInv => NoReadWhileDraining
  BY DEF IInv, VictimInv, NoReadWhileDraining, inRead
<1> QED BY <1>1, Invariance, PTL

-----------------------------------------------------------------------------
(* Where the data is: lines, copies and victims in flight.                  *)

\* No tag twice in a set; the lookup registers still are what the RAMs hold; and an
\* access that waits for its block has found it in no way.
CopyInv ==
  /\ \A s \in Sets : \A v, w \in Ways :
       /\ <<s, v>> \in valid_bits_pw /\ <<s, w>> \in valid_bits_pw
       /\ tagOf(s, v) = tagOf(s, w)
       => v = w
  /\ cache_state # "IDLE" =>
       \A w \in Ways : <<req_r.block.set, w>> \in valid_bits_pw =>
         /\ lookup.tag[w] = tagOf(req_r.block.set, w)
         /\ lookup.line[w] = lineOf(req_r.block.set, w)
  /\ inMiss => ~hit

-----------------------------------------------------------------------------
(* One posedge of the cache, as the view of its lines sees it.              *)

LEMMA ViewAfter ==
  ASSUME CacheTypeOK, CommitRam, NEW s \in Sets, NEW w \in Ways
  PROVE  /\ tagOf(s, w)' = IF writing(s, w)' /\ ram_write'.tag # None
                           THEN ram_write'.tag ELSE tagOf(s, w)
         /\ lineOf(s, w)' = IF writing(s, w)' THEN ram_write'.line ELSE lineOf(s, w)
  BY CommitKeepsView DEF tagOf, lineOf

SameView == \A s \in Sets, w \in Ways : tagOf(s, w)' = tagOf(s, w) /\ lineOf(s, w)' = lineOf(s, w)

\* An edge without a RAM write.
Looks ==
  /\ SameView /\ ram_write' = None
  /\ UNCHANGED <<valid_bits_pw, dirty_bits_pw>>

\* The stored word goes into the line that was hit, which becomes dirty.
Stores ==
  /\ cache_state = "DOING_WRITE" /\ hit
  /\ selected \in valid_bits_pw /\ tagOf(selected[1], selected[2]) = req_r.block.tag
  /\ \A s \in Sets, w \in Ways :
       /\ tagOf(s, w)' = tagOf(s, w)
       /\ lineOf(s, w)' = IF <<s, w>> = selected THEN merged(lineOf(s, w)) ELSE lineOf(s, w)
  /\ UNCHANGED valid_bits_pw
  /\ dirty_bits_pw' = dirty_bits_pw \union {selected}

\* The fetched line, with the word of a store that missed, takes the victim's way.
Fills(refill) ==
  /\ inMiss /\ refill # None /\ ~hit
  /\ \A s \in Sets, w \in Ways :
       /\ tagOf(s, w)' = IF <<s, w>> = selected THEN req_r.block.tag ELSE tagOf(s, w)
       /\ lineOf(s, w)' = IF <<s, w>> = selected THEN merged(refill) ELSE lineOf(s, w)
  /\ valid_bits_pw' = valid_bits_pw \union {selected}
  /\ dirty_bits_pw' = IF cache_state = "WRITE_MISS" THEN dirty_bits_pw \union {selected}
                                                   ELSE dirty_bits_pw \ {selected}

LEMMA OneHit ==
  ASSUME CacheInv, CopyInv, cache_state \notin {"IDLE", "DELAY_STATE"}, hit
  PROVE  /\ set_way_select_num \in Ways
         /\ set_way_select = {set_way_select_num}
         /\ selected \in valid_bits_pw
         /\ tagOf(req_r.block.set, set_way_select_num) = req_r.block.tag
         /\ lookup.line[set_way_select_num] = lineOf(req_r.block.set, set_way_select_num)
<1>1. req_r.block.set \in Sets
  BY DEF CacheInv, LookupInv, Request, Load, Store, Block
<1>2. \A w \in comparison : /\ w \in Ways /\ <<req_r.block.set, w>> \in valid_bits_pw
                            /\ tagOf(req_r.block.set, w) = req_r.block.tag
                            /\ lookup.line[w] = lineOf(req_r.block.set, w)
  BY DEF comparison, CopyInv
<1>3. Max(comparison) \in comparison
  BY <1>2, MaxOfWays DEF hit
<1>4. \A w \in comparison : w = Max(comparison)
  BY <1>1, <1>2, <1>3 DEF CopyInv
<1>5. comparison = {Max(comparison)}
  BY <1>3, <1>4
<1> QED BY <1>2, <1>3, <1>5 DEF set_way_select, set_way_select_num, selected

LEMMA CacheViews ==
  ASSUME CacheInv, CopyInv, NEW cpu_in \in Request \union {None},
         NEW refill \in Line \union {None}, CacheClock(cpu_in, refill)
  PROVE  \/ Looks /\ (CacheAccept(cpu_in) \/ CacheIdle(cpu_in) \/ Delay \/ ReadHit \/ Miss
                        \/ MissWait(refill))
         \/ Stores /\ WriteHit
         \/ Fills(refill) /\ Refill(refill)
<1> USE DEF CacheInv
<1>1. CommitRam /\ CacheTypeOK BY DEF CacheClock
<1>2. ASSUME ram_write' = None PROVE SameView
  BY <1>1, <1>2, ViewAfter DEF SameView, writing
<1>3. CASE CacheAccept(cpu_in) \/ CacheIdle(cpu_in) \/ Delay \/ Miss \/ MissWait(refill)
  BY <1>2, <1>3 DEF CacheAccept, CacheIdle, Delay, Miss, MissWait, Looks, bitVars
<1>4. CASE ReadHit
  BY <1>2, <1>4 DEF ReadHit, EndAccess, Looks
<1>5. CASE WriteHit
  <2>1. cache_state = "DOING_WRITE" /\ hit BY <1>5 DEF WriteHit
  <2>2. /\ set_way_select = {set_way_select_num} /\ selected \in valid_bits_pw
        /\ set_way_select_num \in Ways
        /\ tagOf(req_r.block.set, set_way_select_num) = req_r.block.tag
        /\ lookup.line[set_way_select_num] = lineOf(req_r.block.set, set_way_select_num)
    BY <2>1, OneHit
  <2>3. /\ ram_write' = [set |-> req_r.block.set, ways |-> {set_way_select_num}, tag |-> None,
                         line |-> merged(lineOf(req_r.block.set, set_way_select_num))]
        /\ UNCHANGED valid_bits_pw /\ dirty_bits_pw' = dirty_bits_pw \union {selected}
    BY <1>5, <2>2 DEF WriteHit
  <2>4. ram_write' # None
    <3>1. req_r \in Request /\ req_r.block \in Block /\ lookup.line[set_way_select_num] \in Line
      BY <2>1, <2>2 DEF LookupInv, selected, Request, Load, Store
    <3>2. ram_write' \in RamWrite
      BY <2>2, <2>3, <3>1, MergedIsLine DEF RamWrite, Block
    <3> QED BY <3>2, NoneAssumption
  <2>5. \A s \in Sets, w \in Ways : writing(s, w)' <=> <<s, w>> = selected
    BY <2>3, <2>4 DEF writing, selected
  <2>6. \A s \in Sets, w \in Ways :
          /\ tagOf(s, w)' = tagOf(s, w)
          /\ lineOf(s, w)' = IF <<s, w>> = selected THEN merged(lineOf(s, w)) ELSE lineOf(s, w)
    BY <1>1, <2>3, <2>5, ViewAfter DEF selected
  <2> QED BY <1>5, <2>1, <2>2, <2>3, <2>6 DEF Stores, selected
<1>6. CASE Refill(refill)
  <2>1. inMiss /\ refill \in Line /\ ~hit /\ req_r \in Request /\ req_r.block \in Block
    BY <1>6 DEF Refill, inMiss, CopyInv, LookupInv, Request, Load, Store
  <2>2. max_record_r \in Ways /\ set_way_select_num = max_record_r
        /\ set_way_select = {max_record_r}
    BY <2>1 DEF inMiss, LookupInv, set_way_select, set_way_select_num
  <2>3. /\ ram_write' = [set |-> req_r.block.set, ways |-> {max_record_r}, tag |-> req_r.block.tag,
                         line |-> merged(refill)]
        /\ valid_bits_pw' = valid_bits_pw \union {selected}
        /\ dirty_bits_pw' = IF cache_state = "WRITE_MISS" THEN dirty_bits_pw \union {selected}
                                                         ELSE dirty_bits_pw \ {selected}
    BY <1>6, <2>2 DEF Refill
  <2>4. ram_write' # None /\ ram_write'.tag # None
    <3>1. ram_write' \in RamWrite
      BY <2>1, <2>2, <2>3, MergedIsLine DEF RamWrite, Block
    <3> QED BY <2>1, <2>3, <3>1, NoneAssumption DEF Block
  <2>5. \A s \in Sets, w \in Ways : writing(s, w)' <=> <<s, w>> = selected
    BY <2>2, <2>3, <2>4 DEF writing, selected
  <2>6. \A s \in Sets, w \in Ways :
          /\ tagOf(s, w)' = IF <<s, w>> = selected THEN req_r.block.tag ELSE tagOf(s, w)
          /\ lineOf(s, w)' = IF <<s, w>> = selected THEN merged(refill) ELSE lineOf(s, w)
    BY <1>1, <2>3, <2>4, <2>5, ViewAfter
  <2> QED BY <1>6, <2>1, <2>3, <2>6, NoneAssumption DEF Fills
<1> QED BY <1>3, <1>4, <1>5, <1>6 DEF CacheClock

LEMMA CopyStep ==
  ASSUME CacheInv, CopyInv, NEW cpu_in \in Request \union {None},
         NEW refill \in Line \union {None}, CacheClock(cpu_in, refill)
  PROVE  CopyInv'
<1> USE DEF CacheInv
<1>1. CASE Looks /\ (CacheAccept(cpu_in) \/ CacheIdle(cpu_in) \/ Delay \/ ReadHit \/ Miss
                       \/ MissWait(refill))
  <2>1. CASE CacheAccept(cpu_in)
    <3>1. cpu_in \in Request /\ cpu_in.block.set \in Sets /\ ram_write = None
      BY <2>1 DEF CacheAccept, Request, Load, Store, Block, LookupInv
    <3>2. \A w \in Ways : /\ lookup'.tag[w] = tagOf(cpu_in.block.set, w)
                          /\ lookup'.line[w] = lineOf(cpu_in.block.set, w)
      BY <2>1, <3>1 DEF CacheAccept, tagOf, lineOf, writing
    <3>3. req_r' = cpu_in /\ ~inMiss' BY <2>1 DEF CacheAccept, inMiss
    <3> QED BY <1>1, <3>1, <3>2, <3>3 DEF CopyInv, Looks, SameView
  <2>2. CASE CacheIdle(cpu_in) \/ ReadHit
    BY <1>1, <2>2 DEF CacheIdle, ReadHit, EndAccess, CopyInv, Looks, SameView, inMiss
  <2>3. CASE Delay \/ Miss \/ MissWait(refill)
    <3>1. /\ cache_state # "IDLE" /\ UNCHANGED <<req_r, lookup, valid_bits_pw>>
          /\ inMiss' => ~hit
      BY <2>3 DEF Delay, Miss, MissWait, bitVars, inMiss, CopyInv
    <3>2. hit' <=> hit BY <3>1 DEF hit, comparison
    <3>3. req_r.block.set \in Sets
      BY <3>1 DEF LookupInv, Request, Load, Store, Block
    <3> QED BY <1>1, <3>1, <3>2, <3>3 DEF CopyInv, Looks, SameView
  <2> QED BY <1>1, <2>1, <2>2, <2>3
<1>2. CASE Stores /\ WriteHit
  BY <1>2 DEF WriteHit, EndAccess, CopyInv, Stores, inMiss
<1>3. CASE Fills(refill) /\ Refill(refill)
  <2>1. cache_state' = "IDLE" BY <1>3 DEF Refill, EndAccess
  <2>2. \A w \in Ways : <<req_r.block.set, w>> \in valid_bits_pw
        /\ tagOf(req_r.block.set, w) = req_r.block.tag => FALSE
    BY <1>3 DEF Fills, hit, comparison, CopyInv, inMiss
  <2>3. ASSUME NEW s \in Sets, NEW v \in Ways, NEW w \in Ways,
               <<s, v>> \in valid_bits_pw', <<s, w>> \in valid_bits_pw', tagOf(s, v)' = tagOf(s, w)'
        PROVE  v = w
    <3>1. CASE <<s, v>> = selected /\ <<s, w>> = selected BY <3>1
    <3>2. CASE <<s, v>> = selected /\ <<s, w>> # selected
      BY <1>3, <2>2, <2>3, <3>2 DEF Fills, selected
    <3>3. CASE <<s, v>> # selected /\ <<s, w>> = selected
      BY <1>3, <2>2, <2>3, <3>3 DEF Fills, selected
    <3>4. CASE <<s, v>> # selected /\ <<s, w>> # selected
      BY <1>3, <2>3, <3>4 DEF Fills, CopyInv
    <3> QED BY <3>1, <3>2, <3>3, <3>4
  <2> QED BY <2>1, <2>3 DEF CopyInv, inMiss
<1> QED BY <1>1, <1>2, <1>3, CacheViews

LEMMA CopyInit == Init => CopyInv
  BY DEF Init, ControllerInit, CacheInit, CopyInv, inMiss

LEMMA CopyInvariance == Spec => [](IInv /\ CopyInv)
<1>1. ASSUME IInv, CopyInv, [Next]_vars PROVE CopyInv'
  <2>1. CASE Next
    <3>1. PICK starved \in Starved : ControllerClock(cpu_data_in, starved)
      BY <2>1 DEF Next
    <3>2. /\ CacheInv /\ CacheClock(cpu_cache, missed_in)
          /\ cpu_cache \in Request \union {None} /\ missed_in \in Line \union {None}
      BY <1>1, <3>1 DEF ControllerClock, IInv, CacheInv, TypeOK, ControllerTypeOK
    <3> QED BY <1>1, <3>2, CopyStep
  <2>2. CASE UNCHANGED vars
    BY <1>1, <2>2 DEF CopyInv, inMiss, hit, comparison, tagOf, lineOf, writing, vars,
      controllerVars, cacheVars, bitVars, ramVars
  <2> QED BY <1>1, <2>1, <2>2
<1> QED BY CopyInit, InitInv, StepInv, <1>1, PTL DEF Spec

\* No block is ever in two ways of its set, counting the write that is still on its
\* way into the RAM: for every geometry, program and pattern of starvation.
THEOREM OneCopy == Spec => []SingleCopy
<1>1. ASSUME CopyInv PROVE SingleCopy
  <2>1. SUFFICES ASSUME NEW b \in Block PROVE Cardinality(waysOf(b)) <= 1
    BY DEF SingleCopy
  <2>2. CASE waysOf(b) = {}
    BY <2>2, FS_EmptySet
  <2>3. ASSUME NEW w \in waysOf(b) PROVE Cardinality(waysOf(b)) <= 1
    <3>1. \A v \in waysOf(b) : v = w
      BY <1>1, <2>3 DEF CopyInv, waysOf, Block
    <3>2. waysOf(b) = {w} BY <3>1
    <3> QED BY <3>2, FS_Singleton
  <2> QED BY <2>2, <2>3
<1> QED BY <1>1, CopyInvariance, PTL

-----------------------------------------------------------------------------
(* One victim at a time, for the design as it is built: Starved = {FALSE}.   *)

\* The port drains the FIFO as soon as the read it waited for is over, while the
\* cache still installs the line: the next miss finds the write-back path empty.
BacklogInv ==
  /\ ~drain_mode /\ Len(fifo_queue) <= 1
  /\ miss # None \/ evict_hold # None \/ cache_fifo_in # None => fifo_queue = <<>>
  /\ cache_fifo_in # None => miss_pending # None /\ ~inRead
  /\ fifo_queue # <<>> => miss_pending # None \/ missed_in # None \/ mem_fifo_read_en
  /\ missed_in # None => m_state = "M_PORT_IDLE"
  /\ mem_fifo_read_en => /\ m_state = "M_PORT_FIFO_READ" /\ mem_fifo_out = None
                         /\ fifo_queue # <<>> /\ cache_state = "IDLE" /\ ~ready
  /\ mem_fifo_out # None => m_state = "M_PORT_FIFO_READ"

\* What the memory port and the memory hold, in each state of the port.
PortInv ==
  /\ miss # None => miss = req_r.block
  /\ miss_pending # None => miss_pending = req_r.block
  /\ mem_req # None => m_state \in {"M_PORT_WRITE_REQ", "M_PORT_READ_REQ"}
  /\ m_state = "M_PORT_WRITE_REQ" => mem_req # None /\ mem_req.write
  /\ m_state = "M_PORT_READ_REQ" =>
       mem_req # None /\ mem_req = [write |-> FALSE, block |-> miss_pending]
  /\ mem_op # None => ~mem_ready /\ mem_data_out = None
  /\ mem_op # None /\ ~mem_op.write =>
       m_state = "M_PORT_READ_WAIT" /\ mem_op.block = miss_pending
  /\ mem_data_out # None =>
       m_state = "M_PORT_READ_WAIT" /\ mem_data_out = array[miss_pending]
  /\ missed_in # None => missed_in = array[req_r.block]

\* Victims between the cache's output register and the FIFO's, and after it.
Queued(q) == {q[i] : i \in 1..Len(q)}
Waiting == ({evicted, evict_hold, cache_fifo_in} \union Queued(fifo_queue)) \ {None}
Leaving == {mem_fifo_out, MemWrite} \ {None}

\* The line the miss displaces, if it has to be written back.
Doomed ==
  IF selected \in valid_bits_pw /\ selected \in dirty_bits_pw
  THEN {[block |-> [set |-> selected[1], tag |-> tagOf(selected[1], selected[2])],
         line |-> lineOf(selected[1], selected[2])]}
  ELSE {}

\* During a miss the displaced line is still in its way, and waiting too; after it,
\* a line on its way to memory is in no way, and the memory port holds at most one.
FlightInv ==
  /\ inMiss => Waiting = Doomed
  /\ Waiting # {} => inMiss \/ mem_fifo_read_en
  /\ ~inMiss => \A v \in Waiting : waysOf(v.block) = {}
  /\ \A v \in Leaving : waysOf(v.block) = {}

\* A clean way holds what memory holds; and the operation behind each cache state.
CleanInv ==
  /\ \A s \in Sets, w \in Ways : <<s, w>> \in valid_bits_pw /\ <<s, w>> \notin dirty_bits_pw =>
       lineOf(s, w) = array[[set |-> s, tag |-> tagOf(s, w)]]
  /\ cache_state \in {"DOING_WRITE", "WRITE_MISS"} => req_r \in Store
  /\ cache_state \in {"DOING_READ", "READ_MISS"} => req_r \in Load

Design == Starved \subseteq {FALSE}

LEMMA ShortSeq ==
  ASSUME NEW S, NEW q \in Seq(S), Len(q) <= 1, q # <<>>
  PROVE  q = <<Head(q)>> /\ Head(q) \in S /\ Tail(q) = <<>>
<1>1. Len(q) \in Nat /\ Len(q) # 0 BY EmptySeq
<1>2. Len(q) = 1 BY <1>1
<1>3. q[1] \in S /\ q = <<q[1]>> /\ Head(q) = q[1] BY <1>2
<1>4. Tail(q) = <<>>
  <2>1. Tail(q) \in Seq(S) /\ Len(Tail(q)) = Len(q) - 1 BY HeadTailProperties
  <2>2. Len(Tail(q)) = 0 BY <1>2, <2>1
  <2> QED BY <2>1, <2>2, EmptySeq
<1> QED BY <1>3, <1>4

LEMMA ShortQueue ==
  ASSUME ControllerTypeOK, BacklogInv, WRITE_BACK!Clock(cache_fifo_in, mem_fifo_read_en)
  PROVE  /\ cache_fifo_in # None =>
              fifo_queue = <<>> /\ fifo_queue' = <<cache_fifo_in>> /\ mem_fifo_out' = None
         /\ cache_fifo_in = None /\ mem_fifo_read_en =>
              fifo_queue' = <<>> /\ mem_fifo_out' \in Victim /\ fifo_queue = <<mem_fifo_out'>>
         /\ cache_fifo_in = None /\ ~mem_fifo_read_en =>
              UNCHANGED fifo_queue /\ mem_fifo_out' = None
<1> USE DEF ControllerTypeOK, BacklogInv
<1>1. fifo_empty <=> fifo_queue = <<>> BY DEF fifo_empty, WRITE_BACK!empty
<1>2. fifo_full <=> Len(fifo_queue) = WB_FIFO_DEPTH BY DEF fifo_full, WRITE_BACK!full
<1>3. CASE cache_fifo_in # None
  <2>1. fifo_queue = <<>> /\ ~fifo_full BY <1>2, <1>3, ControllerAssumption
  <2> QED BY <1>1, <1>2, <1>3, <2>1 DEF WRITE_BACK!Clock, fifo_empty, fifo_full
<1>4. CASE cache_fifo_in = None /\ mem_fifo_read_en
  <2>1. /\ fifo_queue = <<Head(fifo_queue)>> /\ Head(fifo_queue) \in Victim
        /\ Tail(fifo_queue) = <<>>
    BY <1>4, ShortSeq
  <2>2. fifo_queue # <<>> BY <1>4
  <2>3. /\ fifo_queue' = Tail(fifo_queue) /\ mem_fifo_out' = Head(fifo_queue)
    BY <1>1, <1>4, <2>2 DEF WRITE_BACK!Clock, fifo_empty
  <2> QED BY <1>4, <2>1, <2>3
<1>5. CASE cache_fifo_in = None /\ ~mem_fifo_read_en
  BY <1>5 DEF WRITE_BACK!Clock
<1> QED BY <1>3, <1>4, <1>5

LEMMA BacklogStep ==
  ASSUME Design, IInv, BacklogInv, Next
  PROVE  BacklogInv'
<1> PICK starved \in Starved : ControllerClock(cpu_data_in, starved)
  BY DEF Next
<1> USE DEF IInv
<1>0. starved = FALSE BY DEF Design
<1>1. /\ miss' # None => cache_state \in {"DOING_WRITE", "DOING_READ"}
      /\ miss' # None => ~inMiss /\ inMiss'
      /\ evicted' # None => miss' # None
      /\ inMiss /\ missed_in # None => cache_state' = "IDLE" /\ ~ready'
      /\ cache_state = "IDLE" /\ ~ready => cache_state' = "IDLE"
  <2>1. CacheClock(cpu_cache, missed_in) BY DEF ControllerClock
  <2>2. miss' # None => cache_state \in {"DOING_WRITE", "DOING_READ"}
    BY <2>1 DEF CacheClock, CacheAccept, CacheIdle, Delay, Miss, MissWait, ReadHit, WriteHit,
      Refill, MissInv, inMiss
  <2>3. inMiss /\ missed_in # None => cache_state' = "IDLE" /\ ~ready'
    BY <2>1 DEF CacheClock, CacheAccept, CacheIdle, Delay, Miss, MissWait, ReadHit, WriteHit,
      Refill, LookupInv, inMiss, EndAccess
  <2>4. cache_state = "IDLE" /\ ~ready => cache_state' = "IDLE"
    BY <2>1 DEF CacheClock, CacheAccept, CacheIdle, Delay, Miss, MissWait, ReadHit, WriteHit, Refill
  <2> QED BY <2>1, <2>2, <2>3, <2>4, CacheEffects
<1>2. /\ miss_pending' # None => miss # None \/ miss_pending # None
      /\ miss # None => miss_pending' # None
      /\ missed_in' = None /\ miss_pending # None => miss_pending' # None
      /\ missed_in' # None => inRead /\ miss_pending' = None
      /\ inRead' => missed_in' = None /\ (inRead \/ cache_req)
  BY MPortEffects DEF ControllerClock
<1>3. WriteBackPath BY DEF ControllerClock
<1>4. /\ cache_fifo_in # None =>
           fifo_queue = <<>> /\ fifo_queue' = <<cache_fifo_in>> /\ mem_fifo_out' = None
      /\ cache_fifo_in = None /\ mem_fifo_read_en =>
           fifo_queue' = <<>> /\ mem_fifo_out' \in Victim /\ fifo_queue = <<mem_fifo_out'>>
      /\ cache_fifo_in = None /\ ~mem_fifo_read_en =>
           UNCHANGED fifo_queue /\ mem_fifo_out' = None
  BY ShortQueue DEF ControllerClock, TypeOK
<1>5. fifo_empty <=> fifo_queue = <<>> BY DEF fifo_empty, WRITE_BACK!empty
<1>6. fifo_queue = <<>> => ~fifo_full
  BY ControllerAssumption DEF fifo_full, WRITE_BACK!full
<1>7. MPort(starved) BY DEF ControllerClock
<1>8. ~drain_mode' /\ Len(fifo_queue') <= 1
  <2>1. ~drain_mode'
    BY <1>3, <1>6 DEF WriteBackPath, drain_mode_next, BacklogInv, MissInv
  <2>2. Len(fifo_queue') <= 1
    <3>1. Len(<<>>) <= 1 /\ \A v : Len(<<v>>) <= 1 OBVIOUS
    <3> QED BY <1>4, <3>1, Zenon DEF BacklogInv
  <2> QED BY <2>1, <2>2
<1>9. miss' # None \/ evict_hold' # None \/ cache_fifo_in' # None => fifo_queue' = <<>>
  <2>1. CASE miss' # None
    BY <1>1, <1>4, <2>1 DEF BacklogInv, MissInv, inMiss
  <2>2. CASE evict_hold' # None \/ cache_fifo_in' # None
    BY <1>3, <1>4, <2>2 DEF WriteBackPath, HoldVictim, PushVictim, KeepVictim, BacklogInv,
      MissInv, VictimInv
  <2> QED BY <2>1, <2>2
<1>10. cache_fifo_in' # None => miss_pending' # None /\ ~inRead'
  BY <1>2, <1>3 DEF WriteBackPath, HoldVictim, PushVictim, KeepVictim, VictimInv, cache_req
<1>11. fifo_queue' # <<>> => miss_pending' # None \/ missed_in' # None \/ mem_fifo_read_en'
  <2>1. CASE cache_fifo_in # None
    BY <1>2, <2>1 DEF BacklogInv
  <2>2. CASE cache_fifo_in = None /\ mem_fifo_read_en
    BY <1>4, <2>2
  <2>3. CASE cache_fifo_in = None /\ ~mem_fifo_read_en /\ fifo_queue # <<>>
    <3>1. CASE miss_pending # None BY <1>2, <3>1
    <3>2. CASE missed_in # None
      <4>1. m_state = "M_PORT_IDLE" /\ fifo_grant(starved) /\ ~cache_grant
        BY <1>0, <1>5, <2>3, <3>2 DEF BacklogInv, fifo_grant, fifo_req, cache_req, cache_grant,
             MissInv
      <4> QED BY <1>7, <4>1 DEF MPort, StartWriteBack, StartRead, MPortIdle, FifoRead, WriteReq,
        ReadReq, ReadWait
    <3> QED BY <2>3, <3>1, <3>2 DEF BacklogInv
  <2> QED BY <1>4, <2>1, <2>2, <2>3
<1>12. missed_in' # None => m_state' = "M_PORT_IDLE"
  BY <1>7 DEF MPort, StartWriteBack, StartRead, MPortIdle, FifoRead, WriteReq, ReadReq, ReadWait
<1>13. mem_fifo_read_en' => /\ m_state' = "M_PORT_FIFO_READ" /\ mem_fifo_out' = None
                            /\ fifo_queue' # <<>> /\ cache_state' = "IDLE" /\ ~ready'
  <2> SUFFICES ASSUME mem_fifo_read_en'
               PROVE  /\ m_state' = "M_PORT_FIFO_READ" /\ mem_fifo_out' = None
                      /\ fifo_queue' # <<>> /\ cache_state' = "IDLE" /\ ~ready'
    OBVIOUS
  <2>1. StartWriteBack(starved)
    BY <1>7 DEF MPort, StartRead, MPortIdle, FifoRead, WriteReq, ReadReq, ReadWait
  <2>2. m_state = "M_PORT_IDLE" /\ m_state' = "M_PORT_FIFO_READ" /\ fifo_queue # <<>> /\ ~cache_req
    BY <1>5, <2>1 DEF StartWriteBack, fifo_grant, fifo_req
  <2>3. ~mem_fifo_read_en /\ cache_fifo_in = None /\ evict_hold = None /\ miss_pending = None
    BY <2>2 DEF BacklogInv, cache_req
  <2>4. missed_in # None /\ inMiss
    BY <2>2, <2>3 DEF BacklogInv, MissInv
  <2> QED BY <1>1, <1>4, <2>2, <2>3, <2>4
<1>14. mem_fifo_out' # None => m_state' = "M_PORT_FIFO_READ"
  BY <1>4, <1>7 DEF BacklogInv, MPort, StartWriteBack, StartRead, MPortIdle, FifoRead, WriteReq,
    ReadReq, ReadWait
<1> QED BY <1>8, <1>9, <1>10, <1>11, <1>12, <1>13, <1>14 DEF BacklogInv, inRead

\* One clock of the memory: it takes the request presented to it, or it goes on
\* with the one it has, or ends it.
LEMMA MemoryEffects ==
  ASSUME ControllerTypeOK, PortInv, Memory!Clock(mem_req)
  PROVE  \/ /\ mem_req # None /\ mem_ready /\ mem_op = None
            /\ mem_op' = mem_req /\ ~mem_ready' /\ mem_data_out' = None
            /\ array' = IF mem_req.write THEN [array EXCEPT ![mem_req.block] = mem_req.line]
                                         ELSE array
         \/ /\ ~(mem_req # None /\ mem_ready) /\ array' = array
            /\ \/ /\ mem_op' = None
                  /\ mem_data_out' = IF mem_op = None \/ mem_op.write THEN None
                                                                   ELSE array[mem_op.block]
               \/ mem_op # None /\ mem_op' = mem_op /\ ~mem_ready' /\ mem_data_out' = None
<1>1. CASE Memory!Accept(mem_req)
  BY <1>1 DEF Memory!Accept
<1>2. CASE Memory!Finish
  BY <1>2 DEF Memory!Finish, PortInv
<1>3. CASE Memory!Wait(mem_req)
  BY <1>3 DEF Memory!Wait, PortInv
<1> QED BY <1>1, <1>2, <1>3 DEF Memory!Clock

\* What the memory port does with its request and its pulse, by state.
LEMMA PortStates ==
  ASSUME ControllerTypeOK, PortInv, MissInv, BacklogInv, NEW starved \in Starved, MPort(starved)
  PROVE  \/ /\ m_state = "M_PORT_IDLE" /\ missed_in' = None
            /\ \/ m_state' \in {"M_PORT_IDLE", "M_PORT_FIFO_READ"} /\ mem_req' = None
               \/ /\ m_state' = "M_PORT_READ_REQ" /\ miss_pending' = miss_pending
                  /\ miss_pending # None /\ mem_req' = [write |-> FALSE, block |-> miss_pending]
         \/ /\ m_state = "M_PORT_FIFO_READ" /\ missed_in' = None
            /\ \/ /\ mem_fifo_out # None /\ m_state' = "M_PORT_WRITE_REQ"
                  /\ mem_req' = [write |-> TRUE, block |-> mem_fifo_out.block,
                                 line |-> mem_fifo_out.line]
               \/ mem_fifo_out = None /\ m_state' = m_state /\ mem_req' = None
         \/ /\ m_state = "M_PORT_WRITE_REQ" /\ missed_in' = None
            /\ \/ mem_ready /\ mem_req' = None /\ m_state' = "M_PORT_IDLE"
               \/ ~mem_ready /\ UNCHANGED <<m_state, mem_req>>
         \/ /\ m_state = "M_PORT_READ_REQ" /\ missed_in' = None /\ UNCHANGED miss_pending
            /\ \/ mem_ready /\ mem_req' = None /\ m_state' = "M_PORT_READ_WAIT"
               \/ ~mem_ready /\ UNCHANGED <<m_state, mem_req>>
         \/ /\ m_state = "M_PORT_READ_WAIT" /\ mem_req' = None
            /\ \/ mem_data_out = None /\ missed_in' = None /\ UNCHANGED <<m_state, miss_pending>>
               \/ /\ mem_data_out # None /\ missed_in' = mem_data_out
                  /\ miss_pending' = None /\ m_state' = "M_PORT_IDLE"
<1> USE DEF LatchMiss, MissInv, inRead
<1>0. m_state = "M_PORT_READ_REQ" => mem_req # None
  BY DEF PortInv
<1>1. CASE StartWriteBack(starved)
  BY <1>1 DEF StartWriteBack, PortInv
<1>2. CASE StartRead
  BY <1>2 DEF StartRead, cache_grant, cache_req
<1>3. CASE MPortIdle(starved)
  BY <1>3 DEF MPortIdle, PortInv
<1>4. CASE FifoRead
  BY <1>4 DEF FifoRead, PortInv
<1>5. CASE WriteReq
  BY <1>5 DEF WriteReq, PortInv
<1>6. CASE ReadReq
  BY <1>0, <1>6 DEF ReadReq, PortInv
<1>7. CASE ReadWait
  BY <1>7 DEF ReadWait, PortInv
<1> QED BY <1>1, <1>2, <1>3, <1>4, <1>5, <1>6, <1>7 DEF MPort

LEMMA PortStep ==
  ASSUME Design, IInv, BacklogInv, PortInv, Next
  PROVE  PortInv'
<1> PICK starved \in Starved : ControllerClock(cpu_data_in, starved)
  BY DEF Next
<1> USE DEF IInv
<1>1. CacheClock(cpu_cache, missed_in) /\ MPort(starved) BY DEF ControllerClock
<1>2. /\ miss' # None => miss' = req_r'.block
      /\ inMiss /\ missed_in = None => UNCHANGED req_r
  BY <1>1 DEF CacheClock, CacheAccept, CacheIdle, Delay, Miss, MissWait, ReadHit, WriteHit, Refill,
    EndAccess, MissInv, inMiss
<1>3. TypeOK' /\ MissInv'
  BY TypeStep, ControlStep
<1>4. miss_pending' # None => miss_pending' = req_r'.block
  <2>1. miss_pending' # None => miss_pending' \in {miss, miss_pending}
    BY <1>1 DEF MPort, StartWriteBack, StartRead, MPortIdle, FifoRead, WriteReq, ReadReq, ReadWait,
      LatchMiss
  <2>2. miss # None \/ miss_pending # None => inMiss /\ missed_in = None
    BY DEF MissInv
  <2>3. miss_pending' # None => miss # None \/ miss_pending # None
    BY <2>1
  <2> QED BY <1>2, <2>1, <2>2, <2>3 DEF PortInv
<1>5. /\ m_state = "M_PORT_READ_REQ" => miss_pending \in Block
      /\ m_state = "M_PORT_IDLE" /\ miss_pending # None => miss_pending \in Block
      /\ mem_fifo_out # None => mem_fifo_out \in Victim
  BY DEF TypeOK, ControllerTypeOK, MissInv, inRead
<1>6. /\ mem_req' # None => m_state' \in {"M_PORT_WRITE_REQ", "M_PORT_READ_REQ"}
      /\ m_state' = "M_PORT_WRITE_REQ" => mem_req' # None /\ mem_req'.write
      /\ m_state' = "M_PORT_READ_REQ" =>
           mem_req' # None /\ mem_req' = [write |-> FALSE, block |-> miss_pending']
  <2>1. \A b \in Block : [write |-> FALSE, block |-> b] # None
    <3>1. \A b \in Block : [write |-> FALSE, block |-> b] \in Memory!MemReq
      BY DEF Memory!MemReq, Memory!Read
    <3> QED BY <3>1, RequestAssumption
  <2>2. \A v \in Victim : [write |-> TRUE, block |-> v.block, line |-> v.line] # None
    <3>1. \A v \in Victim : [write |-> TRUE, block |-> v.block, line |-> v.line] \in Memory!MemReq
      BY DEF Memory!MemReq, Memory!Write, Victim
    <3> QED BY <3>1, RequestAssumption
  <2> QED BY <1>1, <1>5, <2>1, <2>2, PortStates DEF PortInv, TypeOK, ControllerTypeOK
<1>7. Memory!Clock(mem_req) BY DEF ControllerClock
<1>8. mem_op' # None => ~mem_ready' /\ mem_data_out' = None
  BY <1>7, MemoryEffects DEF TypeOK, ControllerTypeOK
<1>9. mem_op' # None /\ ~mem_op'.write =>
        m_state' = "M_PORT_READ_WAIT" /\ mem_op'.block = miss_pending'
  <2> SUFFICES ASSUME mem_op' # None, ~mem_op'.write
               PROVE  m_state' = "M_PORT_READ_WAIT" /\ mem_op'.block = miss_pending'
    OBVIOUS
  <2>1. CASE mem_req # None /\ mem_ready /\ mem_op' = mem_req
    <3>1. m_state = "M_PORT_READ_REQ" /\ mem_op'.block = miss_pending
      BY <2>1 DEF PortInv
    <3> QED BY <1>1, <2>1, <3>1, PortStates DEF TypeOK, ControllerTypeOK
  <2>2. CASE mem_op # None /\ mem_op' = mem_op
    <3>1. m_state = "M_PORT_READ_WAIT" /\ mem_op.block = miss_pending /\ mem_data_out = None
      BY <2>2 DEF PortInv
    <3> QED BY <1>1, <2>2, <3>1, PortStates DEF TypeOK, ControllerTypeOK
  <2> QED BY <1>7, <2>1, <2>2, MemoryEffects DEF TypeOK, ControllerTypeOK
<1>10. mem_data_out' # None =>
         m_state' = "M_PORT_READ_WAIT" /\ mem_data_out' = array'[miss_pending']
  <2> SUFFICES ASSUME mem_data_out' # None
               PROVE  m_state' = "M_PORT_READ_WAIT" /\ mem_data_out' = array'[miss_pending']
    OBVIOUS
  <2>1. mem_op # None /\ ~mem_op.write /\ mem_data_out' = array[mem_op.block] /\ array' = array
    BY <1>7, MemoryEffects DEF TypeOK, ControllerTypeOK
  <2>2. m_state = "M_PORT_READ_WAIT" /\ mem_op.block = miss_pending /\ mem_data_out = None
    BY <2>1 DEF PortInv
  <2> QED BY <1>1, <2>1, <2>2, PortStates DEF TypeOK, ControllerTypeOK
<1>11. missed_in' # None => missed_in' = array'[req_r'.block]
  <2> SUFFICES ASSUME missed_in' # None PROVE missed_in' = array'[req_r'.block]
    OBVIOUS
  <2>1. m_state = "M_PORT_READ_WAIT" /\ missed_in' = mem_data_out /\ mem_data_out # None
    BY <1>1, PortStates DEF TypeOK, ControllerTypeOK
  <2>2. mem_req = None /\ missed_in' = array[miss_pending]
    BY <2>1 DEF PortInv
  <2>3. array' = array
    BY <1>7, <2>2, MemoryEffects DEF TypeOK, ControllerTypeOK
  <2>4. miss_pending = req_r.block /\ inMiss /\ missed_in = None
    BY <2>1 DEF PortInv, MissInv, inRead
  <2> QED BY <1>2, <2>2, <2>3, <2>4
<1> QED BY <1>2, <1>4, <1>6, <1>8, <1>9, <1>10, <1>11 DEF PortInv

-----------------------------------------------------------------------------
(* Where the victims go in one clock.                                       *)

LEMMA QueuedIs ==
  /\ Queued(<<>>) = {}
  /\ \A v : Queued(<<v>>) = {v}
<1>1. Len(<<>>) = 0 /\ \A v : Len(<<v>>) = 1 /\ <<v>>[1] = v
  OBVIOUS
<1> QED BY <1>1 DEF Queued

LEMMA WaitingMoves ==
  ASSUME Design, IInv, BacklogInv, Next
  PROVE  /\ miss' # None => Waiting' = {evicted'} \ {None} /\ ~mem_fifo_read_en
         /\ miss' = None /\ ~mem_fifo_read_en => Waiting' = Waiting
         /\ mem_fifo_read_en => /\ Waiting' = {} /\ Waiting = {mem_fifo_out'}
                               /\ mem_fifo_out' \in Victim
         /\ ~mem_fifo_read_en => mem_fifo_out' = None
<1> PICK starved \in Starved : ControllerClock(cpu_data_in, starved)
  BY DEF Next
<1> USE DEF IInv
<1>1. /\ cache_fifo_in # None =>
           fifo_queue = <<>> /\ fifo_queue' = <<cache_fifo_in>> /\ mem_fifo_out' = None
      /\ cache_fifo_in = None /\ mem_fifo_read_en =>
           fifo_queue' = <<>> /\ mem_fifo_out' \in Victim /\ fifo_queue = <<mem_fifo_out'>>
      /\ cache_fifo_in = None /\ ~mem_fifo_read_en =>
           UNCHANGED fifo_queue /\ mem_fifo_out' = None
  BY ShortQueue DEF ControllerClock, TypeOK
<1>2. MissInv' /\ VictimInv' /\ BacklogInv'
  BY ControlStep, BacklogStep
<1>3. /\ evict_hold' = evicted
      /\ cache_fifo_in' = evict_hold
  <2>1. WriteBackPath BY DEF ControllerClock
  <2>2. evicted # None => evict_hold = None BY DEF MissInv, VictimInv
  <2>3. evict_hold # None => ~fifo_full
    BY ControllerAssumption DEF BacklogInv, fifo_full, WRITE_BACK!full
  <2> QED BY <2>1, <2>2, <2>3 DEF WriteBackPath, HoldVictim, PushVictim, KeepVictim
<1>4. mem_fifo_read_en => cache_fifo_in = None /\ evict_hold = None /\ evicted = None
      /\ miss' = None
  <2>1. CacheClock(cpu_cache, missed_in) BY DEF ControllerClock
  <2>2. cache_state = "IDLE" => miss' = None
    BY <2>1 DEF CacheClock, CacheAccept, CacheIdle, Delay, Miss, MissWait, ReadHit, WriteHit, Refill
  <2> QED BY <2>2 DEF BacklogInv, MissInv
<1>5. miss' = None => evicted' = None BY <1>2 DEF MissInv
<1>6. None \notin Victim BY NoneAssumption
<1>7. CASE mem_fifo_read_en
  <2>1. Queued(fifo_queue) = {mem_fifo_out'} /\ Queued(fifo_queue') = {}
        BY <1>1, <1>4, <1>7, QueuedIs
  <2> QED BY <1>1, <1>3, <1>4, <1>5, <1>6, <1>7, <2>1 DEF Waiting
<1>8. CASE ~mem_fifo_read_en
  <2>1. Queued(fifo_queue') \ {None} = ({cache_fifo_in} \union Queued(fifo_queue)) \ {None}
    <3>1. CASE cache_fifo_in # None
      <4>1. Queued(fifo_queue) = {} /\ Queued(fifo_queue') = {cache_fifo_in} BY <1>1, <3>1, QueuedIs
      <4> QED BY <4>1
    <3>2. CASE cache_fifo_in = None
      <4>1. Queued(fifo_queue') = Queued(fifo_queue) BY <1>1, <1>8, <3>2
      <4> QED BY <3>2, <4>1
    <3> QED BY <3>1, <3>2
  <2>2. Waiting' = (({evicted'} \union {evicted, evict_hold, cache_fifo_in})
                      \union Queued(fifo_queue)) \ {None}
    BY <1>3, <2>1 DEF Waiting
  <2>3. miss' = None => Waiting' = Waiting
    BY <1>5, <2>2 DEF Waiting
  <2>4. miss' # None => Waiting' = {evicted'} \ {None}
    <3>1. miss' # None => fifo_queue' = <<>> /\ cache_fifo_in' = None /\ evict_hold' = None
      BY <1>2 DEF VictimInv, BacklogInv
    <3> QED BY <3>1, QueuedIs DEF Waiting
  <2> QED BY <1>1, <1>8, <2>3, <2>4
<1> QED BY <1>7, <1>8

\* A victim that is leaving moves from the FIFO's output to the request, and from
\* there into the array; the array changes in no other way.
LEMMA LeavingMoves ==
  ASSUME IInv, BacklogInv, PortInv, NEW starved \in Starved, ControllerClock(cpu_data_in, starved)
  PROVE  \/ /\ mem_fifo_read_en /\ Leaving = {} /\ array' = array
            /\ Leaving' = {mem_fifo_out'} \ {None}
         \/ ~mem_fifo_read_en /\ Leaving' = Leaving /\ array' = array
         \/ /\ ~mem_fifo_read_en /\ Leaving' = {}
            /\ \E v \in Victim : /\ Leaving = {v}
                                  /\ array' = [array EXCEPT ![v.block] = v.line]
<1> USE DEF IInv
<1>1. MPort(starved) /\ Memory!Clock(mem_req) /\ ControllerTypeOK
  BY DEF ControllerClock, TypeOK
<1>2. ~mem_fifo_read_en => mem_fifo_out' = None
  BY ShortQueue DEF ControllerClock, TypeOK
<1>3. None \notin Victim BY NoneAssumption
<1>4. CASE mem_fifo_read_en
  <2>1. m_state = "M_PORT_FIFO_READ" /\ mem_fifo_out = None /\ mem_req = None
    BY <1>4 DEF BacklogInv, PortInv
  <2>2. mem_req' = None BY <1>1, <2>1, PortStates
  <2>3. array' = array BY <1>1, <2>1, MemoryEffects
  <2> QED BY <1>4, <2>1, <2>2, <2>3 DEF Leaving, MemWrite
<1>5. CASE ~mem_fifo_read_en /\ mem_fifo_out # None
  <2>1. m_state = "M_PORT_FIFO_READ" /\ mem_req = None /\ mem_fifo_out \in Victim
    BY <1>1, <1>5 DEF BacklogInv, PortInv, ControllerTypeOK
  <2>2. mem_req' = [write |-> TRUE, block |-> mem_fifo_out.block, line |-> mem_fifo_out.line]
    BY <1>1, <1>5, <2>1, PortStates
  <2>3. mem_req' # None
    <3>1. mem_req' \in Memory!MemReq
      BY <2>1, <2>2 DEF Memory!MemReq, Memory!Write, Victim
    <3> QED BY <3>1, RequestAssumption
  <2>4. MemWrite' = mem_fifo_out
    <3>1. MemWrite' = [block |-> mem_fifo_out.block, line |-> mem_fifo_out.line]
      BY <2>2, <2>3 DEF MemWrite
    <3> QED BY <2>1, <3>1 DEF Victim
  <2>5. array' = array BY <1>1, <2>1, MemoryEffects
  <2>6. Leaving = {mem_fifo_out} /\ Leaving' = {mem_fifo_out}
    BY <1>2, <1>3, <1>5, <2>1, <2>4 DEF Leaving, MemWrite
  <2> QED BY <1>5, <2>5, <2>6
<1>6. CASE ~mem_fifo_read_en /\ mem_fifo_out = None /\ m_state = "M_PORT_WRITE_REQ"
  <2>1. mem_req # None /\ mem_req.write /\ mem_req \in Memory!MemReq
    BY <1>1, <1>6 DEF PortInv, ControllerTypeOK
  <2>2. MemWrite \in Victim /\ MemWrite = [block |-> mem_req.block, line |-> mem_req.line]
    BY <2>1 DEF MemWrite, Victim, Memory!MemReq, Memory!Read, Memory!Write
  <2>3. Leaving = {MemWrite} BY <1>3, <1>6, <2>2 DEF Leaving
  <2>4. CASE mem_ready
    <3>1. mem_req' = None BY <1>1, <1>6, <2>4, PortStates
    <3>2. array' = [array EXCEPT ![mem_req.block] = mem_req.line]
      BY <1>1, <2>1, <2>4, MemoryEffects
    <3>3. array' = [array EXCEPT ![MemWrite.block] = MemWrite.line] BY <2>2, <3>2
    <3>4. Leaving' = {} BY <1>2, <1>6, <3>1 DEF Leaving, MemWrite
    <3> QED BY <1>6, <2>2, <2>3, <3>3, <3>4
  <2>5. CASE ~mem_ready
    <3>1. mem_req' = mem_req BY <1>1, <1>6, <2>5, PortStates
    <3>2. array' = array BY <1>1, <2>5, MemoryEffects
    <3>3. Leaving' = Leaving BY <1>2, <1>6, <3>1 DEF Leaving, MemWrite
    <3> QED BY <1>6, <3>2, <3>3
  <2> QED BY <2>4, <2>5
<1>7. CASE ~mem_fifo_read_en /\ mem_fifo_out = None /\ m_state # "M_PORT_WRITE_REQ"
  <2>1. MemWrite = None BY <1>7 DEF MemWrite, PortInv
  <2>2. MemWrite' = None
    <3>1. mem_req' = None \/ ~mem_req'.write
      BY <1>1, <1>7, PortStates DEF PortInv
    <3> QED BY <3>1 DEF MemWrite
  <2>3. array' = array
    <3>1. mem_req = None \/ ~mem_req.write BY <1>7 DEF PortInv
    <3> QED BY <1>1, <3>1, MemoryEffects
  <2> QED BY <1>2, <1>7, <2>1, <2>2, <2>3 DEF Leaving
<1> QED BY <1>4, <1>5, <1>6, <1>7

-----------------------------------------------------------------------------
(* What a step of the cache does to the ways of a block.                    *)

DataInv == CopyInv /\ BacklogInv /\ PortInv /\ FlightInv /\ CleanInv

LEMMA QuietWays ==
  ASSUME Looks \/ Stores
  PROVE  \A b \in Block : waysOf(b)' = waysOf(b)
<1>1. \A b \in Block : b.set \in Sets /\ b.tag \in Tags BY DEF Block
<1> QED BY <1>1 DEF Looks, Stores, SameView, waysOf

LEMMA FillWays ==
  ASSUME CacheInv, CopyInv, Fills(missed_in)
  PROVE  /\ selected \in Sets \X Ways /\ selected[1] = req_r.block.set /\ req_r.block \in Block
         /\ \A b \in Block :
              IF b = req_r.block THEN waysOf(b) = {} /\ waysOf(b)' = {selected[2]}
              ELSE \A w : w \in waysOf(b)' <=> w \in waysOf(b) /\ <<b.set, w>> # selected
<1>1. \A b \in Block : b.set \in Sets /\ b.tag \in Tags BY DEF Block
<1>2. inMiss /\ ~hit BY DEF Fills
<1>3. /\ selected \in Sets \X Ways /\ selected[1] = req_r.block.set /\ req_r.block \in Block
      /\ selected = <<req_r.block.set, selected[2]>> /\ selected[2] \in Ways
  BY <1>2, SelectedWay DEF CacheInv, LookupInv, inMiss, Request, Load, Store, selected
<1>4. \A b \in Block : \A w \in Ways :
        /\ w \in waysOf(b) <=> <<b.set, w>> \in valid_bits_pw /\ tagOf(b.set, w) = b.tag
        /\ w \in waysOf(b)' <=>
             IF <<b.set, w>> = selected THEN req_r.block.tag = b.tag
             ELSE <<b.set, w>> \in valid_bits_pw /\ tagOf(b.set, w) = b.tag
  BY <1>1 DEF Fills, waysOf
<1>5. \A b \in Block : waysOf(b) \subseteq Ways /\ waysOf(b)' \subseteq Ways BY DEF waysOf
<1>6. waysOf(req_r.block) = {}
  BY <1>2, <1>3 DEF waysOf, hit, comparison, CopyInv, inMiss
<1>7. ASSUME NEW b \in Block, b = req_r.block PROVE waysOf(b)' = {selected[2]}
  <2>1. selected[2] \in waysOf(b)' BY <1>3, <1>4, <1>7
  <2>2. ASSUME NEW w \in waysOf(b)' PROVE w = selected[2]
    <3>1. w \in Ways /\ w \notin waysOf(b) BY <1>5, <1>6, <1>7
    <3>2. <<b.set, w>> = selected BY <1>4, <3>1
    <3> QED BY <1>3, <3>2
  <2> QED BY <2>1, <2>2
<1>8. ASSUME NEW b \in Block, b # req_r.block, NEW w
      PROVE  w \in waysOf(b)' <=> w \in waysOf(b) /\ <<b.set, w>> # selected
  <2>1. b.set = req_r.block.set => b.tag # req_r.block.tag BY <1>3, <1>8 DEF Block
  <2>2. CASE w \in Ways /\ <<b.set, w>> = selected
    <3>1. b.set = req_r.block.set BY <1>3, <2>2
    <3> QED BY <1>4, <2>1, <2>2, <3>1
  <2>3. CASE w \in Ways /\ <<b.set, w>> # selected BY <1>4, <2>3
  <2>4. CASE w \notin Ways BY <1>5, <2>4
  <2> QED BY <2>2, <2>3, <2>4
<1> QED BY <1>3, <1>6, <1>7, <1>8

\* The displaced line is in its own way and in no other, and not the wanted block.
LEMMA DoomedIs ==
  ASSUME CacheInv, CopyInv, inMiss, NEW v \in Doomed
  PROVE  /\ v.block \in Block /\ v.block # req_r.block /\ v \in Victim
         /\ waysOf(v.block) = {selected[2]}
         /\ v.block.set = selected[1] /\ v.line = lineOf(selected[1], selected[2])
         /\ selected = <<req_r.block.set, max_record_r>>
         /\ selected \in valid_bits_pw /\ selected \in dirty_bits_pw
<1>1. /\ selected \in Sets \X Ways /\ req_r.block \in Block /\ max_record_r \in Ways
  BY SelectedWay DEF CacheInv, LookupInv, inMiss, Request, Load, Store
<1>2. ~hit /\ selected = <<req_r.block.set, max_record_r>>
  BY DEF CopyInv, selected, set_way_select_num
<1>3. /\ selected \in valid_bits_pw /\ selected \in dirty_bits_pw
      /\ v = [block |-> [set |-> selected[1], tag |-> tagOf(selected[1], selected[2])],
              line |-> lineOf(selected[1], selected[2])]
  BY DEF Doomed
<1>4. tagOf(selected[1], selected[2]) \in Tags /\ lineOf(selected[1], selected[2]) \in Line
  BY <1>3 DEF CacheInv, ValidWaysHoldLines
<1>5. v.block \in Block /\ v \in Victim BY <1>1, <1>3, <1>4 DEF Block, Victim
<1>6. v.block # req_r.block
  <2>1. tagOf(selected[1], selected[2]) # req_r.block.tag
    BY <1>1, <1>2, <1>3 DEF hit, comparison, CopyInv, inMiss
  <2> QED BY <1>3, <2>1
<1>7. waysOf(v.block) = {selected[2]}
  <2>1. selected[2] \in waysOf(v.block) BY <1>1, <1>2, <1>3 DEF waysOf
  <2>2. \A w \in waysOf(v.block) : w = selected[2]
    BY <1>1, <1>5, <2>1 DEF waysOf, CopyInv, Block
  <2> QED BY <2>1, <2>2
<1> QED BY <1>2, <1>3, <1>5, <1>6, <1>7

LEMMA FlightStep ==
  ASSUME Design, IInv, DataInv, Next
  PROVE  FlightInv'
<1> PICK starved \in Starved : ControllerClock(cpu_data_in, starved)
  BY DEF Next
<1> USE DEF DataInv
<1>1. /\ CacheInv /\ CacheClock(cpu_cache, missed_in) /\ IInv'
      /\ cpu_cache \in Request \union {None} /\ missed_in \in Line \union {None}
  BY StepInv DEF ControllerClock, IInv, CacheInv, TypeOK, ControllerTypeOK
<1>2. BacklogInv' BY BacklogStep
<1>3. \/ Looks /\ (CacheAccept(cpu_cache) \/ CacheIdle(cpu_cache) \/ Delay \/ ReadHit \/ Miss
                     \/ MissWait(missed_in))
      \/ Stores /\ WriteHit
      \/ Fills(missed_in) /\ Refill(missed_in)
  BY <1>1, CacheViews
<1>4. /\ miss' # None => Waiting' = {evicted'} \ {None} /\ ~mem_fifo_read_en
      /\ miss' = None /\ ~mem_fifo_read_en => Waiting' = Waiting
      /\ mem_fifo_read_en => /\ Waiting' = {} /\ Waiting = {mem_fifo_out'}
                            /\ mem_fifo_out' \in Victim
      /\ ~mem_fifo_read_en => mem_fifo_out' = None
  BY WaitingMoves
<1>5. /\ inMiss' => Miss \/ MissWait(missed_in)
      /\ inMiss /\ ~inMiss' => Fills(missed_in)
      /\ miss' # None => Miss
      /\ Miss => miss' # None
      /\ Fills(missed_in) => inMiss /\ missed_in # None
  <2>1. Miss => miss' # None
    BY <1>1, NoneAssumption DEF Miss, CacheInv, LookupInv, Request, Load, Store
  <2> QED BY <1>1, <1>3, <2>1 DEF CacheClock, CacheAccept, CacheIdle, Delay, Miss, MissWait,
        ReadHit, WriteHit, Refill, EndAccess, inMiss, Fills, IInv, MissInv
<1>6. inMiss' => Waiting' = Doomed'
  <2>1. ASSUME Miss \/ MissWait(missed_in)
        PROVE  /\ selected' = <<req_r.block.set, max_record_r>> /\ selected' = selected
               /\ ~hit /\ selected \in Sets \X Ways
               /\ Doomed' = Doomed /\ cache_state \notin {"IDLE", "DELAY_STATE"}
    <3>1. /\ cache_state \notin {"IDLE", "DELAY_STATE"} /\ ~hit
          /\ UNCHANGED <<req_r, lookup, max_record_r, valid_bits_pw, dirty_bits_pw>>
      BY <2>1 DEF Miss, MissWait, bitVars, CopyInv, inMiss
    <3>2. (hit' <=> hit) /\ selected \in Sets \X Ways
      BY <1>1, <3>1, SelectedWay DEF hit, comparison
    <3>3. selected' = selected /\ selected = <<req_r.block.set, max_record_r>>
      BY <3>1, <3>2 DEF selected, set_way_select_num
    <3>4. SameView
      BY <1>3, <2>1 DEF Looks, Miss, MissWait, WriteHit, Refill
    <3>5. /\ tagOf(selected[1], selected[2])' = tagOf(selected[1], selected[2])
          /\ lineOf(selected[1], selected[2])' = lineOf(selected[1], selected[2])
      BY <3>2, <3>3, <3>4 DEF SameView
    <3>6. Doomed' = Doomed BY <3>1, <3>3, <3>5 DEF Doomed
    <3> QED BY <3>1, <3>2, <3>3, <3>6
  <2>2. CASE Miss
    <3>1. Waiting' = {evicted'} \ {None} BY <1>4, <1>5, <2>2
    <3>2. evicted = None BY <2>2 DEF Miss, IInv, MissInv, inMiss
    <3>3. selected = <<req_r.block.set, max_record_r>> BY <2>1, <2>2
    <3>4. set_evict_valid <=> selected \in valid_bits_pw /\ selected \in dirty_bits_pw
      BY <2>1, <2>2, <3>3 DEF set_evict_valid
    <3>5. set_way_select_num = max_record_r /\ max_record_r \in Ways
      BY <2>1, <2>2, <1>1, SelectedWay DEF set_way_select_num
    <3>6. set_evict_valid =>
            /\ lookup.tag[max_record_r] = tagOf(req_r.block.set, max_record_r)
            /\ lookup.line[max_record_r] = lineOf(req_r.block.set, max_record_r)
      BY <2>1, <2>2, <3>3, <3>4, <3>5 DEF CopyInv
    <3>7. CASE set_evict_valid
      <4>1. evicted' = [block |-> [set |-> req_r.block.set,
                                   tag |-> tagOf(req_r.block.set, max_record_r)],
                        line |-> lineOf(req_r.block.set, max_record_r)]
        BY <2>2, <3>5, <3>6, <3>7 DEF Miss
      <4>2. Doomed = {evicted'} BY <3>3, <3>4, <3>7, <4>1 DEF Doomed
      <4>3. evicted' # None
        <5>1. tagOf(req_r.block.set, max_record_r) \in Tags
              /\ lineOf(req_r.block.set, max_record_r) \in Line
          BY <1>1, <3>3, <3>4, <3>7 DEF CacheInv, ValidWaysHoldLines
        <5>2. req_r.block.set \in Sets BY <2>1, <2>2, <3>3
        <5>3. evicted' \in Victim BY <4>1, <5>1, <5>2 DEF Victim, Block
        <5> QED BY <5>3, NoneAssumption
      <4> QED BY <2>1, <2>2, <3>1, <4>2, <4>3
    <3>8. CASE ~set_evict_valid
      <4>1. evicted' = None BY <2>2, <3>2, <3>8 DEF Miss
      <4>2. Doomed = {} BY <3>4, <3>8 DEF Doomed
      <4> QED BY <2>1, <2>2, <3>1, <4>1, <4>2
    <3> QED BY <3>7, <3>8
  <2>3. CASE MissWait(missed_in)
    <3>1. inMiss /\ miss' = None BY <2>3 DEF MissWait, inMiss
    <3>2. ~mem_fifo_read_en BY <3>1 DEF BacklogInv, inMiss
    <3>3. Waiting' = Waiting /\ Waiting = Doomed BY <1>4, <3>1, <3>2 DEF FlightInv
    <3> QED BY <2>1, <2>3, <3>3
  <2> QED BY <1>5, <2>2, <2>3
<1>7. Waiting' # {} => inMiss' \/ mem_fifo_read_en'
  <2>1. fifo_queue' = <<>> => Queued(fifo_queue') = {} BY QueuedIs
  <2> QED BY <1>1, <1>2, <2>1 DEF Waiting, IInv, MissInv, VictimInv, BacklogInv
<1>8. ~inMiss' => \A v \in Waiting' : waysOf(v.block)' = {}
  <2> SUFFICES ASSUME ~inMiss', NEW v \in Waiting' PROVE waysOf(v.block)' = {}
    OBVIOUS
  <2>1. miss' = None /\ ~mem_fifo_read_en /\ Waiting' = Waiting
    BY <1>4, <1>1 DEF IInv, MissInv
  <2>2. inMiss /\ v \in Doomed /\ Fills(missed_in)
    BY <1>5, <2>1 DEF FlightInv
  <2>3. /\ v.block \in Block /\ v.block # req_r.block /\ waysOf(v.block) = {selected[2]}
        /\ v.block.set = selected[1] /\ selected = <<req_r.block.set, max_record_r>>
    BY <1>1, <2>2, DoomedIs
  <2>4. \A w : w \in waysOf(v.block)' <=> w \in waysOf(v.block) /\ <<v.block.set, w>> # selected
    BY <1>1, <2>2, <2>3, FillWays
  <2> QED BY <2>3, <2>4
<1>9. \A v \in Leaving' : waysOf(v.block)' = {}
  <2> SUFFICES ASSUME NEW v \in Leaving' PROVE waysOf(v.block)' = {}
    OBVIOUS
  <2>1. v \in Leaving \/ (mem_fifo_read_en /\ v \in Waiting)
    BY <1>4, LeavingMoves
  <2>2. waysOf(v.block) = {}
    BY <2>1 DEF FlightInv, BacklogInv, inMiss
  <2>3. v \in Victim /\ v.block \in Block
    <3>1. mem_fifo_out' \in Victim \union {None} /\ mem_req' \in Memory!MemReq \union {None}
      BY <1>1 DEF IInv, TypeOK, ControllerTypeOK
    <3>2. CASE v = mem_fifo_out' BY <3>1, <3>2 DEF Leaving, Victim
    <3>3. CASE v = MemWrite'
      <4>1. mem_req' # None /\ mem_req'.write BY <3>3 DEF Leaving, MemWrite
      <4>2. v = [block |-> mem_req'.block, line |-> mem_req'.line] BY <3>3, <4>1 DEF MemWrite
      <4>3. mem_req' \in Memory!Write
        BY <3>1, <4>1 DEF Memory!MemReq, Memory!Read, Memory!Write
      <4> QED BY <4>2, <4>3 DEF Memory!Write, Victim
    <3> QED BY <3>2, <3>3 DEF Leaving
  <2>4. CASE Looks \/ Stores BY <2>2, <2>3, <2>4, QuietWays
  <2>5. CASE Fills(missed_in)
    <3>1. m_state = "M_PORT_IDLE" /\ ~mem_fifo_read_en
      BY <1>5, <2>5 DEF BacklogInv, inMiss
    <3>2. Leaving = {} BY <3>1 DEF Leaving, MemWrite, BacklogInv, PortInv
    <3> QED BY <2>1, <3>1, <3>2
  <2> QED BY <1>3, <2>4, <2>5
<1> QED BY <1>6, <1>7, <1>8, <1>9 DEF FlightInv

LEMMA CleanStep ==
  ASSUME Design, IInv, DataInv, Next
  PROVE  CleanInv'
<1> PICK starved \in Starved : ControllerClock(cpu_data_in, starved)
  BY DEF Next
<1> USE DEF DataInv
<1>1. /\ CacheInv /\ CacheClock(cpu_cache, missed_in) /\ CacheTypeOK
      /\ cpu_cache \in Request \union {None} /\ missed_in \in Line \union {None}
  BY DEF ControllerClock, IInv, CacheInv, TypeOK, ControllerTypeOK
<1>2. \/ Looks /\ (CacheAccept(cpu_cache) \/ CacheIdle(cpu_cache) \/ Delay \/ ReadHit \/ Miss
                     \/ MissWait(missed_in))
      \/ Stores /\ WriteHit
      \/ Fills(missed_in) /\ Refill(missed_in)
  BY <1>1, CacheViews
<1>3. /\ cache_state' \in {"DOING_WRITE", "WRITE_MISS"} => req_r' \in Store
      /\ cache_state' \in {"DOING_READ", "READ_MISS"} => req_r' \in Load
  <2>1. cache_state # "IDLE" => req_r \in Request BY <1>1 DEF CacheInv, LookupInv
  <2>2. \A r \in Request : IF r.op = "store" THEN r \in Store ELSE r \in Load
    BY DEF Request, Load, Store
  <2>3. CASE Delay BY <2>1, <2>2, <2>3 DEF Delay
  <2>4. CASE CacheAccept(cpu_cache) \/ CacheIdle(cpu_cache) BY <2>4 DEF CacheAccept, CacheIdle
  <2>5. CASE Miss \/ MissWait(missed_in) BY <2>5 DEF Miss, MissWait, CleanInv
  <2>6. CASE ReadHit \/ WriteHit \/ Refill(missed_in)
    BY <2>6 DEF ReadHit, WriteHit, Refill, EndAccess
  <2> QED BY <1>2, <2>3, <2>4, <2>5, <2>6
<1>4. ASSUME NEW s \in Sets, NEW w \in Ways, <<s, w>> \in valid_bits_pw, tagOf(s, w) \in Tags
      PROVE  array'[[set |-> s, tag |-> tagOf(s, w)]] = array[[set |-> s, tag |-> tagOf(s, w)]]
  <2> DEFINE b == [set |-> s, tag |-> tagOf(s, w)]
  <2>1. b \in Block /\ w \in waysOf(b) BY <1>4 DEF Block, waysOf
  <2>2. \A v \in Leaving : v.block # b BY <2>1 DEF FlightInv
  <2>3. array \in [Block -> Line] BY DEF IInv, TypeOK, ControllerTypeOK, Memory!TypeOK
  <2> QED BY <2>1, <2>2, <2>3, LeavingMoves
<1>5. ASSUME NEW s \in Sets, NEW w \in Ways,
             <<s, w>> \in valid_bits_pw', <<s, w>> \notin dirty_bits_pw'
      PROVE  lineOf(s, w)' = array'[[set |-> s, tag |-> tagOf(s, w)']]
  <2>1. <<s, w>> \in valid_bits_pw => tagOf(s, w) \in Tags
    BY <1>1 DEF CacheInv, ValidWaysHoldLines
  <2>2. <<s, w>> \in valid_bits_pw /\ <<s, w>> \notin dirty_bits_pw =>
          lineOf(s, w) = array'[[set |-> s, tag |-> tagOf(s, w)]]
    BY <1>4, <2>1 DEF CleanInv
  <2>3. CASE Looks BY <1>5, <2>2, <2>3 DEF Looks, SameView
  <2>4. CASE Stores BY <1>5, <2>2, <2>4 DEF Stores
  <2>5. CASE Fills(missed_in) /\ <<s, w>> # selected BY <1>5, <2>2, <2>5 DEF Fills
  <2>6. CASE Fills(missed_in) /\ <<s, w>> = selected
    <3>1. cache_state = "READ_MISS" /\ missed_in # None
      BY <1>5, <2>6 DEF Fills, inMiss
    <3>2. req_r \in Load /\ missed_in = array[req_r.block] BY <3>1 DEF CleanInv, PortInv
    <3>3. merged(missed_in) = missed_in BY <3>2 DEF merged, Load
    <3>4. /\ lineOf(s, w)' = missed_in /\ tagOf(s, w)' = req_r.block.tag
          /\ s = req_r.block.set
      BY <2>6, <3>3 DEF Fills, selected
    <3>5. [set |-> s, tag |-> req_r.block.tag] = req_r.block
      BY <3>2, <3>4 DEF Load, Block
    <3>6. array' = array
      <4>1. m_state = "M_PORT_IDLE" BY <3>1 DEF BacklogInv
      <4>2. Leaving = {} BY <4>1 DEF Leaving, MemWrite, BacklogInv, PortInv
      <4> QED BY <4>2, LeavingMoves
    <3> QED BY <3>2, <3>4, <3>5, <3>6
  <2> QED BY <1>2, <2>3, <2>4, <2>5, <2>6
<1> QED BY <1>3, <1>5 DEF CleanInv

-----------------------------------------------------------------------------
LEMMA DataInit == Init => DataInv
<1> SUFFICES ASSUME Init PROVE DataInv
  OBVIOUS
<1> USE DEF Init, ControllerInit, CacheInit, WRITE_BACK!Init, Memory!Init
<1>1. CopyInv BY CopyInit
<1>2. Len(fifo_queue) <= 1
  <2>1. Len(<<>>) = 0 OBVIOUS
  <2> QED BY <2>1
<1>3. BacklogInv BY <1>2 DEF BacklogInv
<1>4. PortInv BY DEF PortInv
<1>5. Waiting = {} /\ Leaving = {}
  <2>1. Queued(fifo_queue) = {} BY QueuedIs
  <2> QED BY <2>1 DEF Waiting, Leaving, MemWrite
<1>6. FlightInv BY <1>5 DEF FlightInv, inMiss
<1>7. CleanInv BY DEF CleanInv
<1> QED BY <1>1, <1>3, <1>4, <1>6, <1>7 DEF DataInv

LEMMA DataStep ==
  ASSUME Design, IInv, DataInv, [Next]_vars
  PROVE  DataInv'
<1>1. CASE Next
  <2>1. CopyInv'
    <3>1. PICK starved \in Starved : ControllerClock(cpu_data_in, starved)
      BY <1>1 DEF Next
    <3>2. /\ CacheInv /\ CacheClock(cpu_cache, missed_in)
          /\ cpu_cache \in Request \union {None} /\ missed_in \in Line \union {None}
      BY <3>1 DEF ControllerClock, IInv, CacheInv, TypeOK, ControllerTypeOK
    <3> QED BY <3>2, CopyStep DEF DataInv
  <2> QED BY <1>1, <2>1, BacklogStep, PortStep, FlightStep, CleanStep DEF DataInv
<1>2. CASE UNCHANGED vars
  <2> USE <1>2
        DEF vars, controllerVars, cacheVars, bitVars, ramVars, cPortVars, evictVars, fifoVars,
            mPortVars, memVars
  <2>1. UNCHANGED <<inMiss, hit, selected>>
    BY DEF inMiss, hit, comparison, selected, set_way_select_num
  <2>2. \A s, w : tagOf(s, w)' = tagOf(s, w) /\ lineOf(s, w)' = lineOf(s, w)
    BY DEF tagOf, lineOf, writing
  <2>3. \A b : waysOf(b)' = waysOf(b) BY <2>2 DEF waysOf
  <2>4. CopyInv' BY <2>1, <2>2 DEF CopyInv, DataInv
  <2>5. BacklogInv' /\ PortInv' BY DEF BacklogInv, PortInv, DataInv, inRead
  <2>6. FlightInv'
    <3>1. Doomed' = Doomed
      BY <2>1, <2>2 DEF Doomed
    <3>2. Waiting' = Waiting /\ Leaving' = Leaving BY DEF Waiting, Leaving, MemWrite
    <3> QED BY <2>1, <2>3, <3>1, <3>2 DEF FlightInv, DataInv
  <2>7. CleanInv' BY <2>2 DEF CleanInv, DataInv
  <2> QED BY <2>4, <2>5, <2>6, <2>7 DEF DataInv
<1> QED BY <1>1, <1>2

LEMMA DataInvariance ==
  ASSUME Design
  PROVE  Spec => [](IInv /\ DataInv)
<1>1. IInv /\ DataInv /\ [Next]_vars => (IInv /\ DataInv)'
  BY StepInv, DataStep
<1>2. Init => IInv /\ DataInv
  BY InitInv, DataInit
<1> QED BY <1>1, <1>2, PTL DEF Spec

\* As the arbiter is built, the backlog never exceeds one victim and the drain mode
\* is never entered: for every geometry, program, FIFO depth and memory latency.
THEOREM OneVictimAtATime ==
  ASSUME Design PROVE Spec => []NoBacklog
<1>1. IInv /\ DataInv => NoBacklog
  BY DEF DataInv, BacklogInv, NoBacklog
<1> QED BY <1>1, DataInvariance, PTL

\* While a block is being fetched, no newer line for it is on its way to memory.
THEOREM RefillsAreFresh ==
  ASSUME Design PROVE Spec => []NoStaleRefill
<1>1. ASSUME IInv, DataInv PROVE NoStaleRefill
  <2> SUFFICES ASSUME NEW b \in Block, reading(b), NEW v \in WriteBacks, v.block = b
               PROVE  FALSE
    BY DEF NoStaleRefill
  <2> USE <1>1 DEF DataInv
  <2>1. inRead /\ b = miss_pending BY DEF reading, PortInv, inRead
  <2>2. inMiss /\ b = req_r.block
    <3>1. miss_pending # None BY <2>1 DEF IInv, MissInv
    <3> QED BY <2>1, <3>1 DEF IInv, MissInv, PortInv
  <2>3. Leaving = {} BY <2>1 DEF Leaving, MemWrite, BacklogInv, PortInv, inRead
  <2>4. v \in Waiting \union Leaving
    BY DEF WriteBacks, Staged, Waiting, Leaving, Queued
  <2>5. v \in Doomed BY <2>2, <2>3, <2>4 DEF FlightInv
  <2>6. CacheInv BY DEF IInv, CacheInv, TypeOK, ControllerTypeOK
  <2> QED BY <2>2, <2>5, <2>6, DoomedIs
<1> QED BY <1>1, DataInvariance, PTL

\* Where to read a block: in its way; else in the one victim of it; else in memory.
LineIs(b) ==
  /\ \A w \in waysOf(b) : lineNow(b) = lineOf(b.set, w)
  /\ waysOf(b) = {} => \A v \in Waiting \union Leaving : v.block = b => lineNow(b) = v.line
  /\ waysOf(b) = {} /\ (\A v \in Waiting \union Leaving : v.block # b) => lineNow(b) = array[b]
  /\ \A w \in waysOf(b) : <<b.set, w>> \notin dirty_bits_pw =>
       inMemory(b) = array[b] /\ lineOf(b.set, w) = array[b]

LEMMA AllWriteBacks == WriteBacks = Waiting \union Leaving
  BY DEF WriteBacks, Staged, Waiting, Leaving, Queued

LinesAre == \A b \in Block : LineIs(b)

LEMMA LineNowIs == IInv /\ DataInv => LinesAre
<1> SUFFICES ASSUME IInv, DataInv, NEW b \in Block PROVE LineIs(b)
  BY DEF LinesAre
<1> USE DEF DataInv
<1>1. CacheInv BY DEF IInv, CacheInv, TypeOK, ControllerTypeOK
<1>2. \A v, w \in waysOf(b) : v = w BY DEF CopyInv, waysOf, Block
<1>3. \A w \in waysOf(b) : lineNow(b) = lineOf(b.set, w)
  BY <1>2 DEF lineNow
<1>4. waysOf(b) = {} => lineNow(b) = inMemory(b) BY DEF lineNow
<1> DEFINE flying == {v \in WriteBacks : v.block = b}
<1>5. inMemory(b) = IF flying = {} THEN array[b] ELSE (CHOOSE v \in flying : TRUE).line
  BY DEF inMemory
<1>6. ASSUME waysOf(b) = {}, NEW u \in flying, NEW v \in flying PROVE u = v
  <2>1. u \in Waiting \union Leaving /\ v \in Waiting \union Leaving BY <1>6, AllWriteBacks
  <2>2. CASE u \in Waiting \/ v \in Waiting
    <3>1. ~inMiss BY <1>1, <1>6, <2>2, DoomedIs DEF FlightInv
    <3>2. mem_fifo_read_en BY <2>2, <3>1 DEF FlightInv
    <3>3. evicted = None /\ evict_hold = None /\ cache_fifo_in = None /\ Leaving = {}
      BY <3>2 DEF BacklogInv, IInv, MissInv, PortInv, Leaving, MemWrite
    <3>4. Queued(fifo_queue) = {Head(fifo_queue)}
      <4>1. fifo_queue \in Seq(Victim) /\ Len(fifo_queue) <= 1 /\ fifo_queue # <<>>
        BY <3>2 DEF BacklogInv, IInv, TypeOK, ControllerTypeOK
      <4>2. fifo_queue = <<Head(fifo_queue)>> BY <4>1, ShortSeq
      <4> QED BY <4>2, QueuedIs
    <3> QED BY <2>1, <3>3, <3>4 DEF Waiting
  <2>3. CASE u \in Leaving /\ v \in Leaving
    BY <2>3 DEF Leaving, MemWrite, BacklogInv, PortInv
  <2> QED BY <2>1, <2>2, <2>3
<1>7. ASSUME waysOf(b) = {}, NEW v \in flying PROVE lineNow(b) = v.line
  <2>1. (CHOOSE u \in flying : TRUE) \in flying BY <1>7
  <2>2. (CHOOSE u \in flying : TRUE) = v BY <1>6, <1>7, <2>1
  <2> QED BY <1>4, <1>5, <1>7, <2>2
<1>8. waysOf(b) = {} => \A v \in Waiting \union Leaving : v.block = b => lineNow(b) = v.line
  BY <1>7, AllWriteBacks
<1>9. waysOf(b) = {} /\ (\A v \in Waiting \union Leaving : v.block # b) => lineNow(b) = array[b]
  BY <1>4, <1>5, AllWriteBacks
<1>10. ASSUME NEW w \in waysOf(b), <<b.set, w>> \notin dirty_bits_pw
       PROVE  inMemory(b) = array[b] /\ lineOf(b.set, w) = array[b]
  <2>1. w \in Ways /\ <<b.set, w>> \in valid_bits_pw /\ tagOf(b.set, w) = b.tag
    BY <1>10 DEF waysOf
  <2>2. [set |-> b.set, tag |-> b.tag] = b /\ b.set \in Sets BY DEF Block
  <2>3. lineOf(b.set, w) = array[b] BY <1>10, <2>1, <2>2 DEF CleanInv
  <2>4. ASSUME NEW v \in Waiting, v.block = b PROVE FALSE
    <3>1. inMiss /\ v \in Doomed BY <1>10, <2>4 DEF FlightInv
    <3>2. /\ waysOf(b) = {selected[2]} /\ b.set = selected[1] /\ selected \in dirty_bits_pw
          /\ selected = <<req_r.block.set, max_record_r>>
      BY <1>1, <2>4, <3>1, DoomedIs
    <3>3. w = selected[2] /\ <<b.set, w>> = selected BY <1>10, <3>2
    <3> QED BY <1>10, <3>2, <3>3
  <2>5. \A v \in Leaving : v.block # b BY <1>10 DEF FlightInv
  <2>6. flying = {} BY <2>4, <2>5, AllWriteBacks
  <2> QED BY <1>5, <2>3, <2>6
<1> QED BY <1>3, <1>8, <1>9, <1>10 DEF LineIs

LEMMA LineNowNext == IInv' /\ DataInv' => LinesAre'
  BY LineNowIs, PTL

\* A line dropped because it is not dirty is what memory holds, or is about to hold.
THEOREM DroppedLinesAreInMemory ==
  ASSUME Design PROVE Spec => []CleanLinesMatchMemory
<1>1. IInv /\ DataInv => CleanLinesMatchMemory
  BY LineNowIs DEF LinesAre, LineIs, CleanLinesMatchMemory
<1> QED BY <1>1, DataInvariance, PTL

-----------------------------------------------------------------------------
(* The memory stage implements one atomic memory, for every geometry of    *)
(* the cache, every program, every latency of the memory and the io bus.   *)

\* Nothing of an access between the LSU and the CPU port.
quiet == c_state = "C_PORT_IDLE" /\ cpu_data_in = None /\ cpu_data_out = None

\* Where the access of the stage is: with no one, presented, pulsed, in the cache,
\* answered by the cache, or handed to the LSU.
PhaseInv ==
  /\ cpu_ready_out <=> c_state = "C_PORT_IDLE"
  /\ cpu_data_in # None => c_state = "C_PORT_IDLE" \/ cpu_cache # None
  /\ c_state = "C_PORT_IDLE" => cpu_cache = None /\ cache_state = "IDLE" /\ cache_out = None
  /\ c_state = "C_PORT_REQ" => cpu_data_out = None
  /\ cpu_data_in # None => cpu_data_in = em /\ cpu_data_out = None
  /\ cpu_cache # None => cpu_cache = em /\ cache_state = "IDLE" /\ cache_out = None
  /\ cache_state # "IDLE" => req_r = em /\ cache_out = None /\ cpu_cache = None
  /\ c_state = "C_PORT_REQ" => cpu_cache # None \/ cache_state # "IDLE" \/ cache_out # None
  /\ lsu_state = "IDLE" => quiet
  /\ lsu_state = "RESP_WAITING" /\ io_access_r => quiet /\ em \in IoAccess
  /\ lsu_state = "RESP_WAITING" /\ ~io_access_r => ~quiet /\ em \in Accesses
  /\ em \in Store => /\ cache_out # None => cache_out.data = None
                     /\ cpu_data_out # None => cpu_data_out.data = None

-----------------------------------------------------------------------------
(* One clock of the cache, as the CPU port sees it.                         *)

\* A load that hit is answered from its line; a store that hit is merged into it;
\* a miss is answered from the fetched line.
LoadHits  == /\ Looks /\ req_r \in Load /\ selected \in valid_bits_pw
             /\ tagOf(selected[1], selected[2]) = req_r.block.tag
             /\ selected[1] = req_r.block.set
             /\ cache_out' = [data |-> lineOf(selected[1], selected[2])[req_r.word]]
StoreHits == Stores /\ req_r \in Store /\ cache_out' = [data |-> None]
Fetches   == /\ Fills(missed_in) /\ req_r \in Request
             /\ cache_out' = [data |-> IF req_r \in Load THEN missed_in[req_r.word] ELSE None]
Answers   == LoadHits \/ StoreHits \/ Fetches

LEMMA CacheTurn ==
  ASSUME IInv, DataInv, CacheClock(cpu_cache, missed_in)
  PROVE  /\ cache_state = "IDLE" /\ cpu_cache = None =>
              cache_state' = "IDLE" /\ cache_out' = None /\ Looks
         /\ cache_state = "IDLE" /\ cpu_cache # None =>
              cache_state' # "IDLE" /\ req_r' = cpu_cache /\ cache_out' = None /\ Looks
         /\ cache_state # "IDLE" =>
              \/ cache_state' # "IDLE" /\ req_r' = req_r /\ cache_out' = cache_out /\ Looks
              \/ cache_state' = "IDLE" /\ cache_out' # None /\ Answers
<1> USE DEF DataInv
<1>1. /\ CacheInv
      /\ cpu_cache \in Request \union {None} /\ missed_in \in Line \union {None}
  BY DEF IInv, CacheInv, TypeOK, ControllerTypeOK
<1>2. \/ Looks /\ (CacheAccept(cpu_cache) \/ CacheIdle(cpu_cache) \/ Delay \/ ReadHit \/ Miss
                     \/ MissWait(missed_in))
      \/ Stores /\ WriteHit
      \/ Fills(missed_in) /\ Refill(missed_in)
  BY <1>1, CacheViews
<1>3. cpu_cache # None => ready BY DEF IInv, PulseInv
<1>4. \A x \in Val \union {None} : [data |-> x] # None
  BY NoneAssumption DEF Answer
<1>5. cache_state # "IDLE" => req_r \in Request /\ req_r.word \in Words
  BY <1>1 DEF CacheInv, LookupInv, Request, Load, Store
<1>6. Load \intersect Store = {} BY DEF Load, Store
<1>7. CASE Looks /\ CacheIdle(cpu_cache) BY <1>3, <1>7 DEF CacheIdle
<1>8. CASE Looks /\ CacheAccept(cpu_cache) BY <1>8 DEF CacheAccept
<1>9. CASE Looks /\ (Delay \/ Miss \/ MissWait(missed_in)) BY <1>9 DEF Delay, Miss, MissWait
<1>10. CASE Looks /\ ReadHit
  <2>1. cache_state = "DOING_READ" /\ hit BY <1>10 DEF ReadHit
  <2>2. /\ set_way_select_num \in Ways /\ selected \in valid_bits_pw
        /\ tagOf(req_r.block.set, set_way_select_num) = req_r.block.tag
        /\ lookup.line[set_way_select_num] = lineOf(req_r.block.set, set_way_select_num)
    BY <1>1, <2>1, OneHit
  <2>3. selected[1] = req_r.block.set /\ selected[2] = set_way_select_num BY DEF selected
  <2>4. lineOf(selected[1], selected[2]) \in Line
    BY <1>1, <2>2 DEF CacheInv, ValidWaysHoldLines
  <2>5. req_r \in Load BY <2>1 DEF CleanInv
  <2>6. /\ cache_out' = [data |-> lineOf(selected[1], selected[2])[req_r.word]]
        /\ cache_state' = "IDLE"
    BY <1>10, <2>2, <2>3 DEF ReadHit, EndAccess
  <2>7. lineOf(selected[1], selected[2])[req_r.word] \in Val BY <1>5, <2>1, <2>4 DEF Line
  <2>8. cache_out' # None BY <1>4, <2>6, <2>7
  <2>9. LoadHits BY <1>10, <2>2, <2>3, <2>5, <2>6 DEF LoadHits
  <2> QED BY <2>1, <2>6, <2>8, <2>9 DEF Answers
<1>11. CASE Stores /\ WriteHit
  <2>1. cache_state = "DOING_WRITE" /\ cache_state' = "IDLE" /\ cache_out' = [data |-> None]
    BY <1>11 DEF WriteHit, EndAccess
  <2>2. req_r \in Store BY <2>1 DEF CleanInv
  <2> QED BY <1>4, <1>11, <2>1, <2>2 DEF Answers, StoreHits
<1>12. CASE Fills(missed_in) /\ Refill(missed_in)
  <2>1. /\ inMiss /\ cache_state' = "IDLE" /\ missed_in \in Line
        /\ cache_out' = [data |-> IF cache_state = "READ_MISS" THEN missed_in[req_r.word] ELSE None]
    BY <1>1, <1>12 DEF Refill, EndAccess, inMiss
  <2>2. cache_state = "READ_MISS" <=> req_r \in Load
    BY <1>6, <2>1 DEF CleanInv, inMiss
  <2>3. Fetches BY <1>5, <1>12, <2>1, <2>2 DEF Fetches, inMiss
  <2>4. cache_out' # None
    <3>1. missed_in[req_r.word] \in Val BY <1>5, <2>1 DEF Line, inMiss
    <3> QED BY <1>4, <2>1, <3>1
  <2> QED BY <2>1, <2>3, <2>4 DEF Answers, inMiss
<1> QED BY <1>2, <1>7, <1>8, <1>9, <1>10, <1>11, <1>12

-----------------------------------------------------------------------------
(* One clock of the stage: the LSU, the EX/MEM register and the CPU port.   *)

LEMMA PortTurn ==
  ASSUME IInv, PhaseInv, CPort(cpu_data_in)
  PROVE  /\ c_state = "C_PORT_IDLE" => cpu_data_out' = None
         /\ c_state = "C_PORT_IDLE" =>
              \/ /\ cpu_data_in # None /\ cpu_cache' = cpu_data_in
                 /\ c_state' = "C_PORT_REQ" /\ ~cpu_ready_out'
              \/ cpu_cache' = None /\ c_state' = "C_PORT_IDLE" /\ cpu_ready_out'
         /\ c_state = "C_PORT_REQ" => cpu_cache' = None
         /\ c_state = "C_PORT_REQ" /\ cache_out = None =>
              c_state' = "C_PORT_REQ" /\ cpu_data_out' = None /\ ~cpu_ready_out'
         /\ c_state = "C_PORT_REQ" /\ cache_out # None =>
              c_state' = "C_PORT_IDLE" /\ cpu_data_out' = cache_out /\ cpu_ready_out'
  BY DEF CPort, CPortAccept, CPortIdle, CPortAnswer, CPortWait, PhaseInv

LEMMA StageTurn ==
  ASSUME IInv, PhaseInv, Next
  PROVE  \/ /\ em # None /\ lsu_state = "IDLE" /\ quiet          \* issued
            /\ em' = em /\ mem_wb' = None /\ lsu_state' = "RESP_WAITING"
            /\ \/ em \in IoAccess /\ io_access_r' /\ cpu_data_in' = None
               \/ em \in Accesses /\ ~io_access_r' /\ cpu_data_in' = em
         \/ /\ em # None /\ lsu_state = "RESP_WAITING"            \* waited for
            /\ \/ io_access_r /\ em \in IoAccess /\ quiet
               \/ ~io_access_r /\ em \in Accesses /\ ~quiet /\ cpu_data_out = None
            /\ em' = em /\ mem_wb' = None /\ lsu_state' = "RESP_WAITING"
            /\ io_access_r' = io_access_r
            /\ cpu_data_in' = IF cpu_ready_out THEN cpu_data_in ELSE None
         \/ /\ em \in Accesses /\ ~io_access_r /\ cpu_data_out # None   \* answered
            /\ em' \in Accesses \union IoAccess \union {None}
            /\ mem_wb' = IF em \in Load THEN cpu_data_out.data ELSE None
            /\ lsu_state' = "IDLE" /\ cpu_data_in' = None
         \/ /\ em \notin Accesses /\ quiet                       \* nothing for the cache
            /\ em' \in Accesses \union IoAccess \union {None}
            /\ mem_wb' = None /\ lsu_state' = "IDLE" /\ cpu_data_in' = None
<1>1. /\ LSU!LsuClock(em, cpu_data_out, cpu_ready_out, io_ack, mem_advance)
      /\ Stalled \/ Advance
  BY DEF Next
<1>2. /\ Accesses \subseteq Request /\ IoAccess \intersect Request = {} /\ Load \subseteq Request
      /\ None \notin IoAccess /\ None \notin Accesses /\ None \notin Load
  BY AccessAssumption, NoneAssumption DEF Request
<1>3. /\ em \in Accesses \union IoAccess \union {None} /\ lsu_state \in {"IDLE", "RESP_WAITING"}
      /\ io_access_r \in BOOLEAN
  BY DEF IInv, TypeOK
<1> USE DEF mem_advance, req_stall, LSU!req_stall, LSU!cache_responded, LSU!resp
<1>4. CASE LSU!LsuIssue(em)
  <2>1. em # None /\ lsu_state = "IDLE" /\ quiet /\ Stalled
    BY <1>1, <1>4 DEF LSU!LsuIssue, Stalled, Advance, PhaseInv
  <2> QED BY <1>2, <1>4, <2>1 DEF LSU!LsuIssue, Stalled, quiet
<1>5. CASE LSU!LsuIdle(em)
  <2>1. em = None /\ lsu_state = "IDLE" /\ quiet /\ Advance
    BY <1>1, <1>5 DEF LSU!LsuIdle, Stalled, Advance, PhaseInv
  <2> QED BY <1>2, <1>5, <2>1 DEF LSU!LsuIdle, LSU!lsuVars, Advance, quiet
<1>6. CASE LSU!LsuWait(cpu_data_out, cpu_ready_out, io_ack, mem_advance)
  <2>1. lsu_state = "RESP_WAITING" /\ em # None BY <1>2, <1>6 DEF LSU!LsuWait, PhaseInv
  <2>2. CASE LSU!resp(cpu_data_out, io_ack) = None
    <3>1. Stalled BY <1>1, <2>1, <2>2 DEF Stalled, Advance
    <3>2. ~io_access_r => cpu_data_out = None BY <2>2
    <3> QED BY <1>3, <1>6, <2>1, <2>2, <3>1, <3>2 DEF LSU!LsuWait, Stalled, PhaseInv
  <2>3. CASE LSU!resp(cpu_data_out, io_ack) # None
    <3>1. Advance BY <1>1, <2>1, <2>3 DEF Stalled, Advance
    <3>2. lsu_state' = "IDLE" BY <1>6, <2>1, <2>3 DEF LSU!LsuWait
    <3>3. CASE io_access_r
      <4>1. em \in IoAccess /\ quiet BY <2>1, <3>3 DEF PhaseInv
      <4> QED BY <1>2, <1>6, <3>1, <3>2, <4>1 DEF LSU!LsuWait, Advance, quiet
    <3>4. CASE ~io_access_r
      <4>1. em \in Accesses /\ cpu_data_out # None BY <2>1, <2>3, <3>4 DEF PhaseInv
      <4>2. LSU!be_cache_in(cpu_data_out, io_ack) = cpu_data_out
        BY <2>1, <3>4, <4>1 DEF LSU!be_cache_in
      <4>3. cpu_data_in = None BY <4>1 DEF PhaseInv
      <4> QED BY <1>6, <3>1, <3>2, <3>4, <4>1, <4>2, <4>3 DEF LSU!LsuWait, Advance
    <3> QED BY <3>3, <3>4
  <2> QED BY <2>2, <2>3
<1> QED BY <1>1, <1>4, <1>5, <1>6 DEF LSU!LsuClock

LEMMA PhaseStep ==
  ASSUME IInv, DataInv, PhaseInv, Next
  PROVE  PhaseInv'
<1> PICK starved \in Starved : ControllerClock(cpu_data_in, starved)
  BY DEF Next
<1>1. /\ CacheClock(cpu_cache, missed_in) /\ CPort(cpu_data_in)
      /\ c_state \in {"C_PORT_IDLE", "C_PORT_REQ"} /\ TypeOK'
  BY TypeStep DEF ControllerClock, IInv, TypeOK, ControllerTypeOK
<1>2. None \notin Accesses /\ None \notin IoAccess /\ IoAccess \intersect Accesses = {}
  BY AccessAssumption, NoneAssumption
<1>3. /\ Answers /\ req_r \in Store => cache_out'.data = None
  BY DEF Answers, LoadHits, StoreHits, Fetches, Load, Store
<1>4. CASE c_state = "C_PORT_IDLE"
  <2>1. /\ cache_state' = "IDLE" /\ cache_out' = None /\ cpu_data_out' = None
    BY <1>1, <1>4, CacheTurn, PortTurn DEF PhaseInv
  <2>2. \/ /\ cpu_data_in # None /\ cpu_cache' = cpu_data_in
           /\ c_state' = "C_PORT_REQ" /\ ~cpu_ready_out'
        \/ cpu_cache' = None /\ c_state' = "C_PORT_IDLE" /\ cpu_ready_out'
    BY <1>1, <1>4, PortTurn
  <2> QED BY <1>2, <1>4, <2>1, <2>2, StageTurn DEF PhaseInv, quiet
<1>5. CASE c_state = "C_PORT_REQ"
  <2>1. /\ em \in Accesses /\ ~io_access_r /\ lsu_state = "RESP_WAITING" /\ em' = em
        /\ lsu_state' = lsu_state /\ io_access_r' = io_access_r /\ cpu_data_in' = None
    BY <1>5, StageTurn DEF PhaseInv, quiet
  <2>2. CASE cache_out = None
    <3>1. /\ c_state' = "C_PORT_REQ" /\ cpu_data_out' = None /\ ~cpu_ready_out' /\ cpu_cache' = None
      BY <1>1, <1>5, <2>2, PortTurn
    <3>2. \/ cache_state' # "IDLE" /\ req_r' = em /\ cache_out' = None
          \/ cache_state' = "IDLE" /\ cache_out' # None /\ (em \in Store => cache_out'.data = None)
      BY <1>1, <1>3, <1>5, <2>2, CacheTurn DEF PhaseInv
    <3> QED BY <1>2, <2>1, <3>1, <3>2 DEF PhaseInv, quiet
  <2>3. CASE cache_out # None
    <3>1. c_state' = "C_PORT_IDLE" /\ cpu_data_out' = cache_out /\ cpu_ready_out'
          /\ cpu_cache' = None
      BY <1>1, <1>5, <2>3, PortTurn
    <3>2. cache_state' = "IDLE" /\ cache_out' = None
      BY <1>1, <2>3, CacheTurn DEF PhaseInv
    <3> QED BY <1>2, <2>1, <2>3, <3>1, <3>2 DEF PhaseInv, quiet
  <2> QED BY <2>2, <2>3
<1> QED BY <1>1, <1>4, <1>5

-----------------------------------------------------------------------------
(* What one clock does to the line the pipeline would read of each block.   *)

\* A victim that is still in its way, because its miss goes on.
VictimsInWays == inMiss => \A v \in Waiting : waysOf(v.block) # {}

LEMMA VictimsStay == IInv /\ DataInv => VictimsInWays
<1> SUFFICES ASSUME IInv, DataInv, inMiss, NEW v \in Waiting PROVE waysOf(v.block) # {}
  BY DEF VictimsInWays
<1>1. CacheInv BY DEF IInv, CacheInv, TypeOK, ControllerTypeOK
<1> QED BY <1>1, DoomedIs DEF DataInv, FlightInv

LEMMA VictimsStayNext == IInv' /\ DataInv' => VictimsInWays'
  BY VictimsStay, PTL

\* A block in no way keeps its line while it is written back: from the FIFO to the
\* port, and from the port into memory.
LEMMA AwayStep ==
  ASSUME Design, IInv, DataInv, Next, NEW b \in Block, waysOf(b) = {}, waysOf(b)' = {}
  PROVE  lineNow(b)' = lineNow(b)
<1>1. PICK starved \in Starved : ControllerClock(cpu_data_in, starved)
  BY DEF Next
<1> USE DEF DataInv
<1>2. IInv' /\ DataInv' BY StepInv, DataStep
<1>3. LineIs(b) /\ LineIs(b)' /\ VictimsInWays'
  BY <1>2, LineNowIs, LineNowNext, VictimsStayNext DEF LinesAre
<1>4. /\ miss' # None => Waiting' = {evicted'} \ {None} /\ ~mem_fifo_read_en
      /\ miss' = None /\ ~mem_fifo_read_en => Waiting' = Waiting
      /\ mem_fifo_read_en => /\ Waiting' = {} /\ Waiting = {mem_fifo_out'}
                            /\ mem_fifo_out' \in Victim
      /\ ~mem_fifo_read_en => mem_fifo_out' = None
  BY WaitingMoves
<1>5. \/ /\ mem_fifo_read_en /\ Leaving = {} /\ array' = array
         /\ Leaving' = {mem_fifo_out'} \ {None}
      \/ ~mem_fifo_read_en /\ Leaving' = Leaving /\ array' = array
      \/ /\ ~mem_fifo_read_en /\ Leaving' = {}
         /\ \E v \in Victim : /\ Leaving = {v}
                               /\ array' = [array EXCEPT ![v.block] = v.line]
  BY <1>1, LeavingMoves
<1>6. miss' # None => inMiss' /\ Waiting = {}
  <2>1. miss' # None => inMiss' BY <1>2 DEF IInv, MissInv
  <2>2. miss' # None => ~inMiss
    <3>1. CacheClock(cpu_cache, missed_in) BY <1>1 DEF ControllerClock
    <3> QED BY <3>1, CacheEffects DEF IInv
  <2> QED BY <1>4, <2>1, <2>2 DEF FlightInv
<1>7. None \notin Victim BY NoneAssumption
<1>8. ASSUME NEW v \in Waiting' \union Leaving', v.block = b
      PROVE  lineNow(b)' = lineNow(b)
  <2>1. v \in Waiting \union Leaving
    <3>1. CASE v \in Waiting'
      <4>1. ~inMiss' BY <1>3, <1>8, <3>1 DEF VictimsInWays
      <4> QED BY <1>4, <1>6, <3>1, <4>1
    <3>2. CASE v \in Leaving' BY <1>4, <1>5, <3>2
    <3> QED BY <3>1, <3>2
  <2>2. lineNow(b) = v.line BY <1>3, <1>8, <2>1 DEF LineIs
  <2>3. lineNow(b)' = v.line BY <1>3, <1>8 DEF LineIs
  <2> QED BY <2>2, <2>3
<1>9. ASSUME \A v \in Waiting' \union Leaving' : v.block # b
      PROVE  lineNow(b)' = lineNow(b)
  <2>1. lineNow(b)' = array'[b] BY <1>3, <1>9 DEF LineIs
  <2>2. array \in [Block -> Line] BY DEF IInv, TypeOK, ControllerTypeOK, Memory!TypeOK
  <2>3. CASE \A v \in Waiting \union Leaving : v.block # b
    <3>1. lineNow(b) = array[b] BY <1>3, <2>3 DEF LineIs
    <3>2. array'[b] = array[b] BY <1>5, <2>2, <2>3
    <3> QED BY <2>1, <3>1, <3>2
  <2>4. ASSUME NEW v \in Waiting \union Leaving, v.block = b
        PROVE  lineNow(b)' = lineNow(b)
    <3>1. lineNow(b) = v.line BY <1>3, <2>4 DEF LineIs
    <3>2. v \notin Waiting BY <1>4, <1>5, <1>6, <1>7, <1>9, <2>4
    <3>3. v \in Leaving /\ Leaving' # Leaving BY <1>9, <2>4, <3>2
    <3>4. array' = [array EXCEPT ![v.block] = v.line] BY <1>5, <3>3
    <3> QED BY <2>1, <2>2, <2>4, <3>1, <3>4
  <2> QED BY <2>3, <2>4
<1> QED BY <1>8, <1>9

\* A clock in which no access is answered changes no line; an answer changes the line
\* of its block by the word it stores.
LEMMA ContentsStep ==
  ASSUME Design, IInv, DataInv, Next, NEW b \in Block
  PROVE  /\ Looks => lineNow(b)' = lineNow(b)
         /\ Stores \/ Fills(missed_in) =>
              lineNow(b)' = IF b = req_r.block THEN merged(lineNow(b)) ELSE lineNow(b)
         /\ Fills(missed_in) /\ b = req_r.block => lineNow(b) = missed_in
<1> USE DEF DataInv
<1>1. IInv' /\ DataInv' BY StepInv, DataStep
<1>2. LineIs(b) /\ LineIs(b)' BY <1>1, LineNowIs, LineNowNext DEF LinesAre
<1>3. CacheInv BY DEF IInv, CacheInv, TypeOK, ControllerTypeOK
<1>4. b.set \in Sets /\ b = [set |-> b.set, tag |-> b.tag] BY DEF Block
<1>5. waysOf(b) \subseteq Ways BY DEF waysOf
<1>6. ASSUME Looks PROVE lineNow(b)' = lineNow(b)
  <2>1. waysOf(b)' = waysOf(b) BY <1>6, QuietWays
  <2>2. CASE waysOf(b) = {} BY <2>1, <2>2, AwayStep
  <2>3. ASSUME NEW w \in waysOf(b) PROVE lineNow(b)' = lineNow(b)
    <3>1. lineNow(b) = lineOf(b.set, w) BY <1>2, <2>3 DEF LineIs
    <3>2. lineNow(b)' = lineOf(b.set, w)' BY <1>2, <2>1, <2>3 DEF LineIs
    <3>3. lineOf(b.set, w)' = lineOf(b.set, w)
      BY <1>4, <1>5, <1>6, <2>3 DEF Looks, SameView
    <3> QED BY <3>1, <3>2, <3>3
  <2> QED BY <2>2, <2>3
<1>7. ASSUME Stores
      PROVE  lineNow(b)' = IF b = req_r.block THEN merged(lineNow(b)) ELSE lineNow(b)
  <2>1. waysOf(b)' = waysOf(b) BY <1>7, QuietWays
  <2>2. selected[1] = req_r.block.set /\ selected = <<selected[1], selected[2]>> BY DEF selected
  <2>3. /\ selected \in valid_bits_pw /\ selected[2] \in Ways /\ req_r.block \in Block
        /\ tagOf(selected[1], selected[2]) = req_r.block.tag
    BY <1>3, <1>7 DEF Stores, CacheInv, CacheTypeOK, LookupInv, Request, Load, Store
  <2>4. b = req_r.block => selected[2] \in waysOf(b) BY <2>2, <2>3 DEF waysOf
  <2>5. \A w \in waysOf(b) : <<b.set, w>> = selected => b = req_r.block
    BY <1>4, <2>2, <2>3 DEF waysOf, Block
  <2>6. CASE waysOf(b) = {} BY <2>1, <2>4, <2>6, AwayStep
  <2>7. ASSUME NEW w \in waysOf(b)
        PROVE  lineNow(b)' = IF b = req_r.block THEN merged(lineNow(b)) ELSE lineNow(b)
    <3>1. lineNow(b) = lineOf(b.set, w) BY <1>2, <2>7 DEF LineIs
    <3>2. lineNow(b)' = lineOf(b.set, w)' BY <1>2, <2>1, <2>7 DEF LineIs
    <3>3. lineOf(b.set, w)' = IF <<b.set, w>> = selected THEN merged(lineOf(b.set, w))
                                                         ELSE lineOf(b.set, w)
      BY <1>4, <1>5, <1>7, <2>7 DEF Stores
    <3>4. b = req_r.block => w = selected[2]
      BY <1>4, <2>4, <2>7 DEF CopyInv, waysOf
    <3>5. <<b.set, w>> = selected <=> b = req_r.block BY <2>2, <2>5, <2>7, <3>4
    <3> QED BY <3>1, <3>2, <3>3, <3>5
  <2> QED BY <2>6, <2>7
<1>8. ASSUME Fills(missed_in)
      PROVE  /\ lineNow(b)' = IF b = req_r.block THEN merged(lineNow(b)) ELSE lineNow(b)
             /\ b = req_r.block => lineNow(b) = missed_in
  <2>1. /\ selected \in Sets \X Ways /\ selected[1] = req_r.block.set /\ req_r.block \in Block
        /\ IF b = req_r.block THEN waysOf(b) = {} /\ waysOf(b)' = {selected[2]}
           ELSE \A w : w \in waysOf(b)' <=> w \in waysOf(b) /\ <<b.set, w>> # selected
    BY <1>3, <1>8, FillWays
  <2>2. /\ inMiss /\ missed_in # None /\ m_state = "M_PORT_IDLE" /\ ~mem_fifo_read_en
        /\ missed_in = array[req_r.block]
    BY <1>8 DEF Fills, BacklogInv, PortInv
  <2>3. Leaving = {} BY <2>2 DEF Leaving, MemWrite, BacklogInv, PortInv
  <2>4. Waiting = Doomed BY <2>2 DEF FlightInv
  <2>5. \A s \in Sets, w \in Ways :
          lineOf(s, w)' = IF <<s, w>> = selected THEN merged(missed_in) ELSE lineOf(s, w)
    BY <1>8 DEF Fills
  <2>6. CASE b = req_r.block
    <3>1. \A v \in Waiting \union Leaving : v.block # b
      BY <1>3, <2>2, <2>3, <2>4, <2>6, DoomedIs
    <3>2. lineNow(b) = missed_in BY <1>2, <2>1, <2>2, <2>6, <3>1 DEF LineIs
    <3>3. PICK w \in Ways : w = selected[2] BY <2>1
    <3>4. lineNow(b)' = lineOf(b.set, w)' BY <1>2, <2>1, <2>6, <3>3 DEF LineIs
    <3>5. <<b.set, w>> = selected BY <2>1, <2>6, <3>3
    <3>6. lineOf(b.set, w)' = merged(missed_in) BY <1>4, <2>5, <3>5
    <3> QED BY <2>6, <3>2, <3>4, <3>6
  <2>7. CASE b # req_r.block
    <3>1. CASE waysOf(b) = {} BY <2>1, <2>7, <3>1, AwayStep
    <3>2. ASSUME NEW w \in waysOf(b), <<b.set, w>> # selected
          PROVE  lineNow(b)' = lineNow(b)
      <4>1. w \in waysOf(b)' /\ w \in Ways BY <1>5, <2>1, <2>7, <3>2
      <4>2. lineNow(b)' = lineOf(b.set, w)' /\ lineNow(b) = lineOf(b.set, w)
        BY <1>2, <3>2, <4>1 DEF LineIs
      <4>3. lineOf(b.set, w)' = lineOf(b.set, w) BY <1>4, <2>5, <3>2, <4>1
      <4> QED BY <4>2, <4>3
    <3>3. ASSUME NEW w \in waysOf(b), <<b.set, w>> = selected
          PROVE  lineNow(b)' = lineNow(b)
      <4>1. lineNow(b) = lineOf(b.set, w) BY <1>2, <3>3 DEF LineIs
      <4>2. /\ selected \in valid_bits_pw /\ tagOf(selected[1], selected[2]) = b.tag
            /\ selected[1] = b.set /\ selected[2] = w
        BY <3>3 DEF waysOf
      <4>3. waysOf(b)' = {}
        <5>1. \A u \in waysOf(b) : u = w BY <1>4, <3>3 DEF CopyInv, waysOf
        <5> QED BY <2>1, <2>7, <3>3, <5>1
      <4>4. miss' = None /\ Waiting' = Waiting /\ Leaving' = {} /\ array' = array
        <5>1. miss' = None
          <6>1. PICK starved \in Starved : ControllerClock(cpu_data_in, starved) BY DEF Next
          <6>2. CacheClock(cpu_cache, missed_in) BY <6>1 DEF ControllerClock
          <6> QED BY <2>2, <6>2, CacheEffects DEF IInv
        <5>2. Waiting' = Waiting BY <2>2, <5>1, WaitingMoves
        <5>3. Leaving' = {} /\ array' = array
          <6>1. PICK starved \in Starved : ControllerClock(cpu_data_in, starved) BY DEF Next
          <6> QED BY <2>2, <2>3, <6>1, LeavingMoves
        <5> QED BY <5>1, <5>2, <5>3
      <4>5. CASE selected \in dirty_bits_pw
        <5> DEFINE v == [block |-> b, line |-> lineOf(b.set, w)]
        <5>1. Doomed = {v} BY <1>4, <4>2, <4>5 DEF Doomed
        <5>2. v \in Waiting' /\ v.block = b /\ v.line = lineOf(b.set, w) BY <2>4, <4>4, <5>1
        <5>3. lineNow(b)' = v.line BY <1>2, <4>3, <5>2 DEF LineIs
        <5> QED BY <4>1, <5>2, <5>3
      <4>6. CASE selected \notin dirty_bits_pw
        <5>1. Doomed = {} BY <4>6 DEF Doomed
        <5>2. lineNow(b)' = array'[b]
          BY <1>2, <2>4, <4>3, <4>4, <5>1 DEF LineIs
        <5>3. lineOf(b.set, w) = array[b] BY <1>2, <3>3, <4>6 DEF LineIs
        <5> QED BY <4>1, <4>4, <5>2, <5>3
      <4> QED BY <4>5, <4>6
    <3> QED BY <2>7, <3>1, <3>2, <3>3
  <2> QED BY <2>6, <2>7
<1> QED BY <1>6, <1>7, <1>8

LEMMA AnswerStep ==
  ASSUME Design, IInv, DataInv, Next, cache_state # "IDLE", Answers
  PROVE  /\ req_r \in Load => /\ cache_out'.data = lineNow(req_r.block)[req_r.word]
                             /\ \A b \in Block : lineNow(b)' = lineNow(b)
         /\ req_r \in Store =>
              /\ cache_out'.data = None
              /\ \A b \in Block : lineNow(b)' =
                   IF b = req_r.block THEN [lineNow(b) EXCEPT ![req_r.word] = req_r.data]
                                      ELSE lineNow(b)
<1>1. req_r \in Request /\ req_r.block \in Block
  BY DEF IInv, LookupInv, Request, Load, Store
<1>2. Load \intersect Store = {} BY DEF Load, Store
<1>3. /\ req_r \in Load => \A line : merged(line) = line
      /\ req_r \in Store => \A line : merged(line) = [line EXCEPT ![req_r.word] = req_r.data]
  BY DEF merged, Load, Store
<1>4. \A b \in Block : LineIs(b) BY LineNowIs DEF LinesAre
<1>5. CASE LoadHits
  <2>1. selected[2] \in Ways /\ <<req_r.block.set, selected[2]>> = selected
    BY <1>5 DEF LoadHits, selected, IInv, TypeOK, ControllerTypeOK, CacheTypeOK
  <2>2. selected[2] \in waysOf(req_r.block) BY <1>5, <2>1 DEF LoadHits, waysOf
  <2>3. lineNow(req_r.block) = lineOf(selected[1], selected[2])
    BY <1>1, <1>4, <1>5, <2>2 DEF LineIs, LoadHits
  <2>4. \A b \in Block : lineNow(b)' = lineNow(b) BY <1>5, ContentsStep DEF LoadHits
  <2>5. cache_out'.data = lineNow(req_r.block)[req_r.word] BY <1>5, <2>3 DEF LoadHits
  <2> QED BY <1>2, <1>5, <2>4, <2>5 DEF LoadHits
<1>6. CASE StoreHits
  <2>1. \A b \in Block : lineNow(b)' = IF b = req_r.block THEN merged(lineNow(b)) ELSE lineNow(b)
    BY <1>6, ContentsStep DEF StoreHits
  <2> QED BY <1>2, <1>3, <1>6, <2>1 DEF StoreHits
<1>7. CASE Fetches
  <2>1. \A b \in Block :
          /\ lineNow(b)' = IF b = req_r.block THEN merged(lineNow(b)) ELSE lineNow(b)
          /\ b = req_r.block => lineNow(b) = missed_in
    BY <1>7, ContentsStep DEF Fetches
  <2>2. lineNow(req_r.block) = missed_in BY <1>1, <2>1
  <2> QED BY <1>2, <1>3, <1>7, <2>1, <2>2 DEF Fetches
<1> QED BY <1>5, <1>6, <1>7 DEF Answers

-----------------------------------------------------------------------------
(* The refinement: one clock of the memory system is one step, or none, of  *)
(* the atomic memory.                                                       *)

contentsNow == [b \in Block |-> lineNow(b)]
accessNow   == IF em \in Accesses THEN em ELSE None
resultNow   == IF answering THEN answer.data ELSE None

LEMMA RefinesInit == Init => Atomic!Init
<1> SUFFICES ASSUME Init PROVE Atomic!Init
  OBVIOUS
<1> USE DEF Init, ControllerInit, CacheInit, WRITE_BACK!Init, Memory!Init
<1>1. ~answering /\ answering = FALSE BY DEF answering
<1>2. em \notin Accesses /\ em = None BY AccessAssumption, NoneAssumption
<1>3. ASSUME NEW b \in Block PROVE lineNow(b) = InitLine
  <2>1. waysOf(b) = {} BY DEF waysOf
  <2>2. WriteBacks = {}
    <3>1. Len(fifo_queue) = 0 OBVIOUS
    <3>2. Queued(fifo_queue) = {} BY QueuedIs
    <3>3. Waiting = {} /\ Leaving = {} BY <3>2 DEF Waiting, Leaving, MemWrite
    <3> QED BY <3>3, AllWriteBacks
  <2> QED BY <2>1, <2>2 DEF lineNow, inMemory
<1>4. contentsNow = [b \in Block |-> InitLine] BY <1>3 DEF contentsNow
<1> QED BY <1>1, <1>2, <1>4 DEF Atomic!Init, contentsNow

LEMMA RefinesStep ==
  ASSUME Design, IInv, DataInv, PhaseInv, Next
  PROVE  Atomic!Next
<1> PICK starved \in Starved : ControllerClock(cpu_data_in, starved)
  BY DEF Next
<1> USE DEF contentsNow, accessNow, resultNow
<1>1. /\ CacheClock(cpu_cache, missed_in) /\ CPort(cpu_data_in)
      /\ c_state \in {"C_PORT_IDLE", "C_PORT_REQ"}
  BY DEF ControllerClock, IInv, TypeOK, ControllerTypeOK
<1>2. /\ None \notin Accesses /\ Accesses \subseteq Request /\ IoAccess \intersect Accesses = {}
      /\ Load \intersect Store = {} /\ None \notin Load
  BY AccessAssumption, NoneAssumption DEF Request, Load, Store
<1>3. Looks => contentsNow' = contentsNow
  BY ContentsStep
<1>4. CASE c_state = "C_PORT_IDLE" /\ cpu_data_out = None
  <2>1. /\ cache_out = None /\ cache_out' = None /\ cpu_data_out' = None /\ Looks
    BY <1>1, <1>4, CacheTurn, PortTurn DEF PhaseInv
  <2>2. answering = FALSE /\ answering' = FALSE BY <1>4, <2>1 DEF answering
  <2>3. contentsNow' = contentsNow /\ resultNow' = resultNow BY <1>3, <2>1, <2>2
  <2>4. mem_wb' = None BY <1>4, StageTurn
  <2>5. CASE em' = em BY <2>2, <2>3, <2>4, <2>5 DEF Atomic!Next, Atomic!Bubble
  <2>6. CASE em' # em
    <3>1. em \notin Accesses /\ em' \in Accesses \union IoAccess \union {None}
      BY <1>4, <2>6, StageTurn
    <3>2. CASE em' \in Accesses
      BY <1>2, <2>2, <2>3, <2>4, <3>1, <3>2 DEF Atomic!Next, Atomic!Begin, Request
    <3>3. CASE em' \notin Accesses
      BY <2>2, <2>3, <2>4, <3>1, <3>3 DEF Atomic!Next, Atomic!Bubble
    <3> QED BY <3>2, <3>3
  <2> QED BY <2>5, <2>6
<1>5. CASE c_state = "C_PORT_IDLE" /\ cpu_data_out # None
  <2>1. /\ em \in Accesses /\ em' \in Accesses \union IoAccess \union {None}
        /\ mem_wb' = IF em \in Load THEN cpu_data_out.data ELSE None
    BY <1>5, StageTurn DEF quiet
  <2>2. /\ cache_out = None /\ cache_out' = None /\ cpu_data_out' = None /\ Looks
    BY <1>1, <1>5, CacheTurn, PortTurn DEF PhaseInv
  <2>3. answering = TRUE /\ answering' = FALSE /\ answer = cpu_data_out
    BY <1>5, <2>1, <2>2 DEF answering, answer
  <2>4. contentsNow' = contentsNow BY <1>3, <2>2
  <2> QED BY <1>2, <2>1, <2>3, <2>4 DEF Atomic!Next, Atomic!Advance, Request
<1>6. CASE c_state = "C_PORT_REQ"
  <2>1. em \in Accesses /\ em' = em /\ mem_wb' = None /\ cpu_data_out = None
    BY <1>6, StageTurn DEF PhaseInv, quiet
  <2>2. CASE cache_out # None
    <3>1. cpu_data_out' = cache_out /\ cache_out' = None /\ Looks
      BY <1>1, <1>6, <2>2, CacheTurn, PortTurn DEF PhaseInv
    <3>2. /\ answering = TRUE /\ answering' = TRUE /\ answer = cache_out /\ answer' = cache_out
      BY <2>1, <2>2, <3>1 DEF answering, answer
    <3>3. contentsNow' = contentsNow BY <1>3, <3>1
    <3> QED BY <2>1, <3>2, <3>3 DEF Atomic!Next, Atomic!Bubble
  <2>3. CASE cache_out = None
    <3>1. cpu_data_out' = None BY <1>1, <1>6, <2>3, PortTurn
    <3>2. answering = FALSE BY <2>1, <2>3 DEF answering
    <3>3. CASE cache_out' = None
      <4>1. answering' = FALSE BY <3>1, <3>3 DEF answering
      <4>2. Looks BY <1>1, <1>6, <2>3, <3>3, CacheTurn DEF PhaseInv
      <4>3. contentsNow' = contentsNow BY <1>3, <4>2
      <4> QED BY <2>1, <3>2, <4>1, <4>3 DEF Atomic!Next, Atomic!Bubble
    <3>4. CASE cache_out' # None
      <4>1. answering' = TRUE /\ answer' = cache_out'
        BY <2>1, <3>4 DEF answering, answer
      <4>2. cache_state # "IDLE" /\ Answers /\ req_r = em
        BY <1>1, <1>6, <2>3, <3>4, CacheTurn DEF PhaseInv
      <4>3. em \in Request /\ em.block \in Block
        BY <1>2, <2>1 DEF Request, Load, Store
      <4>4. CASE em \in Load
        <5>1. cache_out'.data = lineNow(em.block)[em.word] /\ contentsNow' = contentsNow
          BY <4>2, <4>4, AnswerStep
        <5>2. resultNow' = contentsNow[em.block][em.word] BY <4>1, <4>3, <5>1
        <5> QED BY <2>1, <3>2, <4>1, <4>4, <5>1, <5>2 DEF Atomic!Next, Atomic!PerformLoad
      <4>5. CASE em \in Store
        <5>1. /\ cache_out'.data = None
              /\ \A b \in Block : lineNow(b)' =
                   IF b = em.block THEN [lineNow(b) EXCEPT ![em.word] = em.data] ELSE lineNow(b)
          BY <4>2, <4>5, AnswerStep
        <5>2. contentsNow' = [contentsNow EXCEPT ![em.block][em.word] = em.data]
          BY <4>3, <5>1
        <5>3. resultNow' = resultNow BY <3>2, <4>1, <5>1
        <5> QED BY <2>1, <3>2, <4>1, <4>5, <5>2, <5>3 DEF Atomic!Next, Atomic!PerformStore
      <4> QED BY <4>3, <4>4, <4>5 DEF Request
    <3> QED BY <3>3, <3>4
  <2> QED BY <2>2, <2>3
<1> QED BY <1>1, <1>4, <1>5, <1>6

LEMMA PhaseInit == Init => PhaseInv
  BY DEF Init, ControllerInit, CacheInit, LSU!LsuInit, PhaseInv, quiet

LEMMA Stutter ==
  ASSUME UNCHANGED vars
  PROVE  UNCHANGED Atomic!vars /\ (PhaseInv => PhaseInv')
<1> USE DEF vars, controllerVars, cacheVars, bitVars, ramVars, cPortVars, evictVars, fifoVars,
    mPortVars, memVars, stageVars, lsuVars
<1>1. \A s, w : tagOf(s, w)' = tagOf(s, w) /\ lineOf(s, w)' = lineOf(s, w)
  BY DEF tagOf, lineOf, writing
<1>2. \A b : waysOf(b)' = waysOf(b) BY <1>1 DEF waysOf
<1>3. WriteBacks' = WriteBacks BY DEF WriteBacks, Staged, MemWrite
<1>4. \A b : inMemory(b)' = inMemory(b) BY <1>3 DEF inMemory
<1>5. ASSUME NEW b PROVE lineNow(b)' = lineNow(b)
  <2> DEFINE w == CHOOSE u \in waysOf(b) : TRUE
  <2>1. w' = w BY <1>2
  <2>2. lineOf(b.set, w)' = lineOf(b.set, w)
    <3> HIDE DEF w
    <3> QED BY <2>1 DEF lineOf, writing
  <2> QED BY <1>2, <1>4, <2>2 DEF lineNow
<1>6. answering' = answering /\ answer' = answer BY DEF answering, answer
<1>7. PhaseInv => PhaseInv' BY DEF PhaseInv, quiet
<1> QED BY <1>5, <1>6, <1>7 DEF Atomic!vars

\* Through hits, misses, evictions, refills and write-backs in flight, the memory
\* stage behaves as one atomic memory: for every geometry, program, FIFO depth and
\* latency, with the arbiter as it is built.
THEOREM MemoryIsAtomic ==
  ASSUME Design PROVE Spec => ActsAsAtomicMemory
<1>1. Init => PhaseInv /\ Atomic!Init BY PhaseInit, RefinesInit
<1>2. IInv /\ DataInv /\ PhaseInv /\ [Next]_vars => PhaseInv'
  BY PhaseStep, Stutter
<1>3. IInv /\ DataInv /\ PhaseInv /\ [Next]_vars => [Atomic!Next]_(Atomic!vars)
  BY RefinesStep, Stutter
<1> QED BY <1>1, <1>2, <1>3, DataInvariance, PTL DEF Spec, ActsAsAtomicMemory, Atomic!Spec
=============================================================================
