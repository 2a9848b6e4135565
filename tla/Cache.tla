------------------------------- MODULE Cache -------------------------------
(***************************************************************************)
(* cache (rtl/l1.v): the four-way set-associative array behind the L1      *)
(* controller, with its tag and data block RAMs, valid and dirty bits,     *)
(* tree-PLRU replacement and the state machine that serves one request at  *)
(* a time.  Block RAM writes are registered: valid and dirty bits change   *)
(* on the edge that ends an access, the RAM one edge later (ram_write).    *)
(*                                                                         *)
(* A register qualified by a valid bit is None when the bit is low, and a  *)
(* register no later step reads before it is written again is None.        *)
(* Sub-word lanes are left to the byte-lane model: a request addresses a   *)
(* word of a block.                                                        *)
(***************************************************************************)
EXTENDS Naturals, FiniteSetsExt

CONSTANTS Sets, Tags, Words, Val, None

Ways    == 0..3
Block   == [set : Sets, tag : Tags]
Line    == [Words -> Val]
Victim  == [block : Block, line : Line]
Load    == [op : {"load"}, block : Block, word : Words]
Store   == [op : {"store"}, block : Block, word : Words, data : Val]
Request == Load \union Store
Answer  == [data : Val \union {None}]   \* None: a store's acknowledgement
RamWrite == [set : Sets, ways : SUBSET Ways, tag : Tags \union {None}, line : Line]

ASSUME NoneAssumption ==
  /\ None \notin Tags /\ None \notin Block /\ None \notin Line
  /\ None \notin Victim /\ None \notin RamWrite
  /\ None \notin Request /\ None \notin Answer

VARIABLES ready,           \* may accept in this cycle
          cache_state,     \* current_state
          req_r,           \* set/tag/word_index_r, write_read_r, data_in_r, addr_r
          lookup,          \* set_tag_in_cache and cache_data_out_r
          max_record_r,    \* victim way, latched in DELAY_STATE
          valid_bits_pw,   \* set of <<set, way>>
          dirty_bits_pw,   \* set of <<set, way>>
          access_rec,      \* set -> three tree-PLRU bits
          tag_ram,         \* <<set, way>> -> tag
          data_ram,        \* <<set, way>> -> line
          ram_write,       \* the registered RAM write port (enables, data)
          cache_out,       \* output_valid and data_out
          evicted,         \* evicted_valid, evicted_address, evicted_block
          miss             \* miss_valid, miss_addr

ramVars   == <<tag_ram, data_ram>>
bitVars   == <<valid_bits_pw, dirty_bits_pw, access_rec>>
cacheVars == <<ready, cache_state, req_r, lookup, max_record_r, bitVars,
               ramVars, ram_write, cache_out, evicted, miss>>

CacheTypeOK ==
  /\ ready \in BOOLEAN
  /\ cache_state \in {"IDLE", "DELAY_STATE", "DOING_WRITE", "DOING_READ",
                      "WRITE_MISS", "READ_MISS"}
  /\ req_r \in Request \union {None}
  /\ lookup = None \/ lookup \in [tag : [Ways -> Tags \union {None}],
                                  line : [Ways -> Line \union {None}]]
  /\ max_record_r \in Ways \union {None}
  /\ valid_bits_pw \subseteq Sets \X Ways
  /\ dirty_bits_pw \subseteq Sets \X Ways
  /\ access_rec \in [Sets -> [0..2 -> BOOLEAN]]
  /\ tag_ram \in [Sets \X Ways -> Tags \union {None}]
  /\ data_ram \in [Sets \X Ways -> Line \union {None}]
  /\ ram_write \in RamWrite \union {None}
  /\ cache_out \in Answer \union {None}
  /\ evicted \in Victim \union {None}
  /\ miss \in Block \union {None}

CacheInit ==
  /\ ready = TRUE
  /\ cache_state = "IDLE"
  /\ req_r = None /\ lookup = None /\ max_record_r = None
  /\ valid_bits_pw = {} /\ dirty_bits_pw = {}
  /\ access_rec = [s \in Sets |-> [i \in 0..2 |-> FALSE]]
  /\ tag_ram = [p \in Sets \X Ways |-> None]     \* the RAMs have no reset
  /\ data_ram = [p \in Sets \X Ways |-> None]
  /\ ram_write = None
  /\ cache_out = None /\ evicted = None /\ miss = None

-----------------------------------------------------------------------------
(* Tree PLRU: bit 0 picks the older pair, bits 2 and 1 the older way in it. *)

max_record(rec) == IF rec[0] THEN (IF rec[1] THEN 3 ELSE 2)
                             ELSE (IF rec[2] THEN 1 ELSE 0)

update_access_rec(rec, way) ==
  IF way < 2 THEN [rec EXCEPT ![0] = TRUE, ![2] = (way = 0)]
             ELSE [rec EXCEPT ![0] = FALSE, ![1] = (way = 2)]

(* The lookup of the latched request. *)

\* Wrong: the last way is left out of the tag comparison.
comparison_MissesWay3 == {w \in 0..2 : /\ lookup.tag[w] = req_r.block.tag
                                      /\ <<req_r.block.set, w>> \in valid_bits_pw}

comparison == {w \in Ways : /\ lookup.tag[w] = req_r.block.tag
                            /\ <<req_r.block.set, w>> \in valid_bits_pw}
hit == comparison # {}
set_way_select     == IF hit THEN comparison ELSE {max_record_r}
set_way_select_num == IF hit THEN Max(comparison) ELSE max_record_r
set_evict_valid ==
  LET victim == <<req_r.block.set, max_record_r>>
  IN  ~hit /\ victim \in valid_bits_pw /\ victim \in dirty_bits_pw

selected == <<req_r.block.set, set_way_select_num>>

\* Wrong: the write strobe does not select the stored word.
merged_NoStrobe(line) == line

\* The write strobe: the stored word merged into the rest of the line.
merged(line) == IF req_r.op = "store" THEN [line EXCEPT ![req_r.word] = req_r.data]
                                      ELSE line

-----------------------------------------------------------------------------
\* The RAM write port, and the read the request latches: at the accepting edge
\* the RAM still returns what it held before that edge's write.
CommitRam ==
  LET written(p) == ram_write # None /\ p[1] = ram_write.set /\ p[2] \in ram_write.ways
  IN  /\ tag_ram' = [p \in Sets \X Ways |-> IF written(p) /\ ram_write.tag # None
                                            THEN ram_write.tag ELSE tag_ram[p]]
      /\ data_ram' = [p \in Sets \X Ways |-> IF written(p) THEN ram_write.line
                                             ELSE data_ram[p]]

CacheAccept(cpu_cache) ==
  /\ cache_state = "IDLE" /\ ready /\ cpu_cache # None
  /\ ready' = FALSE
  /\ req_r' = cpu_cache
  /\ lookup' = [tag  |-> [w \in Ways |-> tag_ram[<<cpu_cache.block.set, w>>]],
                line |-> [w \in Ways |-> data_ram[<<cpu_cache.block.set, w>>]]]
  /\ cache_state' = "DELAY_STATE"
  /\ cache_out' = None /\ evicted' = None /\ miss' = None /\ ram_write' = None
  /\ UNCHANGED <<max_record_r, bitVars>>

\* ready waits for a RAM write in flight: the read port would otherwise return
\* the data from before it.
CacheIdle(cpu_cache) ==
  /\ cache_state = "IDLE" /\ ~(ready /\ cpu_cache # None)
  /\ ready' = (ram_write = None)
  /\ cache_out' = None /\ evicted' = None /\ miss' = None /\ ram_write' = None
  /\ UNCHANGED <<cache_state, req_r, lookup, max_record_r, bitVars>>

Delay ==
  /\ cache_state = "DELAY_STATE"
  /\ max_record_r' = max_record(access_rec[req_r.block.set])
  /\ cache_state' = IF req_r.op = "store" THEN "DOING_WRITE" ELSE "DOING_READ"
  /\ ram_write' = None
  /\ UNCHANGED <<ready, req_r, lookup, bitVars, cache_out, evicted, miss>>

\* Every access that ends: its way becomes the most recent, the answer is pulsed.
EndAccess(data) ==
  /\ cache_out' = [data |-> data]
  /\ access_rec' = [access_rec EXCEPT ![req_r.block.set] =
                      update_access_rec(@, set_way_select_num)]
  /\ cache_state' = "IDLE"
  /\ req_r' = None /\ lookup' = None /\ max_record_r' = None
  /\ UNCHANGED ready

WriteHit ==
  /\ cache_state = "DOING_WRITE" /\ hit
  /\ ram_write' = [set |-> req_r.block.set, ways |-> set_way_select, tag |-> None,
                   line |-> merged(lookup.line[set_way_select_num])]
  /\ dirty_bits_pw' = dirty_bits_pw \union {selected}
  /\ EndAccess(None)
  /\ UNCHANGED <<valid_bits_pw, evicted, miss>>

\* Wrong: the answer is not narrowed to the addressed word.
ReadHit_WholeLine ==
  /\ cache_state = "DOING_READ" /\ hit
  /\ ram_write' = None
  /\ EndAccess(lookup.line[set_way_select_num])
  /\ UNCHANGED <<valid_bits_pw, dirty_bits_pw, evicted, miss>>

ReadHit ==
  /\ cache_state = "DOING_READ" /\ hit
  /\ ram_write' = None
  /\ EndAccess(lookup.line[set_way_select_num][req_r.word])
  /\ UNCHANGED <<valid_bits_pw, dirty_bits_pw, evicted, miss>>

\* A miss hands the dirty victim out in the same cycle as the miss itself.
Miss ==
  /\ cache_state \in {"DOING_WRITE", "DOING_READ"} /\ ~hit
  /\ evicted' = IF set_evict_valid
                THEN [block |-> [set |-> req_r.block.set,
                                 tag |-> lookup.tag[set_way_select_num]],
                      line  |-> lookup.line[set_way_select_num]]
                ELSE evicted
  /\ miss' = req_r.block
  /\ cache_state' = IF cache_state = "DOING_WRITE" THEN "WRITE_MISS" ELSE "READ_MISS"
  /\ ram_write' = None
  /\ UNCHANGED <<ready, req_r, lookup, max_record_r, bitVars, cache_out>>

MissWait(missed_in) ==
  /\ cache_state \in {"WRITE_MISS", "READ_MISS"} /\ missed_in = None
  /\ evicted' = None /\ miss' = None /\ ram_write' = None
  /\ UNCHANGED <<ready, cache_state, req_r, lookup, max_record_r, bitVars, cache_out>>

\* Wrong: the line a store missed is installed clean.
Refill_NeverDirty(missed_in) ==
  /\ cache_state \in {"WRITE_MISS", "READ_MISS"} /\ missed_in # None
  /\ evicted' = None /\ miss' = None
  /\ ram_write' = [set |-> req_r.block.set, ways |-> set_way_select,
                   tag |-> req_r.block.tag, line |-> merged(missed_in)]
  /\ valid_bits_pw' = valid_bits_pw \union {selected}
  /\ dirty_bits_pw' = dirty_bits_pw \ {selected}
  /\ EndAccess(IF cache_state = "READ_MISS" THEN missed_in[req_r.word] ELSE None)

\* The fetched line replaces the victim, merged with the store that missed.
Refill(missed_in) ==
  /\ cache_state \in {"WRITE_MISS", "READ_MISS"} /\ missed_in # None
  /\ evicted' = None /\ miss' = None
  /\ ram_write' = [set |-> req_r.block.set, ways |-> set_way_select,
                   tag |-> req_r.block.tag, line |-> merged(missed_in)]
  /\ valid_bits_pw' = valid_bits_pw \union {selected}
  /\ dirty_bits_pw' = IF cache_state = "WRITE_MISS"
                      THEN dirty_bits_pw \union {selected}
                      ELSE dirty_bits_pw \ {selected}
  /\ EndAccess(IF cache_state = "READ_MISS" THEN missed_in[req_r.word] ELSE None)

\* One posedge: cpu_cache is the request pulse, missed_in the refill pulse.
CacheClock(cpu_cache, missed_in) ==
  /\ CommitRam
  /\ \/ CacheAccept(cpu_cache) \/ CacheIdle(cpu_cache) \/ Delay
     \/ WriteHit \/ ReadHit \/ Miss
     \/ MissWait(missed_in) \/ Refill(missed_in)
=============================================================================
