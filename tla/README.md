# A TLA+ model of the RISC-V FPGA core

The repository is a five-stage RV32I core in Verilog with an L1 data cache, an
SDRAM controller, memory-mapped io behind an APB bridge, a UART and a serial
bootloader, and the Python benches that test it against golden models.  These
modules model it register by register where its behaviour is hard: several
machines clocked together, one-cycle pulses, registered handshakes, timers,
serial lines, and benches that are concurrent programs of their own.  A step is
one clock edge of everything in a module; every right-hand side reads the
registers as they were before the edge, as non-blocking assignments do.

## 1. Inventory

| part | source | state | operations | hard |
|---|---|---|---|---|
| write-back buffer | `rtl/l1.v:347-406` | ring, two pointers with a wrap bit, output register | write, read, both at once | refuses silently; wrap bits |
| L1 cache | `rtl/l1.v:429-905` | tag and data RAMs, valid/dirty bits, tree PLRU, lookup registers, RAM write port | hit, miss, evict, refill | RAM write lands an edge after the bits; victim chosen long before it is used |
| cache controller | `rtl/l1.v:1-345, 411-424` | CPU port, victim staging, drain mode, memory port, arbiter | accept, answer, push, drain, read, write back | misses overtake queued write-backs; pulses nobody waits for |
| block memory | `rtl/data_mem.v` | array, burst | read, write | none: it is also the contract of the port |
| SDRAM controller | `rtl/SRAM_controller.v` | state, counters, command pins, refresh timer | initialise, read, write, refresh | chip timing; refresh against requests; shared data bus |
| LSU | `rtl/lsu.v` | state, request registers, response register | issue, wait, hand over | combinational release, io stores must act once |
| APB bridge, mmio | `rtl/io_apb_bridge.v`, `rtl/mmio.v` | APB state and registers | setup, access, decode error | no timeout |
| SIM_EXIT | `rtl/io/sim_exit.v` | exit code, sticky valid | write, read | first write wins |
| UART registers | `rtl/io/uart.v:1-238` | register file and flags | APB access, end of a frame on either side | set against clear in one cycle |
| UART engines | `rtl/io/uart.v:241-619` | bit machines, sample counters | send, receive a frame | two unsynchronised clocks |
| bootloader | `rtl/bootloader.v` | header, counters, buffers, reply | take a byte, write, reply, finish | no flow control; retry; partial blocks |
| top level | `rtl/RV32I.v`, `rtl/inst_mem.v` | owner of the SDRAM port, core reset, instruction memory | hand over | ownership changes later than the reset |
| hazard detector, pipeline registers | `rtl/hazard_detector.v`, `rtl/*_reg.v` | five stages | stall, flush, bubble | stall in the cycle of a misprediction |
| fetch, branches | `rtl/pc_controller.v`, `rtl/program_counter.v`, `rtl/branch_logic.v` | pc | next pc | redirect during a stall |
| branch prediction | `rtl/branch_predictor.v`, `rtl/btb.v` | history, snapshots, counters, target buffer | predict, update, restore | redirects before it knows there is a branch |
| forwarding, register file | `rtl/forwarding_unit.v`, `rtl/register_file.v` | registers | forward, write on the falling edge | the youngest value; operands held through a stall |
| decode, execute | `rtl/instruction_decoder.v`, `rtl/control.v`, `rtl/alu*.v`, `rtl/BE_logic.v` | none | tables | signs, shifts, byte lanes |
| bench of the core | `tb/cocotb/datapath/datapth_ctb.py` | golden queues, counters, loaded memories | golden model, load, monitor, compare | pairs queues by position; sees registers only |
| bench of C programs | `tb/cocotb/c_test/c_ctb.py` | loaded memories, probe | load, poison, probe, verdict | leftovers of an earlier build |
| bench of the register file | `tb/cocotb/register_file/register_file_ctb.py` | two queues, golden file | drive, sample, compare, finish | edges on which three parties act |
| image builder | `compile_to_mem.py` | .mem files | pad, check depth | shorter image over a longer one |
| host, programs, Verilog benches | `programmer/`, `programs/`, `tb/*.v` | - | - | host unfinished |

How they interact.  The pipeline's EX/MEM register presents an access to the LSU,
which decodes the address, pulses one request to the cache or to the io bridge
and stalls the pipeline until the answer.  The cache controller turns a request
into a one-cycle pulse to the cache; the cache pulses back an answer, or a miss
and perhaps a victim in the same cycle.  The victim goes through a holding
register into the write-back buffer, the miss waits for that, and both reach
memory through one port that the arbiter gives to the miss first.  Behind the
port is `data_mem` in simulation and the SDRAM controller on the board, where
the bootloader owns the port until the image is loaded.  A bench runs the golden
model over the source of a program to its end, loads the assembled words into
the arrays of the simulated core, and then pairs what retires with what the
golden model queued.

What makes each part correct: the buffer is a queue; LSU, cache and memory are
one atomic store of words; no victim and no pulse is lost; the SDRAM controller
is a block memory and keeps its chip's rules; an io request acts once and is
answered; no byte and no error flag of the UART is forgotten; frames arrive as
sent; the core starts on the image the host sent; the pipeline retires the
sequential program; and the benches pass exactly what is right.

## 2. Modules

| module | models | shape |
|---|---|---|
| `BoundedFifo` | what a write-back buffer promises | abstract: a queue of at most `DEPTH`, refusing silently |
| `WriteBackBuffer` | the ring | `Clock(write_in, read_en)`; `ImplementsFifo` is the refinement, its queue the slots between the pointers |
| `MemoryPort` | `data_mem`, and the contract of the memory port | a request taken on `mem_ready`, one answer, any latency, refreshes |
| `Cache` | `module cache` with its RAMs | one action per state, hit and miss apart; `CacheClock` is a posedge |
| `CacheController` | the three machines around it, the arbiter, the buffer | `CPort`, `WriteBackPath`, `MPort`; instances of `BoundedFifo` and `MemoryPort` |
| `Lsu` | `lsu.v` | one action per state; the combinational outputs are operators; instantiated by `MemorySystem` and by `Pipeline` |
| `MemorySystem` | EX/MEM, MEM/WB, LSU, controller, cache, memory, io bus | `Next` is one posedge of all; any sequence of accesses |
| `AtomicMemory` | what the above promises the pipeline | abstract: accesses begin, take effect in one step, and leave |
| `SdramDevice` | the chip (external) | banks, full-page bursts, CAS latency, minimum distances |
| `SdramController` | `SRAM_controller.v` | one action per state, initialisation step by step |
| `Sdram` | controller, chip and a client | refines `MemoryPort` |
| `UartLine` | `uart_tx`, and `uart_rx` or the C bench's `uart_probe` | the two ends of a line, each with its own tick |
| `Uart` | the UART's registers | the APB answer, and one operator per group of flags |
| `Mmio` | bridge, SIM_EXIT, UART, LSU's io port | `Cycle` |
| `Bootloader` | the record machine | one action per state |
| `BootSystem` | host, line, bootloader, memories, owner of the port, core's first access | `Next` is one clock |
| `Word` | arithmetic on machine words, bitwise operators included | operators; every width derives from `WORD_BITS` |
| `Pipeline` | fetch with the target buffer, decode, execute, LSU stage, write-back, forwarding, hazards | `PipelineClock` is a period: the falling edge that writes the registers, then the rising edge |
| `CorePorts` | what the LSU talks to: one atomic byte memory and SIM_EXIT, any latency | the abstraction `MemorySystem` is shown to implement |
| `Golden` | `Golden_Model` of the core's bench | `load_asm`, `parse_asm`, `exec_instr` on source lines |
| `DatapathBench` | assembler, loading, reset, monitor, scoreboard, both ways to end a test | one action per step of a test, `Clock` for the running core |
| `RegisterFileBench` | register file with driver, golden file, monitor, scoreboard, finish | falling edge, rising edge, the two awaits of the scoreboard |
| `*_proofs` | theorems | section 5 |

Correspondence.  Names are those of the source.  A registered pulse and the
registers that go with it are one variable, `None` while the pulse is low
(`evicted` is `evicted_valid`, `evicted_block` and `evicted_address`).  An address
is a record of the fields the code cuts it into.  Lines map words to values; a
word is what the cache's write strobe selects.  In `Pipeline`, each pipeline
register is one record with its valid bit, and an instruction word is the fields
the decoder hands on.  Operators named `X_Suffix` behind a comment `Wrong:` are
plausible mistakes in X: each property was seen to fail when X is replaced by
one of them, so no property holds whatever the code does.

Abstractions worth knowing.
- The latched RAM outputs of the cache are read at the accepting edge: the read
  port registers the old contents there, and nothing can write a RAM between that
  edge and DELAY_STATE, because `ready` waits for the write port.
- The cache's lookup registers are dropped (set to `None`) when an access ends:
  nothing reads them before the next accept overwrites them.
- A write to `MemoryPort` is visible from its acceptance, since the port takes
  nothing else until the burst is over.
- In `MemorySystem` the io bus answers any time after the request, one cycle at
  the earliest (a decode error) and with any delay otherwise; `Mmio` has the bus.
- In `Mmio` the engines are ends of frames; `UartLine` has the bits.
- In `BootSystem` the serial link is bytes at a fixed distance; `UartLine` shows
  that the engines deliver bytes.  The host adds up its sum while it sends.
- In `Pipeline` the direction predicted for a hit in the target buffer is a free
  choice, which includes whatever history, snapshots and counters would say.  The
  buffer itself (ports, priority, replacement ring) is exact, since a hit
  redirects the fetch before the instruction is known to be a branch.
- In the run, words of the core have 8 bits in four bytes of 2, and shift amounts, halves
  and immediates shrink with them; the pc wraps at 64 instructions.  The proofs cover the
  32 bits of the code as well.
- The bench's assembler keeps a line one word.  The real `li` may expand to two,
  which the golden model, counting one line as one instruction, could not follow
  either: it refuses `li` (a line it cannot decode ends the test), and self-checking
  programs, which the golden model does not see, use it with small values.
- `accesses` keeps one access more than the golden program makes: enough to see
  a surplus one.
- The LSU's DONE state is unreachable in this core and `control` never raises
  `sys_busy` or `pc_stall`; they have no counterpart.

## 3. Runs

| run | states | shows |
|---|---|---|
| `MCWriteBackBuffer` | 6,076 | the ring is a queue; four slots, three payloads, every wrap |
| `MCMemorySystem` | 276,510 | `ActsAsAtomicMemory`: the whole memory system is one atomic store; one copy of a block; clean lines equal memory; every pulse taken |
| `MCStarved` | 73,365 | holding register, full-queue and drain logic, with the buffer starved |
| `MCWriteBacks` | 216,471 | at most one victim is waiting, so no refill reads a block still on its way to memory; accesses end, every victim reaches memory |
| `MCSdram` | 371,054 | a block memory that takes every request; chip rules; one refresh per period; no bus contention |
| `MCUartLine` | 397,485 | bytes arrive as sent under drift, in four frame formats, at the receiver and at the bench's probe |
| `MCMmio` | 1,404,100 | requests act once and are answered in four clocks, no byte or flag forgotten, the byte sent is the byte accepted |
| `MCBoot` | 212,850 | the core starts on the image sent; handoff of port and pin |
| `MCCore` | 269,281 | every retired instruction, every access, the final memory and the verdict are those of the sequential program, for some twelve thousand programs |
| `MCRegisterFile` | 3,466 | file and golden file agree, each transaction is compared with its own reads |
| `MCMmioRead`, `MCGoldenDecode` | stop at a counterexample | section 6 |

Bounds and why they are enough.

- Cache: one set of four ways contended by five blocks.  Sets share nothing but
  the machines, which serve one access at a time; five blocks are the fewest that
  evict.  Two words per line where the data matters (a store must keep the other
  word), one where only the path of a victim does.  Stores go to one block
  where the data matters, to two in `MCWriteBacks`, where one victim must be able
  to follow another, and to all in `MCStarved`; the other blocks only compete for
  the ways.  Blocks that are treated alike are a symmetry set.  A buffer of two
  entries fills, wraps and drains.  The runs do not bound the number of accesses.
- `MCStarved` holds the buffer's grant at 0 for as long as it likes, which
  `tb/tb_ctrl.v` forces in its bench: as built the buffer never holds two victims
  (`NoBacklog`), so the full and drain logic would never run otherwise.
- `MCSdram` scales the initial wait to 40, the refresh period to 26 and the burst
  to four halfwords, so that refresh meets a request in every phase; every
  halfword has its own value.  The chip's rules and the bus are proved for the
  real counts and all others (section 5).
- `UartLine`: 16 samples per bit as in the code; three data bits with odd parity
  and with two stop bits, four with even parity, and one bit; all bytes of four
  bits, so that a short frame has a bit it must not carry.  `DRIFT` is
  how many sample ticks the receiver's clock may run ahead or behind within a
  frame: six, under the half bit (eight) at which no receiver could work.
- `Mmio`: every register, a hole in the window, a window without a slave; frames
  begin and end in any cycle.
- `BootSystem`: a byte has 16 values and a word two bytes, so that sums and
  counters wrap; an instruction record and a data record of two blocks; at most
  two garbled bytes in a load and one in a transmission of a record, since an
  8-bit sum promises no more, and none in a header, which the sum does not cover.
  The host waits for the reply to a record before it sends the next.  A byte takes
  10 clocks on the wire where it takes 4340; `mem_ready` may be low six clocks, the
  code's longest busy time being some 30, so the ratio is the unfavourable one.  The
  first time it is low for up to `POWER_UP`, the SDRAM's initialisation: sixteen clocks
  here, more than a byte; 5014 in the code, which is less than the 7 x 4340 of the first
  header (`SystemAssumption`).  A
  refresh keeps the port from the handover for at most six clocks and the core
  needs ten from its release to its first memory request; `HandoffKeepsRequest`
  rests on that margin, and is proved whenever there is one.
- `MCCore`: all sequences of four instructions of nine that are each a hazard for
  some other (write, read, load, store, sub-word load and store, both directions
  of branch, jump), all loops around three of seven, every operation at operands
  at the edges of a word, every sub-word access at every place it may be, loops,
  calls, indirect jumps, programs the bench refuses, and programs that check
  themselves in each of the three ways they are run.  A data hazard reaches three
  instructions back and a control hazard two ahead, so four contain every overlap.
  Five registers, two data words, a target buffer of one entry, in which every
  taken branch evicts.  Port latencies and predictions are free in each period.
  Programs terminate and access memory aligned, as those of the repository do; all other
  bounds of this run are gone in the proofs (section 5).
- `MCRegisterFile`: two registers besides x0 and three transactions, enough to
  write, overwrite and read back, and to be one sample off; proved for all.

Deadlock is checked in every run.  Symmetry is used only in runs without liveness.

## 4. Fairness

The clock runs: weak fairness of `Next`.  Beyond that
- `MCWriteBacks` assumes that memory finishes an operation and raises `mem_ready`
  again (`MemoryProgress`), which `EveryRequestTaken` and `ActsAsBlockMemory` of
  the SDRAM controller justify, and that the io bus answers (`IoProgress`), which
  `EveryRequestAnswered` of `Mmio` justifies.
- `Mmio` needs none: `EveryRequestAnswered` bounds the wait in clocks.
- `MCSdram` and `MCBoot` assume the clock only.  That the load ends rests on the
  bound on garbled bytes: a line that garbled every transmission would go on for ever.
- `MCCore` assumes that the simulator runs.  While a port has an access the core is
  stalled, and a period in which that port does not answer changes no state; so
  fairness of the clock is also that each access is answered in the end, which the
  two lines above justify.
- `MCRegisterFile` assumes that the simulator runs.

## 5. Proofs

Proved for every value of the constants that satisfies the assumptions named in the
modules (which every run evaluates).

`WriteBackBuffer_proofs`, for every depth and payload: `TypeCorrect`;
`NeverOverrun` (the pointers are never further apart than the depth); and
`RingImplementsFifo`, the refinement.  The inductive invariant is the types and
the occupancy bound; `PointerStep` and `WindowStep` say how an edge moves the
window of valid slots, `FifoClock` that each of the four cases of an edge is the
queue's.

`MemorySystem_proofs`, for every number of sets, tags, words and values, every
buffer depth, every program, and with or without a starved buffer:

- `TypeCorrect`;
- `ValidLinesWritten`: a valid way always has a tag and a line, in the RAM or in
  the write about to land (the RAMs have no reset);
- `PulsesTaken` (`RequestAlwaysTaken`), `VictimsKept` (`NoVictimOverwritten`),
  `PushesAccepted` (`PushNeverRefused`), `DrainBeforeRead`
  (`NoReadWhileDraining`).

None of these is inductive.  `IInv` adds what ties the machines together: what the
lookup registers hold in each state of the cache (`LookupInv`); that a miss is
pending exactly while the cache waits, so that there is never a second
(`MissInv`); that a victim held or being pushed excludes a read on the memory
port, and that the queue has room for what is on its way to it (`VictimInv`); and
that the cache is idle and ready when a request is on its way (`PulseInv`).  The
step lemmas follow the machines: the cache (`CacheStep`, `CacheEffects`), the memory
port (`MPortEffects`), the queue (`QueueStep`), the handshakes (`ControlStep`), and
types.

Its second part is about where the data is.  `OneCopy` (`SingleCopy`) holds with
or without a starved buffer.  The others assume `Design`, that the buffer is never
starved, as in the arbiter of the code (`MCStarved` shows that they need it):
`OneVictimAtATime` (`NoBacklog`), `RefillsAreFresh` (`NoStaleRefill`) and
`DroppedLinesAreInMemory` (`CleanLinesMatchMemory`).  The invariants, in the order in
which they build on each other:

- `CopyInv`: a block is in one way only, and a miss is for a block in no way;
- `BacklogInv`, `PortInv`: one victim at most is held, queued or on the port, and
  the port's machine is in the state that goes with it;
- `FlightInv`: a victim still waiting is the line of the way the pending miss is
  going to refill (`Waiting`, `Doomed`), and one that has left for memory
  (`Leaving`) is in no valid way;
- `CleanInv`: a clean way holds what the array of the memory holds.

Its third part is the refinement, from the same assumptions: `MemoryIsAtomic`
(`ActsAsAtomicMemory`).  The mapping takes a word from the way that has its block,
from the victim on its way out, or else from memory, and the access from EX/MEM.
`PhaseInv` says where that access is (presented, pulsed, in the cache, answered,
handed over).  `ContentsStep` shows that a clock in which the cache does not
complete an access changes no word of the mapped store, wherever lines and
victims move, and that a hit or a refill changes the one word of a store;
`AnswerStep` that a load carries the word of that clock; `StageTurn` that the stage
begins and ends one access at a time.  `RefinesStep` puts them together: a clock is
a step of `AtomicMemory` or a stutter.

`Sdram_proofs`, for every burst length, number of banks and rows and every client.
From `TimingAssumption` and `SdramAssumption` (the controller's waits cover the chip's
distances): `RulesKept` (`DeviceRulesKept`) and `BusNeverContended`
(`NoBusContention`).  The chip remembers how long ago each command was; the
controller knows only its state and a counter.  `IInv` says what the pins hold in each
state (`Pins`), which rows are open (`OpenRows`), which burst the chip is running
(`RunningBursts`), what it is driving (`Bus`), and, for each state, how large the
chip's ages are at least in terms of the counter (`Distances`).  `ControllerSteps`
lists the moves of the controller, `CommandLegal` shows each command legal,
`ChipAfter` and `AgesAfter` what it does to the chip.  On top of that:

- `RefreshesKept` (`OneRefreshPerPeriod`), from `RefreshAssumption`: a refresh period
  has room for an access already begun and the refresh behind it, also the period in
  which the initialisation ends.  With the parameters of `SRAM_controller.v:94-100`
  the initialisation takes 5014 clocks, which end 334 clocks into a period of 390,
  and the wait is 28 at most: 362 of 389.  `Left` is the number of clocks until a
  refresh that is due will have been done; it falls at every clock (`LeftFalls`), also
  where the access goes on to another state, so the period cannot run out first
  (`Due`).  `Phase` ties the period's counter to the length of the initialisation.
- `BlockMemory` (`ActsAsBlockMemory`), from `GeometryAssumption` as well (a block does not run
  over a row's end, and the chip answers after two clocks): the refinement.  `DataInv`
  says that the request in work is the one the port took (`Held`), which word of the
  block the chip is at in each state (`Aligned`), and that the words moved so far are
  those of the block: read into the answer (`Fetched`) or written to the cells
  (`Stored`).  `PortStep` shows that a clock is the port's `Accept`, `Finish`, `Wait` or
  a stutter.

`Mmio_proofs`, for all bytes, exit codes and requests: `TypeCorrect`, `ActsOnce`,
`AlwaysAnswered`, and of the data `BytesKept` (`NoByteForgotten`), `ErrorsKept`
(`NoErrorForgotten`) and `SendsAccepted` (`SendsWhatWasAccepted`).  A request goes through
six phases of bridge and slave, which between them are the invariant (`Phase`).

`BootSystem_proofs`, for every image, every byte and word width, every host and every
line that garbles at most one payload byte of a record at a time.  From
`BootAssumption`, `SystemAssumption` and `ImageAssumption` (what BOOTLOADER.md asks of a
loader: whole words, for the SDRAM whole and aligned blocks, inside the memory):

- `ReplyLeaves` (`ReplyOnPin`);
- `HandoffSafe` (`HandoffKeepsRequest`) under `LOW < FIRST`, the margin between the longest
  time `mem_ready` is low and the core's first request: the clocks the core has had and
  those `mem_ready` may stay low are together at most `LOW` until the port has changed
  hands;
- `NothingDropped` (`NoByteDropped`) under `SlowLine`, `LOW + 3 < BYTE_TIME`: the loader
  ignores its receiver while a block is being written, so a byte must not come within
  the time a refresh and the two clocks of the handshake take (some 30 clocks, against
  4340 of a byte).  The power-up wait of the SDRAM is longer than a byte; it is over
  before the first block because a header of seven bytes comes first (`PoweringUp`);
- `AcksAreTrue` (`AckMeansWritten`), under `SlowLine`;
- `ReleasedOnImage` (`CoreStartsOnImage`), under `SlowLine` and `Disjoint`: no two records
  of one memory overlap.  The probe record of BOOTLOADER.md:128-133 is overwritten by the
  record behind it and is not such an image; it is acknowledged rightly all the same.

None of the last three is inductive.  The invariant `Control` places the state machine in
the record the host is sending: which byte it takes next (`due`) in each state of the
header (`InHeader`) and of the payload (`InPayload`), which record it is at (`Records`),
what it knows of the header (`Header`) and what is on the wire (`HeaderWire`,
`PayloadWire`).  `Pace` says how far off the next byte is while a block waits.  `Sums` says
that the host's sum and the machine's are equal exactly while no byte of the record has
been garbled: two sums that differ go on differing, since both add the same byte, and no
`Deltas` is a multiple of `BYTES` (`SumsApart`); so the sum byte is accepted exactly if all
bytes were right, however long the record.  On top of it `Data` says where the payload
is: `Placed`, how many bytes are written, waiting to be written and in the word or block
buffer, and at which address; `Contents`, that these are the bytes of the payload, unless
one was garbled.  `Earlier` says that what has been acknowledged stays.  `ControlStep`
goes over the clocks with a byte (`HeaderStep`, `PayloadStep`, `SumStep`), without one
(`QuietStep`) and with the end of a reply (`ReplyStep`); `DataStep` over a byte of the
payload (`ByteData`) and a write that lands (`Landing`, `RestData`); `OthersKept` is where
`Disjoint` is used.

`UartLine_proofs`, for every number of samples per bit, every set of formats and bytes and
both listeners: `Delivered` (`ReceivesWhatIsSent`) and `Kept` (`NoneSwallowed`), under
`Margin`, `DRIFT + 2 <= SAMPLES \div 2`.  The two ticks are what a listener may lose before
it has seen the line fall: the line follows the sender by a clock, and uart_rx follows
the line by another.  With the 16 samples of the code that allows a drift of six ticks, the
value of `MCUartLine`; with seven TLC finds a frame that is received wrongly.  The
invariant (`Sure`) is built on how far the sender is ahead: `(tx_s - rx_s) + drift` changes
only when one end turns to its next bit, so it says at which bit each of them is
(`Place`: `Quiet`, `Begun`, `Abreast`, `Ended`), and a sample is always taken at least one
tick into the bit and before its end (`Sampled`, `Turning`).  What is sampled is then the
bit of the byte in flight (`HeardBit`): `Sending` says what is left in the sender's shift
register, `Hearing` what the listener has shifted in or indexed so far, `Parities` that the
two running parities agree.  `Together` reduces the pairs of moves to the ten that can meet.

`RegisterFileBench_proofs`, for every file and any number of transactions:
`NeverMismatches`, `TypeCorrect`.  The golden file is one write ahead of the device
(`OneWriteAhead`), and the queues hold the results of at most one transaction.

`DatapathBench_proofs`, for every set of programs the assembler accepts
(`SourceAssumption`: well-formed operands, a label defined once), every depth of both
memories and of the target buffer, words of 4, 8, 16 and 32 bits, every prediction and
every latency: `NothingMismatchesHolds` (`NothingMismatches`),
`AccessesInProgramOrderHolds` (`AccessesInProgramOrder`) and `MemoryEndsAsGoldenHolds`
(`MemoryEndsAsGolden`), each `Spec /\ []Aligned => []P`.

`Aligned` speaks of the golden model only: each access it makes lies in the data memory, outside
the io page, at a multiple of its size, and each instruction it executes at a multiple of
four.  The theorems need it because the core has no trap for the contrary: it drops the low
bits of a misaligned address, wraps addresses at the depth of `D_MEM`, and tags its target
buffer with the pc without its two lowest bits, while the golden model does none of the
three.  It holds throughout `MCCore` (`INVARIANT Aligned` added to `MCCore.cfg` passes on the
same 269,281 states), loads, stores, loops and indirect jumps included.

- A run `T` (`RunOf`) is four functions of the number of instructions executed (pc,
  registers, memory by byte, accesses so far) in which each step executes the
  assembler's word at its pc (`Executes`, `NextRegs`, `NextMem`, `NextPc`).  It is no
  variable of the model: the invariant says that there is one.
- The golden model works on source lines, not on words, with a memory that has only the
  bytes stored to.  `Decoded` shows that what `decode_instr` makes of a line agrees with
  what the assembler makes of it; `ValueIs`, `MemIs`, `NextPcIs` that both then compute the
  same, opcode by opcode (`AluTable`, `ResTable`), with the signed and unsigned views of each
  side; `ExecStep` that `exec_instr` therefore extends the run by a step.
- The pipeline is placed on the run by counting (`PipelineOK`): the valid instruction in a
  stage is the one whose number is that of the instructions retired and in the stages
  before it (`iW`, `iM`, `iX`, `iD`), provided the program has that many and no older
  jump or misprediction is pending (`exPending`, `idPending`).  `WbOK`, `EmOK`,
  `ExOK`, `IdOK` and `FetchOK` say what each stage then holds: the ALU result, the operands,
  or, of an operand in EX, that it is right unless a later stage is going to forward it
  (`Operand`).  `BtbOK` says that an entry of the target buffer is for a branch of the
  program and has its target, so that a wrong guess is one of direction only.  `PortOK`
  says where the access in EX/MEM is (`Quiet`, `Asked`, `Working`, `Answered`), and up to
  which instruction memory is that of the run.  `BeyondOK` keeps what is fetched behind the
  last instruction from reaching memory before that one has retired.
- `ClockStep` takes this over a period of the clock: `StallStages`, `StallPort` for one in
  which an access waits; `AdvanceBack`, `AdvanceEx`, `AdvanceId`, `AdvanceBeyond`,
  `AdvancePort` for one in which everything moves; `AluResult` and `Redirect` say that
  forwarding and branch resolution give EX what the run has.  `CompareStep` shows that the
  scoreboard's comparison succeeds.

`Inv` ties these to the phases of a test (`ScoredInv`), from the source as read and
parsed to the state in which everything has been compared; tests without a scoreboard
have empty queues and no golden memory (`UnscoredInv`).

Only model-checked: `VerdictIsTrue`, since whether a self-checking program is right is
a mark its author gave it (`correct`), not something the modules derive; and all liveness
(`EveryAccessEnds`, `EveryVictimWritten`, `EveryRequestTaken`, `BootEnds`, `EveryTestEnds`,
`EveryTransactionChecked`): temporal reasoning with fairness and ENABLED is beyond the
prover.  What a recursive computation yields for every input needs induction over data and
is beyond it too.  So the checksum of a record is a running sum in the host as well, and the
golden model runs instruction by instruction, and both are compared step by step.

## 6. Where code and text disagree

- `MCMmioRead`.  `rtl/io/uart.v:173` says "the read consumes the byte".  If a frame
  ends in the cycle of the read, `rx_valid` stays up: software reads the same byte
  twice, and the new frame counts as an overrun.
- `MCGoldenDecode`.  `ROADMAP.md:357` reports "5 programs passing" on the "whole-core,
  self-checking against a golden ISA model".  `decode_instr` defines `s_type_instr`
  (`datapth_ctb.py:98`) and looks up `s_type_instri` (`:194`): the first source line
  that is neither arithmetic nor a branch or jump ends the test with NameError.
  `MCCore` is run with the corrected name (the constant `StoreList`), since nothing
  else about the core could be compared otherwise.

Read in the code and kept out of the runs, so that what they show holds only
without it:

- `BOOTLOADER.md:198` says of a data record that is not whole blocks "the hardware
  NAKs anyway as cheap insurance".  `bootloader.v:242` acknowledges it and its tail is
  never written.  `ImageAssumption` keeps such records out of the model, as BOOTLOADER.md
  asks of the host; `AckMeansWritten` is false without it.
- `BOOTLOADER.md:114` proposes a host that sends "every record back to back at wire
  speed", but while the machine replies it ignores `rx_valid` (`bootloader.v:289`).
- `BOOTLOADER.md:195` calls a record without payload legal; `bootloader.v:207` goes on to
  PROGRAM_BYTES whatever the count, and would take 256 words for 0.  `ImageAssumption`
  asks for at least one word.
- The sum covers the payload only (`bootloader.v:218`), so a garbled header is
  acknowledged; and the comment at `bootloader.v:124` calls the first byte the
  "payload BYTE count" where the machine counts words.
- A sub-word access that is not aligned ignores the low address bits in the cache
  (`l1.v:843`); the golden model reads the bytes at the address.
- `record_len - 1` is computed in 32 bits (`bootloader.v:299`), so a load of 0 records
  never ends; STOP_BITS 0 waits for four stop bits (`uart.v:377`); and a power-up
  wait that is a power of two is never reached (`SRAM_controller.v:101`).  No host, no
  program and no build in the repository has one.
- The comment at `register_file_ctb.py:77` explains its sampling by a write on the
  rising edge; the file is written on the falling edge, and what the monitor samples
  is right because the driver has put the next addresses there on that same edge.
- The benches that load `dut.D_MEM` name an instance `datapath.v` no longer has; the
  model loads the memory they mean.

## 7. Not modelled

How often the predictor is right (history, snapshots, counters: a rate, not a
result); bit positions of the instruction encoding; SYSTEM instructions, which do
nothing in this core; lane shifts of sub-word io data; the reset synchroniser and
resets after power-up, apart from the core's release; CONFIG and IRQ of the UART,
whose values nothing in the modelled part reads; the host program, which is
unfinished (`BootSystem` has the host the protocol document describes); software of
the core (`programs/uart.c`: its read-modify-write of CONTROL can clear an overrun
unseen; `NoErrorForgotten` counts the write as a chance software has had); the
Verilog benches, which are fixed schedules of what the runs drive in every order.
Data races of a simulator do not arise in the modelled Verilog: all its assignments
are non-blocking or purely combinational.  Those of the benches are resolved by the
phases of the simulator (a ReadOnly sample follows all writes of its time step).
