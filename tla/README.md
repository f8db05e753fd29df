# AXIUART_RV32I in TLA+

The repository is an FPGA design: a host sends command frames over a UART, a
bridge in SystemVerilog turns each of them into AXI4-Lite accesses and answers
it with a response frame, and the registers behind the bridge run and debug a
VexRiscv (RV32I) processor. A Python driver plays the host; scripts on top of it
encode small RV32I programs, load them into the block RAM, run them and read the
results back.

This directory models the bridge clock edge by clock edge, the driver read by
read, the debug hardware with the scripts that use it, and the programs with the
loaders that carry them. TLC checks all of it. TLAPS proves, for every value of
the constants, the safety of the bridge and of the driver, their refinements
included, and what the scripts do to the processor. Section 1 is the inventory,
section 2 the modules, section 3 the runs, section 4 the proofs, section 5 what
the runs found, section 6 the plan.

## 1. The system

| component | source | state it keeps | operations | what makes it correct |
|---|---|---|---|---|
| frame parser | `Frame_Parser.sv` | state, command, address, up to 64 data bytes, CRC, timeout counter and flag, error status, `frame_valid_hold`, consumed latch, soft reset pulse | take a byte, give up on a timeout, validate, wait to be consumed, RESET | a frame is offered once, valid or refused, with its own bytes; it never waits for ever |
| CRC-8 | `Crc8_Calculator.sv` | one register | byte step, reset | the polynomial of the protocol |
| control state machine | `Uart_Axi4_Bridge.sv` | main state, captured command, address and read count, start flags | start the AXI master, start the builder, consume the frame | one transaction and one reply per frame, with the outcome of that frame |
| frame builder | `Frame_Builder.sv` | state, request registers, data index, CRC, registered FIFO write port | load a request, send a byte, stall on a full FIFO, close the frame | the reply of the request, no byte lost |
| FIFO | `fifo_sync.sv` | memory, two pointers, count | write, read, both | a bounded queue |
| TX feed and UART transmitter | `Uart_Axi4_Bridge.sv`, `Uart_Tx.sv` | start flag, delayed done, state, bit count, shift register | hand a byte over, shift it out, wait for CTS, soft reset | bytes leave once, in order, bit for bit |
| UART receiver, RX FIFO, RTS | `Uart_Rx.sv`, `Uart_Axi4_Bridge.sv`, `AXIUART_Top.sv` | oversampling state, queue, RTS register | sample a byte, queue or drop it | nothing is dropped while the host respects RTS |
| AXI4-Lite master | `Axi4_Lite_Master.sv`, `Address_Aligner.sv` | state, beat counter, address, byte index, timer, status, read buffer | one handshake per channel, next beat, time out | an OK is true; bytes go where they belong; every transaction ends |
| register block | `Register_Block.sv` | AXI state, registers, memory strobes and busy flag | register read and write, soft reset | reads return what was written; strobes are pulses |
| memory crossbar, block RAM | `vexriscv_mem_crossbar.sv`, `vexriscv_blockram.sv` | instruction and data queues, three small state machines | fetch, load, store, debug access | every request answered once with its own word |
| CPU control | `vexriscv_debug_bridge.sv`, `vexriscv_control.sv`, `vexriscv_wrapper.sv`, `vexriscv_ebreak_monitor.sv` | edge detectors, breakpoint shadows, halt latches | run, halt, step, reset, breakpoints | a command given is a command carried out |
| trace probe | `vexriscv_trace_probe.sv` | ring of program counters | record, read back | the newest entries, in order |
| Python driver | `axiuart_driver.py`, `protocol.py` | serial port with the bytes nobody has read | register and burst read and write, soft reset; wait for the reply in three timed reads, time out | a call returns the answer to its own request, or raises |
| CPU helpers and session scripts | `cpu.py`, `led_blink.py`, `c_blink.py`, `computation_test.py`, `coverage_test.py`, `regfile_dump.py` | where the script is, loop counters, the CPU left behind | halt, load, verify, run, wait for the EBREAK, dump | a program runs whole; a result is that of the program just run; the CPU is stopped in the end |
| encoder and shipped programs | `encoder.py` and the program builders of the scripts | none | one method per instruction | the processor decodes what was meant; the programs compute what is expected |
| decode table | `vexriscv_rtl_parser.py` (writes a SystemVerilog package) | none | match and mask, field helpers | one instruction per word |
| image loaders | `bin_loader.py`, `vexriscv_hex_loader.py`, `fetch_vexriscv_isa_hex.py` | the file on disk, memory bytes, upper address | read a binary or Intel HEX, download, validate | what is accepted is what was built |
| generators | `gen_registers.py`, `yaml_to_artifacts.py`, `generate_comprehensive_rv32i_test.py` | none | a table in, text out | not modelled, section 2 |

How they interact. Inside the FPGA everything shares one clock: "concurrency"
is that all components step at every edge and read each other's registers of
the cycle before. Parser, control state machine, AXI master and builder form a
chain of level and pulse handshakes (`frame_valid`, `start_transaction`,
`transaction_done`, `build_response`, `response_complete`, `frame_consumed`),
and several of them pass data combinationally: the master reads the parser's
registers while it works. The builder and the transmitter are decoupled by the
TX FIFO. The outside world (bytes on the line, CTS, the AXI slave) moves as it
likes. The RESET command (0xFF) resets some of the parts and not the others.

On the host everything is one thread, but it meets the device on a line whose
frames carry no number. Each driver call sends a frame and blocks for the
answer; a read that times out or is interrupted by Ctrl-C leaves an answer on
the line, and only opening the port throws it away. A script is a sequence of
such calls with polling loops and deadlines of its own, while the CPU runs, hits
an EBREAK or goes through its restart between two of them.

What is hard to get right, and hard to reach with a test bench: pulses one
cycle long that nobody acknowledges; flags that are checked a cycle before they
are used; timeouts that meet the event they wait for; a RESET while other parts
are busy; buffers at exactly their limit; flags lowered only by an event that
may never come; on the host, a call that fails in the middle of a session, an
answer that belongs to the call before, a status bit read from the run before. `PROJECT.json` lists these hazards line by line.

## 2. The modules

| module | models | remarks |
|---|---|---|
| `BusProtocol` | command fields, markers, status codes | the CRC step is a parameter |
| `FrameParser` | parser | one operator per `always_ff` block, one action per state and event; `ParserClock` is one edge |
| `FrameBuilder` | builder | `BuilderClock` is one edge |
| `BridgeControl` | control state machine | extends the two above, sees the AXI master through its port |
| `AxiPort` | the AXI master's port, abstractly | start, some cycles, one done pulse, an outcome that stays readable |
| `FrameService` | *abstract*: what the bridge promises a host | no clock, no bytes in flight |
| `RequestPath` | parser + control + builder + `AxiPort` | refines `FrameService` |
| `Crc8` | the CRC step, exactly | used by the MC modules only (`Bitwise`) |
| `BoundedQueue` | *abstract*: a queue of bounded length | |
| `FifoSync` | FIFO | refines `BoundedQueue` |
| `UartTx` | transmitter | baud divider abstracted to a tick |
| `ResponsePath` | builder + TX FIFO + feed + transmitter | the FIFO is the queue `FifoSync` implements; CTS and RESET in any cycle |
| `AxiLiteMaster` | AXI master with the aligner | one action per state |
| `AxiAccess` | the master against an open slave | refines `AxiPort` |
| `HostProtocol`, `HostCrc8` | `protocol.py`: frame building, response parsing, its own CRC | written from the Python, not from `BusProtocol`: that the two agree is checked |
| `RegisterClient` | *abstract*: what the driver promises a script | no bytes; operations done in order, of a burst every word that has a register; a RESET clears registers; a result is true while the exchange is trusted |
| `DriverExchange` | the driver's calls, read by read, over a line with faults | extends `FrameService` for the bridge, refines `RegisterClient`; behind the bridge the master's beats and the registers, as a host sees them |
| `DebugTarget` | CPU control register, memory-access engine, crossbar's debug port, debug bridge and the wrapper's halt and run latches | cycle by cycle; the CPU is only "executing" or not |
| `HostSession` | the four kinds of script, with the helpers of `cpu.py`, on `DebugTarget` | one driver call is one step |
| `Rv32iEncoder`, `Rv32iDecoder` | encoder, generated decode table | words are sequences of 32 bits |
| `TestPrograms` | the programs of `led_blink.py`, `computation_test.py`, `coverage_test.py` | delay loops shortened to `LoopIters` |
| `Rv32iCore` | *external*: a reference RV32I hart on the block RAM | stands for the third-party core; a word nobody wrote is the NOP the RAM is initialised with; at what no shipped program uses (CSRs, traps, an access across words) it stays where it is |
| `ImageLoaders` | raw binaries, Intel HEX, the fetch tool | a line of the file is the bytes it spells |
| `ProgramImage` | build, carry, load and run one program | extends the four above |
| `MC*` | constants for TLC | |
| `*_proofs` | TLAPS proofs | section 4 |

Conventions. One step is one rising clock edge. Wires are operators named as in
the source, registers are variables; where two components use one name (`state`,
`cmd_reg`, `crc_reg`) the variable is prefixed (`pstate`, `bstate`, `mstate`,
`bcrc_reg`) and the declaration says so. A combinational output read by
another component is an operator both use. Blocks of one clocked process where
"the last assignment wins" become one IF chain in the reverse order. Data
arrays with a separate count (`data_reg`, `read_data`) are sequences of that
length. Variables marked *history* record what happened for the properties and
are read by no action.

The bridge is cut in three along its narrow interfaces, and each cut is covered
by a statement checked or proved on the other side:

* `RequestPath` uses `AxiPort` for the AXI master; the real master implements it
  whatever its slave does: checked in `axi_access` (`PortImplemented`), proved in
  `AxiAccess_proofs` (`MasterImplementsPort`).
* `RequestPath` lets the TX FIFO be full in any cycle, so it does not depend on
  how `ResponsePath` drains it.
* `ResponsePath` has the control state machine ask for a reply, and reset, only
  while the builder is idle: the theorems `BuildPulseIsNeverLost` and
  `SoftResetIsClean` of `RequestPath_proofs`. Its FIFO is a sequence of bounded
  length: `RingImplementsQueue` of `FifoSync_proofs`.

The host side is cut the same way:

* `DriverExchange` has `FrameService` for the bridge, which `RequestPath`
  refines (`FrameServiceImplemented`).
* A driver call is one step in `HostSession`: it returns the truth, or raises,
  or, while an answer of an interrupted call is on the line, returns that one.
  This is what `RegisterClient` says, which `DriverExchange` refines
  (`RegisterClientImplemented`), and what the run `stale_reply` shows of the
  rest. No script sends a RESET.
* `DriverExchange` takes three things from the RTL that `FrameService` leaves open:
  a burst goes on behind a beat answered with an error (`Axi4_Lite_Master.sv`
  343-349, 363-368: `Perform`); a RESET clears CONTROL, DEBUG and TEST_0 to TEST_4
  (`Register_Block.sv` 513-528: `HearReset`); and a RESET that finds the transmitter
  in mid-byte leaves the bridge mute, which is `FeedHungIffCut` of `ResponsePath`.
  The host then reads the bytes sent before, perhaps what a receiver makes of the
  one cut (`Remains`), and nothing after it.
* In `HostSession` a program is words that are loaded and executed; that these
  words are the program meant, and do what the script expects, is `ProgramImage`.

Environment assumptions are constants, so that a run can drop them:

| constant | says | when dropped |
|---|---|---|
| `LateBytes = FALSE` | no byte lands in the one cycle in which `timeout_occurred` is up | run `late_byte` |
| `CutResets = FALSE` | a RESET frame does not lose its CRC byte | run `cut_reset` |
| `TxDepth >= Backlog + 72` | the TX FIFO holds the longest reply beside what the host left unread | run `shipped_depth` |
| `SlaveDepth = 1` | the AXI slave takes one access of a kind at a time, as `Register_Block` does | with a deeper slave the answer to an access given up on is taken for that of the next one |

These are the conditions under which what the runs check holds; section 5 says
what happens otherwise. `ResponsePath` has two switches more, `CtsFree` and
`ResetWhileSending`: CTS off in the cycle a byte is handed over, and a RESET
while a reply is on its way. Either can leave the transmit feed waiting for ever. Both
happen in `response_path`, and the theorems are free of them; `shipped_depth`
and `reset_while_sending` turn off what they are not about, so that their
counterexamples have one cause. The host modules have bounds of the same standing:

| constant | says | why |
|---|---|---|
| `CallGap = 2` | two driver calls are at least two clocks apart | a frame and its reply take more than 10^5 clocks; with a gap of one, a HALT written right behind the RUN that ended a break is no edge for the bridge |
| `Leftovers` | at most one answer of an earlier session is on the line when a script opens the port | `open` flushes what has come; one call can be cut short with its answer still to come. Two leftover read answers could make `halt_cpu` believe in a halt that is not there |
| `NoiseBytes` | a disturbed byte becomes a marker, a status or an echo; on the way to the device the marker and the command byte stay whole | the values the two parsers branch on; a command byte changes how many bytes the parser waits for, which is `request_path`'s subject, where any byte may come at any time |

In `DebugTarget` the debug bus is ready when the crossbar asks and the register
file port answers at once, as they do with the CPU halted, which is when every
script uses them (`RequestsFindEngineFree` checks that).

Not modelled in the covered parts: the hard reset in the middle of a run (the
initial state is the one after it; registers that the reset leaves alone are
given the value of the first soft clear, except the parser's CRC register and
the FIFO memory, which start anywhere), `MAIN_DISABLED_RESPONSE` (no transition
enters it), the debug, trace and statistics outputs, which only observe, and
the baud divider's arithmetic; on the host logging, printing, argument parsing,
the digits of a HEX line (a line is the bytes they spell), the upper limit on
`--dump` words and `--test` with one name (a shorter list of programs).

Of `Register_Block`, `DriverExchange` has what a host sees of it (which addresses
are decoded, which registers a soft reset clears) and `DebugTarget` the CPU
control and memory engine.

Not modelled at all: the UART receiver with the RX FIFO and RTS, the AXI state
machine of `Register_Block`, the crossbar's queues with a running
CPU, breakpoints, single step and the trace probe (all in the plan, section 6).
The VexRiscv core is third-party and generated. The generators
(`gen_registers.py`, `yaml_to_artifacts.py`,
`generate_comprehensive_rv32i_test.py`) and the part of `vexriscv_rtl_parser.py`
that reads Verilog turn one text into another in one pass, keep no state and run
beside nothing; `utils.py` reads simulation logs, `test_driver.py` is a straight
line of calls `DriverExchange` has; the UVM bench and the build scripts are no
part of the running system.

## 3. The runs

| run | question | bounds |
|---|---|---|
| `request_path` | does the bridge carry out and answer each frame as promised? | real CRC; markers and noise; five commands (write of two bytes, of a halfword, read of two halfwords, reserved size, RESET); two data values; right and wrong CRC; timeout of 2 cycles; 190,000 states |
| `response_path` | does every byte of every reply reach the host? | real CRC; a write, a read of two bytes, a refused read; FIFO of 14 with 4 bytes left over, the tight case of the general bound for replies of at most 10 bytes; CTS at will; a RESET whenever the builder is idle; 6,400 states |
| `fifo` | is the ring a queue? | depth 3 (not a power of two), three values |
| `axi_access` | does the master do what it reports, with any slave? | two words of memory in an address space of two words, so that bursts cross a word and the top; ten commands of all sizes, misaligned, fixed and incrementing, and one of 16 words that fills the buffer; timeout 4, busy threshold 1; 11,000 states |
| `driver_exchange` | does the driver keep what a script relies on? | both CRCs real; four registers, TEST_3 and TEST_4 with a gap between them, which a RESET clears, and the first two breakpoint addresses, which it keeps; nine operations: register and burst reads and writes, a burst over the gap, RESET, two that are refused; three calls; one fault anywhere: a late reply, a byte disturbed to one of five values, Ctrl-C, a power cut; 270,000 states |
| `host_session` | do the scripts load, run, judge and stop as they say? | four scripts with every option, found on a target powered on or running; memory of three words, programs of two, two programs in a row; two registers; four leftovers; two call failures or Ctrl-Cs; calls two clocks apart; 35,000 states |
| `program_image` | are the programs what was meant, however they travel? | every program the scripts build; 47 mnemonics with nine sets of operands at the edges and beyond; seven constants; binary and HEX files of records of 10 bytes; two network errors, Ctrl-Cs or spoilt bytes and lines; delay loop of 2; 23,000 states |
| `late_byte`, `cut_reset`, `shipped_depth`, `reset_while_sending`, `stale_reply` | section 5 | |

Why the bounds are enough. All loops of the parser and the builder over bytes
are uniform: they count to a length given by the command, so lengths 1 and 2
exercise first, middle (address bytes) and last. Payload bytes are only copied
and fed to the CRC, so two values, one of them 0xFF (the RESET code), suffice;
address bytes include the marker 0xA5. The timeout is a plain counter: 2 lets a
byte arrive early, in time and too late. The three frames that can follow each
other directly (any after any) appear because the specification runs for ever.
The AXI timeout of 4 is the least that lets a write beat, three phases on one
timer, be late in its last phase and still be answered. `shipped_depth` uses
the true depth, 64, and the true longest reply, 72 bytes.

A driver call leaves nothing behind but bytes on the line, the registers and the
bridge's phase. In `driver_exchange` the first call may be the one disturbed,
the second the one that meets what it left, the third the one after that; a
fourth meets no new combination. In `host_session` a program of two words has a
first and a last, two programs show what the first leaves for the second, and
two faults let one break a session and the other its clean-up. The hardware
delays (`RestartCycles`, `BreakCycles`) are no shorter than the least gap between
calls, so a call can fall before, inside and after each. In `program_image` 10
bytes to a record puts words across records; the operands are the ends of each
immediate, one past them, and patterns with alternating bits.

What each property says:

* `FrameServiceImplemented` (`request_path`): the refinement to `FrameService`.
  Each frame is executed only if it is whole, legal and its CRC agrees,
  otherwise refused with the right code; each is answered by exactly one reply
  whose bytes, CRC included, state what happened to that frame. Of a frame cut
  right after its marker nothing is known, and the echoed command is that of an
  earlier frame: the abstract specification says so.
* `AxiSeesTheFrame`, `ParserHeldWhileServing`: the data the AXI master reads
  combinationally are those of one good frame and hold still.
* `BuilderFreeWhenAsked`, `OneVerdict`, `ResetCutsNothing`: the unacknowledged
  pulses never meet a partner that is not listening.
* `ParserEventuallyIdle`: the assertion of the same name in
  `Uart_Axi4_Bridge.sv`, as a liveness property.
* `NoWriteWhenFull`: the assertion of `Frame_Builder.sv`.
* `BytesAccountedFor`, `HostReadsTheReply`: no byte lost, doubled or overtaken on
  the way to the line, and each readable from it bit by bit. A byte refused by CTS
  or cut by a RESET is the last to leave the FIFO.
* `FeedHungIffCut`: the feed waits for a completion that nobody will report exactly
  if a byte was refused at its hand-over or cut in mid-byte before; no other
  timing of ticks, pops and reports hangs it, and nothing frees it again.
  `LineKeepsMoving`: until that happens, all that is owed leaves.
* `OkMeansDone`, `WritesStayInside`: a transaction reported OK was carried out
  beat by beat with OKAY answers, and bytes never land elsewhere.
  `OkMeansDone` says nothing of reads at addresses inside a word: the master
  takes the low lanes of RDATA whatever the address (`Axi4_Lite_Master.sv`
  259, 266-267), and the register block serves word-aligned reads only.
* `PortImplemented`, `AxiEventuallyDone`: the contract with the control state
  machine; the second is the assertion of `Uart_Axi4_Bridge.sv`.
* `HostFramesAccepted` (`driver_exchange`): `protocol.py` and the RTL were written
  apart; the bridge refuses no frame the driver builds unless the line changed a
  byte of it.
* `CallsStayInStep`: a call that began on a quiet line and was not disturbed
  returns normally exactly when the device carried it out, and leaves the line
  quiet for the next. A line is quiet only at a bridge no RESET has made mute: after
  an interrupted read and a RESET in the middle of its reply, later calls are
  carried out and raise, and the property leaves them out. That an undisturbed
  call, RESET included, never makes the bridge mute is part of it.
* `EveryCallReturns`: whatever happens to the line or the board.
* `RegisterClientImplemented`: the refinement to `RegisterClient`. An operation is
  in the device's hands from the sending of its frame on, also when the call has
  given up; a result is only promised while every call began on a quiet line.
  What is promised of the registers holds always: a burst over a gap writes both
  sides of it and is reported as an error, a RESET clears its registers and no other.
* `RunsWholeProgram` (`host_session`): the CPU is let go only with every word of
  the program in place, whatever an earlier session left in memory, in the CPU
  or on the line.
* `RequestsFindEngineFree`: `Register_Block` overwrites a request that is under
  way, so each must find it idle and, as `cpu.py` demands, the CPU halted.
* `WordsReadAreInMemory`: BUSY falls a clock before the word is in RDATA; no
  script reads it too early.
* `BreakIsOwn`: the EBREAK `wait_for_ebreak` reports is that of the program just
  started; the latch of the run before is gone by then.
* `DumpIsRegisterFile`: a dump after a halt shows one state of the registers.
* `StopTakesEffect`, `SessionEnds`: a halt asked for stops the CPU whether or not
  the script waits for it, and no script hangs but in the loop Ctrl-C ends.
* `EncodingIsDecoded` (`program_image`): the decode table takes every encoded word
  for the instruction meant and its fields for the operands. FENCE, which the
  table lacks, is left out.
* `LoadedImageIsIntact`: an accepted image is the program built. Intel HEX has a
  checksum per record and no count of records, so a lost line or a cut file can
  go unnoticed; then every byte loaded is still right. A spoilt byte count shifts
  the checksum to another byte, and nothing is promised.
* `ResultsAreExpected`, `LightsWalk`: every test reaches its EBREAK with the value
  its script compares with; each LED follows the one before it, for ever. A
  program that jams, at a word the hart does not decode or a branch to itself,
  violates them: the mutants that TLC must find are such programs.
* The `*TypeOK` invariants bound every register.

Fairness. Hardware steps whenever the clock does, so each specification has
weak fairness on its clock step and on nothing a partner decides. In
`RequestPath` also: the AXI master eventually answers (that is
`AxiEventuallyDone`, shown in `axi_access` with a slave that owes nothing), and
the TX FIFO is not full for ever (that is `LineKeepsMoving`, as long as no byte is cut). The line is never
obliged to send. In `ResponsePath` the baud counter comes round, and the host
asserts CTS for a bit period again and again. In `AxiAccess` only the master's own steps are
fair; no slave action is. In `DriverExchange` the bridge keeps working, if it is not mute
(its TX FIFO may then be full, and the builder waits), and the
driver's reads end, with bytes or by their timeout; a script need not call, and
no fault need happen. In `HostSession` the clock runs, a call under way comes
back, and the deadline of a waiting loop passes; EBREAK and Ctrl-C need never
come. In `ProgramImage` a hart that is let go executes: weak fairness of the steps that
change the hart, written out with `MayStep` for ENABLED, because TLC would otherwise
evaluate each step once for every value ENABLED binds. An instruction that leaves
the hart as it is disables it, so a program that jams may stay there, and is
reported. No network, file or loader action is fair.

Deadlock is checked in all passing runs but `program_image`, whose programs end;
there the liveness of `ResultsAreExpected` says where they may.

For every property of a passing run there is a mutant of a mapped definition, a
plausible bug (a dropped guard, an off-by-one, a missing clear), that makes TLC
report that property; the mutated forms stand in the modules, each before the
definition it mutates, marked *Mutant*, and are used by nothing else.

## 4. The proofs

| theorem | module | for every |
|---|---|---|
| `HandshakeHolds`, `ParserIsHeld`, `BuildPulseIsNeverLost`, `SoftResetIsClean`, `VerdictIsSingle`, `BridgeIsTypeCorrect` | `RequestPath_proofs` | timeout, CRC function, bytes offered, AXI outcome; `LateBytes` off |
| `AxiWorksOnTheFrame` | `RequestPath_proofs` | the same |
| `BridgeServesFrames` (refinement) | `RequestPath_proofs` | the same, with `CutResets` off too |
| `ResponsePathTypes`, `NoByteOverflows`, `BytesLeaveInOrder`, `HostReadsEveryByte` | `ResponsePath_proofs` | CRC function, set of requests, timing of CTS and RESET, depth and backlog with `Fits` |
| `FeedHangsOnlyWhenCut` | `ResponsePath_proofs` | the same, without `Fits` |
| `RingKeepsItsWidths`, `RingIsWellFormed`, `RingImplementsQueue` (refinement) | `FifoSync_proofs` | depth and set of values |
| `MasterKeepsItsWidths`, `MasterImplementsPort` (refinement), `BytesLandWhereAddressed` | `AxiAccess_proofs` | slave behaviour and depth, timeout, busy threshold, address space, set of legal commands |
| `OkIsTheTruth` | `AxiAccess_proofs` | the same, with `SlaveDepth = 1` |
| `SessionIsSound`, `SessionTypes`, `DumpShowsOneState`, `ProgramsRunWhole`, `EngineIsFreeWhenAsked`, `WordsReadAreTrue`, `BreaksAreOwn` | `HostSession_proofs` | program, memory, list of programs and of test patterns, number of registers, hardware delay, gap between calls of at least one clock, number of faults |
| `StaysInStep`, `ExchangeIsTypeCorrect`, `DriverFramesAccepted`, `QuietCallsStayInStep`, `DriverIsRegisterClient` (refinement) | `DriverExchange_proofs` | set of calls on 32-bit addresses and words, set of registers, their contents and those a RESET clears, noise, number of calls and of faults; two CRC functions with `CrcsAgree` |
| `ImageTypes`, `WordsDecodeAsMeant`, `ImagesArriveIntact` | `ProgramImage_proofs` | set of jobs, their operands and values, sequence of at most 4096 mnemonics, loop count, size of a HEX record, load address, changes to a spoilt byte, number of faults |
| `ConstantsArrive` | `ProgramImage_proofs` | the same; the value loaded is any of the 2^32 |

So every invariant and every refinement that a passing run checks is proved; the
theorem that states it names it. What is left to TLC is liveness, and what the
programs other than the load of a constant compute. `CutResets` is free in all theorems about `RequestPath` but the
refinement: the states in which the bridge hangs after a cut RESET are safe ones,
but the frame it then takes up was never received whole.

*What is assumed of the constants.* `Fits` (the TX FIFO holds 72 bytes beside the
backlog), `LateBytes` and `CutResets` are environment assumptions of section 2. `AxiStatuses` holds no code for a bad CRC
or an illegal command, because `Axi4_Lite_Master.sv` has none (29-33): with one,
a reply could tell a host that a frame carried out had been refused.
`SessionAssumption` says that the four scripts load programs which are not empty
and fit into the memory (`load_bin` and `bin_size_check` refuse any other),
check at least one test pattern, and find at most one answer on the line after
`open`. `ExchangeAssumption` says that addresses and values are 32-bit numbers, as
the docstrings of the driver ask, that a register call is a burst of one, and
that registers have offsets of twelve bits, which is all `Register_Block` decodes.
`CrcsAgree` is a hypothesis of the theorems about `DriverExchange`: the CRC of
`protocol.py` and that of the RTL do the same to every byte, and each step is one
to one, in the byte and in the register. It is finite, and TLC evaluates it for
the two real programs, all 65,536 steps of each (`BothCrcs` in
`MCDriverExchange`). `ImageAssumption` says that a record has 1 to 255 data bytes
(its count is one byte), that a job names a program the scripts build, or the
sweep, and that a sweep fits the block RAM of 4096 words; the length of every
shipped program is proved to. Operands are any integers: what the encoder's masks
do to those out of range is part of `WordsDecodeAsMeant`. TLC evaluates the
other assumptions on the instances it checks.

*The handshake invariant.* None of the `request_path` invariants is inductive:
that the builder is free when asked depends on where parser, control state
machine and AXI port can be together. `Handshake` has four parts, one per
place: `ParserPlace` (the flags of the parser go with its state: the consumed
latch is only up in IDLE, the timeout flag never in VALIDATE, the hold flag
only for a good frame), `ControlPlace` (control is idle while the parser
collects, and ERROR means a reply is being made), `BuilderPlace` (the builder
works only while control waits for it, and its last state overlaps the first
cycle of the next hunt), `AxiPlace`. The assumption `~LateBytes` enters in one place: without it a byte in
the timeout cycle takes the parser on while it gives the frame up, and
`ParserPlace` is lost.

*Types.* That the builder never indexes past its data is not local to it:
`ReadCount` carries the count of bytes read from the AXI port through the one
cycle in which the control state machine keeps it.

*The service.* `Serving` adds to handshake and types what the registers hold of
the frame. `Received`: the fields stand in their registers, the state says how
many bytes came, and the CRC register has run over all of them. `Judged`: a
frame is offered as good or bad exactly as its bytes say. `Promised`: from the
request to the builder on, status, echo and data state the outcome of this
frame. `Emission`: what the builder has sent is the beginning of the reply these
registers make, and its CRC register has run over just that. Every clock edge
that keeps `Serving` is then one step of `FrameService` (a reset, a frame taken,
an outcome, a reply) or none. The value of the CRC over a whole frame is a
recursive function over positions; that it does not depend on what follows
(`CrcPrefix` in `FrameBuilder_proofs`) is shown with `SetInduction`, a first-order
induction over a set of numbers, derived from the well-foundedness of `<`.

*The response path.* A byte owed to the host is in the transmitter, in the FIFO,
on the write port or still to be strobed by the builder: `Ledger` states the
equation, from which the depth needed (72 bytes beyond the backlog) follows,
and with it that the one-cycle-old full flag does no harm. `Faithful` adds the
order to the count: each place holds the byte the replies have at that position
(`InOrder`, with `CrcPlace` for the bytes the builder has yet to make), and the
bits heard together with those left in the shift register are the byte owed
first (`OnTheLine`). A byte that is cut stays owed and is counted with those on
their way (`Unsent`), so ledger and order outlive it: nothing is popped any
more, at most the backlog and one reply pile up, and they have room. `FeedState`
says where the feed is with its byte, on its way out, reported, the report seen, and
that the pulse is up outside these exactly after a cut; it needs no other part.

*The ring.* Range and agreement of pointers and count are inductive together;
the refinement is the lemma that the live cells are different cells.

*The AXI master.* `IInv` ties the beat in hand to the address of its first byte
in the payload and to the length of the buffer, and says that ERROR is never
left with an OK; from it follow the widths (no index passes the 64 bytes of the
buffers) and, step by step, the port: each start, done and idle cycle is one of
the port's, everything between is a stutter. `StaysInside` adds that the address
register is that of the beat, which needs `Remainder` (adding beat sizes one by
one modulo 2^32 or all at once is the same), and that every byte stored so far
is in its place. `CarriedOut` counts: a slave that holds one access of a kind has
answered exactly the beats behind the present one, so while the status is still
OK each of them was answered OKAY, its bytes stored or fetched.

*The session.* What the scripts rely on is spread over script, line, memory
engine and CPU, and `Sound` has a part for each. `Halting`: once HALT is written
and a CTRL read back true, the CPU is held and the RUN edge detector low, until
the script itself writes RUN. `Line`: at most one stray answer is ahead of a
script, and it cannot pass `halt_cpu`: the write of HALT takes it if it is
anything a write accepts, the answer to that write then meets the read of
CTRL and is refused, and the session ends. So every value read after a halt is the
register's own. `Engine`: a memory access goes through four phases, asked,
accessing, answering, answered, and the calls of `write_word` and `read_word`
each find it in one of them; that a call takes a clock at least is why RDATA is
never read in the clock between BUSY's fall and the word. `Program_In`: the words
stored so far are in memory, and nothing but the script writes there while the
CPU is held. `OwnBreak`: after the RUN edge an EBREAK is that of the memory just
loaded. With a gap of one clock between calls all this still holds; the gap of
two is needed for `StopTakesEffect` only.

*The exchange.* That the two sides agree is arithmetic on bytes, and is proved
once for all frames and replies, from the definitions taken from the Python on one
side and from the RTL on the other. A packed word unpacks to itself
(`UnpackPack`), a burst of packed words is cut at the right places
(`PackedWords`), a command byte says the same on both sides for each of the 64 the
driver can send (`CommandSays`). Since both steps of the CRC are one to one, a
byte that changes shows in the CRC wherever it is (`ChangedByteShows`); so the
bridge hears every frame as legal, one with a byte changed as bad
(`HeardIsLegal`, `GarbledIsRefused`), and of a reply with one byte wrong, or
cut short, the driver believes nothing (`HonestVerdict`): a changed echo or status
may make it wait for another number of bytes, and what it then reads is still not
closed by its CRC. `DeviceUnderstands` reads the call back off the frame.
`InStep` is the invariant: a call that began on a quiet line is `Unanswered`, its
frame on the way (`Unheard`), at the bridge (`UnderWay`, `CarriedOut`), dropped as a
RESET (`Reset`) or lost with the board (`Dead`), and no byte is on the line; or
`Answered`, and the bytes read and unread are together the one reply it is owed, with
at most one byte changed. `Speaks`: the bridge is not mute while such a call
waits, because the only RESET it can meet is its own, and that finds no byte half
sent. Of a call that began otherwise nothing is said but that the bridge only ever
holds frames the driver built. For the refinement, what the master does to the
registers beat by beat, read off the bytes of the frame, is what `RegisterClient`
says of the words of the call, addresses and their twelve bits included.

*The words.* `EncodingIsDecoded` speaks of words bit by bit and of 47 mnemonics, so
it is proved by format. `Holds(w, lo, s, n)` says that the word has the n bits of s
from bit lo up; each `Encode` operator is shown to hold its pieces where its format
has them (`RFormat` and its neighbours), and each getter and immediate of the decode
table to put them together again, in the order of their weights. The table's rows
fall into classes with one opcode each (`Opcodes`), in a class the functions differ,
and so a word that holds a row's opcode and functions matches that row and no other.
What a bit of a number is, and that bits spell the number back, is a recursion over
positions, with the same first-order induction as the CRC of a frame. That each
builder makes lines of this kind, however many its parameters make, and no more
than the RAM holds, is `ProgramIsCode`.

*The image.* Not one of the three invariants is inductive. `Inv` has five parts.
`ProgramInv`: the words are the encoding of the job's program, once it is built.
`StageInv`: which harm, which file and which state of the loader go with a
stage. `HartInv`: the types of the reference hart, which every instruction keeps
(`HartSteps`). `FileInv`: an unharmed file is the one the program has; what is on
disk or still to be parsed is made of that file's lines, and of lines the parser
refuses (`GoodLines`, `BadLines`); each byte loaded is the one the program has at its address
(`Partial`); each byte of the program is loaded, or in a line to come before the
end record (`Kept`, `EndsLast`). `ImageInv`: the promise itself. The end record
therefore finds all bytes there, which is why the order of the data records does
not matter, and the words put together from them are those that were encoded
(`WordsFromBytes`). That a spoilt byte is refused is arithmetic on the sum
(`SealedSpoilt`): a byte changed anywhere but in the count leaves the checksum where it
is and makes the sum of the record another one modulo 256. A changed count moves
the place the checksum is looked for, so `FileInv` says nothing of such a file, and of
a line lost or a file cut only that what was loaded is right: the proof needs just
the exceptions that the property names.

*A loaded constant.* `ConstantsAreLoaded`, defined beside its proof, is the half of
`ResultsAreExpected` that is safety: the run loads a few values, the theorem all.
TLC's numbers end at 31 bits, so the hart adds in halves of 16 bits. A word is worth
`LowHalf + 2^16 * HighHalf`, and a word worth what two others are worth together,
modulo 2^32, is their sum (`SumIs`), since bits of the same number are the same
(`SameNumber`). With that, what LUI puts in the register and the sign-extended
immediate of ADDI come to the value (`PartsAddUp`), in each of the three cases: a
positive lower part, a negative one, and a negative one under an upper part of all
ones. `LoadInv` says where the hart is, counted in words (`Points`), and what x10 holds
there; that the instruction found there is the one meant is `EncodingIsDecoded` again.

What stays with TLC. Liveness (`ParserEventuallyIdle`, `LineKeepsMoving`,
`AxiEventuallyDone`, `EveryCallReturns`, `StopTakesEffect`, `SessionEnds`,
`ResultsAreExpected`, `LightsWalk`), which needs fairness and ENABLED. What the
shipped programs compute on the hart (the last two, of which `LightsWalk` also says
what a step may not do) is only model-checked: they have no input but their code, so
a run covers all they do, the length of a delay apart.

## 5. What the runs found

Five statements of the repository do not hold of the code; each has a run that
ends in a counterexample and an entry under "findings".

* `late_byte`: a byte in the cycle of the timeout flag is taken, and the flag
  falls with it. The control state machine, sent off by the flag, finds no parser
  error any more and answers with the status of the AXI master's last transaction
  (0x00 in the trace, for a frame that was not executed), while the parser goes
  on with the frame; that then waits in VALIDATE for ever (against
  `assert_parser_eventually_idle`).
* `cut_reset`: a RESET frame without its CRC byte hangs the bridge (against
  "Timeouts: State machines reset, bridge returns to IDLE").
* `shipped_depth`: at the shipped FIFO depth the longest read loses a byte
  (against `assert_no_write_when_full`).
* `reset_while_sending`: a RESET while a reply is being sent silences the bridge
  (against "FIFOs are self-draining").
* `stale_reply`: after a call that timed out or was interrupted, `read_reg32`
  returns the answer to that call as the value of its register (against its
  docstring): nothing flushes the line and the echoed address is thrown away.

Met on the way, not given a run:

* In the bridge: CTS deasserted in the cycle of the hand-over loses the byte and
  leaves the feed waiting for ever (`FeedHungIffCut` says when). A read timeout is reported as 0x06, never as
  0x04. The master reports a timeout also when the last handshake comes in the
  very cycle the timer has run out, so a host may repeat an access that took
  effect. A burst goes on after an error, so a
  write that raises may have changed registers behind the address refused. RESET is never answered although
  `rtl/README.md` (153) and the driver's `soft_reset` (344-348) expect a reply:
  the call always ends in a timeout. A soft reset leaves the AXI master and the
  FIFOs alone although the README (802) and the driver say they are cleared; of the
  registers it clears CONTROL, DEBUG and TEST_0 to TEST_4 and no other, against the
  comment "all registers EXCEPT CONFIG" (`Register_Block.sv` 513).
* In the debug hardware: the second read cycle meant to hold BUSY
  (`Register_Block.sv` 485-505) is never entered, so RDATA is valid a clock or
  more after BUSY falls. The write-one-to-pulse soft reset never pulses. A RUN
  written while RUN is still 1 after an EBREAK is no edge (`cpu.py` 69); the
  scripts always write HALT first.
* In the host: `c_blink.py` (40) and `bin_loader.py` (52) take the block RAM for
  8 KB, it has 16. `axiuart_driver.md` (390-397, 542) says protocol errors are
  `AXIUARTException`, `protocol.py` (247) raises `ValueError`.
  `computation_test.py` (134, 148-149) speaks of LUI 0xA5A5B and -1371, the code
  loads 0xA5A5A and 0x5A5, which is right. FENCE is not in the decode table. The
  fetch tool keeps a partial file after Ctrl-C, and an error page, until
  `--force`. A HEX line whose byte count is spoilt can be accepted with wrong data.

## 6. Plan

1. *Done.* The bridge's core: `RequestPath`, `ResponsePath`, `FifoSync`,
   `AxiAccess`, their refinements, and the proofs of section 4.
2. *Done.* `DriverExchange`: the Python driver over a faulty line against
   `FrameService`, and the exchange "a reply belongs to its request" as
   `RegisterClient`.
3. *Done.* `DebugTarget` with `HostSession`: run, halt, break, memory and register
   access as the scripts use them.
4. *Done.* `ProgramImage`: encoder, decode table, programs and loaders.
5. *Done.* Proofs: the safety of every composed module of 1 to 4, with the four
   refinements of section 4.
6. `RegisterBlock` in full: its AXI state machine, the soft reset beside an access,
   the pulse bits, composed with `AxiLiteMaster` in the place of the open slave.
7. `MemoryCrossbar` with a running CPU: the two queues, the two ports, the debug
   access beside a fetch and a store, against an abstract memory that answers
   each request once; then breakpoints and a debug bus that is not ready.
8. `RxPath`: receiver, RX FIFO and RTS towards a host with a bounded reaction
   time; the bytes of `RequestPath` then come from a queue, which lets the
   statements about a RESET and queued bytes be made.

The open environment runs come first in each step, the compositions after them.
