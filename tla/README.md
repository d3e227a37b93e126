# Formal models of ice40_ultraplus_examples

TLA+ models of the FPGA designs in this repository, the TLC configurations that
check them and proofs checked by TLAPS. Paths below are relative to the
repository's root. The largest part is `comet2/`: a COMET II computer on
an iCE40 UltraPlus whose firmware is loaded over SPI by a host program, which
then becomes its console. The RISC-V system, the hard SPI block and the flash
reader have models of their own.

- [1. The system](#1-the-system)
- [2. Modules](#2-modules)
- [3. Conventions and abstractions](#3-conventions-and-abstractions)
- [4. What the runs check](#4-what-the-runs-check)
- [5. What is proved](#5-what-is-proved)
- [6. Where the code departs from its own statements](#6-where-the-code-departs-from-its-own-statements)
- [7. What is not modelled](#7-what-is-not-modelled)
- [8. Plan](#8-plan)

## 1. The system

### 1.1 comet2: the board

| Component | State it keeps | Operations | Talks to |
|---|---|---|---|
| `spi_slave.v` | ring of 8 packets with two pointers and a count, the packet presented, the reply register, a one-word queue behind it | receive a packet, start a session (INIT), pop on `buffer_rd_ack`, take a word from the CPU, clock out a reply | host (wire), `spi_mm` |
| `spi_mm.v` | mailbox word and its "ready" bit, requests to the loader (`firm_wr`, `cpu_start`, `cpu_init`), the word towards the host | dispatch a packet by opcode, serve the CPU's reads and stores | `spi_slave`, `top` |
| `top.v` loader | state, load address, acknowledgements, `cpu_reset` | write a firmware word, start the CPU, stop it | `spi_mm`, memory, CPU |
| `top.v` bus | request registers of each device | decode an address, forward a read or a store | CPU, all devices |
| `uart_mm.v` | receive and transmit FIFO (16 bytes each) with pointers and counts, overflow bit, the frame being sent | receive, send, read status/data, write data, clear overflow | terminal, bus |
| `timer_mm.v` | counter, compare, enable, periodic, fired | count, fire, stores and reads | bus |
| `gpio_mm.v` | a register of LEDs | store, read | bus |
| `comet2_cpu.v` | registers, flags, PR, SP, state of the instruction being executed | fetch, decode, execute, SVC, stack guard | bus |
| `comet2_memory.v` | four SPRAM banks | read, store | bus, loader |

The firmware (`host_server/firmware/*.cas`) reaches the host or the terminal by
supervisor calls (`svc_handler_spi.cas`, `svc_handler_uart.cas`) that poll the
devices' status words. On the other side are the host programs:

| Component | State it keeps | Operations | Talks to |
|---|---|---|---|
| `spi_lib.c` | the four bytes of the transfer, the retry count | `spi_send`, `spi_send_batch_packets`, `spi_read` | FTDI chip, the loaders |
| `comet2_spi_loader.c`, `comet2_spi_run.c` | position in the image, deadline, line buffer, end-of-input flags, terminal mode | drain, INIT, a packet or a burst for each word, START, then a loop: read a word, answer a request for input, look at stdin, leave after a while without activity | `spi_lib`, the user's terminal or pipe |
| `asm_tools/` | none between runs | assemble, link, convert | files |

Everything on the FPGA shares one clock, and the statements of an `always` block
take effect together. What makes it hard is therefore not a scheduler but

- **two events at one edge** that assign the same register (a packet ends while
  another is popped, a byte arrives while one is read, a timer fires while its bit
  is cleared): the later assignment wins;
- **chains of registers**: a word of the CPU passes five of them before the host
  sees it, and the status bit the CPU polls lags by several edges;
- **a host that does not wait**: it may start a session over a running program,
  over a full mailbox, or over a previous host process that died;
- **finite queues** whose overflow is reported late, or not;
- **retries that are packets themselves**: `spi_read` sends its buffer again after
  the reply has replaced the poll in it, so the chip queues packets that nobody meant;
- **a deadline against a user**: the host must not leave while a typed line is unsent,
  and must leave when nothing is left to do.

Correctness, part by part: packets reach `spi_mm` once and in order; the loader
writes the firmware in order and starts the CPU on a complete image; a reload
always succeeds; the words of the supervisor calls reach the host once and in
order; a mailbox word is not replaced while it is read; bytes pass the UART in
order; a delay of the timer does not end early and always
ends; an instruction of the CPU does what its definition says although it is a chain
of requests that the bus answers edges later; on the host, an image of any
size is sent whole, what the user types reaches `IN` as the line editing means it,
once and in order, what `OUT` writes is printed once and in order, an `IN` is
answered and the host leaves in the end. Section 6 lists where the code does not keep to this.

### 1.2 The other directories

| Directory | What it is | Correctness |
|---|---|---|
| `riscv/` | the same SoC with picorv32 (vendored) in place of COMET II: its `uart_mm.v`, loader and host program are relatives of comet2's, its `spi_mm.v` has one mailbox and no queue; a demonstration program computes for the host | as for comet2; the image is packed from half-words; a command is handled once although the link has no flow control but the host's sleeps; the results printed are those of the questions |
| `spi/` | a one-packet SPI slave with a LED demonstration, and the library that `riscv/` uses | a packet acknowledged is a packet seen |
| `spi_hw/` | commands of eight bytes over the hard `SB_SPI` block, the reply coming two bytes behind | both ends agree on the place in the command, and a reply is that of its command |
| `flash/` | an SPI flash reader | 32 bits go out in order, the answer is sampled when it is stable, the right byte is shown |
| `spram/`, `bram/` | memory primitives with a self-test | what is written is read |
| `leds/`, `switch/`, `pwm/`, `7seg/`, `pll/`, `dsp/` | one-page examples | nothing interacts |

## 2. Modules

| Module | Models | Notes |
|---|---|---|
| `SpiSlave` | `comet2/spi_slave.v` | operators and state of the device |
| `SpiMm` | `comet2/spi_mm.v` | extends `SpiSlave` |
| `CometTop` | `comet2/top.v`: loader and the bus registers on the way of SPI and memory | extends `SpiMm` |
| `CometLink` | the composition: host, wire, the three devices, CPU and supervisor calls | one action `Tick`, one conjunct for each party |
| `PacketQueue` | abstract: a bounded FIFO queue with a head that is presented, emptied by INIT | implemented by `CometLink` |
| `FirmwareLoader` | abstract: a load request, words in order, a start on a complete image, everything asked is done | implemented by `CometLink` |
| `CometLink_proofs` | TLAPS proofs: types, the words to the host; the receive queue, sessions, loading, the mailbox | |
| `UartMm` | `comet2/uart_mm.v`, and `riscv/uart_mm.v` when `direct` | operators and state of the device |
| `CometUart` | the composition: terminal, UART, bus, a program that calls `UAIGETC` and `UAOPUTC` | |
| `CometUart_proofs` | TLAPS proofs | |
| `CometTimer` | `comet2/timer_mm.v`, `top.v`'s mapping of its registers and programs that use it | |
| `CometTimer_proofs` | TLAPS proofs | |
| `CometIsa` | words, memory map and instruction formats of `comet2_cpu.v` | |
| `CometAlu` | its flags, comparisons and shifts, on bits as the source computes them | extends `CometIsa` |
| `CometCpu` | `comet2_cpu.v`, `comet2_memory.v` and the read and store path of `top.v` between them | extends `CometAlu` |
| `Comet2` | abstract: the machine its programmer sees, an instruction is one step, arithmetic on integers | implemented by `CometCpu` |
| `CometCpu_proofs` | TLAPS proofs | |
| `HostLink` | `spi_lib.c` over the chip as it looks from outside: queue, mailbox, word to the host; and the calls' accesses | operators and state; a transfer is one step |
| `CometIo` | the composition: both host programs, the user, `IN` and `OUT` of `svc_handler_spi.cas` | extends `HostLink` |
| `CometIo_proofs` | TLAPS proofs | |
| `RiscvDemo` | `riscv/host_server/main.c`, the loader of `riscv/top.v`, the dispatch of `riscv/spi_mm.v`, `firmware/main.c` | extends `HostLink` with `Depth = 1` |
| `RiscvDemo_proofs` | TLAPS proofs | |
| `SpiHw` | `spi_hw/top.v`, its host program and library | the hard block is external |
| `SpiHw_proofs` | TLAPS proofs | |
| `FlashRead` | `flash/spi_master.v`, `flash/top.v` | the flash chip is external |
| `FlashRead_proofs` | TLAPS proofs | |
| `MCCometLink`, `MCCometUart`, `MCCometTimer`, `MCCometCpu`, `MCCometIo`, `MCRiscvDemo`, `MCFlashRead` | the sets the `.cfg` files use | |

Names follow the source: the variables `rx_fifo`, `rx_fifo_wr_ptr`,
`rd_data_available`, `wr_reg_full`, `firm_wr`, `counter_firmware_address`,
`tx_wr_en`, `compare_reg`, ... are registers of that name. `PROJECT.json` maps each
definition to its lines.

How state and actions correspond to the code:

- **A step is a clock edge** (`Tick`, `Next`). Each `always` block is a conjunct
  (`Receive`, `Transmit`, `MmTick`, `LoaderTick`, `BusTick`, `TransmitterTick`,
  `ReceiveFifo`, ...) that gives every register its next value from the registers
  before the edge. The order of statements in a block, last assignment wins, is the order
  of tests in its expression.
- **`SpiSlave.Receive`** is the receive `always` block: INIT in state `INIT` or in
  `RD_WAIT_DATA` (`SessionWrPtr` keeps the difference between the two), queueing,
  the drop when full (`Drops`), and the pop, which comes last. `Transmit` is the
  other direction, with `wr_buffer_free` and the moment at which a queued word may enter the register.
- **`SpiMm`**: `TakesInit`, `TakesNop`, `TakesFirm`, `TakesStart`, `TakesCmd` are the branches of the dispatch.
- **`CometTop`**: `SeeInit` ... `InitCpu` are the loader's states, `BusTick` the registers of a CPU store.
- **The host** (`HostTick`) sends the packets of `comet2_spi_loader.c` and
  `comet2_spi_run.c` in any order these programs can produce, including a new
  session at any moment.
- **The CPU** of `CometLink` (`CpuTick`) is reduced to its accesses: `SPOPUTC` and `SPIGETC`
  statement by statement, stores to memory, the reset; between two accesses at
  least `CpuGap` edges pass.
- **`CometCpu`** has the CPU itself. Its `state` takes the values of the source's state machine;
  `Request`, `Wait`, `TakeInstruction`, `Decode`, `TakeOperand`, `Execute`, `TakeData`, `MemWrite`,
  `TakeVector`, ... are its branches. `Execute` is grouped by what an instruction does next
  (`FaultInstruction`, `EndHere`, `ReadMemory`, `WriteMemory`). `BusTick` has the registers of
  `top.v` (a read is forwarded at the rising edge of `read_req`, a store for each edge of
  `write_req`) and the memory's two stages; one port for each SPRAM block, so that a read that meets a store
  into its block returns any word. `LoaderTick` holds the CPU in reset and brings the image.
- **`Comet2`** runs `Boot`, `Step`, `Reset`. The refinement mapping is the history variable `seen`: the
  machine's registers, memory and device accesses at the edges that enter `ST_FETCH_REQ`, with
  the stores that are still in `write_req` and `memory_wr` counted as done.
- **`CometIo.pc`** is where the host program is: `open`, `drain`, `init`, `load`, then the loop: `top` (the deadline), `read`
  (a try of `spi_read` each, `QuietTry` and `ReadWord`), `need` (a character is wanted, `NextChar` and `Refill`), `line` (in `fgetc`),
  `poll` (`stdin_poll_char`), `send`; and its ends `idle` (deadline), `asked` (signal or Ctrl-C), `error`. The two programs share all
  actions; `opt.prog` selects where they differ. `Begin`, `PutChar`, `Ask`, `Discard`, `GetChar` are the calls on the CPU, `Type` and
  `PollKey` the user.
- **`RiscvDemo`**: `at` is the next step of the host's script, `Serve` a packet at the chip (`InitCpu`, `WriteMemory`, `StartCpu` are
  the loader), `Take` and `Put` the loop of `firmware/main.c`, `Rerun` the end of a host process and the start of the next.
- **`SpiHw`**: `state_spi` has the source's states, an action for each group of them (`Configure`, `WaitReception`, `WaitTransmitReady`, `Transmit`,
  `ReadInit`, `ReadOpcode`); `NextByte` and `LastByte` are the host's bytes, at which the block shifts.
- **`FlashRead`**: a clock edge of the master, of `top.v` and of the flash chip together (`Master`, `Top`, `FlashTick`), every bit at its real width.

## 3. Conventions and abstractions

- Packets, words and bytes are numbers in the order they were sent: enough to tell
  loss, duplication and reordering. A packet also has its opcode class.
- A transfer takes `Xfer` edges. In the source it takes at least 124 (31 periods of a
  3 MHz SCK at 12 MHz); with a smaller value the same races happen in a smaller state space.
- In `CometLink` a packet may end at any edge, the edge that pops another one included. The code does not handle that edge (section 6): the pop's
  assignments win (`spi_slave.v:196-209`), so an INIT packet is forgotten and any other is stored uncounted. Two history variables keep apart what still holds then.
  `collided`: a packet met a pop, and no INIT has repaired the link since; an INIT repairs it, since it restarts the FIFO, if it finds the link at rest (`AtRest`: no pop, no
  request to the loader, no handler between its reads). `misplaced`: a packet met a pop, or went to a slot not its own, and no `INIT_CPU` on a repaired link followed.
- `Collisions = FALSE` (UART) leaves out the edges at which a byte arrives as another is read, which the code does not handle either
  (section 6); `uart_rx_race` sets it to `TRUE`.
- `CometLink`'s host sends on without waiting, so that mailbox and FIFO fill; `Calls` says which calls its program makes, one that never reads included.
- In `HostLink` a transfer is one step. A transfer is several USB transactions and lasts at least 124 edges; the dispatch of a packet takes
  a few. So the packets of one transfer are dispatched as far as the mailbox allows before the next (`Settled`), and a handler that only has to look at
  a status bit has done so (`Prompt`). Between two calls the program on the CPU computes for any time.
- `CometIo` counts time in `spi_read`s without a word: the deadlines are numbers of them. A session's options (program, source of input, `-t`, `-e`, image size,
  burst, drain) are one record that a run chooses. What an earlier program still prints is an arbitrary answer to the reads before INIT.
- `CometIo.Faults` names what can happen and the code does not handle (section 6). It is empty in the passing runs; each of the four makes a property fail.
- `RiscvDemo`: the sleeps of the host's script last until the chip is at rest (`Rested`); between the tries of a `spi_read` there is no sleep. With `KillAnywhere = FALSE` a host process
  ends only when the chip has taken its packets (section 6).
- `SpiHw`: the state machine is done with a byte before the next one ends (a byte is at least 32 edges, a register access two or three).
- `FlashRead`: `X` is a bit nobody knows; no decision of the design depends on a bit of `rd_data`, so one value for it stands for both. `SPI_SS` is never
  assigned by the source and is an arbitrary constant of the behaviour.
- Words of the CPU have `Width` bits. An instruction word of so few bits cannot carry an opcode and two
  fields, so a table `coding` from words to instructions stands for the opcode map; `CometCpu`
  treats it as a constant of the run. Instruction fetch, operand words, self-modifying code and
  data all use the same words.
- In `CometCpu` the loader brings the image at the last edge of the reset, instead of a word for each packet:
  that the memory is complete when the CPU starts is `StartsLoaded` of `CometLink`. A reload may
  begin at any edge. `None` is a request or an answer whose valid bit is 0.
- A device answers a read an edge after its request with any of `DeviceWords`; a store is an event of `io`.
- The bits on the wire, the synchronizers, MISO timing and the baud generator are abstracted.
- Mutants (`QueuesWhenFull`, `HandsNotLast`, ...) are variants of a definition with a plausible bug. Each
  shows that the property it belongs to can fail.

## 4. What the runs check

| Run | Module, configuration | Properties | Distinct states |
|---|---|---|---|
| `link_reload` | two sessions, all calls and none, a host that does not wait, packets that meet a pop | `TypeOK`, `InitNotLost`, `StartsLoaded`, `NoPortClash`, `WordsAccounted`, `NoTornRead`, `ImplementsQueue`, `ImplementsLoader` | 750 000 |
| `uart_echo` | both UARTs, reads, writes and clears | `TypeOK`, `ReceivesInOrder`, `SendsInOrder`, `EverythingSent` | 432 000 |
| `timer_uses` | three uses of the timer | `TypeOK`, `NotEarly`, `NoTickLost`, `Wakes` | 15 000 |
| `cpu_machine` | 12 codings of 4-bit words, 96 images, six instructions and a reload at any edge | `TypeOK`, `AnswersAwaited`, `NoCollision`, `StackInRam`, `ImplementsMachine`, `InstructionEnds` | 262 000 |
| `io_console` | both host programs as consoles of a program that calls `IN` and `OUT` at any time, and as loaders of 52 images | `TypeOK`, `InputInOrder`, `OutputInOrder`, `LeavesNothing`, `StartsWithImage`, `LoadEnds`, `RequestAnswered`, `HostLeaves` | 1 273 000 |
| `riscv_demo` | riscv's script, run three times and stopped whenever the chip has taken its packets | `TypeOK`, `StartsLoaded`, `HandledOnce`, `ResultsMatch`, `Finishes` | 3 600 |
| `spi_hw` | spi_hw's script, run three times and stopped between any two transfers | `TypeOK`, `RepliesMatch` | 65 000 |
| `flash_read` | one read, three contents of the flash chip | `TypeOK`, `LedRight` | 3 100 |
| `link_stale`, `uart_rx_race`, `timer_halves`, `io_early_input` | violations | section 6 | |

What the properties say:

- `InitNotLost`: from the end of an INIT packet to the execution of `INIT_CPU`, the
  request is visible in one of three places. A reload cannot be lost in a full mailbox. Claimed while `~collided`: until a packet meets a pop, and again
  from the next INIT that finds the link at rest.
- `StartsLoaded`: in state `START_CPU` the memory holds the firmware words of the session from address 0.
- `NoPortClash`: the loader never writes at an edge at which the CPU stores. `top.v`
  gives the port to the CPU and would drop the word while the load address advances.
  Both are claimed while `~misplaced`: neither met a packet a pop, nor was one of a later session queued behind another, where it goes to the slot before
  its own (section 6 shows what its own slot then does); and again from the `INIT_CPU` of the next load that finds the link repaired.
- `WordsAccounted`: words written by supervisor calls = words delivered or
  flushed + words in the five registers between CPU and wire.
- `NoTornRead`: the two half reads of `SPIGETC` and its acknowledgement concern one packet. The run checks it with collisions, the theorem claims it without.
- `ImplementsQueue`: refinement of `PacketQueue`: what `spi_mm` is shown are the packets sent since the last INIT, in order and each once, except
  those that found the FIFO full, in every step after which `~misplaced`. `PacketQueue` owes a packet: one that arrives while there is room is in the queue after that edge
  (`Enqueue`; `Rest`, `Dequeue` and a stutter allow no arrival with room), and only INIT empties the queue.
- `ImplementsLoader`: refinement of `FirmwareLoader` (`LoadsInOrder`, in every step after which `~misplaced`), and an INIT or a START is eventually executed, unless a packet meets a pop.
- `ReceivesInOrder`: what the program has read and what the FIFO holds is what found room.
- `SendsInOrder`: what the program wrote is, in order, on the line or at a stage of the transmitter.
- `EverythingSent`: infinitely often nothing is left to send (the program writes a bounded number of bytes).
- `NotEarly`: after the last store of a use, `fired` is not set before the delay is over, whatever
  earlier uses left behind.
- `NoTickLost`: no fire meets a bit that is still set, if the period is not shorter than the
  polling loop of `2 * TimerGap + 6` edges. The bound is exact: one edge less and TLC finds a lost fire.
- `Wakes`: a program that polls sees the bit.
- `AnswersAwaited`: at most one read is under way, and an answer arrives only in a state that waits for
  one. The CPU takes whatever is valid; no tag says to which request it belongs, and a reset does not clear the pipeline.
- `NoCollision`: no read of an SPRAM block meets a store into it.
- `StackInRam`: pushes and pops stay below F000, whatever the stack pointer was loaded with.
- `ImplementsMachine`: refinement of `Comet2`: every instruction with its result, flags, faults,
  stack and device accesses, in order and each once. The flags and shifts, which the source computes on
  bits, agree with their arithmetic definition for every pair of words met.
- `InstructionEnds`: an instruction ends, unless it reads an address nothing answers (F400 and above)
  or the host resets the CPU.
- `InputInOrder`: what `IN` received, what is on its way and what the line buffer still holds are, in order and each once, what the keys mean: `Meant` is what the keys mean
  by the README's description of the line editing (and by the code at the end of stdin, where comments differ: section 6), kept without a buffer beside the run (the history variable `meant`, to which `Edit` applies each key). If input may come before it is asked for, nothing is duplicated or reordered.
- `OutputInOrder`: the characters of `OUT` are printed once and in order, while `spi_read` retries and `spi_send` throws away the word it receives; the loader drops
  only what is behind a full buffer.
- `LeavesNothing`: a host that leaves at its deadline leaves no typed line unsent, and no `IN` without an answer unless stdin has ended.
- `StartsWithImage`: the CPU starts on the whole image, each word once, by words or by bursts.
- `LoadEnds`: the drain ends, however much an old program prints. `RequestAnswered`: an `IN` that waits gets a character, or the host waits for the user or is gone.
  `HostLeaves`: the host leaves when the program has halted, except for a terminal that is still open.
- `StartsLoaded` (riscv): the CPU never runs on part of an image or on a mixture of two; after START it runs the image of this session, as far as its words are complete (an odd half-word at the end is not written, section 6).
- `HandledOnce`: each command of the script is handled once and in order, although the retries of `spi_read` arrive as packets too.
- `ResultsMatch`: what is printed are the answers to the questions of this session; the four results of the matrix are not lost to a host that reads at once.
- `Finishes`: a script that is not stopped ends with its last command in effect.
- `RepliesMatch`: each reply of the hard block's protocol is that of its command; the vector is read back as it was written, wherever the session before was stopped.
- `LedRight`: the LED shows the low bits of the byte at 0x100002, provided the select pin is low.

### Bounds

- `Depth = 3` (8 in the source): the ring wraps, fills and drops within six packets, and the write pointer that a second INIT
  leaves one behind its count is another slot than the one behind it.
- `link_reload` sends six packets freely (INIT, words, START, polls and a second INIT in any order, or two INITs over a full mailbox and a full FIFO).
  Behind the sixth, if it is an INIT, a word and START may follow (`Bounded`), so that a load on a link that was just repaired is carried out to its end: that the CPU is
  started again after a collision with `~misplaced` was seen to occur.
- `link_stale` sends one list of packets (`Reload`), at any distance from one another: a load of three words and START, a load of none, three characters.
- `MaxWords = 2`: one word in the register and one in the queue behind it.
- `AddrSpace = 8` is more than `MaxPackets`: the load address does not wrap, as 64K words of
  memory are not exceeded by a loader that checks the size of its image.
- `FifoDepth = 2`, five bytes in, four out: both FIFOs wrap; with
  `FrameTime = 14` a program that does not look at the busy bit queues bytes behind a frame.
- `Half = 16` (timer) in place of 2^16; delays on both sides of the polling loop and on zero.
- CPU: `Width = 4`, memory `0..11` in three blocks, devices `12..13`, nothing at `14..15`; `SpCell = 3`, vectors 1 and 2 of
  `SvcSpan = 8`, three registers. Each address class, both ends of the stack, both undefined
  fields and an operand that wraps occur. The images are `a * m + b`, so that each word
  appears as instruction, operand and data, and the codings place every form of every
  instruction; half of them hold many `LAD`, which bring values into the registers. All forms, all
  faults, shifts by 0, below, at and above the width, and both outcomes of every jump were seen to occur.
- `MaxInstructions = 6` between two resets: CALL, RET and a store followed by its own fetch need
  two or three. `ResetEdges = 5` is the length of the pipeline; the source holds the CPU much
  longer (START is a packet after INIT).
- `io_console`: `Depth = 2` is full after the two retries of one `spi_read` (`Retries = 4`, 50 in the source) and a character. `LineMax = 4` holds a line of two
  characters and its line feed. `Capture = 1` is full after the first of two `OUT`s. Four keys make a line, an edited line, a Ctrl-D in either column and an end of stdin.
  Images of 0 to 12 bytes with `Batch = 2` and `MaxBytes = 10` are empty, odd, a multiple of the batch or not, just fit or do not. The drain reads twice, or until two
  quiet reads and at most three. Deadlines of one and two reads, and none after the end of stdin.
- `riscv_demo`: `Depth = 1` is the source's. `Halves = 5` is two words of memory and an odd half-word, which must not reach the next session; the run was also made with 0, 1, 3 and 4. Three sessions: load, load over a running program, and again over a stopped load.
- `spi_hw`: the real widths, retries and script; three sessions.
- `flash_read`: the real widths; a wait of 3 edges for 2^24, and an answer that takes five edges to settle, the most that the sampling allows.

### Fairness

In the hardware modules the clock is the only process. `FairSpec` says that an edge comes when it would change a register of
the chip (`WF_hwVars(Next)`, in `link_reload` of the steps its bound allows, `WF_uartVars(Next)`) or, for the timer, simply that the clock does not
stop (`WF_vars(Next)`): an oscillator does not stop. The CPU's run assumes
the clock of every step but the beginning of a reload (`WF_vars(Next /\ hold' <= hold)`): without
the exception a host that reloads for ever would count as fair, and the clock would not.
Nothing is assumed of the host, the terminal or the program,
which may stop sending or compute for ever; the liveness properties concern what the
hardware owes once it was asked.

`CometIo` has three processes that do not stop: the host program (`WF_vars(Host)`, a Linux process that is scheduled), the chip (`WF_vars(Chip)`) and the handler of a call
in progress (`WF_vars(CpuCall)`, a loop that polls). Nothing is assumed of the user, of signals, or of the program's next call. `RiscvDemo` is the same: `Host`, `Serve`
and `Cpu`; the gradient may go on for ever and main may be run again or not.

## 5. What is proved

In `CometLink_proofs`, for every value of the constants that satisfies the `ASSUME`s:

- `TypeCorrect`: `Spec => []TypeOK`. Besides types this contains the bounds of the ring: the
  pointers stay in it and the count never exceeds `Depth`. `TypeOK` bounds the words
  the program writes by `MaxWords`, so the induction needs `RoomToSend` (a call is begun only
  while there is room).
- `WordsAccountedAlways`: `Spec => []WordsAccounted`.

The second is not inductive. A word could be overwritten only if the CPU stored again while the word before is in one of
the registers where a new one replaces it, and what prevents it is spread over four always blocks.
`WordsInv` adds, with one named conjunct each:

- `AtMostOne`: at most one word is between the CPU and the queue;
- `BusyShown`, `RequestBlocks`, `BusBlocks`, `EnableBlocks`: while a word is in the queue, in the CPU's request, in `top.v`, in
  `spi_mm`, the CPU either waits or sees status bit 1 set;
- `SendsWhenFree`: in the state that stores, the way is free.

This needs `CpuGap` of at least one edge between two accesses (an assumption of the module; the
CPU needs many more to fetch an instruction). The proof has one step for each conjunct, and
lemmas for each device state what one edge does to the words it holds.
TLC checked `WordsInv` as an invariant at `CpuGap = 1` before the proof was written.

In the same module, for every depth, bound, timing and set of calls:

- `InitNotLostAlways`: `Spec => []InitNotLost`. While `~collided`, `SessionInv` is its induction: `RxInv` for the ring and `AcksShown` for the handshake of
  loader and `spi_mm`. `RxInv` says that a packet is presented exactly while the count is not 0 (`ShownIfAny`), that the
  pointers differ by the count until the second INIT (`AlignedAtFirst`), and that the INIT packet in slot 0 is not read twice, the only
  slot where one can be (`InitInSlotZero`). `BaseInv` is what is true even after a packet met a pop, and from it the lemma `RepairSession` shows that an INIT that
  finds the link at rest establishes `SessionInv` again; `SoundSession` is the two together.
- `QueueImplemented`: `Spec => ImplementsQueue`. The abstract queue is `rd_data` and the slots behind the read pointer; `RingAppend` and `RingTail`
  say what a write and a pop do to it, for any depth, and rest on four lemmas about indices modulo `Depth`. Each case of an edge has its own
  lemma, in which the arriving packet is shown to be queued, or to have found the FIFO full.

With `Xfer >= 6` and `CpuGap >= 2` besides (a transfer takes at least 124 edges, and between two accesses the CPU fetches an
instruction):

- `NoTornReadAlways`: `Spec => [](~collided => NoTornRead)`; `NoPortClashAlways`: `Spec => []NoPortClash`, a property of the states with `~misplaced`.
- `StartsLoadedAlways`: `Spec => [](Len(sent) < AddrSpace => StartsLoaded)`, again of the states with `~misplaced`. The load address has 16 bits, and the host
  programs refuse an image of more than F000 words (`MAX_FIRMWARE_BYTES`).
- `LoadsInOrderAlways`: `Spec /\ [](Len(sent) < AddrSpace) => LoadsInOrder`, the steps of the refinement of `FirmwareLoader` after which `~misplaced`. The image is the
  memory as it will be when the write on the port is done; `ImageFrame` and `ImageAppend` say what an edge does to it.

None of these is inductive, because what makes them true is time: a packet is dispatched before the next can end. `LinkInv` says so: the link is
`Talking` (nothing in the FIFO concerns the loader, unless a packet was misplaced) or in one of the edges after a packet that does. `Since(k)` says
that no packet ended in the last `k - 1` edges; `Init1` to `Init6`, `Firm1` to `Firm4`, `Start1` to `Start3` and `Ready` say what every register
of the three devices holds k edges after INIT, a firmware word or START. Six edges are what an INIT needs, and that is the hypothesis on `Xfer`. There is a
lemma for each phase (`Init1Step`, ...), which shows that it leads to the next one, and a second one where the refinement needs
it (`LoaderLoads`, `LoaderStarts`, `LoaderResets`, `LoaderWaits`). `AckOnItsWay` is where `CpuGap >= 2` is used: the acknowledgement of a mailbox word must be at
`spi_mm` before the handler polls again. Like `SoundSession`, `SoundLink` claims `LinkInv` until a packet meets a pop and
again from the INIT that repairs the link (`RepairLink`), with no hypothesis that keeps the two events apart. TLC checked `SoundLink` with `Depth` 1 and 3 (at the bounds of `link_reload`).

In `CometIo_proofs`, for every set of sessions, image, batch and buffer size, number of retries, keys and calls:

- `TypeCorrect`: `Spec => []TypeOK`. It contains the bounds of the chip's queue, the line buffer and the loader's capture buffer.
- `LoadsImage`: `Spec => []StartsWithImage`. `LoadInv` says that while the host loads the CPU is off and the image is what has been sent of it, and that
  a refused image never gets there; the last burst is the case that needs arithmetic.
- `OutputInOrderAlways`: `"last_try" \notin Faults => (Spec => []OutputInOrder)`. The step that could lose a word is a transfer whose reply nobody looks at: the last
  try of a `spi_read`, and `spi_send`. `AskInv` says that while the host has a request to answer the program waits and has nothing to send; `LastTryInv` that no call
  begins before the last try; `OutInv` and `AllOut` count what is shown, dropped and waiting.
- `InputInOrderAlways`: `{"open_end", "long_line"} \cap Faults = {}` gives `Spec => [](opt.ahead = 0 => InputInOrder)`. `InputInv` relates four places: `MeantInv` (what was received, what is on its
  way and what the line buffer still holds make up `meant`), `TextInv` (the same for a file or pipe, by position), `EditInv` (the unfinished line in the buffer is
  `meant.part`, key by key, which is where a full buffer or the end of a file inside a line would break it). At most one character is on its way (`AskInv`), so it cannot overtake another; the proof needs no bound on tries or deadlines,
  and holds with a word lost at a last try.
- `LeavesNothingAlways`: `{"last_try", "slow_loader"} \cap Faults = {}` gives `Spec => [](opt.ahead = 0 => LeavesNothing)`. `LeavesInv` says that a deadline is only set while nothing is asked for, or after the answer: a host that may leave has an empty buffer, or no request to answer.
  The hypotheses on `Faults` of these three theorems are exactly the rows of section 6 that make them false. For early input (`ahead > 0`) they stay with TLC: there the order rests on the retries of one `spi_read`, which fill the chip's queue before the next character can enter it, so the
  queue must be shorter than the number of tries (8 and 50 in the source; with `Depth = 6` and `Retries = 4` TLC finds a character that overtakes another).

In `CometTimer_proofs`, for every width of a bus word, delay, preset, number of uses and distance between accesses:

- `TypeCorrect`: `Spec => []TypeOK`. The counter cannot leave its two bus words, and a use that stores has a store left.
- `NotEarlyAlways`: `"both" \notin Uses => (Spec => []NotEarly)`. `NotEarly` speaks of `fired` and the log; what makes it true is where
  the registers stand when the last store is served. `StoreInv` says which stores of the use are out and what each has left: after
  the clear the timer is off and stays off, so a periodic timer of an earlier use, or its `fired` bit, is gone before the
  counter is preset. `RunInv` says that from then on the counter keeps `asked` below the compare value, plus the edges elapsed
  (`counter + asked = compare + elapsed`) until the delay is over. Programs that write both halves are excluded because
  for them it is false (`timer_halves`, section 6).
- `NoTickLostAlways`: `Spec => []NoTickLost`, with every kind of use, those of two words included (for them `StoreInv`
  says only that the timer is off from the clear on). A running periodic timer restarts at each fire, so the counter is the age of the bit:
  `Seen` bounds it at each point of the polling loop, from 0 at a poll that just missed the bit to `2 * TimerGap + 5` at the store
  that clears it, one less than the shortest period that is safe. A timer that runs once is off while its bit is set (`RunsOnce`).
  TLC checked `TickInv` with all four kinds of use before the proof was written.

In `CometUart_proofs`, for both variants and every FIFO depth, frame time, number of bytes and distance between accesses:

- `TypeCorrect`: `Spec => []TypeOK`. `BusInv` says where the one access of a waiting program is: in the request, in riscv's registered
  request an edge later, or answered.
- `ReceivesInOrderAlways`: `~Collisions => (Spec => []ReceivesInOrder)`. `RxInv`: the write pointer is the
  read pointer plus the count, and a program that reads the data register has seen a byte there. The hypothesis excludes a byte that arrives at the very
  edge of a read. The code does not exclude it, and with it the property is false (`uart_rx_race`, section 6).
- `SendsInOrderAlways`: `"FILL" \notin UartCalls => (Spec => []SendsInOrder)`, collisions or not. The programs of the repository
  (`UAOPUTC`, riscv's `uart_echo.c`) poll bit 1 before each byte; `TxInv` says what that gives: the FIFO is empty when a byte is written, so it never holds two, and `uart_tx` is idle when
  it is told to start. A program that polls bit 3 instead (`FILL`) loses bytes (section 6).

In `SpiHw_proofs`, for every number of retries and sessions:

- `TypeCorrect`: `Spec => []TypeOK`.
- `RepliesMatchAlways`: `Spec => []RepliesMatch`. The reply is in step with the command because three counters are: `StepInv` says that `counter_read`, `counter_send` and the
  host's byte `k` agree (`Counters`), what stands in `data_to_send`, the transmit register, the shift register and the host's buffer (`Pipeline`), that
  the opcode kept is that of the command (`Opcode`), and that the vector holds this session's values from wherever its
  counter stood when it began (`Vector`). Until the byte 11h has been seen `BeforeInit` says that the host is in its first
  transfers: no earlier byte of INIT is 11h. That the status comes at the third byte of every later transfer means that no command but INIT is ever sent twice; a retry would shift the vector.
  The lemmas `CommandTable`, `Opcodes`, `AnswerIs` state what the host's fixed commands consist of.

In `RiscvDemo_proofs`, for every number of half-words in the image (odd ones and none included), number of tries and runs of `main`:

- `TypeCorrect`: `Spec => []TypeOK`, also if `main` is stopped anywhere. Two bounds need an induction of their own: the results printed
  are as many as the reads of the script before `at` (`Shown`), and the half-words stored are at most those sent, also counting the one that waits (`FirmsSent`, `FirmWaits`).
- `StartsLoadedAlways`, `HandledOnceAlways`: `~KillAnywhere => (Spec => []StartsLoaded)` and the same for `HandledOnce`. If `main` is stopped while
  the chip still has its packets, the first is false (section 6). `SessionInv` is the induction: `LoadInv` while the session loads, when
  n commands of it have been carried out and at most one is in the slave (`Loading(n)`: the CPU is off from the first on, the load address
  and the buffered half-word are those of n, the words below are in memory), and `DemoInv` before step k of the demonstration. There either the
  command of the step before is in the slave or in the mailbox (`Sent(k)`), or the program has carried it out (`Served(k)`), and then the results that wait are `Owed(k)`,
  the matrix elements it holds `Elements(k)`, and the only packets under way are polls and returned replies. `InOrder` counts the commands handled; it is kept by `Rank`, the number of
  commands before a step, so that no fold is needed. The link has no flow control: a command is sent only at rest (`Rested`), and that is where
  `Served` shows that nothing waits.
- `ResultsMatchAlways`: `~KillAnywhere /\ ComputesAnswers => (Spec => []ResultsMatch)`. The same invariant says that the words printed are `Computed`, what `fib` and `matrix_mult` give for the
  arguments sent. That they give 6765 and 20, 4, 35, 2 is `ComputesAnswers`: to unfold a recursive function the prover would need
  an induction theorem, so it is a hypothesis, and TLC evaluates it (an `ASSUME` of `MCRiscvDemo`).

TLC checked `SessionInv` with 0, 1, 4 and 5 half-words and three sessions.

In `FlashRead_proofs`, for every content of the four bytes, every wait of `top.v` and every delay of an answer up to five edges:

- `TypeCorrect`: `Spec => []TypeOK`, whatever the level of the select pin nothing drives. `CountsInv` bounds the bits of each state.
- `LedRightAlways`: `Spec => []LedRight`. `BitsOver` counts the bits that are over, of 32 sent and 32 read, and everything else is a function of it and of the edge within
  the bit: the clock pin (`ClockInv`), the data pin (`DataPinInv`), how far the command and address registers have turned (`TurnedBy`, `RegistersInv`; after 8 turns the command
  register is as before, `TurnedRound`), what the flash has taken and given and when its answer is stable (`TakenInv`, `GivenInv`), and which bits stand in `rd_data` (`ReadInv`). The sample is at
  the sixth edge after the falling one, and that is the hypothesis of five on the delay. `HandshakeInv` says that the read is asked for once and its result taken once. TLC checked the
  invariant with the run `flash_read` before the proof was written.

In `CometCpu_proofs`, for every width, memory map, image and coding:

- `AnswersAwaitedAlways`: `Spec => []AnswersAwaited`. The induction needs to know where in
  the chain a request is. `BusInv` is `RunInv` (while the CPU runs: in a waiting state `read_req` is high and,
  once `top.v` has seen it, at most one register of the chain is occupied; in
  any other state `read_req` is low and the chain is empty) and `DrainInv` (while
  it is held in reset: after n edges the first n registers of the chain are empty). `DrainInv`
  is where `ResetEdges >= 5` is used: a CPU started earlier could take the answer
  to a read of the program before.
- `NoCollisionAlways`: `Spec => []NoCollision`, from `PortInv`: the CPU's store and its read
  never leave it, nor `top.v`, at the same edge.
- `TypeCorrect`, `StackInRamAlways`: `ResultsAreWords => (Spec => []TypeOK)` and the same for `StackInRam`. `TypeInv` adds to `TypeOK`
  that the register an arithmetic instruction will write exists, which the decoder makes so some edges earlier. The stack stays
  in memory because each of PUSH, CALL, SVC, POP and RET checks `sp` before its access: `sp` itself may be any
  word. `ResultsAreWords` (`CometAlu`) says that AND, OR, XOR and the shifts of words are words; it is about sums
  of powers of two and would need induction, so it is a hypothesis here, and TLC evaluates it (an `ASSUME` of `MCCometCpu`).
- `MachineImplemented`: `ResultsAreWords /\ ShiftsAgree => (Spec => ImplementsMachine)`: the CPU edge by edge implements `Comet2`, with any
  program, any answer of a device and a reset at any edge. `seen`, what the machine was when the instruction began, is the refinement mapping;
  what has to be known in between is `MachineInv`. For each value of `state`, `Progress` says how much of the instruction has been done, for the
  word that was fetched and the operand `given`. `Mem` and `Done` are the memory and the accesses of devices with the store that
  is still under way, because the next instruction is fetched meanwhile: they, not `memory` and `io`, are what the next instruction
  sees, and `RamHasIt`, from `PortInv`, says that a read that has come to the memory finds no store still on its way. `Carries` and `Reading` say in which register of the chain the answer to the CPU's read is and that it
  is the answer to this read. Every edge then either keeps or advances `Progress` and leaves the mapped state alone, or ends the instruction with a step of `Comet2`
  (`ProgressStep`; `EndsInExecute`, `EndsTaking`, `CallsVector`, `EndsSvc0`), and an edge of the reset is `Machine!Reset` (`ResetIsReset`).
  Results and flags are the abstract machine's (`SameResults`, `SameOverflow`, from `AddOverflow` and `SubOverflow`; for `ADDL` and `SUBL` the carry); the bits of AND, OR, XOR are combined by the same sums on both sides.
  That a shift by n at once is n shifts by one, as `Comet2` defines it, is `ShiftsAgree`: `Comet2` uses a recursive function there, which the prover could unfold only by induction, so it is a
  hypothesis, and TLC evaluates it (an `ASSUME` of `MCCometCpu`; the two hypotheses also hold with words of 7 and 8 bits).
  TLC checked `MachineInv` with the run `cpu_machine` before the proof was written.
- `AddOverflow`, `SubOverflow`: the sign-bit formulas of `signed_add_overflow` and
  `signed_sub_overflow` say exactly that the sum or difference of the signed values does
  not fit, for every width.
- `CompareOrders`: after a comparison `SF` is the order of the operands exactly when `OF` is 0.

Every invariant of section 4 and the safety part of every refinement is a theorem, those of `CometIo` and `RiscvDemo` and the loader's under the conditions named above.
Only model-checked: everything under fairness (liveness is outside what the prover handles), and input
that comes before it is asked for (`opt.ahead > 0`), for which `InputInOrder` and `LeavesNothing` are not proved.

## 6. Where the code departs from its own statements

Four runs end in a counterexample; `PROJECT.json` quotes the statement each contradicts.

| Run | What happens |
|---|---|
| `link_stale` | a second INIT leaves the write pointer one behind its count; a packet queued behind another goes to the slot before its own, is never read, and its own slot is presented as it is: the START of the previous session, in slot 4, while the host types characters |
| `uart_rx_race` | a byte that arrives at the edge of a read is stored but not counted |
| `timer_halves` | `USLPRT` writes the low half, then the high half of the compare value; the second store zeroes the first |
| `io_early_input` | `comet2_spi_run -i` forwards the text after each quiet read, unasked; the chip's queue is full of the packets that `spi_read`'s retries send, and a character is dropped |

The models show more; each of these is a change of constants away:

| What happens | How to see it |
|---|---|
| the START of the previous session is executed again | `link_stale.cfg` with the invariant `state = "START_CPU" => start_owed` |
| with a word more in the first load, slot 4 holds a firmware word of the old image: it is written while the new program runs, and a store of the program takes the port from it | `link_stale.cfg` with a fourth `"FIRM"` in `Reload`, `MaxPackets = 11`, `MaxWords = 2`, `Calls <- AllCalls`, and as invariant `NoPortClash` without its hypothesis `~misplaced` |
| bit 6 of a reply is 1 although the packet finds the FIFO full and is dropped: the bit is sent before the FIFO is looked at | `link_stale.cfg` with `SPECIFICATION Spec`, `Depth = 2`, `MaxPackets = 5` and the invariant `LossReported` |
| an INIT packet ends at the edge that pops another packet; the pop's assignments win (`spi_slave.v:196-209`) and INIT is gone | `link_reload.cfg` with `InitNotLost` without its hypothesis `~collided` |
| two queued bytes are handed to `uart_tx` back to back; the second is lost. A writer that polls bit 3 (FIFO full), as the register map suggests, loses bytes; `UAOPUTC`, which polls bit 1, does not | `uart_echo.cfg` with the calls `{"FILL"}`, `FrameTime = 12`, `FifoDepth = 4`, `UartGap = 0`: `SendsInOrder` |
| the loader sets its deadline before it waits for the user (`comet2_spi_loader.c:593`): if a line takes longer than the timeout, the first character is sent, the program asks for the next, and the loader is gone | `io_console.cfg` with `Faults = {"slow_loader"}`: `LeavesNothing` |
| a word that comes with the fiftieth try of a `spi_read` is taken for a timeout (`spi_lib.c:224`) | `Faults = {"last_try"}`: `OutputInOrder` |
| end of file behind an unfinished line drops the line (`comet2_spi_run.c:552`) | `Faults = {"open_end"}`: `InputInOrder` |
| at the end of stdin the host gives one 0x04 and answers no later `IN` (`comet2_spi_loader.c:491-511`, `comet2_spi_run.c:541-561`). The comments above these functions say that `'\n'` is supplied, again and again (`comet2_spi_loader.c:71-72`, `:483-484`, `comet2_spi_run.c:532-534`), the last one after a Ctrl-D too; `comet2/README.md:137` says 0x04 for a Ctrl-D in the first column and nothing of the end of file. `Edit` follows the code, so `InputInOrder` and `RequestAnswered` speak of what the code gives | `io_console.cfg` with the invariant `EndGivesLineFeed` |
| a line that fills the buffer loses its line feed (`comet2_spi_run.c:595`) | `Faults = {"long_line"}`: `InputInOrder` |
| riscv's `spi_mm.v` serves INIT only while the mailbox is empty: a reload over a program that has not taken its mail loses packets of the load | `riscv_demo.cfg` with `KillAnywhere = TRUE`: `StartsLoaded` |

Also seen while modelling:

- A byte that finds the UART's FIFO full at the edge at which the program clears the overflow bit is dropped unreported: the clear comes last (`uart_mm.v:267`, and the same statement
  in riscv's). No program of the repository reads or clears the bit.
- A word the CPU stored a few edges before INIT is still in `top.v` or `spi_mm` when the queue is flushed, and goes out during the reload.
- A push with `SP = F000` is refused although the word below is memory, so a program that pops the word at EFFF cannot push again.
- `CPA` and `CPL` set `SF` from the difference, so after an overflow `JMI` and `JPL` do not follow the order of
  the operands (`CompareOrders`).
- A read of F400 or above is answered by nothing, and the CPU waits until the next reload.
- The high halves of the timer's counter and compare value read as zero (`timer_mm.v:60`).
- `spi_send` looks at bit 6 alone and throws away the word of the reply (`spi_lib.c:144`). Nothing is lost only because a program that has asked for input prints nothing
  until it gets it; input that comes early (`ahead > 0`) does lose output.
- `stdin_poll_char` looks with `select` at the descriptor, `refill_interactive_line` reads through stdio: what stdio has buffered, `select` does not see.
- Backspace on an empty line in `UAINRW` counts to -1 and moves the buffer pointer before the program's buffer (`svc_handler_uart.cas:90`).
- `riscv/host_server/main.c` sends a file of any size, half-word by half-word (lines 84-86), and `riscv/top.v` writes memory at every second one (lines 223-230): when their number is odd
  the last stays in `firmware_data_buf` and the CPU is started without it. `StartsLoaded` speaks of the complete words. (An odd number of bytes adds a byte nobody read from the file.)
- `flash/spi_master.v` never assigns its output `SPI_SS`, and sets `addr_buffer_free` to 0 where the comment says there is room again.

## 7. What is not modelled

- Analogue and bit level: SCK edges, synchronizers, metastability, the baud rate.
- UART reads of F202 and F203 and the timer's reads other than F300: no handler uses them.
- The decoding of addresses within a device (`top.v`'s register numbers, apart from those used by the link, UART and timer modules).
- `debug` outputs of the CPU, and partial stores of the memory (`memory_wr_mask` is constant).
- The echo of typed characters, messages, and the options' parsing in the host programs; the errors of libftdi, which end the program; the retries of `spi_send`, whose bit 6 is always 1.
- The line editing of `UAINRW` and the layout of the callers' buffers in `SPINRW` and `SPOTRW`.
- riscv's boot code, `uart_tx_test.c`, `uart_echo.c`; its link edge by edge (comet2's is, and its slave is a smaller version of it).
- The LED demonstration of `spi/top.v`, the wake-up states of `flash/spi_master.v`, which nothing enters.
- The Verilator test bench drives the CPU; it is not part of the system.
- `picorv32` is vendored. `leds`, `switch`, `pwm`, `7seg`, `pll`, `dsp`, `spram`, `bram`
  have no interaction that a model would add to; `gpio_mm.v` is one register.
- The assembler and linker: pure functions on text; relocation and symbol resolution are
  candidates for operators checked against a definition.

## 8. Plan

The modules of the first plan are written. What is left, in order of importance:

1. **CometIo**: the proofs of `InputInOrder` and `LeavesNothing` for input that comes before it is asked for.
2. **CometBus**: the registers within each device, as the CPU addresses them; relocation in the linker.
3. **SpiSlave**: the bits of a packet at the edges of SCK, below the packet-level model of `CometLink`.

Abstract specifications stated: the queue, the loader, the instruction-level machine, and the meaning of the keys (`Meant`), which is a function.
