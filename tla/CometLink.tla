------------------------------ MODULE CometLink ------------------------------
(***************************************************************************)
(* The FPGA side of the COMET II board around the SPI link: spi_slave,     *)
(* spi_mm and top.v, which share one clock, with the two parties that      *)
(* drive them: the host programs (comet2_spi_loader.c, comet2_spi_run.c)   *)
(* and the program on the CPU, which reaches the link through the SPI      *)
(* supervisor calls of svc_handler_spi.cas.                                *)
(*                                                                         *)
(* A step is one clock edge.  A transfer takes Xfer edges (at least 124 in *)
(* the source: 31 periods of a 3 MHz SCK, clock 12 MHz) and may start at   *)
(* any edge after the one before; a smaller Xfer only adds behaviours.     *)
(***************************************************************************)
EXTENDS CometTop, Sequences

CONSTANTS
  Xfer,          \* edges from the first bit of a packet to the last
  CpuGap,        \* least edges between two bus accesses of the CPU
  MaxSessions,   \* bound: INIT packets the host sends
  Calls          \* what the program does: subset of {"IN", "OUT", "STORE"}

ASSUME TimingAssumption == Xfer \in Nat \ {0} /\ CpuGap \in Nat \ {0}
ASSUME SessionAssumption == MaxSessions \in Nat
ASSUME EnvironmentAssumption == Calls \subseteq {"IN", "OUT", "STORE"}

CpuStates == {"compute", "putc_poll", "putc_send", "getc_poll", "getc_send",
              "getc_wait", "getc_opcode", "getc_drop", "getc_char", "getc_ack"}

VARIABLES
  \* the wire and the host
  host,          \* "drain" before INIT, "load" between INIT and START, "run"
  wire,          \* the packet being transferred, or NoPacket
  left,          \* edges until its last bit is sampled; 0: no transfer
  packets,       \* packets sent so far
  sessions,      \* INIT packets sent so far
  \* the CPU
  cpu_pc,
  cpu_wait,
  write_req,     \* "none", "mem", "ack" (store to F003) or "out" (store to F005)
  write_data,
  opcode_seen,   \* the packet whose low word (F001) the handler examined
  \* history
  sent,          \* firmware words sent in this session
  init_owed,     \* an INIT packet ended and INIT_CPU was not executed since
  start_owed,    \* a START packet ended and START_CPU was not executed since
  lost,          \* a packet was acknowledged to the host (bit 6) and dropped
  collided,      \* a packet met a pop, and no INIT has repaired the link since
  misplaced,     \* a packet went to a slot not its own, or met a pop, since
                 \* the last INIT_CPU that found the link repaired
  last_init,     \* number of the last INIT packet that ended
  written,       \* words the CPU wrote
  delivered      \* words clocked out to the host, or flushed

hostVars    == <<host, wire, left, packets, sessions>>
cpuVars     == <<cpu_pc, cpu_wait, write_req, write_data, opcode_seen>>
historyVars == <<sent, init_owed, start_owed, lost, collided, misplaced,
                 last_init, written, delivered>>
hwVars == <<slaveVars, mmVars, topVars>>
vars == <<hwVars, hostVars, cpuVars, historyVars>>

TypeOK ==
  /\ SlaveTypeOK
  /\ MmTypeOK
  /\ TopTypeOK
  /\ host \in {"drain", "load", "run"}
  /\ left \in 0..Xfer
  /\ IF left = 0 THEN wire = NoPacket ELSE wire \in Packet /\ wire.id > 0
  /\ packets \in 0..MaxPackets
  /\ sessions \in 0..MaxSessions
  /\ cpu_pc \in CpuStates
  /\ cpu_wait \in 0..CpuGap
  /\ write_req \in {"none", "mem", "ack", "out"}
  /\ write_data \in Word
  /\ opcode_seen \in Packet
  /\ sent \in Seq(1..MaxPackets)
  /\ init_owed \in BOOLEAN
  /\ start_owed \in BOOLEAN
  /\ lost \in BOOLEAN
  /\ collided \in BOOLEAN
  /\ misplaced \in BOOLEAN
  /\ last_init \in 0..MaxPackets
  /\ written \in Word
  /\ delivered \in Nat

Init ==
  /\ SlaveInit
  /\ MmInit
  /\ TopInit
  /\ host = "drain"
  /\ wire = NoPacket
  /\ left = 0
  /\ packets = 0
  /\ sessions = 0
  /\ cpu_pc = "compute"
  /\ cpu_wait = 0
  /\ write_req = "none"
  /\ write_data = 0
  /\ opcode_seen = ZeroPacket
  /\ sent = << >>
  /\ init_owed = FALSE
  /\ start_owed = FALSE
  /\ lost = FALSE
  /\ collided = FALSE
  /\ misplaced = FALSE
  /\ last_init = 0
  /\ written = 0
  /\ delivered = 0

-----------------------------------------------------------------------------
(* The packet whose last bit is sampled at this edge.                      *)
Ended == IF left = 1 THEN wire ELSE NoPacket

(* What the host programs send, in order: polls (NOP, and CMD for a poll   *)
(* that repeats the bytes of the reply before) to drain the link, INIT,    *)
(* the firmware words, START, then input characters (CMD) and polls.  A    *)
(* new host process may start over with its drain at any time.             *)
HostSends(op) ==
  /\ op = "INIT" => sessions < MaxSessions
  /\ op \in {"FIRM", "START"} => host = "load"

HostAfter(op) ==
  CASE op \in {"INIT", "FIRM"} -> "load"
    [] op = "START"            -> "run"
    [] OTHER                   -> IF host = "load" THEN "drain" ELSE host

StartTransfer ==
  /\ left = 0
  /\ packets < MaxPackets
  /\ \E op \in Opcodes :
       /\ HostSends(op)
       /\ host' = HostAfter(op)
       /\ wire' = [op |-> op, id |-> packets + 1]
       /\ sessions' = IF op = "INIT" THEN sessions + 1 ELSE sessions
  /\ left' = Xfer
  /\ packets' = packets + 1

ContinueTransfer ==
  /\ left > 0
  /\ left' = left - 1
  /\ wire' = IF left = 1 THEN NoPacket ELSE wire
  /\ UNCHANGED <<host, packets, sessions>>

NoTransfer ==
  /\ left = 0
  /\ UNCHANGED hostVars

HostTick == StartTransfer \/ ContinueTransfer \/ NoTransfer

-----------------------------------------------------------------------------
(* The CPU.  cpu_reset clears the write request at the next edge; between  *)
(* two accesses of the handlers the CPU fetches and decodes instructions.  *)
CpuReset ==
  /\ cpu_reset
  /\ cpu_pc' = "compute"
  /\ cpu_wait' = 0
  /\ write_req' = "none"
  /\ UNCHANGED <<write_data, opcode_seen, written>>

CpuBusy ==
  /\ ~cpu_reset
  /\ cpu_wait > 0
  /\ cpu_wait' = cpu_wait - 1
  /\ write_req' = "none"
  /\ UNCHANGED <<cpu_pc, write_data, opcode_seen, written>>

(* The program computes for as long as it likes, stores to its memory,     *)
(* or calls SPOPUTC or SPIGETC.                                            *)
CpuCompute ==
  /\ cpu_pc = "compute"
  /\ \/ /\ cpu_pc' = "compute"
        /\ write_req' \in {"none"} \cup (IF "STORE" \in Calls THEN {"mem"} ELSE {})
     \/ /\ "OUT" \in Calls /\ written < MaxWords
        /\ cpu_pc' = "putc_poll"
        /\ write_req' = "none"
     \/ /\ "IN" \in Calls /\ written < MaxWords
        /\ cpu_pc' = "getc_poll"
        /\ write_req' = "none"
  /\ UNCHANGED <<write_data, opcode_seen, written>>

(* SPUTCBZ and the first loop of SPIGETC: wait until bit 1 reads 0.        *)
CpuPollFree ==
  /\ cpu_pc \in {"putc_poll", "getc_poll"}
  /\ cpu_pc' = IF status1 THEN cpu_pc
               ELSE IF cpu_pc = "putc_poll" THEN "putc_send" ELSE "getc_send"
  /\ write_req' = "none"
  /\ UNCHANGED <<write_data, opcode_seen, written>>

(* The stores to F004 and F005: a character, or an IN_REQUEST.             *)
CpuSend ==
  /\ cpu_pc \in {"putc_send", "getc_send"}
  /\ cpu_pc' = IF cpu_pc = "putc_send" THEN "compute" ELSE "getc_wait"
  /\ write_req' = "out"
  /\ write_data' = written + 1
  /\ written' = written + 1
  /\ UNCHANGED opcode_seen

(* SPINRTRY: wait for bit 0, read F001; a packet that is not an input      *)
(* character is acknowledged and dropped.                                  *)
CpuPollMail ==
  /\ cpu_pc = "getc_wait"
  /\ cpu_pc' = IF status0 THEN "getc_opcode" ELSE "getc_wait"
  /\ write_req' = "none"
  /\ UNCHANGED <<write_data, opcode_seen, written>>

CpuReadOpcode ==
  /\ cpu_pc = "getc_opcode"
  /\ cpu_pc' \in {"getc_char", "getc_drop"}
  /\ opcode_seen' = read_data_register
  /\ write_req' = "none"
  /\ UNCHANGED <<write_data, written>>

CpuReadChar ==
  /\ cpu_pc = "getc_char"
  /\ cpu_pc' = "getc_ack"
  /\ write_req' = "none"
  /\ UNCHANGED <<write_data, opcode_seen, written>>

CpuAck ==
  /\ cpu_pc \in {"getc_drop", "getc_ack"}
  /\ cpu_pc' = IF cpu_pc = "getc_drop" THEN "getc_wait" ELSE "compute"
  /\ write_req' = "ack"
  /\ UNCHANGED <<write_data, opcode_seen, written>>

CpuStep ==
  /\ ~cpu_reset
  /\ cpu_wait = 0
  /\ \/ CpuCompute \/ CpuPollFree \/ CpuSend \/ CpuPollMail
     \/ CpuReadOpcode \/ CpuReadChar \/ CpuAck
  /\ cpu_wait' = IF write_req' = "mem" \/ cpu_pc' # cpu_pc THEN CpuGap ELSE 0

CpuTick == CpuReset \/ CpuBusy \/ CpuStep

-----------------------------------------------------------------------------
(* What the properties remember of the past.                               *)
Arrives(op) == Ended # NoPacket /\ Ended.op = op

One(b) == IF b THEN 1 ELSE 0

(* From the second INIT on the write pointer is one behind the count.  A   *)
(* packet that meets an empty FIFO is presented all the same; one that is  *)
(* queued behind another goes to the slot before the one it is read from,  *)
(* and what that slot held, a firmware word perhaps, is presented instead. *)
Misplaces ==
  /\ sessions > 1
  /\ Queues(Ended)
  /\ rx_fifo_count > 0
  /\ rx_fifo_wr_ptr # (rx_fifo_rd_ptr + rx_fifo_count) % Depth

(* A packet ends at the edge that pops another one.  The pop's assignments *)
(* come last (Receive): an INIT packet is forgotten, any other is stored   *)
(* without being counted, so that the FIFO is one packet short from then   *)
(* on.  Nothing in the code keeps the two events apart.                    *)
Collides == Ended # NoPacket /\ buffer_rd_ack

(* An INIT packet repairs this, because it restarts the FIFO, if it finds  *)
(* nothing pending: no pop, no request to the loader taken or presented,   *)
(* no handler between its reads.                                           *)
AtRest ==
  /\ ~buffer_rd_ack
  /\ state = "REQ_READ_SPI_STATUS" /\ ~cpu_init /\ ~cpu_start /\ ~firm_wr
  /\ rd_data_available => rd_data.op \in {"CMD", "NOP"}
  /\ cpu_pc \notin {"getc_opcode", "getc_drop", "getc_char", "getc_ack"}

HistoryTick ==
  /\ sent' = IF Arrives("INIT") THEN << >>
             ELSE IF Arrives("FIRM") THEN Append(sent, Ended.id)
             ELSE sent
  /\ init_owed' = (Arrives("INIT") \/ (init_owed /\ state # "INIT_CPU"))
  /\ start_owed' = /\ ~Arrives("INIT")
                   /\ Arrives("START") \/ (start_owed /\ state # "START_CPU")
  /\ lost' = (lost \/ (Drops(Ended) /\ ReplyRecvOk))
  /\ collided' = (Collides \/ (collided /\ ~(Arrives("INIT") /\ AtRest)))
  /\ misplaced' = \/ Misplaces \/ Collides
                  \/ misplaced /\ (collided \/ state # "INIT_CPU")
  /\ last_init' = IF Arrives("INIT") THEN Ended.id ELSE last_init
  /\ delivered' = delivered + One(EndsReply(Ended) /\ wr_reg_full)
                            + One(OpensSession(Ended) /\ wr_queue_full)

(* One clock edge: every always block at once.                             *)
Tick ==
  /\ HostTick
  /\ SlaveTick(Ended, left = 0, rd_ack, wr_en, spi_module_wr_data)
  /\ MmTick(spi_wr_req, spi_wr_data, spi_firm_ack, spi_cpu_start_ack, spi_cpu_init_ack)
  /\ TopTick(write_req, 0, write_data)
  /\ CpuTick
  /\ HistoryTick

Next == Tick

Spec == Init /\ [][Next]_vars

(* The clock runs: an edge that would change a register of the chip comes. *)
(* The host and the CPU's program are free to do nothing.                  *)
FairSpec == Spec /\ WF_hwVars(Next)

-----------------------------------------------------------------------------
(* An INIT packet that reached the chip is served whatever state the link  *)
(* is in (spi_mm.v, TakesInit): until INIT_CPU has been executed it is     *)
(* presented to spi_mm and taken, or handed to the loader.  So it is until *)
(* a packet meets a pop, and again from an INIT that finds the link at     *)
(* rest; in between the INIT packet itself may be the one that is lost.    *)
InitNotLost ==
  init_owed /\ ~collided => TakesInit \/ cpu_init \/ state = "INIT_CPU"

(* When top.v starts the CPU, every firmware word of the session is in the *)
(* memory, in order, from address 0, unless a packet was misplaced.        *)
StartsLoaded ==
  state = "START_CPU" /\ ~misplaced =>
    /\ counter_firmware_address = Len(sent)
    /\ \A i \in 1..Len(sent) : memory[i - 1] = sent[i]

(* The loader and the CPU share the memory's write port, and top.v lets    *)
(* the CPU win: a firmware word is never written at an edge at which the   *)
(* CPU still stores, unless a packet was misplaced.                        *)
NoPortClash == ~misplaced => ~(state = "WRITE_MEMORY" /\ write_req = "mem")

(* Every word the supervisor calls send is on its way, at one stage of the *)
(* pipeline from the CPU to the register the host clocks out, until it is  *)
(* delivered or flushed by INIT: none is overwritten and none sent twice.  *)
InFlight ==
  One(write_req = "out") + One(spi_wr_req = "out") + One(wr_en)
    + One(wr_queue_full) + One(wr_reg_full)

WordsAccounted == written = delivered + InFlight

(* SPIGETC reads a packet in two halves and acknowledges it later: all     *)
(* three concern the same packet.                                          *)
NoTornRead ==
  cpu_pc \in {"getc_char", "getc_drop", "getc_ack"} => read_data_register = opcode_seen

-----------------------------------------------------------------------------
(* Refinement.  The receive side implements a bounded queue ...            *)
Queue == INSTANCE PacketQueue WITH
  arriving  <- Ended,
  open      <- (state_rd = "RD_WAIT_DATA"),
  queue     <- [i \in 1..rx_fifo_count |->
                 IF i = 1 THEN rd_data ELSE rx_fifo[(rx_fifo_rd_ptr + i - 1) % Depth]],
  presented <- IF rd_data_available THEN rd_data ELSE NoPacket

(* The packets spi_mm sees are those the host sent since the last INIT, in *)
(* order and each once, except those that found the FIFO full: a packet    *)
(* that finds room is queued at the edge it ends at.  So it is until a     *)
(* packet is misplaced, and again from the next INIT that finds the link   *)
(* repaired.                                                               *)
ImplementsQueue == Queue!Init /\ [][~misplaced' => [Queue!Next]_Queue!pqVars]_vars

(* ... and the chip implements the loader.  A word is in the image from    *)
(* the edge that writes it to the memory's port.                           *)
LoadedWord(a) ==
  IF memory_wr # NoWrite /\ memory_wr.addr = a THEN memory_wr.data ELSE memory[a]

Loader == INSTANCE FirmwareLoader WITH
  image     <- [i \in 1..counter_firmware_address |-> LoadedWord(i - 1)],
  running   <- ~cpu_reset,
  resetting <- init_owed,
  starting  <- start_owed

(* Firmware reaches the memory in order, the CPU starts only on a complete *)
(* image and stops before a new one, until a packet is misplaced ...       *)
LoadsInOrder ==
  Loader!Init /\ [][~misplaced' => [Loader!Next]_Loader!loaderState]_vars

(* ... and whatever was asked is done, unless a packet met a pop.          *)
ImplementsLoader ==
  /\ LoadsInOrder
  /\ (init_owed /\ ~collided) ~> ~init_owed
  /\ (start_owed /\ ~collided) ~> ~start_owed

-----------------------------------------------------------------------------
(* Statements of the repository's comments that the code does not keep.    *)

(* spi_mm.v:104: the host sees bit 6 = 0 for a packet that is not taken,   *)
(* so that none is lost silently.                                          *)
LossReported == ~lost

(* spi_slave.v:159-162: INIT flushes the stale commands of the run before, *)
(* so no packet is presented that the host sent before the last INIT (id 0 *)
(* is a slot that was never written).                                      *)
FreshOnly == rd_data_available /\ rd_data.id > 0 => rd_data.id >= last_init

=============================================================================
