------------------------------ MODULE SpiSlave ------------------------------
(***************************************************************************)
(* comet2/spi_slave.v: the SPI slave of the COMET II system, one clock     *)
(* edge at a time.  A 32-bit transfer is a packet; the shift register is   *)
(* abstracted to the edge that samples the packet's last bit.  Received    *)
(* packets wait in the ring rx_fifo for spi_mm; one word at most waits to  *)
(* be clocked out to the host.                                             *)
(*                                                                         *)
(* Every register is given its next value by one expression, with the last *)
(* non-blocking assignment of the always block tested first.               *)
(***************************************************************************)
EXTENDS Integers

CONSTANTS
  Depth,        \* slots of rx_fifo (8 in the source)
  MaxPackets,   \* bound: packets the host sends
  MaxWords,     \* bound: words the CPU sends
  NoPacket      \* no packet ends at this clock edge

ASSUME DepthAssumption == Depth \in Nat \ {0}
ASSUME BoundAssumption == MaxPackets \in Nat /\ MaxWords \in Nat

(* What spi_slave and spi_mm tell apart in the low byte of a packet.  The *)
(* 24 data bits are represented by id, the number of the packet.          *)
Opcodes == {"NOP", "INIT", "FIRM", "START", "CMD"}
Packet  == [op : Opcodes, id : 0..MaxPackets]

ASSUME NoPacketAssumption == NoPacket \notin Packet

(* The contents of a register that is not written yet: iCE40 flip-flops    *)
(* are zero after configuration, and opcode 0 is NOP.                      *)
ZeroPacket == [op |-> "NOP", id |-> 0]

(* A word on its way to the host is its number, 0 standing for cleared.    *)
Word == 0..MaxWords

Slot == 0..Depth - 1

VARIABLES
  state_rd,             \* "INIT" until the first INIT packet
  rx_fifo,
  rx_fifo_wr_ptr,
  rx_fifo_rd_ptr,
  rx_fifo_count,
  rd_data,              \* the packet presented to spi_mm ...
  rd_data_available,    \* ... if this is TRUE
  buffer_rd_ack,
  wr_reg_full,          \* a word is in the register the host clocks out
  wr_data_reg,
  wr_queue_full,        \* a word waits for the register
  wr_data_queue

rxVars    == <<state_rd, rx_fifo, rx_fifo_wr_ptr, rx_fifo_rd_ptr,
               rx_fifo_count, rd_data, rd_data_available, buffer_rd_ack>>
txVars    == <<wr_reg_full, wr_data_reg, wr_queue_full, wr_data_queue>>
slaveVars == <<rxVars, txVars>>

SlaveTypeOK ==
  /\ state_rd \in {"INIT", "RD_WAIT_DATA"}
  /\ rx_fifo \in [Slot -> Packet]
  /\ rx_fifo_wr_ptr \in Slot
  /\ rx_fifo_rd_ptr \in Slot
  /\ rx_fifo_count \in 0..Depth
  /\ rd_data \in Packet
  /\ rd_data_available \in BOOLEAN
  /\ buffer_rd_ack \in BOOLEAN
  /\ wr_reg_full \in BOOLEAN
  /\ wr_data_reg \in Word
  /\ wr_queue_full \in BOOLEAN
  /\ wr_data_queue \in Word

SlaveInit ==
  /\ state_rd = "INIT"
  /\ rx_fifo = [i \in Slot |-> ZeroPacket]
  /\ rx_fifo_wr_ptr = 0
  /\ rx_fifo_rd_ptr = 0
  /\ rx_fifo_count = 0
  /\ rd_data = ZeroPacket
  /\ rd_data_available = FALSE
  /\ buffer_rd_ack = FALSE
  /\ wr_reg_full = FALSE
  /\ wr_data_reg = 0
  /\ wr_queue_full = FALSE
  /\ wr_data_queue = 0

-----------------------------------------------------------------------------
(* The packet p that ends at this edge restarts the session ...            *)
OpensSession(p) ==
  /\ p # NoPacket
  /\ p.op = "INIT"
  /\ state_rd = "RD_WAIT_DATA" \/ rx_fifo_count < Depth

(* Mutant of Queues: no check for a full FIFO.                             *)
QueuesWhenFull(p) ==
  p # NoPacket /\ p.op # "INIT" /\ state_rd = "RD_WAIT_DATA"

(* Mutant of Queues: the last slot is never used.                          *)
QueuesShort(p) ==
  /\ p # NoPacket
  /\ p.op # "INIT"
  /\ state_rd = "RD_WAIT_DATA"
  /\ rx_fifo_count < Depth - 1

(* ... or goes to the FIFO.  Otherwise it is dropped.                      *)
Queues(p) ==
  /\ p # NoPacket
  /\ p.op # "INIT"
  /\ state_rd = "RD_WAIT_DATA"
  /\ rx_fifo_count < Depth

(* The write pointer after INIT: 1 from the power-up state, 0 from then on *)
(* although slot 0 holds the INIT packet in both cases.                    *)
SessionWrPtr == IF state_rd = "INIT" THEN 1 % Depth ELSE 0

Pops == buffer_rd_ack /\ rx_fifo_count > 0

(* The receive side.  The block that serves buffer_rd_ack comes last in    *)
(* the always block: when it pops, its values of the read pointer, the     *)
(* count, rd_data and rd_data_available replace those of the arrival.      *)
Receive(p, ack) ==
  /\ state_rd' = IF OpensSession(p) THEN "RD_WAIT_DATA" ELSE state_rd
  /\ rx_fifo' = IF OpensSession(p) THEN [rx_fifo EXCEPT ![0] = p]
                ELSE IF Queues(p) THEN [rx_fifo EXCEPT ![rx_fifo_wr_ptr] = p]
                ELSE rx_fifo
  /\ rx_fifo_wr_ptr' = IF OpensSession(p) THEN SessionWrPtr
                       ELSE IF Queues(p) THEN (rx_fifo_wr_ptr + 1) % Depth
                       ELSE rx_fifo_wr_ptr
  /\ rx_fifo_rd_ptr' = IF Pops THEN (rx_fifo_rd_ptr + 1) % Depth
                       ELSE IF OpensSession(p) THEN 0
                       ELSE rx_fifo_rd_ptr
  /\ rx_fifo_count' = IF Pops THEN rx_fifo_count - 1
                      ELSE IF OpensSession(p) THEN 1
                      ELSE IF Queues(p) THEN rx_fifo_count + 1
                      ELSE rx_fifo_count
  /\ rd_data' = IF Pops /\ rx_fifo_count > 1
                  THEN rx_fifo[(rx_fifo_rd_ptr + 1) % Depth]
                ELSE IF OpensSession(p) \/ (Queues(p) /\ ~rd_data_available)
                  THEN p
                ELSE rd_data
  /\ rd_data_available' = IF buffer_rd_ack THEN rx_fifo_count > 1
                          ELSE \/ rd_data_available
                               \/ OpensSession(p)
                               \/ Queues(p)
  /\ buffer_rd_ack' = (ack /\ ~buffer_rd_ack)

-----------------------------------------------------------------------------
(* Bit 6 of the reply, "the FPGA received the packet": driven at           *)
(* counter_read 5 of every transfer, before the packet is complete.        *)
ReplyRecvOk == TRUE

(* The packet p ends, the host has read bit 6, and rx_fifo did not take p.  *)
Drops(p) ==
  /\ p # NoPacket
  /\ state_rd = "RD_WAIT_DATA"
  /\ ~OpensSession(p)
  /\ ~Queues(p)

-----------------------------------------------------------------------------
(* Mutant of wr_buffer_free: the register being clocked out is forgotten.  *)
wr_queue_free(en) == ~wr_queue_full /\ ~en

wr_buffer_free(en) == ~wr_queue_full /\ ~wr_reg_full /\ ~en

AcceptsWord(en) == en /\ ~wr_reg_full /\ ~wr_queue_full

(* The queued word moves to the register between two transfers only        *)
(* (counter_read == 0).                                                    *)
LoadsRegister(idle) == wr_queue_full /\ idle

(* The end of a transfer frees the register: its word has been sent.       *)
EndsReply(p) == p # NoPacket /\ (state_rd = "RD_WAIT_DATA" \/ OpensSession(p))

Transmit(p, idle, en, word) ==
  /\ wr_reg_full' = (LoadsRegister(idle) \/ (wr_reg_full /\ ~EndsReply(p)))
  /\ wr_data_reg' = IF LoadsRegister(idle) THEN wr_data_queue
                    ELSE IF OpensSession(p) \/ (EndsReply(p) /\ wr_reg_full) THEN 0
                    ELSE wr_data_reg
  /\ wr_queue_full' = /\ ~LoadsRegister(idle)
                      /\ \/ AcceptsWord(en)
                         \/ wr_queue_full /\ ~OpensSession(p)
  /\ wr_data_queue' = IF AcceptsWord(en) THEN word
                      ELSE IF OpensSession(p) THEN 0
                      ELSE wr_data_queue

(* One clock edge.  p: the packet whose last bit is sampled now, or        *)
(* NoPacket; idle: no transfer is under way; ack, en, word: the registers  *)
(* rd_ack, wr_en and spi_module_wr_data of spi_mm.                         *)
SlaveTick(p, idle, ack, en, word) ==
  /\ Receive(p, ack)
  /\ Transmit(p, idle, en, word)

=============================================================================
