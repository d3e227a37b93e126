------------------------------- MODULE UartMm -------------------------------
(***************************************************************************)
(* uart_mm.v: the memory-mapped UART, one clock edge at a time, as it is   *)
(* in comet2/ and, when direct, in riscv/.  The shift registers are        *)
(* abstracted to the frames they send and receive: a byte occupies the     *)
(* transmitter for FrameTime edges (10 * CLKS_PER_BIT = 1040 in the        *)
(* source), and a received byte is presented for one edge.                 *)
(***************************************************************************)
EXTENDS Integers

CONSTANTS
  FifoDepth,    \* FIFO_DEPTH, 16 in the source
  FrameTime,    \* edges the transmitter is busy with a byte
  MaxSent,      \* bound: bytes the program sends
  MaxArrivals,  \* bound: bytes the terminal sends
  Variants      \* the values direct may have

ASSUME UartAssumption ==
  /\ FifoDepth \in Nat \ {0}
  /\ FrameTime \in Nat \ {0}
  /\ MaxSent \in Nat
  /\ MaxArrivals \in Nat
  /\ Variants \subseteq BOOLEAN

(* A byte is its number among those sent in its direction; 0 is initial.   *)
TxByte == 0..MaxSent
RxByte == 0..MaxArrivals
Index  == 0..FifoDepth - 1

Registers == {"none", "status", "data"}

(* The bits of a status word, or the byte of a data word.                  *)
Reply == [ready : BOOLEAN, busy : BOOLEAN, overflow : BOOLEAN, full : BOOLEAN,
          byte : RxByte]

VARIABLES
  direct,        \* riscv/uart_mm.v: launch at once, registered reads
  rx_fifo, rx_wr_ptr, rx_rd_ptr, rx_count, rx_overflow, rx_data_latched,
  tx_fifo, tx_wr_ptr, tx_rd_ptr, tx_count, tx_wr_en, tx_wr_data,
  buf_rd_req,    \* register read at the edge before (direct only)
  rd_data,
  data_valid,
  busy,          \* uart_tx: a frame is being sent,
  tx_byte,       \* the byte in it,
  tx_left        \* edges until its stop bit ends

uartRxVars == <<rx_fifo, rx_wr_ptr, rx_rd_ptr, rx_count, rx_overflow, rx_data_latched>>
uartTxVars == <<tx_fifo, tx_wr_ptr, tx_rd_ptr, tx_count, tx_wr_en, tx_wr_data,
                busy, tx_byte, tx_left>>
uartVars   == <<direct, uartRxVars, uartTxVars, buf_rd_req, rd_data, data_valid>>

NoReply == [ready |-> FALSE, busy |-> FALSE, overflow |-> FALSE, full |-> FALSE,
            byte |-> 0]

UartTypeOK ==
  /\ direct \in Variants
  /\ rx_fifo \in [Index -> RxByte]
  /\ rx_wr_ptr \in Index /\ rx_rd_ptr \in Index
  /\ rx_count \in 0..FifoDepth
  /\ rx_overflow \in BOOLEAN
  /\ rx_data_latched \in RxByte
  /\ tx_fifo \in [Index -> TxByte]
  /\ tx_wr_ptr \in Index /\ tx_rd_ptr \in Index
  /\ tx_count \in 0..FifoDepth
  /\ tx_wr_en \in BOOLEAN
  /\ tx_wr_data \in TxByte
  /\ buf_rd_req \in Registers
  /\ rd_data \in Reply
  /\ data_valid \in BOOLEAN
  /\ busy \in BOOLEAN
  /\ tx_byte \in TxByte
  /\ tx_left \in 0..FrameTime

UartInit ==
  /\ direct \in Variants
  /\ rx_fifo = [i \in Index |-> 0]
  /\ rx_wr_ptr = 0 /\ rx_rd_ptr = 0 /\ rx_count = 0
  /\ rx_overflow = FALSE
  /\ rx_data_latched = 0
  /\ tx_fifo = [i \in Index |-> 0]
  /\ tx_wr_ptr = 0 /\ tx_rd_ptr = 0 /\ tx_count = 0
  /\ tx_wr_en = FALSE
  /\ tx_wr_data = 0
  /\ buf_rd_req = "none"
  /\ rd_data = NoReply
  /\ data_valid = FALSE
  /\ busy = FALSE
  /\ tx_byte = 0
  /\ tx_left = 0

-----------------------------------------------------------------------------
(* uart_tx: wr_en is looked at only while no frame is being sent.          *)
EndsFrame == busy /\ tx_left = 1

TransmitterTick ==
  /\ busy' = IF busy THEN ~EndsFrame ELSE tx_wr_en
  /\ tx_byte' = IF ~busy /\ tx_wr_en THEN tx_wr_data ELSE tx_byte
  /\ tx_left' = IF busy THEN tx_left - 1
                ELSE IF tx_wr_en THEN FrameTime ELSE 0

-----------------------------------------------------------------------------
(* The receive FIFO.  The read of a byte comes after the arrival of one in *)
(* the always block: at an edge with both, only the read's count counts.   *)
(* So does the clear of the overflow bit: at an edge at which a byte finds *)
(* the FIFO full, the byte is dropped without a trace.                     *)
Overruns(arrives) == arrives /\ rx_count = FifoDepth

(* Mutant of Stores: the comparison with FIFO_DEPTH is off by one.         *)
StoresOneMore(arrives) == arrives /\ rx_count <= FifoDepth

Stores(arrives) == arrives /\ rx_count < FifoDepth
Takes(rdReg) == rdReg = "data" /\ rx_count # 0

(* Mutant of ReceiveFifo: a byte that finds the FIFO full is stored.       *)
ReceiveFifoUnbounded(arrives, byte, rdReg, wrReg) ==
  /\ rx_fifo' = IF arrives THEN [rx_fifo EXCEPT ![rx_wr_ptr] = byte] ELSE rx_fifo
  /\ rx_wr_ptr' = IF arrives THEN (rx_wr_ptr + 1) % FifoDepth ELSE rx_wr_ptr
  /\ rx_rd_ptr' = IF Takes(rdReg) THEN (rx_rd_ptr + 1) % FifoDepth ELSE rx_rd_ptr
  /\ rx_count' = IF Takes(rdReg) THEN rx_count - 1
                 ELSE IF Stores(arrives) THEN rx_count + 1 ELSE rx_count
  /\ rx_overflow' = (wrReg # "clear" /\ (rx_overflow \/ Overruns(arrives)))
  /\ rx_data_latched' = IF Takes(rdReg) THEN rx_fifo[rx_rd_ptr] ELSE rx_data_latched

ReceiveFifo(arrives, byte, rdReg, wrReg) ==
  /\ rx_fifo' = IF Stores(arrives) THEN [rx_fifo EXCEPT ![rx_wr_ptr] = byte] ELSE rx_fifo
  /\ rx_wr_ptr' = IF Stores(arrives) THEN (rx_wr_ptr + 1) % FifoDepth ELSE rx_wr_ptr
  /\ rx_rd_ptr' = IF Takes(rdReg) THEN (rx_rd_ptr + 1) % FifoDepth ELSE rx_rd_ptr
  /\ rx_count' = IF Takes(rdReg) THEN rx_count - 1
                 ELSE IF Stores(arrives) THEN rx_count + 1 ELSE rx_count
  /\ rx_overflow' = (wrReg # "clear" /\ (rx_overflow \/ Overruns(arrives)))
  /\ rx_data_latched' = IF Takes(rdReg) THEN rx_fifo[rx_rd_ptr] ELSE rx_data_latched

(* What a read of the data register returns: the head of the FIFO, or, if  *)
(* it is empty, the byte returned before.                                  *)
ReadByte == IF rx_count # 0 THEN rx_fifo[rx_rd_ptr] ELSE rx_data_latched

-----------------------------------------------------------------------------
(* The transmit FIFO hands its head to uart_tx while uart_tx is not busy:  *)
(* busy follows one edge after tx_wr_en.                                   *)
(* Mutant of Hands: the last byte of the FIFO is never handed over.        *)
HandsNotLast == ~busy /\ tx_count > 1

Hands == ~busy /\ tx_count # 0

Launches(wrReg) == direct /\ wrReg = "data" /\ ~busy /\ ~tx_wr_en /\ tx_count = 0

Enqueues(wrReg) == wrReg = "data" /\ ~Launches(wrReg) /\ tx_count < FifoDepth

TransmitFifo(wrReg, wrByte) ==
  /\ tx_wr_en' = (Hands \/ Launches(wrReg))
  /\ tx_wr_data' = IF Launches(wrReg) THEN wrByte
                   ELSE IF Hands THEN tx_fifo[tx_rd_ptr] ELSE tx_wr_data
  /\ tx_rd_ptr' = IF Hands THEN (tx_rd_ptr + 1) % FifoDepth ELSE tx_rd_ptr
  /\ tx_fifo' = IF Enqueues(wrReg) THEN [tx_fifo EXCEPT ![tx_wr_ptr] = wrByte]
                ELSE tx_fifo
  /\ tx_wr_ptr' = IF Enqueues(wrReg) THEN (tx_wr_ptr + 1) % FifoDepth ELSE tx_wr_ptr
  /\ tx_count' = IF Enqueues(wrReg) THEN tx_count + 1
                 ELSE IF Hands THEN tx_count - 1 ELSE tx_count

-----------------------------------------------------------------------------
(* Mutant of BusyBit: bit 1 is never set.                                  *)
BusyBitLow == FALSE

(* Bit 1 of the status: busy, in riscv/ also before busy has risen.        *)
BusyBit == busy \/ (direct /\ (tx_wr_en \/ tx_count # 0))

Status ==
  [ready |-> rx_count # 0, busy |-> BusyBit, overflow |-> rx_overflow,
   full |-> tx_count = FifoDepth, byte |-> 0]

ReadPort(rdReg) ==
  /\ data_valid' = (rdReg # "none")
  /\ rd_data' = CASE rdReg = "status" -> Status
                  [] rdReg = "data"   -> [NoReply EXCEPT !.byte = ReadByte]
                  [] OTHER            -> rd_data

(* The read served at this edge: riscv/ registers the request first.       *)
Served(rdReq) == IF direct THEN buf_rd_req ELSE rdReq

(* One clock edge.  rdReq, wrReq: the registers accessed ("clear" writes   *)
(* bit 0 of the control register); arrives, byte: what uart_rx presents.   *)
UartTick(rdReq, wrReq, wrByte, arrives, byte) ==
  /\ TransmitterTick
  /\ ReceiveFifo(arrives, byte, Served(rdReq), wrReq)
  /\ TransmitFifo(wrReq, wrByte)
  /\ ReadPort(Served(rdReq))
  /\ buf_rd_req' = IF direct THEN rdReq ELSE "none"
  /\ UNCHANGED direct

=============================================================================
