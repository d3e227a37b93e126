-------------------------- MODULE CometUart_proofs --------------------------
(***************************************************************************)
(* Theorems about the UART: the pointers and counts of its two FIFOs, the  *)
(* bus of the program that uses it, and the bytes that pass it.            *)
(***************************************************************************)
EXTENDS CometUart, TLAPS, SequenceTheorems

-----------------------------------------------------------------------------
(* One bus access at a time: the register a waiting program has asked for  *)
(* is in the request, in riscv/ in the registered request an edge later,   *)
(* or its word is there; and nobody else reads.                            *)
Waiting == {"get_status", "put_status", "fill_status", "get_data"}

Asked == IF pc = "get_data" THEN "data" ELSE "status"

Quiet == rd_req = "none" /\ buf_rd_req = "none"

BusInv ==
  /\ pc \notin Waiting => Quiet /\ ~data_valid
  /\ pc \in Waiting =>
       \/ rd_req = Asked /\ buf_rd_req = "none" /\ ~data_valid
       \/ direct /\ rd_req = "none" /\ buf_rd_req = Asked /\ ~data_valid
       \/ Quiet /\ data_valid
  /\ wr_req # "none" => pc = "compute"
  /\ wait > 0 => pc \notin Waiting

(* A program that is about to write has a byte left to send.               *)
Writing == {"put_poll", "put_status", "put_write", "fill_poll", "fill_status"}

WriteInv == pc \in Writing => written < MaxSent

TypeInv == TypeOK /\ BusInv /\ WriteInv /\ (busy => tx_left > 0)

-----------------------------------------------------------------------------
(* The receive FIFO: the pointers fit the count, and a byte is there when  *)
(* the program reads one.                                                  *)
RxAligned == rx_wr_ptr = (rx_rd_ptr + rx_count) % FifoDepth

ReadsAByte ==
  /\ pc = "get_status" /\ data_valid /\ rd_data.ready => rx_count # 0
  /\ pc = "get_read" => rx_count # 0
  /\ pc = "get_data" /\ ~data_valid => rx_count # 0

NoneCollides == ~(rx_byte_valid /\ Served(rd_req) = "data")

RxInv == RxAligned /\ ReadsAByte /\ NoneCollides

-----------------------------------------------------------------------------
(* The transmit FIFO of a program that polls bit 1: it is empty when a     *)
(* byte is written and when one is handed over, so it never holds two, and *)
(* uart_tx is idle when it is told to start.                               *)
TxAligned == tx_wr_ptr = (tx_rd_ptr + tx_count) % FifoDepth

AboutToWrite ==
  \/ pc = "put_status" /\ data_valid /\ ~rd_data.busy
  \/ pc = "put_write"
  \/ wr_req = "data"

TxInv ==
  /\ pc \notin {"fill_poll", "fill_status"}
  /\ TxAligned
  /\ tx_count \in {0, 1}
  /\ AboutToWrite => tx_count = 0
  /\ tx_wr_en => ~busy
  /\ tx_wr_en => tx_count = 0

-----------------------------------------------------------------------------
(* Indices of the rings.                                                   *)
LEMMA SmallRemainder ==
  ASSUME NEW d \in Nat \ {0}, NEW x \in Nat, x < d
  PROVE  x % d = x
  BY Z3

LEMMA LargeRemainder ==
  ASSUME NEW d \in Nat \ {0}, NEW x \in Nat, d <= x, x < d + d
  PROVE  x % d = x - d
  BY Z3

LEMMA RingIndex ==
  ASSUME NEW x \in Index, NEW k \in 0..FifoDepth
  PROVE  /\ (x + k) % FifoDepth
              = IF x + k < FifoDepth THEN x + k ELSE (x + k) - FifoDepth
         /\ (x + k) % FifoDepth \in Index
<1>1. /\ FifoDepth \in Nat \ {0} /\ x \in Nat /\ k \in Nat
      /\ x < FifoDepth /\ k <= FifoDepth
  BY UartAssumption DEF Index
<1>2. (x + k) % FifoDepth = IF x + k < FifoDepth THEN x + k ELSE (x + k) - FifoDepth
  <2>1. x + k \in Nat /\ x + k < FifoDepth + FifoDepth
    BY <1>1
  <2>2. CASE x + k < FifoDepth
    BY Zenon, <1>1, <2>1, <2>2, SmallRemainder
  <2>3. CASE FifoDepth <= x + k
    <3>1. (x + k) % FifoDepth = (x + k) - FifoDepth
      BY Zenon, <1>1, <2>1, <2>3, LargeRemainder
    <3>2. ~(x + k < FifoDepth)
      BY <1>1, <2>3
    <3>3. QED
      BY Zenon, <3>1, <3>2
  <2>4. QED
    BY <1>1, <2>1, <2>2, <2>3
<1>3. QED
  BY <1>1, <1>2 DEF Index

LEMMA RingStep ==
  ASSUME NEW x \in Index
  PROVE  (x + 1) % FifoDepth \in Index
<1>1. 1 \in 0..FifoDepth
  BY UartAssumption
<1>2. QED
  BY <1>1, RingIndex

-----------------------------------------------------------------------------
(* What one edge does.                                                     *)
LEMMA EdgeFacts ==
  ASSUME Next
  PROVE  /\ LineTick /\ ProgramTick /\ LogTick
         /\ TransmitterTick
         /\ ReceiveFifo(rx_byte_valid, rx_byte, Served(rd_req), wr_req)
         /\ TransmitFifo(wr_req, wr_data)
         /\ ReadPort(Served(rd_req))
         /\ buf_rd_req' = IF direct THEN rd_req ELSE "none"
         /\ direct' = direct
         /\ Collisions \/ NoCollision
  BY Zenon DEF Next, Tick, UartTick

(* The program: one of seven things at an edge.                            *)
LEMMA ProgramCases ==
  ASSUME ProgramTick
  PROVE  \/ WaitForBus
         \/ wait = 0 /\ Compute
         \/ wait = 0 /\ PollStatus
         \/ wait = 0 /\ SeeStatus
         \/ wait = 0 /\ ReadData
         \/ wait = 0 /\ SeeData
         \/ wait = 0 /\ WriteData
  BY Zenon DEF ProgramTick, ProgramStep

LEMMA ProgramWait ==
  ASSUME TypeInv, Next
  PROVE  wait' \in 0..UartGap /\ (wait' > 0 => pc' \notin Waiting)
<1>1. /\ wait \in 0..UartGap /\ UartGap \in Nat
      /\ wait > 0 => pc \notin Waiting
  BY UartTimingAssumption DEF TypeInv, TypeOK, BusInv
<1>2. CASE WaitForBus
  BY <1>1, <1>2 DEF WaitForBus
<1>3. CASE ProgramStep
  BY <1>1, <1>3 DEF ProgramStep, Waiting
<1>4. QED
  BY <1>2, <1>3, EdgeFacts DEF ProgramTick

LEMMA BusInvStep ==
  ASSUME TypeInv, Next
  PROVE  BusInv'
<1>1. /\ direct \in BOOLEAN /\ data_valid \in BOOLEAN
      /\ data_valid' = (Served(rd_req) # "none")
      /\ buf_rd_req' = IF direct THEN rd_req ELSE "none"
      /\ direct' = direct
  BY EdgeFacts, UartAssumption DEF ReadPort, TypeInv, TypeOK, UartTypeOK
<1>2. wait' > 0 => pc' \notin Waiting
  BY ProgramWait
<1>3. wait \in 0..UartGap /\ pc \in ProgramStates /\ BusInv
  BY DEF TypeInv, TypeOK
<1>4. CASE WaitForBus
  <2>1. pc' = pc /\ rd_req' = "none" /\ wr_req' = "none"
    BY Zenon, <1>4 DEF WaitForBus, Bus
  <2>2. wait > 0 \/ (pc \in Waiting /\ ~data_valid)
    BY Zenon, <1>4 DEF WaitForBus, Waiting
  <2>3. QED
    BY <1>1, <1>2, <1>3, <2>1, <2>2 DEF BusInv, Quiet, Asked, Served
<1>5. CASE Compute
  <2>1. /\ pc = "compute" /\ pc' \notin Waiting /\ rd_req' = "none"
        /\ wr_req' # "none" => pc' = "compute"
    BY <1>5 DEF Compute, Bus, Waiting
  <2>2. pc \notin Waiting
    BY <2>1 DEF Waiting
  <2>3. QED
    BY <1>1, <1>2, <1>3, <2>1, <2>2 DEF BusInv, Quiet, Served
<1>6. CASE PollStatus
  <2>1. /\ pc \notin Waiting /\ pc' \in Waiting /\ pc' # "get_data"
        /\ rd_req' = "status" /\ wr_req' = "none"
    BY <1>6 DEF PollStatus, Bus, Waiting
  <2>2. QED
    BY <1>1, <1>2, <1>3, <2>1 DEF BusInv, Quiet, Asked, Served
<1>7. CASE SeeStatus
  <2>1. /\ pc \in Waiting /\ data_valid /\ pc' \notin Waiting
        /\ rd_req' = "none" /\ wr_req' = "none"
    BY <1>7 DEF SeeStatus, Bus, Waiting
  <2>2. QED
    BY <1>1, <1>2, <1>3, <2>1 DEF BusInv, Quiet, Served
<1>8. CASE ReadData
  <2>1. /\ pc \notin Waiting /\ pc' \in Waiting /\ pc' = "get_data"
        /\ rd_req' = "data" /\ wr_req' = "none"
    BY <1>8 DEF ReadData, Bus, Waiting
  <2>2. QED
    BY <1>1, <1>2, <1>3, <2>1 DEF BusInv, Quiet, Asked, Served
<1>9. CASE SeeData
  <2>1. /\ pc \in Waiting /\ data_valid /\ pc' \notin Waiting
        /\ rd_req' = "none" /\ wr_req' = "none"
    BY <1>9 DEF SeeData, Bus, Waiting
  <2>2. QED
    BY <1>1, <1>2, <1>3, <2>1 DEF BusInv, Quiet, Served
<1>10. CASE WriteData
  <2>1. /\ pc \notin Waiting /\ pc' = "compute" /\ pc' \notin Waiting
        /\ rd_req' = "none"
    BY <1>10 DEF WriteData, Bus, Waiting
  <2>2. QED
    BY <1>1, <1>2, <1>3, <2>1 DEF BusInv, Quiet, Served
<1>11. QED
  BY <1>4, <1>5, <1>6, <1>7, <1>8, <1>9, <1>10, EdgeFacts, ProgramCases

-----------------------------------------------------------------------------
(* Types.                                                                  *)
LEMMA InitTypeInv == Init => TypeInv
<1> SUFFICES ASSUME Init PROVE TypeInv
  OBVIOUS
<1>1. 0 \in RxByte /\ 0 \in TxByte /\ 0 \in Index /\ 0 \in 0..FifoDepth
  BY UartAssumption DEF RxByte, TxByte, Index
<1>2. 0 \in 0..FrameTime /\ 0 \in 0..RxGap /\ 0 \in 0..UartGap
  BY UartAssumption, UartTimingAssumption
<1>3. NoReply \in Reply
  BY <1>1 DEF NoReply, Reply
<1>4. [i \in Index |-> 0] \in [Index -> RxByte] /\ [i \in Index |-> 0] \in [Index -> TxByte]
  BY <1>1
<1>5. UartTypeOK
  BY Zenon, <1>1, <1>2, <1>3, <1>4 DEF Init, UartInit, UartTypeOK, Registers
<1>6. << >> \in Seq(RxByte) /\ << >> \in Seq(TxByte)
  BY EmptySeq
<1>7. TypeOK
  BY Zenon, <1>1, <1>2, <1>5, <1>6 DEF Init, TypeOK, ProgramStates, Registers
<1>8. BusInv /\ WriteInv
  BY DEF BusInv, WriteInv, Init, UartInit, Waiting, Writing, Quiet
<1>9. ~busy
  BY Zenon DEF Init, UartInit
<1>10. QED
  BY Zenon, <1>7, <1>8, <1>9 DEF TypeInv

LEMMA ProgramTypes ==
  ASSUME TypeInv, Next
  PROVE  /\ pc' \in ProgramStates
         /\ rd_req' \in Registers /\ wr_req' \in {"none", "data", "clear"}
         /\ wr_data' \in TxByte /\ written' \in TxByte
         /\ WriteInv'
<1>1. /\ pc \in ProgramStates /\ wr_data \in TxByte /\ written \in 0..MaxSent
      /\ MaxSent \in Nat
      /\ pc \in Writing => written < MaxSent
  BY UartAssumption DEF TypeInv, TypeOK, TxByte, WriteInv
<1>2. CASE ~WriteData
  <2>1. wr_data' = wr_data /\ written' = written
    BY Zenon, <1>2, EdgeFacts, ProgramCases
       DEF WaitForBus, Compute, PollStatus, SeeStatus, ReadData, SeeData
  <2>2. rd_req' \in Registers
    BY Zenon, <1>2, EdgeFacts, ProgramCases
       DEF WaitForBus, Compute, PollStatus, SeeStatus, ReadData, SeeData, Bus, Registers
  <2>3. wr_req' \in {"none", "data", "clear"}
    BY Zenon, <1>2, EdgeFacts, ProgramCases
       DEF WaitForBus, Compute, PollStatus, SeeStatus, ReadData, SeeData, Bus
  <2>4. pc' \in ProgramStates /\ (pc' \in Writing => pc \in Writing \/ written < MaxSent)
    <3>1. CASE WaitForBus
      BY Zenon, <1>1, <3>1 DEF WaitForBus
    <3>2. CASE Compute
      BY Zenon, <3>2 DEF Compute, ProgramStates, Writing
    <3>3. CASE PollStatus
      BY <3>3 DEF PollStatus, ProgramStates, Writing
    <3>4. CASE SeeStatus
      BY <3>4 DEF SeeStatus, ProgramStates, Writing
    <3>5. CASE ReadData \/ SeeData
      BY <3>5 DEF ReadData, SeeData, ProgramStates, Writing
    <3>6. QED
      BY Zenon, <1>2, <3>1, <3>2, <3>3, <3>4, <3>5, EdgeFacts, ProgramCases
  <2>5. WriteInv'
    BY <1>1, <2>1, <2>4 DEF WriteInv
  <2>6. written \in TxByte
    BY <1>1 DEF TxByte
  <2>7. QED
    BY Zenon, <1>1, <2>1, <2>2, <2>3, <2>4, <2>5, <2>6
<1>3. CASE WriteData
  <2>1. /\ pc = "put_write" /\ pc' = "compute" /\ rd_req' = "none" /\ wr_req' = "data"
        /\ wr_data' = written + 1 /\ written' = written + 1
    BY Zenon, <1>3 DEF WriteData, Bus
  <2>2. written + 1 \in TxByte
    <3>1. written < MaxSent
      BY Zenon, <1>1, <2>1 DEF Writing
    <3>2. QED
      BY <1>1, <3>1 DEF TxByte
  <2>3. QED
    BY <2>1, <2>2 DEF WriteInv, Writing, ProgramStates, Registers
<1>4. QED
  BY Zenon, <1>2, <1>3

LEMMA LineTypes ==
  ASSUME TypeInv, Next
  PROVE  /\ rx_byte_valid' \in BOOLEAN /\ rx_byte' \in RxByte
         /\ rx_wait' \in 0..RxGap /\ arrived' \in RxByte
<1>1. /\ rx_byte \in RxByte /\ arrived \in 0..MaxArrivals /\ MaxArrivals \in Nat
      /\ rx_wait \in 0..RxGap /\ RxGap \in Nat \ {0}
  BY UartAssumption, UartTimingAssumption DEF TypeInv, TypeOK, RxByte
<1>2. rx_byte_valid' \in BOOLEAN
  BY Zenon, EdgeFacts DEF LineTick, ByteArrives, LineQuiet
<1>3. CASE ByteArrives
  <2>1. /\ arrived' = arrived + 1 /\ rx_byte' = arrived + 1 /\ rx_wait' = RxGap - 1
        /\ arrived < MaxArrivals
    BY Zenon, <1>3 DEF ByteArrives
  <2>2. QED
    BY <1>1, <1>2, <2>1 DEF RxByte
<1>4. CASE LineQuiet
  <2>1. /\ arrived' = arrived /\ rx_byte' = rx_byte
        /\ rx_wait' = IF rx_wait = 0 THEN 0 ELSE rx_wait - 1
    BY Zenon, <1>4 DEF LineQuiet
  <2>2. QED
    BY <1>1, <1>2, <2>1 DEF RxByte
<1>5. QED
  BY Zenon, <1>3, <1>4, EdgeFacts DEF LineTick

LEMMA ReceiverTypes ==
  ASSUME TypeInv, Next
  PROVE  /\ rx_fifo' \in [Index -> RxByte] /\ rx_wr_ptr' \in Index /\ rx_rd_ptr' \in Index
         /\ rx_count' \in 0..FifoDepth /\ rx_overflow' \in BOOLEAN
         /\ rx_data_latched' \in RxByte
<1>1. ReceiveFifo(rx_byte_valid, rx_byte, Served(rd_req), wr_req)
  BY EdgeFacts
<1>2. /\ rx_fifo \in [Index -> RxByte] /\ rx_wr_ptr \in Index /\ rx_rd_ptr \in Index
      /\ rx_count \in 0..FifoDepth /\ rx_data_latched \in RxByte /\ rx_byte \in RxByte
      /\ FifoDepth \in Nat \ {0}
  BY UartAssumption DEF TypeInv, TypeOK, UartTypeOK
<1>3. (rx_wr_ptr + 1) % FifoDepth \in Index /\ (rx_rd_ptr + 1) % FifoDepth \in Index
  BY <1>2, RingStep
<1>4. rx_wr_ptr' \in Index /\ rx_rd_ptr' \in Index
  BY Zenon, <1>1, <1>2, <1>3 DEF ReceiveFifo
<1>5. rx_fifo' \in [Index -> RxByte] /\ rx_data_latched' \in RxByte
  BY <1>1, <1>2 DEF ReceiveFifo
<1>6. rx_count' \in 0..FifoDepth
  BY <1>1, <1>2 DEF ReceiveFifo, Takes, Stores
<1>7. rx_overflow' \in BOOLEAN
  BY Zenon, <1>1 DEF ReceiveFifo
<1>8. QED
  BY <1>4, <1>5, <1>6, <1>7

LEMMA TransmitTypes ==
  ASSUME TypeInv, Next
  PROVE  /\ tx_fifo' \in [Index -> TxByte] /\ tx_wr_ptr' \in Index /\ tx_rd_ptr' \in Index
         /\ tx_count' \in 0..FifoDepth /\ tx_wr_en' \in BOOLEAN /\ tx_wr_data' \in TxByte
<1>1. TransmitFifo(wr_req, wr_data)
  BY EdgeFacts
<1>2. /\ tx_fifo \in [Index -> TxByte] /\ tx_wr_ptr \in Index /\ tx_rd_ptr \in Index
      /\ tx_count \in 0..FifoDepth /\ tx_wr_data \in TxByte /\ wr_data \in TxByte
      /\ FifoDepth \in Nat \ {0}
  BY UartAssumption DEF TypeInv, TypeOK, UartTypeOK
<1>3. (tx_wr_ptr + 1) % FifoDepth \in Index /\ (tx_rd_ptr + 1) % FifoDepth \in Index
  BY <1>2, RingStep
<1>4. tx_wr_ptr' \in Index /\ tx_rd_ptr' \in Index
  BY Zenon, <1>1, <1>2, <1>3 DEF TransmitFifo
<1>5. tx_fifo' \in [Index -> TxByte] /\ tx_wr_data' \in TxByte
  BY <1>1, <1>2 DEF TransmitFifo
<1>6. tx_count' \in 0..FifoDepth
  BY <1>1, <1>2 DEF TransmitFifo, Hands, Enqueues
<1>7. tx_wr_en' \in BOOLEAN
  BY Zenon, <1>1 DEF TransmitFifo
<1>8. QED
  BY <1>4, <1>5, <1>6, <1>7

LEMMA TransmitterTypes ==
  ASSUME TypeInv, Next
  PROVE  /\ busy' \in BOOLEAN /\ tx_byte' \in TxByte /\ tx_left' \in 0..FrameTime
         /\ busy' => tx_left' > 0
<1>1. TransmitterTick
  BY EdgeFacts
<1>2. /\ busy \in BOOLEAN /\ tx_wr_en \in BOOLEAN /\ tx_byte \in TxByte
      /\ tx_wr_data \in TxByte /\ tx_left \in 0..FrameTime /\ FrameTime \in Nat \ {0}
      /\ busy => tx_left > 0
  BY UartAssumption DEF TypeInv, TypeOK, UartTypeOK
<1>3. busy' \in BOOLEAN /\ tx_byte' \in TxByte
  BY Zenon, <1>1, <1>2 DEF TransmitterTick, EndsFrame
<1>4. CASE busy
  <2>1. tx_left' = tx_left - 1 /\ (busy' => tx_left # 1)
    BY Zenon, <1>1, <1>4 DEF TransmitterTick, EndsFrame
  <2>2. QED
    BY <1>2, <1>3, <1>4, <2>1
<1>5. CASE ~busy
  <2>1. tx_left' = (IF tx_wr_en THEN FrameTime ELSE 0) /\ (busy' => tx_wr_en)
    BY Zenon, <1>1, <1>5 DEF TransmitterTick
  <2>2. QED
    BY <1>2, <1>3, <2>1
<1>6. QED
  BY <1>4, <1>5

LEMMA ReadByteType ==
  ASSUME TypeInv
  PROVE  ReadByte \in RxByte
  BY DEF TypeInv, TypeOK, UartTypeOK, ReadByte

LEMMA PortTypes ==
  ASSUME TypeInv, Next
  PROVE  /\ rd_data' \in Reply /\ data_valid' \in BOOLEAN
         /\ buf_rd_req' \in Registers /\ direct' \in Variants
<1>1. /\ ReadPort(Served(rd_req))
      /\ buf_rd_req' = IF direct THEN rd_req ELSE "none"
      /\ direct' = direct
  BY EdgeFacts
<1>2. /\ direct \in Variants /\ direct \in BOOLEAN /\ rd_req \in Registers
      /\ rd_data \in Reply
  BY UartAssumption DEF TypeInv, TypeOK, UartTypeOK
<1>3. Status \in Reply
  <2>1. /\ (rx_count # 0) \in BOOLEAN /\ BusyBit \in BOOLEAN
        /\ rx_overflow \in BOOLEAN /\ (tx_count = FifoDepth) \in BOOLEAN
        /\ 0 \in RxByte
    BY UartAssumption DEF TypeInv, TypeOK, UartTypeOK, BusyBit, RxByte
  <2>2. QED
    BY <2>1 DEF Status, Reply
<1>4. [NoReply EXCEPT !.byte = ReadByte] \in Reply
  BY ReadByteType DEF NoReply, Reply
<1>5. rd_data' \in Reply
  BY Zenon, <1>1, <1>2, <1>3, <1>4 DEF ReadPort
<1>6. QED
  BY Zenon, <1>1, <1>2, <1>5 DEF ReadPort, Registers

LEMMA LogTypes ==
  ASSUME TypeInv, Next
  PROVE  /\ accepted' \in Seq(RxByte) /\ received' \in Seq(RxByte)
         /\ transmitted' \in Seq(TxByte)
<1>1. /\ accepted \in Seq(RxByte) /\ received \in Seq(RxByte) /\ transmitted \in Seq(TxByte)
      /\ rx_byte \in RxByte /\ ReadByte \in RxByte /\ tx_byte \in TxByte
  BY ReadByteType DEF TypeInv, TypeOK, UartTypeOK
<1>2. /\ Append(accepted, rx_byte) \in Seq(RxByte) /\ Append(received, ReadByte) \in Seq(RxByte)
      /\ Append(transmitted, tx_byte) \in Seq(TxByte)
  BY <1>1, AppendProperties
<1>3. LogTick
  BY EdgeFacts
<1>4. QED
  BY Zenon, <1>1, <1>2, <1>3 DEF LogTick

LEMMA TypeInvStep ==
  ASSUME TypeInv, [Next]_vars
  PROVE  TypeInv'
<1>1. CASE Next
  <2>1. UartTypeOK'
    BY Zenon, <1>1, ReceiverTypes, TransmitTypes, TransmitterTypes, PortTypes DEF UartTypeOK
  <2>2. TypeOK'
    BY Zenon, <1>1, <2>1, LineTypes, ProgramTypes, ProgramWait, LogTypes DEF TypeOK
  <2>3. QED
    BY Zenon, <1>1, <2>2, BusInvStep, ProgramTypes, TransmitterTypes DEF TypeInv
<1>2. CASE UNCHANGED vars
  BY <1>2 DEF TypeInv, TypeOK, UartTypeOK, BusInv, WriteInv, Quiet, Asked,
     vars, uartVars, uartRxVars, uartTxVars, lineVars, programVars, logVars
<1>3. QED
  BY <1>1, <1>2

LEMMA TypeInvAlways == Spec => []TypeInv
<1>1. QED
  BY InitTypeInv, TypeInvStep, PTL DEF Spec

(* Every variable keeps its type, whatever is typed and whatever the       *)
(* program calls.                                                          *)
THEOREM TypeCorrect == Spec => []TypeOK
<1>1. TypeInv => TypeOK
  BY DEF TypeInv
<1>2. QED
  BY <1>1, TypeInvAlways, PTL

-----------------------------------------------------------------------------
(* No byte comes at the edge that serves a read.                           *)
LEMMA NoneCollidesStep ==
  ASSUME ~Collisions, Next
  PROVE  NoneCollides'
<1>1. NoCollision /\ direct' = direct
  BY EdgeFacts
<1>2. QED
  BY Zenon, <1>1 DEF NoCollision, NoneCollides, ReadsNext, Served

-----------------------------------------------------------------------------
(* The rings as sequences.                                                 *)
LEMMA RingNext ==
  ASSUME NEW x \in Index, NEW k \in 0..FifoDepth - 1
  PROVE  (((x + k) % FifoDepth) + 1) % FifoDepth = (x + (k + 1)) % FifoDepth
<1>1. /\ k \in 0..FifoDepth /\ k + 1 \in 0..FifoDepth /\ 1 \in 0..FifoDepth
      /\ x \in Nat /\ x < FifoDepth /\ FifoDepth \in Nat
  BY UartAssumption DEF Index
<1> DEFINE y == (x + k) % FifoDepth
<1>2. y = IF x + k < FifoDepth THEN x + k ELSE (x + k) - FifoDepth
  BY <1>1, RingIndex
<1>3. y \in Index
  BY <1>1, RingIndex
<1>4. (x + (k + 1)) % FifoDepth
        = IF x + (k + 1) < FifoDepth THEN x + (k + 1) ELSE (x + (k + 1)) - FifoDepth
  BY <1>1, RingIndex
<1>5. (y + 1) % FifoDepth = IF y + 1 < FifoDepth THEN y + 1 ELSE (y + 1) - FifoDepth
  BY <1>1, <1>3, RingIndex
<1>6. y \in Nat
  BY <1>3 DEF Index
<1> HIDE DEF y
<1>7. (y + 1) % FifoDepth = (x + (k + 1)) % FifoDepth
  BY <1>1, <1>2, <1>4, <1>5, <1>6
<1>8. QED
  BY <1>7 DEF y

LEMMA RingShift ==
  ASSUME NEW x \in Index, NEW k \in 0..FifoDepth - 1
  PROVE  (((x + 1) % FifoDepth) + k) % FifoDepth = (x + (k + 1)) % FifoDepth
<1>1. /\ k \in 0..FifoDepth /\ k + 1 \in 0..FifoDepth /\ 1 \in 0..FifoDepth
      /\ x \in Nat /\ x < FifoDepth /\ FifoDepth \in Nat
  BY UartAssumption DEF Index
<1> DEFINE y == (x + 1) % FifoDepth
<1>2. y = IF x + 1 < FifoDepth THEN x + 1 ELSE (x + 1) - FifoDepth
  BY <1>1, RingIndex
<1>3. y \in Index
  BY <1>1, RingIndex
<1>4. (x + (k + 1)) % FifoDepth
        = IF x + (k + 1) < FifoDepth THEN x + (k + 1) ELSE (x + (k + 1)) - FifoDepth
  BY <1>1, RingIndex
<1>5. (y + k) % FifoDepth = IF y + k < FifoDepth THEN y + k ELSE (y + k) - FifoDepth
  BY <1>1, <1>3, RingIndex
<1>6. y \in Nat
  BY <1>3 DEF Index
<1> HIDE DEF y
<1>7. (y + k) % FifoDepth = (x + (k + 1)) % FifoDepth
  BY <1>1, <1>2, <1>4, <1>5, <1>6
<1>8. QED
  BY <1>7 DEF y

LEMMA RingDistinct ==
  ASSUME NEW x \in Index, NEW j \in 0..FifoDepth, NEW k \in 0..FifoDepth,
         j < k, k < FifoDepth
  PROVE  (x + j) % FifoDepth # (x + k) % FifoDepth
<1>1. j \in Nat /\ k \in Nat /\ x \in Nat /\ x < FifoDepth /\ FifoDepth \in Nat
  BY UartAssumption DEF Index
<1>2. /\ (x + j) % FifoDepth = IF x + j < FifoDepth THEN x + j ELSE (x + j) - FifoDepth
      /\ (x + k) % FifoDepth = IF x + k < FifoDepth THEN x + k ELSE (x + k) - FifoDepth
  BY RingIndex
<1>3. QED
  BY <1>1, <1>2

(* The i-th value from the slot p on.                                      *)
Entry(f, p, i) == f[(p + (i - 1)) % FifoDepth]

LEMMA EntryType ==
  ASSUME NEW S, NEW f \in [Index -> S], NEW p \in Index, NEW i \in 1..FifoDepth
  PROVE  Entry(f, p, i) \in S
<1>1. i - 1 \in 0..FifoDepth
  BY UartAssumption
<1>2. (p + (i - 1)) % FifoDepth \in Index
  BY <1>1, RingIndex
<1>3. QED
  BY <1>2 DEF Entry

LEMMA PendingType ==
  ASSUME NEW S, NEW f \in [Index -> S], NEW p \in Index, NEW c \in 0..FifoDepth
  PROVE  /\ Pending(f, p, c) \in Seq(S)
         /\ Len(Pending(f, p, c)) = c
         /\ \A i \in 1..c : Pending(f, p, c)[i] = Entry(f, p, i)
<1>1. c \in Nat /\ \A i \in 1..c : i \in 1..FifoDepth
  BY UartAssumption
<1> DEFINE r == [i \in 1..c |-> Entry(f, p, i)]
<1>2. r \in [1..c -> S]
  BY <1>1, EntryType
<1>3. r \in Seq(S) /\ Len(r) = c
  <2> HIDE DEF r
  <2>1. QED
    BY <1>1, <1>2, IsASeq, SeqDef, LenProperties
<1>4. Pending(f, p, c) = r
  BY DEF Pending, Entry
<1>5. QED
  BY <1>3, <1>4

LEMMA PendingNone ==
  ASSUME NEW S, NEW f \in [Index -> S], NEW p \in Index
  PROVE  Pending(f, p, 0) = << >>
<1>1. 0 \in 0..FifoDepth
  BY UartAssumption
<1>2. Pending(f, p, 0) \in Seq(S) /\ Len(Pending(f, p, 0)) = 0
  BY <1>1, PendingType
<1>3. QED
  BY <1>2, EmptySeq

LEMMA RxPendingType ==
  ASSUME NEW f \in [Index -> RxByte], NEW p \in Index, NEW c \in 0..FifoDepth
  PROVE  /\ Pending(f, p, c) \in Seq(RxByte)
         /\ Len(Pending(f, p, c)) = c
         /\ \A i \in 1..c : Pending(f, p, c)[i] = Entry(f, p, i)
  BY PendingType

LEMMA PendingAppend ==
  ASSUME NEW f \in [Index -> RxByte], NEW p \in Index, NEW c \in 0..FifoDepth - 1,
         NEW x \in RxByte, NEW g \in [Index -> RxByte], NEW n \in 1..FifoDepth, n = c + 1,
         g[(p + c) % FifoDepth] = x,
         \A i \in Index : i # (p + c) % FifoDepth => g[i] = f[i]
  PROVE  Pending(g, p, n) = Append(Pending(f, p, c), x)
<1> DEFINE q == Pending(f, p, c)
           r == Pending(g, p, n)
<1>1. /\ c \in 0..FifoDepth /\ n \in 0..FifoDepth /\ n \in 1..FifoDepth
      /\ c \in Nat /\ FifoDepth \in Nat
  BY UartAssumption
<1>2. (p + c) % FifoDepth \in Index
  BY <1>1, RingIndex
<1>3. q \in Seq(RxByte) /\ Len(q) = c
  BY Zenon, <1>1, RxPendingType
<1>4. \A i \in 1..c : q[i] = Entry(f, p, i)
  BY Zenon, <1>1, RxPendingType
<1>5. r \in Seq(RxByte) /\ Len(r) = n
  BY Zenon, <1>1, RxPendingType
<1>6. \A i \in 1..n : r[i] = Entry(g, p, i)
  BY Zenon, <1>1, RxPendingType
<1>7. /\ Append(q, x) \in Seq(RxByte) /\ Len(Append(q, x)) = n
      /\ \A i \in 1..c : Append(q, x)[i] = q[i]
      /\ Append(q, x)[n] = x
  <2> HIDE DEF q
  <2>1. QED
    BY <1>1, <1>3, AppendProperties
<1>8. ASSUME NEW i \in 1..n
      PROVE  r[i] = Append(q, x)[i]
  <2>1. CASE i = n
    <3>1. i - 1 = c
      BY <1>1, <2>1
    <3>2. Entry(g, p, i) = x
      BY <1>2, <3>1 DEF Entry
    <3>3. QED
      BY <1>6, <1>7, <2>1, <3>2
  <2>2. CASE i # n
    <3>1. i \in 1..c /\ i - 1 \in 0..FifoDepth /\ i - 1 < c /\ c < FifoDepth
      BY <1>1, <2>2
    <3>2. (p + (i - 1)) % FifoDepth # (p + c) % FifoDepth
      BY <1>1, <3>1, RingDistinct
    <3>3. (p + (i - 1)) % FifoDepth \in Index
      BY <3>1, RingIndex
    <3>4. Entry(g, p, i) = Entry(f, p, i)
      BY <3>2, <3>3 DEF Entry
    <3>5. QED
      BY <1>4, <1>6, <1>7, <3>1, <3>4
  <2>3. QED
    BY <2>1, <2>2
<1> HIDE DEF q, r
<1>9. r = Append(q, x)
  BY <1>5, <1>7, <1>8, SeqEqual
<1>10. QED
  BY <1>9 DEF q, r

LEMMA PendingHead ==
  ASSUME NEW S, NEW f \in [Index -> S], NEW p \in Index, NEW c \in 1..FifoDepth
  PROVE  Pending(f, p, c) = <<f[p]>> \o Pending(f, (p + 1) % FifoDepth, c - 1)
<1> DEFINE n == (p + 1) % FifoDepth
           m == c - 1
           q == Pending(f, p, c)
           t == Pending(f, n, m)
           r == <<f[p]>> \o t
<1>1. /\ c \in 0..FifoDepth /\ m \in 0..FifoDepth /\ c \in Nat \ {0} /\ FifoDepth \in Nat
      /\ 1 \in 0..FifoDepth /\ m \in Nat /\ c = m + 1
  BY UartAssumption
<1>2. n \in Index /\ f[p] \in S
  BY RingStep
<1>3. q \in Seq(S) /\ Len(q) = c
  BY <1>1, PendingType
<1>4. \A i \in 1..c : q[i] = Entry(f, p, i)
  BY <1>1, PendingType
<1>5. t \in Seq(S) /\ Len(t) = m
  <2> HIDE DEF n, m
  <2>1. QED
    BY <1>1, <1>2, PendingType
<1>6. \A i \in 1..m : t[i] = Entry(f, n, i)
  <2> HIDE DEF n, m
  <2>1. QED
    BY <1>1, <1>2, PendingType
<1>7. <<f[p]>> \in Seq(S) /\ Len(<<f[p]>>) = 1 /\ <<f[p]>>[1] = f[p]
  BY <1>2
<1> HIDE DEF t, q, m
<1>8. r \in Seq(S)
  BY <1>5, <1>7, ConcatProperties
<1>9. Len(r) = c
  <2>1. Len(r) = 1 + m
    BY <1>5, <1>7, ConcatProperties
  <2>2. QED
    BY <1>1, <2>1
<1>10. \A i \in 1..c : r[i] = IF i <= 1 THEN f[p] ELSE t[i - 1]
  <2>1. \A i \in 1..1 + m : r[i] = IF i <= 1 THEN <<f[p]>>[i] ELSE t[i - 1]
    BY <1>5, <1>7, ConcatProperties
  <2> HIDE DEF r
  <2>2. \A i \in 1..c : i <= 1 => i = 1
    BY <1>1
  <2>3. 1 + m = c
    BY <1>1
  <2>4. QED
    BY Zenon, <1>7, <2>1, <2>2, <2>3
<1> HIDE DEF r
<1>11. ASSUME NEW i \in 1..c
       PROVE  q[i] = r[i]
  <2>1. CASE i = 1
    <3>1. (p + (i - 1)) % FifoDepth = p
      <4>1. 0 \in 0..FifoDepth /\ p + 0 = p /\ p < FifoDepth /\ i - 1 = 0
        BY <1>1, <2>1 DEF Index
      <4>2. QED
        BY <4>1, RingIndex
    <3>2. QED
      BY <1>4, <1>10, <2>1, <3>1 DEF Entry
  <2>2. CASE i # 1
    <3>1. /\ i - 1 \in 1..m /\ (i - 1) - 1 \in 0..FifoDepth - 1
          /\ ((i - 1) - 1) + 1 = i - 1 /\ ~(i <= 1)
      BY <1>1, <2>2
    <3>2. (n + ((i - 1) - 1)) % FifoDepth = (p + (i - 1)) % FifoDepth
      BY <3>1, RingShift
    <3>3. Entry(f, n, i - 1) = Entry(f, p, i)
      BY <3>2 DEF Entry
    <3>4. QED
      BY <1>4, <1>6, <1>10, <3>1, <3>3
  <2>3. QED
    BY <2>1, <2>2
<1>12. q = r
  BY <1>3, <1>8, <1>9, <1>11, SeqEqual
<1>13. QED
  BY <1>12 DEF q, r, t, m

-----------------------------------------------------------------------------
(* What the program reads.                                                 *)
LEMMA ServedFacts ==
  ASSUME TypeInv
  PROVE  /\ Served(rd_req) = "data" => pc = "get_data" /\ ~data_valid
         /\ Served(rd_req) = "status" => pc \in Waiting /\ pc # "get_data" /\ ~data_valid
         /\ Served(rd_req) \in Registers
         /\ direct \in BOOLEAN
<1>1. /\ BusInv /\ direct \in BOOLEAN
      /\ rd_req \in Registers /\ buf_rd_req \in Registers
  BY UartAssumption DEF TypeInv, TypeOK, UartTypeOK
<1>2. QED
  BY <1>1 DEF BusInv, Quiet, Asked, Served, Registers

LEMMA ReadsAByteStep ==
  ASSUME TypeInv, ReadsAByte, Next
  PROVE  ReadsAByte'
<1>1. /\ data_valid' = (Served(rd_req) # "none")
      /\ Served(rd_req) = "status" => rd_data' = Status
      /\ rx_count' = IF Takes(Served(rd_req)) THEN rx_count - 1
                     ELSE IF Stores(rx_byte_valid) THEN rx_count + 1 ELSE rx_count
  BY Zenon, EdgeFacts DEF ReadPort, ReceiveFifo
<1>2. /\ rx_count \in Nat /\ BusInv /\ pc \in ProgramStates
      /\ data_valid \in BOOLEAN
  BY UartAssumption DEF TypeInv, TypeOK, UartTypeOK
<1>3. rx_count # 0 /\ Served(rd_req) # "data" => rx_count' # 0
  BY <1>1, <1>2 DEF Takes
<1>4. Status.ready = (rx_count # 0)
  BY DEF Status
<1>5. ASSUME pc' = "get_status", data_valid', rd_data'.ready
      PROVE  rx_count' # 0
  <2>1. pc' \in Waiting
    BY <1>5 DEF Waiting
  <2>2. Served(rd_req) # "none"
    BY <1>1, <1>5
  <2>3. CASE Served(rd_req) = "data"
    <3>1. pc = "get_data" /\ ~data_valid
      BY <2>3, ServedFacts
    <3>2. WaitForBus
      BY <3>1, EdgeFacts, ProgramCases
         DEF Compute, PollStatus, SeeStatus, ReadData, SeeData, WriteData
    <3>3. pc' = pc
      BY Zenon, <3>2 DEF WaitForBus
    <3>4. QED
      BY <1>5, <3>1, <3>3
  <2>4. CASE Served(rd_req) = "status"
    <3>1. rx_count # 0
      BY <1>1, <1>4, <1>5, <2>4
    <3>2. QED
      BY <1>3, <2>4, <3>1
  <2>5. QED
    BY <2>2, <2>3, <2>4, ServedFacts DEF Registers
<1>6. ASSUME pc' = "get_read"
      PROVE  rx_count' # 0
  <2>1. \/ pc' = pc
        \/ pc = "get_status" /\ data_valid /\ rd_data.ready
    BY <1>6, EdgeFacts, ProgramCases
       DEF WaitForBus, Compute, PollStatus, SeeStatus, ReadData, SeeData, WriteData
  <2>2. rx_count # 0 /\ Served(rd_req) # "data"
    <3>1. rx_count # 0
      BY <1>6, <2>1 DEF ReadsAByte
    <3>2. pc = "get_read" \/ pc = "get_status"
      BY <1>6, <2>1
    <3>3. QED
      BY <3>1, <3>2, ServedFacts
  <2>3. QED
    BY <1>3, <2>2
<1>7. ASSUME pc' = "get_data", ~data_valid'
      PROVE  rx_count' # 0
  <2>1. pc = "get_data" \/ pc = "get_read"
    BY <1>7, EdgeFacts, ProgramCases
       DEF WaitForBus, Compute, PollStatus, SeeStatus, ReadData, SeeData, WriteData
  <2>2. Served(rd_req) = "none"
    BY <1>1, <1>7
  <2>3. pc = "get_data" => ~data_valid
    <3>1. pc = "get_data" /\ data_valid => Quiet
      BY <1>2 DEF BusInv, Waiting, Asked
    <3>2. ASSUME pc = "get_data", data_valid
          PROVE  FALSE
      <4>1. wait = 0
        BY <3>2 DEF TypeInv, TypeOK, BusInv, Waiting
      <4>2. ~WaitForBus
        BY <3>2, <4>1 DEF WaitForBus
      <4>3. pc' # "get_data"
        BY <3>2, <4>2, EdgeFacts, ProgramCases
           DEF Compute, PollStatus, SeeStatus, ReadData, SeeData, WriteData
      <4>4. QED
        BY <1>7, <4>3
    <3>3. QED
      BY <3>2
  <2>4. rx_count # 0
    BY <2>1, <2>3 DEF ReadsAByte
  <2>5. QED
    BY <1>3, <2>2, <2>4
<1>8. QED
  BY <1>5, <1>6, <1>7 DEF ReadsAByte

(* At an edge the FIFO takes a byte, gives one, or does neither.           *)
RxStores ==
  /\ rx_count < FifoDepth
  /\ rx_fifo' = [rx_fifo EXCEPT ![rx_wr_ptr] = rx_byte]
  /\ rx_wr_ptr' = (rx_wr_ptr + 1) % FifoDepth /\ rx_count' = rx_count + 1
  /\ accepted' = Append(accepted, rx_byte)
  /\ UNCHANGED <<rx_rd_ptr, received>>

RxTakes ==
  /\ rx_count # 0
  /\ rx_rd_ptr' = (rx_rd_ptr + 1) % FifoDepth /\ rx_count' = rx_count - 1
  /\ received' = Append(received, rx_fifo[rx_rd_ptr])
  /\ UNCHANGED <<rx_fifo, rx_wr_ptr, accepted>>

RxIdle == UNCHANGED <<rx_fifo, rx_wr_ptr, rx_rd_ptr, rx_count, accepted, received>>

LEMMA RxCases ==
  ASSUME TypeInv, ReadsAByte, NoneCollides, Next
  PROVE  RxStores \/ RxTakes \/ RxIdle
<1>1. ReceiveFifo(rx_byte_valid, rx_byte, Served(rd_req), wr_req) /\ LogTick
  BY EdgeFacts
<1>2. CASE Served(rd_req) = "data"
  <2>1. rx_count # 0
    BY <1>2, ServedFacts DEF ReadsAByte
  <2>2. Takes(Served(rd_req)) /\ ~Stores(rx_byte_valid)
    BY Zenon, <1>2, <2>1 DEF NoneCollides, Takes, Stores
  <2>3. ReadByte = rx_fifo[rx_rd_ptr]
    BY Zenon, <2>1 DEF ReadByte
  <2>4. RxTakes
    BY Zenon, <1>1, <1>2, <2>1, <2>2, <2>3 DEF ReceiveFifo, LogTick, RxTakes
  <2>5. QED
    BY <2>4
<1>3. CASE Served(rd_req) # "data" /\ Stores(rx_byte_valid)
  <2>1. ~Takes(Served(rd_req)) /\ rx_count < FifoDepth
    BY Zenon, <1>3 DEF Takes, Stores
  <2>2. RxStores
    BY Zenon, <1>1, <1>3, <2>1 DEF ReceiveFifo, LogTick, RxStores
  <2>3. QED
    BY <2>2
<1>4. CASE Served(rd_req) # "data" /\ ~Stores(rx_byte_valid)
  <2>1. ~Takes(Served(rd_req))
    BY Zenon, <1>4 DEF Takes
  <2>2. RxIdle
    BY Zenon, <1>1, <1>4, <2>1 DEF ReceiveFifo, LogTick, RxIdle
  <2>3. QED
    BY <2>2
<1>5. QED
  BY <1>2, <1>3, <1>4

LEMMA InitRxInv == Init => RxInv /\ ReceivesInOrder
<1> SUFFICES ASSUME Init PROVE RxInv /\ ReceivesInOrder
  OBVIOUS
<1>1. TypeInv
  BY InitTypeInv
<1>2. /\ rx_wr_ptr = 0 /\ rx_rd_ptr = 0 /\ rx_count = 0 /\ pc = "compute"
      /\ rx_byte_valid = FALSE /\ accepted = << >> /\ received = << >>
  BY Zenon DEF Init, UartInit
<1>3. (0 + 0) % FifoDepth = 0
  <2>1. 0 \in Index /\ 0 \in 0..FifoDepth /\ 0 + 0 < FifoDepth
    BY UartAssumption DEF Index
  <2>2. (0 + 0) % FifoDepth = 0 + 0
    BY <2>1, RingIndex
  <2>3. QED
    BY <2>2
<1>4. RxInv
  BY <1>2, <1>3 DEF RxInv, RxAligned, ReadsAByte, NoneCollides
<1>5. rx_fifo \in [Index -> RxByte] /\ rx_rd_ptr \in Index
  BY <1>1 DEF TypeInv, TypeOK, UartTypeOK
<1>6. Pending(rx_fifo, rx_rd_ptr, rx_count) = << >>
  BY Zenon, <1>2, <1>5, PendingNone
<1>7. << >> \o << >> = << >>
  BY EmptySeq, ConcatEmptySeq
<1>8. QED
  BY Zenon, <1>2, <1>4, <1>6, <1>7 DEF ReceivesInOrder

LEMMA RxGrouping ==
  ASSUME NEW x \in Seq(RxByte), NEW y \in Seq(RxByte), NEW z \in Seq(RxByte)
  PROVE  (x \o y) \o z = x \o (y \o z)
  BY ConcatAssociative

LEMMA RxAppend ==
  ASSUME NEW s \in Seq(RxByte), NEW x \in RxByte
  PROVE  <<x>> \in Seq(RxByte) /\ Append(s, x) = s \o <<x>>
<1>1. <<x>> \in Seq(RxByte)
  OBVIOUS
<1>2. Append(s, x) = s \o <<x>>
  BY AppendIsConcat
<1>3. QED
  BY <1>1, <1>2

LEMMA AppendToConcat ==
  ASSUME NEW s \in Seq(RxByte), NEW t \in Seq(RxByte), NEW x \in RxByte
  PROVE  Append(s \o t, x) = s \o Append(t, x)
<1>1. <<x>> \in Seq(RxByte) /\ s \o t \in Seq(RxByte)
  BY ConcatProperties
<1>2. Append(s \o t, x) = (s \o t) \o <<x>>
  BY Zenon, <1>1, RxAppend
<1>3. Append(t, x) = t \o <<x>>
  BY Zenon, RxAppend
<1>4. (s \o t) \o <<x>> = s \o (t \o <<x>>)
  BY <1>1, RxGrouping
<1>5. QED
  BY Zenon, <1>2, <1>3, <1>4

LEMMA AppendThenConcat ==
  ASSUME NEW s \in Seq(RxByte), NEW t \in Seq(RxByte), NEW x \in RxByte
  PROVE  Append(s, x) \o t = s \o (<<x>> \o t)
<1>1. <<x>> \in Seq(RxByte) /\ Append(s, x) = s \o <<x>>
  BY Zenon, RxAppend
<1>2. (s \o <<x>>) \o t = s \o (<<x>> \o t)
  BY <1>1, RxGrouping
<1>3. QED
  BY Zenon, <1>1, <1>2

LEMMA RxInvStep ==
  ASSUME TypeInv, RxInv, ReceivesInOrder, ~Collisions, [Next]_vars
  PROVE  RxInv' /\ ReceivesInOrder'
<1>1. /\ rx_fifo \in [Index -> RxByte] /\ rx_wr_ptr \in Index /\ rx_rd_ptr \in Index
      /\ rx_count \in 0..FifoDepth /\ rx_count \in Nat /\ rx_byte \in RxByte
      /\ accepted \in Seq(RxByte) /\ received \in Seq(RxByte)
      /\ FifoDepth \in Nat \ {0}
  BY UartAssumption DEF TypeInv, TypeOK, UartTypeOK
<1>2. rx_wr_ptr = (rx_rd_ptr + rx_count) % FifoDepth
  BY DEF RxInv, RxAligned
<1> DEFINE held == Pending(rx_fifo, rx_rd_ptr, rx_count)
<1>3. held \in Seq(RxByte) /\ accepted = received \o held
  BY <1>1, RxPendingType DEF ReceivesInOrder
<1>4. CASE Next
  <2>1. ReadsAByte' /\ NoneCollides'
    BY <1>4, ReadsAByteStep, NoneCollidesStep DEF RxInv
  <2>2. CASE RxStores
    <3>1. rx_count \in 0..FifoDepth - 1
      BY <1>1, <2>2 DEF RxStores
    <3>2. RxAligned'
      BY <1>1, <1>2, <2>2, <3>1, RingNext DEF RxStores, RxAligned
    <3>3. Pending(rx_fifo, rx_rd_ptr, rx_count)'
            = Append(Pending(rx_fifo, rx_rd_ptr, rx_count), rx_byte)
      <4>1. /\ rx_fifo' = [rx_fifo EXCEPT ![rx_wr_ptr] = rx_byte]
            /\ rx_rd_ptr' = rx_rd_ptr /\ rx_count' = rx_count + 1
        BY Zenon, <2>2 DEF RxStores
      <4>2. Pending(rx_fifo', rx_rd_ptr, rx_count')
              = Append(Pending(rx_fifo, rx_rd_ptr, rx_count), rx_byte)
        <5>1. /\ rx_fifo \in [Index -> RxByte] /\ rx_rd_ptr \in Index
              /\ rx_byte \in RxByte
          BY Zenon, <1>1
        <5>2. /\ rx_fifo' \in [Index -> RxByte]
              /\ rx_fifo'[rx_wr_ptr] = rx_byte
              /\ \A i \in Index : i # rx_wr_ptr => rx_fifo'[i] = rx_fifo[i]
          BY <1>1, <4>1
        <5>3. /\ rx_fifo'[(rx_rd_ptr + rx_count) % FifoDepth] = rx_byte
              /\ \A i \in Index : i # (rx_rd_ptr + rx_count) % FifoDepth
                                  => rx_fifo'[i] = rx_fifo[i]
          BY Zenon, <1>2, <5>2
        <5>4. rx_count' \in 1..FifoDepth
          BY <1>1, <3>1, <4>1
        <5>5. rx_fifo' \in [Index -> RxByte] /\ rx_count' = rx_count + 1
          BY Zenon, <4>1, <5>2
        <5>6. QED
          BY <3>1, <5>1, <5>3, <5>4, <5>5, PendingAppend
      <4>3. QED
        BY Zenon, <4>1, <4>2
    <3>4. accepted' = Append(accepted, rx_byte) /\ received' = received
      BY Zenon, <2>2 DEF RxStores
    <3>5. Append(received \o held, rx_byte) = received \o Append(held, rx_byte)
      <4> HIDE DEF held
      <4>1. /\ received \in Seq(RxByte) /\ held \in Seq(RxByte)
            /\ rx_byte \in RxByte
        BY Zenon, <1>1, <1>3
      <4>2. QED
        BY <4>1, AppendToConcat
    <3>6. ReceivesInOrder'
      BY Zenon, <1>3, <3>3, <3>4, <3>5 DEF ReceivesInOrder
    <3>7. QED
      BY Zenon, <2>1, <3>2, <3>6 DEF RxInv
  <2>3. CASE RxTakes
    <3>1. rx_count \in 1..FifoDepth /\ rx_count - 1 \in 0..FifoDepth - 1
          /\ (rx_count - 1) + 1 = rx_count
      BY <1>1, <2>3 DEF RxTakes
    <3>2. RxAligned'
      BY <1>1, <1>2, <2>3, <3>1, RingShift DEF RxTakes, RxAligned
    <3> DEFINE rest == Pending(rx_fifo, (rx_rd_ptr + 1) % FifoDepth, rx_count - 1)
               head == rx_fifo[rx_rd_ptr]
    <3>3. held = <<head>> \o rest
      BY <1>1, <3>1, PendingHead
    <3>4. rest \in Seq(RxByte) /\ head \in RxByte
      <4>1. (rx_rd_ptr + 1) % FifoDepth \in Index /\ rx_count - 1 \in 0..FifoDepth
        BY <1>1, <3>1, RingStep
      <4>2. QED
        BY <1>1, <4>1, PendingType
    <3>5. Pending(rx_fifo, rx_rd_ptr, rx_count)' = rest
      BY Zenon, <2>3 DEF RxTakes
    <3>6. accepted' = accepted /\ received' = Append(received, head)
      BY Zenon, <2>3 DEF RxTakes
    <3>7. Append(received, head) \o rest = received \o (<<head>> \o rest)
      <4> HIDE DEF rest, head
      <4>1. QED
        BY <1>1, <3>4, AppendThenConcat
    <3>8. ReceivesInOrder'
      BY Zenon, <1>3, <3>3, <3>5, <3>6, <3>7 DEF ReceivesInOrder
    <3>9. QED
      BY Zenon, <2>1, <3>2, <3>8 DEF RxInv
  <2>4. CASE RxIdle
    BY Zenon, <2>1, <2>4 DEF RxIdle, RxInv, RxAligned, ReceivesInOrder
  <2>5. QED
    BY <1>4, <2>2, <2>3, <2>4, RxCases DEF RxInv
<1>5. CASE UNCHANGED vars
  <2>1. UNCHANGED <<rx_fifo, rx_wr_ptr, rx_rd_ptr, rx_count, accepted, received, pc,
                    data_valid, rd_data, rx_byte_valid, direct, rd_req, buf_rd_req>>
    BY Zenon, <1>5
       DEF vars, uartVars, uartRxVars, lineVars, programVars, logVars
  <2>2. QED
    BY Zenon, <2>1 DEF RxInv, RxAligned, ReadsAByte, NoneCollides, Served, ReceivesInOrder
<1>6. QED
  BY <1>4, <1>5

(* The program reads the bytes that found room in the FIFO, in order, each *)
(* once; the rest is what the FIFO holds.                                  *)
THEOREM ReceivesInOrderAlways ==
  ASSUME ~Collisions
  PROVE  Spec => []ReceivesInOrder
<1>1. QED
  BY InitRxInv, RxInvStep, TypeInvAlways, PTL DEF Spec

-----------------------------------------------------------------------------
(* What the program writes.  At an edge the transmit FIFO is passed by,    *)
(* takes a byte, hands one over, or does neither.                          *)
TxLaunches ==
  /\ wr_req = "data" /\ ~busy /\ ~tx_wr_en /\ tx_count = 0
  /\ tx_wr_en' = TRUE /\ tx_wr_data' = wr_data
  /\ UNCHANGED <<tx_fifo, tx_wr_ptr, tx_rd_ptr, tx_count>>

TxEnqueues ==
  /\ wr_req = "data" /\ tx_count = 0
  /\ tx_wr_en' = FALSE
  /\ tx_fifo' = [tx_fifo EXCEPT ![tx_wr_ptr] = wr_data]
  /\ tx_wr_ptr' = (tx_wr_ptr + 1) % FifoDepth /\ tx_count' = tx_count + 1
  /\ UNCHANGED tx_rd_ptr

TxHands ==
  /\ wr_req # "data" /\ ~busy /\ tx_count = 1
  /\ tx_wr_en' = TRUE /\ tx_wr_data' = tx_fifo[tx_rd_ptr]
  /\ tx_rd_ptr' = (tx_rd_ptr + 1) % FifoDepth /\ tx_count' = tx_count - 1
  /\ UNCHANGED <<tx_fifo, tx_wr_ptr>>

TxIdle ==
  /\ wr_req # "data" /\ (busy \/ tx_count = 0)
  /\ tx_wr_en' = FALSE
  /\ UNCHANGED <<tx_fifo, tx_wr_ptr, tx_rd_ptr, tx_count>>

LEMMA TxCases ==
  ASSUME TypeInv, TxInv, Next
  PROVE  TxLaunches \/ TxEnqueues \/ TxHands \/ TxIdle
<1>1. TransmitFifo(wr_req, wr_data)
  BY EdgeFacts
<1>2. /\ busy \in BOOLEAN /\ direct \in BOOLEAN /\ tx_wr_en \in BOOLEAN
      /\ tx_count = 0 \/ tx_count = 1
  BY UartAssumption DEF TypeInv, TypeOK, UartTypeOK, TxInv
<1>3. 0 < FifoDepth
  BY UartAssumption
<1>4. wr_req = "data" => tx_count = 0
  BY DEF TxInv, AboutToWrite
<1>5. CASE wr_req = "data" /\ Launches(wr_req)
  <2>1. tx_count = 0 /\ ~Hands /\ ~Enqueues(wr_req) /\ ~busy /\ ~tx_wr_en
    BY Zenon, <1>4, <1>5 DEF Hands, Enqueues, Launches
  <2>2. TxLaunches
    BY Zenon, <1>1, <1>5, <2>1 DEF TransmitFifo, TxLaunches
  <2>3. QED
    BY <2>2
<1>6. CASE wr_req = "data" /\ ~Launches(wr_req)
  <2>1. tx_count = 0 /\ ~Hands /\ Enqueues(wr_req)
    BY Zenon, <1>3, <1>4, <1>6 DEF Hands, Enqueues
  <2>2. TxEnqueues
    BY Zenon, <1>1, <1>6, <2>1 DEF TransmitFifo, TxEnqueues
  <2>3. QED
    BY <2>2
<1>7. CASE wr_req # "data" /\ Hands
  <2>1. ~Launches(wr_req) /\ ~Enqueues(wr_req) /\ ~busy /\ tx_count # 0
    BY Zenon, <1>7 DEF Launches, Enqueues, Hands
  <2>2. TxHands
    BY Zenon, <1>1, <1>2, <1>7, <2>1 DEF TransmitFifo, TxHands
  <2>3. QED
    BY <2>2
<1>8. CASE wr_req # "data" /\ ~Hands
  <2>1. ~Launches(wr_req) /\ ~Enqueues(wr_req) /\ (busy \/ tx_count = 0)
    BY Zenon, <1>8 DEF Launches, Enqueues, Hands
  <2>2. TxIdle
    BY Zenon, <1>1, <1>8, <2>1 DEF TransmitFifo, TxIdle
  <2>3. QED
    BY <2>2
<1>9. QED
  BY <1>5, <1>6, <1>7, <1>8

(* A program that is about to write was about to write before, or it reads *)
(* at this edge that no frame is being sent.                               *)
LEMMA AboutToWriteStep ==
  ASSUME TypeInv, TxInv, Next, AboutToWrite'
  PROVE  wr_req = "none" /\ (AboutToWrite \/ ~busy)
<1>1. /\ data_valid' = (Served(rd_req) # "none")
      /\ Served(rd_req) = "status" => rd_data' = Status
  BY Zenon, EdgeFacts DEF ReadPort
<1>2. /\ wr_req \in {"none", "data", "clear"}
      /\ wr_req # "none" => pc = "compute"
      /\ data_valid \in BOOLEAN /\ busy \in BOOLEAN
  BY DEF TypeInv, TypeOK, UartTypeOK, BusInv
<1>3. pc # "fill_status"
  BY DEF TxInv
<1>4. Status.busy = BusyBit
  BY DEF Status
<1>5. CASE pc' = "put_status" /\ data_valid' /\ ~rd_data'.busy
  <2>1. Served(rd_req) = "status"
    <3>1. Served(rd_req) # "none"
      BY <1>1, <1>5
    <3>2. ASSUME Served(rd_req) = "data"
          PROVE  FALSE
      <4>1. pc = "get_data" /\ ~data_valid
        BY <3>2, ServedFacts
      <4>2. WaitForBus
        BY <4>1, EdgeFacts, ProgramCases
           DEF Compute, PollStatus, SeeStatus, ReadData, SeeData, WriteData
      <4>3. pc' = pc
        BY Zenon, <4>2 DEF WaitForBus
      <4>4. QED
        BY <1>5, <4>1, <4>3
    <3>3. QED
      BY <3>1, <3>2, ServedFacts DEF Registers
  <2>2. ~BusyBit
    BY Zenon, <1>1, <1>4, <1>5, <2>1
  <2>3. ~busy
    BY Zenon, <2>2 DEF BusyBit
  <2>4. pc # "compute"
    BY <2>1, ServedFacts DEF Waiting
  <2>5. QED
    BY <1>2, <2>3, <2>4
<1>6. CASE pc' = "put_write"
  <2>1. \/ pc' = pc
        \/ pc = "put_status" /\ data_valid /\ ~rd_data.busy
    BY <1>3, <1>6, EdgeFacts, ProgramCases
       DEF WaitForBus, Compute, PollStatus, SeeStatus, ReadData, SeeData, WriteData
  <2>2. AboutToWrite /\ pc # "compute"
    BY <1>6, <2>1 DEF AboutToWrite
  <2>3. QED
    BY <1>2, <2>2
<1>7. CASE wr_req' = "data"
  <2>1. WriteData
    BY <1>7, EdgeFacts, ProgramCases
       DEF WaitForBus, Compute, PollStatus, SeeStatus, ReadData, SeeData, Bus
  <2>2. pc = "put_write"
    BY Zenon, <2>1 DEF WriteData
  <2>3. QED
    BY <1>2, <2>2 DEF AboutToWrite
<1>8. QED
  BY <1>5, <1>6, <1>7 DEF AboutToWrite

LEMMA InitTxInv == Init => TxInv
<1> SUFFICES ASSUME Init PROVE TxInv
  OBVIOUS
<1>1. /\ tx_wr_ptr = 0 /\ tx_rd_ptr = 0 /\ tx_count = 0 /\ pc = "compute"
      /\ tx_wr_en = FALSE
  BY Zenon DEF Init, UartInit
<1>2. (0 + 0) % FifoDepth = 0
  <2>1. 0 \in Index /\ 0 \in 0..FifoDepth /\ 0 + 0 < FifoDepth
    BY UartAssumption DEF Index
  <2>2. (0 + 0) % FifoDepth = 0 + 0
    BY <2>1, RingIndex
  <2>3. QED
    BY <2>2
<1>3. QED
  BY <1>1, <1>2 DEF TxInv, TxAligned

LEMMA TxInvStep ==
  ASSUME TypeInv, TxInv, "FILL" \notin UartCalls, [Next]_vars
  PROVE  TxInv'
<1>1. /\ tx_wr_ptr \in Index /\ tx_rd_ptr \in Index /\ FifoDepth \in Nat \ {0}
      /\ tx_count = 0 \/ tx_count = 1
      /\ 0 \in 0..FifoDepth - 1 /\ 1 \in 0..FifoDepth /\ 0 \in 0..FifoDepth
  BY UartAssumption DEF TypeInv, TypeOK, UartTypeOK, TxInv
<1>2. tx_wr_ptr = (tx_rd_ptr + tx_count) % FifoDepth
  BY DEF TxInv, TxAligned
<1>3. CASE Next
  <2>1. pc' \notin {"fill_poll", "fill_status"}
    <3>1. pc \notin {"fill_poll", "fill_status"}
      BY DEF TxInv
    <3>2. QED
      BY <3>1, <1>3, EdgeFacts, ProgramCases
         DEF WaitForBus, Compute, PollStatus, SeeStatus, ReadData, SeeData, WriteData
  <2>2. tx_count' \in {0, 1}
    <3>1. \/ tx_count' = tx_count
          \/ tx_count = 0 /\ tx_count' = tx_count + 1
          \/ tx_count = 1 /\ tx_count' = tx_count - 1
      BY Zenon, <1>3, TxCases DEF TxLaunches, TxEnqueues, TxHands, TxIdle
    <3>2. QED
      BY <1>1, <3>1
  <2>3. TxAligned'
    <3>1. CASE TxLaunches \/ TxIdle
      BY Zenon, <1>2, <3>1 DEF TxLaunches, TxIdle, TxAligned
    <3>2. CASE TxEnqueues
      <4>1. /\ tx_wr_ptr' = (tx_wr_ptr + 1) % FifoDepth /\ tx_rd_ptr' = tx_rd_ptr
            /\ tx_count' = 0 + 1 /\ tx_wr_ptr = (tx_rd_ptr + 0) % FifoDepth
        BY Zenon, <1>2, <3>2 DEF TxEnqueues
      <4>2. (((tx_rd_ptr + 0) % FifoDepth) + 1) % FifoDepth
              = (tx_rd_ptr + (0 + 1)) % FifoDepth
        BY <1>1, RingNext
      <4>3. QED
        BY Zenon, <4>1, <4>2 DEF TxAligned
    <3>3. CASE TxHands
      <4>1. /\ tx_rd_ptr' = (tx_rd_ptr + 1) % FifoDepth /\ tx_wr_ptr' = tx_wr_ptr
            /\ tx_wr_ptr = (tx_rd_ptr + 1) % FifoDepth
        BY Zenon, <1>2, <3>3 DEF TxHands
      <4>2. tx_count' = 0
        BY <3>3 DEF TxHands
      <4>3. (((tx_rd_ptr + 1) % FifoDepth) + 0) % FifoDepth
              = (tx_rd_ptr + (0 + 1)) % FifoDepth
        BY <1>1, RingShift
      <4>4. 0 + 1 = 1
        OBVIOUS
      <4>5. QED
        BY Zenon, <4>1, <4>2, <4>3, <4>4 DEF TxAligned
    <3>4. QED
      BY <1>3, <3>1, <3>2, <3>3, TxCases
  <2>4. AboutToWrite' => tx_count' = 0
    <3>1. SUFFICES ASSUME AboutToWrite' PROVE tx_count' = 0
      OBVIOUS
    <3>2. wr_req = "none" /\ (AboutToWrite \/ ~busy)
      BY <1>3, <3>1, AboutToWriteStep
    <3>3. tx_count = 0 \/ ~busy
      BY <3>2 DEF TxInv
    <3>4. TxHands \/ TxIdle
      BY <1>3, <3>2, TxCases DEF TxLaunches, TxEnqueues
    <3>5. QED
      BY <1>1, <3>3, <3>4 DEF TxHands, TxIdle
  <2>5. tx_wr_en' => ~busy' /\ tx_count' = 0
    <3>1. SUFFICES ASSUME tx_wr_en' PROVE ~busy' /\ tx_count' = 0
      OBVIOUS
    <3>2. TxLaunches \/ TxHands
      BY <1>3, <3>1, TxCases DEF TxEnqueues, TxIdle
    <3>3. ~busy /\ ~tx_wr_en
      BY <3>2 DEF TxLaunches, TxHands, TxInv
    <3>4. ~busy'
      BY Zenon, <1>3, <3>3, EdgeFacts DEF TransmitterTick
    <3>5. tx_count' = 0
      BY <3>2 DEF TxLaunches, TxHands
    <3>6. QED
      BY <3>4, <3>5
  <2>6. QED
    BY Zenon, <2>1, <2>2, <2>3, <2>4, <2>5 DEF TxInv
<1>4. CASE UNCHANGED vars
  <2>1. UNCHANGED <<tx_wr_ptr, tx_rd_ptr, tx_count, tx_wr_en, busy, pc, data_valid,
                    rd_data, wr_req>>
    BY Zenon, <1>4 DEF vars, uartVars, uartTxVars, programVars
  <2>2. QED
    BY Zenon, <2>1 DEF TxInv, TxAligned, AboutToWrite
<1>5. QED
  BY <1>3, <1>4

-----------------------------------------------------------------------------
(* The stages a byte passes, as sequences of at most one byte.             *)
LEMMA IfType ==
  ASSUME NEW S, NEW b \in BOOLEAN, NEW x \in S
  PROVE  If(b, x) \in Seq(S)
  BY DEF If

LEMMA PendingOne ==
  ASSUME NEW S, NEW f \in [Index -> S], NEW p \in Index
  PROVE  Pending(f, p, 1) = <<f[p]>>
<1>1. 1 \in 1..FifoDepth /\ 1 - 1 = 0
  BY UartAssumption
<1>2. Pending(f, p, 1) = <<f[p]>> \o Pending(f, (p + 1) % FifoDepth, 0)
  BY <1>1, PendingHead
<1>3. (p + 1) % FifoDepth \in Index /\ f[p] \in S
  BY RingStep
<1>4. Pending(f, (p + 1) % FifoDepth, 0) = << >>
  BY <1>3, PendingNone
<1>5. <<f[p]>> \in Seq(S)
  BY <1>3
<1>6. <<f[p]>> \o << >> = <<f[p]>>
  BY <1>5, ConcatEmptySeq
<1>7. QED
  BY Zenon, <1>2, <1>4, <1>6

(* The numbers of the bytes written.                                       *)
Numbers(n) == [i \in 1..n |-> i]

LEMMA NumbersType ==
  ASSUME NEW n \in 0..MaxSent
  PROVE  Numbers(n) \in Seq(TxByte) /\ Len(Numbers(n)) = n
<1>1. n \in Nat /\ \A i \in 1..n : i \in TxByte
  BY UartAssumption DEF TxByte
<1>2. Numbers(n) \in [1..n -> TxByte]
  BY <1>1 DEF Numbers
<1> HIDE DEF Numbers
<1>3. QED
  BY <1>1, <1>2, IsASeq, SeqDef, LenProperties

LEMMA NumbersNext ==
  ASSUME NEW n \in 0..MaxSent, n < MaxSent
  PROVE  Numbers(n + 1) = Numbers(n) \o <<n + 1>>
<1> DEFINE m == n + 1
           r == Numbers(m)
           q == Append(Numbers(n), m)
<1>1. n \in Nat /\ m \in 0..MaxSent /\ m \in TxByte
  BY UartAssumption DEF TxByte
<1>2. r \in Seq(TxByte) /\ Len(r) = m
  BY <1>1, NumbersType
<1>3. Numbers(n) \in Seq(TxByte) /\ Len(Numbers(n)) = n
  BY NumbersType
<1>4. /\ q \in Seq(TxByte) /\ Len(q) = n + 1
      /\ \A i \in 1..n : q[i] = Numbers(n)[i]
      /\ q[n + 1] = m
  BY <1>1, <1>3, AppendProperties
<1>5. ASSUME NEW i \in 1..m PROVE r[i] = q[i]
  <2>1. r[i] = i
    BY DEF Numbers
  <2>2. CASE i = n + 1
    BY <1>4, <2>1, <2>2
  <2>3. CASE i # n + 1
    <3>1. i \in 1..n
      BY <1>1, <2>3
    <3>2. Numbers(n)[i] = i
      BY <3>1 DEF Numbers
    <3>3. QED
      BY <1>4, <2>1, <3>1, <3>2
  <2>4. QED
    BY <2>2, <2>3
<1>6. q = Numbers(n) \o <<m>>
  BY <1>1, <1>3, AppendIsConcat
<1> HIDE DEF q, r
<1>7. r = q
  BY <1>2, <1>4, <1>5, SeqEqual
<1>8. QED
  BY <1>6, <1>7 DEF r

Frame   == If(busy, tx_byte)
Start   == If(tx_wr_en, tx_wr_data)
Queued  == Pending(tx_fifo, tx_rd_ptr, tx_count)
OnBus   == If(wr_req = "data", wr_data)

LEMMA StageTypes ==
  ASSUME TypeInv
  PROVE  /\ transmitted \in Seq(TxByte) /\ Frame \in Seq(TxByte) /\ Start \in Seq(TxByte)
         /\ Queued \in Seq(TxByte) /\ OnBus \in Seq(TxByte)
<1>1. /\ transmitted \in Seq(TxByte) /\ busy \in BOOLEAN /\ tx_byte \in TxByte
      /\ tx_wr_en \in BOOLEAN /\ tx_wr_data \in TxByte /\ wr_data \in TxByte
  BY DEF TypeInv, TypeOK, UartTypeOK
<1>2. /\ tx_fifo \in [Index -> TxByte] /\ tx_rd_ptr \in Index /\ tx_count \in 0..FifoDepth
  BY DEF TypeInv, TypeOK, UartTypeOK
<1>3. Queued \in Seq(TxByte)
  BY <1>2, PendingType DEF Queued
<1>4. Frame \in Seq(TxByte) /\ Start \in Seq(TxByte)
  BY <1>1, IfType DEF Frame, Start
<1>5. (wr_req = "data") \in BOOLEAN
  OBVIOUS
<1>6. OnBus \in Seq(TxByte)
  BY <1>1, <1>5, IfType DEF OnBus
<1>7. QED
  BY <1>1, <1>3, <1>4, <1>6

(* uart_tx: the byte in the frame is sent, the byte handed over enters it. *)
LEMMA FrameStep ==
  ASSUME TypeInv, TxInv, Next
  PROVE  transmitted' \o Frame' = (transmitted \o Frame) \o Start
<1>1. /\ transmitted \in Seq(TxByte) /\ tx_byte \in TxByte /\ tx_wr_data \in TxByte
      /\ busy \in BOOLEAN /\ tx_wr_en \in BOOLEAN
      /\ tx_wr_en => ~busy
  BY DEF TypeInv, TypeOK, UartTypeOK, TxInv
<1>2. /\ busy' = IF busy THEN ~EndsFrame ELSE tx_wr_en
      /\ tx_byte' = IF ~busy /\ tx_wr_en THEN tx_wr_data ELSE tx_byte
      /\ transmitted' = IF EndsFrame THEN Append(transmitted, tx_byte) ELSE transmitted
  BY Zenon, EdgeFacts DEF TransmitterTick, LogTick
<1>3. EndsFrame => busy
  BY Zenon DEF EndsFrame
<1>4. /\ <<tx_byte>> \in Seq(TxByte) /\ transmitted \o <<tx_byte>> \in Seq(TxByte)
      /\ << >> \in Seq(TxByte)
  BY <1>1, ConcatProperties, EmptySeq
<1>5. CASE busy
  <2>1. Frame = <<tx_byte>> /\ Start = << >>
    BY Zenon, <1>1, <1>5 DEF Frame, Start, If
  <2>2. (transmitted \o Frame) \o Start = transmitted \o <<tx_byte>>
    <3>1. (transmitted \o <<tx_byte>>) \o << >> = transmitted \o <<tx_byte>>
      BY <1>4, ConcatEmptySeq
    <3>2. QED
      BY Zenon, <2>1, <3>1
  <2>3. CASE EndsFrame
    <3>1. Frame' = << >> /\ transmitted' = Append(transmitted, tx_byte)
      BY Zenon, <1>2, <1>5, <2>3 DEF Frame, If
    <3>2. Append(transmitted, tx_byte) \o << >> = transmitted \o <<tx_byte>>
      <4>1. Append(transmitted, tx_byte) = transmitted \o <<tx_byte>>
        BY <1>1, AppendIsConcat
      <4>2. (transmitted \o <<tx_byte>>) \o << >> = transmitted \o <<tx_byte>>
        BY <1>4, ConcatEmptySeq
      <4>3. QED
        BY Zenon, <4>1, <4>2
    <3>3. QED
      BY Zenon, <2>2, <3>1, <3>2
  <2>4. CASE ~EndsFrame
    <3>1. Frame' = <<tx_byte>> /\ transmitted' = transmitted
      BY Zenon, <1>2, <1>5, <2>4 DEF Frame, If
    <3>2. QED
      BY Zenon, <2>2, <3>1
  <2>5. QED
    BY <2>3, <2>4
<1>6. CASE ~busy
  <2>1. Frame = << >> /\ transmitted' = transmitted
    BY Zenon, <1>2, <1>3, <1>6 DEF Frame, If
  <2>2. transmitted \o << >> = transmitted
    BY <1>1, ConcatEmptySeq
  <2>3. Frame' = Start
    <3>1. CASE tx_wr_en
      BY Zenon, <1>2, <1>6, <3>1 DEF Frame, Start, If
    <3>2. CASE ~tx_wr_en
      BY Zenon, <1>2, <1>6, <3>2 DEF Frame, Start, If
    <3>3. QED
      BY <3>1, <3>2
  <2>4. QED
    BY Zenon, <2>1, <2>2, <2>3
<1>7. QED
  BY <1>5, <1>6

(* The FIFO: what it holds or is given is handed over or stays in it.      *)
LEMMA FifoStep ==
  ASSUME TypeInv, TypeInv', TxInv, Next
  PROVE  Start' \o Queued' = Queued \o OnBus
<1>1. /\ tx_fifo \in [Index -> TxByte] /\ tx_rd_ptr \in Index /\ tx_wr_ptr \in Index
      /\ wr_data \in TxByte
  BY DEF TypeInv, TypeOK, UartTypeOK
<1>2. tx_fifo' \in [Index -> TxByte] /\ tx_rd_ptr' \in Index
  BY DEF TypeInv, TypeOK, UartTypeOK
<1>3. Queued \in Seq(TxByte)
  BY StageTypes
<1>4. tx_count = 0 => Queued = << >>
  BY Zenon, <1>1, PendingNone DEF Queued
<1>5. tx_count' = 0 => Queued' = << >>
  BY Zenon, <1>2, PendingNone DEF Queued
<1>6. <<wr_data>> \in Seq(TxByte)
  BY <1>1
<1>7. << >> \o <<wr_data>> = <<wr_data>> /\ <<wr_data>> \o << >> = <<wr_data>>
  BY <1>6, ConcatEmptySeq
<1>8. CASE TxLaunches
  <2>1. Queued = << >> /\ Queued' = << >>
    BY Zenon, <1>4, <1>5, <1>8 DEF TxLaunches
  <2>2. OnBus = <<wr_data>> /\ Start' = <<wr_data>>
    BY Zenon, <1>8 DEF TxLaunches, OnBus, Start, If
  <2>3. QED
    BY Zenon, <1>7, <2>1, <2>2
<1>9. CASE TxEnqueues
  <2>1. Queued = << >> /\ OnBus = <<wr_data>> /\ Start' = << >>
    BY Zenon, <1>4, <1>9 DEF TxEnqueues, OnBus, Start, If
  <2>2. tx_count' = 1
    BY <1>9 DEF TxEnqueues
  <2>3. tx_wr_ptr = tx_rd_ptr
    <3>1. tx_wr_ptr = (tx_rd_ptr + 0) % FifoDepth
      BY Zenon, <1>9 DEF TxEnqueues, TxInv, TxAligned
    <3>2. 0 \in 0..FifoDepth /\ tx_rd_ptr + 0 = tx_rd_ptr /\ tx_rd_ptr < FifoDepth
      BY <1>1, UartAssumption DEF Index
    <3>3. QED
      BY <1>1, <3>1, <3>2, RingIndex
  <2>4. tx_fifo'[tx_rd_ptr'] = wr_data
    BY <1>1, <1>9, <2>3 DEF TxEnqueues
  <2>5. Queued' = <<tx_fifo'[tx_rd_ptr']>>
    BY Zenon, <1>2, <2>2, PendingOne DEF Queued
  <2>6. QED
    BY Zenon, <1>7, <2>1, <2>4, <2>5
<1>10. CASE TxHands
  <2>1. OnBus = << >> /\ Start' = <<tx_fifo[tx_rd_ptr]>>
    BY Zenon, <1>10 DEF TxHands, OnBus, Start, If
  <2>2. tx_count' = 0
    BY <1>10 DEF TxHands
  <2>3. Queued = <<tx_fifo[tx_rd_ptr]>>
    BY Zenon, <1>1, <1>10, PendingOne DEF TxHands, Queued
  <2>4. QED
    BY Zenon, <1>5, <2>1, <2>2, <2>3
<1>11. CASE TxIdle
  <2>1. OnBus = << >> /\ Start' = << >> /\ Queued' = Queued
    BY Zenon, <1>11 DEF TxIdle, OnBus, Start, If, Queued
  <2>2. << >> \o Queued = Queued /\ Queued \o << >> = Queued
    BY <1>3, ConcatEmptySeq
  <2>3. QED
    BY Zenon, <2>1, <2>2
<1>12. QED
  BY <1>8, <1>9, <1>10, <1>11, TxCases

(* The program: a byte it writes is the next number.                       *)
LEMMA ProgramWrites ==
  ASSUME TypeInv, Next
  PROVE  Numbers(written') = Numbers(written) \o OnBus'
<1>1. written \in 0..MaxSent /\ (pc \in Writing => written < MaxSent)
  BY DEF TypeInv, TypeOK, TxByte, WriteInv
<1>2. Numbers(written) \in Seq(TxByte)
  BY <1>1, NumbersType
<1>3. CASE WriteData
  <2>1. /\ written' = written + 1 /\ wr_req' = "data" /\ wr_data' = written + 1
        /\ pc = "put_write"
    BY Zenon, <1>3 DEF WriteData, Bus
  <2>2. written < MaxSent
    BY <1>1, <2>1 DEF Writing
  <2>3. Numbers(written + 1) = Numbers(written) \o <<written + 1>>
    BY <1>1, <2>2, NumbersNext
  <2>4. OnBus' = <<written + 1>>
    BY Zenon, <2>1 DEF OnBus, If
  <2>5. QED
    BY Zenon, <2>1, <2>3, <2>4
<1>4. CASE ~WriteData
  <2>1. written' = written /\ wr_req' # "data"
    BY <1>4, EdgeFacts, ProgramCases
       DEF WaitForBus, Compute, PollStatus, SeeStatus, ReadData, SeeData, Bus
  <2>2. OnBus' = << >>
    BY Zenon, <2>1 DEF OnBus, If
  <2>3. Numbers(written) \o << >> = Numbers(written)
    BY <1>2, ConcatEmptySeq
  <2>4. QED
    BY Zenon, <2>1, <2>2, <2>3
<1>5. QED
  BY <1>3, <1>4

LEMMA Grouping ==
  ASSUME NEW x \in Seq(TxByte), NEW y \in Seq(TxByte), NEW z \in Seq(TxByte)
  PROVE  (x \o y) \o z = x \o (y \o z)
  BY ConcatAssociative

OnTheirWay == transmitted \o Frame \o Start \o Queued \o OnBus

LEMMA OnTheirWayStep ==
  ASSUME TypeInv, TypeInv', TxInv, Next
  PROVE  OnTheirWay' = OnTheirWay \o OnBus'
<1> DEFINE f == (transmitted \o Frame) \o Start
<1>1. /\ Queued \in Seq(TxByte) /\ OnBus \in Seq(TxByte) /\ f \in Seq(TxByte)
  BY StageTypes, ConcatProperties
<1>2. /\ Start' \in Seq(TxByte) /\ Queued' \in Seq(TxByte)
  <2>1. /\ tx_wr_en' \in BOOLEAN /\ tx_wr_data' \in TxByte /\ tx_count' \in 0..FifoDepth
        /\ tx_fifo' \in [Index -> TxByte] /\ tx_rd_ptr' \in Index
    BY DEF TypeInv, TypeOK, UartTypeOK
  <2>2. Start' \in Seq(TxByte)
    BY <2>1, IfType DEF Start
  <2>3. Queued' \in Seq(TxByte)
    BY <2>1, PendingType DEF Queued
  <2>4. QED
    BY <2>2, <2>3
<1>3. transmitted' \o Frame' = f
  BY FrameStep
<1>4. Start' \o Queued' = Queued \o OnBus
  BY FifoStep
<1> HIDE DEF f
<1>5. (f \o Start') \o Queued' = (f \o Queued) \o OnBus
  <2>1. (f \o Start') \o Queued' = f \o (Start' \o Queued')
    BY <1>1, <1>2, Grouping
  <2>2. (f \o Queued) \o OnBus = f \o (Queued \o OnBus)
    BY <1>1, Grouping
  <2>3. QED
    BY Zenon, <1>4, <2>1, <2>2
<1>6. OnTheirWay = (f \o Queued) \o OnBus
  BY Zenon DEF OnTheirWay, f
<1>7. OnTheirWay' = ((f \o Start') \o Queued') \o OnBus'
  BY Zenon, <1>3 DEF OnTheirWay
<1>8. QED
  BY Zenon, <1>5, <1>6, <1>7

SendsInv == TxInv /\ SendsInOrder

(* Every byte written is sent, in order, by a program that looks at bit 1  *)
(* of the status, as UAOPUTC and uart_echo.c do: none is overtaken in the  *)
(* FIFO, and none is handed over before uart_tx is idle.                   *)
THEOREM SendsInOrderAlways ==
  ASSUME "FILL" \notin UartCalls
  PROVE  Spec => []SendsInOrder
<1>1. SendsInOrder <=> Numbers(written) = OnTheirWay
  BY Zenon DEF SendsInOrder, Numbers, OnTheirWay, Frame, Start, Queued, OnBus
<1>2. ASSUME Init
      PROVE  SendsInOrder
  <2>1. TypeInv
    BY <1>2, InitTypeInv
  <2>2. /\ transmitted = << >> /\ busy = FALSE /\ tx_wr_en = FALSE /\ tx_count = 0
        /\ wr_req = "none" /\ written = 0
    BY Zenon, <1>2 DEF Init, UartInit
  <2>3. /\ Frame = << >> /\ Start = << >> /\ OnBus = << >>
    BY Zenon, <2>2 DEF Frame, Start, OnBus, If
  <2>4. Queued = << >>
    BY <2>1, <2>2, PendingNone DEF TypeInv, TypeOK, UartTypeOK, Queued
  <2>5. << >> \o << >> = << >>
    BY EmptySeq, ConcatEmptySeq
  <2>6. OnTheirWay = << >>
    BY Zenon, <2>2, <2>3, <2>4, <2>5 DEF OnTheirWay
  <2>7. Numbers(written) = << >>
    <3>1. Numbers(0) \in Seq(TxByte) /\ Len(Numbers(0)) = 0
      BY UartAssumption, NumbersType
    <3>2. QED
      BY <2>2, <3>1, EmptySeq
  <2>8. QED
    BY Zenon, <1>1, <2>6, <2>7
<1>3. ASSUME TypeInv, TypeInv', SendsInv, [Next]_vars
      PROVE  SendsInv'
  <2>1. TxInv'
    BY <1>3, TxInvStep DEF SendsInv
  <2>2. CASE Next
    <3>1. OnTheirWay' = OnTheirWay \o OnBus'
      BY <1>3, <2>2, OnTheirWayStep DEF SendsInv
    <3>2. Numbers(written') = Numbers(written) \o OnBus'
      BY <1>3, <2>2, ProgramWrites
    <3>3. Numbers(written) = OnTheirWay
      BY Zenon, <1>1, <1>3 DEF SendsInv
    <3>4. Numbers(written') = OnTheirWay'
      BY Zenon, <3>1, <3>2, <3>3
    <3>5. SendsInOrder'
      BY Zenon, <3>4 DEF SendsInOrder, Numbers, OnTheirWay, Frame, Start, Queued, OnBus
    <3>6. QED
      BY Zenon, <2>1, <3>5 DEF SendsInv
  <2>3. CASE UNCHANGED vars
    <3>1. UNCHANGED <<transmitted, busy, tx_byte, tx_wr_en, tx_wr_data, tx_fifo, tx_rd_ptr,
                      tx_count, wr_req, wr_data, written>>
      BY Zenon, <2>3 DEF vars, uartVars, uartTxVars, programVars, logVars
    <3>2. SendsInOrder'
      BY Zenon, <1>3, <3>1 DEF SendsInv, SendsInOrder
    <3>3. QED
      BY Zenon, <2>1, <3>2 DEF SendsInv
  <2>4. QED
    BY <1>3, <2>2, <2>3
<1>4. Init => SendsInv
  BY <1>2, InitTxInv DEF SendsInv
<1>5. SendsInv => SendsInOrder
  BY DEF SendsInv
<1>6. QED
  BY <1>3, <1>4, <1>5, TypeInvAlways, PTL DEF Spec

=============================================================================
