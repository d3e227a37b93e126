-------------------------- MODULE CometLink_proofs --------------------------
(***************************************************************************)
(* Theorems about CometLink, for every value of its constants.             *)
(***************************************************************************)
EXTENDS CometLink, SequenceTheorems, TLAPS

(* A remainder is a valid slot, or a valid address.                        *)
LEMMA ModRange ==
  ASSUME NEW d \in Nat \ {0}, NEW x \in Nat
  PROVE  x % d \in 0..d - 1
  OBVIOUS

(* A supervisor call is begun only while the bound on words leaves room.   *)
RoomToSend ==
  cpu_pc \in {"putc_poll", "putc_send", "getc_poll", "getc_send"} => written < MaxWords

TypeInv == TypeOK /\ RoomToSend

(* What reaches the slave at an edge: nothing, or the packet on the wire.  *)
LEMMA EndedType ==
  ASSUME TypeOK
  PROVE  /\ Ended # NoPacket => Ended \in Packet /\ Ended.id > 0
         /\ Ended # NoPacket => left = 1
  BY NoPacketAssumption DEF TypeOK, Ended

LEMMA SlaveTypeStep ==
  ASSUME TypeOK, Next
  PROVE  SlaveTypeOK'
<1>1. PICK p : /\ p = Ended
               /\ Receive(p, rd_ack)
               /\ Transmit(p, left = 0, wr_en, spi_module_wr_data)
  BY Zenon DEF Next, Tick, SlaveTick
<1>2. SlaveTypeOK /\ MmTypeOK
  BY DEF TypeOK
<1>3. p # NoPacket => p \in Packet
  BY <1>1, EndedType
<1>4. \A x \in Nat : x % Depth \in Slot
  BY ModRange, DepthAssumption DEF Slot
<1>5. 0 \in Slot
  BY DepthAssumption DEF Slot
<1>6. SessionWrPtr \in Slot
  BY <1>4, <1>5 DEF SessionWrPtr
<1>7. /\ (rx_fifo_wr_ptr + 1) % Depth \in Slot
      /\ (rx_fifo_rd_ptr + 1) % Depth \in Slot
  <2>1. rx_fifo_wr_ptr + 1 \in Nat /\ rx_fifo_rd_ptr + 1 \in Nat
    BY <1>2, DepthAssumption DEF SlaveTypeOK, Slot
  <2>2. QED
    BY <2>1, <1>4
<1>8. state_rd' \in {"INIT", "RD_WAIT_DATA"}
  BY <1>1, <1>2 DEF Receive, SlaveTypeOK
<1>9. rx_fifo' \in [Slot -> Packet]
  BY <1>1, <1>2, <1>3 DEF Receive, SlaveTypeOK, OpensSession, Queues
<1>10. rx_fifo_wr_ptr' \in Slot
  BY <1>1, <1>2, <1>6, <1>7 DEF Receive, SlaveTypeOK
<1>11. rx_fifo_rd_ptr' \in Slot
  BY <1>1, <1>2, <1>5, <1>7 DEF Receive, SlaveTypeOK
<1>12. rx_fifo_count' \in 0..Depth
  BY <1>1, <1>2, DepthAssumption DEF Receive, SlaveTypeOK, Pops, Queues
<1>13. rd_data' \in Packet
  BY <1>1, <1>2, <1>3, <1>7 DEF Receive, SlaveTypeOK, OpensSession, Queues
<1>14. rd_data_available' \in BOOLEAN /\ buffer_rd_ack' \in BOOLEAN
  <2>1. (rx_fifo_count > 1) \in BOOLEAN
    BY <1>2 DEF SlaveTypeOK
  <2>2. rd_data_available' \in BOOLEAN
    BY Zenon, <1>1, <1>2, <2>1 DEF Receive, SlaveTypeOK
  <2>3. buffer_rd_ack' \in BOOLEAN
    BY Zenon, <1>1 DEF Receive
  <2>4. QED
    BY <2>2, <2>3
<1>15. wr_reg_full' \in BOOLEAN /\ wr_queue_full' \in BOOLEAN
  BY <1>1 DEF Transmit
<1>16. wr_data_reg' \in Word /\ wr_data_queue' \in Word
  BY <1>1, <1>2, BoundAssumption DEF Transmit, SlaveTypeOK, MmTypeOK, Word
<1>17. QED
  BY <1>8, <1>9, <1>10, <1>11, <1>12, <1>13, <1>14, <1>15, <1>16 DEF SlaveTypeOK

LEMMA MmTypeStep ==
  ASSUME TypeOK, Next
  PROVE  MmTypeOK'
<1>1. MmTick(spi_wr_req, spi_wr_data, spi_firm_ack, spi_cpu_start_ack, spi_cpu_init_ack)
  BY DEF Next, Tick
<1>2. SlaveTypeOK /\ MmTypeOK /\ TopTypeOK
  BY DEF TypeOK
<1>3. QED
  BY <1>1, <1>2 DEF MmTick, MmTypeOK, SlaveTypeOK, TopTypeOK, Packet

LEMMA TopTypeStep ==
  ASSUME TypeOK, Next
  PROVE  TopTypeOK'
<1>1. LoaderTick /\ BusTick(write_req, 0, write_data)
  BY DEF Next, Tick, TopTick
<1>2. TopTypeOK /\ MmTypeOK /\ write_data \in Word
  BY DEF TypeOK
<1>3. (counter_firmware_address + 1) % AddrSpace \in Address
  BY <1>2, ModRange, AddrSpaceAssumption DEF TopTypeOK, Address
<1>4. 0 \in Address
  BY AddrSpaceAssumption DEF Address
<1>5. /\ state' \in LoaderStates
      /\ counter_firmware_address' \in Address
      /\ spi_firm_ack' \in BOOLEAN
      /\ spi_cpu_start_ack' \in BOOLEAN
      /\ spi_cpu_init_ack' \in BOOLEAN
      /\ cpu_reset' \in BOOLEAN
  BY <1>1, <1>2, <1>3, <1>4 DEF LoaderTick, SeeInit, SeeFirm, SeeStart, SeeNothing,
     WriteMemory, StartCpu, InitCpu, Acks, TopTypeOK, LoaderStates
<1>6. spi_wr_req' \in {"none", "ack", "out"} /\ spi_wr_data' \in Word
  BY <1>1, <1>2, BoundAssumption DEF BusTick, Word
<1>7. memory_wr' \in MemWrite \cup {NoWrite}
  BY <1>1, <1>2, <1>4, BoundAssumption
     DEF BusTick, TopTypeOK, MmTypeOK, MemWrite, MemWord
<1>8. memory' \in [Address -> MemWord]
  BY <1>1, <1>2 DEF BusTick, TopTypeOK, MemWrite
<1>9. QED
  BY <1>5, <1>6, <1>7, <1>8 DEF TopTypeOK

LEMMA HostTypeStep ==
  ASSUME TypeOK, Next
  PROVE  /\ host' \in {"drain", "load", "run"}
         /\ left' \in 0..Xfer
         /\ IF left' = 0 THEN wire' = NoPacket ELSE wire' \in Packet /\ wire'.id > 0
         /\ packets' \in 0..MaxPackets
         /\ sessions' \in 0..MaxSessions
<1> DEFINE Goal == /\ host' \in {"drain", "load", "run"}
                   /\ left' \in 0..Xfer
                   /\ IF left' = 0 THEN wire' = NoPacket
                                   ELSE wire' \in Packet /\ wire'.id > 0
                   /\ packets' \in 0..MaxPackets
                   /\ sessions' \in 0..MaxSessions
<1>1. HostTick
  BY DEF Next, Tick
<1>2. CASE StartTransfer
  <2>1. PICK op \in Opcodes :
          /\ HostSends(op)
          /\ host' = HostAfter(op)
          /\ wire' = [op |-> op, id |-> packets + 1]
          /\ sessions' = IF op = "INIT" THEN sessions + 1 ELSE sessions
    BY <1>2 DEF StartTransfer
  <2>2. left' = Xfer /\ packets' = packets + 1 /\ packets < MaxPackets
    BY <1>2 DEF StartTransfer
  <2>3. packets' \in 1..MaxPackets /\ left' \in 1..Xfer
    BY <2>2, BoundAssumption, TimingAssumption DEF TypeOK
  <2>4. wire' \in Packet /\ wire'.id > 0
    BY <2>1, <2>2, <2>3, BoundAssumption DEF Packet
  <2>5. host' \in {"drain", "load", "run"}
    BY <2>1 DEF HostAfter, TypeOK
  <2>6. sessions' \in 0..MaxSessions
    BY <2>1, SessionAssumption DEF HostSends, TypeOK
  <2>7. QED
    BY <2>3, <2>4, <2>5, <2>6
<1>3. CASE ContinueTransfer
  BY <1>3, TimingAssumption DEF ContinueTransfer, TypeOK
<1>4. CASE NoTransfer
  BY <1>4 DEF NoTransfer, TypeOK, hostVars
<1>5. QED
  BY <1>1, <1>2, <1>3, <1>4 DEF HostTick

(* The disjunct of CpuStep does not matter to the type of the variables    *)
(* the CPU leaves alone, nor to the bound on the words.                    *)
LEMMA CpuTypeStep ==
  ASSUME TypeInv, Next
  PROVE  /\ cpu_pc' \in CpuStates
         /\ cpu_wait' \in 0..CpuGap
         /\ write_req' \in {"none", "mem", "ack", "out"}
         /\ write_data' \in Word
         /\ opcode_seen' \in Packet
         /\ written' \in Word
         /\ RoomToSend'
<1>1. CpuTick
  BY DEF Next, Tick
<1>2. /\ cpu_pc \in CpuStates
      /\ cpu_wait \in 0..CpuGap
      /\ write_req \in {"none", "mem", "ack", "out"}
      /\ write_data \in Word
      /\ opcode_seen \in Packet
      /\ written \in Word
      /\ read_data_register \in Packet
      /\ RoomToSend
  BY DEF TypeInv, TypeOK, MmTypeOK
<1> USE <1>2
<1>3. CASE CpuReset
  BY <1>3, TimingAssumption DEF CpuReset, CpuStates, RoomToSend
<1>4. CASE CpuBusy
  BY <1>4, TimingAssumption DEF CpuBusy, RoomToSend
<1>5. CASE CpuStep
  <2>1. cpu_wait' \in 0..CpuGap
    BY <1>5, TimingAssumption DEF CpuStep
  <2>2. CASE CpuCompute
    BY <2>1, <2>2 DEF CpuCompute, CpuStates, RoomToSend
  <2>3. CASE CpuPollFree
    BY <2>1, <2>3 DEF CpuPollFree, CpuStates, RoomToSend
  <2>4. CASE CpuSend
    BY <2>1, <2>4, BoundAssumption DEF CpuSend, CpuStates, RoomToSend, Word
  <2>5. CASE CpuPollMail
    BY <2>1, <2>5 DEF CpuPollMail, CpuStates, RoomToSend
  <2>6. CASE CpuReadOpcode
    BY <2>1, <2>6 DEF CpuReadOpcode, CpuStates, RoomToSend
  <2>7. CASE CpuReadChar
    BY <2>1, <2>7 DEF CpuReadChar, CpuStates, RoomToSend
  <2>8. CASE CpuAck
    BY <2>1, <2>8 DEF CpuAck, CpuStates, RoomToSend
  <2>9. QED
    BY <1>5, <2>2, <2>3, <2>4, <2>5, <2>6, <2>7, <2>8 DEF CpuStep
<1>6. QED
  BY <1>1, <1>3, <1>4, <1>5 DEF CpuTick

LEMMA HistoryTypeStep ==
  ASSUME TypeOK, Next
  PROVE  /\ sent' \in Seq(1..MaxPackets)
         /\ init_owed' \in BOOLEAN
         /\ start_owed' \in BOOLEAN
         /\ lost' \in BOOLEAN
         /\ collided' \in BOOLEAN
         /\ misplaced' \in BOOLEAN
         /\ last_init' \in 0..MaxPackets
         /\ delivered' \in Nat
<1>1. HistoryTick
  BY DEF Next, Tick
<1>2. /\ Ended # NoPacket => Ended \in Packet /\ Ended.id > 0
      /\ sent \in Seq(1..MaxPackets)
      /\ lost \in BOOLEAN
      /\ last_init \in 0..MaxPackets
      /\ delivered \in Nat
  BY EndedType DEF TypeOK
<1>3. Ended # NoPacket => Ended.id \in 1..MaxPackets
  BY <1>2, BoundAssumption DEF Packet
<1>4. sent' \in Seq(1..MaxPackets)
  <2>1. << >> \in Seq(1..MaxPackets)
    BY EmptySeq
  <2>2. ASSUME Ended # NoPacket
        PROVE  Append(sent, Ended.id) \in Seq(1..MaxPackets)
    BY <2>2, <1>2, <1>3, AppendProperties
  <2>3. QED
    BY <1>1, <1>2, <2>1, <2>2 DEF HistoryTick, Arrives
<1>5. init_owed' \in BOOLEAN /\ start_owed' \in BOOLEAN
  BY Zenon, <1>1 DEF HistoryTick
<1>6. lost' \in BOOLEAN /\ collided' \in BOOLEAN /\ misplaced' \in BOOLEAN
  BY Zenon, <1>1, <1>2 DEF HistoryTick
<1>7. last_init' \in 0..MaxPackets
  BY <1>1, <1>2, <1>3, BoundAssumption DEF HistoryTick, Arrives
<1>8. delivered' \in Nat
  BY <1>1, <1>2 DEF HistoryTick, One
<1>9. QED
  BY <1>4, <1>5, <1>6, <1>7, <1>8

LEMMA InitTypeInv == Init => TypeInv
<1> SUFFICES ASSUME Init PROVE TypeInv
  OBVIOUS
<1>1. ZeroPacket \in Packet
  BY BoundAssumption DEF ZeroPacket, Packet, Opcodes
<1>2. 0 \in Slot /\ 0 \in Word /\ 0 \in Address /\ 0 \in MemWord /\ 0 \in 0..Depth
  BY DepthAssumption, BoundAssumption, AddrSpaceAssumption
     DEF Slot, Word, Address, MemWord
<1>3. SlaveTypeOK
  BY <1>1, <1>2 DEF Init, SlaveInit, SlaveTypeOK
<1>4. MmTypeOK
  <2>1. MmInit /\ 0 \in 0..MaxPackets
    BY BoundAssumption DEF Init
  <2>2. QED
    BY <1>1, <1>2, <2>1 DEF MmInit, MmTypeOK
<1>5. TopTypeOK
  BY <1>2 DEF Init, TopInit, TopTypeOK, LoaderStates
<1>6. TypeOK
  <2>1. << >> \in Seq(1..MaxPackets)
    BY EmptySeq
  <2>2. /\ 0 \in 0..Xfer /\ 0 \in 0..MaxPackets /\ 0 \in 0..MaxSessions
        /\ 0 \in 0..CpuGap /\ 0 \in Nat
    BY BoundAssumption, SessionAssumption, TimingAssumption
  <2>3. sent \in Seq(1..MaxPackets)
    BY <2>1 DEF Init
  <2>4. IF left = 0 THEN wire = NoPacket ELSE wire \in Packet /\ wire.id > 0
    BY DEF Init
  <2>5. cpu_pc \in CpuStates /\ write_req \in {"none", "mem", "ack", "out"}
    BY DEF Init, CpuStates
  <2>6. QED
    BY <1>1, <1>2, <1>3, <1>4, <1>5, <2>2, <2>3, <2>4, <2>5 DEF Init, TypeOK
<1>7. RoomToSend
  BY DEF Init, RoomToSend
<1>8. QED
  BY <1>6, <1>7 DEF TypeInv

LEMMA TypeInvStep == TypeInv /\ [Next]_vars => TypeInv'
<1> SUFFICES ASSUME TypeInv, [Next]_vars PROVE TypeInv'
  OBVIOUS
<1>1. CASE Next
  <2>1. TypeOK
    BY DEF TypeInv
  <2>2. SlaveTypeOK' /\ MmTypeOK' /\ TopTypeOK'
    BY <1>1, <2>1, SlaveTypeStep, MmTypeStep, TopTypeStep
  <2>3. TypeOK'
    BY <1>1, <2>1, <2>2, HostTypeStep, CpuTypeStep, HistoryTypeStep DEF TypeOK
  <2>4. QED
    BY <1>1, <2>3, CpuTypeStep DEF TypeInv
<1>2. CASE UNCHANGED vars
  BY <1>2 DEF TypeInv, TypeOK, RoomToSend, vars, hwVars, slaveVars, rxVars, txVars,
     mmVars, topVars, loaderVars, busVars, hostVars, cpuVars, historyVars,
     SlaveTypeOK, MmTypeOK, TopTypeOK
<1>3. QED
  BY <1>1, <1>2

(* Every register keeps to its range: no index leaves rx_fifo or the       *)
(* memory, and the FIFO's count neither wraps nor exceeds its depth,       *)
(* whatever packets the host sends and whatever the program does.          *)
THEOREM TypeCorrect == Spec => []TypeOK
<1>1. TypeInv => TypeOK
  BY DEF TypeInv
<1>2. QED
  BY <1>1, InitTypeInv, TypeInvStep, PTL DEF Spec

-----------------------------------------------------------------------------
(* Why no word of the CPU is lost.  The status bit that SPOPUTC and        *)
(* SPIGETC poll lags behind the link by three registers (write_req,        *)
(* spi_wr_req, wr_en), so "free" is only true of the word before if the    *)
(* CPU takes longer over its next poll than those registers take.          *)
Polls == {"putc_poll", "getc_poll"}
Sends == {"putc_send", "getc_send"}

AtMostOne == InFlight <= 1

BusyShown == wr_queue_full \/ wr_reg_full => status1

RequestBlocks ==
  write_req = "out" => cpu_pc \in {"compute", "getc_wait"} /\ cpu_wait >= 1

BusBlocks == spi_wr_req = "out" => cpu_pc \notin Polls \cup Sends

EnableBlocks ==
  wr_en => /\ cpu_pc \notin Sends
           /\ cpu_pc \in Polls => cpu_wait >= 1

SendsWhenFree == cpu_pc \in Sends => InFlight = 0

WordsInv ==
  /\ TypeInv
  /\ AtMostOne
  /\ BusyShown
  /\ RequestBlocks
  /\ BusBlocks
  /\ EnableBlocks
  /\ SendsWhenFree
  /\ WordsAccounted

LEMMA InitWordsInv == Init => WordsInv
<1> SUFFICES ASSUME Init PROVE WordsInv
  OBVIOUS
<1>1. /\ ~wr_queue_full /\ ~wr_reg_full /\ ~wr_en
      /\ write_req = "none" /\ spi_wr_req = "none"
      /\ written = 0 /\ delivered = 0 /\ cpu_pc = "compute"
  BY DEF Init, SlaveInit, MmInit, TopInit
<1>2. InFlight = 0
  BY <1>1 DEF InFlight, One
<1>3. QED
  BY <1>1, <1>2, InitTypeInv DEF WordsInv, AtMostOne, BusyShown, RequestBlocks, BusBlocks,
     EnableBlocks, SendsWhenFree, WordsAccounted, Polls, Sends

QueueKeeps ==
  /\ ~LoadsRegister(left = 0)
  /\ AcceptsWord(wr_en) \/ (wr_queue_full /\ ~OpensSession(Ended))

(* What an edge does to the five stages of the pipeline ...                *)
LEMMA PipelineStep ==
  ASSUME TypeInv, Next
  PROVE  /\ spi_wr_req' = "out" <=> write_req = "out"
         /\ wr_en' <=> spi_wr_req = "out"
         /\ wr_queue_full' <=> QueueKeeps
         /\ wr_reg_full' <=> LoadsRegister(left = 0) \/ (wr_reg_full /\ ~EndsReply(Ended))
         /\ status1' <=> ~wr_buffer_free(wr_en)
         /\ delivered' = delivered + One(EndsReply(Ended) /\ wr_reg_full)
                                   + One(OpensSession(Ended) /\ wr_queue_full)
<1>1. spi_wr_req' = "out" <=> write_req = "out"
  BY DEF Next, Tick, TopTick, BusTick
<1>2. wr_en' <=> spi_wr_req = "out"
  BY Zenon DEF Next, Tick, MmTick
<1>3. status1' <=> ~wr_buffer_free(wr_en)
  BY Zenon DEF Next, Tick, MmTick
<1>4. Transmit(Ended, left = 0, wr_en, spi_module_wr_data)
  BY Zenon DEF Next, Tick, SlaveTick
<1>5. wr_queue_full' <=> QueueKeeps
  BY Zenon, <1>4 DEF Transmit, QueueKeeps
<1>6. wr_reg_full' <=> LoadsRegister(left = 0) \/ (wr_reg_full /\ ~EndsReply(Ended))
  BY Zenon, <1>4 DEF Transmit
<1>7. delivered' = delivered + One(EndsReply(Ended) /\ wr_reg_full)
                             + One(OpensSession(Ended) /\ wr_queue_full)
  BY Zenon DEF Next, Tick, HistoryTick
<1>8. QED
  BY Zenon, <1>1, <1>2, <1>3, <1>5, <1>6, <1>7

(* ... and what it does at the CPU's end of it.                            *)
LEMMA CpuStepFacts ==
  ASSUME TypeInv, Next
  PROVE  /\ write_req' = "out" =>
              /\ cpu_pc \in Sends
              /\ cpu_pc' \in {"compute", "getc_wait"}
              /\ cpu_wait' >= 1
              /\ written' = written + 1
         /\ write_req' # "out" => written' = written
         /\ cpu_pc' \in Sends =>
              \/ cpu_pc \in Sends /\ cpu_pc' = cpu_pc
              \/ cpu_pc \in Polls /\ ~status1 /\ cpu_wait = 0
         /\ cpu_pc' \in Sends => write_req' # "out"
         /\ cpu_pc' \in Polls =>
              \/ cpu_pc = cpu_pc'
              \/ cpu_wait' >= 1
         /\ cpu_wait >= 1 => cpu_pc' = cpu_pc \/ cpu_pc' = "compute"
<1>1. CpuTick
  BY DEF Next, Tick
<1>2. cpu_pc \in CpuStates /\ cpu_wait \in 0..CpuGap /\ CpuGap >= 1 /\ CpuGap \in Nat
  BY TimingAssumption DEF TypeInv, TypeOK
<1> USE <1>2
<1>3. CASE CpuReset
  BY <1>3 DEF CpuReset, Polls, Sends
<1>4. CASE CpuBusy
  BY <1>4 DEF CpuBusy, Polls, Sends
<1>5. CASE CpuStep
  <2>1. /\ cpu_wait = 0
        /\ cpu_wait' = IF write_req' = "mem" \/ cpu_pc' # cpu_pc THEN CpuGap ELSE 0
    BY <1>5 DEF CpuStep
  <2>2. CASE CpuCompute
    BY <2>1, <2>2 DEF CpuCompute, Polls, Sends
  <2>3. CASE CpuPollFree
    BY <2>1, <2>3 DEF CpuPollFree, Polls, Sends
  <2>4. CASE CpuSend
    BY <2>1, <2>4 DEF CpuSend, Polls, Sends
  <2>5. CASE CpuPollMail
    BY <2>1, <2>5 DEF CpuPollMail, Polls, Sends
  <2>6. CASE CpuReadOpcode
    BY <2>1, <2>6 DEF CpuReadOpcode, Polls, Sends
  <2>7. CASE CpuReadChar
    BY <2>1, <2>7 DEF CpuReadChar, Polls, Sends
  <2>8. CASE CpuAck
    BY <2>1, <2>8 DEF CpuAck, Polls, Sends
  <2>9. QED
    BY <1>5, <2>2, <2>3, <2>4, <2>5, <2>6, <2>7, <2>8 DEF CpuStep
<1>6. QED
  BY <1>1, <1>3, <1>4, <1>5 DEF CpuTick

LEMMA WordsInvStep == WordsInv /\ [Next]_vars => WordsInv'
<1> SUFFICES ASSUME WordsInv, [Next]_vars PROVE WordsInv'
  OBVIOUS
<1>1. TypeInv' 
  BY TypeInvStep DEF WordsInv
<1>2. CASE Next
  <2>1. TypeInv /\ TypeOK
    BY DEF WordsInv, TypeInv
  <2>2. /\ AtMostOne /\ BusyShown /\ RequestBlocks /\ BusBlocks
        /\ EnableBlocks /\ SendsWhenFree /\ WordsAccounted
    BY DEF WordsInv
  <2>3. /\ wr_queue_full \in BOOLEAN /\ wr_reg_full \in BOOLEAN /\ wr_en \in BOOLEAN
        /\ wr_queue_full' \in BOOLEAN /\ wr_reg_full' \in BOOLEAN /\ wr_en' \in BOOLEAN
        /\ status1 \in BOOLEAN /\ status1' \in BOOLEAN
        /\ written \in Nat /\ delivered \in Nat /\ written' \in Nat /\ delivered' \in Nat
    BY <2>1, <1>1, BoundAssumption DEF TypeInv, TypeOK, SlaveTypeOK, MmTypeOK, Word
  <2>4. LoadsRegister(left = 0) => ~OpensSession(Ended) /\ ~EndsReply(Ended)
    BY <2>1, EndedType DEF LoadsRegister, OpensSession, EndsReply
  <2>5. BusyShown'
    BY Zenon, <1>2, <2>1, PipelineStep
       DEF BusyShown, QueueKeeps, LoadsRegister, AcceptsWord, wr_buffer_free
  <2>6. RequestBlocks'
    BY <1>2, <2>1, CpuStepFacts DEF RequestBlocks
  <2>7. BusBlocks'
    BY <1>2, <2>1, <2>2, PipelineStep, CpuStepFacts
       DEF RequestBlocks, BusBlocks, Polls, Sends
  <2>8. EnableBlocks'
    BY <1>2, <2>1, <2>2, PipelineStep, CpuStepFacts
       DEF BusBlocks, EnableBlocks, Polls, Sends
  <2>9. cpu_pc \in Polls /\ ~status1 /\ cpu_wait = 0 => InFlight = 0
    BY <2>2 DEF BusyShown, RequestBlocks, BusBlocks, EnableBlocks, InFlight, One, Polls
  <2>10. cpu_pc' \in Sends => InFlight = 0 /\ write_req' # "out"
    BY <1>2, <2>1, <2>2, <2>9, CpuStepFacts DEF SendsWhenFree
  <2>11. InFlight = 0 /\ write_req' # "out" => InFlight' = 0 /\ delivered' = delivered
    <3> SUFFICES ASSUME InFlight = 0, write_req' # "out"
                 PROVE  InFlight' = 0 /\ delivered' = delivered
      OBVIOUS
    <3>1. /\ write_req # "out" /\ spi_wr_req # "out"
          /\ ~wr_en /\ ~wr_queue_full /\ ~wr_reg_full
      BY <2>3 DEF InFlight, One
    <3>2. /\ spi_wr_req' # "out" /\ ~wr_en' /\ ~wr_queue_full' /\ ~wr_reg_full'
          /\ delivered' = delivered
      BY <1>2, <2>1, <2>3, <3>1, PipelineStep
         DEF QueueKeeps, AcceptsWord, LoadsRegister, One
    <3>3. QED
      BY <3>2 DEF InFlight, One
  <2>12. SendsWhenFree'
    BY <2>10, <2>11 DEF SendsWhenFree
  <2>13. ASSUME write_req' = "out"
         PROVE  AtMostOne' /\ WordsAccounted'
    <3>1. InFlight = 0 /\ written' = written + 1
      BY <1>2, <2>1, <2>2, <2>13, CpuStepFacts DEF SendsWhenFree
    <3>2. /\ write_req # "out" /\ spi_wr_req # "out"
          /\ ~wr_en /\ ~wr_queue_full /\ ~wr_reg_full
      BY <2>3, <3>1 DEF InFlight, One
    <3>3. /\ spi_wr_req' # "out" /\ ~wr_en' /\ ~wr_queue_full' /\ ~wr_reg_full'
          /\ delivered' = delivered
      BY <1>2, <2>1, <2>3, <3>2, PipelineStep
         DEF QueueKeeps, AcceptsWord, LoadsRegister, One
    <3>4. InFlight' = 1
      BY <2>13, <3>3 DEF InFlight, One
    <3>5. QED
      BY <2>2, <2>3, <3>1, <3>3, <3>4 DEF AtMostOne, WordsAccounted
  <2>14. ASSUME write_req' # "out"
         PROVE  AtMostOne' /\ WordsAccounted'
    <3>1. written' = written
      BY <1>2, <2>1, <2>14, CpuStepFacts
    <3>2. InFlight \in {0, 1}
      BY <2>2, <2>3 DEF AtMostOne, InFlight, One
    <3>3. CASE InFlight = 0
      BY <2>2, <2>3, <2>11, <2>14, <3>1, <3>3 DEF AtMostOne, WordsAccounted
    <3>4. CASE InFlight = 1
      <4>1. InFlight' + delivered' = 1 + delivered
        BY <1>2, <2>1, <2>3, <2>4, <2>14, <3>4, PipelineStep
           DEF InFlight, One, QueueKeeps, AcceptsWord, LoadsRegister, EndsReply, OpensSession
      <4>2. InFlight' \in {0, 1}
        BY <1>2, <2>1, <2>3, <2>4, <2>14, <3>4, PipelineStep
           DEF InFlight, One, QueueKeeps, AcceptsWord, LoadsRegister
      <4>3. AtMostOne'
        BY <4>2 DEF AtMostOne
      <4>4. written = delivered + 1
        BY <2>2, <3>4 DEF WordsAccounted
      <4>5. written' = delivered' + InFlight'
        <5>1. \A i \in {0, 1}, d, e \in Nat : i + d = 1 + e => d + i = e + 1
          OBVIOUS
        <5>2. InFlight' \in {0, 1} /\ delivered' \in Nat /\ delivered \in Nat
          BY <2>3, <4>2
        <5>3. delivered' + InFlight' = delivered + 1
          BY Zenon, <4>1, <5>1, <5>2
        <5>4. QED
          BY Zenon, <3>1, <4>4, <5>3
      <4>6. QED
        BY <4>3, <4>5 DEF WordsAccounted
    <3>5. QED
      BY <3>2, <3>3, <3>4
  <2>15. QED
    BY <1>1, <2>5, <2>6, <2>7, <2>8, <2>12, <2>13, <2>14 DEF WordsInv
<1>3. CASE UNCHANGED vars
  BY <1>1, <1>3 DEF WordsInv, AtMostOne, BusyShown, RequestBlocks, BusBlocks, EnableBlocks,
     SendsWhenFree, WordsAccounted, InFlight, One, Polls, Sends, vars, hwVars, slaveVars,
     txVars, mmVars, topVars, busVars, cpuVars, historyVars
<1>4. QED
  BY <1>2, <1>3

(* The words of SPOPUTC and SPIGETC reach the host each once: none is      *)
(* overwritten by the next one, however the program times its calls and    *)
(* whatever the host does meanwhile, resets included.                      *)
THEOREM WordsAccountedAlways == Spec => []WordsAccounted
<1>1. WordsInv => WordsAccounted
  BY DEF WordsInv
<1>2. QED
  BY <1>1, InitWordsInv, WordsInvStep, PTL DEF Spec

-----------------------------------------------------------------------------
(* The receive side.  A packet is presented exactly while the FIFO holds   *)
(* one; the pointers fit the count until the second INIT; and the INIT     *)
(* packet in slot 0 is never read again.                                   *)
ShownIfAny == rd_data_available <=> rx_fifo_count > 0

ClosedEmpty ==
  state_rd = "INIT" => rx_fifo_count = 0 /\ rx_fifo_wr_ptr = 0 /\ rx_fifo_rd_ptr = 0

CountsInits ==
  /\ left > 0 /\ wire.op = "INIT" => sessions >= 1
  /\ state_rd = "RD_WAIT_DATA" => sessions >= 1
  /\ state_rd = "RD_WAIT_DATA" /\ left > 0 /\ wire.op = "INIT" => sessions >= 2

Aligned == rx_fifo_wr_ptr = (rx_fifo_rd_ptr + rx_fifo_count) % Depth

AlignedAtFirst == Aligned \/ sessions > 1

OnlySlotZero == \A i \in Slot \ {0} : rx_fifo[i].op # "INIT"

InitInSlotZero ==
  /\ OnlySlotZero
  /\ rx_fifo[0].op = "INIT" =>
       \/ rx_fifo_wr_ptr = 0 /\ rx_fifo_count <= 1
       \/ Aligned /\ rx_fifo_rd_ptr + rx_fifo_count <= Depth

RxInv == ShownIfAny /\ ClosedEmpty /\ CountsInits /\ AlignedAtFirst /\ InitInSlotZero

(* Indices of the ring.                                                    *)
LEMMA SmallRemainder ==
  ASSUME NEW d \in Nat \ {0}, NEW x \in Nat, x < d
  PROVE  x % d = x
  BY Z3

LEMMA LargeRemainder ==
  ASSUME NEW d \in Nat \ {0}, NEW x \in Nat, d <= x, x < d + d
  PROVE  x % d = x - d
  BY Z3

LEMMA RingIndex ==
  ASSUME NEW x \in Slot, NEW k \in 0..Depth
  PROVE  /\ (x + k) % Depth = IF x + k < Depth THEN x + k ELSE (x + k) - Depth
         /\ (x + k) % Depth \in Slot
<1>1. Depth \in Nat \ {0} /\ x \in Nat /\ k \in Nat /\ x < Depth /\ k <= Depth
  BY DepthAssumption DEF Slot
<1>2. (x + k) % Depth = IF x + k < Depth THEN x + k ELSE (x + k) - Depth
  <2>1. x + k \in Nat /\ x + k < Depth + Depth
    BY <1>1
  <2>2. CASE x + k < Depth
    BY Zenon, <1>1, <2>1, <2>2, SmallRemainder
  <2>3. CASE Depth <= x + k
    <3>1. (x + k) % Depth = (x + k) - Depth
      BY Zenon, <1>1, <2>1, <2>3, LargeRemainder
    <3>2. ~(x + k < Depth)
      BY <1>1, <2>3
    <3>3. QED
      BY Zenon, <3>1, <3>2
  <2>4. QED
    BY <1>1, <2>1, <2>2, <2>3
<1>3. QED
  BY <1>1, <1>2 DEF Slot

(* The distance between two slots of the ring.                             *)
LEMMA RingDistinct ==
  ASSUME NEW x \in Slot, NEW j \in 0..Depth, NEW k \in 0..Depth, j < k, k < Depth
  PROVE  (x + j) % Depth # (x + k) % Depth
<1>1. /\ j \in Nat /\ k \in Nat /\ x \in Nat /\ x < Depth /\ Depth \in Nat
  BY DepthAssumption DEF Slot
<1>2. /\ (x + j) % Depth = IF x + j < Depth THEN x + j ELSE (x + j) - Depth
      /\ (x + k) % Depth = IF x + k < Depth THEN x + k ELSE (x + k) - Depth
  BY RingIndex
<1>3. QED
  BY <1>1, <1>2

LEMMA RingNext ==
  ASSUME NEW x \in Slot, NEW k \in 0..Depth - 1
  PROVE  (((x + k) % Depth) + 1) % Depth = (x + (k + 1)) % Depth
<1>1. /\ k \in 0..Depth /\ k + 1 \in 0..Depth /\ 1 \in 0..Depth
      /\ x \in Nat /\ x < Depth /\ Depth \in Nat
  BY DepthAssumption DEF Slot
<1>2. (x + k) % Depth = IF x + k < Depth THEN x + k ELSE (x + k) - Depth
  BY <1>1, RingIndex
<1>3. (x + k) % Depth \in Slot
  BY <1>1, RingIndex
<1>4. (x + (k + 1)) % Depth
        = IF x + (k + 1) < Depth THEN x + (k + 1) ELSE (x + (k + 1)) - Depth
  BY <1>1, RingIndex
<1> DEFINE y == (x + k) % Depth
<1>5. (y + 1) % Depth = IF y + 1 < Depth THEN y + 1 ELSE (y + 1) - Depth
  BY <1>1, <1>3, RingIndex
<1>6. y = IF x + k < Depth THEN x + k ELSE (x + k) - Depth
  BY <1>2
<1>7. y \in Nat
  BY <1>3 DEF Slot
<1> HIDE DEF y
<1>8. (y + 1) % Depth = (x + (k + 1)) % Depth
  BY <1>1, <1>4, <1>5, <1>6, <1>7
<1>9. QED
  BY <1>8 DEF y

LEMMA RingShift ==
  ASSUME NEW x \in Slot, NEW k \in 0..Depth - 1
  PROVE  (((x + 1) % Depth) + k) % Depth = (x + (k + 1)) % Depth
<1>1. /\ k \in 0..Depth /\ k + 1 \in 0..Depth /\ 1 \in 0..Depth
      /\ x \in Nat /\ x < Depth /\ Depth \in Nat
  BY DepthAssumption DEF Slot
<1> DEFINE y == (x + 1) % Depth
<1>2. y = IF x + 1 < Depth THEN x + 1 ELSE (x + 1) - Depth
  BY <1>1, RingIndex
<1>3. y \in Slot
  BY <1>1, RingIndex
<1>4. (x + (k + 1)) % Depth
        = IF x + (k + 1) < Depth THEN x + (k + 1) ELSE (x + (k + 1)) - Depth
  BY <1>1, RingIndex
<1>5. y \in Nat
  BY <1>3 DEF Slot
<1> HIDE DEF y
<1>6. (y + k) % Depth = IF y + k < Depth THEN y + k ELSE (y + k) - Depth
  BY <1>1, <1>3, RingIndex
<1>7. (y + k) % Depth = (x + (k + 1)) % Depth
  BY <1>1, <1>2, <1>4, <1>5, <1>6
<1>8. QED
  BY <1>7 DEF y

-----------------------------------------------------------------------------
(* What an edge does to the receive side: one of four things, when no      *)
(* packet ends at the edge that pops another one.                          *)
RxRestart ==
  /\ OpensSession(Ended) /\ ~buffer_rd_ack
  /\ state_rd' = "RD_WAIT_DATA"
  /\ rx_fifo' = [rx_fifo EXCEPT ![0] = Ended]
  /\ rx_fifo_wr_ptr' = SessionWrPtr
  /\ rx_fifo_rd_ptr' = 0
  /\ rx_fifo_count' = 1
  /\ rd_data' = Ended
  /\ rd_data_available'

RxEnqueue ==
  /\ Queues(Ended) /\ ~buffer_rd_ack
  /\ rx_fifo' = [rx_fifo EXCEPT ![rx_fifo_wr_ptr] = Ended]
  /\ rx_fifo_wr_ptr' = (rx_fifo_wr_ptr + 1) % Depth
  /\ rx_fifo_count' = rx_fifo_count + 1
  /\ rd_data' = IF rd_data_available THEN rd_data ELSE Ended
  /\ rd_data_available'
  /\ UNCHANGED <<state_rd, rx_fifo_rd_ptr>>

RxPop ==
  /\ Ended = NoPacket /\ rx_fifo_count > 0 /\ buffer_rd_ack
  /\ rx_fifo_rd_ptr' = (rx_fifo_rd_ptr + 1) % Depth
  /\ rx_fifo_count' = rx_fifo_count - 1
  /\ rd_data' = IF rx_fifo_count > 1 THEN rx_fifo[(rx_fifo_rd_ptr + 1) % Depth]
                ELSE rd_data
  /\ rd_data_available' = (rx_fifo_count > 1)
  /\ UNCHANGED <<state_rd, rx_fifo, rx_fifo_wr_ptr>>

RxIdle ==
  /\ ~OpensSession(Ended) /\ ~Queues(Ended) /\ ~Pops
  /\ UNCHANGED <<state_rd, rx_fifo, rx_fifo_wr_ptr, rx_fifo_rd_ptr, rx_fifo_count,
                 rd_data, rd_data_available>>

LEMMA RestartCase ==
  ASSUME Next, OpensSession(Ended), ~buffer_rd_ack
  PROVE  RxRestart
<1>1. Receive(Ended, rd_ack)
  BY Zenon DEF Next, Tick, SlaveTick
<1>2. ~Pops
  BY DEF Pops
<1>3. QED
  BY Zenon, <1>1, <1>2 DEF Receive, RxRestart

LEMMA RxCases ==
  ASSUME TypeInv, ~Collides, ShownIfAny, Next
  PROVE  /\ RxRestart \/ RxEnqueue \/ RxPop \/ RxIdle
         /\ buffer_rd_ack' = (rd_ack /\ ~buffer_rd_ack)
<1>1. Receive(Ended, rd_ack)
  BY Zenon DEF Next, Tick, SlaveTick
<1>2. /\ rx_fifo_count \in Nat /\ rd_data_available \in BOOLEAN
      /\ buffer_rd_ack \in BOOLEAN
  BY DepthAssumption DEF TypeInv, TypeOK, SlaveTypeOK
<1>3. buffer_rd_ack => Ended = NoPacket
  BY DEF Collides
<1>4. buffer_rd_ack' = (rd_ack /\ ~buffer_rd_ack)
  BY Zenon, <1>1 DEF Receive
<1>5. OpensSession(Ended) => Ended # NoPacket
  BY DEF OpensSession
<1>6. Queues(Ended) => Ended # NoPacket /\ ~OpensSession(Ended)
  BY DEF Queues, OpensSession
<1>7. CASE OpensSession(Ended)
  <2>1. ~buffer_rd_ack /\ ~Pops
    BY <1>3, <1>5, <1>7 DEF Pops
  <2>2. RxRestart
    BY <1>7, <2>1, RestartCase
  <2>3. QED
    BY Zenon, <1>4, <2>2
<1>8. CASE Queues(Ended)
  <2>1. ~buffer_rd_ack /\ ~Pops /\ ~OpensSession(Ended)
    BY <1>3, <1>6, <1>8 DEF Pops
  <2>2. RxEnqueue
    BY Zenon, <1>1, <1>8, <2>1 DEF Receive, RxEnqueue, Pops
  <2>3. QED
    BY Zenon, <1>4, <2>2
<1>9. CASE ~OpensSession(Ended) /\ ~Queues(Ended) /\ Pops
  <2>1. Ended = NoPacket /\ rx_fifo_count > 0 /\ buffer_rd_ack
    BY <1>3, <1>9 DEF Pops
  <2>2. RxPop
    BY Zenon, <1>1, <1>9, <2>1 DEF Receive, RxPop
  <2>3. QED
    BY Zenon, <1>4, <2>2
<1>10. CASE ~OpensSession(Ended) /\ ~Queues(Ended) /\ ~Pops
  <2>1. buffer_rd_ack => rx_fifo_count = 0
    BY <1>2, <1>10 DEF Pops
  <2>2. rx_fifo_count = 0 => ~(rx_fifo_count > 1) /\ ~rd_data_available
    BY DEF ShownIfAny
  <2>3. rd_data_available' <=> rd_data_available
    BY Zenon, <1>1, <1>10, <2>1, <2>2 DEF Receive
  <2>4. rd_data_available' \in BOOLEAN
    BY TypeInvStep DEF TypeInv, TypeOK, SlaveTypeOK
  <2>5. rd_data_available' = rd_data_available
    BY Zenon, <1>2, <2>3, <2>4
  <2>6. UNCHANGED <<state_rd, rx_fifo, rx_fifo_wr_ptr, rx_fifo_rd_ptr, rx_fifo_count, rd_data>>
    BY Zenon, <1>1, <1>10 DEF Receive
  <2>7. RxIdle
    BY Zenon, <1>10, <2>5, <2>6 DEF RxIdle
  <2>8. QED
    BY Zenon, <1>4, <2>7
<1>11. QED
  BY Zenon, <1>7, <1>8, <1>9, <1>10

-----------------------------------------------------------------------------
LEMMA InitRxInv == Init => RxInv
<1> SUFFICES ASSUME Init PROVE RxInv
  OBVIOUS
<1>1. /\ state_rd = "INIT" /\ rx_fifo_count = 0 /\ rx_fifo_wr_ptr = 0
      /\ rx_fifo_rd_ptr = 0 /\ ~rd_data_available /\ left = 0
      /\ rx_fifo = [i \in Slot |-> ZeroPacket]
  BY DEF Init, SlaveInit
<1>2. Aligned
  <2>1. 0 \in Slot /\ 0 \in 0..Depth
    BY DepthAssumption DEF Slot
  <2>2. (0 + 0) % Depth = 0
    BY <2>1, RingIndex, DepthAssumption
  <2>3. QED
    BY <1>1, <2>2 DEF Aligned
<1>3. InitInSlotZero
  <2>1. \A i \in Slot : rx_fifo[i].op # "INIT"
    BY <1>1 DEF ZeroPacket
  <2>2. QED
    BY <2>1, DepthAssumption DEF InitInSlotZero, OnlySlotZero, Slot
<1>4. ShownIfAny /\ ClosedEmpty /\ CountsInits
  BY <1>1 DEF ShownIfAny, ClosedEmpty, CountsInits
<1>5. QED
  BY <1>2, <1>3, <1>4 DEF RxInv, AlignedAtFirst

(* The types the receive side's proofs need.                               *)
LEMMA RxTypes ==
  ASSUME TypeInv
  PROVE  /\ state_rd \in {"INIT", "RD_WAIT_DATA"}
         /\ rx_fifo \in [Slot -> Packet]
         /\ rx_fifo_wr_ptr \in Slot /\ rx_fifo_rd_ptr \in Slot
         /\ rx_fifo_count \in 0..Depth
         /\ sessions \in Nat
         /\ Ended # NoPacket => Ended \in Packet /\ left = 1 /\ wire = Ended
<1>1. TypeOK
  BY DEF TypeInv
<1>2. sessions \in Nat
  BY <1>1, SessionAssumption DEF TypeOK
<1>3. QED
  BY <1>1, <1>2, EndedType DEF TypeOK, SlaveTypeOK, Ended

(* The host's side of an edge.                                             *)
LEMMA HostStepFacts ==
  ASSUME TypeInv, Next
  PROVE  /\ sessions' >= sessions
         /\ \/ left = 0 /\ left' = Xfer /\ wire' \in Packet
               /\ HostSends(wire'.op) /\ host' = HostAfter(wire'.op)
               /\ sessions' = IF wire'.op = "INIT" THEN sessions + 1 ELSE sessions
            \/ UNCHANGED <<host, sessions>> /\ left = 0 /\ left' = 0
            \/ UNCHANGED <<host, sessions>> /\ Ended # NoPacket /\ left' = 0
            \/ UNCHANGED <<host, sessions, wire>> /\ left > 1 /\ left' = left - 1
         /\ Ended = NoPacket => (left = 0 \/ left' > 0)
<1>1. HostTick
  BY DEF Next, Tick
<1>2. sessions \in Nat /\ left \in Nat /\ left <= Xfer /\ Xfer \in Nat
  BY SessionAssumption, TimingAssumption DEF TypeInv, TypeOK
<1>3. left = 1 => Ended # NoPacket
  BY NoPacketAssumption DEF Ended, TypeInv, TypeOK
<1>4. CASE StartTransfer
  <2>1. PICK op \in Opcodes :
          /\ HostSends(op)
          /\ host' = HostAfter(op)
          /\ wire' = [op |-> op, id |-> packets + 1]
          /\ sessions' = IF op = "INIT" THEN sessions + 1 ELSE sessions
    BY <1>4 DEF StartTransfer
  <2>2. wire'.op = op
    BY <2>1
  <2>3. left = 0 /\ left' = Xfer /\ packets' = packets + 1 /\ packets < MaxPackets
    BY <1>4 DEF StartTransfer
  <2>4. wire' \in Packet
    BY <2>1, <2>3, BoundAssumption DEF Packet, TypeInv, TypeOK
  <2>5. sessions' >= sessions
    BY <1>2, <2>1
  <2>6. QED
    BY <2>1, <2>2, <2>3, <2>4, <2>5
<1>5. CASE ContinueTransfer
  <2>1. /\ left > 0 /\ left' = left - 1 /\ UNCHANGED <<host, packets, sessions>>
        /\ wire' = (IF left = 1 THEN NoPacket ELSE wire)
    BY <1>5 DEF ContinueTransfer
  <2>2. CASE left = 1
    BY <1>2, <1>3, <2>1, <2>2
  <2>3. CASE left # 1
    BY <1>2, <2>1, <2>3
  <2>4. QED
    BY <2>2, <2>3
<1>6. CASE NoTransfer
  BY <1>2, <1>6 DEF NoTransfer, hostVars
<1>7. QED
  BY <1>1, <1>4, <1>5, <1>6 DEF HostTick

(* The session opens with an INIT packet only, whatever is popped then.    *)
LEMMA OpensBy ==
  ASSUME TypeInv, Next, state_rd' # state_rd
  PROVE  /\ state_rd' = "RD_WAIT_DATA"
         /\ Ended # NoPacket /\ Ended.op = "INIT" /\ left = 1 /\ wire = Ended
<1>1. state_rd' = IF OpensSession(Ended) THEN "RD_WAIT_DATA" ELSE state_rd
  BY Zenon DEF Next, Tick, SlaveTick, Receive
<1>2. OpensSession(Ended)
  BY <1>1
<1>3. QED
  BY <1>1, <1>2, RxTypes DEF OpensSession

LEMMA CountsInitsStep ==
  ASSUME TypeInv, CountsInits, Next
  PROVE  CountsInits'
<1>1. CountsInits /\ sessions \in Nat /\ sessions' \in Nat /\ left \in Nat
  BY RxTypes, TypeInvStep, TimingAssumption, SessionAssumption DEF TypeInv, TypeOK
<1>2. left' > 0 /\ wire'.op = "INIT" => sessions' >= 1
  BY <1>1, HostStepFacts DEF CountsInits
<1>3. state_rd' = "RD_WAIT_DATA" => sessions' >= 1
  BY <1>1, OpensBy, HostStepFacts DEF CountsInits
<1>4. state_rd' = "RD_WAIT_DATA" /\ left' > 0 /\ wire'.op = "INIT" => sessions' >= 2
  <2> SUFFICES ASSUME state_rd' = "RD_WAIT_DATA", left' > 0, wire'.op = "INIT"
               PROVE  sessions' >= 2
    OBVIOUS
  <2>1. CASE state_rd = "RD_WAIT_DATA"
    BY <1>1, <2>1, HostStepFacts DEF CountsInits
  <2>2. CASE state_rd # "RD_WAIT_DATA"
    <3>1. Ended # NoPacket /\ left = 1
      BY <2>2, OpensBy
    <3>2. left' = 0
      BY <3>1, HostStepFacts
    <3>3. QED
      BY <3>2
  <2>3. QED
    BY <2>1, <2>2
<1>5. QED
  BY <1>2, <1>3, <1>4 DEF CountsInits

LEMMA ClosedEmptyStep ==
  ASSUME TypeInv, ClosedEmpty, Next
  PROVE  ClosedEmpty'
<1> SUFFICES ASSUME state_rd' = "INIT"
             PROVE  rx_fifo_count' = 0 /\ rx_fifo_wr_ptr' = 0 /\ rx_fifo_rd_ptr' = 0
  BY DEF ClosedEmpty
<1>1. Receive(Ended, rd_ack)
  BY Zenon DEF Next, Tick, SlaveTick
<1>2. state_rd = "INIT" /\ ~OpensSession(Ended)
  BY <1>1, OpensBy DEF Receive
<1>3. rx_fifo_count = 0 /\ rx_fifo_wr_ptr = 0 /\ rx_fifo_rd_ptr = 0
  BY <1>2 DEF ClosedEmpty
<1>4. ~Pops /\ ~Queues(Ended)
  BY <1>2, <1>3 DEF Pops, Queues
<1>5. QED
  BY <1>1, <1>2, <1>3, <1>4 DEF Receive

LEMMA OnlySlotZeroStep ==
  ASSUME TypeInv, OnlySlotZero, Next
  PROVE  OnlySlotZero'
<1>1. rx_fifo' = IF OpensSession(Ended) THEN [rx_fifo EXCEPT ![0] = Ended]
                 ELSE IF Queues(Ended) THEN [rx_fifo EXCEPT ![rx_fifo_wr_ptr] = Ended]
                 ELSE rx_fifo
  BY Zenon DEF Next, Tick, SlaveTick, Receive
<1>2. rx_fifo \in [Slot -> Packet] /\ rx_fifo_wr_ptr \in Slot
  BY RxTypes
<1>3. Queues(Ended) => Ended.op # "INIT"
  BY DEF Queues
<1>4. QED
  BY <1>1, <1>2, <1>3 DEF OnlySlotZero

LEMMA ShownIfAnyStep ==
  ASSUME TypeInv, ~Collides, RxInv, Next
  PROVE  ShownIfAny'
<1>1. RxRestart \/ RxEnqueue \/ RxPop \/ RxIdle
  BY RxCases DEF RxInv
<1>2. ShownIfAny /\ rx_fifo_count \in Nat
  BY RxTypes, DepthAssumption DEF RxInv
<1>3. CASE RxRestart
  <2>1. rd_data_available' /\ rx_fifo_count' = 1
    BY <1>3 DEF RxRestart
  <2>2. QED
    BY <2>1 DEF ShownIfAny
<1>4. CASE RxEnqueue
  <2>1. rd_data_available' /\ rx_fifo_count' = rx_fifo_count + 1
    BY <1>4 DEF RxEnqueue
  <2>2. rx_fifo_count' > 0
    BY <1>2, <2>1
  <2>3. QED
    BY Zenon, <2>1, <2>2 DEF ShownIfAny
<1>5. CASE RxPop
  <2>1. /\ rd_data_available' = (rx_fifo_count > 1)
        /\ rx_fifo_count' = rx_fifo_count - 1
        /\ rx_fifo_count > 0
    BY Zenon, <1>5 DEF RxPop
  <2>2. rx_fifo_count' > 0 <=> rx_fifo_count > 1
    BY <1>2, <2>1
  <2>3. QED
    BY Zenon, <2>1, <2>2 DEF ShownIfAny
<1>6. CASE RxIdle
  <2>1. rd_data_available' = rd_data_available /\ rx_fifo_count' = rx_fifo_count
    BY <1>6 DEF RxIdle
  <2>2. QED
    BY Zenon, <1>2, <2>1 DEF ShownIfAny
<1>7. QED
  BY <1>1, <1>3, <1>4, <1>5, <1>6

(* A packet the FIFO takes moves the count and the pointer together, and   *)
(* so does a pop.                                                          *)
LEMMA AlignedStep ==
  ASSUME TypeInv, Aligned
  PROVE  /\ RxEnqueue => Aligned'
         /\ RxPop => Aligned'
         /\ RxIdle => Aligned'
<1>1. /\ rx_fifo_rd_ptr \in Slot /\ rx_fifo_count \in 0..Depth /\ Depth \in Nat
      /\ rx_fifo_wr_ptr = (rx_fifo_rd_ptr + rx_fifo_count) % Depth
  BY RxTypes, DepthAssumption DEF Aligned
<1>2. ASSUME RxEnqueue PROVE Aligned'
  <2>1. rx_fifo_count \in 0..Depth - 1
    BY <1>1, <1>2 DEF RxEnqueue, Queues
  <2>2. /\ rx_fifo_wr_ptr' = (rx_fifo_wr_ptr + 1) % Depth
        /\ rx_fifo_count' = rx_fifo_count + 1
        /\ rx_fifo_rd_ptr' = rx_fifo_rd_ptr
    BY <1>2 DEF RxEnqueue
  <2>3. (((rx_fifo_rd_ptr + rx_fifo_count) % Depth) + 1) % Depth
          = (rx_fifo_rd_ptr + (rx_fifo_count + 1)) % Depth
    BY <1>1, <2>1, RingNext
  <2>4. QED
    BY Zenon, <1>1, <2>2, <2>3 DEF Aligned
<1>3. ASSUME RxPop PROVE Aligned'
  <2>1. rx_fifo_count - 1 \in 0..Depth - 1
    BY <1>1, <1>3 DEF RxPop
  <2>2. /\ rx_fifo_wr_ptr' = rx_fifo_wr_ptr
        /\ rx_fifo_count' = rx_fifo_count - 1
        /\ rx_fifo_rd_ptr' = (rx_fifo_rd_ptr + 1) % Depth
    BY <1>3 DEF RxPop
  <2>3. (((rx_fifo_rd_ptr + 1) % Depth) + (rx_fifo_count - 1)) % Depth
          = (rx_fifo_rd_ptr + ((rx_fifo_count - 1) + 1)) % Depth
    BY <1>1, <2>1, RingShift
  <2>4. (rx_fifo_count - 1) + 1 = rx_fifo_count
    BY <1>1
  <2>5. QED
    BY Zenon, <1>1, <2>2, <2>3, <2>4 DEF Aligned
<1>4. ASSUME RxIdle PROVE Aligned'
  BY <1>1, <1>4 DEF RxIdle, Aligned
<1>5. QED
  BY <1>2, <1>3, <1>4

LEMMA AlignedRestart ==
  ASSUME TypeInv, RxRestart, state_rd = "INIT"
  PROVE  Aligned' /\ rx_fifo_rd_ptr' + rx_fifo_count' <= Depth
<1>1. rx_fifo_wr_ptr' = 1 % Depth /\ rx_fifo_rd_ptr' = 0 /\ rx_fifo_count' = 1
  BY DEF RxRestart, SessionWrPtr
<1>2. 0 + 1 = 1 /\ 0 + 1 <= Depth
  BY DepthAssumption
<1>3. QED
  BY Zenon, <1>1, <1>2 DEF Aligned

LEMMA AlignedAtFirstStep ==
  ASSUME TypeInv, ~Collides, RxInv, Next
  PROVE  AlignedAtFirst'
<1>1. RxRestart \/ RxEnqueue \/ RxPop \/ RxIdle
  BY RxCases DEF RxInv
<1>2. sessions \in Nat /\ sessions' \in Nat /\ sessions' >= sessions
  BY RxTypes, TypeInvStep, HostStepFacts, SessionAssumption DEF TypeInv, TypeOK
<1>3. CASE RxRestart /\ state_rd # "INIT"
  <2>1. left > 0 /\ wire.op = "INIT" /\ state_rd = "RD_WAIT_DATA"
    BY <1>3, RxTypes DEF RxRestart, OpensSession
  <2>2. sessions >= 2
    BY <2>1 DEF RxInv, CountsInits
  <2>3. QED
    BY <1>2, <2>2 DEF AlignedAtFirst
<1>4. CASE RxRestart /\ state_rd = "INIT"
  BY <1>4, AlignedRestart DEF AlignedAtFirst
<1>5. CASE Aligned /\ ~RxRestart
  BY <1>1, <1>5, AlignedStep DEF AlignedAtFirst
<1>6. CASE sessions > 1
  BY <1>2, <1>6 DEF AlignedAtFirst
<1>7. QED
  BY <1>3, <1>4, <1>5, <1>6 DEF RxInv, AlignedAtFirst

LEMMA InitInSlotZeroStep ==
  ASSUME TypeInv, ~Collides, RxInv, Next
  PROVE  InitInSlotZero'
<1>1. RxRestart \/ RxEnqueue \/ RxPop \/ RxIdle
  BY RxCases DEF RxInv
<1>2. InitInSlotZero
  BY DEF RxInv
<1>3. /\ rx_fifo_rd_ptr \in Slot /\ rx_fifo_wr_ptr \in Slot /\ 0 \in Slot
      /\ rx_fifo_count \in 0..Depth /\ Depth \in Nat \ {0}
      /\ rx_fifo \in [Slot -> Packet]
  BY RxTypes, DepthAssumption DEF Slot
<1>4. CASE RxRestart
  <2>1. \A i \in Slot \ {0} : rx_fifo'[i].op # "INIT"
    BY <1>2, <1>3, <1>4 DEF InitInSlotZero, OnlySlotZero, RxRestart
  <2>2. CASE state_rd = "INIT"
    BY <1>4, <2>1, <2>2, AlignedRestart DEF InitInSlotZero, OnlySlotZero
  <2>3. CASE state_rd # "INIT"
    <3>1. rx_fifo_wr_ptr' = 0 /\ rx_fifo_count' = 1
      BY <1>4, <2>3 DEF RxRestart, SessionWrPtr
    <3>2. QED
      BY <2>1, <3>1 DEF InitInSlotZero, OnlySlotZero
  <2>4. QED
    BY <2>2, <2>3
<1>5. CASE RxEnqueue
  <2>1. Ended.op # "INIT" /\ rx_fifo' = [rx_fifo EXCEPT ![rx_fifo_wr_ptr] = Ended]
    BY <1>5 DEF RxEnqueue, Queues
  <2>2. \A i \in Slot \ {0} : rx_fifo'[i].op # "INIT"
    BY <1>2, <1>3, <2>1 DEF InitInSlotZero, OnlySlotZero
  <2>3. ASSUME rx_fifo'[0].op = "INIT"
        PROVE  Aligned' /\ rx_fifo_rd_ptr' + rx_fifo_count' <= Depth
    <3>1. rx_fifo_wr_ptr # 0 /\ rx_fifo[0].op = "INIT"
      BY <1>3, <2>1, <2>3
    <3>2. Aligned /\ rx_fifo_rd_ptr + rx_fifo_count <= Depth
      BY <1>2, <3>1 DEF InitInSlotZero, OnlySlotZero
    <3>3. rx_fifo_rd_ptr + rx_fifo_count < Depth
      <4>1. (rx_fifo_rd_ptr + rx_fifo_count) % Depth
              = IF rx_fifo_rd_ptr + rx_fifo_count < Depth
                THEN rx_fifo_rd_ptr + rx_fifo_count
                ELSE (rx_fifo_rd_ptr + rx_fifo_count) - Depth
        BY <1>3, RingIndex
      <4>2. rx_fifo_wr_ptr = (rx_fifo_rd_ptr + rx_fifo_count) % Depth
        BY <3>2 DEF Aligned
      <4>3. rx_fifo_rd_ptr \in Nat /\ rx_fifo_count \in Nat
        BY <1>3 DEF Slot
      <4>4. QED
        BY <1>3, <3>1, <3>2, <4>1, <4>2, <4>3
    <3>4. rx_fifo_rd_ptr' = rx_fifo_rd_ptr /\ rx_fifo_count' = rx_fifo_count + 1
      BY <1>5 DEF RxEnqueue
    <3>5. rx_fifo_rd_ptr' + rx_fifo_count' <= Depth
      BY <1>3, <3>3, <3>4 DEF Slot
    <3>6. QED
      BY <1>5, <3>2, <3>5, AlignedStep
  <2>4. QED
    BY <2>2, <2>3 DEF InitInSlotZero, OnlySlotZero
<1>6. CASE RxPop
  <2>1. /\ rx_fifo' = rx_fifo /\ rx_fifo_wr_ptr' = rx_fifo_wr_ptr
        /\ rx_fifo_count' = rx_fifo_count - 1 /\ rx_fifo_count > 0
        /\ rx_fifo_rd_ptr' = (rx_fifo_rd_ptr + 1) % Depth
    BY <1>6 DEF RxPop
  <2>2. CASE rx_fifo_wr_ptr = 0 /\ rx_fifo_count <= 1
    BY <1>2, <1>3, <2>1, <2>2 DEF InitInSlotZero, OnlySlotZero
  <2>3. CASE Aligned /\ rx_fifo_rd_ptr + rx_fifo_count <= Depth
    <3>1. Aligned'
      BY <1>6, <2>3, AlignedStep
    <3>2. rx_fifo_rd_ptr' + rx_fifo_count' <= Depth
      <4>1. 1 \in 0..Depth
        BY <1>3
      <4>2. rx_fifo_rd_ptr' = IF rx_fifo_rd_ptr + 1 < Depth THEN rx_fifo_rd_ptr + 1
                              ELSE (rx_fifo_rd_ptr + 1) - Depth
        BY <1>3, <2>1, <4>1, RingIndex
      <4>3. rx_fifo_rd_ptr \in Nat /\ rx_fifo_count \in Nat /\ rx_fifo_rd_ptr < Depth
        BY <1>3 DEF Slot
      <4>4. QED
        BY <1>3, <2>1, <2>3, <4>2, <4>3
    <3>3. QED
      BY <1>2, <2>1, <3>1, <3>2 DEF InitInSlotZero, OnlySlotZero
  <2>4. CASE rx_fifo[0].op # "INIT"
    BY <1>2, <2>1, <2>4 DEF InitInSlotZero, OnlySlotZero
  <2>5. QED
    BY <1>2, <2>2, <2>3, <2>4 DEF InitInSlotZero, OnlySlotZero
<1>7. CASE RxIdle
  BY <1>2, <1>7 DEF RxIdle, InitInSlotZero, OnlySlotZero, Aligned
<1>8. QED
  BY <1>1, <1>4, <1>5, <1>6, <1>7

LEMMA RxInvStep ==
  ASSUME TypeInv, ~Collides, RxInv, Next
  PROVE  RxInv'
<1>1. ShownIfAny' /\ AlignedAtFirst' /\ InitInSlotZero'
  BY ShownIfAnyStep, AlignedAtFirstStep, InitInSlotZeroStep
<1>2. ClosedEmpty' /\ CountsInits'
  BY ClosedEmptyStep, CountsInitsStep DEF RxInv
<1>3. QED
  BY <1>1, <1>2 DEF RxInv

LEMMA RxStutter ==
  ASSUME RxInv, UNCHANGED vars
  PROVE  RxInv'
BY DEF RxInv, ShownIfAny, ClosedEmpty, CountsInits, AlignedAtFirst, Aligned,
   InitInSlotZero, OnlySlotZero, vars, hwVars, slaveVars, rxVars, hostVars

-----------------------------------------------------------------------------
(* The loader acknowledges in the state that serves the request.           *)
AcksShown ==
  /\ spi_cpu_init_ack <=> state = "INIT_CPU"
  /\ spi_cpu_start_ack <=> state = "START_CPU"

SessionInv == TypeInv /\ RxInv /\ AcksShown /\ InitNotLost /\ ~collided

LEMMA AcksShownStep ==
  ASSUME Next
  PROVE  AcksShown'
<1>1. LoaderTick
  BY DEF Next, Tick, TopTick
<1>2. CASE SeeInit
  BY <1>2 DEF SeeInit, Acks, AcksShown
<1>3. CASE SeeFirm
  BY <1>3 DEF SeeFirm, Acks, AcksShown
<1>4. CASE SeeStart
  BY <1>4 DEF SeeStart, Acks, AcksShown
<1>5. CASE SeeNothing
  BY <1>5 DEF SeeNothing, Acks, AcksShown
<1>6. CASE WriteMemory
  BY <1>6 DEF WriteMemory, Acks, AcksShown
<1>7. CASE StartCpu
  BY <1>7 DEF StartCpu, Acks, AcksShown
<1>8. CASE InitCpu
  BY <1>8 DEF InitCpu, Acks, AcksShown
<1>9. QED
  BY <1>1, <1>2, <1>3, <1>4, <1>5, <1>6, <1>7, <1>8 DEF LoaderTick

(* An INIT packet that ends is never refused: the FIFO has room before the *)
(* first one, and is emptied for the others.                               *)
LEMMA InitOpens ==
  ASSUME TypeInv, ClosedEmpty
  PROVE  Arrives("INIT") <=> OpensSession(Ended)
BY RxTypes, DepthAssumption DEF ClosedEmpty, Arrives, OpensSession

LEMMA InitNotLostStep ==
  ASSUME SessionInv, ~Collides, Next
  PROVE  InitNotLost'
<1> SUFFICES ASSUME init_owed'
             PROVE  TakesInit' \/ cpu_init' \/ (state = "INIT_CPU")'
  BY Zenon DEF InitNotLost
<1>1. Arrives("INIT") \/ (init_owed /\ state # "INIT_CPU")
  BY Zenon DEF Next, Tick, HistoryTick
<1>2. CASE Arrives("INIT")
  <2>1. OpensSession(Ended)
    BY <1>2, InitOpens DEF SessionInv, RxInv
  <2>2. RxRestart
    BY <2>1, RxCases DEF SessionInv, RxInv, RxEnqueue, RxPop, RxIdle, Queues, OpensSession
  <2>3. QED
    BY <2>2 DEF RxRestart, OpensSession, TakesInit, Presents
<1>3. CASE init_owed /\ state # "INIT_CPU"
  <2>1. ~spi_cpu_init_ack /\ (TakesInit \/ cpu_init)
    BY <1>3 DEF SessionInv, AcksShown, InitNotLost
  <2>2. cpu_init'
    BY Zenon, <2>1 DEF Next, Tick, MmTick
  <2>3. QED
    BY <2>2
<1>4. QED
  BY <1>1, <1>2, <1>3

LEMMA InitSessionInv == Init => SessionInv
<1> SUFFICES ASSUME Init PROVE SessionInv
  OBVIOUS
<1>1. AcksShown /\ InitNotLost /\ ~collided
  BY DEF Init, TopInit, AcksShown, InitNotLost
<1>2. QED
  BY <1>1, InitTypeInv, InitRxInv DEF SessionInv

LEMMA SessionInvStep ==
  ASSUME SessionInv, Next, ~Collides
  PROVE  SessionInv'
<1>1. TypeInv' /\ RxInv'
  BY TypeInvStep, RxInvStep DEF SessionInv
<1>2. ~collided'
  BY Zenon DEF Next, Tick, HistoryTick, SessionInv
<1>3. QED
  BY <1>1, <1>2, AcksShownStep, InitNotLostStep DEF SessionInv

LEMMA SessionStutter ==
  ASSUME SessionInv, UNCHANGED vars
  PROVE  SessionInv'
<1>1. TypeInv' /\ RxInv'
  BY TypeInvStep, RxStutter DEF SessionInv
<1>2. QED
  BY <1>1 DEF SessionInv, AcksShown, InitNotLost, TakesInit, Presents, vars, hwVars,
     slaveVars, rxVars, mmVars, topVars, loaderVars, historyVars

-----------------------------------------------------------------------------
(* What is true even after a packet met a pop, and what an INIT needs to   *)
(* repair the link.                                                        *)
HostOnWire ==
  left > 0 =>
    /\ wire.op \in {"INIT", "FIRM"} => host = "load"
    /\ wire.op = "START" => host = "run"
    /\ wire.op \in {"NOP", "CMD"} => host # "load"

BaseInv ==
  /\ TypeInv
  /\ ClosedEmpty
  /\ CountsInits
  /\ OnlySlotZero
  /\ AcksShown
  /\ HostOnWire
  /\ collided => misplaced

(* The host never sends what the load order forbids.                       *)
LEMMA HostOnWireStep ==
  ASSUME TypeInv, Next, HostOnWire
  PROVE  HostOnWire'
<1>1. left \in Nat /\ Xfer \in Nat
  BY TimingAssumption DEF TypeInv, TypeOK
<1>2. CASE left = 0
  BY <1>1, <1>2, HostStepFacts DEF HostOnWire, HostSends, HostAfter, Packet, Opcodes
<1>3. CASE left # 0
  BY <1>1, <1>3, HostStepFacts DEF HostOnWire
<1>4. QED
  BY <1>2, <1>3

LEMMA InitBaseInv == Init => BaseInv
<1> SUFFICES ASSUME Init PROVE BaseInv
  OBVIOUS
<1>1. SessionInv
  BY InitSessionInv
<1>2. HostOnWire /\ ~collided
  BY DEF Init, HostOnWire
<1>3. QED
  BY <1>1, <1>2 DEF BaseInv, SessionInv, RxInv, InitInSlotZero

LEMMA BaseInvStep == BaseInv /\ [Next]_vars => BaseInv'
<1> SUFFICES ASSUME BaseInv, [Next]_vars PROVE BaseInv'
  OBVIOUS
<1>1. TypeInv'
  BY TypeInvStep DEF BaseInv
<1>2. CASE Next
  <2>1. ClosedEmpty' /\ CountsInits' /\ OnlySlotZero' /\ AcksShown' /\ HostOnWire'
    BY <1>2, ClosedEmptyStep, CountsInitsStep, OnlySlotZeroStep, AcksShownStep,
       HostOnWireStep DEF BaseInv
  <2>2. collided' => misplaced'
    BY Zenon, <1>2 DEF BaseInv, Next, Tick, HistoryTick
  <2>3. QED
    BY <1>1, <2>1, <2>2 DEF BaseInv
<1>3. CASE UNCHANGED vars
  BY <1>1, <1>3 DEF BaseInv, ClosedEmpty, CountsInits, OnlySlotZero, AcksShown, HostOnWire,
     vars, hwVars, slaveVars, rxVars, mmVars, topVars, loaderVars, hostVars, historyVars
<1>4. QED
  BY <1>2, <1>3

(* The INIT packet restarts the FIFO, whatever was left in it.             *)
LEMMA RepairRestarts ==
  ASSUME BaseInv, Next, Arrives("INIT"), AtRest
  PROVE  RxRestart
<1>1. OpensSession(Ended)
  BY InitOpens DEF BaseInv
<1>2. QED
  BY <1>1, RestartCase DEF AtRest

LEMMA RepairRx ==
  ASSUME BaseInv, RxRestart, Next
  PROVE  RxInv'
<1>1. TypeInv /\ ClosedEmpty' /\ CountsInits' /\ OnlySlotZero'
  BY BaseInvStep DEF BaseInv
<1>2. /\ rx_fifo_wr_ptr' = SessionWrPtr /\ rx_fifo_count' = 1 /\ rd_data_available'
  BY DEF RxRestart
<1>3. ShownIfAny'
  BY <1>2 DEF ShownIfAny
<1>4. CASE state_rd = "INIT"
  BY <1>1, <1>3, <1>4, AlignedRestart DEF RxInv, AlignedAtFirst, InitInSlotZero
<1>5. CASE state_rd # "INIT"
  <2>1. rx_fifo_wr_ptr' = 0
    BY <1>2, <1>5 DEF SessionWrPtr
  <2>2. state_rd = "RD_WAIT_DATA" /\ left > 0 /\ wire.op = "INIT"
    BY <1>1, <1>5, RxTypes DEF RxRestart, OpensSession
  <2>3. sessions >= 2
    BY <2>2 DEF BaseInv, CountsInits
  <2>4. sessions' > 1
    BY <1>1, <2>3, RxTypes, TypeInvStep, HostStepFacts, SessionAssumption
       DEF TypeInv, TypeOK
  <2>5. QED
    BY <1>1, <1>2, <1>3, <2>1, <2>4 DEF RxInv, AlignedAtFirst, InitInSlotZero
<1>6. QED
  BY <1>4, <1>5

LEMMA RepairSession ==
  ASSUME BaseInv, Next, Arrives("INIT"), AtRest
  PROVE  SessionInv'
<1>1. RxRestart
  BY RepairRestarts
<1>2. TypeInv' /\ AcksShown' /\ RxInv'
  BY <1>1, BaseInvStep, RepairRx DEF BaseInv
<1>3. InitNotLost'
  BY <1>1 DEF RxRestart, OpensSession, InitNotLost, TakesInit, Presents
<1>4. ~collided'
  <2>1. ~Collides
    BY DEF AtRest, Collides
  <2>2. QED
    BY Zenon, <2>1 DEF Next, Tick, HistoryTick
<1>5. QED
  BY <1>2, <1>3, <1>4 DEF SessionInv

(* Until a packet meets a pop, and again from the INIT that repairs it.    *)
SoundSession == BaseInv /\ (~collided => SessionInv)

LEMMA SoundSessionStep == SoundSession /\ [Next]_vars => SoundSession'
<1> SUFFICES ASSUME SoundSession, [Next]_vars, ~collided' PROVE SessionInv'
  BY BaseInvStep DEF SoundSession
<1>1. CASE Next
  <2>1. ~Collides /\ (collided => Arrives("INIT") /\ AtRest)
    BY Zenon, <1>1 DEF Next, Tick, HistoryTick
  <2>2. CASE collided
    BY <1>1, <2>1, <2>2, RepairSession DEF SoundSession
  <2>3. CASE ~collided
    BY <1>1, <2>1, <2>3, SessionInvStep DEF SoundSession
  <2>4. QED
    BY <2>2, <2>3
<1>2. CASE UNCHANGED vars
  <2>1. ~collided
    BY <1>2 DEF vars, historyVars
  <2>2. QED
    BY <1>2, <2>1, SessionStutter DEF SoundSession
<1>3. QED
  BY <1>1, <1>2

LEMMA SoundSessionAlways == Spec => []SoundSession
<1>1. Init => SoundSession
  BY InitSessionInv, InitBaseInv DEF SoundSession
<1>2. QED
  BY <1>1, SoundSessionStep, PTL DEF Spec

(* An INIT packet is carried out whatever the link is doing when it        *)
(* arrives, until a packet ends at the edge that pops another one, and     *)
(* again from the next INIT that finds the link at rest.                   *)
THEOREM InitNotLostAlways == Spec => []InitNotLost
<1>1. SoundSession => InitNotLost
  BY DEF SoundSession, SessionInv, InitNotLost
<1>2. QED
  BY <1>1, SoundSessionAlways, PTL

-----------------------------------------------------------------------------
(* The receive side implements the bounded queue.  The abstract queue is   *)
(* read off the ring: rd_data, then the slots behind the read pointer.     *)
RingEntry(f, p, d, i) == IF i = 1 THEN d ELSE f[(p + i - 1) % Depth]

RingOf(f, p, c, d) == [i \in 1..c |-> RingEntry(f, p, d, i)]

LEMMA RingType ==
  ASSUME NEW f \in [Slot -> Packet], NEW p \in Slot, NEW c \in 0..Depth, NEW d \in Packet
  PROVE  /\ RingOf(f, p, c, d) \in Seq(Packet)
         /\ Len(RingOf(f, p, c, d)) = c
         /\ \A i \in 1..c : RingOf(f, p, c, d)[i] = RingEntry(f, p, d, i)
<1>1. c \in Nat /\ c <= Depth /\ Depth \in Nat
  BY DepthAssumption
<1>2. ASSUME NEW i \in 1..c
      PROVE  (p + (i - 1)) % Depth \in Slot
  <2>1. i - 1 \in 0..Depth
    BY <1>1
  <2>2. QED
    BY <2>1, RingIndex
<1> DEFINE r == [i \in 1..c |-> RingEntry(f, p, d, i)]
<1>3. r \in [1..c -> Packet]
  BY <1>2 DEF RingEntry
<1>4. r \in Seq(Packet) /\ Len(r) = c
  <2> HIDE DEF r
  <2>1. QED
    BY <1>1, <1>3, IsASeq, SeqDef, LenProperties
<1>5. RingOf(f, p, c, d) = r
  BY DEF RingOf
<1>6. QED
  BY <1>4, <1>5

LEMMA RingOne ==
  ASSUME NEW f \in [Slot -> Packet], NEW p \in Slot, NEW d \in Packet
  PROVE  RingOf(f, p, 1, d) = <<d>>
<1>1. 1 \in 0..Depth
  BY DepthAssumption
<1>2. /\ RingOf(f, p, 1, d) \in Seq(Packet)
      /\ Len(RingOf(f, p, 1, d)) = 1
      /\ RingOf(f, p, 1, d)[1] = d
  <2>1. \A i \in 1..1 : RingOf(f, p, 1, d)[i]
                       = RingEntry(f, p, d, i)
    BY <1>1, RingType
  <2>2. RingOf(f, p, 1, d) \in Seq(Packet) /\ Len(RingOf(f, p, 1, d)) = 1
    BY <1>1, RingType
  <2>3. QED
    BY <2>1, <2>2 DEF RingEntry
<1>3. <<d>> \in Seq(Packet) /\ Len(<<d>>) = 1 /\ <<d>>[1] = d
  OBVIOUS
<1>4. \A i \in 1..1 : RingOf(f, p, 1, d)[i] = <<d>>[i]
  BY <1>2, <1>3
<1>5. QED
  BY Zenon, <1>2, <1>3, <1>4, SeqEqual

LEMMA RingAppend ==
  ASSUME NEW f \in [Slot -> Packet], NEW p \in Slot, NEW c \in 0..Depth - 1,
         NEW d \in Packet, NEW x \in Packet
  PROVE  RingOf([f EXCEPT ![(p + c) % Depth] = x], p, c + 1, IF c > 0 THEN d ELSE x)
           = Append(RingOf(f, p, c, d), x)
<1> DEFINE g == [f EXCEPT ![(p + c) % Depth] = x]
           e == IF c > 0 THEN d ELSE x
           q == RingOf(f, p, c, d)
           r == RingOf(g, p, c + 1, e)
<1>1. c \in 0..Depth /\ c + 1 \in 0..Depth /\ c \in Nat /\ Depth \in Nat
  BY DepthAssumption
<1>2. (p + c) % Depth \in Slot
  BY <1>1, RingIndex
<1>3. g \in [Slot -> Packet] /\ e \in Packet
  BY <1>2
<1>4. /\ q \in Seq(Packet) /\ Len(q) = c
      /\ \A i \in 1..c : q[i] = RingEntry(f, p, d, i)
  <2>1. q \in Seq(Packet) /\ Len(q) = c
    BY <1>1, RingType
  <2>2. \A i \in 1..c : q[i] = RingEntry(f, p, d, i)
    BY <1>1, RingType
  <2>3. QED
    BY <2>1, <2>2
<1>5. /\ r \in Seq(Packet) /\ Len(r) = c + 1
      /\ \A i \in 1..c + 1 : r[i] = RingEntry(g, p, e, i)
  <2> HIDE DEF g, e
  <2> DEFINE n == c + 1
  <2>1. n \in 0..Depth
    BY <1>1
  <2> HIDE DEF n
  <2>2. RingOf(g, p, n, e) \in Seq(Packet)
    BY <1>3, <2>1, RingType
  <2>3. Len(RingOf(g, p, n, e)) = n
    BY <1>3, <2>1, RingType
  <2>4. \A i \in 1..n : RingOf(g, p, n, e)[i] = RingEntry(g, p, e, i)
    BY <1>3, <2>1, RingType
  <2>5. QED
    BY Zenon, <2>2, <2>3, <2>4 DEF n
<1>6. /\ Append(q, x) \in Seq(Packet) /\ Len(Append(q, x)) = c + 1
      /\ \A i \in 1..c : Append(q, x)[i] = q[i]
      /\ Append(q, x)[c + 1] = x
  <2> HIDE DEF q
  <2>1. QED
    BY <1>1, <1>4, AppendProperties
<1>7. ASSUME NEW i \in 1..c + 1
      PROVE  r[i] = Append(q, x)[i]
  <2>1. CASE i = c + 1
    <3>1. i - 1 = c
      BY <1>1, <2>1
    <3>2. g[(p + (i - 1)) % Depth] = x
      BY <1>2, <3>1
    <3>3. i = 1 => e = x
      BY <1>1, <2>1
    <3>4. QED
      BY <1>5, <1>6, <2>1, <3>2, <3>3 DEF RingEntry
  <2>2. CASE i # c + 1
    <3>1. i \in 1..c /\ i - 1 \in 0..Depth /\ i - 1 < c /\ c < Depth
      BY <1>1, <2>2
    <3>2. (p + (i - 1)) % Depth # (p + c) % Depth
      BY <1>1, <3>1, RingDistinct
    <3>3. (p + (i - 1)) % Depth \in Slot
      BY <3>1, RingIndex
    <3>4. g[(p + (i - 1)) % Depth] = f[(p + (i - 1)) % Depth]
      BY <3>2, <3>3
    <3>5. e = d
      BY <1>1, <3>1
    <3>6. QED
      BY <1>4, <1>5, <1>6, <3>1, <3>4, <3>5 DEF RingEntry
  <2>3. QED
    BY <2>1, <2>2
<1> HIDE DEF q, r
<1>8. r = Append(q, x)
  BY <1>5, <1>6, <1>7, SeqEqual
<1>9. QED
  BY <1>8 DEF q, r

LEMMA RingTail ==
  ASSUME NEW f \in [Slot -> Packet], NEW p \in Slot, NEW c \in 1..Depth, NEW d \in Packet
  PROVE  RingOf(f, (p + 1) % Depth, c - 1, IF c > 1 THEN f[(p + 1) % Depth] ELSE d)
           = Tail(RingOf(f, p, c, d))
<1> DEFINE n == (p + 1) % Depth
           e == IF c > 1 THEN f[n] ELSE d
           q == RingOf(f, p, c, d)
           r == RingOf(f, n, c - 1, e)
<1>1. /\ c \in 0..Depth /\ c - 1 \in 0..Depth /\ c \in Nat \ {0} /\ Depth \in Nat
      /\ 1 \in 0..Depth
  BY DepthAssumption
<1>2. n \in Slot
  BY <1>1, RingIndex
<1>3. e \in Packet
  BY <1>2
<1>4. /\ q \in Seq(Packet) /\ Len(q) = c
      /\ \A i \in 1..c : q[i] = RingEntry(f, p, d, i)
  <2>1. q \in Seq(Packet) /\ Len(q) = c
    BY <1>1, RingType
  <2>2. \A i \in 1..c : q[i] = RingEntry(f, p, d, i)
    BY <1>1, RingType
  <2>3. QED
    BY <2>1, <2>2
<1>5. /\ r \in Seq(Packet) /\ Len(r) = c - 1
      /\ \A i \in 1..c - 1 : r[i] = RingEntry(f, n, e, i)
  <2> HIDE DEF n, e
  <2>1. r \in Seq(Packet) /\ Len(r) = c - 1
    BY <1>1, <1>2, <1>3, RingType
  <2>2. \A i \in 1..c - 1 : r[i] = RingEntry(f, n, e, i)
    BY <1>1, <1>2, <1>3, RingType
  <2>3. QED
    BY <2>1, <2>2
<1>6. /\ Tail(q) \in Seq(Packet) /\ Len(Tail(q)) = c - 1
      /\ \A i \in 1..c - 1 : Tail(q)[i] = q[i + 1]
  <2> HIDE DEF q
  <2>1. q # << >>
    BY <1>1, <1>4
  <2>2. QED
    BY <1>1, <1>4, <2>1, HeadTailProperties
<1>7. ASSUME NEW i \in 1..c - 1
      PROVE  r[i] = Tail(q)[i]
  <2>1. i + 1 \in 1..c /\ (i + 1) - 1 = i /\ i + 1 # 1 /\ i \in Nat /\ c > 1
    BY <1>1
  <2>2. Tail(q)[i] = f[(p + i) % Depth]
    BY <1>4, <1>6, <2>1 DEF RingEntry
  <2>3. CASE i = 1
    BY <1>5, <2>1, <2>2, <2>3 DEF RingEntry
  <2>4. CASE i # 1
    <3>1. i - 1 \in 0..Depth - 1 /\ (i - 1) + 1 = i
      BY <1>1, <2>1
    <3>2. (n + (i - 1)) % Depth = (p + i) % Depth
      BY <3>1, RingShift
    <3>3. QED
      BY <1>5, <2>2, <2>4, <3>2 DEF RingEntry
  <2>5. QED
    BY <2>3, <2>4
<1> HIDE DEF q, r
<1>8. r = Tail(q)
  BY <1>5, <1>6, <1>7, SeqEqual
<1>9. QED
  BY <1>8 DEF q, r

QueueNow  == RingOf(rx_fifo, rx_fifo_rd_ptr, rx_fifo_count, rd_data)
QueueNext == RingOf(rx_fifo', rx_fifo_rd_ptr', rx_fifo_count', rd_data')
ShownNow  == IF rd_data_available THEN rd_data ELSE NoPacket
ShownNext == IF rd_data_available' THEN rd_data' ELSE NoPacket

(* A packet is presented exactly while the queue is not empty: the head.   *)
LEMMA HeadShown ==
  ASSUME TypeInv', ShownIfAny'
  PROVE  ShownNext = Queue!Presented(QueueNext)
<1>1. /\ rx_fifo' \in [Slot -> Packet] /\ rx_fifo_rd_ptr' \in Slot
      /\ rx_fifo_count' \in 0..Depth /\ rd_data' \in Packet /\ Depth \in Nat
  BY DepthAssumption DEF TypeInv, TypeOK, SlaveTypeOK
<1>2. rd_data_available' <=> rx_fifo_count' > 0
  BY DEF ShownIfAny
<1>3. QueueNext \in Seq(Packet) /\ Len(QueueNext) = rx_fifo_count'
  BY <1>1, RingType DEF QueueNext
<1>4. CASE rx_fifo_count' = 0
  <2>1. QueueNext = << >>
    BY <1>3, <1>4, EmptySeq
  <2>2. ~rd_data_available'
    BY <1>2, <1>4
  <2>3. QED
    BY <2>1, <2>2 DEF ShownNext, Queue!Presented
<1>5. CASE rx_fifo_count' # 0
  <2>1. rx_fifo_count' > 0 /\ 1 \in 1..rx_fifo_count'
    BY <1>1, <1>5
  <2>2. QueueNext[1] = rd_data'
    <3>1. \A i \in 1..rx_fifo_count' :
            QueueNext[i] = RingEntry(rx_fifo', rx_fifo_rd_ptr', rd_data', i)
      BY <1>1, RingType DEF QueueNext
    <3>2. QED
      BY <2>1, <3>1 DEF RingEntry
  <2>3. QueueNext # << >> /\ Head(QueueNext) = rd_data'
    BY <1>3, <2>1, <2>2
  <2>4. QED
    BY <1>2, <2>1, <2>3 DEF ShownNext, Queue!Presented
<1>6. QED
  BY <1>4, <1>5

LEMMA QueueRestart ==
  ASSUME TypeInv, RxRestart
  PROVE  Ended \in Packet /\ QueueNext = <<Ended>> /\ ShownNext = Ended
<1>1. Ended \in Packet
  BY RxTypes DEF RxRestart, OpensSession
<1>2. /\ rx_fifo_count' = 1 /\ rd_data' = Ended /\ rd_data_available'
      /\ rx_fifo_rd_ptr' = 0
      /\ rx_fifo' = [rx_fifo EXCEPT ![0] = Ended]
  BY DEF RxRestart
<1>3. rx_fifo' \in [Slot -> Packet] /\ rx_fifo_rd_ptr' \in Slot
  BY <1>1, <1>2, RxTypes, DepthAssumption DEF Slot
<1>4. QueueNext = <<Ended>>
  BY <1>1, <1>2, <1>3, RingOne DEF QueueNext
<1>5. QED
  BY <1>1, <1>2, <1>4 DEF ShownNext

(* A packet that is not misplaced goes to the slot behind the last one.    *)
LEMMA QueueEnqueue ==
  ASSUME TypeInv, RxInv, RxEnqueue, ~Misplaces
  PROVE  Ended \in Packet /\ Len(QueueNow) < Depth /\ QueueNext = Append(QueueNow, Ended)
<1>1. /\ rx_fifo \in [Slot -> Packet] /\ rx_fifo_rd_ptr \in Slot /\ rd_data \in Packet
      /\ rx_fifo_count \in 0..Depth - 1 /\ Ended \in Packet
      /\ rx_fifo_count \in Nat /\ Depth \in Nat /\ rx_fifo_count \in 0..Depth
  BY RxTypes, DepthAssumption DEF TypeInv, TypeOK, SlaveTypeOK, RxEnqueue, Queues
<1>2. rx_fifo_count > 0 => rx_fifo_wr_ptr = (rx_fifo_rd_ptr + rx_fifo_count) % Depth
  BY DEF RxInv, AlignedAtFirst, Aligned, Misplaces, RxEnqueue
<1>3. rx_fifo_rd_ptr' = rx_fifo_rd_ptr /\ rx_fifo_count' = rx_fifo_count + 1
      /\ rx_fifo' = [rx_fifo EXCEPT ![rx_fifo_wr_ptr] = Ended]
  BY DEF RxEnqueue
<1>4. rd_data' = IF rx_fifo_count > 0 THEN rd_data ELSE Ended
  BY DEF RxEnqueue, RxInv, ShownIfAny
<1>5. Len(QueueNow) = rx_fifo_count
  BY <1>1, RingType DEF QueueNow
<1>6. CASE rx_fifo_count > 0
  <2>1. QueueNext = RingOf([rx_fifo EXCEPT ![(rx_fifo_rd_ptr + rx_fifo_count) % Depth] = Ended],
                           rx_fifo_rd_ptr, rx_fifo_count + 1,
                           IF rx_fifo_count > 0 THEN rd_data ELSE Ended)
    BY Zenon, <1>2, <1>3, <1>4, <1>6 DEF QueueNext
  <2>2. QueueNext = Append(QueueNow, Ended)
    BY Zenon, <1>1, <2>1, RingAppend DEF QueueNow
  <2>3. QED
    BY <1>1, <1>5, <2>2
<1>7. CASE rx_fifo_count = 0
  <2>1. rx_fifo' \in [Slot -> Packet]
    BY <1>1, <1>3, RxTypes
  <2>2. QueueNext = <<Ended>>
    <3>1. rx_fifo_count' = 1 /\ rd_data' = Ended
      BY <1>3, <1>4, <1>7
    <3>2. QueueNext = RingOf(rx_fifo', rx_fifo_rd_ptr', 1, Ended)
      BY Zenon, <3>1 DEF QueueNext
    <3>3. rx_fifo_rd_ptr' \in Slot
      BY <1>1, <1>3
    <3>4. QED
      BY Zenon, <1>1, <2>1, <3>2, <3>3, RingOne
  <2>3. QueueNow \in Seq(Packet) /\ Len(QueueNow) = 0
    BY <1>1, <1>7, RingType DEF QueueNow
  <2>4. QueueNow = << >>
    BY <2>3, EmptySeq
  <2>5. Append(QueueNow, Ended) = <<Ended>>
    BY <1>1, <2>4
  <2>6. QED
    BY <2>2, <2>5, <1>5, <1>7, <1>1
<1>8. QED
  BY <1>1, <1>5, <1>6, <1>7

LEMMA QueueDequeue ==
  ASSUME TypeInv, RxPop
  PROVE  QueueNow # << >> /\ QueueNext = Tail(QueueNow)
<1>1. /\ rx_fifo \in [Slot -> Packet] /\ rx_fifo_rd_ptr \in Slot /\ rd_data \in Packet
      /\ rx_fifo_count \in 1..Depth /\ Depth \in Nat /\ rx_fifo_count \in 0..Depth
  BY RxTypes, DepthAssumption DEF TypeInv, TypeOK, SlaveTypeOK, RxPop
<1>2. /\ rx_fifo' = rx_fifo
      /\ rx_fifo_rd_ptr' = (rx_fifo_rd_ptr + 1) % Depth
      /\ rx_fifo_count' = rx_fifo_count - 1
      /\ rd_data' = IF rx_fifo_count > 1 THEN rx_fifo[(rx_fifo_rd_ptr + 1) % Depth]
                    ELSE rd_data
  BY DEF RxPop
<1>3. QueueNow \in Seq(Packet) /\ Len(QueueNow) = rx_fifo_count
  BY <1>1, RingType DEF QueueNow
<1>4. QueueNow # << >>
  BY <1>1, <1>3
<1>5. QueueNext = Tail(QueueNow)
  BY Zenon, <1>1, <1>2, RingTail DEF QueueNow, QueueNext
<1>6. QED
  BY <1>4, <1>5

(* What may enter the abstract queue is what the ring takes.               *)
LEMMA QueueGuards ==
  ASSUME TypeInv, RxInv
  PROVE  /\ Queue!Opens <=> OpensSession(Ended)
         /\ Queue!Enters <=> Queues(Ended)
<1>1. Queue!Opens <=> Arrives("INIT")
  BY DEF Queue!Opens, Arrives
<1>2. /\ rx_fifo \in [Slot -> Packet] /\ rx_fifo_rd_ptr \in Slot
      /\ rx_fifo_count \in 0..Depth /\ rd_data \in Packet
  BY RxTypes DEF TypeInv, TypeOK, SlaveTypeOK
<1>3. Len(QueueNow) = rx_fifo_count
  BY <1>2, RingType DEF QueueNow
<1>4. Queue!Enters <=> Queues(Ended)
  BY Zenon, <1>3 DEF Queue!Enters, Queues, QueueNow, RingOf, RingEntry
<1>5. QED
  BY <1>1, <1>4, InitOpens DEF RxInv

LEMMA QueueStep ==
  ASSUME SoundSession, [Next]_vars, ~misplaced'
  PROVE  [Queue!Next]_Queue!pqVars
<1>1. CASE Next
  <2>1. ~Misplaces /\ ~Collides /\ ~(misplaced /\ collided)
    BY Zenon, <1>1 DEF Next, Tick, HistoryTick
  <2> SessionInv /\ TypeInv /\ RxInv
    BY <2>1 DEF SoundSession, BaseInv, SessionInv
  <2> TypeInv' /\ RxInv'
    BY <1>1, <2>1, SessionInvStep DEF SessionInv
  <2>2. /\ RxRestart \/ RxEnqueue \/ RxPop \/ RxIdle
        /\ ShownNext = Queue!Presented(QueueNext)
    BY <1>1, <2>1, RxCases, HeadShown DEF RxInv
  <2>3. CASE RxRestart
    <3>1. Ended # NoPacket /\ Ended.op = "INIT" /\ state_rd' = "RD_WAIT_DATA"
      BY <2>3 DEF RxRestart, OpensSession
    <3>2. QueueNext = <<Ended>> /\ ShownNext = Ended
      BY <2>3, QueueRestart
    <3>3. Queue!Restart
      BY Zenon, <3>1, <3>2
         DEF Queue!Restart, Queue!Opens, QueueNext, ShownNext, RingOf, RingEntry
    <3>4. QED
      BY <3>3 DEF Queue!Next
  <2>4. CASE RxEnqueue
    <3>1. /\ Ended # NoPacket /\ Ended.op # "INIT" /\ state_rd = "RD_WAIT_DATA"
          /\ state_rd' = state_rd
      BY <2>4 DEF RxEnqueue, Queues
    <3>2. Len(QueueNow) < Depth /\ QueueNext = Append(QueueNow, Ended)
      BY <2>1, <2>4, QueueEnqueue
    <3>3. Queue!Enqueue
      BY Zenon, <2>2, <3>1, <3>2
         DEF Queue!Enqueue, Queue!Enters, QueueNow, QueueNext, ShownNext, RingOf, RingEntry
    <3>4. QED
      BY <3>3 DEF Queue!Next
  <2>5. CASE RxPop
    <3>1. state_rd' = state_rd /\ ~OpensSession(Ended) /\ ~Queues(Ended)
      BY <2>5 DEF RxPop, OpensSession, Queues
    <3>2. QueueNow # << >> /\ QueueNext = Tail(QueueNow)
      BY <2>5, QueueDequeue
    <3>3. ~Queue!Opens /\ ~Queue!Enters
      BY <3>1, QueueGuards
    <3>4. Queue!Dequeue
      BY Zenon, <2>2, <3>1, <3>2, <3>3
         DEF Queue!Dequeue, QueueNow, QueueNext, ShownNext, RingOf, RingEntry
    <3>5. QED
      BY <3>4 DEF Queue!Next
  <2>6. CASE RxIdle
    <3>1. ~Queue!Opens /\ ~Queue!Enters
      BY <2>6, QueueGuards DEF RxIdle
    <3>2. Queue!Rest
      BY <2>6, <3>1 DEF RxIdle, Queue!Rest
    <3>3. QED
      BY <3>2 DEF Queue!Next
  <2>7. QED
    BY <2>2, <2>3, <2>4, <2>5, <2>6
<1>2. CASE UNCHANGED vars
  BY <1>2 DEF Queue!pqVars, Ended, vars, hwVars, slaveVars, rxVars, hostVars
<1>3. QED
  BY <1>1, <1>2

LEMMA QueueInit == Init => Queue!Init
<1> SUFFICES ASSUME Init PROVE Queue!Init
  OBVIOUS
<1>1. /\ state_rd = "INIT" /\ ~rd_data_available /\ rx_fifo_count = 0 /\ rx_fifo_rd_ptr = 0
      /\ rx_fifo \in [Slot -> Packet] /\ rd_data \in Packet
  BY InitTypeInv DEF Init, SlaveInit, TypeInv, TypeOK, SlaveTypeOK
<1>2. 0 \in 0..Depth /\ 0 \in Slot
  BY DepthAssumption DEF Slot
<1>3. QueueNow \in Seq(Packet) /\ Len(QueueNow) = 0
  BY <1>1, <1>2, RingType DEF QueueNow
<1>4. QueueNow = << >>
  BY <1>3, EmptySeq
<1>5. Ended = NoPacket
  BY DEF Init, Ended
<1>6. QED
  BY Zenon, <1>1, <1>4, <1>5 DEF Queue!Init, QueueNow, RingOf, RingEntry

(* The ring of spi_slave implements the bounded queue, for a FIFO of any   *)
(* depth: every packet that ends while there is room is queued at that     *)
(* edge, none is dropped or shown twice, and INIT alone empties the FIFO,  *)
(* until a packet goes to a slot not its own or meets a pop, and again     *)
(* from the reset of the CPU that the next good INIT brings about.         *)
THEOREM QueueImplemented == Spec => ImplementsQueue
<1>1. Init => Queue!Init
  BY QueueInit
<1>2. SoundSession /\ [Next]_vars => (~misplaced' => [Queue!Next]_Queue!pqVars)
  BY QueueStep
<1>3. QED
  BY <1>1, <1>2, SoundSessionAlways, PTL DEF Spec, ImplementsQueue

-----------------------------------------------------------------------------
(* Loading and the handler's mailbox.  What one edge does to each part of  *)
(* the chip, read off the actions once.                                    *)
Waiting == state = "REQ_READ_SPI_STATUS"

Empty    == rx_fifo_count = 0 /\ ~rd_data_available
Only(op) == rx_fifo_count = 1 /\ rd_data_available /\ rd_data.op = op

(* The mapped memory: a word is not written before it is on the port.      *)
LEMMA LoaderFacts ==
  ASSUME Next
  PROVE  /\ Waiting /\ cpu_init =>
              state' = "INIT_CPU" /\ ~spi_firm_ack' /\ cpu_reset' = cpu_reset
         /\ Waiting /\ ~cpu_init /\ firm_wr =>
              state' = "WRITE_MEMORY" /\ spi_firm_ack' /\ cpu_reset' = cpu_reset
         /\ Waiting /\ ~cpu_init /\ ~firm_wr /\ cpu_start =>
              state' = "START_CPU" /\ ~spi_firm_ack' /\ cpu_reset' = cpu_reset
         /\ Waiting /\ ~cpu_init /\ ~firm_wr /\ ~cpu_start =>
              Waiting' /\ ~spi_firm_ack' /\ cpu_reset' = cpu_reset
         /\ state = "WRITE_MEMORY" => Waiting' /\ cpu_reset' = cpu_reset
         /\ state = "START_CPU" => Waiting' /\ ~cpu_reset'
         /\ state = "INIT_CPU" => Waiting' /\ cpu_reset' /\ counter_firmware_address' = 0
         /\ state = "WRITE_MEMORY" =>
              counter_firmware_address' = (counter_firmware_address + 1) % AddrSpace
         /\ state \notin {"WRITE_MEMORY", "INIT_CPU"} =>
              counter_firmware_address' = counter_firmware_address
<1>1. LoaderTick
  BY DEF Next, Tick, TopTick
<1>2. CASE SeeInit
  BY <1>2 DEF SeeInit, Acks, Waiting
<1>3. CASE SeeFirm
  BY <1>3 DEF SeeFirm, Acks, Waiting
<1>4. CASE SeeStart
  BY <1>4 DEF SeeStart, Acks, Waiting
<1>5. CASE SeeNothing
  BY <1>5 DEF SeeNothing, Acks, Waiting
<1>6. CASE WriteMemory
  BY <1>6 DEF WriteMemory, Acks, Waiting
<1>7. CASE StartCpu
  BY <1>7 DEF StartCpu, Acks, Waiting
<1>8. CASE InitCpu
  BY <1>8 DEF InitCpu, Acks, Waiting
<1>9. QED
  BY <1>1, <1>2, <1>3, <1>4, <1>5, <1>6, <1>7, <1>8 DEF LoaderTick

LEMMA BusFacts ==
  ASSUME Next
  PROVE  /\ spi_wr_req' = "ack" <=> write_req = "ack"
         /\ write_req # "mem" /\ state # "WRITE_MEMORY" => memory_wr' = NoWrite
         /\ write_req # "mem" /\ state = "WRITE_MEMORY" =>
              memory_wr' = [addr |-> counter_firmware_address, data |-> firm_data]
         /\ write_req = "mem" => memory_wr' = [addr |-> 0, data |-> 0]
         /\ memory_wr = NoWrite => memory' = memory
         /\ memory_wr # NoWrite =>
              memory' = [memory EXCEPT ![memory_wr.addr] = memory_wr.data]
BY DEF Next, Tick, TopTick, BusTick

LEMMA MmFacts ==
  ASSUME Next
  PROVE  /\ rd_ack' <=> TakesInit \/ TakesNop \/ TakesFirm \/ TakesStart \/ TakesCmd
         /\ status0' <=> spi_wr_req # "ack" /\ (TakesCmd \/ (status0 /\ ~TakesInit))
         /\ read_data_register' = IF TakesCmd THEN rd_data ELSE read_data_register
         /\ firm_wr' <=> TakesFirm \/ (firm_wr /\ ~TakesInit /\ ~spi_firm_ack)
         /\ firm_data' = IF TakesFirm THEN rd_data.id ELSE firm_data
         /\ cpu_start' <=> (TakesStart \/ cpu_start) /\ ~(spi_cpu_start_ack /\ cpu_start)
         /\ cpu_init' <=> (TakesInit \/ cpu_init) /\ ~(spi_cpu_init_ack /\ cpu_init)
BY Zenon DEF Next, Tick, MmTick

(* With nothing presented, or one packet, what spi_mm does is plain.       *)
LEMMA MmEmpty ==
  ASSUME Next, Empty
  PROVE  /\ ~rd_ack'
         /\ status0' => status0
         /\ read_data_register' = read_data_register
         /\ firm_wr' <=> firm_wr /\ ~spi_firm_ack
         /\ cpu_start' <=> cpu_start /\ ~spi_cpu_start_ack
         /\ cpu_init' <=> cpu_init /\ ~spi_cpu_init_ack
<1>1. ~TakesInit /\ ~TakesNop /\ ~TakesFirm /\ ~TakesStart /\ ~TakesCmd
  BY DEF Empty, TakesInit, TakesNop, TakesFirm, TakesStart, TakesCmd, Presents
<1>2. QED
  BY Zenon, <1>1, MmFacts

LEMMA MmInitOnly ==
  ASSUME Next, Only("INIT")
  PROVE  /\ rd_ack'
         /\ ~status0'
         /\ read_data_register' = read_data_register
         /\ ~firm_wr'
         /\ cpu_start' <=> cpu_start /\ ~spi_cpu_start_ack
         /\ cpu_init' <=> ~(spi_cpu_init_ack /\ cpu_init)
<1>1. TakesInit /\ ~TakesNop /\ ~TakesFirm /\ ~TakesStart /\ ~TakesCmd
  BY DEF Only, TakesInit, TakesNop, TakesFirm, TakesStart, TakesCmd, Presents
<1>2. QED
  BY Zenon, <1>1, MmFacts

LEMMA MmFirmOnly ==
  ASSUME Next, Only("FIRM"), ~status0
  PROVE  /\ rd_ack' <=> ~firm_wr
         /\ ~status0'
         /\ read_data_register' = read_data_register
         /\ firm_wr' <=> ~(firm_wr /\ spi_firm_ack)
         /\ firm_data' = IF firm_wr THEN firm_data ELSE rd_data.id
         /\ cpu_start' <=> cpu_start /\ ~spi_cpu_start_ack
         /\ cpu_init' <=> cpu_init /\ ~spi_cpu_init_ack
<1>1. ~TakesInit /\ ~TakesNop /\ ~TakesStart /\ ~TakesCmd
  BY DEF Only, TakesInit, TakesNop, TakesStart, TakesCmd, Presents
<1>2. TakesFirm <=> ~firm_wr
  BY Zenon DEF Only, TakesFirm, Presents
<1>3. QED
  BY Zenon, <1>1, <1>2, MmFacts

LEMMA MmStartOnly ==
  ASSUME Next, Only("START"), ~status0, ~firm_wr
  PROVE  /\ rd_ack'
         /\ ~status0'
         /\ read_data_register' = read_data_register
         /\ ~firm_wr'
         /\ cpu_start' <=> ~(cpu_start /\ spi_cpu_start_ack)
         /\ cpu_init' <=> cpu_init /\ ~spi_cpu_init_ack
<1>1. ~TakesInit /\ ~TakesNop /\ TakesStart /\ ~TakesCmd /\ ~TakesFirm
  BY DEF Only, TakesInit, TakesNop, TakesStart, TakesFirm, TakesCmd, Presents
<1>2. QED
  BY Zenon, <1>1, MmFacts

(* The CPU in reset, and the CPU's side of the mailbox.                    *)
LEMMA CpuFacts ==
  ASSUME TypeInv, Next
  PROVE  /\ cpu_reset => cpu_pc' = "compute" /\ write_req' = "none"
         /\ write_req' = "mem" => ~cpu_reset
         /\ write_req' = "ack" => cpu_pc' \in {"compute", "getc_wait"} /\ cpu_wait' = CpuGap
         /\ cpu_wait > 0 =>
              \/ cpu_pc' = "compute"
              \/ cpu_pc' = cpu_pc /\ cpu_wait' = cpu_wait - 1
         /\ cpu_pc' = "getc_opcode" =>
              \/ cpu_pc = "getc_opcode"
              \/ cpu_pc = "getc_wait" /\ status0 /\ cpu_wait = 0
         /\ cpu_pc' \in {"getc_char", "getc_drop", "getc_ack"} =>
              \/ cpu_pc = "getc_opcode" /\ opcode_seen' = read_data_register
              \/ /\ cpu_pc \in {"getc_char", "getc_drop", "getc_ack"}
                 /\ opcode_seen' = opcode_seen
<1>1. CpuTick
  BY DEF Next, Tick
<1>2. cpu_pc \in CpuStates /\ cpu_wait \in Nat /\ CpuGap \in Nat
  BY TimingAssumption DEF TypeInv, TypeOK
<1> USE <1>2
<1>3. CASE CpuReset
  BY <1>3 DEF CpuReset
<1>4. CASE CpuBusy
  BY <1>4 DEF CpuBusy
<1>5. CASE CpuStep
  <2>1. /\ ~cpu_reset /\ cpu_wait = 0
        /\ cpu_wait' = IF write_req' = "mem" \/ cpu_pc' # cpu_pc THEN CpuGap ELSE 0
    BY <1>5 DEF CpuStep
  <2>2. CASE CpuCompute
    BY <2>1, <2>2 DEF CpuCompute
  <2>3. CASE CpuPollFree
    BY <2>1, <2>3 DEF CpuPollFree
  <2>4. CASE CpuSend
    BY <2>1, <2>4 DEF CpuSend
  <2>5. CASE CpuPollMail
    BY <2>1, <2>5 DEF CpuPollMail
  <2>6. CASE CpuReadOpcode
    BY <2>1, <2>6 DEF CpuReadOpcode
  <2>7. CASE CpuReadChar
    BY <2>1, <2>7 DEF CpuReadChar
  <2>8. CASE CpuAck
    BY <2>1, <2>8 DEF CpuAck
  <2>9. QED
    BY <1>5, <2>2, <2>3, <2>4, <2>5, <2>6, <2>7, <2>8 DEF CpuStep
<1>6. QED
  BY <1>1, <1>3, <1>4, <1>5 DEF CpuTick

(* The edges at which no packet ends.                                      *)
LEMMA QuietFacts ==
  ASSUME TypeInv, RxInv, ~collided, ~Collides, Next, Ended = NoPacket
  PROVE  /\ state_rd' = state_rd
         /\ sent' = sent
         /\ init_owed' <=> init_owed /\ state # "INIT_CPU"
         /\ start_owed' <=> start_owed /\ state # "START_CPU"
         /\ misplaced' <=> misplaced /\ state # "INIT_CPU"
         /\ buffer_rd_ack' <=> rd_ack /\ ~buffer_rd_ack
         /\ Empty => Empty'
         /\ \A op \in Opcodes : Only(op) /\ buffer_rd_ack => Empty'
         /\ \A op \in Opcodes : Only(op) /\ ~buffer_rd_ack => Only(op)' /\ rd_data' = rd_data
<1>1. \A op \in Opcodes : ~Arrives(op)
  BY DEF Arrives
<1>2. ~Queues(Ended) /\ ~OpensSession(Ended) /\ ~Misplaces
  BY DEF Queues, OpensSession, Misplaces
<1>3. /\ sent' = sent
      /\ init_owed' <=> init_owed /\ state # "INIT_CPU"
      /\ start_owed' <=> start_owed /\ state # "START_CPU"
      /\ misplaced' <=> misplaced /\ state # "INIT_CPU"
  BY Zenon, <1>1, <1>2 DEF Next, Tick, HistoryTick, Arrives
<1>4. RxPop \/ RxIdle
  BY <1>2, RxCases DEF RxInv, RxRestart, RxEnqueue
<1>5. state_rd' = state_rd
  BY <1>4 DEF RxPop, RxIdle
<1>6. buffer_rd_ack' <=> rd_ack /\ ~buffer_rd_ack
  BY RxCases DEF RxInv
<1>7. Empty => Empty'
  BY <1>4 DEF Empty, RxPop, RxIdle
<1>8. \A op \in Opcodes : Only(op) /\ buffer_rd_ack => Empty'
  <2> SUFFICES ASSUME rx_fifo_count = 1, buffer_rd_ack PROVE Empty'
    BY DEF Only
  <2>1. Pops
    BY DEF Pops
  <2>2. RxPop
    BY <1>4, <2>1 DEF RxIdle
  <2>3. rx_fifo_count' = 0
    BY <2>2 DEF RxPop
  <2>4. ~(rx_fifo_count > 1)
    OBVIOUS
  <2>5. ~rd_data_available'
    BY Zenon, <2>2, <2>4 DEF RxPop
  <2>6. QED
    BY <2>3, <2>5 DEF Empty
<1>9. \A op \in Opcodes : Only(op) /\ ~buffer_rd_ack => Only(op)' /\ rd_data' = rd_data
  BY <1>4 DEF Only, RxPop, RxIdle
<1>10. QED
  BY <1>3, <1>5, <1>6, <1>7, <1>8, <1>9

(* Since(k): no packet ended in the last k - 1 edges, so none ends now.    *)
Since(k) == left = 0 \/ left + k >= Xfer + 2

LEMMA NoArrival ==
  ASSUME TypeInv, Next, NEW k \in 1..Xfer, Since(k)
  PROVE  Ended = NoPacket /\ Since(k + 1)'
<1>1. left \in Nat /\ Xfer \in Nat /\ k \in Nat
  BY TimingAssumption DEF TypeInv, TypeOK
<1>2. left # 1
  BY <1>1 DEF Since
<1>3. Ended = NoPacket
  BY <1>2 DEF Ended
<1>4. Since(k + 1)'
  BY <1>1, <1>2, <1>3, HostStepFacts DEF Since
<1>5. QED
  BY <1>3, <1>4

LEMMA ArrivalEnds ==
  ASSUME TypeInv, Next, Ended # NoPacket
  PROVE  left = 1 /\ left' = 0 /\ host' = host /\ wire = Ended /\ Since(1)'
<1>1. left = 1 /\ wire = Ended
  BY DEF Ended
<1>2. ContinueTransfer
  BY <1>1, TimingAssumption DEF Next, Tick, HostTick, StartTransfer, NoTransfer
<1>3. left' = 0 /\ host' = host
  BY <1>1, <1>2 DEF ContinueTransfer
<1>4. QED
  BY <1>1, <1>3 DEF Since


-----------------------------------------------------------------------------
(* The link between two packets, and after each kind of packet that starts *)
(* something: the invariant says where the chip is by where the packet is. *)
HostNotLoading ==
  /\ left > 0 => wire.op \notin {"FIRM", "START"}
  /\ host = "load" => left > 0 /\ wire.op = "INIT"

Handles == {"getc_opcode", "getc_char", "getc_drop", "getc_ack"}

StartAlone == cpu_start => state = "START_CPU" \/ (Waiting /\ ~firm_wr)

(* The host talks to a program, or polls: nothing in the FIFO concerns the *)
(* loader, which has nothing to do, until a packet is misplaced.           *)
Calm ==
  /\ rd_data_available => rd_data.op \in {"CMD", "NOP"}
  /\ \A i \in 1..rx_fifo_count - 1 :
       rx_fifo[(rx_fifo_rd_ptr + i) % Depth].op \in {"CMD", "NOP"}
  /\ Waiting /\ ~firm_wr /\ ~cpu_start

Talking ==
  /\ HostNotLoading
  /\ ~init_owed /\ ~start_owed
  /\ rd_data_available => rd_data.op # "INIT"
  /\ ~cpu_init /\ state # "INIT_CPU"
  /\ StartAlone
  /\ cpu_reset => write_req # "mem"
  /\ cpu_pc \in Handles => status0
  /\ ~misplaced => Calm

(* The edges after an INIT packet: spi_mm takes it, the loader leaves what *)
(* it is doing, resets the CPU and the load address.                       *)
Restarting == state_rd = "RD_WAIT_DATA" /\ ~start_owed /\ sent = << >>

Restarted ==
  /\ Restarting
  /\ Waiting /\ ~firm_wr /\ ~cpu_start /\ ~cpu_init
  /\ ~status0 /\ cpu_reset /\ counter_firmware_address = 0
  /\ ~init_owed /\ ~misplaced

Resetting ==
  /\ Restarting /\ init_owed
  /\ cpu_init /\ ~firm_wr /\ ~status0 /\ ~cpu_start
  /\ state = "INIT_CPU"

Init1 ==
  /\ Since(1) /\ Restarting /\ init_owed
  /\ Only("INIT")
  /\ ~cpu_init /\ state # "INIT_CPU" /\ StartAlone
  /\ cpu_reset => write_req # "mem"
  /\ ~misplaced => Waiting /\ ~firm_wr /\ ~cpu_start

Init2 ==
  /\ Since(2) /\ Restarting /\ init_owed
  /\ rd_ack
  /\ Only("INIT") \/ (Empty /\ ~buffer_rd_ack)
  /\ cpu_init /\ ~firm_wr /\ ~status0
  /\ state # "INIT_CPU" /\ (cpu_start => state = "START_CPU")
  /\ cpu_reset => write_req # "mem"
  /\ ~misplaced => Waiting

Init3 ==
  /\ Since(3) /\ Restarting /\ init_owed
  /\ (Only("INIT") /\ buffer_rd_ack) \/ Empty
  /\ cpu_init /\ ~firm_wr /\ ~status0 /\ ~cpu_start
  /\ state = "INIT_CPU" \/ (Waiting /\ misplaced)

Init4 == Since(4) /\ Empty /\ (Resetting \/ Restarted)

Init5 == Since(5) /\ Empty /\ ~rd_ack /\ Restarted

Init6 ==
  /\ Since(6) /\ Empty /\ ~rd_ack /\ ~buffer_rd_ack /\ Restarted
  /\ ~spi_firm_ack /\ write_req = "none" /\ cpu_pc = "compute"

(* Loading: the CPU is in reset, and what was sent is in the memory if it  *)
(* is shorter than the memory.                                             *)
Halted ==
  /\ state_rd = "RD_WAIT_DATA" /\ ~init_owed /\ ~misplaced /\ ~status0
  /\ cpu_reset /\ write_req = "none" /\ cpu_pc = "compute" /\ ~cpu_init

Fits == Len(sent) < AddrSpace

InMemory(n) ==
  Fits => /\ counter_firmware_address = n
          /\ \A i \in 1..n : memory[i - 1] = sent[i]

Ready ==
  /\ Halted /\ Empty /\ ~rd_ack /\ ~buffer_rd_ack
  /\ Waiting /\ ~firm_wr /\ ~cpu_start /\ ~spi_firm_ack /\ ~start_owed
  /\ memory_wr = NoWrite
  /\ InMemory(Len(sent))

(* The edges after a FIRM packet ...                                       *)
Firm ==
  /\ Halted /\ ~cpu_start /\ ~start_owed
  /\ Len(sent) > 0

Firm1 ==
  /\ Since(1) /\ Firm
  /\ Only("FIRM") /\ rd_data.id = sent[Len(sent)]
  /\ ~rd_ack /\ ~buffer_rd_ack
  /\ Waiting /\ ~firm_wr /\ ~spi_firm_ack
  /\ memory_wr = NoWrite /\ InMemory(Len(sent) - 1)

Firm2 ==
  /\ Since(2) /\ Firm
  /\ Only("FIRM")
  /\ rd_ack /\ ~buffer_rd_ack
  /\ Waiting /\ firm_wr /\ firm_data = sent[Len(sent)] /\ ~spi_firm_ack
  /\ memory_wr = NoWrite /\ InMemory(Len(sent) - 1)

Firm3 ==
  /\ Since(3) /\ Firm
  /\ Only("FIRM")
  /\ ~rd_ack /\ buffer_rd_ack
  /\ state = "WRITE_MEMORY" /\ firm_wr /\ firm_data = sent[Len(sent)] /\ spi_firm_ack
  /\ memory_wr = NoWrite /\ InMemory(Len(sent) - 1)

Firm4 ==
  /\ Since(4) /\ Firm
  /\ Empty
  /\ ~rd_ack /\ ~buffer_rd_ack
  /\ Waiting /\ ~firm_wr
  /\ Fits => /\ counter_firmware_address = Len(sent)
             /\ memory_wr = [addr |-> Len(sent) - 1, data |-> sent[Len(sent)]]
             /\ \A i \in 1..Len(sent) - 1 : memory[i - 1] = sent[i]

(* ... and after START.                                                    *)
Started ==
  /\ Halted /\ start_owed /\ ~firm_wr /\ HostNotLoading
  /\ Only("START")
  /\ memory_wr = NoWrite /\ InMemory(Len(sent))

Start1 == Since(1) /\ Started /\ Waiting /\ ~cpu_start /\ ~rd_ack /\ ~buffer_rd_ack
Start2 == Since(2) /\ Started /\ Waiting /\ cpu_start /\ rd_ack /\ ~buffer_rd_ack
Start3 == Since(3) /\ Started /\ state = "START_CPU" /\ cpu_start /\ buffer_rd_ack

Loading ==
  \/ Init1 \/ Init2 \/ Init3 \/ Init4 \/ Init5 \/ Init6
  \/ Ready \/ Firm1 \/ Firm2 \/ Firm3 \/ Firm4
  \/ Start1 \/ Start2 \/ Start3

(* An acknowledgement of the mailbox reaches spi_mm before the handler     *)
(* looks at the mailbox again.                                             *)
AckOnItsWay ==
  /\ write_req = "ack" => cpu_pc \in {"compute", "getc_wait"} /\ cpu_wait >= 2
  /\ spi_wr_req = "ack" => \/ cpu_pc = "compute"
                           \/ cpu_pc = "getc_wait" /\ cpu_wait >= 1

LinkInv ==
  /\ SessionInv
  /\ HostOnWire
  /\ AckOnItsWay
  /\ NoTornRead
  /\ Talking \/ Loading

LEMMA HostNotLoadingStep ==
  ASSUME TypeInv, Next, HostNotLoading, Ended = NoPacket \/ Ended.op # "INIT"
  PROVE  HostNotLoading'
<1>1. left \in Nat /\ Xfer \in Nat \ {0}
  BY TimingAssumption DEF TypeInv, TypeOK
<1>2. CASE left = 0
  BY <1>1, <1>2, HostStepFacts
     DEF HostNotLoading, HostSends, HostAfter, Packet, Opcodes
<1>3. CASE left # 0
  BY <1>1, <1>3, HostStepFacts, ArrivalEnds DEF HostNotLoading
<1>4. QED
  BY <1>2, <1>3

(* The edges after INIT, one by one.                                       *)
LEMMA Init1Step ==
  ASSUME SessionInv, ~Collides, Next, Xfer >= 6, Init1
  PROVE  Init2'
<1>1. TypeInv /\ RxInv /\ AcksShown /\ ~collided /\ state \in LoaderStates
  BY DEF SessionInv, TypeInv, TypeOK, TopTypeOK
<1>2. Ended = NoPacket /\ Since(2)'
  <2>1. 1 \in 1..Xfer /\ Since(1) /\ 1 + 1 = 2
    BY TimingAssumption DEF Init1
  <2>2. QED
    BY <1>1, <2>1, NoArrival
<1>3. Restarting' /\ init_owed'
  BY <1>1, <1>2, QuietFacts DEF Init1, Restarting
<1>4. rd_ack' /\ ~status0' /\ ~firm_wr' /\ cpu_init'
  BY MmInitOnly DEF Init1
<1>5. Only("INIT")' \/ (Empty' /\ ~buffer_rd_ack')
  BY <1>1, <1>2, QuietFacts DEF Init1, Opcodes
<1>6. state' # "INIT_CPU" /\ (cpu_start' => state' = "START_CPU")
  BY <1>1, LoaderFacts, MmInitOnly DEF Init1, StartAlone, AcksShown, LoaderStates, Waiting
<1>7. ~misplaced' => Waiting'
  BY <1>1, <1>2, QuietFacts, LoaderFacts DEF Init1, Waiting
<1>8. cpu_reset' => write_req' # "mem"
  <2>1. cpu_reset' => cpu_reset
    BY <1>1, LoaderFacts DEF Init1, LoaderStates, Waiting
  <2>2. QED
    BY <1>1, <2>1, CpuFacts
<1>9. QED
  BY <1>2, <1>3, <1>4, <1>5, <1>6, <1>7, <1>8 DEF Init2

LEMMA Init2Step ==
  ASSUME SessionInv, ~Collides, Next, Xfer >= 6, Init2
  PROVE  Init3'
<1>1. TypeInv /\ RxInv /\ AcksShown /\ ~collided /\ state \in LoaderStates
  BY DEF SessionInv, TypeInv, TypeOK, TopTypeOK
<1>2. Ended = NoPacket /\ Since(3)'
  <2>1. 2 \in 1..Xfer /\ Since(2) /\ 2 + 1 = 3
    BY TimingAssumption DEF Init2
  <2>2. QED
    BY <1>1, <2>1, NoArrival
<1>3. Restarting' /\ init_owed'
  BY <1>1, <1>2, QuietFacts DEF Init2, Restarting
<1>4. (Only("INIT")' /\ buffer_rd_ack') \/ Empty'
  BY <1>1, <1>2, QuietFacts DEF Init2, Opcodes
<1>5. cpu_init' /\ ~firm_wr' /\ ~status0' /\ ~cpu_start'
  BY <1>1, MmInitOnly, MmEmpty DEF Init2, AcksShown
<1>6. state' = "INIT_CPU" \/ (Waiting' /\ misplaced')
  BY <1>1, <1>2, LoaderFacts, QuietFacts DEF Init2, Waiting, LoaderStates
<1>7. QED
  BY <1>2, <1>3, <1>4, <1>5, <1>6 DEF Init3

(* Where the loader resets the CPU.                                        *)
LEMMA ResettingStep ==
  ASSUME SessionInv, ~Collides, Next, Ended = NoPacket, Resetting,
         Only("INIT") \/ Empty
  PROVE  Restarted'
<1>1. TypeInv /\ RxInv /\ AcksShown /\ ~collided
  BY DEF SessionInv
<1>2. Restarting' /\ ~init_owed' /\ ~misplaced'
  BY <1>1, QuietFacts DEF Resetting, Restarting
<1>3. Waiting' /\ cpu_reset' /\ counter_firmware_address' = 0
  BY LoaderFacts DEF Resetting
<1>4. ~firm_wr' /\ ~cpu_start' /\ ~cpu_init' /\ ~status0'
  BY <1>1, MmInitOnly, MmEmpty DEF Resetting, AcksShown
<1>5. QED
  BY <1>2, <1>3, <1>4 DEF Restarted

LEMMA RestartedStep ==
  ASSUME SessionInv, ~Collides, Next, Ended = NoPacket, Restarted, Empty
  PROVE  Restarted' /\ ~spi_firm_ack'
<1>1. TypeInv /\ RxInv /\ ~collided
  BY DEF SessionInv
<1>2. Restarting' /\ ~init_owed' /\ ~misplaced'
  BY <1>1, QuietFacts DEF Restarted, Restarting
<1>3. Waiting' /\ cpu_reset' /\ ~spi_firm_ack' /\ counter_firmware_address' = 0
  BY LoaderFacts DEF Restarted, Waiting
<1>4. ~firm_wr' /\ ~cpu_start' /\ ~cpu_init' /\ ~status0'
  BY MmEmpty DEF Restarted
<1>5. QED
  BY <1>2, <1>3, <1>4 DEF Restarted

LEMMA Init3Step ==
  ASSUME SessionInv, ~Collides, Next, Xfer >= 6, Init3
  PROVE  Init4'
<1>1. TypeInv /\ RxInv /\ AcksShown /\ ~collided
  BY DEF SessionInv
<1>2. Ended = NoPacket /\ Since(4)'
  <2>1. 3 \in 1..Xfer /\ Since(3) /\ 3 + 1 = 4
    BY TimingAssumption DEF Init3
  <2>2. QED
    BY <1>1, <2>1, NoArrival
<1>3. Empty'
  BY <1>1, <1>2, QuietFacts DEF Init3, Opcodes
<1>4. CASE state = "INIT_CPU"
  <2>1. Resetting /\ (Only("INIT") \/ Empty)
    BY <1>4 DEF Init3, Resetting
  <2>2. Restarted'
    BY <1>2, <2>1, ResettingStep
  <2>3. QED
    BY <1>2, <1>3, <2>2 DEF Init4
<1>5. CASE Waiting
  <2>1. Restarting' /\ init_owed'
    BY <1>1, <1>2, <1>5, QuietFacts DEF Init3, Restarting, Waiting
  <2>2. state' = "INIT_CPU"
    BY <1>5, LoaderFacts DEF Init3
  <2>3. cpu_init' /\ ~firm_wr' /\ ~status0' /\ ~cpu_start'
    BY <1>1, <1>5, MmInitOnly, MmEmpty DEF Init3, AcksShown, Waiting
  <2>4. Resetting'
    BY <2>1, <2>2, <2>3 DEF Resetting
  <2>5. QED
    BY <1>2, <1>3, <2>4 DEF Init4
<1>6. QED
  BY <1>4, <1>5 DEF Init3

LEMMA Init4Step ==
  ASSUME SessionInv, ~Collides, Next, Xfer >= 6, Init4
  PROVE  Init5'
<1>1. TypeInv /\ RxInv /\ ~collided
  BY DEF SessionInv
<1>2. Ended = NoPacket /\ Since(5)'
  <2>1. 4 \in 1..Xfer /\ Since(4) /\ 4 + 1 = 5
    BY TimingAssumption DEF Init4
  <2>2. QED
    BY <1>1, <2>1, NoArrival
<1>3. Empty /\ Empty' /\ ~rd_ack'
  BY <1>1, <1>2, QuietFacts, MmEmpty DEF Init4
<1>4. Restarted'
  BY <1>2, <1>3, ResettingStep, RestartedStep DEF Init4
<1>5. QED
  BY <1>2, <1>3, <1>4 DEF Init5

LEMMA Init5Step ==
  ASSUME SessionInv, ~Collides, Next, Xfer >= 6, Init5
  PROVE  Init6'
<1>1. TypeInv /\ RxInv /\ ~collided
  BY DEF SessionInv
<1>2. Ended = NoPacket /\ Since(6)'
  <2>1. 5 \in 1..Xfer /\ Since(5) /\ 5 + 1 = 6
    BY TimingAssumption DEF Init5
  <2>2. QED
    BY <1>1, <2>1, NoArrival
<1>3. Empty /\ Empty' /\ ~rd_ack' /\ ~buffer_rd_ack'
  BY <1>1, <1>2, QuietFacts, MmEmpty DEF Init5
<1>4. Restarted' /\ ~spi_firm_ack'
  BY <1>2, <1>3, RestartedStep DEF Init5
<1>5. write_req' = "none" /\ cpu_pc' = "compute"
  BY <1>1, CpuFacts DEF Init5, Restarted
<1>6. QED
  BY <1>2, <1>3, <1>4, <1>5 DEF Init6

LEMMA Init6Step ==
  ASSUME SessionInv, ~Collides, Next, Xfer >= 6, Init6
  PROVE  Ready'
<1>1. TypeInv /\ RxInv /\ ~collided
  BY DEF SessionInv
<1>2. Ended = NoPacket
  <2>1. 6 \in 1..Xfer /\ Since(6)
    BY TimingAssumption DEF Init6
  <2>2. QED
    BY <1>1, <2>1, NoArrival
<1>3. Empty /\ Empty' /\ ~rd_ack' /\ ~buffer_rd_ack'
  BY <1>1, <1>2, QuietFacts, MmEmpty DEF Init6
<1>4. Restarted' /\ ~spi_firm_ack'
  BY <1>2, <1>3, RestartedStep DEF Init6
<1>5. write_req' = "none" /\ cpu_pc' = "compute"
  BY <1>1, CpuFacts DEF Init6, Restarted
<1>6. memory_wr' = NoWrite
  BY BusFacts DEF Init6, Restarted, Waiting
<1>7. Halted'
  BY <1>4, <1>5 DEF Halted, Restarted, Restarting
<1>8. InMemory(Len(sent))'
  <2>1. sent' = << >> /\ counter_firmware_address' = 0
    BY <1>4 DEF Restarted, Restarting
  <2>2. Len(sent') = 0
    BY <2>1
  <2>3. QED
    BY <2>1, <2>2 DEF InMemory
<1>9. QED
  BY <1>3, <1>4, <1>6, <1>7, <1>8 DEF Ready, Restarted, Restarting

(* While the chip is loaded nothing but INIT and START ends the CPU's      *)
(* reset or leaves a request behind.                                       *)
LEMMA HaltedStep ==
  ASSUME SessionInv, ~Collides, Next, Halted, ~Arrives("INIT"), ~Misplaces,
         Waiting \/ state = "WRITE_MEMORY", ~TakesInit, ~TakesCmd
  PROVE  Halted'
<1>1. TypeInv /\ RxInv /\ ~collided
  BY DEF SessionInv
<1>2. state_rd' = "RD_WAIT_DATA"
  BY <1>1, RxCases DEF Halted, RxInv, RxRestart, RxEnqueue, RxPop, RxIdle
<1>3. ~init_owed' /\ ~misplaced'
  BY Zenon, <1>1 DEF Next, Tick, HistoryTick, Halted
<1>4. ~status0' /\ ~cpu_init'
  BY MmFacts DEF Halted
<1>5. cpu_reset'
  BY LoaderFacts DEF Halted, Waiting
<1>6. cpu_pc' = "compute" /\ write_req' = "none"
  BY <1>1, CpuFacts DEF Halted
<1>7. QED
  BY <1>2, <1>3, <1>4, <1>5, <1>6 DEF Halted

LEMMA NothingTaken ==
  ASSUME Empty
  PROVE  ~TakesInit /\ ~TakesNop /\ ~TakesFirm /\ ~TakesStart /\ ~TakesCmd
BY DEF Empty, TakesInit, TakesNop, TakesFirm, TakesStart, TakesCmd, Presents

LEMMA OnlyFirmOrStart ==
  ASSUME Only("FIRM") \/ Only("START")
  PROVE  ~TakesInit /\ ~TakesCmd
BY DEF Only, TakesInit, TakesCmd, Presents

(* An idle loader and its registers stay as they are.                      *)
LEMMA ReadyFrame ==
  ASSUME SessionInv, ~Collides, Next, Ready
  PROVE  /\ Waiting' /\ ~firm_wr' /\ ~cpu_start' /\ ~spi_firm_ack' /\ ~rd_ack'
         /\ ~buffer_rd_ack'
         /\ memory_wr' = NoWrite /\ memory' = memory
         /\ counter_firmware_address' = counter_firmware_address
         /\ ~Misplaces
         /\ Arrives("INIT") \/ Halted'
<1>1. TypeInv /\ RxInv /\ ~collided
  BY DEF SessionInv
<1>2. ~firm_wr' /\ ~cpu_start' /\ ~rd_ack'
  BY MmEmpty DEF Ready
<1>3. ~buffer_rd_ack'
  BY <1>1, RxCases DEF Ready, RxInv
<1>4. /\ Waiting' /\ ~spi_firm_ack'
      /\ counter_firmware_address' = counter_firmware_address
  BY LoaderFacts DEF Ready, Halted, Waiting
<1>5. memory_wr' = NoWrite /\ memory' = memory
  BY BusFacts DEF Ready, Halted, Waiting
<1>6. ~Misplaces
  BY DEF Ready, Empty, Misplaces
<1>7. Arrives("INIT") \/ Halted'
  BY <1>6, HaltedStep, NothingTaken DEF Ready
<1>8. QED
  BY <1>2, <1>3, <1>4, <1>5, <1>6, <1>7

(* The packet that ends while the FIFO is empty is presented.              *)
LEMMA FirstShown ==
  ASSUME SessionInv, ~Collides, Next, Empty, ~buffer_rd_ack,
         Ended # NoPacket, Ended.op # "INIT", state_rd = "RD_WAIT_DATA"
  PROVE  rx_fifo_count' = 1 /\ rd_data_available' /\ rd_data' = Ended
<1>1. TypeInv /\ RxInv /\ ~collided
  BY DEF SessionInv
<1>2. Queues(Ended) /\ ~OpensSession(Ended)
  BY DepthAssumption DEF Queues, OpensSession, Empty
<1>3. RxEnqueue
  BY <1>1, <1>2, RxCases DEF RxInv, RxRestart, RxPop, RxIdle
<1>4. QED
  BY <1>3 DEF RxEnqueue, Empty

LEMMA ReadyToInit ==
  ASSUME SessionInv, ~Collides, Next, Ready, Arrives("INIT")
  PROVE  Init1'
<1>1. TypeInv /\ RxInv /\ ~collided
  BY DEF SessionInv
<1>2. Ended # NoPacket /\ Ended.op = "INIT" /\ Since(1)'
  BY <1>1, ArrivalEnds DEF Arrives
<1>3. RxRestart
  <2>1. OpensSession(Ended)
    BY <1>1, InitOpens DEF RxInv
  <2>2. QED
    BY <1>1, <2>1, RxCases DEF RxInv, RxEnqueue, RxPop, RxIdle, Queues, OpensSession
<1>4. Only("INIT")' /\ state_rd' = "RD_WAIT_DATA"
  BY <1>2, <1>3 DEF RxRestart, Only
<1>5. init_owed' /\ ~start_owed' /\ sent' = << >>
  BY Zenon DEF Next, Tick, HistoryTick
<1>6. ~cpu_init' /\ Waiting' /\ ~firm_wr' /\ ~cpu_start'
  BY ReadyFrame, MmEmpty DEF Ready, Halted
<1>7. write_req' # "mem"
  BY <1>1, CpuFacts DEF Ready, Halted
<1>8. QED
  BY <1>2, <1>4, <1>5, <1>6, <1>7 DEF Init1, Restarting, StartAlone, Waiting

LEMMA ReadyToFirm ==
  ASSUME SessionInv, ~Collides, Next, Ready, Arrives("FIRM")
  PROVE  Firm1'
<1>1. TypeInv /\ RxInv /\ ~collided
  BY DEF SessionInv
<1>2. Ended # NoPacket /\ Ended.op = "FIRM" /\ Since(1)' /\ Ended.id \in 1..MaxPackets
  <2>1. Ended.id > 0 /\ Ended \in Packet
    BY <1>1, EndedType DEF Arrives, TypeInv
  <2>2. QED
    BY <1>1, <2>1, ArrivalEnds, BoundAssumption DEF Arrives, Packet
<1>3. Only("FIRM")' /\ rd_data' = Ended
  BY <1>2, FirstShown DEF Ready, Halted, Only
<1>4. ~Arrives("INIT") /\ ~Arrives("START")
  BY <1>2 DEF Arrives
<1>5. sent' = Append(sent, Ended.id) /\ ~start_owed'
  <2>1. start_owed' <=> ~Arrives("INIT") /\ (Arrives("START") \/ (start_owed /\ state # "START_CPU"))
    BY Zenon DEF Next, Tick, HistoryTick
  <2>2. sent' = Append(sent, Ended.id)
    BY Zenon, <1>4 DEF Next, Tick, HistoryTick
  <2>3. QED
    BY <1>4, <2>1, <2>2 DEF Ready
<1>6. /\ Len(sent) \in Nat /\ Len(sent') = Len(sent) + 1
      /\ sent'[Len(sent) + 1] = Ended.id
      /\ \A i \in 1..Len(sent) : sent'[i] = sent[i]
  <2>1. sent \in Seq(1..MaxPackets)
    BY <1>1 DEF TypeInv, TypeOK
  <2>2. QED
    BY <1>2, <1>5, <2>1, AppendProperties, LenProperties
<1>7. Firm'
  BY <1>4, <1>5, <1>6, ReadyFrame DEF Firm
<1>8. InMemory(Len(sent) - 1)'
  <2> SUFFICES ASSUME Fits'
               PROVE  /\ counter_firmware_address' = Len(sent') - 1
                      /\ \A i \in 1..Len(sent') - 1 : memory'[i - 1] = sent'[i]
    BY DEF InMemory
  <2>1. Fits /\ Len(sent') - 1 = Len(sent)
    BY <1>6, AddrSpaceAssumption DEF Fits
  <2>2. /\ counter_firmware_address = Len(sent)
        /\ \A i \in 1..Len(sent) : memory[i - 1] = sent[i]
    BY <2>1 DEF Ready, InMemory
  <2>3. counter_firmware_address' = counter_firmware_address /\ memory' = memory
    BY ReadyFrame
  <2>4. QED
    BY <1>6, <2>1, <2>2, <2>3
<1>9. rd_data'.id = sent'[Len(sent')]
  BY <1>3, <1>6
<1>10. QED
  BY <1>2, <1>3, <1>7, <1>8, <1>9, ReadyFrame DEF Firm1

LEMMA ReadyToStart ==
  ASSUME SessionInv, HostOnWire, ~Collides, Next, Ready, Arrives("START")
  PROVE  Start1'
<1>1. TypeInv /\ RxInv /\ ~collided
  BY DEF SessionInv
<1>2. Ended # NoPacket /\ Ended.op = "START" /\ Since(1)'
  BY <1>1, ArrivalEnds DEF Arrives
<1>3. Only("START")'
  BY <1>2, FirstShown DEF Ready, Halted, Only
<1>4. ~Arrives("INIT") /\ ~Arrives("FIRM")
  BY <1>2 DEF Arrives
<1>5. sent' = sent /\ start_owed'
  BY Zenon, <1>4 DEF Next, Tick, HistoryTick
<1>6. HostNotLoading'
  <2>1. left = 1 /\ wire = Ended /\ left' = 0 /\ host' = host
    BY <1>1, <1>2, ArrivalEnds
  <2>2. host = "run"
    BY <1>2, <2>1 DEF HostOnWire
  <2>3. QED
    BY <2>1, <2>2 DEF HostNotLoading
<1>7. InMemory(Len(sent))'
  BY <1>5, ReadyFrame DEF Ready, InMemory, Fits
<1>8. QED
  BY <1>2, <1>3, <1>4, <1>5, <1>6, <1>7, ReadyFrame DEF Start1, Started

(* A poll of the host ends the loading.                                    *)
LEMMA ReadyToTalking ==
  ASSUME SessionInv, HostOnWire, ~Collides, Next, Ready,
         Ended # NoPacket, Ended.op \in {"CMD", "NOP"}
  PROVE  Talking'
<1>1. TypeInv /\ RxInv /\ ~collided
  BY DEF SessionInv
<1>2. ~Arrives("INIT") /\ ~Arrives("START")
  BY DEF Arrives
<1>3. Halted'
  BY <1>2, ReadyFrame
<1>4. rd_data' = Ended
  BY FirstShown DEF Ready, Halted
<1>5. rx_fifo_count' = 1
  BY FirstShown DEF Ready, Halted
<1>6. ~start_owed'
  <2>1. start_owed' <=> ~Arrives("INIT") /\ (Arrives("START") \/ (start_owed /\ state # "START_CPU"))
    BY Zenon DEF Next, Tick, HistoryTick
  <2>2. QED
    BY <1>2, <2>1 DEF Ready
<1>7. HostNotLoading'
  <2>1. left = 1 /\ wire = Ended /\ left' = 0 /\ host' = host
    BY <1>1, ArrivalEnds
  <2>2. host # "load"
    BY <2>1 DEF HostOnWire
  <2>3. QED
    BY <2>1, <2>2 DEF HostNotLoading
<1>8. Calm'
  BY <1>4, <1>5, ReadyFrame DEF Calm
<1>9. state' # "INIT_CPU" /\ ~cpu_start'
  BY ReadyFrame DEF Waiting
<1>10. QED
  BY <1>3, <1>4, <1>6, <1>7, <1>8, <1>9 DEF Talking, Halted, StartAlone, Handles

LEMMA ReadyStep ==
  ASSUME SessionInv, HostOnWire, ~Collides, Next, Ready
  PROVE  Talking' \/ Loading'
<1>1. TypeInv /\ RxInv /\ ~collided
  BY DEF SessionInv
<1>2. CASE Ended = NoPacket
  <2>1. Empty' /\ sent' = sent /\ ~start_owed'
    BY <1>1, <1>2, QuietFacts DEF Ready
  <2>2. Halted'
    BY <1>2, ReadyFrame DEF Arrives
  <2>3. InMemory(Len(sent))'
    BY <2>1, ReadyFrame DEF Ready, InMemory, Fits
  <2>4. Ready'
    BY <2>1, <2>2, <2>3, ReadyFrame DEF Ready
  <2>5. QED
    BY <2>4 DEF Loading
<1>3. CASE Ended # NoPacket
  <2>1. Ended.op \in Opcodes
    BY <1>1, <1>3, RxTypes DEF Packet
  <2>2. CASE Ended.op = "INIT"
    BY <1>3, <2>2, ReadyToInit DEF Arrives, Loading
  <2>3. CASE Ended.op = "FIRM"
    BY <1>3, <2>3, ReadyToFirm DEF Arrives, Loading
  <2>4. CASE Ended.op = "START"
    BY <1>3, <2>4, ReadyToStart DEF Arrives, Loading
  <2>5. CASE Ended.op \in {"CMD", "NOP"}
    BY <1>3, <2>5, ReadyToTalking
  <2>6. QED
    BY <2>1, <2>2, <2>3, <2>4, <2>5 DEF Opcodes
<1>4. QED
  BY <1>2, <1>3

(* The edges after FIRM: spi_mm takes the word, the loader writes it.      *)
LEMMA FirmFrame ==
  ASSUME SessionInv, ~Collides, Next, Ended = NoPacket, Firm,
         Waiting \/ state = "WRITE_MEMORY", Only("FIRM") \/ Empty
  PROVE  Firm' /\ sent' = sent
<1>1. TypeInv /\ RxInv /\ ~collided
  BY DEF SessionInv
<1>2. sent' = sent /\ ~start_owed'
  BY <1>1, QuietFacts DEF Firm
<1>3. ~Arrives("INIT") /\ ~Misplaces
  BY DEF Arrives, Misplaces, Queues
<1>4. Halted'
  BY <1>3, HaltedStep, OnlyFirmOrStart, NothingTaken DEF Firm
<1>5. ~cpu_start'
  BY MmFirmOnly, MmEmpty DEF Firm, Halted
<1>6. QED
  BY <1>2, <1>4, <1>5 DEF Firm

LEMMA Firm1Step ==
  ASSUME SessionInv, ~Collides, Next, Xfer >= 6, Firm1
  PROVE  Firm2'
<1>1. TypeInv /\ RxInv /\ ~collided
  BY DEF SessionInv
<1>2. Ended = NoPacket /\ Since(2)'
  <2>1. 1 \in 1..Xfer /\ Since(1) /\ 1 + 1 = 2
    BY TimingAssumption DEF Firm1
  <2>2. QED
    BY <1>1, <2>1, NoArrival
<1>3. Firm' /\ sent' = sent
  BY <1>2, FirmFrame DEF Firm1
<1>4. Only("FIRM")' /\ ~buffer_rd_ack'
  BY <1>1, <1>2, QuietFacts DEF Firm1, Opcodes
<1>5. rd_ack' /\ firm_wr' /\ firm_data' = rd_data.id
  BY MmFirmOnly DEF Firm1, Firm, Halted
<1>6. /\ Waiting' /\ ~spi_firm_ack'
      /\ counter_firmware_address' = counter_firmware_address
  BY LoaderFacts DEF Firm1, Firm, Halted, Waiting
<1>7. memory_wr' = NoWrite /\ memory' = memory
  BY BusFacts DEF Firm1, Firm, Halted, Waiting
<1>8. InMemory(Len(sent) - 1)'
  BY <1>3, <1>6, <1>7 DEF Firm1, InMemory, Fits
<1>9. firm_data' = sent'[Len(sent')]
  BY <1>3, <1>5 DEF Firm1
<1>10. QED
  BY <1>2, <1>3, <1>4, <1>5, <1>6, <1>7, <1>8, <1>9 DEF Firm2

LEMMA Firm2Step ==
  ASSUME SessionInv, ~Collides, Next, Xfer >= 6, Firm2
  PROVE  Firm3'
<1>1. TypeInv /\ RxInv /\ ~collided
  BY DEF SessionInv
<1>2. Ended = NoPacket /\ Since(3)'
  <2>1. 2 \in 1..Xfer /\ Since(2) /\ 2 + 1 = 3
    BY TimingAssumption DEF Firm2
  <2>2. QED
    BY <1>1, <2>1, NoArrival
<1>3. Firm' /\ sent' = sent
  BY <1>2, FirmFrame DEF Firm2
<1>4. Only("FIRM")' /\ buffer_rd_ack'
  BY <1>1, <1>2, QuietFacts DEF Firm2, Opcodes
<1>5. ~rd_ack' /\ firm_wr' /\ firm_data' = firm_data
  BY MmFirmOnly DEF Firm2, Firm, Halted
<1>6. /\ state' = "WRITE_MEMORY" /\ spi_firm_ack'
      /\ counter_firmware_address' = counter_firmware_address
  BY LoaderFacts DEF Firm2, Firm, Halted, Waiting
<1>7. memory_wr' = NoWrite /\ memory' = memory
  BY BusFacts DEF Firm2, Firm, Halted, Waiting
<1>8. InMemory(Len(sent) - 1)'
  BY <1>3, <1>6, <1>7 DEF Firm2, InMemory, Fits
<1>9. firm_data' = sent'[Len(sent')]
  BY <1>3, <1>5 DEF Firm2
<1>10. QED
  BY <1>2, <1>3, <1>4, <1>5, <1>6, <1>7, <1>8, <1>9 DEF Firm3

LEMMA Firm3Step ==
  ASSUME SessionInv, ~Collides, Next, Xfer >= 6, Firm3
  PROVE  Firm4'
<1>1. TypeInv /\ RxInv /\ ~collided
  BY DEF SessionInv
<1>2. Ended = NoPacket /\ Since(4)'
  <2>1. 3 \in 1..Xfer /\ Since(3) /\ 3 + 1 = 4
    BY TimingAssumption DEF Firm3
  <2>2. QED
    BY <1>1, <2>1, NoArrival
<1>3. Firm' /\ sent' = sent
  BY <1>2, FirmFrame DEF Firm3
<1>4. Empty' /\ ~buffer_rd_ack'
  BY <1>1, <1>2, QuietFacts DEF Firm3, Opcodes
<1>5. ~rd_ack' /\ ~firm_wr'
  BY MmFirmOnly DEF Firm3, Firm, Halted
<1>6. Waiting' /\ counter_firmware_address' = (counter_firmware_address + 1) % AddrSpace
  BY LoaderFacts DEF Firm3
<1>7. /\ memory' = memory
      /\ memory_wr' = [addr |-> counter_firmware_address, data |-> firm_data]
  BY BusFacts DEF Firm3, Firm, Halted
<1>8. ASSUME Fits'
      PROVE  /\ counter_firmware_address' = Len(sent')
             /\ memory_wr' = [addr |-> Len(sent') - 1, data |-> sent'[Len(sent')]]
             /\ \A i \in 1..Len(sent') - 1 : memory'[i - 1] = sent'[i]
  <2>1. Len(sent) \in Nat /\ Len(sent) > 0 /\ Len(sent) < AddrSpace /\ Fits
    BY <1>1, <1>3, <1>8, LenProperties DEF Fits, Firm3, Firm, TypeInv, TypeOK
  <2>2. /\ counter_firmware_address = Len(sent) - 1
        /\ \A i \in 1..Len(sent) - 1 : memory[i - 1] = sent[i]
    BY <2>1 DEF Firm3, InMemory
  <2>3. (Len(sent) - 1) + 1 = Len(sent) /\ AddrSpace \in Nat \ {0}
    BY <2>1, AddrSpaceAssumption
  <2>4. Len(sent) % AddrSpace = Len(sent)
    BY Zenon, <2>1, <2>3, SmallRemainder
  <2>5. counter_firmware_address' = Len(sent)
    BY Zenon, <1>6, <2>2, <2>3, <2>4
  <2>6. QED
    BY <1>3, <1>7, <2>2, <2>5 DEF Firm3
<1>9. QED
  BY <1>2, <1>3, <1>4, <1>5, <1>6, <1>8 DEF Firm4

LEMMA Firm4Step ==
  ASSUME SessionInv, ~Collides, Next, Xfer >= 6, Firm4
  PROVE  Ready'
<1>1. TypeInv /\ RxInv /\ ~collided
  BY DEF SessionInv
<1>2. Ended = NoPacket
  <2>1. 4 \in 1..Xfer /\ Since(4)
    BY TimingAssumption DEF Firm4
  <2>2. QED
    BY <1>1, <2>1, NoArrival
<1>3. Firm' /\ sent' = sent
  BY <1>2, FirmFrame DEF Firm4
<1>4. Empty' /\ ~buffer_rd_ack' /\ ~rd_ack' /\ ~firm_wr'
  BY <1>1, <1>2, QuietFacts, MmEmpty DEF Firm4
<1>5. /\ Waiting' /\ ~spi_firm_ack'
      /\ counter_firmware_address' = counter_firmware_address
  BY LoaderFacts DEF Firm4, Firm, Halted, Waiting
<1>6. memory_wr' = NoWrite
  BY BusFacts DEF Firm4, Firm, Halted, Waiting
<1>7. InMemory(Len(sent))'
  <2> SUFFICES ASSUME Fits'
               PROVE  /\ counter_firmware_address' = Len(sent')
                      /\ \A i \in 1..Len(sent') : memory'[i - 1] = sent'[i]
    BY DEF InMemory
  <2>1. Len(sent) \in Nat /\ Len(sent) > 0 /\ Len(sent) < AddrSpace /\ Fits
    BY <1>1, <1>3, LenProperties DEF Fits, Firm4, Firm, TypeInv, TypeOK
  <2>2. /\ counter_firmware_address = Len(sent)
        /\ memory_wr = [addr |-> Len(sent) - 1, data |-> sent[Len(sent)]]
        /\ \A i \in 1..Len(sent) - 1 : memory[i - 1] = sent[i]
    BY <2>1 DEF Firm4
  <2>3. memory_wr # NoWrite
    <3>1. sent[Len(sent)] \in MemWord
      <4>1. sent \in Seq(1..MaxPackets) /\ Len(sent) \in 1..Len(sent)
        BY <1>1, <2>1 DEF TypeInv, TypeOK
      <4>2. sent[Len(sent)] \in 1..MaxPackets
        BY <4>1, ElementOfSeq
      <4>3. QED
        BY <4>2, BoundAssumption DEF MemWord
    <3>2. Len(sent) - 1 \in Address
      BY <2>1, AddrSpaceAssumption DEF Address
    <3>3. memory_wr \in MemWrite
      BY <2>2, <3>1, <3>2 DEF MemWrite
    <3>4. QED
      BY <3>3, NoWriteAssumption
  <2>4. memory' = [memory EXCEPT ![Len(sent) - 1] = sent[Len(sent)]]
    BY <2>2, <2>3, BusFacts
  <2>5. \A i \in 1..Len(sent) : memory'[i - 1] = sent[i]
    <3>1. memory \in [Address -> MemWord] /\ \A i \in 1..Len(sent) : i - 1 \in Address
      BY <1>1, <2>1, AddrSpaceAssumption DEF TypeInv, TypeOK, TopTypeOK, Address
    <3>2. ASSUME NEW i \in 1..Len(sent)
          PROVE  memory'[i - 1] = sent[i]
      <4>1. CASE i = Len(sent)
        BY <2>1, <2>4, <3>1, <4>1
      <4>2. CASE i # Len(sent)
        <5>1. i \in 1..Len(sent) - 1 /\ i - 1 # Len(sent) - 1 /\ i - 1 \in Address
          BY <2>1, <3>1, <4>2
        <5>2. memory'[i - 1] = memory[i - 1]
          BY <2>4, <3>1, <5>1
        <5>3. QED
          BY <2>2, <5>1, <5>2
      <4>3. QED
        BY <4>1, <4>2
    <3>3. QED
      BY <3>2
  <2>6. QED
    BY <1>3, <1>5, <2>2, <2>5
<1>8. QED
  BY <1>3, <1>4, <1>5, <1>6, <1>7 DEF Ready, Firm

(* The edges after START.                                                  *)
LEMMA StartFrame ==
  ASSUME SessionInv, ~Collides, Next, Ended = NoPacket, Started, Waiting,
         ~buffer_rd_ack
  PROVE  Started'
<1>1. TypeInv /\ RxInv /\ ~collided
  BY DEF SessionInv
<1>2. sent' = sent /\ start_owed' /\ Only("START")'
  BY <1>1, QuietFacts DEF Started, Waiting, Opcodes
<1>3. ~Arrives("INIT") /\ ~Misplaces
  BY DEF Arrives, Misplaces, Queues
<1>4. Halted'
  BY <1>3, HaltedStep, OnlyFirmOrStart DEF Started
<1>5. ~firm_wr'
  BY MmStartOnly DEF Started, Halted
<1>6. HostNotLoading'
  BY <1>1, HostNotLoadingStep DEF Started
<1>7. counter_firmware_address' = counter_firmware_address
  BY LoaderFacts DEF Waiting
<1>8. memory_wr' = NoWrite /\ memory' = memory
  BY BusFacts DEF Started, Halted, Waiting
<1>9. InMemory(Len(sent))'
  BY <1>2, <1>7, <1>8 DEF Started, InMemory, Fits
<1>10. QED
  BY <1>2, <1>4, <1>5, <1>6, <1>8, <1>9 DEF Started

LEMMA Start1Step ==
  ASSUME SessionInv, ~Collides, Next, Xfer >= 6, Start1
  PROVE  Start2'
<1>1. TypeInv /\ RxInv /\ ~collided
  BY DEF SessionInv
<1>2. Ended = NoPacket /\ Since(2)'
  <2>1. 1 \in 1..Xfer /\ Since(1) /\ 1 + 1 = 2
    BY TimingAssumption DEF Start1
  <2>2. QED
    BY <1>1, <2>1, NoArrival
<1>3. Started'
  BY <1>2, StartFrame DEF Start1
<1>4. cpu_start' /\ rd_ack'
  BY MmStartOnly DEF Start1, Started, Halted
<1>5. ~buffer_rd_ack'
  BY <1>1, <1>2, QuietFacts DEF Start1
<1>6. Waiting'
  BY LoaderFacts DEF Start1, Started, Halted
<1>7. QED
  BY <1>2, <1>3, <1>4, <1>5, <1>6 DEF Start2

LEMMA Start2Step ==
  ASSUME SessionInv, ~Collides, Next, Xfer >= 6, Start2
  PROVE  Start3'
<1>1. TypeInv /\ RxInv /\ AcksShown /\ ~collided
  BY DEF SessionInv
<1>2. Ended = NoPacket /\ Since(3)'
  <2>1. 2 \in 1..Xfer /\ Since(2) /\ 2 + 1 = 3
    BY TimingAssumption DEF Start2
  <2>2. QED
    BY <1>1, <2>1, NoArrival
<1>3. Started'
  BY <1>2, StartFrame DEF Start2
<1>4. cpu_start'
  BY <1>1, MmStartOnly DEF Start2, Started, Halted, AcksShown, Waiting
<1>5. buffer_rd_ack'
  BY <1>1, <1>2, QuietFacts DEF Start2
<1>6. state' = "START_CPU"
  BY LoaderFacts DEF Start2, Started, Halted
<1>7. QED
  BY <1>2, <1>3, <1>4, <1>5, <1>6 DEF Start3

LEMMA Start3Step ==
  ASSUME SessionInv, ~Collides, Next, Xfer >= 6, Start3
  PROVE  Talking'
<1>1. TypeInv /\ RxInv /\ AcksShown /\ ~collided
  BY DEF SessionInv
<1>2. Ended = NoPacket
  <2>1. 3 \in 1..Xfer /\ Since(3)
    BY TimingAssumption DEF Start3
  <2>2. QED
    BY <1>1, <2>1, NoArrival
<1>3. HostNotLoading'
  BY <1>1, <1>2, HostNotLoadingStep DEF Start3, Started
<1>4. ~init_owed' /\ ~start_owed' /\ Empty'
  BY <1>1, <1>2, QuietFacts DEF Start3, Started, Halted, Opcodes
<1>5. ~cpu_init' /\ ~cpu_start' /\ ~firm_wr'
  BY <1>1, MmStartOnly DEF Start3, Started, Halted, AcksShown
<1>6. Waiting' /\ ~cpu_reset'
  BY LoaderFacts DEF Start3
<1>7. cpu_pc' = "compute"
  BY <1>1, CpuFacts DEF Start3, Started, Halted
<1>8. Calm'
  BY <1>4, <1>5, <1>6 DEF Calm, Empty
<1>9. QED
  BY <1>3, <1>4, <1>5, <1>6, <1>7, <1>8
     DEF Talking, Empty, StartAlone, Handles, Waiting

-----------------------------------------------------------------------------
(* The edges at which the host talks to a program.                         *)
LEMMA CalmStep ==
  ASSUME SessionInv, ~Collides, Next, Talking, Calm, ~Misplaces,
         Ended = NoPacket \/ Ended.op \in {"CMD", "NOP"}
  PROVE  Calm'
<1>1. /\ TypeInv /\ RxInv
      /\ rx_fifo \in [Slot -> Packet] /\ rx_fifo_rd_ptr \in Slot
      /\ rx_fifo_count \in 0..Depth /\ Depth \in Nat /\ rx_fifo_wr_ptr \in Slot
      /\ rx_fifo_count \in Nat
  BY RxTypes, DepthAssumption DEF SessionInv
<1>2. RxRestart \/ RxEnqueue \/ RxPop \/ RxIdle
  BY <1>1, RxCases DEF RxInv
<1>3. ~RxRestart
  BY DEF RxRestart, OpensSession
<1>4. Waiting' /\ ~firm_wr' /\ ~cpu_start'
  <2>1. ~TakesFirm /\ ~TakesStart
    BY DEF Calm, TakesFirm, TakesStart, Presents
  <2>2. QED
    BY <2>1, MmFacts, LoaderFacts DEF Calm, Talking
<1>5. CASE RxIdle
  BY <1>4, <1>5 DEF Calm, RxIdle
<1>6. CASE RxPop
  <2>1. /\ rx_fifo' = rx_fifo /\ rx_fifo_count > 0
        /\ rx_fifo_rd_ptr' = (rx_fifo_rd_ptr + 1) % Depth
        /\ rx_fifo_count' = rx_fifo_count - 1
    BY <1>6 DEF RxPop
  <2>2. rd_data_available' => rx_fifo_count > 1
    BY Zenon, <1>6 DEF RxPop
  <2>3. rd_data_available' => rd_data'.op \in {"CMD", "NOP"}
    <3> SUFFICES ASSUME rd_data_available' PROVE rd_data'.op \in {"CMD", "NOP"}
      OBVIOUS
    <3>1. 1 \in 1..rx_fifo_count - 1
      BY <1>1, <2>2
    <3>2. rd_data' = rx_fifo[(rx_fifo_rd_ptr + 1) % Depth]
      BY <1>6, <2>2 DEF RxPop
    <3>3. QED
      BY <3>1, <3>2 DEF Calm
  <2>4. ASSUME NEW i \in 1..rx_fifo_count' - 1
        PROVE  rx_fifo'[(rx_fifo_rd_ptr' + i) % Depth].op \in {"CMD", "NOP"}
    <3>1. i \in 0..Depth - 1 /\ i + 1 \in 1..rx_fifo_count - 1
      BY <1>1, <2>1
    <3>2. (((rx_fifo_rd_ptr + 1) % Depth) + i) % Depth = (rx_fifo_rd_ptr + (i + 1)) % Depth
      BY <1>1, <3>1, RingShift
    <3>3. rx_fifo[(rx_fifo_rd_ptr + (i + 1)) % Depth].op \in {"CMD", "NOP"}
      BY <3>1 DEF Calm
    <3>4. QED
      BY <2>1, <3>2, <3>3
  <2>5. QED
    BY <1>4, <2>3, <2>4 DEF Calm
<1>7. CASE RxEnqueue
  <2>1. /\ rx_fifo' = [rx_fifo EXCEPT ![rx_fifo_wr_ptr] = Ended]
        /\ rx_fifo_count' = rx_fifo_count + 1 /\ rx_fifo_rd_ptr' = rx_fifo_rd_ptr
        /\ rd_data' = IF rd_data_available THEN rd_data ELSE Ended
        /\ Ended.op \in {"CMD", "NOP"} /\ Queues(Ended) /\ rx_fifo_count < Depth
    BY <1>7 DEF RxEnqueue, Queues
  <2>2. rd_data'.op \in {"CMD", "NOP"}
    BY <2>1 DEF Calm
  <2>3. rx_fifo_count > 0 => rx_fifo_wr_ptr = (rx_fifo_rd_ptr + rx_fifo_count) % Depth
    BY <1>1, <2>1 DEF RxInv, AlignedAtFirst, Aligned, Misplaces
  <2>4. ASSUME NEW i \in 1..rx_fifo_count' - 1
        PROVE  rx_fifo'[(rx_fifo_rd_ptr' + i) % Depth].op \in {"CMD", "NOP"}
    <3> DEFINE j == (rx_fifo_rd_ptr + i) % Depth
    <3>1. i \in 1..rx_fifo_count /\ i \in 0..Depth
      BY <1>1, <2>1
    <3>2. j \in Slot
      BY <1>1, <3>1, RingIndex
    <3>3. CASE j = rx_fifo_wr_ptr
      BY <1>1, <2>1, <3>2, <3>3
    <3>4. CASE j # rx_fifo_wr_ptr
      <4>1. i \in 1..rx_fifo_count - 1
        BY <1>1, <2>3, <3>1, <3>4
      <4>2. rx_fifo[j].op \in {"CMD", "NOP"}
        BY <4>1 DEF Calm
      <4>3. rx_fifo'[j] = rx_fifo[j]
        BY <1>1, <2>1, <3>2, <3>4
      <4>4. QED
        BY <2>1, <4>2, <4>3
    <3>5. QED
      BY <3>3, <3>4
  <2>5. QED
    BY <1>4, <2>2, <2>4 DEF Calm
<1>8. QED
  BY <1>2, <1>3, <1>5, <1>6, <1>7

(* A pop never brings the INIT packet of slot 0 back.                      *)
LEMMA InitNotShownAgain ==
  ASSUME SessionInv, ~Collides, Next, ~Arrives("INIT"),
         rd_data_available => rd_data.op # "INIT"
  PROVE  rd_data_available' => rd_data'.op # "INIT"
<1>1. /\ TypeInv /\ RxInv
      /\ rx_fifo_rd_ptr \in Slot /\ rx_fifo_count \in 0..Depth /\ Depth \in Nat \ {0}
  BY RxTypes, DepthAssumption DEF SessionInv
<1>2. RxEnqueue \/ RxPop \/ RxIdle
  BY <1>1, RxCases DEF RxInv, RxRestart, OpensSession, Arrives
<1>3. CASE RxEnqueue
  BY <1>3 DEF RxEnqueue, Queues
<1>4. CASE RxIdle
  BY <1>4 DEF RxIdle
<1>5. CASE RxPop
  <2> SUFFICES ASSUME rd_data_available' PROVE rd_data'.op # "INIT"
    OBVIOUS
  <2>1. rx_fifo_count > 1
    BY Zenon, <1>5 DEF RxPop
  <2>2. rd_data' = rx_fifo[(rx_fifo_rd_ptr + 1) % Depth]
    BY <1>5, <2>1 DEF RxPop
  <2>3. CASE (rx_fifo_rd_ptr + 1) % Depth = 0
    <3>1. ~(rx_fifo_rd_ptr + rx_fifo_count <= Depth)
      <4>1. 1 \in 0..Depth
        BY <1>1
      <4>2. (rx_fifo_rd_ptr + 1) % Depth
              = IF rx_fifo_rd_ptr + 1 < Depth THEN rx_fifo_rd_ptr + 1
                ELSE (rx_fifo_rd_ptr + 1) - Depth
        BY <1>1, <4>1, RingIndex
      <4>3. rx_fifo_rd_ptr \in Nat /\ rx_fifo_count \in Nat
        BY <1>1 DEF Slot
      <4>4. QED
        BY <1>1, <2>1, <2>3, <4>2, <4>3
    <3>2. rx_fifo[0].op # "INIT"
      BY <1>1, <2>1, <3>1 DEF RxInv, InitInSlotZero, OnlySlotZero
    <3>3. QED
      BY <2>2, <2>3, <3>2
  <2>4. CASE (rx_fifo_rd_ptr + 1) % Depth # 0
    <3>1. 1 \in 0..Depth
      BY <1>1
    <3>2. (rx_fifo_rd_ptr + 1) % Depth \in Slot \ {0}
      BY <1>1, <2>4, <3>1, RingIndex
    <3>3. QED
      BY <1>1, <2>2, <3>2 DEF RxInv, InitInSlotZero, OnlySlotZero
  <2>5. QED
    BY <2>3, <2>4
<1>6. QED
  BY <1>2, <1>3, <1>4, <1>5

(* A request to start the CPU is served at once or waits for nothing.      *)
LEMMA StartAloneStep ==
  ASSUME SessionInv, Next, StartAlone, ~cpu_init
  PROVE  StartAlone'
<1>1. AcksShown /\ state \in LoaderStates
  BY DEF SessionInv, TypeInv, TypeOK, TopTypeOK
<1> SUFFICES ASSUME cpu_start'
             PROVE  state' = "START_CPU" \/ (Waiting' /\ ~firm_wr')
  BY DEF StartAlone
<1>2. CASE TakesStart
  <2>1. ~firm_wr /\ ~TakesFirm
    BY <1>2 DEF TakesStart, TakesFirm, Presents
  <2>2. ~firm_wr'
    BY Zenon, <2>1, MmFacts
  <2>3. state' = "START_CPU" \/ Waiting'
    BY <1>1, <2>1, LoaderFacts DEF LoaderStates, Waiting
  <2>4. QED
    BY <2>2, <2>3
<1>3. CASE ~TakesStart
  <2>1. cpu_start /\ ~spi_cpu_start_ack
    BY Zenon, <1>3, MmFacts
  <2>2. Waiting /\ ~firm_wr
    BY <1>1, <2>1 DEF AcksShown, StartAlone
  <2>3. QED
    BY <2>1, <2>2, LoaderFacts
<1>4. QED
  BY <1>2, <1>3

(* The mailbox stays full while the handler reads it.                      *)
LEMMA HandlesStep ==
  ASSUME SessionInv, AckOnItsWay, Next, Talking
  PROVE  cpu_pc' \in Handles => status0'
<1>1. TypeInv /\ cpu_wait \in Nat
  BY TimingAssumption DEF SessionInv, TypeInv, TypeOK
<1> SUFFICES ASSUME cpu_pc' \in Handles
             PROVE  status0'
  OBVIOUS
<1>2. status0 /\ (cpu_pc \in Handles \/ (cpu_pc = "getc_wait" /\ cpu_wait = 0))
  BY <1>1, CpuFacts DEF Handles, Talking
<1>3. spi_wr_req # "ack"
  BY <1>1, <1>2 DEF AckOnItsWay, Handles
<1>4. ~TakesInit
  BY DEF Talking, TakesInit, Presents
<1>5. QED
  BY Zenon, <1>2, <1>3, <1>4, MmFacts

LEMMA TalkingToInit ==
  ASSUME SessionInv, ~Collides, Next, Talking, Arrives("INIT")
  PROVE  Init1'
<1>1. TypeInv /\ RxInv /\ ~collided
  BY DEF SessionInv
<1>2. Ended # NoPacket /\ Ended.op = "INIT" /\ Since(1)'
  BY <1>1, ArrivalEnds DEF Arrives
<1>3. RxRestart
  <2>1. OpensSession(Ended)
    BY <1>1, InitOpens DEF RxInv
  <2>2. QED
    BY <1>1, <2>1, RxCases DEF RxInv, RxEnqueue, RxPop, RxIdle, Queues, OpensSession
<1>4. Only("INIT")' /\ state_rd' = "RD_WAIT_DATA"
  BY <1>2, <1>3 DEF RxRestart, Only
<1>5. init_owed' /\ ~start_owed' /\ sent' = << >>
  BY Zenon DEF Next, Tick, HistoryTick
<1>6. ~cpu_init'
  <2>1. ~TakesInit /\ ~cpu_init
    BY DEF Talking, TakesInit, Presents
  <2>2. QED
    BY Zenon, <2>1, MmFacts
<1>7. state' # "INIT_CPU"
  <2>1. state \in LoaderStates /\ ~cpu_init
    BY <1>1 DEF TypeInv, TypeOK, TopTypeOK, Talking
  <2>2. QED
    BY <2>1, LoaderFacts DEF LoaderStates, Waiting
<1>8. StartAlone'
  BY StartAloneStep DEF Talking
<1>9. ~misplaced' => Waiting' /\ ~firm_wr' /\ ~cpu_start'
  <2> SUFFICES ASSUME ~misplaced' PROVE Waiting' /\ ~firm_wr' /\ ~cpu_start'
    OBVIOUS
  <2>1. misplaced' <=> Misplaces \/ (misplaced /\ state # "INIT_CPU")
    BY Zenon, <1>1 DEF Next, Tick, HistoryTick
  <2>2. Calm
    BY <2>1 DEF Talking
  <2>3. ~TakesFirm /\ ~TakesStart
    BY <2>2 DEF Calm, TakesFirm, TakesStart, Presents
  <2>4. QED
    BY <2>2, <2>3, MmFacts, LoaderFacts DEF Calm, Talking
<1>10. cpu_reset' => write_req' # "mem"
  <2>1. cpu_reset' => cpu_reset
    <3>1. state \in LoaderStates /\ ~cpu_init /\ state # "INIT_CPU"
      BY <1>1 DEF TypeInv, TypeOK, TopTypeOK, Talking
    <3>2. QED
      BY <3>1, LoaderFacts DEF LoaderStates, Waiting
  <2>2. QED
    BY <1>1, <2>1, CpuFacts
<1>11. QED
  BY <1>2, <1>4, <1>5, <1>6, <1>7, <1>8, <1>9, <1>10 DEF Init1, Restarting

LEMMA TalkingStays ==
  ASSUME SessionInv, AckOnItsWay, ~Collides, Next, Talking, ~Arrives("INIT")
  PROVE  Talking'
<1>1. TypeInv /\ RxInv /\ ~collided
  BY DEF SessionInv
<1>2. Ended = NoPacket \/ Ended.op \in {"CMD", "NOP"}
  <2>1. Ended # NoPacket => Ended.op \in Opcodes /\ wire = Ended /\ left > 0
    BY <1>1, RxTypes DEF Packet
  <2>2. QED
    BY <2>1 DEF Talking, HostNotLoading, Arrives, Opcodes
<1>3. HostNotLoading'
  BY <1>1, <1>2, HostNotLoadingStep DEF Talking
<1>4. ~Arrives("START")
  BY <1>2 DEF Arrives
<1>5. ~init_owed' /\ ~start_owed'
  <2>1. /\ init_owed' <=> Arrives("INIT") \/ (init_owed /\ state # "INIT_CPU")
        /\ start_owed' <=> /\ ~Arrives("INIT")
                           /\ Arrives("START") \/ (start_owed /\ state # "START_CPU")
    BY Zenon DEF Next, Tick, HistoryTick
  <2>2. QED
    BY <1>4, <2>1 DEF Talking
<1>6. rd_data_available' => rd_data'.op # "INIT"
  BY InitNotShownAgain DEF Talking
<1>7. ~cpu_init'
  <2>1. ~TakesInit /\ ~cpu_init
    BY DEF Talking, TakesInit, Presents
  <2>2. QED
    BY Zenon, <2>1, MmFacts
<1>8. state' # "INIT_CPU" /\ (cpu_reset' => cpu_reset)
  <2>1. state \in LoaderStates /\ ~cpu_init /\ state # "INIT_CPU"
    BY <1>1 DEF TypeInv, TypeOK, TopTypeOK, Talking
  <2>2. QED
    BY <2>1, LoaderFacts DEF LoaderStates, Waiting
<1>9. StartAlone'
  BY StartAloneStep DEF Talking
<1>10. cpu_reset' => write_req' # "mem"
  BY <1>1, <1>8, CpuFacts
<1>11. cpu_pc' \in Handles => status0'
  BY HandlesStep
<1>12. ~misplaced' => Calm'
  <2> SUFFICES ASSUME ~misplaced' PROVE Calm'
    OBVIOUS
  <2>1. misplaced' <=> Misplaces \/ (misplaced /\ state # "INIT_CPU")
    BY Zenon, <1>1 DEF Next, Tick, HistoryTick
  <2>2. ~Misplaces /\ Calm
    BY <2>1 DEF Talking
  <2>3. QED
    BY <1>2, <2>2, CalmStep
<1>13. QED
  BY <1>3, <1>5, <1>6, <1>7, <1>8, <1>9, <1>10, <1>11, <1>12 DEF Talking

LEMMA PhaseStep ==
  ASSUME ~Collides, Xfer >= 6, LinkInv, Next
  PROVE  Talking' \/ Loading'
<1>1. CASE Talking
  BY <1>1, TalkingToInit, TalkingStays DEF LinkInv, Loading
<1>2. CASE Ready
  BY <1>2, ReadyStep DEF LinkInv
<1>3. CASE Init1 \/ Init2 \/ Init3 \/ Init4 \/ Init5 \/ Init6
  BY <1>3, Init1Step, Init2Step, Init3Step, Init4Step, Init5Step, Init6Step
     DEF LinkInv, Loading
<1>4. CASE Firm1 \/ Firm2 \/ Firm3 \/ Firm4
  BY <1>4, Firm1Step, Firm2Step, Firm3Step, Firm4Step DEF LinkInv, Loading
<1>5. CASE Start1 \/ Start2 \/ Start3
  BY <1>5, Start1Step, Start2Step, Start3Step DEF LinkInv, Loading
<1>6. QED
  BY <1>1, <1>2, <1>3, <1>4, <1>5 DEF LinkInv, Loading

LEMMA AckOnItsWayStep ==
  ASSUME CpuGap >= 2, TypeInv, AckOnItsWay, Next
  PROVE  AckOnItsWay'
<1>1. cpu_wait \in Nat
  BY TimingAssumption DEF TypeInv, TypeOK
<1>2. write_req' = "ack" => cpu_pc' \in {"compute", "getc_wait"} /\ cpu_wait' >= 2
  BY CpuFacts
<1>3. spi_wr_req' = "ack" => \/ cpu_pc' = "compute"
                             \/ cpu_pc' = "getc_wait" /\ cpu_wait' >= 1
  BY <1>1, CpuFacts, BusFacts DEF AckOnItsWay
<1>4. QED
  BY <1>2, <1>3 DEF AckOnItsWay

(* While the handler is between its reads no command replaces the packet.  *)
LEMMA NoCmdTaken ==
  ASSUME Talking \/ Loading, cpu_pc \in Handles
  PROVE  ~TakesCmd
<1>1. CASE Talking
  BY <1>1 DEF Talking, TakesCmd
<1>2. cpu_pc # "compute"
  BY DEF Handles
<1>3. CASE Only("INIT") \/ Empty
  BY <1>3 DEF Only, Empty, TakesCmd, Presents
<1>4. Loading => Only("INIT") \/ Empty
  BY <1>2 DEF Loading, Init1, Init2, Init3, Init4, Init5, Init6, Ready, Firm1, Firm2, Firm3,
     Firm4, Start1, Start2, Start3, Firm, Started, Halted
<1>5. QED
  BY <1>1, <1>3, <1>4

LEMMA NoTornReadStep ==
  ASSUME LinkInv, Next
  PROVE  NoTornRead'
<1> SUFFICES ASSUME cpu_pc' \in {"getc_char", "getc_drop", "getc_ack"}
             PROVE  read_data_register' = opcode_seen'
  BY DEF NoTornRead
<1>1. TypeInv /\ NoTornRead /\ (Talking \/ Loading)
  BY DEF LinkInv, SessionInv
<1>2. \/ cpu_pc = "getc_opcode" /\ opcode_seen' = read_data_register
      \/ /\ cpu_pc \in {"getc_char", "getc_drop", "getc_ack"}
         /\ opcode_seen' = opcode_seen
  BY <1>1, CpuFacts
<1>3. ~TakesCmd
  BY <1>1, <1>2, NoCmdTaken DEF Handles
<1>4. read_data_register' = read_data_register
  BY Zenon, <1>3, MmFacts
<1>5. QED
  BY <1>1, <1>2, <1>4 DEF NoTornRead

LEMMA InitLinkInv == Init => LinkInv
<1> SUFFICES ASSUME Init PROVE LinkInv
  OBVIOUS
<1>1. SessionInv
  BY InitSessionInv
<1>2. HostOnWire /\ AckOnItsWay /\ NoTornRead
  BY DEF Init, TopInit, HostOnWire, AckOnItsWay, NoTornRead
<1>3. Talking
  <2>1. /\ left = 0 /\ host = "drain" /\ ~init_owed /\ ~start_owed
        /\ ~rd_data_available /\ rx_fifo_count = 0
        /\ ~cpu_init /\ ~cpu_start /\ ~firm_wr /\ Waiting
        /\ write_req = "none" /\ cpu_pc = "compute"
    BY DEF Init, SlaveInit, MmInit, TopInit, Waiting
  <2>2. Calm
    BY <2>1 DEF Calm
  <2>3. QED
    BY <2>1, <2>2 DEF Talking, HostNotLoading, StartAlone, Handles, Waiting
<1>4. QED
  BY <1>1, <1>2, <1>3 DEF LinkInv

(* An edge that changes nothing.                                           *)
LEMMA PhaseStutter ==
  ASSUME UNCHANGED vars, Talking \/ Loading
  PROVE  Talking' \/ Loading'
<1> USE DEF vars, hwVars, slaveVars, rxVars, mmVars, topVars, loaderVars, busVars,
        hostVars, cpuVars, historyVars
<1>1. /\ Talking => Talking'
      /\ Ready => Ready'
  BY DEF Talking, HostNotLoading, StartAlone, Calm, Ready, Halted, Empty, InMemory, Fits, Waiting
<1>2. Restarted' = Restarted /\ Resetting' = Resetting /\ Restarting' = Restarting
  BY DEF Restarted, Restarting, Resetting, Waiting
<1>3. /\ Init1 => Init1'
      /\ Init2 => Init2'
      /\ Init3 => Init3'
  BY <1>2 DEF Init1, Init2, Init3, Since, Only, Empty, StartAlone, Waiting
<1>4. /\ Init4 => Init4'
      /\ Init5 => Init5'
      /\ Init6 => Init6'
  BY <1>2 DEF Init4, Init5, Init6, Since, Empty
<1>5. /\ Firm1 => Firm1'
      /\ Firm2 => Firm2'
      /\ Firm3 => Firm3'
  BY DEF Firm1, Firm2, Firm3, Firm, Halted, Since, Only, InMemory, Fits, Waiting
<1>6. Firm4 => Firm4'
  BY DEF Firm4, Firm, Halted, Since, Empty, Fits, Waiting
<1>7. /\ Start1 => Start1'
      /\ Start2 => Start2'
      /\ Start3 => Start3'
  BY DEF Start1, Start2, Start3, Started, Halted, Since, Only, InMemory, Fits,
     HostNotLoading, Waiting
<1>8. QED
  BY <1>1, <1>3, <1>4, <1>5, <1>6, <1>7 DEF Loading

LEMMA LinkInvStep ==
  ASSUME ~Collides, Xfer >= 6, CpuGap >= 2, LinkInv, Next
  PROVE  LinkInv'
<1>1. SessionInv'
  BY SessionInvStep DEF LinkInv
<1>2. HostOnWire' /\ AckOnItsWay'
  BY HostOnWireStep, AckOnItsWayStep DEF LinkInv, SessionInv
<1>3. NoTornRead'
  BY NoTornReadStep
<1>4. Talking' \/ Loading'
  BY PhaseStep
<1>5. QED
  BY <1>1, <1>2, <1>3, <1>4 DEF LinkInv

LEMMA LinkStutter ==
  ASSUME LinkInv, UNCHANGED vars
  PROVE  LinkInv'
<1>1. SessionInv'
  BY SessionStutter DEF LinkInv
<1>2. HostOnWire' /\ AckOnItsWay' /\ NoTornRead'
  BY DEF LinkInv, HostOnWire, AckOnItsWay, NoTornRead, vars, hwVars, mmVars, topVars,
     busVars, hostVars, cpuVars
<1>3. Talking' \/ Loading'
  BY PhaseStutter DEF LinkInv
<1>4. QED
  BY <1>1, <1>2, <1>3 DEF LinkInv

(* An INIT packet that finds the link at rest begins a session as if no    *)
(* packet had met a pop.                                                   *)
LEMMA RepairInit ==
  ASSUME BaseInv, Next, Arrives("INIT"), AtRest
  PROVE  Init1'
<1>1. TypeInv
  BY DEF BaseInv
<1>2. Ended # NoPacket /\ Since(1)'
  BY <1>1, ArrivalEnds DEF Arrives
<1>3. RxRestart
  BY RepairRestarts
<1>4. Only("INIT")' /\ state_rd' = "RD_WAIT_DATA"
  BY <1>3 DEF RxRestart, Only, OpensSession
<1>5. init_owed' /\ ~start_owed' /\ sent' = << >>
  BY Zenon DEF Next, Tick, HistoryTick
<1>6. ~TakesInit /\ ~TakesFirm /\ ~TakesStart
  BY DEF AtRest, TakesInit, TakesFirm, TakesStart, Presents
<1>7. ~cpu_init' /\ ~firm_wr' /\ ~cpu_start'
  BY Zenon, <1>6, MmFacts DEF AtRest
<1>8. Waiting' /\ cpu_reset' = cpu_reset
  BY LoaderFacts DEF AtRest, Waiting
<1>9. cpu_reset' => write_req' # "mem"
  BY <1>1, <1>8, CpuFacts
<1>10. QED
  BY <1>2, <1>4, <1>5, <1>7, <1>8, <1>9 DEF Init1, Restarting, StartAlone, Waiting

LEMMA RepairLink ==
  ASSUME BaseInv, AckOnItsWay', Next, Arrives("INIT"), AtRest
  PROVE  LinkInv'
<1>1. SessionInv' /\ HostOnWire'
  BY RepairSession, BaseInvStep DEF BaseInv
<1>2. Init1'
  BY RepairInit
<1>3. NoTornRead'
  <2>1. cpu_pc' \notin {"getc_char", "getc_drop", "getc_ack"}
    BY CpuFacts DEF BaseInv, AtRest
  <2>2. QED
    BY <2>1 DEF NoTornRead
<1>4. QED
  BY <1>1, <1>2, <1>3 DEF LinkInv, Loading

(* Until a packet meets a pop, and again from the INIT that repairs it.    *)
SoundLink == BaseInv /\ AckOnItsWay /\ (~collided => LinkInv)

LEMMA SoundLinkStep ==
  ASSUME Xfer >= 6, CpuGap >= 2
  PROVE  SoundLink /\ [Next]_vars => SoundLink'
<1> SUFFICES ASSUME SoundLink, [Next]_vars PROVE SoundLink'
  OBVIOUS
<1>1. BaseInv'
  BY BaseInvStep DEF SoundLink
<1>2. CASE Next
  <2>1. AckOnItsWay'
    BY <1>2, AckOnItsWayStep DEF SoundLink, BaseInv
  <2>2. ASSUME ~collided' PROVE LinkInv'
    <3>1. ~Collides /\ (collided => Arrives("INIT") /\ AtRest)
      BY Zenon, <1>2, <2>2 DEF Next, Tick, HistoryTick
    <3>2. CASE collided
      BY <1>2, <2>1, <3>1, <3>2, RepairLink DEF SoundLink
    <3>3. CASE ~collided
      BY <1>2, <3>1, <3>3, LinkInvStep DEF SoundLink
    <3>4. QED
      BY <3>2, <3>3
  <2>3. QED
    BY <1>1, <2>1, <2>2 DEF SoundLink
<1>3. CASE UNCHANGED vars
  <2>1. AckOnItsWay' /\ collided' = collided
    BY <1>3 DEF SoundLink, AckOnItsWay, vars, hwVars, topVars, busVars, cpuVars, historyVars
  <2>2. ASSUME ~collided' PROVE LinkInv'
    BY <1>3, <2>1, <2>2, LinkStutter DEF SoundLink
  <2>3. QED
    BY <1>1, <2>1, <2>2 DEF SoundLink
<1>4. QED
  BY <1>2, <1>3

LEMMA SoundLinkAlways ==
  ASSUME Xfer >= 6, CpuGap >= 2
  PROVE  Spec => []SoundLink
<1>1. Init => SoundLink
  BY InitLinkInv, InitBaseInv DEF SoundLink, LinkInv
<1>2. SoundLink /\ [Next]_vars => SoundLink'
  BY SoundLinkStep
<1>3. QED
  BY <1>1, <1>2, PTL DEF Spec

(* SPIGETC sees one packet in its two reads and its acknowledgement,       *)
(* resets and reloads included, if the CPU takes two clock edges or more   *)
(* between two accesses of the bus: the acknowledgement then reaches       *)
(* spi_mm before the handler polls the mailbox again.  Not claimed from a  *)
(* packet that meets a pop to the next INIT that finds the link at rest.   *)
THEOREM NoTornReadAlways ==
  ASSUME Xfer >= 6, CpuGap >= 2
  PROVE  Spec => [](~collided => NoTornRead)
<1>1. SoundLink => (~collided => NoTornRead)
  BY DEF SoundLink, LinkInv
<1>2. Spec => []SoundLink
  BY SoundLinkAlways
<1>3. QED
  BY <1>1, <1>2, PTL

(* The loader never writes a firmware word at an edge at which the CPU     *)
(* stores, until a packet is misplaced or meets a pop: every word is sent  *)
(* after an INIT whose reset has reached the CPU by then.                  *)
THEOREM NoPortClashAlways ==
  ASSUME Xfer >= 6, CpuGap >= 2
  PROVE  Spec => []NoPortClash
<1>1. SoundLink => NoPortClash
  <2>1. Talking => NoPortClash
    BY DEF Talking, Calm, NoPortClash, Waiting
  <2>2. Loading => NoPortClash
    BY DEF Loading, Init1, Init2, Init3, Init4, Init5, Init6, Ready, Firm1, Firm2, Firm3,
       Firm4, Start1, Start2, Start3, Firm, Started, Halted, Restarted, Resetting,
       NoPortClash, Waiting
  <2>3. misplaced => NoPortClash
    BY DEF NoPortClash
  <2>4. QED
    BY <2>1, <2>2, <2>3 DEF SoundLink, BaseInv, LinkInv
<1>2. Spec => []SoundLink
  BY SoundLinkAlways
<1>3. QED
  BY <1>1, <1>2, PTL

(* When the loader starts the CPU, every word of the session is in the     *)
(* memory, at the address it was sent for, if the image is shorter than    *)
(* the 2^16 addresses of the load counter and no packet was misplaced or   *)
(* met a pop since the CPU was reset.                                      *)
THEOREM StartsLoadedAlways ==
  ASSUME Xfer >= 6, CpuGap >= 2
  PROVE  Spec => [](Len(sent) < AddrSpace => StartsLoaded)
<1>1. SoundLink => (Len(sent) < AddrSpace => StartsLoaded)
  <2> SUFFICES ASSUME SoundLink, Fits, state = "START_CPU", ~misplaced
               PROVE  InMemory(Len(sent))
    BY DEF StartsLoaded, InMemory, Fits
  <2>1. LinkInv
    BY DEF SoundLink, BaseInv
  <2>2. ~Talking
    BY DEF Talking, Calm, Waiting
  <2>3. Start3
    BY <2>1, <2>2 DEF LinkInv, Loading, Init1, Init2, Init3, Init4, Init5, Init6, Ready, Firm1,
       Firm2, Firm3, Firm4, Start1, Start2, Restarted, Resetting, Waiting
  <2>4. QED
    BY <2>3 DEF Start3, Started
<1>2. Spec => []SoundLink
  BY SoundLinkAlways
<1>3. QED
  BY <1>1, <1>2, PTL

-----------------------------------------------------------------------------
(* The chip implements the loader.  The image is the memory as it will be  *)
(* when the write on the port is done.                                     *)
LoadedAt(m, w, a) == IF w # NoWrite /\ w.addr = a THEN w.data ELSE m[a]

ImageOf(c, m, w) == [i \in 1..c |-> LoadedAt(m, w, i - 1)]

ImageNow  == ImageOf(counter_firmware_address, memory, memory_wr)
ImageNext == ImageOf(counter_firmware_address', memory', memory_wr')

LEMMA LoadedType ==
  ASSUME NEW m \in [Address -> MemWord], NEW w \in MemWrite \cup {NoWrite}, NEW a \in Address
  PROVE  LoadedAt(m, w, a) \in MemWord
BY DEF LoadedAt, MemWrite

LEMMA ImageType ==
  ASSUME NEW c \in Address, NEW m \in [Address -> MemWord],
         NEW w \in MemWrite \cup {NoWrite}
  PROVE  /\ ImageOf(c, m, w) \in Seq(MemWord)
         /\ Len(ImageOf(c, m, w)) = c
         /\ \A i \in 1..c : ImageOf(c, m, w)[i] = LoadedAt(m, w, i - 1)
<1>1. c \in Nat /\ \A i \in 1..c : i - 1 \in Address
  BY AddrSpaceAssumption DEF Address
<1> DEFINE r == [i \in 1..c |-> LoadedAt(m, w, i - 1)]
<1>2. r \in [1..c -> MemWord]
  BY <1>1, LoadedType
<1>3. r \in Seq(MemWord) /\ Len(r) = c
  <2> HIDE DEF r
  <2>1. QED
    BY <1>1, <1>2, IsASeq, SeqDef, LenProperties
<1>4. ImageOf(c, m, w) = r
  BY DEF ImageOf
<1>5. QED
  BY <1>3, <1>4

LEMMA ImageTypes ==
  ASSUME TypeInv
  PROVE  /\ counter_firmware_address \in Address
         /\ counter_firmware_address \in Nat
         /\ memory \in [Address -> MemWord]
         /\ memory_wr \in MemWrite \cup {NoWrite}
         /\ sent \in Seq(1..MaxPackets)
         /\ Len(sent) \in Nat
<1>1. sent \in Seq(1..MaxPackets) /\ TopTypeOK
  BY DEF TypeInv, TypeOK
<1>2. Len(sent) \in Nat
  BY <1>1, LenProperties
<1>3. QED
  BY <1>1, <1>2, AddrSpaceAssumption DEF TopTypeOK, Address

(* The image does not change while neither the loader nor the program      *)
(* stores: the write on the port only moves into the memory.               *)
LEMMA ImageFrame ==
  ASSUME TypeInv, Next, counter_firmware_address' = counter_firmware_address,
         write_req # "mem", state # "WRITE_MEMORY"
  PROVE  ImageNext = ImageNow
<1>1. /\ counter_firmware_address \in Address /\ memory \in [Address -> MemWord]
      /\ memory_wr \in MemWrite \cup {NoWrite}
  BY ImageTypes
<1>2. memory_wr' = NoWrite
  BY BusFacts
<1>3. ASSUME NEW a \in Address
      PROVE  LoadedAt(memory', NoWrite, a) = LoadedAt(memory, memory_wr, a)
  <2>1. CASE memory_wr = NoWrite
    BY <2>1, BusFacts DEF LoadedAt
  <2>2. CASE memory_wr # NoWrite
    <3>1. memory' = [memory EXCEPT ![memory_wr.addr] = memory_wr.data]
      BY <2>2, BusFacts
    <3>2. QED
      BY <1>1, <2>2, <3>1 DEF LoadedAt
  <2>3. QED
    BY <2>1, <2>2
<1>4. \A i \in 1..counter_firmware_address : i - 1 \in Address
  BY <1>1, AddrSpaceAssumption DEF Address
<1>5. \A i \in 1..counter_firmware_address :
        LoadedAt(memory', memory_wr', i - 1) = LoadedAt(memory, memory_wr, i - 1)
  BY <1>2, <1>3, <1>4
<1>6. QED
  BY <1>5 DEF ImageNow, ImageNext, ImageOf

(* A program that stores leaves the length of the image alone.             *)
LEMMA ImageDomain ==
  ASSUME counter_firmware_address' = counter_firmware_address
  PROVE  DOMAIN ImageNext = DOMAIN ImageNow
BY DEF ImageNow, ImageNext, ImageOf

LEMMA ImageEmpty ==
  ASSUME TypeInv, counter_firmware_address = 0
  PROVE  ImageNow = << >>
<1>1. ImageNow \in Seq(MemWord) /\ Len(ImageNow) = 0
  BY ImageTypes, ImageType DEF ImageNow
<1>2. QED
  BY <1>1, EmptySeq

LEMMA ImageEmptyNext ==
  ASSUME TypeInv', counter_firmware_address' = 0
  PROVE  ImageNext = << >>
<1>1. /\ 0 \in Address /\ memory' \in [Address -> MemWord]
      /\ memory_wr' \in MemWrite \cup {NoWrite}
  BY AddrSpaceAssumption DEF TypeInv, TypeOK, TopTypeOK, Address
<1>2. ImageNext \in Seq(MemWord) /\ Len(ImageNext) = 0
  BY <1>1, ImageType DEF ImageNext
<1>3. QED
  BY <1>2, EmptySeq

(* The program runs, or the image is as it was.                            *)
LEMMA StoresOnlyRunning ==
  ASSUME TypeInv, Next, counter_firmware_address' = counter_firmware_address,
         state # "WRITE_MEMORY", cpu_reset => write_req # "mem"
  PROVE  \/ ImageNext = ImageNow
         \/ ~cpu_reset /\ DOMAIN ImageNext = DOMAIN ImageNow
<1>1. CASE write_req = "mem"
  BY <1>1, ImageDomain
<1>2. CASE write_req # "mem"
  BY <1>2, ImageFrame
<1>3. QED
  BY <1>1, <1>2

(* The loader's step, in terms of the image.                               *)
LEMMA LoaderStutter ==
  ASSUME sent' = sent, ImageNext = ImageNow, cpu_reset' = cpu_reset,
         init_owed' = init_owed, start_owed' = start_owed
  PROVE  UNCHANGED Loader!loaderState
BY Zenon DEF Loader!loaderState, LoadedWord, ImageNow, ImageNext, ImageOf, LoadedAt

LEMMA LoaderExecute ==
  ASSUME sent' = sent, cpu_reset' = cpu_reset, init_owed' = init_owed,
         start_owed' = start_owed,
         ~cpu_reset, DOMAIN ImageNext = DOMAIN ImageNow
  PROVE  Loader!Execute
BY Zenon DEF Loader!Execute, LoadedWord, ImageNow, ImageNext, ImageOf, LoadedAt

LEMMA LoaderNewSession ==
  ASSUME sent' = << >>, init_owed' = TRUE, start_owed' = FALSE, cpu_reset' = cpu_reset,
         \/ ImageNext = ImageNow
         \/ ~cpu_reset /\ DOMAIN ImageNext = DOMAIN ImageNow
  PROVE  Loader!NewSession
BY Zenon DEF Loader!NewSession, Loader!ProgramStores, LoadedWord, ImageNow, ImageNext,
   ImageOf, LoadedAt

LEMMA LoaderReset ==
  ASSUME init_owed, init_owed' = FALSE, cpu_reset', ImageNext = << >>,
         sent' = sent, start_owed' = start_owed
  PROVE  Loader!Reset
<1>1. (~cpu_reset') = FALSE
  OBVIOUS
<1>2. QED
  BY Zenon, <1>1 DEF Loader!Reset, LoadedWord, ImageNext, ImageOf, LoadedAt

LEMMA LoaderStart ==
  ASSUME start_owed, ~init_owed, ImageNow = sent, start_owed' = FALSE, ~cpu_reset',
         sent' = sent, ImageNext = ImageNow, init_owed' = init_owed
  PROVE  Loader!Start
<1>1. (~cpu_reset') = TRUE
  OBVIOUS
<1>2. QED
  BY Zenon, <1>1 DEF Loader!Start, LoadedWord, ImageNow, ImageNext, ImageOf, LoadedAt

LEMMA LoaderAskStart ==
  ASSUME start_owed' = TRUE, sent' = sent, ImageNext = ImageNow, cpu_reset' = cpu_reset,
         init_owed' = init_owed
  PROVE  Loader!AskStart
BY Zenon DEF Loader!AskStart, LoadedWord, ImageNow, ImageNext, ImageOf, LoadedAt

(* A sequence is what its extension by one element starts with.            *)
LEMMA PrefixOfAppend ==
  ASSUME NEW S, NEW s \in Seq(S), NEW x \in S
  PROVE  SubSeq(Append(s, x), 1, Len(s)) = s
<1>1. Append(s, x) = s \o <<x>> /\ <<x>> \in Seq(S)
  BY AppendIsConcat
<1>2. CASE Len(s) = 0
  <2>1. s = << >>
    BY <1>2, EmptySeq
  <2>2. SubSeq(Append(s, x), 1, Len(s)) = << >>
    BY <1>2, SubSeqEmpty
  <2>3. QED
    BY <2>1, <2>2
<1>3. CASE Len(s) # 0
  <2>1. 1 \in 1..Len(s) /\ Len(s) \in 1..Len(s)
    BY <1>3, LenProperties
  <2>2. SubSeq(s \o <<x>>, 1, Len(s)) = SubSeq(s, 1, Len(s))
    BY Zenon, <1>1, <2>1, SubSeqOfConcat1
  <2>3. QED
    BY <1>1, <2>2, SubSeqFull
<1>4. QED
  BY <1>2, <1>3

LEMMA LoaderSend ==
  ASSUME NEW x \in 1..MaxPackets, sent \in Seq(1..MaxPackets), sent' = Append(sent, x),
         ImageNext = ImageNow, cpu_reset' = cpu_reset,
         init_owed' = init_owed, start_owed' = start_owed
  PROVE  Loader!Send
<1>1. Len(sent') = Len(sent) + 1
  BY AppendProperties
<1>2. SubSeq(sent', 1, Len(sent)) = sent
  BY PrefixOfAppend
<1>3. QED
  BY Zenon, <1>1, <1>2 DEF Loader!Send, LoadedWord, ImageNow, ImageNext, ImageOf, LoadedAt

LEMMA LoaderLoad ==
  ASSUME ~init_owed, cpu_reset, Len(ImageNow) < Len(sent),
         ImageNext = Append(ImageNow, sent[Len(ImageNow) + 1]),
         sent' = sent, cpu_reset' = cpu_reset, init_owed' = init_owed,
         start_owed' = start_owed
  PROVE  Loader!Load
BY Zenon DEF Loader!Load, LoadedWord, ImageNow, ImageNext, ImageOf, LoadedAt

(* The image grows by the word on the port.                                *)
LEMMA ImageAppend ==
  ASSUME NEW c \in Address, c + 1 \in Address, NEW m \in [Address -> MemWord],
         NEW x \in MemWord
  PROVE  ImageOf(c + 1, m, [addr |-> c, data |-> x]) = Append(ImageOf(c, m, NoWrite), x)
<1> DEFINE w == [addr |-> c, data |-> x]
           q == ImageOf(c, m, NoWrite)
           r == ImageOf(c + 1, m, w)
<1>1. c \in Nat /\ w \in MemWrite /\ w # NoWrite
  BY AddrSpaceAssumption, NoWriteAssumption DEF Address, MemWrite
<1>2. /\ q \in Seq(MemWord) /\ Len(q) = c
      /\ \A i \in 1..c : q[i] = LoadedAt(m, NoWrite, i - 1)
  <2>1. q \in Seq(MemWord) /\ Len(q) = c
    BY ImageType
  <2>2. \A i \in 1..c : q[i] = LoadedAt(m, NoWrite, i - 1)
    BY ImageType
  <2>3. QED
    BY <2>1, <2>2
<1>3. /\ r \in Seq(MemWord) /\ Len(r) = c + 1
      /\ \A i \in 1..c + 1 : r[i] = LoadedAt(m, w, i - 1)
  <2> HIDE DEF w
  <2>1. r \in Seq(MemWord) /\ Len(r) = c + 1
    BY <1>1, ImageType
  <2>2. \A i \in 1..c + 1 : r[i] = LoadedAt(m, w, i - 1)
    BY <1>1, ImageType
  <2>3. QED
    BY <2>1, <2>2
<1>4. /\ Append(q, x) \in Seq(MemWord) /\ Len(Append(q, x)) = c + 1
      /\ \A i \in 1..c : Append(q, x)[i] = q[i]
      /\ Append(q, x)[c + 1] = x
  <2> HIDE DEF q
  <2>1. QED
    BY <1>1, <1>2, AppendProperties
<1>5. ASSUME NEW i \in 1..c + 1
      PROVE  r[i] = Append(q, x)[i]
  <2>1. CASE i = c + 1
    BY <1>1, <1>3, <1>4, <2>1 DEF LoadedAt
  <2>2. CASE i # c + 1
    <3>1. i \in 1..c /\ i - 1 # c
      BY <1>1, <2>2
    <3>2. Append(q, x)[i] = LoadedAt(m, NoWrite, i - 1)
      BY <1>2, <1>4, <3>1
    <3>3. r[i] = LoadedAt(m, w, i - 1)
      BY <1>3
    <3>4. LoadedAt(m, w, i - 1) = LoadedAt(m, NoWrite, i - 1)
      BY <3>1 DEF LoadedAt
    <3>5. QED
      BY Zenon, <3>2, <3>3, <3>4
  <2>3. QED
    BY <2>1, <2>2
<1> HIDE DEF q, r
<1>6. r = Append(q, x)
  BY <1>3, <1>4, <1>5, SeqEqual
<1>7. QED
  BY <1>6 DEF q, r

(* What is owed changes only by a packet or by the loader.                 *)
LEMMA OwedFrame ==
  ASSUME TypeInv, TypeInv', Next, ~Arrives("INIT")
  PROVE  /\ state # "INIT_CPU" => init_owed' = init_owed
         /\ ~Arrives("FIRM") => sent' = sent
         /\ ~Arrives("START") /\ state # "START_CPU" => start_owed' = start_owed
         /\ ~Arrives("START") /\ ~start_owed => start_owed' = start_owed
         /\ Arrives("START") => start_owed' = TRUE
         /\ state = "INIT_CPU" => init_owed' = FALSE
         /\ ~Arrives("START") /\ state = "START_CPU" => start_owed' = FALSE
         /\ Arrives("FIRM") => sent' = Append(sent, Ended.id)
<1>1. HistoryTick
  BY DEF Next, Tick
<1>2. /\ init_owed \in BOOLEAN /\ init_owed' \in BOOLEAN
      /\ start_owed \in BOOLEAN /\ start_owed' \in BOOLEAN
  BY DEF TypeInv, TypeOK
<1>3. /\ init_owed' <=> init_owed /\ state # "INIT_CPU"
      /\ start_owed' <=> Arrives("START") \/ (start_owed /\ state # "START_CPU")
      /\ ~Arrives("FIRM") => sent' = sent
      /\ Arrives("FIRM") => sent' = Append(sent, Ended.id)
  BY Zenon, <1>1 DEF HistoryTick
<1>4. QED
  BY Zenon, <1>2, <1>3

LEMMA ResetFrame ==
  ASSUME Next, ~(state = "INIT_CPU"), ~(state = "START_CPU"), state \in LoaderStates
  PROVE  cpu_reset' = cpu_reset
BY LoaderFacts DEF LoaderStates, Waiting

(* Between the packets that concern it, the loader waits or the program    *)
(* runs.                                                                   *)
LEMMA LoaderWaits ==
  ASSUME TypeInv, TypeInv', Next, Waiting, cpu_reset => write_req # "mem",
         ~Arrives("INIT"), ~Arrives("FIRM"), ~Arrives("START")
  PROVE  [Loader!Next]_Loader!loaderState
<1>1. state # "INIT_CPU" /\ state # "START_CPU" /\ state # "WRITE_MEMORY"
      /\ state \in LoaderStates
  BY DEF Waiting, LoaderStates
<1>2. sent' = sent /\ init_owed' = init_owed /\ start_owed' = start_owed
  BY Zenon, <1>1, OwedFrame
<1>3. cpu_reset' = cpu_reset
  BY <1>1, ResetFrame
<1>4. counter_firmware_address' = counter_firmware_address
  BY <1>1, LoaderFacts
<1>5. CASE ImageNext = ImageNow
  <2>1. UNCHANGED Loader!loaderState
    BY Zenon, <1>2, <1>3, <1>5, LoaderStutter
  <2>2. QED
    BY Zenon, <2>1
<1>6. CASE ~cpu_reset /\ DOMAIN ImageNext = DOMAIN ImageNow
  <2>1. Loader!Execute
    BY Zenon, <1>2, <1>3, <1>6, LoaderExecute
  <2>2. QED
    BY Zenon, <2>1 DEF Loader!Next
<1>7. QED
  BY Zenon, <1>1, <1>4, <1>5, <1>6, StoresOnlyRunning

(* The edges at which the load address is 0.                               *)
LEMMA LoaderEmpty ==
  ASSUME TypeInv, TypeInv', Next, Restarted, Ended = NoPacket
  PROVE  [Loader!Next]_Loader!loaderState
<1>1. ~Arrives("INIT") /\ ~Arrives("FIRM") /\ ~Arrives("START")
  BY DEF Arrives
<1>2. state # "INIT_CPU" /\ state # "START_CPU" /\ state # "WRITE_MEMORY"
      /\ state \in LoaderStates
  BY DEF Restarted, Waiting, LoaderStates
<1>3. sent' = sent /\ init_owed' = init_owed /\ start_owed' = start_owed
  BY Zenon, <1>1, <1>2, OwedFrame
<1>4. cpu_reset' = cpu_reset
  BY <1>2, ResetFrame
<1>5. counter_firmware_address = 0 /\ counter_firmware_address' = 0
  BY <1>2, LoaderFacts DEF Restarted
<1>6. ImageNow = << >> /\ ImageNext = << >>
  BY Zenon, <1>5, ImageEmpty, ImageEmptyNext
<1>7. UNCHANGED Loader!loaderState
  BY Zenon, <1>3, <1>4, <1>6, LoaderStutter
<1>8. QED
  BY Zenon, <1>7

(* INIT_CPU.                                                               *)
LEMMA LoaderResets ==
  ASSUME TypeInv, TypeInv', Next, Resetting, Ended = NoPacket
  PROVE  Loader!Reset
<1>1. ~Arrives("INIT") /\ ~Arrives("FIRM") /\ ~Arrives("START")
  BY DEF Arrives
<1>2. state = "INIT_CPU" /\ init_owed /\ ~start_owed
  BY DEF Resetting, Restarting
<1>3. sent' = sent /\ init_owed' = FALSE /\ start_owed' = start_owed
  BY Zenon, <1>1, <1>2, OwedFrame
<1>4. cpu_reset' /\ counter_firmware_address' = 0
  BY <1>2, LoaderFacts
<1>5. ImageNext = << >>
  BY Zenon, <1>4, ImageEmptyNext
<1>6. QED
  BY Zenon, <1>2, <1>3, <1>4, <1>5, LoaderReset

(* WRITE_MEMORY.                                                           *)
LEMMA LoaderLoads ==
  ASSUME TypeInv, TypeInv', Next, Firm3, Fits, Ended = NoPacket
  PROVE  Loader!Load
<1>1. ~Arrives("INIT") /\ ~Arrives("FIRM") /\ ~Arrives("START")
  BY DEF Arrives
<1>2. state = "WRITE_MEMORY" /\ ~start_owed /\ ~init_owed /\ cpu_reset
      /\ write_req # "mem" /\ memory_wr = NoWrite /\ firm_data = sent[Len(sent)]
      /\ Len(sent) > 0
  BY DEF Firm3, Firm, Halted
<1>3. sent' = sent /\ init_owed' = init_owed /\ start_owed' = start_owed
  <2>1. state # "INIT_CPU"
    BY <1>2
  <2>2. QED
    BY Zenon, <1>1, <1>2, <2>1, OwedFrame
<1>4. cpu_reset' = cpu_reset
  BY <1>2, LoaderFacts
<1> DEFINE c == Len(sent) - 1
<1>5. /\ Len(sent) \in Nat /\ Len(sent) < AddrSpace
      /\ c \in Address /\ c + 1 \in Address /\ c + 1 = Len(sent)
      /\ memory \in [Address -> MemWord] /\ AddrSpace \in Nat \ {0}
      /\ sent \in Seq(1..MaxPackets)
  BY <1>2, ImageTypes, AddrSpaceAssumption DEF Fits, Address
<1>6. counter_firmware_address = c
  BY DEF Firm3, InMemory
<1>7. counter_firmware_address' = c + 1
  <2>1. counter_firmware_address' = (c + 1) % AddrSpace
    BY Zenon, <1>2, <1>6, LoaderFacts
  <2>2. (c + 1) % AddrSpace = c + 1
    BY Zenon, <1>5, SmallRemainder
  <2>3. QED
    BY Zenon, <2>1, <2>2
<1>8. /\ memory' = memory
      /\ memory_wr' = [addr |-> c, data |-> sent[Len(sent)]]
  BY <1>2, <1>6, BusFacts
<1>9. sent[Len(sent)] \in MemWord
  <2>1. Len(sent) \in 1..Len(sent)
    BY <1>2, <1>5
  <2>2. sent[Len(sent)] \in 1..MaxPackets
    BY <1>5, <2>1, ElementOfSeq
  <2>3. QED
    BY <2>2, BoundAssumption DEF MemWord
<1>10. ImageNext = Append(ImageNow, sent[Len(sent)])
  <2> HIDE DEF c
  <2>1. ImageNow = ImageOf(c, memory, NoWrite)
    BY Zenon, <1>2, <1>6 DEF ImageNow
  <2>2. ImageNext = ImageOf(c + 1, memory, [addr |-> c, data |-> sent[Len(sent)]])
    BY Zenon, <1>7, <1>8 DEF ImageNext
  <2>3. QED
    BY Zenon, <1>5, <1>9, <2>1, <2>2, ImageAppend
<1>11. Len(ImageNow) = c
  BY <1>6, ImageType, ImageTypes DEF ImageNow
<1>12. Len(ImageNow) < Len(sent) /\ Len(ImageNow) + 1 = Len(sent)
  BY <1>5, <1>11
<1>13. QED
  BY Zenon, <1>2, <1>3, <1>4, <1>10, <1>12, LoaderLoad

(* START_CPU.                                                              *)
LEMMA LoaderStarts ==
  ASSUME TypeInv, TypeInv', Next, Start3, Fits, Ended = NoPacket
  PROVE  Loader!Start
<1>1. ~Arrives("INIT") /\ ~Arrives("FIRM") /\ ~Arrives("START")
  BY DEF Arrives
<1>2. /\ state = "START_CPU" /\ state # "INIT_CPU" /\ start_owed /\ ~init_owed
      /\ write_req # "mem" /\ memory_wr = NoWrite
  BY DEF Start3, Started, Halted
<1>3. sent' = sent /\ init_owed' = init_owed /\ start_owed' = FALSE
  BY Zenon, <1>1, <1>2, OwedFrame
<1>4. ~cpu_reset' /\ counter_firmware_address' = counter_firmware_address
  BY <1>2, LoaderFacts
<1>5. state # "WRITE_MEMORY"
  BY <1>2
<1>6. ImageNext = ImageNow
  BY Zenon, <1>2, <1>4, <1>5, ImageFrame
<1>7. /\ counter_firmware_address = Len(sent)
      /\ \A i \in 1..Len(sent) : memory[i - 1] = sent[i]
  BY DEF Start3, Started, InMemory
<1>8. /\ ImageNow \in Seq(MemWord) /\ Len(ImageNow) = Len(sent)
      /\ \A i \in 1..Len(sent) : ImageNow[i] = memory[i - 1]
  <2>1. ImageNow \in Seq(MemWord) /\ Len(ImageNow) = Len(sent)
    BY <1>7, ImageType, ImageTypes DEF ImageNow
  <2>2. \A i \in 1..Len(sent) : ImageNow[i] = LoadedAt(memory, memory_wr, i - 1)
    BY <1>7, ImageType, ImageTypes DEF ImageNow
  <2>3. QED
    BY <1>2, <2>1, <2>2 DEF LoadedAt
<1>9. sent \in Seq(MemWord)
  BY ImageTypes, BoundAssumption DEF MemWord
<1>10. \A i \in 1..Len(sent) : ImageNow[i] = sent[i]
  BY <1>7, <1>8
<1>11. ImageNow = sent
  BY Zenon, <1>8, <1>9, <1>10, SeqEqual
<1>12. QED
  BY Zenon, <1>2, <1>3, <1>4, <1>6, <1>11, LoaderStart

(* An INIT packet.                                                         *)
LEMMA LoaderSession ==
  ASSUME TypeInv, Next, Arrives("INIT"), Waiting, cpu_reset => write_req # "mem"
  PROVE  Loader!NewSession
<1>1. sent' = << >> /\ init_owed' = TRUE /\ start_owed' = FALSE
  BY Zenon DEF Next, Tick, HistoryTick
<1>2. state # "INIT_CPU" /\ state # "START_CPU" /\ state # "WRITE_MEMORY"
      /\ state \in LoaderStates
  BY DEF Waiting, LoaderStates
<1>3. cpu_reset' = cpu_reset
  BY <1>2, ResetFrame
<1>4. counter_firmware_address' = counter_firmware_address
  BY <1>2, LoaderFacts
<1>5. \/ ImageNext = ImageNow
      \/ ~cpu_reset /\ DOMAIN ImageNext = DOMAIN ImageNow
  BY Zenon, <1>2, <1>4, StoresOnlyRunning
<1>6. QED
  BY Zenon, <1>1, <1>3, <1>5, LoaderNewSession

(* A firmware word, or START, reaches a chip that waits for it.            *)
LEMMA LoaderReceives ==
  ASSUME TypeInv, TypeInv', Next, Ready, Arrives("FIRM") \/ Arrives("START")
  PROVE  Loader!Send \/ Loader!AskStart
<1>1. /\ state # "INIT_CPU" /\ state # "START_CPU" /\ state # "WRITE_MEMORY"
      /\ state \in LoaderStates /\ write_req # "mem" /\ ~start_owed
  BY DEF Ready, Halted, Waiting, LoaderStates
<1>2. cpu_reset' = cpu_reset
  BY <1>1, ResetFrame
<1>3. counter_firmware_address' = counter_firmware_address
  BY <1>1, LoaderFacts
<1>4. ImageNext = ImageNow
  BY Zenon, <1>1, <1>3, ImageFrame
<1>5. CASE Arrives("FIRM")
  <2>1. ~Arrives("INIT") /\ ~Arrives("START")
    BY <1>5 DEF Arrives
  <2>2. /\ sent' = Append(sent, Ended.id)
        /\ init_owed' = init_owed /\ start_owed' = start_owed
    BY Zenon, <1>1, <1>5, <2>1, OwedFrame
  <2>3. Ended.id \in 1..MaxPackets
    BY <1>5, EndedType, BoundAssumption DEF Arrives, Packet, TypeInv
  <2>4. sent \in Seq(1..MaxPackets)
    BY ImageTypes
  <2>5. Loader!Send
    BY Zenon, <1>2, <1>4, <2>2, <2>3, <2>4, LoaderSend
  <2>6. QED
    BY <2>5
<1>6. CASE Arrives("START")
  <2>1. ~Arrives("INIT") /\ ~Arrives("FIRM")
    BY <1>6 DEF Arrives
  <2>2. sent' = sent /\ init_owed' = init_owed /\ start_owed' = TRUE
    BY Zenon, <1>1, <1>6, <2>1, OwedFrame
  <2>3. Loader!AskStart
    BY Zenon, <1>2, <1>4, <2>2, LoaderAskStart
  <2>4. QED
    BY <2>3
<1>7. QED
  BY <1>5, <1>6

(* One clock edge is one step of the abstract loader, or none.             *)
LEMMA LoaderStep ==
  ASSUME ~Collides, Xfer >= 6, LinkInv, TypeInv', Next, Fits, ~misplaced'
  PROVE  [Loader!Next]_Loader!loaderState
<1>1. SessionInv /\ TypeInv
  BY DEF LinkInv, SessionInv
<1>2. misplaced => state = "INIT_CPU"
  BY Zenon DEF Next, Tick, HistoryTick
<1>3. CASE Talking
  <2>1. Waiting /\ (cpu_reset => write_req # "mem")
    BY <1>2, <1>3 DEF Talking, Calm
  <2>2. CASE Arrives("INIT")
    BY Zenon, <1>1, <2>1, <2>2, LoaderSession DEF Loader!Next
  <2>3. CASE ~Arrives("INIT")
    <3>1. Ended # NoPacket => left > 0 /\ wire = Ended
      BY <1>1, RxTypes, TimingAssumption
    <3>2. ~Arrives("FIRM") /\ ~Arrives("START")
      BY <1>3, <3>1 DEF Talking, HostNotLoading, Arrives
    <3>3. QED
      BY <1>1, <2>1, <2>3, <3>2, LoaderWaits
  <2>4. QED
    BY <2>2, <2>3
<1>4. CASE Ready
  <2>1. Waiting /\ write_req # "mem"
    BY <1>4 DEF Ready, Halted
  <2>2. CASE Arrives("INIT")
    BY Zenon, <1>1, <2>1, <2>2, LoaderSession DEF Loader!Next
  <2>3. CASE Arrives("FIRM") \/ Arrives("START")
    BY Zenon, <1>1, <1>4, <2>3, LoaderReceives DEF Loader!Next
  <2>4. CASE ~Arrives("INIT") /\ ~Arrives("FIRM") /\ ~Arrives("START")
    BY <1>1, <2>1, <2>4, LoaderWaits
  <2>5. QED
    BY <2>2, <2>3, <2>4
<1>5. CASE ~Talking /\ ~Ready
  <2>1. PICK k \in 1..6 : Since(k)
    BY <1>5 DEF LinkInv, Loading, Init1, Init2, Init3, Init4, Init5, Init6, Firm1, Firm2,
       Firm3, Firm4, Start1, Start2, Start3
  <2>2. Ended = NoPacket
    BY <1>1, <2>1, NoArrival, TimingAssumption
  <2>3. ~Arrives("INIT") /\ ~Arrives("FIRM") /\ ~Arrives("START")
    BY <2>2 DEF Arrives
  <2>4. CASE Init1 \/ Init2
    <3>1. Waiting /\ (cpu_reset => write_req # "mem")
      BY <1>2, <2>4 DEF Init1, Init2
    <3>2. QED
      BY <1>1, <2>3, <3>1, LoaderWaits
  <2>5. CASE Init3 \/ (Init4 /\ Resetting)
    <3>1. Resetting
      BY <1>2, <2>5 DEF Init3, Resetting, Waiting
    <3>2. QED
      BY Zenon, <1>1, <2>2, <3>1, LoaderResets DEF Loader!Next
  <2>6. CASE (Init4 /\ Restarted) \/ Init5 \/ Init6
    <3>1. Restarted
      BY <2>6 DEF Init5, Init6
    <3>2. QED
      BY <1>1, <2>2, <3>1, LoaderEmpty
  <2>7. CASE Firm1 \/ Firm2 \/ Firm4 \/ Start1 \/ Start2
    <3>1. Waiting /\ write_req # "mem"
      BY <2>7 DEF Firm1, Firm2, Firm4, Start1, Start2, Firm, Started, Halted
    <3>2. QED
      BY <1>1, <2>3, <3>1, LoaderWaits
  <2>8. CASE Firm3
    BY Zenon, <1>1, <2>2, <2>8, LoaderLoads DEF Loader!Next
  <2>9. CASE Start3
    BY Zenon, <1>1, <2>2, <2>9, LoaderStarts DEF Loader!Next
  <2>10. QED
    BY <1>5, <2>4, <2>5, <2>6, <2>7, <2>8, <2>9 DEF LinkInv, Loading, Init4
<1>6. QED
  BY <1>3, <1>4, <1>5

LEMMA LoaderInit == Init => Loader!Init
<1> SUFFICES ASSUME Init PROVE Loader!Init
  OBVIOUS
<1>1. /\ counter_firmware_address = 0 /\ cpu_reset /\ sent = << >>
      /\ init_owed = FALSE /\ start_owed = FALSE
  BY DEF Init, TopInit
<1>2. TypeInv
  BY InitTypeInv
<1>3. ImageNow = << >>
  BY Zenon, <1>1, <1>2, ImageEmpty
<1>4. (~cpu_reset) = FALSE
  BY <1>1
<1>5. QED
  BY Zenon, <1>1, <1>3, <1>4 DEF Loader!Init, LoadedWord, ImageNow, ImageOf, LoadedAt

(* The chip implements the loader: firmware reaches the memory in the      *)
(* order sent, the CPU is out of reset only on a complete image, and it is *)
(* stopped before a new one, for images shorter than the address space and *)
(* until a packet is misplaced or meets a pop, and again from the reset of *)
(* the CPU that the next good INIT brings about.                           *)
THEOREM LoadsInOrderAlways ==
  ASSUME Xfer >= 6, CpuGap >= 2
  PROVE  Spec /\ [](Len(sent) < AddrSpace) => LoadsInOrder
<1>1. Init => Loader!Init
  BY LoaderInit
<1>2. SoundLink /\ SoundLink' /\ [Next]_vars /\ Len(sent) < AddrSpace
        => (~misplaced' => [Loader!Next]_Loader!loaderState)
  <2> SUFFICES ASSUME SoundLink, SoundLink', [Next]_vars, Fits, ~misplaced'
               PROVE  [Loader!Next]_Loader!loaderState
    BY DEF Fits
  <2>1. TypeInv'
    BY DEF SoundLink, BaseInv
  <2>2. CASE Next
    <3>1. ~Collides /\ ~(misplaced /\ collided)
      BY Zenon, <2>2 DEF Next, Tick, HistoryTick
    <3>2. LinkInv
      BY <3>1 DEF SoundLink, BaseInv
    <3>3. QED
      BY <2>1, <2>2, <3>1, <3>2, LoaderStep
  <2>3. CASE UNCHANGED vars
    <3>1. /\ sent' = sent /\ cpu_reset' = cpu_reset /\ init_owed' = init_owed
          /\ start_owed' = start_owed /\ memory' = memory /\ memory_wr' = memory_wr
          /\ counter_firmware_address' = counter_firmware_address
      BY <2>3 DEF vars, hwVars, topVars, loaderVars, busVars, historyVars
    <3>2. ImageNext = ImageNow
      BY Zenon, <3>1 DEF ImageNext, ImageNow
    <3>3. QED
      BY Zenon, <3>1, <3>2, LoaderStutter
  <2>4. QED
    BY <2>2, <2>3
<1>3. Spec => []SoundLink
  BY SoundLinkAlways
<1>4. QED
  BY <1>1, <1>2, <1>3, PTL DEF Spec, LoadsInOrder

=============================================================================
