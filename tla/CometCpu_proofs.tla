--------------------------- MODULE CometCpu_proofs ---------------------------
(***************************************************************************)
(* Theorems about CometCpu: its bus, what its flags mean, and that it      *)
(* implements Comet2, for every size of the memory map and of the words.   *)
(***************************************************************************)
EXTENDS CometCpu, SequenceTheorems, TLAPS

-----------------------------------------------------------------------------
(* The flags.                                                              *)

(* A sum of two words is cut at most once.                                 *)
LEMMA WrapsOnce ==
  ASSUME NEW n \in -Size..2 * Size - 1
  PROVE  /\ Wrap(n) \in Word
         /\ n \in Word => Wrap(n) = n
         /\ n < 0 => Wrap(n) = n + Size
         /\ n >= Size => Wrap(n) = n - Size
BY IsaAssumption, SMT DEF Wrap, Word, Size

(* OF after ADDA: the sign bits tell exactly that the sum of the two       *)
(* signed numbers does not fit (signed_add_overflow).                      *)
THEOREM AddOverflow ==
  ASSUME NEW a \in Word, NEW b \in Word
  PROVE  signed_add_overflow(a, b, Wrap(a + b))
           <=> ~Machine!FitsSigned(Machine!Signed(a) + Machine!Signed(b))
BY IsaAssumption, SMT
   DEF signed_add_overflow, SignBit, Wrap, Word, Size, Machine!FitsSigned, Machine!Signed,
       Machine!Size

(* OF after SUBA and CPA: the same for the difference.                     *)
THEOREM SubOverflow ==
  ASSUME NEW a \in Word, NEW b \in Word
  PROVE  signed_sub_overflow(a, b, Wrap(a - b))
           <=> ~Machine!FitsSigned(Machine!Signed(a) - Machine!Signed(b))
BY IsaAssumption, SMT
   DEF signed_sub_overflow, SignBit, Wrap, Word, Size, Machine!FitsSigned, Machine!Signed,
       Machine!Size

(* What a comparison tells a jump: SF is the order of the signed operands  *)
(* exactly when OF is clear, and its opposite when OF is set; ZF is        *)
(* equality.  JMI and JPL look at SF and ZF alone.                         *)
THEOREM CompareOrders ==
  ASSUME NEW a \in Word, NEW b \in Word
  PROVE  LET fr1 == set_fr(AluResult("CPA", a, b), AluOverflow("CPA", a, b))
         IN  /\ fr1.zf <=> a = b
             /\ (fr1.sf # fr1.of) <=> Machine!Signed(a) < Machine!Signed(b)
<1>1. AluResult("CPA", a, b) = Wrap(a - b)
  BY Zenon DEF AluResult
<1>2. AluOverflow("CPA", a, b) <=> signed_sub_overflow(a, b, Wrap(a - b))
  BY Zenon DEF AluOverflow
<1> DEFINE result == Wrap(a - b)
           overflow == signed_sub_overflow(a, b, result)
<1>3. (result = 0) <=> (a = b)
  BY IsaAssumption, SMT DEF Wrap, Word, Size
<1>4. (SignBit(result) # overflow) <=> Machine!Signed(a) < Machine!Signed(b)
  BY IsaAssumption, SMT
     DEF signed_sub_overflow, SignBit, Wrap, Word, Size, Machine!Signed, Machine!Size
<1>5. overflow \in BOOLEAN /\ AluOverflow("CPA", a, b) \in BOOLEAN
  BY DEF signed_sub_overflow, SignBit, AluOverflow
<1> QED
  BY <1>1, <1>2, <1>3, <1>4, <1>5 DEF set_fr

-----------------------------------------------------------------------------
(* The bus.  A read moves one register further at every edge, from the     *)
(* CPU's request to its answer, along one of two ways; here are the        *)
(* registers between.                                                      *)
PipeEmpty ==
  /\ memory_rd = None /\ device_rd = None
  /\ ram_out = None /\ device_data = None
  /\ rd_data = None
  /\ read_data = None

PipeCount ==
  One(memory_rd # None) + One(device_rd # None) + One(ram_out # None)
    + One(rd_data # None) + One(device_data # None) + One(read_data # None)

(* While the CPU runs: it waits for the one read it has asked for, whose   *)
(* request top has seen (cpu_read_req_buf) or not, or nothing is under way.*)
RunInv ==
  hold = 0 =>
    IF state \in WaitStates
    THEN read_req /\ (IF cpu_read_req_buf THEN PipeCount <= 1 ELSE PipeEmpty)
    ELSE ~read_req /\ PipeEmpty

(* While it is held in reset: what was under way drains, a register at     *)
(* each edge, before the CPU is started.                                   *)
Edges == ResetEdges - hold

DrainInv ==
  hold > 0 =>
    /\ Edges >= 1 => ~read_req /\ state = "RESET_PR_REQ"
    /\ Edges >= 2 => memory_rd = None /\ device_rd = None
    /\ Edges >= 3 => ram_out = None /\ device_data = None
    /\ Edges >= 4 => rd_data = None
    /\ Edges >= 5 => read_data = None

BusTypeOK ==
  /\ hold \in 0..ResetEdges
  /\ read_req \in BOOLEAN /\ cpu_read_req_buf \in BOOLEAN

BusInv == BusTypeOK /\ RunInv /\ DrainInv

LEMMA BusInit == Init => BusInv
<1> SUFFICES ASSUME Init PROVE BusInv
  OBVIOUS
<1>1. hold = ResetEdges /\ ResetEdges \in Nat /\ ResetEdges >= 5
  BY CpuAssumption DEF Init
<1>2. BusTypeOK
  <2>1. hold \in 0..ResetEdges
    BY <1>1, SMT
  <2>2. QED
    BY <2>1 DEF Init, BusTypeOK
<1>3. RunInv
  BY <1>1 DEF RunInv
<1>4. Edges = 0
  BY <1>1 DEF Edges
<1>5. DrainInv
  BY <1>4 DEF DrainInv
<1> QED
  BY <1>2, <1>3, <1>5 DEF BusInv

(* The names of the states.                                                *)
LEMMA StateNames ==
  /\ RequestStates = {"RESET_PR_REQ", "RESET_SP_REQ", "FETCH_REQ", "OPERAND_REQ",
                      "MEM_READ_REQ", "SVC_VECTOR_REQ", "SVC0_SP_REQ"}
  /\ WaitStates = {"RESET_PR_WAIT", "RESET_SP_WAIT", "FETCH_WAIT", "OPERAND_WAIT",
                   "MEM_READ_WAIT", "SVC_VECTOR_WAIT", "SVC0_SP_WAIT"}
  /\ \A s \in RequestStates : WaitOf[s] \in WaitStates
<1>1. RequestStates = {"RESET_PR_REQ", "RESET_SP_REQ", "FETCH_REQ", "OPERAND_REQ",
                      "MEM_READ_REQ", "SVC_VECTOR_REQ", "SVC0_SP_REQ"}
  BY DEF RequestStates, WaitOf
<1>2. WaitStates = {"RESET_PR_WAIT", "RESET_SP_WAIT", "FETCH_WAIT", "OPERAND_WAIT",
                   "MEM_READ_WAIT", "SVC_VECTOR_WAIT", "SVC0_SP_WAIT"}
  BY <1>1, SMT DEF WaitStates, WaitOf
<1>3. \A s \in RequestStates : WaitOf[s] \in WaitStates
  BY DEF WaitStates
<1> QED
  BY <1>1, <1>2, <1>3

(* The five registers of the way from top to the devices and back: each    *)
(* takes what the one before it had.                                       *)
LEMMA PipeMoves ==
  ASSUME BusTick
  PROVE  /\ memory_rd' # None => ReadRises /\ read_addr \in Ram
         /\ device_rd' # None => ReadRises /\ read_addr \in Devices
         /\ memory_rd = None => ram_out' = None
         /\ device_rd = None => device_data' = None
         /\ rd_data' = ram_out
         /\ read_data' # None => rd_data # None \/ device_data # None
         /\ cpu_read_req_buf' = read_req
BY DEF BusTick, ForwardRead, RamOut

(* What an edge of the running CPU does to its request: it makes one, it   *)
(* keeps it up, or it has none, which in a waiting state takes an answer.  *)
LEMMA CpuMoves ==
  ASSUME RunCpu
  PROVE  \/ state \in RequestStates /\ state' \in WaitStates /\ read_req' = TRUE
         \/ /\ state \in WaitStates /\ read_data = None
            /\ state' = state /\ read_req' = TRUE
         \/ /\ state \notin RequestStates
            /\ state \in WaitStates => read_data # None
            /\ state' \notin WaitStates /\ read_req' = FALSE
<1>1. CASE Request
  BY <1>1, StateNames DEF Request, Asks
<1>2. CASE Wait
  BY <1>2 DEF Wait, Asks
<1>3. CASE MemWrite
  BY <1>3, StateNames DEF MemWrite, Quiet
<1>4. CASE Quiet /\ TakeResetPr
  BY <1>4, StateNames DEF TakeResetPr, Answered, Quiet
<1>5. CASE Quiet /\ TakeSp
  BY <1>5, StateNames DEF TakeSp, Answered, Quiet
<1>6. CASE Quiet /\ TakeInstruction
  BY <1>6, StateNames DEF TakeInstruction, Answered, Quiet
<1>7. CASE Quiet /\ Decode
  BY <1>7, StateNames DEF Decode, Quiet
<1>8. CASE Quiet /\ TakeOperand
  BY <1>8, StateNames DEF TakeOperand, Answered, Quiet
<1>9. CASE Quiet /\ Execute
  <2>1. state = "EXECUTE" /\ state' \in {"FETCH_REQ", "MEM_READ_REQ", "MEM_WRITE"}
    BY <1>9 DEF Execute, FaultInstruction, EndHere, Ends, ReadMemory, ReadsFrom, WriteMemory,
                WritesTo, Pushes
  <2>2. QED
    BY <1>9, <2>1, StateNames DEF Quiet
<1>10. CASE Quiet /\ TakeData
  <2>1. /\ state = "MEM_READ_WAIT" /\ read_data # None
        /\ state' \in {"FETCH_REQ", "SVC0_SP_REQ"}
    BY <1>10 DEF TakeData, Answered, TakeArith, TakePop, TakeSvc0
  <2>2. QED
    BY <1>10, <2>1, StateNames DEF Quiet
<1>11. CASE Quiet /\ TakeVector
  BY <1>11, StateNames DEF TakeVector, Answered, Quiet
<1> QED
  BY <1>1, <1>2, <1>3, <1>4, <1>5, <1>6, <1>7, <1>8, <1>9, <1>10, <1>11 DEF RunCpu

LEMMA BusTypeStep ==
  ASSUME BusInv, Next
  PROVE  BusTypeOK'
<1>1. /\ cpu_reset \/ RunCpu
      /\ cpu_reset => ResetCpu
      /\ BusTick /\ LoaderTick
  BY DEF Next, Tick
<1>2. hold' \in 0..ResetEdges
  BY <1>1, CpuAssumption, SMT DEF LoaderTick, cpu_reset, BusInv, BusTypeOK
<1>3. read_req' \in BOOLEAN
  BY <1>1, CpuMoves DEF ResetCpu
<1>4. cpu_read_req_buf' \in BOOLEAN
  BY <1>1 DEF BusTick, BusInv, BusTypeOK
<1> QED
  BY <1>2, <1>3, <1>4 DEF BusTypeOK

LEMMA RunStep ==
  ASSUME BusInv, Next
  PROVE  RunInv'
<1>1. BusTick /\ LoaderTick /\ (IF cpu_reset THEN ResetCpu ELSE RunCpu)
  BY DEF Next, Tick
<1> SUFFICES ASSUME hold' = 0
             PROVE  IF state' \in WaitStates
                    THEN read_req' /\ (IF cpu_read_req_buf' THEN PipeCount' <= 1
                                       ELSE PipeEmpty')
                    ELSE ~read_req' /\ PipeEmpty'
  BY StateNames DEF RunInv, WaitStates, RequestStates, WaitOf
<1> USE DEF One
<1>2. CASE cpu_reset
  <2>1. hold = 1 /\ Edges >= 4 /\ Edges >= 3 /\ Edges >= 2 /\ Edges >= 1
    BY <1>1, <1>2, CpuAssumption, SMT DEF LoaderTick, cpu_reset, BusInv, BusTypeOK, Edges
  <2>2. /\ ~read_req
        /\ memory_rd = None /\ device_rd = None
        /\ ram_out = None /\ device_data = None /\ rd_data = None
    BY <2>1 DEF BusInv, DrainInv
  <2>3. PipeEmpty'
    BY <1>1, <2>2, PipeMoves DEF PipeEmpty, ReadRises
  <2>4. state' \notin WaitStates /\ ~read_req'
    BY <1>1, <1>2, StateNames DEF ResetCpu
  <2> QED
    BY <2>3, <2>4
<1>3. CASE ~cpu_reset
  <2>1. hold = 0
    BY <1>3, SMT DEF cpu_reset, BusInv, BusTypeOK
  <2>2. IF state \in WaitStates
        THEN read_req /\ (IF cpu_read_req_buf THEN PipeCount <= 1 ELSE PipeEmpty)
        ELSE ~read_req /\ PipeEmpty
    BY <2>1 DEF BusInv, RunInv
  <2>3. RunCpu
    BY <1>1, <1>3
  <2>4. CASE state \notin WaitStates
    <3>1. PipeEmpty' /\ cpu_read_req_buf' = FALSE
      BY <1>1, <2>2, <2>4, PipeMoves DEF PipeEmpty, ReadRises, BusInv, BusTypeOK
    <3>2. (state' \in WaitStates /\ read_req') \/ (state' \notin WaitStates /\ ~read_req')
      BY <2>3, <2>4, CpuMoves
    <3> QED
      BY <3>1, <3>2
  <2>5. CASE state \in WaitStates /\ ~cpu_read_req_buf
    <3>1. PipeEmpty /\ read_req
      BY <2>2, <2>5
    <3>2. state' \in WaitStates /\ read_req'
      BY <2>3, <2>5, <3>1, CpuMoves, StateNames DEF PipeEmpty
    <3>3. /\ ram_out' = None /\ device_data' = None /\ rd_data' = None /\ read_data' = None
          /\ memory_rd' = None \/ device_rd' = None
      BY <1>1, <3>1, PipeMoves, IsaAssumption, SMT DEF PipeEmpty, Ram, Devices
    <3>4. PipeCount' <= 1
      BY <3>3, SMT DEF PipeCount
    <3>5. cpu_read_req_buf' = TRUE
      BY <1>1, <3>1, PipeMoves DEF BusInv, BusTypeOK
    <3> QED
      BY <3>2, <3>4, <3>5
  <2>6. CASE state \in WaitStates /\ cpu_read_req_buf
    <3>1. PipeCount <= 1 /\ read_req
      BY <2>2, <2>6
    <3>2. memory_rd' = None /\ device_rd' = None
      BY <1>1, <2>6, PipeMoves DEF ReadRises
    <3>3. CASE read_data = None
      <4>1. state' \in WaitStates /\ read_req'
        BY <2>3, <2>6, <3>3, CpuMoves, StateNames
      <4>2. PipeCount' <= 1
        BY <1>1, <3>1, <3>2, PipeMoves, SMT DEF PipeCount
      <4>3. cpu_read_req_buf' = TRUE
        BY <1>1, <3>1, PipeMoves DEF BusInv, BusTypeOK
      <4> QED
        BY <4>1, <4>2, <4>3
    <3>4. CASE read_data # None
      <4>1. state' \notin WaitStates /\ ~read_req'
        BY <2>3, <2>6, <3>4, CpuMoves, StateNames
      <4>2. /\ memory_rd = None /\ device_rd = None
            /\ ram_out = None /\ device_data = None /\ rd_data = None
        BY <3>1, <3>4, SMT DEF PipeCount
      <4>3. PipeEmpty'
        BY <1>1, <3>2, <4>2, PipeMoves DEF PipeEmpty
      <4> QED
        BY <4>1, <4>3
    <3> QED
      BY <3>3, <3>4
  <2> QED
    BY <2>4, <2>5, <2>6
<1> QED
  BY <1>2, <1>3

LEMMA DrainStep ==
  ASSUME BusInv, Next
  PROVE  DrainInv'
<1>1. BusTick /\ LoaderTick /\ (cpu_reset => ResetCpu)
  BY DEF Next, Tick
<1> SUFFICES ASSUME hold' > 0
             PROVE  /\ Edges' >= 1 => ~read_req' /\ state' = "RESET_PR_REQ"
                    /\ Edges' >= 2 => memory_rd' = None /\ device_rd' = None
                    /\ Edges' >= 3 => ram_out' = None /\ device_data' = None
                    /\ Edges' >= 4 => rd_data' = None
                    /\ Edges' >= 5 => read_data' = None
  BY DEF DrainInv, Edges
<1>2. CASE ~cpu_reset
  <2>1. hold' = ResetEdges
    BY <1>1, <1>2 DEF LoaderTick
  <2>2. Edges' = 0
    BY <2>1, CpuAssumption, SMT DEF Edges
  <2> QED
    BY <2>2, SMT
<1>3. CASE cpu_reset
  <2>1. hold > 0 /\ Edges \in Int /\ Edges' = Edges + 1
    BY <1>1, <1>3, CpuAssumption, SMT DEF LoaderTick, cpu_reset, BusInv, BusTypeOK, Edges
  <2>2. /\ Edges >= 1 => ~read_req
        /\ Edges >= 2 => memory_rd = None /\ device_rd = None
        /\ Edges >= 3 => ram_out = None /\ device_data = None
        /\ Edges >= 4 => rd_data = None
    BY <2>1 DEF BusInv, DrainInv
  <2>3. /\ ~read_req => memory_rd' = None /\ device_rd' = None
        /\ memory_rd = None /\ device_rd = None => ram_out' = None /\ device_data' = None
        /\ ram_out = None => rd_data' = None
        /\ rd_data = None /\ device_data = None => read_data' = None
    BY <1>1, PipeMoves DEF ReadRises
  <2>4. ~read_req' /\ state' = "RESET_PR_REQ"
    BY <1>1, <1>3 DEF ResetCpu
  <2> QED
    BY <2>1, <2>2, <2>3, <2>4, SMT
<1> QED
  BY <1>2, <1>3

LEMMA BusStep == BusInv /\ [Next]_vars => BusInv'
<1>1. ASSUME BusInv, Next
      PROVE  BusInv'
  BY <1>1, BusTypeStep, RunStep, DrainStep DEF BusInv
<1>2. ASSUME BusInv, UNCHANGED vars
      PROVE  BusInv'
  BY <1>2 DEF vars, cpuVars, busVars, loadVars, readVars, BusInv, BusTypeOK, RunInv, DrainInv,
              PipeEmpty, PipeCount, Edges, WaitStates, RequestStates, WaitOf
<1> QED
  BY <1>1, <1>2

LEMMA BusAnswers == BusInv => AnswersAwaited
<1> SUFFICES ASSUME BusInv, ~cpu_reset
             PROVE  InFlight <= 1 /\ (read_data # None => state \in WaitStates)
  BY DEF AnswersAwaited
<1>1. IF state \in WaitStates
      THEN read_req /\ (IF cpu_read_req_buf THEN PipeCount <= 1 ELSE PipeEmpty)
      ELSE ~read_req /\ PipeEmpty
  BY SMT DEF BusInv, BusTypeOK, RunInv, cpu_reset
<1>2. CASE PipeEmpty
  BY <1>1, <1>2, SMT DEF PipeEmpty, InFlight, One
<1>3. CASE cpu_read_req_buf /\ PipeCount <= 1 /\ state \in WaitStates
  <2>1. ~ReadRises
    BY <1>3 DEF ReadRises
  <2> QED
    BY <1>3, <2>1, SMT DEF PipeCount, InFlight, One
<1> QED
  BY <1>1, <1>2, <1>3

(* An answer reaches the CPU only where it waits for one, and one read is  *)
(* under way at most, for every memory map, block size and device.         *)
THEOREM AnswersAwaitedAlways == Spec => []AnswersAwaited
<1>1. BusInv /\ [Next]_vars => BusInv'
  BY BusStep
<1> QED
  BY BusInit, <1>1, BusAnswers, PTL DEF Spec

(* The CPU makes one request at a time: its store and its next read leave  *)
(* it at different edges, and so they reach the blocks.                    *)
PortInv ==
  /\ write_req # None => ~read_req
  /\ memory_wr = None \/ memory_rd = None

LEMMA PortStep == PortInv /\ [Next]_vars => PortInv'
<1> SUFFICES ASSUME PortInv, [Next]_vars
             PROVE  PortInv'
  OBVIOUS
<1>1. CASE Next
  <2>1. BusTick /\ (IF cpu_reset THEN ResetCpu ELSE RunCpu)
    BY <1>1 DEF Next, Tick
  <2>2. write_req' # None => ~read_req'
    BY <2>1 DEF ResetCpu, RunCpu, Request, Wait, MemWrite, Quiet
  <2>3. memory_wr' # None => write_req # None
    BY <2>1 DEF BusTick, ForwardWrite
  <2>4. memory_rd' # None => read_req
    BY <2>1, PipeMoves DEF ReadRises
  <2> QED
    BY <2>2, <2>3, <2>4 DEF PortInv
<1>2. CASE UNCHANGED vars
  BY <1>2 DEF vars, cpuVars, busVars, readVars, PortInv
<1> QED
  BY <1>1, <1>2

(* A store and a read never meet at an SPRAM block, however it is divided  *)
(* into blocks, in reset too.                                              *)
THEOREM NoCollisionAlways == Spec => []NoCollision
<1>1. Init => PortInv
  BY DEF Init, PortInv
<1>2. PortInv => NoCollision
  BY DEF PortInv, NoCollision, Collides
<1> QED
  BY <1>1, <1>2, PortStep, PTL DEF Spec

-----------------------------------------------------------------------------
(* Types.  What a bitwise operation or a shift leaves is a sum of powers   *)
(* of two, which only induction can bound: ResultsAreWords is a hypothesis *)
(* here, and evaluated by TLC.                                             *)

(* A result is taken from memory into a register that exists.              *)
TypeInv == TypeOK /\ (mem_read_kind \in ArithOps => dest_reg \in Regs)

FileTypes ==
  /\ gr \in [Regs -> Word] /\ pr \in Word /\ sp \in Word /\ fr \in Flags
  /\ error_instruction \in BOOLEAN

EffectTypes ==
  /\ effective_addr \in Word /\ svc_vector_addr \in 0..MaxVector /\ write_word \in Word
  /\ mem_read_kind \in ArithOps \cup {"NONE", "POP", "RET", "SVC"}
  /\ mem_write_kind \in {"NONE", "ST", "PUSH", "CALL", "SVC"}
  /\ dest_reg \in 0..NumRegs
  /\ mem_read_kind \in ArithOps => dest_reg \in Regs

CpuTypes ==
  /\ state \in States
  /\ FileTypes
  /\ ir \in Instruction /\ operand \in Word
  /\ EffectTypes
  /\ read_req \in BOOLEAN /\ read_addr \in Word
  /\ write_req \in Maybe(StoreOf(Word))

BusTypes ==
  /\ cpu_read_req_buf \in BOOLEAN
  /\ memory_rd \in Maybe(Ram) /\ device_rd \in Maybe(Devices)
  /\ memory_wr \in Maybe(StoreOf(Ram)) /\ device_wr \in Maybe(StoreOf(Devices))
  /\ read_data \in Maybe(Word) /\ ram_out \in Maybe(Word)
  /\ rd_data \in Maybe(Word) /\ device_data \in Maybe(Word)
  /\ memory \in [Ram -> Word]
  /\ hold \in 0..ResetEdges
  /\ image \in Images /\ coding \in Codings
  /\ executed \in 0..MaxInstructions

LEMMA TypeParts == TypeInv <=> CpuTypes /\ BusTypes
BY DEF TypeInv, TypeOK, CpuTypes, BusTypes, FileTypes, EffectTypes

(* The words and what is done with them.                                   *)
LEMMA Words ==
  /\ 0 \in Word /\ SpCell \in Word /\ Ram \subseteq Word /\ Devices \subseteq Word
  /\ 0..MaxVector \subseteq Word /\ 0 \in 0..MaxVector /\ 0 \in 0..NumRegs
  /\ \A a, b \in Word : Wrap(a + b) \in Word /\ Wrap(a - b) \in Word
  /\ \A a \in Word : Wrap(a + 1) \in Word /\ Wrap(a - 1) \in Word
  /\ None \notin Word
<1>1. /\ Half \in Nat \ {0} /\ RamTop \in 1..2 * Half - 1 /\ MmioTop \in RamTop..2 * Half - 1
      /\ SpCell \in 1..RamTop - 1 /\ MaxVector \in 1..RamTop - 1 /\ NumRegs \in Nat
      /\ None \notin Word
  BY IsaAssumption, CpuAssumption
<1>2. \A a, b \in Word : Wrap(a + b) \in Word /\ Wrap(a - b) \in Word
  BY <1>1, SMT DEF Wrap, Word, Size
<1>3. \A a \in Word : Wrap(a + 1) \in Word /\ Wrap(a - 1) \in Word
  BY <1>1, SMT DEF Wrap, Word, Size
<1>4. /\ 0 \in Word /\ SpCell \in Word /\ Ram \subseteq Word /\ Devices \subseteq Word
      /\ 0..MaxVector \subseteq Word /\ 0 \in 0..MaxVector /\ 0 \in 0..NumRegs
  BY <1>1, SMT DEF Word, Size, Ram, Devices
<1> QED
  BY <1>1, <1>2, <1>3, <1>4

LEMMA ResultType ==
  ASSUME ResultsAreWords, NEW op \in ArithOps, NEW a \in Word, NEW b \in Word
  PROVE  AluResult(op, a, b) \in Word /\ AluOverflow(op, a, b) \in BOOLEAN
<1>1. AluResult(op, a, b) \in Word
  <2>1. CASE op \in {"AND", "OR", "XOR"}
    BY <2>1 DEF ResultsAreWords
  <2>2. CASE op \in {"LD", "ADDA", "ADDL", "SUBA", "SUBL", "CPA", "CPL"}
    BY <2>2, Words DEF AluResult
  <2>3. QED
    BY <2>1, <2>2 DEF ArithOps, Compares
<1>2. AluOverflow(op, a, b) \in BOOLEAN
  BY Zenon DEF AluOverflow
<1> QED
  BY <1>1, <1>2

LEMMA ShiftType ==
  ASSUME ResultsAreWords, NEW op \in Shifts, NEW value \in Word, NEW amount \in Word
  PROVE  ShiftResult(op, value, amount) \in Word /\ ShiftOverflow(op, value, amount) \in BOOLEAN
<1>1. ShiftOverflow(op, value, amount) \in BOOLEAN
  BY Zenon DEF ShiftOverflow
<1> QED
  BY <1>1 DEF ResultsAreWords

LEMMA FlagsType ==
  ASSUME NEW result, NEW overflow \in BOOLEAN
  PROVE  set_fr(result, overflow) \in Flags
<1>1. SignBit(result) \in BOOLEAN
  BY DEF SignBit
<1>2. (result = 0) \in BOOLEAN
  OBVIOUS
<1> QED
  BY <1>1, <1>2 DEF set_fr, Flags

LEMMA OperateType ==
  ASSUME ResultsAreWords, CpuTypes,
         NEW op \in ArithOps, NEW a \in Word, NEW b \in Word, NEW r \in Regs
  PROVE  /\ Operate(op, a, b, r).gr \in [Regs -> Word]
         /\ Operate(op, a, b, r).fr \in Flags
<1>1. gr \in [Regs -> Word]
  BY DEF CpuTypes, FileTypes
<1>2. AluResult(op, a, b) \in Word
  BY ResultType
<1>3. set_fr(AluResult(op, a, b), AluOverflow(op, a, b)) \in Flags
  BY ResultType, FlagsType
<1>4. [gr EXCEPT ![r] = AluResult(op, a, b)] \in [Regs -> Word]
  BY <1>1, <1>2
<1> QED
  BY Zenon, <1>1, <1>3, <1>4 DEF Operate

LEMMA AddressType ==
  ASSUME CpuTypes
  PROVE  Indexed \in Word
BY Words DEF Indexed, indexed_addr, CpuTypes, FileTypes, Regs

LEMMA OpNames ==
  /\ "NONE" \notin ArithOps /\ "POP" \notin ArithOps /\ "RET" \notin ArithOps
  /\ "SVC" \notin ArithOps
BY DEF ArithOps, Compares

(* The effect of an instruction, in the state that executes it.            *)
LEMMA FaultTypes ==
  ASSUME CpuTypes, FaultInstruction
  PROVE  state' \in States /\ FileTypes' /\ EffectTypes'
<1>1. /\ error_instruction' = TRUE /\ state' = "FETCH_REQ"
      /\ mem_read_kind' = "NONE" /\ mem_write_kind' = "NONE"
      /\ effective_addr' \in {effective_addr, Indexed} /\ dest_reg' \in {dest_reg, ir.r}
      /\ UNCHANGED <<gr, pr, sp, fr, svc_vector_addr, write_word>>
  BY DEF FaultInstruction
<1>2. FileTypes /\ EffectTypes /\ Indexed \in Word /\ ir.r \in 0..NumRegs
  BY AddressType DEF CpuTypes, Instruction
<1>3. state' \in States
  BY <1>1, StateNames DEF States
<1>4. FileTypes'
  BY <1>1, <1>2 DEF FileTypes
<1>5. EffectTypes'
  BY <1>1, <1>2, OpNames DEF EffectTypes
<1> QED
  BY <1>3, <1>4, <1>5

LEMMA EndsTypes ==
  ASSUME CpuTypes, NEW reg \in [Regs -> Word], NEW flags \in Flags, NEW next \in Word,
         Ends(reg, flags, next)
  PROVE  state' \in States /\ FileTypes' /\ EffectTypes'
<1>1. /\ gr' = reg /\ fr' = flags /\ pr' = next /\ state' = "FETCH_REQ"
      /\ mem_read_kind' = "NONE" /\ mem_write_kind' = "NONE"
      /\ effective_addr' = Indexed /\ dest_reg' = ir.r
      /\ UNCHANGED <<sp, error_instruction, svc_vector_addr, write_word>>
  BY DEF Ends
<1>2. FileTypes /\ EffectTypes /\ Indexed \in Word /\ ir.r \in 0..NumRegs
  BY AddressType DEF CpuTypes, Instruction
<1>3. state' \in States
  BY <1>1, StateNames DEF States
<1>4. FileTypes'
  BY <1>1, <1>2 DEF FileTypes
<1>5. EffectTypes'
  BY <1>1, <1>2, OpNames DEF EffectTypes
<1> QED
  BY <1>3, <1>4, <1>5

LEMMA EndHereTypes ==
  ASSUME ResultsAreWords, CpuTypes, ~Faults, EndHere
  PROVE  state' \in States /\ FileTypes' /\ EffectTypes'
<1>1. /\ gr \in [Regs -> Word] /\ fr \in Flags /\ pr \in Word /\ Indexed \in Word
  BY AddressType DEF CpuTypes, FileTypes
<1>2. /\ ir.op \in ArithOps \cup Shifts \cup {"LAD"} => ir.r \in Regs
      /\ ir.op \in ArithOps => ir.x \in Regs
  <2>1. ArithOps \subseteq Ops \ {"NOP", "POP", "RET", "undefined"}
    BY DEF Ops, ArithOps, Compares
  <2>2. ir.op \in ArithOps \cup Shifts \cup {"LAD"} => uses_r_field(ir)
    BY DEF uses_r_field
  <2>3. ir.op \in ArithOps => uses_x_field(ir)
    BY <2>1 DEF uses_x_field
  <2>4. QED
    BY Zenon, <2>2, <2>3 DEF Faults, BadField
<1>3. CASE ir.op = "NOP" /\ Ends(gr, fr, pr)
  BY <1>1, <1>3, EndsTypes
<1>4. CASE ir.op = "LAD" /\ Ends([gr EXCEPT ![ir.r] = Indexed], fr, pr)
  <2>1. [gr EXCEPT ![ir.r] = Indexed] \in [Regs -> Word]
    BY <1>1
  <2>2. QED
    BY <1>1, <1>4, <2>1, EndsTypes
<1>5. CASE /\ ir.op \in ArithOps /\ ir.reg
           /\ LET done == Operate(ir.op, gr[ir.r], gr[ir.x], ir.r) IN Ends(done.gr, done.fr, pr)
  <2> DEFINE done == Operate(ir.op, gr[ir.r], gr[ir.x], ir.r)
  <2>1. gr[ir.r] \in Word /\ gr[ir.x] \in Word /\ ir.r \in Regs /\ ir.op \in ArithOps
    BY <1>1, <1>2, <1>5
  <2>2. done.gr \in [Regs -> Word] /\ done.fr \in Flags
    BY <2>1, OperateType
  <2>3. Ends(done.gr, done.fr, pr)
    BY <1>5
  <2> HIDE DEF done
  <2>4. QED
    BY <1>1, <2>2, <2>3, EndsTypes
<1>6. CASE /\ ir.op \in Shifts
           /\ LET result == ShiftResult(ir.op, gr[ir.r], Indexed)
              IN  Ends([gr EXCEPT ![ir.r] = result],
                       set_fr(result, ShiftOverflow(ir.op, gr[ir.r], Indexed)), pr)
  <2> DEFINE result == ShiftResult(ir.op, gr[ir.r], Indexed)
             flags == set_fr(result, ShiftOverflow(ir.op, gr[ir.r], Indexed))
  <2>1. gr[ir.r] \in Word /\ ir.op \in Shifts
    BY <1>1, <1>2, <1>6
  <2>2. result \in Word /\ ShiftOverflow(ir.op, gr[ir.r], Indexed) \in BOOLEAN
    BY <1>1, <2>1, ShiftType
  <2>3. flags \in Flags
    BY <2>2, FlagsType
  <2>4. Ends([gr EXCEPT ![ir.r] = result], flags, pr)
    BY <1>6
  <2> HIDE DEF result, flags
  <2>5. [gr EXCEPT ![ir.r] = result] \in [Regs -> Word]
    BY <1>1, <2>2
  <2>6. QED
    BY <1>1, <2>3, <2>4, <2>5, EndsTypes
<1>7. CASE ir.op \in Jumps /\ Ends(gr, fr, IF Branches THEN Indexed ELSE pr)
  <2>1. (IF Branches THEN Indexed ELSE pr) \in Word
    BY <1>1
  <2>2. QED
    BY <1>1, <1>7, <2>1, EndsTypes
<1> QED
  BY <1>3, <1>4, <1>5, <1>6, <1>7 DEF EndHere

LEMMA ReadTypes ==
  ASSUME CpuTypes, NEW addr \in Word, NEW kind \in ArithOps \cup {"POP", "RET", "SVC"},
         kind \in ArithOps => ir.r \in Regs, ReadsFrom(addr, kind)
  PROVE  state' \in States /\ FileTypes' /\ EffectTypes'
<1>1. /\ effective_addr' = addr /\ mem_read_kind' = kind /\ mem_write_kind' = "NONE"
      /\ dest_reg' = ir.r /\ state' = "MEM_READ_REQ"
      /\ UNCHANGED <<fileVars, svc_vector_addr, write_word>>
  BY DEF ReadsFrom
<1>2. FileTypes /\ EffectTypes /\ ir.r \in 0..NumRegs
  BY DEF CpuTypes, Instruction
<1>3. state' \in States
  BY <1>1, StateNames DEF States
<1>4. FileTypes'
  BY <1>1, <1>2 DEF FileTypes, fileVars
<1>5. EffectTypes'
  BY <1>1, <1>2 DEF EffectTypes
<1> QED
  BY <1>3, <1>4, <1>5

LEMMA ReadMemoryTypes ==
  ASSUME CpuTypes, ~Faults, ReadMemory
  PROVE  state' \in States /\ FileTypes' /\ EffectTypes'
<1>1. sp \in Word /\ Indexed \in Word /\ 0 \in Word
  BY AddressType, Words DEF CpuTypes, FileTypes
<1>2. ir.op \in ArithOps => ir.r \in Regs
  BY Zenon DEF Faults, BadField, uses_r_field
<1>3. CASE ir.op \in ArithOps /\ ReadsFrom(Indexed, ir.op)
  BY <1>1, <1>2, <1>3, ReadTypes
<1>4. CASE ir.op \in {"POP", "RET"} /\ ReadsFrom(sp, ir.op)
  BY <1>1, <1>4, ReadTypes, OpNames
<1>5. CASE ReadsFrom(0, "SVC")
  BY <1>1, <1>5, ReadTypes, OpNames
<1> QED
  BY <1>3, <1>4, <1>5 DEF ReadMemory

LEMMA WriteTypes ==
  ASSUME CpuTypes, NEW addr \in Word, NEW word \in Word,
         NEW kind \in {"ST", "PUSH", "CALL", "SVC"},
         WritesTo(addr, word, kind), sp' \in Word, svc_vector_addr' \in 0..MaxVector
  PROVE  state' \in States /\ FileTypes' /\ EffectTypes'
<1>1. /\ effective_addr' = addr /\ write_word' = word
      /\ mem_read_kind' = "NONE" /\ mem_write_kind' = kind
      /\ dest_reg' = ir.r /\ state' = "MEM_WRITE"
      /\ UNCHANGED <<gr, pr, fr, error_instruction>>
  BY DEF WritesTo
<1>2. FileTypes /\ ir.r \in 0..NumRegs
  BY DEF CpuTypes, Instruction
<1>3. state' \in States
  BY <1>1 DEF States
<1>4. FileTypes'
  BY <1>1, <1>2 DEF FileTypes
<1>5. EffectTypes'
  BY <1>1, <1>2, OpNames DEF EffectTypes
<1> QED
  BY <1>3, <1>4, <1>5

LEMMA WriteMemoryTypes ==
  ASSUME CpuTypes, ~Faults, WriteMemory
  PROVE  state' \in States /\ FileTypes' /\ EffectTypes'
<1>1. /\ gr \in [Regs -> Word] /\ pr \in Word /\ sp \in Word /\ Indexed \in Word
      /\ svc_vector_addr \in 0..MaxVector
  BY AddressType DEF CpuTypes, FileTypes, EffectTypes
<1>2. Wrap(sp - 1) \in Word
  BY <1>1, Words
<1>3. CASE ir.op = "ST" /\ WritesTo(Indexed, gr[ir.r], "ST") /\ UNCHANGED <<sp, svc_vector_addr>>
  <2>1. ir.r \in Regs
    BY Zenon, <1>3 DEF Faults, BadField, uses_r_field
  <2>2. gr[ir.r] \in Word
    BY <1>1, <2>1
  <2>3. QED
    BY <1>1, <1>3, <2>2, WriteTypes
<1>4. CASE ir.op = "PUSH" /\ Pushes(Indexed, "PUSH") /\ UNCHANGED svc_vector_addr
  BY <1>1, <1>2, <1>4, WriteTypes DEF Pushes
<1>5. CASE ir.op = "CALL" /\ Pushes(pr, "CALL") /\ UNCHANGED svc_vector_addr
  BY <1>1, <1>2, <1>5, WriteTypes DEF Pushes
<1>6. CASE /\ ir.op = "SVC" /\ Indexed % SvcSpan # 0
           /\ Pushes(pr, "SVC")
           /\ svc_vector_addr' = Indexed % SvcSpan
  <2>1. ~(Indexed % SvcSpan > MaxVector)
    BY Zenon, <1>6 DEF Faults
  <2>2. SvcSpan \in Nat \ {0} /\ Indexed \in Nat /\ MaxVector \in Nat
    BY <1>1, IsaAssumption DEF Word
  <2>3. Indexed % SvcSpan \in Nat
    BY <2>2
  <2>4. svc_vector_addr' \in 0..MaxVector
    BY <1>6, <2>1, <2>2, <2>3
  <2>5. QED
    BY <1>1, <1>2, <1>6, <2>4, WriteTypes DEF Pushes
<1> QED
  BY <1>3, <1>4, <1>5, <1>6 DEF WriteMemory

(* An edge of the CPU, held in reset or running.                           *)
LEMMA AskTypes ==
  ASSUME CpuTypes, Asks \/ Quiet
  PROVE  read_req' \in BOOLEAN /\ read_addr' \in Word
<1>1. Wanted \in Word
  <2>1. Wanted \in {0, SpCell, effective_addr, svc_vector_addr, pr}
    BY DEF Wanted
  <2>2. QED
    BY <2>1, Words DEF CpuTypes, FileTypes, EffectTypes
<1> QED
  BY <1>1 DEF CpuTypes, Asks, Quiet

LEMMA ExecuteTypes ==
  ASSUME ResultsAreWords, CpuTypes, Execute
  PROVE  state' \in States /\ FileTypes' /\ EffectTypes' /\ UNCHANGED <<ir, operand>>
BY FaultTypes, EndHereTypes, ReadMemoryTypes, WriteMemoryTypes DEF Execute

LEMMA TakeDataTypes ==
  ASSUME ResultsAreWords, CpuTypes, read_data \in Maybe(Word), TakeData
  PROVE  state' \in States /\ FileTypes' /\ UNCHANGED latchVars
<1>1. /\ read_data \in Word /\ UNCHANGED <<error_instruction, latchVars>>
  BY DEF TakeData, Answered, Maybe
<1>2. /\ gr \in [Regs -> Word] /\ pr \in Word /\ sp \in Word /\ fr \in Flags
      /\ error_instruction' \in BOOLEAN
      /\ mem_read_kind \in ArithOps => dest_reg \in Regs
  BY <1>1 DEF CpuTypes, FileTypes, EffectTypes
<1>3. CASE TakeArith
  <2> DEFINE done == Operate(mem_read_kind, gr[dest_reg], read_data, dest_reg)
  <2>1. mem_read_kind \in ArithOps /\ dest_reg \in Regs /\ gr[dest_reg] \in Word
    BY <1>2, <1>3 DEF TakeArith
  <2>2. done.gr \in [Regs -> Word] /\ done.fr \in Flags
    BY <1>1, <2>1, OperateType
  <2>3. /\ gr' = done.gr /\ fr' = done.fr /\ state' = "FETCH_REQ" /\ UNCHANGED <<pr, sp>>
    BY <1>3 DEF TakeArith
  <2> HIDE DEF done
  <2>4. QED
    BY <1>1, <1>2, <2>2, <2>3, StateNames DEF FileTypes, States
<1>4. CASE TakePop
  <2>1. /\ gr' \in {gr, [gr EXCEPT ![dest_reg] = read_data]} /\ pr' \in {pr, read_data}
        /\ sp' = Wrap(sp + 1) /\ state' = "FETCH_REQ" /\ fr' = fr
    BY <1>4 DEF TakePop
  <2>2. [gr EXCEPT ![dest_reg] = read_data] \in [Regs -> Word]
    BY <1>1, <1>2
  <2>3. QED
    BY <1>1, <1>2, <2>1, <2>2, Words, StateNames DEF FileTypes, States
<1>5. CASE TakeSvc0
  BY <1>1, <1>2, <1>5, StateNames DEF TakeSvc0, FileTypes, States
<1> QED
  BY <1>1, <1>3, <1>4, <1>5 DEF TakeData

LEMMA RunTypes ==
  ASSUME ResultsAreWords, CpuTypes, BusTypes, RunCpu
  PROVE  CpuTypes'
<1>1. /\ FileTypes /\ EffectTypes /\ ir \in Instruction /\ operand \in Word /\ state \in States
      /\ pr \in Word /\ Wrap(pr + 1) \in Word
      /\ effective_addr \in Word /\ write_word \in Word
  BY Words DEF CpuTypes, FileTypes, EffectTypes
<1>2. UNCHANGED latchVars => EffectTypes' /\ ir' \in Instruction /\ operand' \in Word
  BY <1>1 DEF latchVars, EffectTypes
<1>3. UNCHANGED fileVars => FileTypes'
  BY <1>1 DEF fileVars, FileTypes
<1>4. read_data # None => read_data \in Word
  BY DEF BusTypes, Maybe
<1>5. write_req' = None => write_req' \in Maybe(StoreOf(Word))
  BY DEF Maybe
<1>6. WaitStates \subseteq States /\ RequestStates \subseteq States
      /\ {"FETCH_REQ", "SVC_VECTOR_REQ", "RESET_SP_REQ", "OPERAND_REQ", "EXECUTE", "DECODE"}
           \subseteq States
  BY StateNames DEF States
<1>7. Asks \/ Quiet
  BY Zenon DEF RunCpu, Request, Wait, MemWrite
<1>8. read_req' \in BOOLEAN /\ read_addr' \in Word
  BY <1>7, AskTypes
<1>9. CASE Request
  <2>1. state' \in States
    BY <1>6, <1>9, StateNames DEF Request
  <2>2. QED
    BY Zenon, <1>2, <1>3, <1>5, <1>8, <1>9, <2>1 DEF Request, CpuTypes
<1>10. CASE Wait
  BY Zenon, <1>1, <1>2, <1>3, <1>5, <1>8, <1>10 DEF Wait, CpuTypes
<1>11. CASE MemWrite
  <2>1. write_req' \in Maybe(StoreOf(Word))
    BY <1>1, <1>11 DEF MemWrite, Maybe, StoreOf
  <2>2. pr' \in Word /\ state' \in States
    BY <1>1, <1>6, <1>11, AddressType DEF MemWrite
  <2>3. FileTypes'
    BY <1>1, <1>11, <2>2 DEF MemWrite, FileTypes
  <2>4. QED
    BY Zenon, <1>2, <1>8, <1>11, <2>1, <2>2, <2>3 DEF MemWrite, CpuTypes
<1>12. ASSUME write_req' = None, state' \in States, FileTypes', EffectTypes',
              ir' \in Instruction, operand' \in Word
       PROVE  CpuTypes'
  BY Zenon, <1>5, <1>8, <1>12 DEF CpuTypes
<1>13. CASE write_req' = None /\ (TakeResetPr \/ TakeSp \/ TakeVector)
  <2>1. /\ state' \in States /\ UNCHANGED latchVars
        /\ UNCHANGED <<gr, fr, error_instruction>> /\ pr' \in Word /\ sp' \in Word
    BY <1>1, <1>4, <1>6, <1>13 DEF TakeResetPr, TakeSp, TakeVector, Answered, FileTypes
  <2>2. FileTypes'
    BY <1>1, <2>1 DEF FileTypes
  <2>3. QED
    BY <1>2, <1>12, <1>13, <2>1, <2>2
<1>14. CASE write_req' = None /\ TakeInstruction
  <2>1. /\ state' = "DECODE" /\ ir' = coding[read_data] /\ read_data \in Word
        /\ pr' = Wrap(pr + 1) /\ UNCHANGED <<gr, sp, fr, error_instruction>>
        /\ UNCHANGED <<operand, effective_addr, svc_vector_addr, write_word, mem_read_kind,
                       mem_write_kind, dest_reg>>
    BY <1>4, <1>14 DEF TakeInstruction, Answered
  <2>2. ir' \in Instruction
    <3>1. coding \in [Word -> Instruction]
      BY CpuAssumption DEF BusTypes
    <3>2. QED
      BY <2>1, <3>1
  <2>3. FileTypes' /\ EffectTypes'
    BY <1>1, <2>1 DEF FileTypes, EffectTypes
  <2>4. QED
    BY <1>1, <1>6, <1>12, <1>14, <2>1, <2>2, <2>3
<1>15. CASE write_req' = None /\ Decode
  BY <1>2, <1>3, <1>6, <1>12, <1>15 DEF Decode
<1>16. CASE write_req' = None /\ TakeOperand
  <2>1. /\ state' = "EXECUTE" /\ operand' = read_data /\ read_data \in Word
        /\ pr' = Wrap(pr + 1) /\ UNCHANGED <<gr, sp, fr, error_instruction>>
        /\ UNCHANGED <<ir, effective_addr, svc_vector_addr, write_word, mem_read_kind,
                       mem_write_kind, dest_reg>>
    BY <1>4, <1>16 DEF TakeOperand, Answered
  <2>2. FileTypes' /\ EffectTypes'
    BY <1>1, <2>1 DEF FileTypes, EffectTypes
  <2>3. QED
    BY <1>1, <1>6, <1>12, <1>16, <2>1, <2>2
<1>17. CASE write_req' = None /\ Execute
  BY <1>1, <1>12, <1>17, ExecuteTypes
<1>18. CASE write_req' = None /\ TakeData
  BY <1>2, <1>12, <1>18, TakeDataTypes DEF BusTypes
<1> QED
  BY Zenon, <1>9, <1>10, <1>11, <1>13, <1>14, <1>15, <1>16, <1>17, <1>18 DEF RunCpu

LEMMA ResetTypes ==
  ASSUME ResetCpu
  PROVE  CpuTypes'
<1>1. 0 \in Word /\ 0 \in 0..MaxVector /\ 0 \in 0..NumRegs
  BY Words
<1>2. NoInsn \in Instruction /\ NoFlags \in Flags
  BY <1>1 DEF NoInsn, NoFlags, Instruction, Flags, Ops
<1>3. state' \in States
  BY StateNames DEF ResetCpu, States
<1>4. FileTypes'
  BY <1>1, <1>2 DEF ResetCpu, FileTypes
<1>5. EffectTypes'
  BY <1>1, OpNames DEF ResetCpu, EffectTypes
<1>6. write_req' \in Maybe(StoreOf(Word))
  BY DEF ResetCpu, Maybe
<1> QED
  BY <1>1, <1>2, <1>3, <1>4, <1>5, <1>6 DEF ResetCpu, CpuTypes

(* An edge of the bus and of the loader.                                   *)
LEMMA ForwardTypes ==
  ASSUME CpuTypes, NEW addrs
  PROVE  /\ ForwardRead(addrs) \in Maybe(addrs)
         /\ ForwardWrite(addrs) \in Maybe(StoreOf(addrs))
BY DEF ForwardRead, ForwardWrite, Maybe, StoreOf, CpuTypes

LEMMA MemoryTypes ==
  ASSUME BusTypes
  PROVE  /\ RamOut \subseteq Maybe(Word)
         /\ Landed(memory, memory_wr) \in [Ram -> Word]
<1>1. /\ memory \in [Ram -> Word] /\ memory_rd \in Maybe(Ram)
      /\ memory_wr \in Maybe(StoreOf(Ram))
  BY DEF BusTypes
<1>2. RamOut \subseteq Maybe(Word)
  BY <1>1 DEF RamOut, Maybe
<1>3. memory_wr # None => memory_wr.addr \in Ram /\ memory_wr.word \in Word
  BY <1>1 DEF Maybe, StoreOf
<1>4. Landed(memory, memory_wr) \in [Ram -> Word]
  BY <1>1, <1>3 DEF Landed
<1> QED
  BY <1>2, <1>4

LEMMA BusTypesStep ==
  ASSUME CpuTypes, BusTypes, Next
  PROVE  BusTypes'
<1>1. BusTick /\ LoaderTick /\ Observe
  BY DEF Next, Tick
<1>2. /\ memory_rd' \in Maybe(Ram) /\ device_rd' \in Maybe(Devices)
      /\ memory_wr' \in Maybe(StoreOf(Ram)) /\ device_wr' \in Maybe(StoreOf(Devices))
  BY <1>1, ForwardTypes DEF BusTick
<1>3. cpu_read_req_buf' \in BOOLEAN
  BY <1>1 DEF BusTick, CpuTypes
<1>4. /\ read_data' \in Maybe(Word) /\ rd_data' \in Maybe(Word) /\ ram_out' \in Maybe(Word)
  BY <1>1, MemoryTypes DEF BusTick, BusTypes
<1>5. device_data' \in Maybe(Word)
  <2>1. device_data' \in {None} \cup DeviceWords
    BY <1>1 DEF BusTick
  <2>2. QED
    BY <2>1, CpuAssumption DEF Maybe
<1>6. hold' \in 0..ResetEdges /\ image' \in Images /\ coding' \in Codings
  <2>1. hold \in 0..ResetEdges /\ ResetEdges \in Nat
    BY CpuAssumption DEF BusTypes
  <2>2. hold' \in IF hold > 0 THEN {hold - 1} ELSE {0, ResetEdges}
    BY <1>1 DEF LoaderTick, cpu_reset
  <2>3. hold' \in 0..ResetEdges
    BY <2>1, <2>2
  <2>4. QED
    BY <1>1, <2>3 DEF LoaderTick, BusTypes
<1>7. memory' \in [Ram -> Word]
  <2>1. image \in [Ram -> Word]
    BY CpuAssumption DEF BusTypes
  <2>2. QED
    BY <1>1, <2>1, MemoryTypes DEF LoaderTick
<1>8. executed' \in 0..MaxInstructions
  <2>1. executed \in 0..MaxInstructions /\ MaxInstructions \in Nat
    BY CpuAssumption DEF BusTypes
  <2>2. \/ executed' \in {0, executed}
        \/ executed # MaxInstructions /\ executed' = executed + 1
    BY <1>1 DEF Observe, AtBound
  <2>3. QED
    BY <2>1, <2>2
<1> QED
  BY <1>2, <1>3, <1>4, <1>5, <1>6, <1>7, <1>8 DEF BusTypes

LEMMA InitTypes == Init => TypeInv
<1> SUFFICES ASSUME Init PROVE CpuTypes /\ BusTypes
  BY TypeParts
<1>1. 0 \in Word /\ 0 \in 0..MaxVector /\ 0 \in 0..NumRegs
  BY Words
<1>2. NoInsn \in Instruction /\ NoFlags \in Flags
  BY <1>1 DEF NoInsn, NoFlags, Instruction, Flags, Ops
<1>3. state \in States
  BY StateNames DEF Init, States
<1>4. FileTypes
  BY <1>1, <1>2 DEF Init, FileTypes
<1>5. EffectTypes
  BY <1>1, OpNames DEF Init, EffectTypes
<1>6. write_req \in Maybe(StoreOf(Word))
  BY DEF Init, Maybe
<1>7. CpuTypes
  BY <1>1, <1>2, <1>3, <1>4, <1>5, <1>6 DEF Init, CpuTypes
<1>8. hold \in 0..ResetEdges /\ executed \in 0..MaxInstructions
  BY CpuAssumption DEF Init
<1>9. memory \in [Ram -> Word]
  BY CpuAssumption DEF Init
<1>10. BusTypes
  BY <1>8, <1>9 DEF Init, BusTypes, Maybe
<1> QED
  BY <1>7, <1>10

LEMMA TypeStep ==
  ASSUME ResultsAreWords, TypeInv, [Next]_vars
  PROVE  TypeInv'
<1>1. CpuTypes /\ BusTypes
  BY TypeParts
<1>2. CASE Next
  <2>1. CpuTypes'
    BY <1>1, <1>2, RunTypes, ResetTypes DEF Next, Tick
  <2>2. BusTypes'
    BY <1>1, <1>2, BusTypesStep
  <2>3. TypeInv'
    BY <2>1, <2>2 DEF TypeInv, TypeOK, CpuTypes, BusTypes, FileTypes, EffectTypes
  <2>4. QED
    BY <2>3
<1>3. CASE UNCHANGED vars
  BY <1>3 DEF TypeInv, TypeOK, vars, cpuVars, fileVars, latchVars, readVars, busVars, loadVars
<1> QED
  BY <1>2, <1>3

(* Every register of the CPU and the bus is a word, an address or a flag   *)
(* of its width, whatever the program does, and a result goes to a         *)
(* register that exists.                                                   *)
THEOREM TypeCorrect ==
  ASSUME ResultsAreWords
  PROVE  Spec => []TypeOK
<1>1. TypeInv /\ [Next]_vars => TypeInv'
  BY TypeStep
<1>2. TypeInv => TypeOK
  BY DEF TypeInv
<1> QED
  BY <1>1, <1>2, InitTypes, PTL DEF Spec

-----------------------------------------------------------------------------
(* The stack.  SP is a word, and a stack instruction whose address would   *)
(* not be memory is a fault.                                               *)
LEMMA PushInRam ==
  ASSUME CpuTypes, ~StackFull
  PROVE  Wrap(sp - 1) \in Ram
<1>1. sp \in Word /\ Half \in Nat \ {0} /\ RamTop \in 1..2 * Half - 1
  BY IsaAssumption DEF CpuTypes, FileTypes
<1>2. sp \in Nat /\ sp # 0 /\ sp < RamTop
  BY <1>1, SMT DEF StackFull, Word
<1>3. Wrap(sp - 1) = sp - 1
  BY <1>1, <1>2, SMT DEF Wrap, Size
<1> QED
  BY <1>1, <1>2, <1>3, SMT DEF Ram

LEMMA StackStep ==
  ASSUME TypeInv, Next
  PROVE  StackInRam'
<1>1. CpuTypes /\ BusTypes
  BY TypeParts
<1>2. sp \in Word /\ RamTop \in Nat /\ Half \in Nat
  BY <1>1, IsaAssumption DEF CpuTypes, FileTypes
<1>3. cpu_reset => ResetCpu
  BY DEF Next, Tick
<1>4. ~cpu_reset => RunCpu
  BY DEF Next, Tick
<1>5. CASE state' \notin {"MEM_WRITE", "MEM_READ_REQ"}
  BY <1>5 DEF StackInRam
<1>6. CASE state' \in {"MEM_WRITE", "MEM_READ_REQ"}
  <2>1. Execute
    <3>1. RunCpu
      BY <1>3, <1>4, <1>6 DEF ResetCpu
    <3>2. ~Request /\ ~Wait
      BY <1>6, StateNames DEF Request, Wait
    <3>3. ~MemWrite
      BY <1>6 DEF MemWrite
    <3>4. ~TakeResetPr /\ ~TakeSp /\ ~TakeInstruction /\ ~Decode /\ ~TakeOperand /\ ~TakeVector
      BY <1>6 DEF TakeResetPr, TakeSp, TakeInstruction, Decode, TakeOperand, TakeVector
    <3>5. ~TakeData
      BY <1>6 DEF TakeData, TakeArith, TakePop, TakeSvc0
    <3>6. QED
      BY <3>1, <3>2, <3>3, <3>4, <3>5 DEF RunCpu
  <2>2. ~Faults /\ (ReadMemory \/ WriteMemory)
    BY <1>6, <2>1 DEF Execute, FaultInstruction, EndHere, Ends
  <2>3. CASE ReadMemory
    <3>1. state' = "MEM_READ_REQ"
      BY <2>3 DEF ReadMemory, ReadsFrom
    <3>2. mem_read_kind' \in {"POP", "RET"} =>
            ir.op \in {"POP", "RET"} /\ effective_addr' = sp
      BY <2>3, OpNames DEF ReadMemory, ReadsFrom
    <3>3. ir.op \in {"POP", "RET"} => ~(sp >= RamTop)
      BY Zenon, <2>2 DEF Faults, StackEmpty
    <3>4. ~(sp >= RamTop) => sp \in Ram
      BY <1>2 DEF Word, Size, Ram
    <3>5. QED
      BY <3>1, <3>2, <3>3, <3>4 DEF StackInRam
  <2>4. CASE WriteMemory
    <3>1. state' = "MEM_WRITE"
      BY <2>4 DEF WriteMemory, Pushes, WritesTo
    <3>2. mem_write_kind' \in {"PUSH", "CALL", "SVC"} =>
            /\ ir.op \in {"PUSH", "CALL"} \/ (ir.op = "SVC" /\ Indexed % SvcSpan # 0)
            /\ effective_addr' = Wrap(sp - 1)
      BY <2>4 DEF WriteMemory, Pushes, WritesTo
    <3>3. ir.op \in {"PUSH", "CALL"} \/ (ir.op = "SVC" /\ Indexed % SvcSpan # 0) => ~StackFull
      BY Zenon, <2>2 DEF Faults
    <3>4. QED
      BY <1>1, <3>1, <3>2, <3>3, PushInRam DEF StackInRam
  <2>5. QED
    BY <2>2, <2>3, <2>4
<1> QED
  BY <1>5, <1>6

(* No instruction pushes into a device or pops from one, however SP was    *)
(* loaded or wrapped: the checks before PUSH, CALL, SVC, POP and RET make  *)
(* a fault of each that would.                                             *)
THEOREM StackInRamAlways ==
  ASSUME ResultsAreWords
  PROVE  Spec => []StackInRam
<1>1. TypeInv /\ [Next]_vars => TypeInv'
  BY TypeStep
<1>2. TypeInv /\ StackInRam /\ [Next]_vars => StackInRam'
  <2> SUFFICES ASSUME TypeInv, StackInRam, [Next]_vars PROVE StackInRam'
    OBVIOUS
  <2>1. CASE Next
    BY <2>1, StackStep
  <2>2. CASE UNCHANGED vars
    BY <2>2 DEF StackInRam, vars, cpuVars, latchVars
  <2>3. QED
    BY <2>1, <2>2
<1>3. Init => StackInRam
  BY DEF Init, StackInRam
<1> QED
  BY <1>1, <1>2, <1>3, InitTypes, PTL DEF Spec

-----------------------------------------------------------------------------
(* The machine of Comet2.  Between two instructions `seen' is the machine; *)
(* within one it is what the machine was when the instruction began, and   *)
(* the CPU has come some way from it.                                      *)

(* The memory and the accesses of devices, with the store that is under    *)
(* way.                                                                    *)
Mem  == Landed(Landed(memory, memory_wr), write_req)
Done == io \o Written(device_wr) \o Written(write_req)

Accesses == [kind : {"read", "write"}, addr : Word, word : Word]

IoTypes == io \in Seq(Accesses)

(* What a read may answer, when the memory is mem.                         *)
Answers(mem, a) == IF a \in Ram THEN {mem[a]} ELSE IF a \in Devices THEN Word ELSE {}

ReadAt(a, word) == IF a \in Devices THEN <<[kind |-> "read", addr |-> a, word |-> word]>>
                   ELSE << >>

(* The read of a, asked for when the accesses were `before': its answer,   *)
(* wherever it is on its way.                                              *)
Reading(a, before) ==
  /\ read_addr = a
  /\ memory_rd \in {None, a} /\ device_rd \in {None, a}
  /\ ram_out # None => a \in Ram /\ ram_out = Mem[a]
  /\ rd_data # None => a \in Ram /\ rd_data = Mem[a]
  /\ device_data # None => a \in Devices
  /\ read_data # None => read_data \in Answers(Mem, a)
  /\ Done = IF device_data # None THEN before \o ReadAt(a, device_data)
            ELSE IF read_data # None THEN before \o ReadAt(a, read_data) ELSE before

Carries(a, before) == IF state \in WaitStates THEN Reading(a, before) ELSE Done = before

(* Where the instruction word leaves the CPU, and its operand.             *)
FetchedIo(word) == seen.io \o ReadAt(seen.pr, word)

Long(word) == is_two_word_instruction(coding[word])

NextPr(word) == IF Long(word) THEN Wrap(Wrap(seen.pr + 1) + 1) ELSE Wrap(seen.pr + 1)

Before(word, given) ==
  IF Long(word) THEN FetchedIo(word) \o ReadAt(Wrap(seen.pr + 1), given)
  ELSE FetchedIo(word)

(* The instructions that are faults, with the stack pointer at top.        *)
Stuck(insn, ea, top) ==
  \/ BadField(insn)
  \/ insn.op = "undefined"
  \/ insn.op \in {"PUSH", "CALL"} /\ (top = 0 \/ top >= RamTop)
  \/ insn.op \in {"POP", "RET"} /\ top >= RamTop
  \/ /\ insn.op = "SVC" /\ ea % SvcSpan # 0
     /\ ea % SvcSpan > MaxVector \/ (top = 0 \/ top >= RamTop)

-----------------------------------------------------------------------------
(* Out of reset: the first PR and SP are read.                             *)
BootHeld ==
  /\ seen = AtReset(image)
  /\ gr = [i \in Regs |-> 0] /\ sp = 0 /\ fr = NoFlags /\ error_instruction = FALSE
  /\ Mem = image

BootPr == BootHeld /\ Carries(0, << >>)
BootSp == BootHeld /\ pr = image[0] /\ Carries(SpCell, << >>)

(* An instruction is fetched.                                              *)
Running ==
  /\ seen.phase = "run"
  /\ gr = seen.gr /\ fr = seen.fr /\ error_instruction = seen.error

Fetching ==
  /\ Running /\ pr = seen.pr /\ sp = seen.sp /\ Mem = seen.memory
  /\ Carries(seen.pr, seen.io)

Fetched(word) ==
  /\ Running /\ sp = seen.sp /\ Mem = seen.memory
  /\ word \in Answers(seen.memory, seen.pr)
  /\ ir = coding[word] /\ pr = Wrap(seen.pr + 1)

Decoding(word) == Fetched(word) /\ Done = FetchedIo(word)

OperandOf(word) ==
  Fetched(word) /\ Long(word) /\ Carries(Wrap(seen.pr + 1), FetchedIo(word))

(* It is there, and takes its effect.                                      *)
Loaded(word, given) ==
  /\ Running
  /\ word \in Answers(seen.memory, seen.pr) /\ ir = coding[word]
  /\ given \in IF Long(word) THEN Answers(seen.memory, Wrap(seen.pr + 1)) ELSE {0}
  /\ Long(word) => operand = given

Executing(word, given) ==
  /\ Loaded(word, given)
  /\ pr = NextPr(word) /\ sp = seen.sp /\ Mem = seen.memory
  /\ Done = Before(word, given)

ReadingData(word, given) ==
  /\ Loaded(word, given)
  /\ ~Stuck(ir, Indexed, seen.sp)
  /\ pr = NextPr(word) /\ sp = seen.sp /\ Mem = seen.memory
  /\ mem_read_kind = ir.op /\ dest_reg = ir.r
  /\ \/ ir.op \in ArithOps /\ ~ir.reg /\ effective_addr = Indexed
     \/ ir.op \in {"POP", "RET"} /\ effective_addr = seen.sp
     \/ ir.op = "SVC" /\ Indexed % SvcSpan = 0 /\ effective_addr = 0
  /\ Carries(effective_addr, Before(word, given))

ReadingSp(word, given) ==
  /\ Loaded(word, given)
  /\ ~Stuck(ir, Indexed, seen.sp)
  /\ ir.op = "SVC" /\ Indexed % SvcSpan = 0
  /\ pr = seen.memory[0] /\ sp = seen.sp /\ Mem = seen.memory
  /\ Carries(SpCell, Before(word, given))

Writing(word, given) ==
  /\ Loaded(word, given)
  /\ ~Stuck(ir, Indexed, seen.sp)
  /\ pr = NextPr(word) /\ Mem = seen.memory
  /\ mem_write_kind = ir.op
  /\ \/ /\ ir.op = "ST" /\ effective_addr = Indexed
        /\ write_word = gr[ir.r] /\ sp = seen.sp
     \/ /\ ir.op \in {"PUSH", "CALL", "SVC"} /\ effective_addr = seen.sp - 1
        /\ write_word = IF ir.op = "PUSH" THEN Indexed ELSE NextPr(word)
        /\ sp = seen.sp - 1
        /\ ir.op = "SVC" => Indexed % SvcSpan # 0 /\ svc_vector_addr = Indexed % SvcSpan
  /\ Done = Before(word, given)

ReadingVector(word, given) ==
  /\ Loaded(word, given)
  /\ ~Stuck(ir, Indexed, seen.sp)
  /\ ir.op = "SVC" /\ Indexed % SvcSpan # 0 /\ svc_vector_addr = Indexed % SvcSpan
  /\ sp = seen.sp - 1
  /\ Mem = [seen.memory EXCEPT ![seen.sp - 1] = NextPr(word)]
  /\ Carries(svc_vector_addr, Before(word, given))

Progress(word, given) ==
  /\ state \in {"RESET_PR_REQ", "RESET_PR_WAIT"} => BootPr
  /\ state \in {"RESET_SP_REQ", "RESET_SP_WAIT"} => BootSp
  /\ state \in {"FETCH_REQ", "FETCH_WAIT"} => Fetching
  /\ state = "DECODE" => Decoding(word)
  /\ state \in {"OPERAND_REQ", "OPERAND_WAIT"} => OperandOf(word)
  /\ state = "EXECUTE" => Executing(word, given)
  /\ state \in {"MEM_READ_REQ", "MEM_READ_WAIT"} => ReadingData(word, given)
  /\ state \in {"SVC0_SP_REQ", "SVC0_SP_WAIT"} => ReadingSp(word, given)
  /\ state = "MEM_WRITE" => Writing(word, given)
  /\ state \in {"SVC_VECTOR_REQ", "SVC_VECTOR_WAIT"} => ReadingVector(word, given)

(* In reset the store that was under way is lost or lands, and the image   *)
(* is in memory at the end.                                                *)
WriteDrains == hold > 0 /\ Edges >= 1 => write_req = None

MachineInv ==
  /\ IoTypes
  /\ WriteDrains
  /\ hold = 0 => \E word, given \in Word : Progress(word, given)

-----------------------------------------------------------------------------
(* Comet2 reads the same words, addresses and formats.                     *)
LEMMA SameWords ==
  /\ Machine!Size = Size /\ Machine!Word = Word /\ Machine!Ram = Ram
  /\ Machine!Devices = Devices /\ Machine!Regs = Regs
  /\ \A n : Machine!Wrap(n) = Wrap(n)
  /\ \A file, addr, x : Machine!indexed_addr(file, addr, x) = indexed_addr(file, addr, x)
<1>1. Machine!Size = Size
  BY DEF Machine!Size, Size
<1>2. /\ Machine!Word = Word /\ Machine!Ram = Ram /\ Machine!Devices = Devices
      /\ Machine!Regs = Regs
  BY <1>1 DEF Machine!Word, Word, Machine!Ram, Ram, Machine!Devices, Devices, Machine!Regs, Regs
<1>3. ASSUME NEW n PROVE Machine!Wrap(n) = Wrap(n)
  BY <1>1 DEF Machine!Wrap, Wrap
<1>4. ASSUME NEW file, NEW addr, NEW x
      PROVE  Machine!indexed_addr(file, addr, x) = indexed_addr(file, addr, x)
  BY <1>2, <1>3 DEF Machine!indexed_addr, indexed_addr
<1> QED
  BY <1>1, <1>2, <1>3, <1>4

(* Both decode a word the same way, and find the same fields wrong.        *)
LEMMA SameFormats ==
  /\ Machine!ArithOps = ArithOps /\ Machine!Shifts = Shifts /\ Machine!Jumps = Jumps
  /\ Machine!Compares = Compares
  /\ \A insn : /\ Machine!is_two_word_instruction(insn) <=> is_two_word_instruction(insn)
               /\ Machine!BadField(insn) <=> BadField(insn)
<1>1. /\ Machine!ArithOps = ArithOps /\ Machine!Shifts = Shifts /\ Machine!Jumps = Jumps
      /\ Machine!Compares = Compares
  BY DEF Machine!ArithOps, ArithOps, Machine!Shifts, Shifts, Machine!Jumps, Jumps,
         Machine!Compares, Compares
<1>2. Machine!Ops = Ops
  BY <1>1 DEF Machine!Ops, Ops
<1>3. ASSUME NEW insn
      PROVE  Machine!is_two_word_instruction(insn) <=> is_two_word_instruction(insn)
  BY Zenon, <1>1 DEF Machine!is_two_word_instruction, is_two_word_instruction
<1>4. ASSUME NEW insn
      PROVE  Machine!BadField(insn) <=> BadField(insn)
  BY Zenon, <1>1, <1>2, SameWords
     DEF Machine!BadField, BadField, Machine!uses_r_field, uses_r_field, Machine!uses_x_field,
         uses_x_field
<1> QED
  BY <1>1, <1>3, <1>4

(* A sum or a difference of two words, cut once, is what is left of it.    *)
LEMMA CutOnce ==
  ASSUME NEW a \in Word, NEW b \in Word
  PROVE  (a + b) % Size = Wrap(a + b) /\ (a - b) % Size = Wrap(a - b)
<1>1. Half \in Nat \ {0}
  BY IsaAssumption
<1>2. ASSUME NEW n \in Word PROVE n % Size = n /\ (n + Size) % Size = n /\ (n - Size) % Size = n
  BY <1>1, SMT DEF Word, Size
<1>3. /\ a + b \in Word \/ (a + b) - Size \in Word
      /\ a - b \in Word \/ (a - b) + Size \in Word
  BY <1>1, SMT DEF Word, Size
<1>4. (a + b) % Size = Wrap(a + b)
  BY <1>1, <1>2, <1>3, SMT DEF Wrap, Word, Size
<1>5. (a - b) % Size = Wrap(a - b)
  BY <1>1, <1>2, <1>3, SMT DEF Wrap, Word, Size
<1> QED
  BY <1>4, <1>5

(* Both combine the bits of words alike.                                   *)
LEMMA SameBits ==
  /\ \A a : Machine!Bits(a) = Bits(a)
  /\ \A set : Machine!FromBits(set) = FromBits(set)
  /\ \A s, t : Machine!SymDiff(s, t) = SymDiff(s, t)
<1>1. ASSUME NEW a PROVE Machine!Bits(a) = Bits(a)
  BY DEF Bits, Machine!Bits, Bit, Machine!Bit
<1>2. ASSUME NEW set PROVE Machine!FromBits(set) = FromBits(set)
  BY DEF FromBits, Machine!FromBits, MapThenSumSet, Machine!MapThenSumSet, MapThenFoldSet,
         Machine!MapThenFoldSet
<1>3. ASSUME NEW s, NEW t PROVE Machine!SymDiff(s, t) = SymDiff(s, t)
  BY DEF Machine!SymDiff, SymDiff
<1> QED
  BY <1>1, <1>2, <1>3

(* The arithmetic of the CPU is that of integers.                          *)
LEMMA SameResults ==
  ASSUME NEW op \in ArithOps, NEW a \in Word, NEW b \in Word
  PROVE  Machine!Value(op, a, b) = AluResult(op, a, b)
<1>1. (a + b) % Machine!Size = Wrap(a + b) /\ (a - b) % Machine!Size = Wrap(a - b)
  BY CutOnce, SameWords
<1>2. CASE op = "LD"
  BY Zenon, <1>2 DEF Machine!Value, AluResult, Machine!Compares
<1>3. CASE op = "ADDA"
  BY Zenon, <1>1, <1>3 DEF Machine!Value, AluResult, Machine!Compares
<1>4. CASE op = "ADDL"
  BY Zenon, <1>1, <1>4 DEF Machine!Value, AluResult, Machine!Compares
<1>5. CASE op = "SUBA"
  BY Zenon, <1>1, <1>5 DEF Machine!Value, AluResult, Machine!Compares
<1>6. CASE op = "SUBL"
  BY Zenon, <1>1, <1>6 DEF Machine!Value, AluResult, Machine!Compares
<1>7. CASE op = "CPA"
  BY Zenon, <1>1, <1>7 DEF Machine!Value, AluResult, Machine!Compares
<1>8. CASE op = "CPL"
  BY Zenon, <1>1, <1>8 DEF Machine!Value, AluResult, Machine!Compares
<1>9. CASE op = "AND"
  BY Zenon, <1>9, SameBits DEF Machine!Value, AluResult, Machine!Compares
<1>10. CASE op = "OR"
  BY Zenon, <1>10, SameBits DEF Machine!Value, AluResult, Machine!Compares
<1>11. CASE op = "XOR"
  BY Zenon, <1>11, SameBits DEF Machine!Value, AluResult, Machine!Compares
<1> QED
  BY <1>2, <1>3, <1>4, <1>5, <1>6, <1>7, <1>8, <1>9, <1>10, <1>11 DEF ArithOps, Compares

(* OF is set alike, by the sign bits and by the range of the result.       *)
LEMMA SameOverflow ==
  ASSUME NEW op \in ArithOps, NEW a \in Word, NEW b \in Word
  PROVE  Machine!Overflow(op, a, b) = AluOverflow(op, a, b)
<1>1. CASE op = "ADDA"
  <2>1. Machine!Overflow(op, a, b) = ~Machine!FitsSigned(Machine!Signed(a) + Machine!Signed(b))
    BY Zenon, <1>1 DEF Machine!Overflow
  <2>2. AluOverflow(op, a, b) <=> signed_add_overflow(a, b, Wrap(a + b))
    BY Zenon, <1>1 DEF AluOverflow
  <2>3. QED
    BY Zenon, <2>1, <2>2, AddOverflow DEF AluOverflow
<1>2. CASE op \in {"SUBA", "CPA"}
  <2>1. Machine!Overflow(op, a, b) = ~Machine!FitsSigned(Machine!Signed(a) - Machine!Signed(b))
    BY Zenon, <1>2 DEF Machine!Overflow
  <2>2. AluOverflow(op, a, b) <=> signed_sub_overflow(a, b, Wrap(a - b))
    BY Zenon, <1>2 DEF AluOverflow
  <2>3. QED
    BY Zenon, <2>1, <2>2, SubOverflow DEF AluOverflow
<1>3. CASE op = "ADDL"
  <2>1. Machine!Overflow(op, a, b) = (a + b >= Machine!Size)
    BY Zenon, <1>3 DEF Machine!Overflow
  <2>2. AluOverflow(op, a, b) <=> a + b >= Size
    BY Zenon, <1>3 DEF AluOverflow
  <2>3. AluOverflow(op, a, b) \in BOOLEAN
    BY Zenon DEF AluOverflow
  <2>4. AluOverflow(op, a, b) = (a + b >= Size)
    BY SMT, <2>2, <2>3
  <2>5. QED
    BY Zenon, <2>1, <2>4, SameWords
<1>4. CASE op \in {"SUBL", "CPL"}
  <2>1. Machine!Overflow(op, a, b) = (a < b)
    BY Zenon, <1>4 DEF Machine!Overflow
  <2>2. AluOverflow(op, a, b) <=> a < b
    BY Zenon, <1>4 DEF AluOverflow
  <2>3. AluOverflow(op, a, b) \in BOOLEAN
    BY Zenon DEF AluOverflow
  <2>4. AluOverflow(op, a, b) = (a < b)
    BY SMT, <2>2, <2>3
  <2>5. QED
    BY Zenon, <2>1, <2>4
<1>5. CASE op \in {"LD", "AND", "OR", "XOR"}
  <2>1. Machine!Overflow(op, a, b) = FALSE
    BY Zenon, <1>5 DEF Machine!Overflow
  <2>2. AluOverflow(op, a, b) = FALSE
    BY Zenon, <1>5 DEF AluOverflow
  <2>3. QED
    BY Zenon, <2>1, <2>2
<1> QED
  BY <1>1, <1>2, <1>3, <1>4, <1>5 DEF ArithOps, Compares

(* Both set the same flags after an operation.                             *)
LEMMA SameFlags ==
  ASSUME NEW value, NEW overflow
  PROVE  Machine!FlagsOf(value, overflow) = set_fr(value, overflow)
BY DEF Machine!FlagsOf, set_fr, SignBit

-----------------------------------------------------------------------------
(* An edge of the running CPU: what becomes of the memory and of the       *)
(* accesses, with what is under way.                                       *)
Edge ==
  /\ hold = 0
  /\ CpuTypes /\ BusTypes /\ BusInv /\ PortInv /\ IoTypes
  /\ Next

(* Nothing under way is nothing to add.                                    *)
LEMMA NoAccess ==
  ASSUME NEW s \in Seq(Accesses)
  PROVE  s \o << >> = s
BY ConcatEmptySeq

(* A store that is under way is a record of an address and a word.         *)
LEMMA StoreTypes ==
  ASSUME NEW store \in Maybe(StoreOf(Word))
  PROVE  /\ Written(store) \in Seq(Accesses)
         /\ store # None => store.addr \in Word /\ store.word \in Word
         /\ \A mem \in [Ram -> Word] : Landed(mem, store) \in [Ram -> Word]
<1>1. store # None => store.addr \in Word /\ store.word \in Word
  BY DEF Maybe, StoreOf
<1>2. Written(store) \in Seq(Accesses)
  <2>1. CASE store = None \/ store.addr \notin Devices
    BY <2>1 DEF Written
  <2>2. CASE ~(store = None \/ store.addr \notin Devices)
    <3> DEFINE access == [kind |-> "write", addr |-> store.addr, word |-> store.word]
    <3>1. access \in Accesses
      BY <1>1, <2>2 DEF Accesses
    <3>2. Written(store) = <<access>>
      BY <2>2 DEF Written
    <3> HIDE DEF access
    <3>3. QED
      BY <3>1, <3>2
  <2>3. QED
    BY <2>1, <2>2
<1>3. ASSUME NEW mem \in [Ram -> Word] PROVE Landed(mem, store) \in [Ram -> Word]
  BY <1>1 DEF Landed
<1> QED
  BY <1>1, <1>2, <1>3

(* What a read adds to the accesses is a sequence of them.                 *)
LEMMA ReadTypesIo ==
  ASSUME NEW a \in Word, NEW word \in Word
  PROVE  ReadAt(a, word) \in Seq(Accesses)
<1> DEFINE access == [kind |-> "read", addr |-> a, word |-> word]
<1>1. access \in Accesses
  BY DEF Accesses
<1>2. ReadAt(a, word) \in {<< >>, <<access>>}
  BY DEF ReadAt
<1> HIDE DEF access
<1>3. << >> \in Seq(Accesses) /\ <<access>> \in Seq(Accesses)
  BY <1>1
<1> QED
  BY <1>2, <1>3

(* The accesses, with the store under way, are a sequence of them.         *)
LEMMA DoneType ==
  ASSUME CpuTypes, BusTypes, IoTypes
  PROVE  /\ Done \in Seq(Accesses)
         /\ io \o Written(device_wr) \in Seq(Accesses)
         /\ Mem \in [Ram -> Word]
<1>1. /\ write_req \in Maybe(StoreOf(Word)) /\ memory_wr \in Maybe(StoreOf(Word))
      /\ device_wr \in Maybe(StoreOf(Word)) /\ memory \in [Ram -> Word]
  <2>1. /\ write_req \in Maybe(StoreOf(Word)) /\ memory_wr \in Maybe(StoreOf(Ram))
        /\ device_wr \in Maybe(StoreOf(Devices)) /\ memory \in [Ram -> Word]
    BY DEF CpuTypes, BusTypes
  <2>2. StoreOf(Ram) \subseteq StoreOf(Word) /\ StoreOf(Devices) \subseteq StoreOf(Word)
    BY Words DEF StoreOf
  <2>3. QED
    BY <2>1, <2>2 DEF Maybe
<1>2. Landed(memory, memory_wr) \in [Ram -> Word]
  BY <1>1, StoreTypes
<1>3. Mem \in [Ram -> Word]
  BY <1>1, <1>2, StoreTypes DEF Mem
<1>4. /\ io \in Seq(Accesses) /\ Written(device_wr) \in Seq(Accesses)
      /\ Written(write_req) \in Seq(Accesses)
  BY <1>1, StoreTypes DEF IoTypes
<1>5. io \o Written(device_wr) \in Seq(Accesses)
  BY <1>4, ConcatProperties
<1>6. Done \in Seq(Accesses)
  BY <1>4, <1>5, ConcatProperties DEF Done
<1> QED
  BY <1>3, <1>5, <1>6

(* The store that leaves the CPU is forwarded to where its address lies.   *)
LEMMA StoreForwarded ==
  /\ \A mem : Landed(mem, ForwardWrite(Ram)) = Landed(mem, write_req)
  /\ Written(ForwardWrite(Devices)) = Written(write_req)
BY DEF ForwardWrite, Landed, Written

(* What an edge of the running CPU consists of.                            *)
LEMMA EdgeParts ==
  ASSUME Edge
  PROVE  /\ RunCpu /\ BusTick /\ Observe
         /\ memory' = Landed(memory, memory_wr)
         /\ image' = image /\ coding' = coding
         /\ hold' \in {0, ResetEdges}
         /\ io' = io \o Written(device_wr)
                     \o (IF device_rd = None THEN << >>
                         ELSE <<[kind |-> "read", addr |-> device_rd, word |-> device_data']>>)
         /\ seen' = IF state' = "FETCH_REQ" THEN Boundary ELSE seen
<1>1. hold = 0 /\ ~cpu_reset
  BY DEF Edge, cpu_reset
<1>2. BusTick /\ LoaderTick /\ Observe /\ RunCpu
  BY <1>1 DEF Edge, Next, Tick
<1>3. /\ memory' = Landed(memory, memory_wr) /\ image' = image /\ coding' = coding
      /\ hold' \in {0, ResetEdges}
  BY <1>1, <1>2 DEF LoaderTick
<1>4. /\ io' = Served
      /\ seen' = IF state' = "FETCH_REQ" THEN Boundary ELSE seen
  BY <1>1, <1>2 DEF Observe
<1> QED
  BY <1>1, <1>2, <1>3, <1>4 DEF Served

(* A store on its way to the memory does not change Mem.                   *)
LEMMA MemMoves ==
  ASSUME Edge
  PROVE  Mem' = Landed(Mem, write_req')
<1>1. memory' = Landed(memory, memory_wr) /\ memory_wr' = ForwardWrite(Ram)
  BY EdgeParts DEF BusTick
<1>2. Landed(memory', memory_wr') = Mem
  BY <1>1, StoreForwarded DEF Mem
<1> QED
  BY <1>2 DEF Mem

(* A device is read while no store is under way from the CPU.              *)
LEMMA DeviceAlone ==
  ASSUME Edge, device_rd # None \/ memory_rd # None \/ state \in WaitStates
  PROVE  /\ state \in WaitStates /\ read_req /\ write_req = None
         /\ memory_rd # None => memory_wr = None
<1>1. IF state \in WaitStates
      THEN read_req /\ (IF cpu_read_req_buf THEN PipeCount <= 1 ELSE PipeEmpty)
      ELSE ~read_req /\ PipeEmpty
  BY DEF Edge, BusInv, RunInv
<1>2. state \in WaitStates /\ read_req
  BY <1>1 DEF PipeEmpty
<1> QED
  BY <1>2 DEF Edge, PortInv

(* Nor does an access on its way to a device change Done, but for a read   *)
(* that is answered.                                                       *)
LEMMA IoMoves ==
  ASSUME Edge
  PROVE  /\ device_rd = None => Done' = Done \o Written(write_req')
         /\ device_rd # None =>
              Done' = Done \o <<[kind |-> "read", addr |-> device_rd, word |-> device_data']>>
                           \o Written(write_req')
         /\ IoTypes'
<1> DEFINE read == <<[kind |-> "read", addr |-> device_rd, word |-> device_data']>>
<1>1. /\ device_rd = None => io' = io \o Written(device_wr) \o << >>
      /\ device_rd # None => io' = io \o Written(device_wr) \o read
  BY EdgeParts
<1>2. device_wr' = ForwardWrite(Devices) /\ Written(device_wr') = Written(write_req)
  BY EdgeParts, StoreForwarded DEF BusTick
<1>3. /\ Done \in Seq(Accesses) /\ io \o Written(device_wr) \in Seq(Accesses)
  BY DoneType DEF Edge
<1>4. device_rd = None => io' = io \o Written(device_wr)
  BY <1>1, <1>3, NoAccess
<1>5. device_rd = None => Done' = Done \o Written(write_req')
  BY <1>2, <1>4 DEF Done
<1>6. device_rd # None => io' \in Seq(Accesses)
  <2> SUFFICES ASSUME device_rd # None PROVE io' \in Seq(Accesses)
    OBVIOUS
  <2>1. device_rd \in Word
    BY Words DEF Edge, BusTypes, Maybe
  <2>2. device_data' \in Word
    <3>1. device_data' \in DeviceWords
      BY EdgeParts DEF BusTick
    <3>2. QED
      BY <3>1, CpuAssumption
  <2> DEFINE access == [kind |-> "read", addr |-> device_rd, word |-> device_data']
  <2>3. access \in Accesses
    BY <2>1, <2>2 DEF Accesses
  <2>4. read = <<access>>
    OBVIOUS
  <2> HIDE DEF access, read
  <2>5. <<access>> \in Seq(Accesses)
    BY <2>3
  <2>6. QED
    BY <1>1, <1>3, <2>4, <2>5, ConcatProperties
<1>7. IoTypes'
  BY <1>3, <1>4, <1>6 DEF IoTypes
<1>8. ASSUME device_rd # None PROVE Done' = Done \o read \o Written(write_req')
  <2>1. write_req = None
    BY <1>8, DeviceAlone
  <2>2. Written(write_req) = << >>
    BY <2>1 DEF Written
  <2>3. Done = io \o Written(device_wr)
    BY <1>3, <2>2, NoAccess DEF Done
  <2>4. io' \o << >> = io'
    BY <1>6, <1>8, NoAccess
  <2> HIDE DEF read
  <2>5. Done' = io' \o << >> \o Written(write_req')
    BY <1>2, <2>2 DEF Done
  <2>6. QED
    BY <1>1, <1>8, <2>3, <2>4, <2>5
<1> QED
  BY <1>5, <1>7, <1>8

(* Nothing is read, and nothing stored.                                    *)
LEMMA Still ==
  ASSUME Edge, write_req' = None, device_rd = None
  PROVE  Mem' = Mem /\ Done' = Done
<1>1. Mem' = Mem
  BY MemMoves DEF Landed
<1>2. Written(write_req') = << >>
  BY DEF Written
<1>3. Done' = Done \o << >>
  BY <1>2, IoMoves
<1>4. Done \in Seq(Accesses)
  BY DoneType DEF Edge
<1> QED
  BY <1>1, <1>3, <1>4, NoAccess

-----------------------------------------------------------------------------
(* A read, from the request to its answer.                                 *)
LEMMA PipeFacts ==
  ASSUME Edge
  PROVE  IF state \in WaitStates
         THEN read_req /\ (IF cpu_read_req_buf THEN PipeCount <= 1 ELSE PipeEmpty)
         ELSE ~read_req /\ PipeEmpty
BY DEF Edge, BusInv, RunInv

(* The request is made: nothing is under way yet.                          *)
LEMMA AskFirst ==
  ASSUME Edge, Request, NEW a, Wanted = a, NEW before, Carries(a, before)
  PROVE  Carries(a, before)' /\ Mem' = Mem
<1>1. state \in RequestStates /\ state \notin WaitStates /\ state' \in WaitStates
  BY StateNames DEF Request
<1>2. ~read_req /\ PipeEmpty
  BY <1>1, PipeFacts
<1>3. Mem' = Mem /\ Done' = Done
  BY <1>2, Still DEF Request, PipeEmpty
<1>4. /\ memory_rd' = None /\ device_rd' = None /\ ram_out' = None /\ device_data' = None
      /\ rd_data' = None /\ read_data' = None
  BY <1>2, EdgeParts, PipeMoves DEF PipeEmpty, ReadRises
<1>5. Done = before
  BY <1>1 DEF Carries
<1>6. read_addr' = a
  BY DEF Request, Asks
<1>7. Reading(a, before)'
  BY <1>3, <1>4, <1>5, <1>6 DEF Reading
<1> QED
  BY <1>1, <1>3, <1>7 DEF Carries

(* A read that has come to the memory gets the word of Mem at its address. *)
LEMMA RamHasIt ==
  ASSUME Edge, NEW a, memory_rd = a, a # None
  PROVE  ram_out' = Mem[a] /\ a \in Ram
<1>1. write_req = None /\ memory_wr = None
  BY DeviceAlone
<1>2. Mem = memory
  BY <1>1 DEF Mem, Landed
<1>3. ram_out' = memory[memory_rd]
  BY <1>1, EdgeParts DEF BusTick, RamOut, Collides
<1>4. a \in Ram
  BY DEF Edge, BusTypes, Maybe
<1> QED
  BY <1>2, <1>3, <1>4

(* It is kept up, and what is under way goes on.                           *)
LEMMA AskOn ==
  ASSUME Edge, Wait, NEW a \in Word, Wanted = a, NEW before \in Seq(Accesses),
         Carries(a, before)
  PROVE  Carries(a, before)' /\ Mem' = Mem
<1>1. state \in WaitStates /\ state' = state /\ read_data = None /\ write_req' = None
  BY DEF Wait
<1>2. Reading(a, before)
  BY <1>1 DEF Carries
<1>3. write_req = None /\ a # None
  BY <1>1, DeviceAlone, Words
<1>4. Mem' = Mem
  BY <1>1, MemMoves DEF Landed
<1>5. IF cpu_read_req_buf THEN PipeCount <= 1 ELSE PipeEmpty
  BY <1>1, PipeFacts
<1>6. /\ memory_rd' \in {None, a} /\ device_rd' \in {None, a}
      /\ memory_rd = None => ram_out' = None
      /\ device_rd = None => device_data' = None
      /\ rd_data' = ram_out
      /\ read_data' = IF device_data # None THEN device_data ELSE rd_data
      /\ read_addr' = a
  <2>1. read_addr = a /\ read_addr' = a
    BY <1>2 DEF Reading, Wait, Asks
  <2>2. memory_rd' \in {None, a} /\ device_rd' \in {None, a}
    BY <2>1, EdgeParts DEF BusTick, ForwardRead
  <2>3. QED
    BY <2>1, <2>2, EdgeParts, PipeMoves DEF BusTick
<1>7. /\ device_rd = None => Done' = Done
      /\ device_rd # None =>
           Done' = Done \o <<[kind |-> "read", addr |-> device_rd, word |-> device_data']>>
  <2>1. Written(write_req') = << >>
    BY <1>1 DEF Written
  <2>2. device_rd = None => Done' = Done
    BY <1>1, Still
  <2>3. ASSUME device_rd # None
        PROVE  Done' = Done \o <<[kind |-> "read", addr |-> device_rd, word |-> device_data']>>
    <3> DEFINE more == Done \o <<[kind |-> "read", addr |-> device_rd, word |-> device_data']>>
    <3>1. Done' = more \o << >>
      BY <2>1, <2>3, IoMoves
    <3>2. Done \in Seq(Accesses)
      BY DoneType DEF Edge
    <3>3. more \in Seq(Accesses)
      <4> DEFINE access == [kind |-> "read", addr |-> device_rd, word |-> device_data']
      <4>1. device_rd \in Word /\ device_data' \in Word
        BY <2>3, EdgeParts, CpuAssumption, Words DEF BusTick, Edge, BusTypes, Maybe
      <4>2. access \in Accesses
        BY <4>1 DEF Accesses
      <4>3. more = Done \o <<access>>
        OBVIOUS
      <4> HIDE DEF access, more
      <4>4. <<access>> \in Seq(Accesses)
        BY <4>2
      <4>5. QED
        BY <3>2, <4>3, <4>4, ConcatProperties
    <3> HIDE DEF more
    <3>4. Done' = more
      BY <3>1, <3>3, NoAccess
    <3>5. QED
      BY <3>4 DEF more
  <2>4. QED
    BY <2>2, <2>3
<1>8. CASE memory_rd = None /\ device_rd = None /\ ram_out = None /\ rd_data = None
              /\ device_data = None
  BY <1>1, <1>2, <1>3, <1>4, <1>6, <1>7, <1>8 DEF Reading, Carries
<1>9. CASE memory_rd # None /\ device_rd = None /\ ram_out = None /\ rd_data = None
              /\ device_data = None
  <2>1. memory_rd = a
    BY <1>2, <1>9 DEF Reading
  <2>2. ram_out' = Mem[a] /\ a \in Ram
    BY <1>3, <2>1, RamHasIt
  <2>3. QED
    BY <1>1, <1>2, <1>3, <1>4, <1>6, <1>7, <1>9, <2>2 DEF Reading, Carries
<1>10. CASE memory_rd = None /\ device_rd # None /\ ram_out = None /\ rd_data = None
              /\ device_data = None
  <2>1. device_rd = a
    BY <1>2, <1>10 DEF Reading
  <2>2. a \in Devices /\ device_data' \in Word /\ device_data' # None
    BY <1>10, <2>1, EdgeParts, CpuAssumption, Words DEF BusTick, Edge, BusTypes, Maybe
  <2>3. Done = before
    BY <1>1, <1>2, <1>10 DEF Reading
  <2>4. Done' = before \o ReadAt(a, device_data')
    BY <1>7, <1>10, <2>1, <2>2, <2>3 DEF ReadAt
  <2>5. QED
    BY <1>1, <1>2, <1>3, <1>4, <1>6, <1>10, <2>2, <2>4 DEF Reading, Carries
<1>11. CASE memory_rd = None /\ device_rd = None /\ ram_out # None /\ rd_data = None
              /\ device_data = None
  BY <1>1, <1>2, <1>3, <1>4, <1>6, <1>7, <1>11 DEF Reading, Carries
<1>12. CASE memory_rd = None /\ device_rd = None /\ ram_out = None /\ rd_data # None
              /\ device_data = None
  <2>1. a \in Ram /\ rd_data = Mem[a]
    BY <1>2, <1>12 DEF Reading
  <2>2. rd_data \in Answers(Mem, a)
    BY <2>1 DEF Answers
  <2>3. a \notin Devices
    BY <2>1, IsaAssumption, SMT DEF Ram, Devices
  <2>4. ReadAt(a, rd_data) = << >>
    BY <2>3 DEF ReadAt
  <2>5. before \o ReadAt(a, rd_data) = before
    BY <2>4, NoAccess
  <2>6. Done = before
    BY <1>1, <1>2, <1>12 DEF Reading
  <2>7. QED
    BY <1>1, <1>2, <1>3, <1>4, <1>6, <1>7, <1>12, <2>2, <2>5, <2>6 DEF Reading, Carries
<1>13. CASE memory_rd = None /\ device_rd = None /\ ram_out = None /\ rd_data = None
              /\ device_data # None
  <2>1. a \in Devices /\ device_data \in Word
    BY <1>2, <1>13 DEF Reading, Edge, BusTypes, Maybe
  <2>2. a \notin Ram
    BY <2>1, IsaAssumption, SMT DEF Ram, Devices
  <2>3. device_data \in Answers(Mem, a)
    BY <2>1, <2>2 DEF Answers
  <2>4. QED
    BY <1>1, <1>2, <1>3, <1>4, <1>6, <1>7, <1>13, <2>3 DEF Reading, Carries
<1>14. \/ memory_rd = None /\ device_rd = None /\ ram_out = None /\ rd_data = None
            /\ device_data = None
       \/ memory_rd # None /\ device_rd = None /\ ram_out = None /\ rd_data = None
            /\ device_data = None
       \/ memory_rd = None /\ device_rd # None /\ ram_out = None /\ rd_data = None
            /\ device_data = None
       \/ memory_rd = None /\ device_rd = None /\ ram_out # None /\ rd_data = None
            /\ device_data = None
       \/ memory_rd = None /\ device_rd = None /\ ram_out = None /\ rd_data # None
            /\ device_data = None
       \/ memory_rd = None /\ device_rd = None /\ ram_out = None /\ rd_data = None
            /\ device_data # None
  BY <1>5, SMT DEF PipeEmpty, PipeCount, One
<1> QED
  BY <1>4, <1>8, <1>9, <1>10, <1>11, <1>12, <1>13, <1>14

(* The answer is taken: it is what the memory or a device has.             *)
LEMMA TakesAnswer ==
  ASSUME Edge, state \in WaitStates, read_data # None, write_req' = None,
         NEW a, NEW before, Carries(a, before)
  PROVE  /\ read_data \in Answers(Mem, a)
         /\ Done' = before \o ReadAt(a, read_data)
         /\ Mem' = Mem
<1>1. Reading(a, before)
  BY DEF Carries
<1>2. PipeCount <= 1
  BY PipeFacts DEF PipeEmpty
<1>3. device_rd = None /\ device_data = None
  BY <1>2, SMT DEF PipeCount, One
<1>4. Mem' = Mem /\ Done' = Done
  BY <1>3, Still
<1> QED
  BY <1>1, <1>3, <1>4 DEF Reading

-----------------------------------------------------------------------------
(* Each part of the invariant over a request and the wait for its answer.  *)
SeenTypes ==
  /\ seen.gr \in [Regs -> Word] /\ seen.pr \in Word /\ seen.sp \in Word
  /\ seen.memory \in [Ram -> Word] /\ seen.io \in Seq(Accesses)

(* The address a request state asks for.                                   *)
LEMMA WantedOf ==
  /\ state \in {"RESET_PR_REQ", "RESET_PR_WAIT"} => Wanted = 0
  /\ state \in {"RESET_SP_REQ", "RESET_SP_WAIT", "SVC0_SP_REQ", "SVC0_SP_WAIT"}
       => Wanted = SpCell
  /\ state \in {"MEM_READ_REQ", "MEM_READ_WAIT"} => Wanted = effective_addr
  /\ state \in {"SVC_VECTOR_REQ", "SVC_VECTOR_WAIT"} => Wanted = svc_vector_addr
  /\ state \in {"FETCH_REQ", "FETCH_WAIT", "OPERAND_REQ", "OPERAND_WAIT"} => Wanted = pr
<1>1. state \in {"RESET_PR_REQ", "RESET_PR_WAIT"} => Wanted = 0
  BY Zenon DEF Wanted
<1>2. state \in {"RESET_SP_REQ", "RESET_SP_WAIT", "SVC0_SP_REQ", "SVC0_SP_WAIT"}
       => Wanted = SpCell
  BY Zenon DEF Wanted
<1>3. state \in {"MEM_READ_REQ", "MEM_READ_WAIT"} => Wanted = effective_addr
  BY Zenon DEF Wanted
<1>4. state \in {"SVC_VECTOR_REQ", "SVC_VECTOR_WAIT"} => Wanted = svc_vector_addr
  BY Zenon DEF Wanted
<1>5. state \in {"FETCH_REQ", "FETCH_WAIT", "OPERAND_REQ", "OPERAND_WAIT"} => Wanted = pr
  BY Zenon DEF Wanted
<1> QED
  BY <1>1, <1>2, <1>3, <1>4, <1>5

(* An edge that asks or waits keeps the registers, and the answer on its   *)
(* way.                                                                    *)
LEMMA Asking ==
  ASSUME Edge, Request \/ Wait, NEW a \in Word, Wanted = a, NEW before \in Seq(Accesses),
         Carries(a, before)
  PROVE  /\ Carries(a, before)' /\ Mem' = Mem
         /\ state' = IF state \in WaitStates THEN state ELSE WaitOf[state]
         /\ gr' = gr /\ pr' = pr /\ sp' = sp /\ fr' = fr
         /\ error_instruction' = error_instruction
         /\ ir' = ir /\ operand' = operand /\ effective_addr' = effective_addr
         /\ svc_vector_addr' = svc_vector_addr /\ mem_read_kind' = mem_read_kind
         /\ dest_reg' = dest_reg
         /\ seen' = seen /\ image' = image /\ coding' = coding
<1>1. Carries(a, before)' /\ Mem' = Mem
  BY AskFirst, AskOn
<1>2. /\ UNCHANGED <<fileVars, latchVars>>
      /\ state' = IF state \in WaitStates THEN state ELSE WaitOf[state]
  BY StateNames DEF Request, Wait
<1>3. state' # "FETCH_REQ"
  BY <1>2, StateNames DEF Request, Wait
<1>4. seen' = seen /\ image' = image /\ coding' = coding
  BY <1>3, EdgeParts
<1> QED
  BY <1>1, <1>2, <1>4 DEF fileVars, latchVars

(* So it does in each of the places where the CPU asks and waits: the      *)
(* instruction,                                                            *)
LEMMA FetchingAsks ==
  ASSUME Edge, SeenTypes, Request \/ Wait, state \in {"FETCH_REQ", "FETCH_WAIT"}, Fetching
  PROVE  state' = "FETCH_WAIT" /\ Fetching'
<1>1. PICK a \in Word : a = pr
  BY DEF Edge, CpuTypes, FileTypes
<1>2. PICK before \in Seq(Accesses) : before = seen.io
  BY DEF SeenTypes
<1>3. Wanted = a /\ Carries(a, before)
  BY <1>1, <1>2, WantedOf DEF Fetching
<1>4. Carries(a, before)'
  BY <1>3, Asking
<1>5. Fetching'
  BY <1>1, <1>2, <1>3, <1>4, Asking DEF Fetching, Running, Carries, Reading
<1>6. state' = "FETCH_WAIT"
  BY <1>3, Asking, StateNames DEF WaitOf
<1> QED
  BY <1>5, <1>6

LEMMA NoAccesses == \E before \in Seq(Accesses) : before = << >>
<1>1. << >> \in Seq(Accesses)
  OBVIOUS
<1> QED
  BY <1>1

(* the first PR,                                                           *)
LEMMA BootPrAsks ==
  ASSUME Edge, Request \/ Wait, state \in {"RESET_PR_REQ", "RESET_PR_WAIT"}, BootPr
  PROVE  state' = "RESET_PR_WAIT" /\ BootPr'
<1>1. PICK a \in Word : a = 0
  BY Words
<1>2. PICK before \in Seq(Accesses) : before = << >>
  BY NoAccesses
<1>3. Wanted = a /\ Carries(a, before)
  BY <1>1, <1>2, WantedOf DEF BootPr
<1>4. Carries(a, before)'
  BY <1>3, Asking
<1>5. BootPr'
  BY <1>1, <1>2, <1>3, <1>4, Asking DEF BootPr, BootHeld, Carries, Reading, AtReset
<1>6. state' = "RESET_PR_WAIT"
  BY <1>3, Asking, StateNames DEF WaitOf
<1> QED
  BY <1>5, <1>6

(* the first SP,                                                           *)
LEMMA BootSpAsks ==
  ASSUME Edge, Request \/ Wait, state \in {"RESET_SP_REQ", "RESET_SP_WAIT"}, BootSp
  PROVE  state' = "RESET_SP_WAIT" /\ BootSp'
<1>1. PICK a \in Word : a = SpCell
  BY Words
<1>2. PICK before \in Seq(Accesses) : before = << >>
  BY NoAccesses
<1>3. Wanted = a /\ Carries(a, before)
  BY <1>1, <1>2, WantedOf DEF BootSp
<1>4. Carries(a, before)'
  BY <1>3, Asking
<1>5. BootSp'
  BY <1>1, <1>2, <1>3, <1>4, Asking DEF BootSp, BootHeld, Carries, Reading, AtReset
<1>6. state' = "RESET_SP_WAIT"
  BY <1>3, Asking, StateNames DEF WaitOf
<1> QED
  BY <1>5, <1>6

(* The accesses that the instruction has made when it is whole.            *)
LEMMA IoTypesOf ==
  ASSUME SeenTypes, NEW word \in Word, NEW given \in Word
  PROVE  FetchedIo(word) \in Seq(Accesses) /\ Before(word, given) \in Seq(Accesses)
<1>1. /\ ReadAt(seen.pr, word) \in Seq(Accesses)
      /\ ReadAt(Wrap(seen.pr + 1), given) \in Seq(Accesses)
  BY Words, ReadTypesIo DEF SeenTypes
<1>2. FetchedIo(word) \in Seq(Accesses)
  BY <1>1, ConcatProperties DEF FetchedIo, SeenTypes
<1>3. FetchedIo(word) \o ReadAt(Wrap(seen.pr + 1), given) \in Seq(Accesses)
  BY <1>1, <1>2, ConcatProperties
<1> QED
  BY <1>2, <1>3 DEF Before

(* the operand,                                                            *)
LEMMA OperandAsks ==
  ASSUME Edge, SeenTypes, Request \/ Wait, state \in {"OPERAND_REQ", "OPERAND_WAIT"},
         NEW word \in Word, OperandOf(word)
  PROVE  state' = "OPERAND_WAIT" /\ OperandOf(word)'
<1>1. PICK a \in Word : a = pr
  BY DEF Edge, CpuTypes, FileTypes
<1>2. PICK before \in Seq(Accesses) : before = FetchedIo(word)
  BY IoTypesOf
<1>3. Wanted = a /\ Carries(a, before) /\ a = Wrap(seen.pr + 1)
  BY <1>1, <1>2, WantedOf DEF OperandOf, Fetched
<1>4. Carries(a, before)'
  BY <1>3, Asking
<1>5. Fetched(word)' /\ Long(word)'
  BY <1>3, Asking DEF OperandOf, Fetched, Running, Long
<1>6. before = FetchedIo(word)' /\ a = Wrap(seen'.pr + 1)
  BY <1>2, <1>3, Asking DEF FetchedIo
<1>7. OperandOf(word)'
  BY <1>4, <1>5, <1>6 DEF OperandOf, Carries, Reading
<1>8. state' = "OPERAND_WAIT"
  BY <1>3, Asking, StateNames DEF WaitOf
<1> QED
  BY <1>7, <1>8

(* What stays with the instruction over an edge that changes neither the   *)
(* registers nor the program.                                              *)
LEMMA LoadedStays ==
  ASSUME NEW word, NEW given, Loaded(word, given),
         seen' = seen, image' = image, coding' = coding, ir' = ir, operand' = operand,
         gr' = gr, fr' = fr, error_instruction' = error_instruction
  PROVE  /\ Loaded(word, given)'
         /\ Long(word)' = Long(word) /\ NextPr(word)' = NextPr(word)
         /\ FetchedIo(word)' = FetchedIo(word)
         /\ Before(word, given)' = Before(word, given)
         /\ Indexed' = Indexed
<1>1. Long(word)' = Long(word)
  BY DEF Long
<1>2. NextPr(word)' = NextPr(word) /\ FetchedIo(word)' = FetchedIo(word)
  BY <1>1 DEF NextPr, FetchedIo
<1>3. Before(word, given)' = Before(word, given)
  BY <1>1, <1>2 DEF Before
<1>4. Loaded(word, given)'
  BY <1>1 DEF Loaded, Running
<1>5. Indexed' = Indexed
  BY DEF Indexed
<1> QED
  BY <1>1, <1>2, <1>3, <1>4, <1>5

(* the data,                                                               *)
LEMMA DataAsks ==
  ASSUME Edge, SeenTypes, Request \/ Wait, state \in {"MEM_READ_REQ", "MEM_READ_WAIT"},
         NEW word \in Word, NEW given \in Word, ReadingData(word, given)
  PROVE  state' = "MEM_READ_WAIT" /\ ReadingData(word, given)'
<1>1. PICK a \in Word : a = effective_addr
  BY DEF Edge, CpuTypes, EffectTypes
<1>2. PICK before \in Seq(Accesses) : before = Before(word, given)
  BY IoTypesOf
<1>3. Wanted = a /\ Carries(a, before)
  BY <1>1, <1>2, WantedOf DEF ReadingData
<1>4. Carries(a, before)'
  BY <1>3, Asking
<1>5. /\ seen' = seen /\ image' = image /\ coding' = coding /\ ir' = ir /\ operand' = operand
      /\ gr' = gr /\ fr' = fr /\ error_instruction' = error_instruction
      /\ Mem' = Mem /\ pr' = pr /\ sp' = sp /\ mem_read_kind' = mem_read_kind
      /\ dest_reg' = dest_reg /\ effective_addr' = effective_addr
  BY <1>3, Asking
<1>6. /\ Loaded(word, given)' /\ NextPr(word)' = NextPr(word)
      /\ Before(word, given)' = Before(word, given) /\ Indexed' = Indexed
  BY <1>5, LoadedStays DEF ReadingData
<1>7. effective_addr' = a /\ Before(word, given)' = before
  BY <1>1, <1>2, <1>5, <1>6
<1>8. /\ ~Stuck(ir', Indexed', seen'.sp)
      /\ pr' = NextPr(word)' /\ sp' = seen'.sp /\ Mem' = seen'.memory
      /\ mem_read_kind' = ir'.op /\ dest_reg' = ir'.r
      /\ \/ ir'.op \in ArithOps /\ ~ir'.reg /\ effective_addr' = Indexed'
         \/ ir'.op \in {"POP", "RET"} /\ effective_addr' = seen'.sp
         \/ ir'.op = "SVC" /\ Indexed' % SvcSpan = 0 /\ effective_addr' = 0
  BY Zenon, <1>5, <1>6 DEF ReadingData
<1>9. ReadingData(word, given)'
  BY <1>4, <1>6, <1>7, <1>8 DEF ReadingData, Carries, Reading
<1>10. state' = "MEM_READ_WAIT"
  BY <1>3, Asking, StateNames DEF WaitOf
<1> QED
  BY <1>9, <1>10

(* SP at SVC 0,                                                            *)
LEMMA SpAsks ==
  ASSUME Edge, SeenTypes, Request \/ Wait, state \in {"SVC0_SP_REQ", "SVC0_SP_WAIT"},
         NEW word \in Word, NEW given \in Word, ReadingSp(word, given)
  PROVE  state' = "SVC0_SP_WAIT" /\ ReadingSp(word, given)'
<1>1. PICK a \in Word : a = SpCell
  BY Words
<1>2. PICK before \in Seq(Accesses) : before = Before(word, given)
  BY IoTypesOf
<1>3. Wanted = a /\ Carries(a, before)
  BY <1>1, <1>2, WantedOf DEF ReadingSp
<1>4. Carries(a, before)'
  BY <1>3, Asking
<1>5. /\ seen' = seen /\ image' = image /\ coding' = coding /\ ir' = ir /\ operand' = operand
      /\ gr' = gr /\ fr' = fr /\ error_instruction' = error_instruction
      /\ Mem' = Mem /\ pr' = pr /\ sp' = sp
  BY <1>3, Asking
<1>6. /\ Loaded(word, given)'
      /\ Before(word, given)' = Before(word, given) /\ Indexed' = Indexed
  BY <1>5, LoadedStays DEF ReadingSp
<1>7. Before(word, given)' = before
  BY <1>2, <1>6
<1>8. /\ ~Stuck(ir', Indexed', seen'.sp)
      /\ ir'.op = "SVC" /\ Indexed' % SvcSpan = 0
      /\ pr' = seen'.memory[0] /\ sp' = seen'.sp /\ Mem' = seen'.memory
  BY Zenon, <1>5, <1>6 DEF ReadingSp
<1>9. ReadingSp(word, given)'
  BY <1>1, <1>4, <1>6, <1>7, <1>8 DEF ReadingSp, Carries, Reading
<1>10. state' = "SVC0_SP_WAIT"
  BY <1>3, Asking, StateNames DEF WaitOf
<1> QED
  BY <1>9, <1>10

(* and the vector of SVC.                                                  *)
LEMMA VectorAsks ==
  ASSUME Edge, SeenTypes, Request \/ Wait, state \in {"SVC_VECTOR_REQ", "SVC_VECTOR_WAIT"},
         NEW word \in Word, NEW given \in Word, ReadingVector(word, given)
  PROVE  state' = "SVC_VECTOR_WAIT" /\ ReadingVector(word, given)'
<1>1. PICK a \in Word : a = svc_vector_addr
  BY Words DEF Edge, CpuTypes, EffectTypes
<1>2. PICK before \in Seq(Accesses) : before = Before(word, given)
  BY IoTypesOf
<1>3. Wanted = a /\ Carries(a, before)
  BY <1>1, <1>2, WantedOf DEF ReadingVector
<1>4. Carries(a, before)'
  BY <1>3, Asking
<1>5. /\ seen' = seen /\ image' = image /\ coding' = coding /\ ir' = ir /\ operand' = operand
      /\ gr' = gr /\ fr' = fr /\ error_instruction' = error_instruction
      /\ Mem' = Mem /\ sp' = sp /\ svc_vector_addr' = svc_vector_addr
  BY <1>3, Asking
<1>6. /\ Loaded(word, given)' /\ NextPr(word)' = NextPr(word)
      /\ Before(word, given)' = Before(word, given) /\ Indexed' = Indexed
  BY <1>5, LoadedStays DEF ReadingVector
<1>7. Before(word, given)' = before /\ svc_vector_addr' = a
  BY <1>1, <1>2, <1>5, <1>6
<1>8. /\ ~Stuck(ir', Indexed', seen'.sp)
      /\ ir'.op = "SVC" /\ Indexed' % SvcSpan # 0
      /\ svc_vector_addr' = Indexed' % SvcSpan
      /\ sp' = seen'.sp - 1
      /\ Mem' = [seen'.memory EXCEPT ![seen'.sp - 1] = NextPr(word)']
  BY Zenon, <1>5, <1>6 DEF ReadingVector
<1>9. ReadingVector(word, given)'
  BY <1>4, <1>6, <1>7, <1>8 DEF ReadingVector, Carries, Reading
<1>10. state' = "SVC_VECTOR_WAIT"
  BY <1>3, Asking, StateNames DEF WaitOf
<1> QED
  BY <1>9, <1>10

-----------------------------------------------------------------------------
(* The edges that lead from one part of an instruction to the next.        *)
LEMMA Goes ==
  ASSUME Edge, state' # "FETCH_REQ"
  PROVE  seen' = seen /\ image' = image /\ coding' = coding
BY EdgeParts

(* Between requests an edge that does not store leaves the memory and the  *)
(* accesses as they are.                                                   *)
LEMMA Inside ==
  ASSUME Edge, state \notin WaitStates, write_req' = None
  PROVE  Mem' = Mem /\ Done' = Done
BY PipeFacts, Still DEF PipeEmpty

LEMMA AddressesOfRam ==
  /\ 0 \in Ram /\ SpCell \in Ram /\ 1..MaxVector \subseteq Ram
  /\ \A a \in Ram : a \notin Devices
BY IsaAssumption, SMT DEF Ram, Devices

(* At an answer from the RAM the word is that of Mem, and nothing was      *)
(* accessed.                                                               *)
LEMMA TakesFromRam ==
  ASSUME Edge, state \in WaitStates, read_data # None, write_req' = None,
         NEW a \in Ram, NEW before \in Seq(Accesses), Carries(a, before)
  PROVE  read_data = Mem[a] /\ Done' = before /\ Mem' = Mem
<1>1. /\ read_data \in Answers(Mem, a) /\ Mem' = Mem
      /\ Done' = before \o ReadAt(a, read_data)
  BY TakesAnswer
<1>2. ReadAt(a, read_data) = << >>
  BY AddressesOfRam DEF ReadAt
<1>3. read_data = Mem[a]
  BY <1>1 DEF Answers
<1> QED
  BY <1>1, <1>2, <1>3, NoAccess

(* The first PR is taken.                                                  *)
LEMMA TakesPr ==
  ASSUME Edge, TakeResetPr, Quiet, write_req' = None, BootPr
  PROVE  state' = "RESET_SP_REQ" /\ seen' = seen /\ BootSp'
<1>1. /\ state = "RESET_PR_WAIT" /\ state \in WaitStates /\ read_data # None
      /\ state' = "RESET_SP_REQ" /\ state' \notin WaitStates /\ pr' = read_data
      /\ gr' = gr /\ sp' = sp /\ fr' = fr /\ error_instruction' = error_instruction
  BY StateNames DEF TakeResetPr, Answered
<1>2. seen' = seen /\ image' = image
  BY <1>1, Goes
<1>3. PICK a \in Ram : a = 0
  BY AddressesOfRam
<1>4. PICK before \in Seq(Accesses) : before = << >>
  BY NoAccesses
<1>5. Carries(a, before)
  BY <1>3, <1>4 DEF BootPr
<1>6. read_data = Mem[a] /\ Done' = before /\ Mem' = Mem
  BY <1>1, <1>5, TakesFromRam
<1>7. BootHeld'
  BY <1>1, <1>2, <1>6 DEF BootPr, BootHeld, AtReset
<1>8. pr' = image'[0]
  BY <1>1, <1>2, <1>3, <1>6 DEF BootPr, BootHeld
<1>9. Done' = << >>
  BY <1>4, <1>6
<1> QED
  BY <1>1, <1>2, <1>7, <1>8, <1>9 DEF BootSp, Carries

(* The instruction word is taken.                                          *)
LEMMA TakesInstruction ==
  ASSUME Edge, SeenTypes, TakeInstruction, write_req' = None, Fetching
  PROVE  /\ state' = "DECODE" /\ seen' = seen
         /\ \E word \in Word : Decoding(word)'
<1>1. /\ state = "FETCH_WAIT" /\ state \in WaitStates /\ read_data # None
      /\ state' = "DECODE" /\ pr' = Wrap(pr + 1) /\ ir' = coding[read_data]
      /\ gr' = gr /\ sp' = sp /\ fr' = fr /\ error_instruction' = error_instruction
  BY StateNames DEF TakeInstruction, Answered
<1>2. seen' = seen /\ coding' = coding
  BY <1>1, Goes
<1>3. PICK word \in Word : word = read_data
  BY <1>1 DEF Edge, BusTypes, Maybe
<1>4. PICK a \in Word : a = pr
  BY DEF Edge, CpuTypes, FileTypes
<1>5. PICK before \in Seq(Accesses) : before = seen.io
  BY DEF SeenTypes
<1>6. Carries(a, before) /\ a = seen.pr
  BY <1>4, <1>5 DEF Fetching
<1>7. read_data \in Answers(Mem, a) /\ Done' = before \o ReadAt(a, read_data) /\ Mem' = Mem
  BY <1>1, <1>6, TakesAnswer
<1>8. word \in Answers(seen'.memory, seen'.pr) /\ Mem' = seen'.memory
  BY <1>2, <1>3, <1>6, <1>7 DEF Fetching
<1>9. Done' = FetchedIo(word)'
  BY <1>2, <1>3, <1>5, <1>6, <1>7 DEF FetchedIo
<1>10. Running' /\ sp' = seen'.sp /\ pr' = Wrap(seen'.pr + 1) /\ ir' = coding'[word]
  BY <1>1, <1>2, <1>3 DEF Fetching, Running
<1>11. Decoding(word)'
  BY <1>8, <1>9, <1>10 DEF Decoding, Fetched
<1> QED
  BY <1>1, <1>2, <1>11

(* The instruction is decoded.                                             *)
LEMMA Decodes ==
  ASSUME Edge, Decode, write_req' = None, NEW word \in Word, Decoding(word)
  PROVE  /\ seen' = seen
         /\ \/ state' = "OPERAND_REQ" /\ OperandOf(word)'
            \/ state' = "EXECUTE" /\ Executing(word, 0)'
<1>1. /\ state = "DECODE" /\ state \notin WaitStates
      /\ state' = IF Long(word) THEN "OPERAND_REQ" ELSE "EXECUTE"
      /\ state' # "FETCH_REQ" /\ state' \notin WaitStates
      /\ UNCHANGED <<fileVars, latchVars>>
  BY StateNames DEF Decode, Decoding, Fetched, Long
<1>2. seen' = seen /\ coding' = coding /\ Mem' = Mem /\ Done' = Done
  BY <1>1, Goes, Inside
<1>3. Long(word)' = Long(word) /\ FetchedIo(word)' = FetchedIo(word)
  BY <1>2 DEF Long, FetchedIo
<1>4. Fetched(word)' /\ Done' = FetchedIo(word)'
  BY <1>1, <1>2, <1>3 DEF Decoding, Fetched, Running, fileVars, latchVars
<1>5. CASE Long(word)
  BY <1>1, <1>2, <1>3, <1>4, <1>5 DEF OperandOf, Carries
<1>6. CASE ~Long(word)
  <2>1. Loaded(word, 0)'
    BY <1>3, <1>4, <1>6 DEF Loaded, Fetched
  <2>2. NextPr(word)' = Wrap(seen'.pr + 1) /\ Before(word, 0)' = FetchedIo(word)'
    BY <1>3, <1>6 DEF NextPr, Before
  <2>3. Executing(word, 0)'
    BY <1>4, <2>1, <2>2 DEF Executing, Fetched
  <2> QED
    BY <1>1, <1>2, <1>6, <2>3
<1> QED
  BY <1>5, <1>6

(* The operand is taken.                                                   *)
LEMMA TakesOperand ==
  ASSUME Edge, SeenTypes, TakeOperand, write_req' = None, NEW word \in Word, OperandOf(word)
  PROVE  /\ state' = "EXECUTE" /\ seen' = seen
         /\ \E given \in Word : Executing(word, given)'
<1>1. /\ state = "OPERAND_WAIT" /\ state \in WaitStates /\ read_data # None
      /\ state' = "EXECUTE" /\ pr' = Wrap(pr + 1) /\ operand' = read_data
      /\ gr' = gr /\ sp' = sp /\ fr' = fr /\ error_instruction' = error_instruction
      /\ ir' = ir
  BY StateNames DEF TakeOperand, Answered
<1>2. seen' = seen /\ coding' = coding
  BY <1>1, Goes
<1>3. PICK given \in Word : given = read_data
  BY <1>1 DEF Edge, BusTypes, Maybe
<1>4. PICK a \in Word : a = pr
  BY DEF Edge, CpuTypes, FileTypes
<1>5. PICK before \in Seq(Accesses) : before = FetchedIo(word)
  BY IoTypesOf
<1>6. Carries(a, before) /\ a = Wrap(seen.pr + 1)
  BY <1>4, <1>5 DEF OperandOf, Fetched
<1>7. read_data \in Answers(Mem, a) /\ Done' = before \o ReadAt(a, read_data) /\ Mem' = Mem
  BY <1>1, <1>6, TakesAnswer
<1>8. Long(word) /\ Long(word)' = Long(word) /\ FetchedIo(word)' = FetchedIo(word)
  BY <1>2 DEF Long, FetchedIo, OperandOf
<1>9. Done' = Before(word, given)'
  BY <1>2, <1>3, <1>5, <1>6, <1>7, <1>8 DEF Before
<1>10. given \in Answers(seen'.memory, Wrap(seen'.pr + 1)) /\ Mem' = seen'.memory
  BY <1>2, <1>3, <1>6, <1>7 DEF OperandOf, Fetched
<1>11. Loaded(word, given)' /\ sp' = seen'.sp
  BY <1>1, <1>2, <1>3, <1>8, <1>10 DEF OperandOf, Fetched, Loaded, Running
<1>12. pr' = NextPr(word)'
  BY <1>1, <1>2, <1>4, <1>6, <1>8 DEF NextPr
<1>13. Executing(word, given)'
  BY <1>9, <1>10, <1>11, <1>12 DEF Executing
<1> QED
  BY <1>1, <1>2, <1>13

-----------------------------------------------------------------------------
(* ST_EXECUTE, and what a store or a supervisor call does after it.        *)
LEMMA FaultsAreStuck == Faults <=> Stuck(ir, Indexed, sp)
BY Zenon DEF Faults, Stuck, StackFull, StackEmpty

(* What an instruction that goes on leaves as it was.                      *)
LEMMA ExecuteKeeps ==
  ASSUME Edge, SeenTypes, Execute, write_req' = None, NEW word, NEW given,
         Executing(word, given), state' # "FETCH_REQ",
         UNCHANGED <<gr, pr, fr, error_instruction>>
  PROVE  /\ seen' = seen /\ Loaded(word, given)' /\ pr' = NextPr(word)'
         /\ Mem' = seen'.memory /\ Done' = Before(word, given)'
         /\ Indexed' = Indexed /\ ir' = ir
<1>1. state = "EXECUTE" /\ state \notin WaitStates /\ UNCHANGED <<ir, operand>>
  BY StateNames DEF Execute
<1>2. seen' = seen /\ image' = image /\ coding' = coding /\ Mem' = Mem /\ Done' = Done
  BY <1>1, Goes, Inside
<1>3. /\ Loaded(word, given)' /\ NextPr(word)' = NextPr(word)
      /\ Before(word, given)' = Before(word, given) /\ Indexed' = Indexed
  BY <1>1, <1>2, LoadedStays DEF Executing
<1> QED
  BY <1>1, <1>2, <1>3 DEF Executing

(* An instruction goes on to read its data.                                *)
LEMMA ReadsData ==
  ASSUME Edge, SeenTypes, Execute, ~Faults, ReadMemory, write_req' = None,
         NEW word \in Word, NEW given \in Word, Executing(word, given)
  PROVE  state' = "MEM_READ_REQ" /\ seen' = seen /\ ReadingData(word, given)'
<1>1. /\ state' = "MEM_READ_REQ" /\ state' # "FETCH_REQ" /\ state' \notin WaitStates
      /\ UNCHANGED <<gr, pr, sp, fr, error_instruction>> /\ dest_reg' = ir.r
  BY StateNames DEF ReadMemory, ReadsFrom, fileVars
<1>2. /\ mem_read_kind' = ir.op
      /\ \/ ir.op \in ArithOps /\ ~ir.reg /\ effective_addr' = Indexed
         \/ ir.op \in {"POP", "RET"} /\ effective_addr' = sp
         \/ ir.op = "SVC" /\ Indexed % SvcSpan = 0 /\ effective_addr' = 0
  BY DEF ReadMemory, ReadsFrom
<1>3. /\ seen' = seen /\ Loaded(word, given)' /\ pr' = NextPr(word)'
      /\ Mem' = seen'.memory /\ Done' = Before(word, given)'
      /\ Indexed' = Indexed /\ ir' = ir
  BY <1>1, ExecuteKeeps
<1>4. sp = seen.sp /\ ~Stuck(ir, Indexed, seen.sp)
  BY FaultsAreStuck DEF Executing
<1>5. /\ ~Stuck(ir', Indexed', seen'.sp) /\ sp' = seen'.sp
      /\ mem_read_kind' = ir'.op /\ dest_reg' = ir'.r
      /\ \/ ir'.op \in ArithOps /\ ~ir'.reg /\ effective_addr' = Indexed'
         \/ ir'.op \in {"POP", "RET"} /\ effective_addr' = seen'.sp
         \/ ir'.op = "SVC" /\ Indexed' % SvcSpan = 0 /\ effective_addr' = 0
  BY Zenon, <1>1, <1>2, <1>3, <1>4
<1>6. ReadingData(word, given)'
  BY <1>1, <1>3, <1>5 DEF ReadingData, Carries
<1> QED
  BY <1>1, <1>3, <1>6

(* A push moves SP down within memory.                                     *)
LEMMA PushMoves ==
  ASSUME SeenTypes, NEW insn, NEW ea, insn.op \in {"PUSH", "CALL"} \/
           (insn.op = "SVC" /\ ea % SvcSpan # 0),
         ~Stuck(insn, ea, seen.sp)
  PROVE  /\ Wrap(seen.sp - 1) = seen.sp - 1 /\ seen.sp - 1 \in Ram /\ seen.sp - 1 \in Word
         /\ seen.sp \in Ram \ {0}
<1>1. ~(seen.sp = 0 \/ seen.sp >= RamTop)
  BY Zenon DEF Stuck
<1>2. seen.sp \in Word /\ Half \in Nat \ {0} /\ RamTop \in 1..2 * Half - 1
  BY IsaAssumption DEF SeenTypes
<1> QED
  BY <1>1, <1>2, SMT DEF Ram, Wrap, Word, Size

(* An instruction goes on to store.                                        *)
LEMMA WritesStore ==
  ASSUME Edge, SeenTypes, Execute, ~Faults, WriteMemory, write_req' = None,
         NEW word \in Word, NEW given \in Word, Executing(word, given)
  PROVE  state' = "MEM_WRITE" /\ seen' = seen /\ Writing(word, given)'
<1>1. /\ state' = "MEM_WRITE" /\ state' # "FETCH_REQ"
      /\ UNCHANGED <<gr, pr, fr, error_instruction>> /\ mem_write_kind' = ir.op
  BY DEF WriteMemory, Pushes, WritesTo
<1>2. /\ seen' = seen /\ Loaded(word, given)' /\ pr' = NextPr(word)'
      /\ Mem' = seen'.memory /\ Done' = Before(word, given)'
      /\ Indexed' = Indexed /\ ir' = ir
  BY <1>1, ExecuteKeeps
<1>3. sp = seen.sp /\ pr = NextPr(word) /\ ~Stuck(ir, Indexed, seen.sp)
  BY FaultsAreStuck DEF Executing
<1>4. \/ /\ ir.op = "ST" /\ effective_addr' = Indexed
         /\ write_word' = gr[ir.r] /\ sp' = seen.sp
      \/ /\ ir.op \in {"PUSH", "CALL", "SVC"} /\ effective_addr' = seen.sp - 1
         /\ write_word' = IF ir.op = "PUSH" THEN Indexed ELSE NextPr(word)
         /\ sp' = seen.sp - 1
         /\ ir.op = "SVC" => Indexed % SvcSpan # 0 /\ svc_vector_addr' = Indexed % SvcSpan
  <2>1. CASE ir.op = "ST"
    BY <1>3, <2>1 DEF WriteMemory, WritesTo
  <2>2. CASE ir.op = "PUSH"
    <3>1. effective_addr' = Wrap(sp - 1) /\ sp' = Wrap(sp - 1) /\ write_word' = Indexed
      BY <2>2 DEF WriteMemory, Pushes, WritesTo
    <3>2. QED
      BY <1>3, <2>2, <3>1, PushMoves
  <2>3. CASE ir.op = "CALL"
    <3>1. effective_addr' = Wrap(sp - 1) /\ sp' = Wrap(sp - 1) /\ write_word' = pr
      BY <2>3 DEF WriteMemory, Pushes, WritesTo
    <3>2. QED
      BY <1>3, <2>3, <3>1, PushMoves
  <2>4. CASE ir.op = "SVC"
    <3>1. /\ effective_addr' = Wrap(sp - 1) /\ sp' = Wrap(sp - 1) /\ write_word' = pr
          /\ Indexed % SvcSpan # 0 /\ svc_vector_addr' = Indexed % SvcSpan
      BY <2>4 DEF WriteMemory, Pushes, WritesTo
    <3>2. Wrap(seen.sp - 1) = seen.sp - 1
      BY <1>3, <2>4, <3>1, PushMoves
    <3>3. QED
      BY <1>3, <2>4, <3>1, <3>2
  <2>5. ir.op \in {"ST", "PUSH", "CALL", "SVC"}
    BY DEF WriteMemory
  <2>6. QED
    BY <2>1, <2>2, <2>3, <2>4, <2>5
<1>5. gr' = gr /\ NextPr(word)' = NextPr(word)
  BY <1>1, <1>2, <1>3
<1>6. /\ ~Stuck(ir', Indexed', seen'.sp)
      /\ mem_write_kind' = ir'.op
      /\ \/ /\ ir'.op = "ST" /\ effective_addr' = Indexed'
            /\ write_word' = gr'[ir'.r] /\ sp' = seen'.sp
         \/ /\ ir'.op \in {"PUSH", "CALL", "SVC"} /\ effective_addr' = seen'.sp - 1
            /\ write_word' = IF ir'.op = "PUSH" THEN Indexed' ELSE NextPr(word)'
            /\ sp' = seen'.sp - 1
            /\ ir'.op = "SVC" =>
                 Indexed' % SvcSpan # 0 /\ svc_vector_addr' = Indexed' % SvcSpan
  BY Zenon, <1>1, <1>2, <1>3, <1>4, <1>5
<1>7. Writing(word, given)'
  BY <1>2, <1>6 DEF Writing
<1> QED
  BY <1>1, <1>2, <1>7

(* SVC 0 has its PR and reads SP.                                          *)
LEMMA TakesSvc0 ==
  ASSUME Edge, SeenTypes, TakeData, TakeSvc0, write_req' = None,
         NEW word \in Word, NEW given \in Word, ReadingData(word, given)
  PROVE  state' = "SVC0_SP_REQ" /\ seen' = seen /\ ReadingSp(word, given)'
<1>1. /\ state = "MEM_READ_WAIT" /\ state \in WaitStates /\ read_data # None
      /\ mem_read_kind = "SVC" /\ pr' = read_data
      /\ state' = IF effective_addr = 0 THEN "SVC0_SP_REQ" ELSE "FETCH_REQ"
      /\ gr' = gr /\ sp' = sp /\ fr' = fr /\ error_instruction' = error_instruction
      /\ ir' = ir /\ operand' = operand
  BY StateNames DEF TakeData, TakeSvc0, Answered, latchVars
<1>2. ir.op = "SVC" /\ Indexed % SvcSpan = 0 /\ effective_addr = 0
  BY <1>1, OpNames DEF ReadingData
<1>3. state' = "SVC0_SP_REQ" /\ state' \notin WaitStates
  BY <1>1, <1>2, StateNames
<1>4. seen' = seen /\ image' = image /\ coding' = coding
  BY <1>3, Goes
<1>5. PICK a \in Ram : a = effective_addr
  BY <1>2, AddressesOfRam
<1>6. PICK before \in Seq(Accesses) : before = Before(word, given)
  BY IoTypesOf
<1>7. Carries(a, before)
  BY <1>5, <1>6 DEF ReadingData
<1>8. read_data = Mem[a] /\ Done' = before /\ Mem' = Mem
  BY <1>1, <1>7, TakesFromRam
<1>9. /\ Loaded(word, given)'
      /\ Before(word, given)' = Before(word, given) /\ Indexed' = Indexed
  BY <1>1, <1>4, LoadedStays DEF ReadingData
<1>10. /\ pr' = seen'.memory[0] /\ sp' = seen'.sp /\ Mem' = seen'.memory
       /\ Done' = Before(word, given)'
  BY <1>1, <1>2, <1>4, <1>5, <1>6, <1>8, <1>9 DEF ReadingData
<1>11. ~Stuck(ir', Indexed', seen'.sp) /\ ir'.op = "SVC" /\ Indexed' % SvcSpan = 0
  BY Zenon, <1>1, <1>2, <1>4, <1>9 DEF ReadingData
<1>12. ReadingSp(word, given)'
  BY <1>3, <1>9, <1>10, <1>11 DEF ReadingSp, Carries
<1> QED
  BY <1>3, <1>4, <1>12

(* A store leaves the CPU.                                                 *)
LEMMA StoreLeaves ==
  ASSUME Edge, SeenTypes, MemWrite, NEW before, Done = before
  PROVE  /\ effective_addr \in Ram =>
              /\ Mem' = [Mem EXCEPT ![effective_addr] = write_word]
              /\ Done' = before
         /\ effective_addr \notin Ram => Mem' = Mem
         /\ effective_addr \notin Ram /\ effective_addr \notin Devices => Done' = before
         /\ effective_addr \in Devices =>
              Done' = before \o
                <<[kind |-> "write", addr |-> effective_addr, word |-> write_word]>>
<1>1. /\ write_req' = [addr |-> effective_addr, word |-> write_word]
      /\ effective_addr \in Word /\ write_word \in Word
      /\ state = "MEM_WRITE" /\ state \notin WaitStates
  BY StateNames DEF MemWrite, Edge, CpuTypes, EffectTypes
<1>2. write_req' # None
  <2>1. write_req' \in [addr : Word, word : Word]
    BY <1>1
  <2>2. QED
    BY <2>1, CpuAssumption
<1>3. write_req'.addr = effective_addr /\ write_req'.word = write_word
  BY <1>1
<1>4. device_rd = None
  BY <1>1, DeviceAlone
<1>5. Mem' = Landed(Mem, write_req') /\ Done' = before \o Written(write_req')
  BY <1>4, MemMoves, IoMoves
<1>6. /\ effective_addr \in Ram => Mem' = [Mem EXCEPT ![effective_addr] = write_word]
      /\ effective_addr \notin Ram => Mem' = Mem
  BY <1>2, <1>3, <1>5 DEF Landed
<1>7. before \in Seq(Accesses)
  BY DoneType DEF Edge
<1>8. effective_addr \notin Devices => Done' = before
  <2>1. effective_addr \notin Devices => Written(write_req') = << >>
    BY <1>3 DEF Written
  <2>2. QED
    BY <1>5, <1>7, <2>1, NoAccess
<1>9. effective_addr \in Devices =>
        Done' = before \o <<[kind |-> "write", addr |-> effective_addr, word |-> write_word]>>
  BY <1>2, <1>3, <1>5 DEF Written
<1> QED
  BY <1>6, <1>8, <1>9, AddressesOfRam

(* SVC has stored its return address and reads its vector.                 *)
LEMMA CallsVector ==
  ASSUME Edge, SeenTypes, MemWrite, ir.op = "SVC",
         NEW word \in Word, NEW given \in Word, Writing(word, given)
  PROVE  state' = "SVC_VECTOR_REQ" /\ seen' = seen /\ ReadingVector(word, given)'
<1>1. /\ mem_write_kind = "SVC" /\ effective_addr = seen.sp - 1 /\ sp = seen.sp - 1
      /\ write_word = NextPr(word)
      /\ Indexed % SvcSpan # 0 /\ svc_vector_addr = Indexed % SvcSpan
  BY DEF Writing
<1>2. /\ state' = "SVC_VECTOR_REQ" /\ state' \notin WaitStates /\ state' # "FETCH_REQ"
      /\ gr' = gr /\ sp' = sp /\ fr' = fr /\ error_instruction' = error_instruction
      /\ ir' = ir /\ operand' = operand /\ svc_vector_addr' = svc_vector_addr
  BY <1>1, StateNames DEF MemWrite, latchVars
<1>3. seen' = seen /\ image' = image /\ coding' = coding
  BY <1>2, Goes
<1>4. effective_addr \in Ram
  BY <1>1, PushMoves DEF Writing
<1>5. PICK before \in Seq(Accesses) : before = Before(word, given)
  BY IoTypesOf
<1>6. Mem' = [Mem EXCEPT ![effective_addr] = write_word] /\ Done' = before
  BY <1>4, <1>5, StoreLeaves DEF Writing
<1>7. /\ Loaded(word, given)' /\ NextPr(word)' = NextPr(word)
      /\ Before(word, given)' = Before(word, given) /\ Indexed' = Indexed
  BY <1>2, <1>3, LoadedStays DEF Writing
<1>8. /\ ~Stuck(ir', Indexed', seen'.sp)
      /\ ir'.op = "SVC" /\ Indexed' % SvcSpan # 0
      /\ svc_vector_addr' = Indexed' % SvcSpan
      /\ sp' = seen'.sp - 1
  BY Zenon, <1>1, <1>2, <1>3, <1>7 DEF Writing
<1>9. Mem' = [seen'.memory EXCEPT ![seen'.sp - 1] = NextPr(word)']
  BY <1>1, <1>3, <1>6, <1>7 DEF Writing
<1>10. Done' = Before(word, given)'
  BY <1>5, <1>6, <1>7
<1>11. ReadingVector(word, given)'
  BY <1>2, <1>7, <1>8, <1>9, <1>10 DEF ReadingVector, Carries
<1> QED
  BY <1>2, <1>3, <1>11

-----------------------------------------------------------------------------
(* The edges at which an instruction ends are the steps of Comet2.         *)
LEMMA Ended ==
  ASSUME Edge, state' = "FETCH_REQ"
  PROVE  /\ seen'.phase = "run"
         /\ seen'.gr = gr' /\ seen'.pr = pr' /\ seen'.sp = sp' /\ seen'.fr = fr'
         /\ seen'.error = error_instruction'
         /\ seen'.memory = Mem' /\ seen'.io = Done'
         /\ image' = image /\ coding' = coding
         /\ Fetching'
<1>1. seen' = Boundary /\ image' = image /\ coding' = coding
  BY EdgeParts
<1>2. /\ seen'.phase = "run"
      /\ seen'.gr = gr' /\ seen'.pr = pr' /\ seen'.sp = sp' /\ seen'.fr = fr'
      /\ seen'.error = error_instruction'
      /\ seen'.memory = Landed(Landed(memory', memory_wr'), write_req')
      /\ seen'.io = io' \o Written(device_wr') \o Written(write_req')
  BY <1>1 DEF Boundary
<1>3. seen'.memory = Mem' /\ seen'.io = Done'
  BY <1>2 DEF Mem, Done
<1>4. state' \notin WaitStates
  BY StateNames
<1>5. Fetching'
  BY <1>2, <1>3, <1>4 DEF Fetching, Running, Carries
<1> QED
  BY <1>1, <1>2, <1>3, <1>5

(* The instruction in Comet2's terms.                                      *)
Meaning(word, given, insn, ea, next, before) ==
  /\ insn = coding[word]
  /\ ea = indexed_addr(seen.gr, given, insn.x)
  /\ next = NextPr(word)
  /\ before = Before(word, given)

(* The faults of the CPU are the ones of Comet2.                           *)
LEMMA StuckIsIllegal ==
  ASSUME SeenTypes, NEW insn, NEW ea
  PROVE  Machine!Illegal(insn, ea) <=> Stuck(insn, ea, seen.sp)
<1>1. Machine!CanPush <=> ~(seen.sp = 0 \/ seen.sp >= RamTop)
  BY SameWords, IsaAssumption, SMT DEF Machine!CanPush, SeenTypes, Ram, Word, Size
<1>2. Machine!CanPop <=> ~(seen.sp >= RamTop)
  BY IsaAssumption, SMT DEF Machine!CanPop, SeenTypes, Word, Size
<1>3. Machine!BadField(insn) <=> BadField(insn)
  BY SameFormats
<1> QED
  BY Zenon, <1>1, <1>2, <1>3 DEF Machine!Illegal, Stuck

(* A step of Comet2, from what it fetches, is given and reads.             *)
LEMMA StepOf ==
  ASSUME Edge, SeenTypes, state' = "FETCH_REQ",
         NEW word \in Word, NEW given \in Word, Loaded(word, given),
         NEW insn, NEW ea, NEW next, NEW before, Meaning(word, given, insn, ea, next, before),
         IF Stuck(insn, ea, seen.sp) THEN Machine!Fault(next, before)
         ELSE Machine!Execute(insn, ea, next, before)
  PROVE  Machine!Next
<1>1. /\ word \in Machine!Answer(seen.pr)
      /\ given \in IF Long(word) THEN Machine!Answer(Machine!Wrap(seen.pr + 1)) ELSE {0}
  BY SameWords DEF Loaded, Answers, Machine!Answer
<1>2. /\ Machine!is_two_word_instruction(coding[word]) <=> Long(word)
      /\ Machine!is_two_word_instruction(insn) <=> Long(word)
  BY SameFormats DEF Long, Meaning
<1>3. next = Machine!Wrap(IF Long(word) THEN Machine!Wrap(seen.pr + 1) + 1 ELSE seen.pr + 1)
  BY SameWords DEF Meaning, NextPr
<1>4. before = seen.io \o Machine!Read(seen.pr, word)
                 \o (IF Long(word) THEN Machine!Read(Machine!Wrap(seen.pr + 1), given)
                     ELSE << >>)
  <2>1. /\ Machine!Read(seen.pr, word) = ReadAt(seen.pr, word)
        /\ Machine!Read(Machine!Wrap(seen.pr + 1), given) = ReadAt(Wrap(seen.pr + 1), given)
    BY SameWords DEF Machine!Read, ReadAt
  <2>2. FetchedIo(word) \in Seq(Accesses)
    BY IoTypesOf
  <2>3. FetchedIo(word) = FetchedIo(word) \o << >>
    BY <2>2, NoAccess
  <2>4. CASE Long(word)
    BY <2>1, <2>4 DEF Meaning, Before, FetchedIo
  <2>5. CASE ~Long(word)
    BY <2>1, <2>3, <2>5 DEF Meaning, Before, FetchedIo
  <2> QED
    BY <2>4, <2>5
<1>5. ea = Machine!indexed_addr(seen.gr, given, insn.x)
  BY SameWords DEF Meaning
<1>6. IF Machine!Illegal(insn, ea) THEN Machine!Fault(next, before)
      ELSE Machine!Execute(insn, ea, next, before)
  BY StuckIsIllegal
<1>7. seen.phase = "run" /\ seen'.phase = seen.phase /\ image' = image /\ coding' = coding
  BY Ended DEF Loaded, Running
<1>8. insn = coding[word]
  BY DEF Meaning
<1>9. Machine!Step
  BY <1>1, <1>2, <1>3, <1>4, <1>5, <1>6, <1>7, <1>8 DEF Machine!Step
<1> QED
  BY <1>9 DEF Machine!Next

(* The operand, and the faults, are those of the CPU.                      *)
LEMMA MeaningOf ==
  ASSUME NEW word, NEW given, Loaded(word, given),
         NEW insn, NEW ea, NEW next, NEW before, Meaning(word, given, insn, ea, next, before)
  PROVE  /\ insn = ir
         /\ is_two_word_instruction(insn) => ea = Indexed
         /\ \A top : Stuck(insn, ea, top) <=> Stuck(ir, Indexed, top)
<1>1. insn = ir
  BY DEF Loaded, Meaning
<1>2. is_two_word_instruction(insn) => ea = Indexed
  BY <1>1 DEF Loaded, Meaning, Running, Long, Indexed
<1>3. insn.op = "SVC" => is_two_word_instruction(insn)
  BY DEF is_two_word_instruction
<1>4. ASSUME NEW top PROVE Stuck(insn, ea, top) <=> Stuck(ir, Indexed, top)
  BY Zenon, <1>1, <1>2, <1>3 DEF Stuck
<1> QED
  BY <1>1, <1>2, <1>4

(* An instruction ends in a fault.                                         *)
LEMMA EndsFault ==
  ASSUME Edge, SeenTypes, Execute, FaultInstruction, write_req' = None,
         NEW word \in Word, NEW given \in Word, Executing(word, given)
  PROVE  state' = "FETCH_REQ" /\ Machine!Next
<1>1. /\ state' = "FETCH_REQ" /\ error_instruction' = TRUE
      /\ gr' = gr /\ pr' = pr /\ sp' = sp /\ fr' = fr
      /\ state = "EXECUTE" /\ state \notin WaitStates
  BY StateNames DEF FaultInstruction, Execute
<1>2. Mem' = Mem /\ Done' = Done
  BY <1>1, Inside
<1>3. PICK insn, ea, next, before : Meaning(word, given, insn, ea, next, before)
  BY DEF Meaning
<1>4. Stuck(insn, ea, seen.sp)
  BY <1>3, MeaningOf, FaultsAreStuck DEF FaultInstruction, Executing
<1>5. next = pr /\ before = Done
  BY <1>3 DEF Meaning, Executing
<1>6. Machine!Fault(next, before)
  BY <1>1, <1>2, <1>5, Ended DEF Machine!Fault, Machine!Only, Executing, Loaded, Running
<1>7. Machine!Next
  BY <1>1, <1>3, <1>4, <1>6, StepOf DEF Executing
<1> QED
  BY <1>1, <1>7

(* The instructions that end in ST_EXECUTE.                                *)
LEMMA EndsHere ==
  ASSUME Edge, SeenTypes, Execute, write_req' = None,
         NEW word \in Word, NEW given \in Word, Executing(word, given),
         NEW insn, NEW ea, NEW next, NEW before, Meaning(word, given, insn, ea, next, before),
         NEW reg, NEW flags, NEW to, Ends(reg, flags, to)
  PROVE  /\ state' = "FETCH_REQ" /\ insn = ir
         /\ gr = seen.gr /\ fr = seen.fr /\ pr = next
         /\ seen'.gr = reg /\ seen'.fr = flags /\ seen'.pr = to /\ seen'.sp = seen.sp
         /\ seen'.error = seen.error /\ seen'.memory = seen.memory /\ seen'.io = before
<1>1. /\ state' = "FETCH_REQ" /\ error_instruction' = error_instruction
      /\ gr' = reg /\ pr' = to /\ sp' = sp /\ fr' = flags
      /\ state = "EXECUTE" /\ state \notin WaitStates
  BY StateNames DEF Ends, Execute
<1>2. Mem' = Mem /\ Done' = Done
  BY <1>1, Inside
<1>3. insn = ir
  BY MeaningOf DEF Executing
<1>4. next = pr /\ before = Done
  BY DEF Meaning, Executing
<1> QED
  BY <1>1, <1>2, <1>3, <1>4, Ended DEF Executing, Loaded, Running

(* The fields of an instruction that is not a fault.                       *)
LEMMA FieldsOf ==
  ASSUME NEW insn, NEW ea, NEW top, ~Stuck(insn, ea, top)
  PROVE  /\ insn.op \in ArithOps \cup Shifts \cup {"LAD", "ST", "POP"} => insn.r \in Regs
         /\ insn.op \in ArithOps => insn.x \in Regs
<1>1. ArithOps \subseteq Ops \ {"NOP", "POP", "RET", "undefined"}
  BY DEF Ops, ArithOps, Compares
<1>2. insn.op \in ArithOps \cup Shifts \cup {"LAD", "ST", "POP"} => uses_r_field(insn)
  BY DEF uses_r_field
<1>3. insn.op \in ArithOps => uses_x_field(insn)
  BY <1>1 DEF uses_x_field
<1> QED
  BY Zenon, <1>2, <1>3 DEF Stuck, BadField

(* An operation of two words, wherever the second comes from.              *)
LEMMA Computes ==
  ASSUME NEW insn, NEW ea, NEW next, NEW before, NEW b,
         insn.op \in ArithOps, seen.gr[insn.r] \in Word, b \in Word,
         b \in IF insn.reg THEN {seen.gr[insn.x]} ELSE Answers(seen.memory, ea),
         seen'.gr = IF insn.op \in Compares THEN seen.gr
                    ELSE [seen.gr EXCEPT ![insn.r] = AluResult(insn.op, seen.gr[insn.r], b)],
         seen'.fr = set_fr(AluResult(insn.op, seen.gr[insn.r], b),
                           AluOverflow(insn.op, seen.gr[insn.r], b)),
         seen'.io = before \o (IF insn.reg THEN << >> ELSE ReadAt(ea, b)),
         seen'.pr = next, seen'.sp = seen.sp, seen'.memory = seen.memory,
         seen'.error = seen.error
  PROVE  Machine!Execute(insn, ea, next, before)
<1>1. /\ Machine!Value(insn.op, seen.gr[insn.r], b) = AluResult(insn.op, seen.gr[insn.r], b)
      /\ Machine!Overflow(insn.op, seen.gr[insn.r], b)
           = AluOverflow(insn.op, seen.gr[insn.r], b)
  BY SameResults, SameOverflow
<1>2. b \in IF insn.reg THEN {seen.gr[insn.x]} ELSE Machine!Answer(ea)
  BY SameWords DEF Answers, Machine!Answer
<1>3. Machine!Read(ea, b) = ReadAt(ea, b)
  BY SameWords DEF Machine!Read, ReadAt
<1>4. seen'.fr = Machine!FlagsOf(AluResult(insn.op, seen.gr[insn.r], b),
                                 AluOverflow(insn.op, seen.gr[insn.r], b))
  BY SameFlags
<1>5. Machine!Compute(insn, ea, next, before)
  BY <1>1, <1>2, <1>3, <1>4, SameFormats DEF Machine!Compute
<1> QED
  BY <1>5, SameFormats DEF Machine!Execute

(* An instruction between registers ends.                                  *)
LEMMA EndsRegisters ==
  ASSUME Edge, SeenTypes, Execute, ~Faults, write_req' = None,
         NEW word \in Word, NEW given \in Word, Executing(word, given),
         NEW insn, NEW ea, NEW next, NEW before, Meaning(word, given, insn, ea, next, before),
         ir.op \in ArithOps, ir.reg,
         LET done == Operate(ir.op, gr[ir.r], gr[ir.x], ir.r) IN Ends(done.gr, done.fr, pr)
  PROVE  state' = "FETCH_REQ" /\ Machine!Execute(insn, ea, next, before)
<1> DEFINE done == Operate(ir.op, gr[ir.r], gr[ir.x], ir.r)
<1>1. done.gr = IF ir.op \in Compares THEN gr
                ELSE [gr EXCEPT ![ir.r] = AluResult(ir.op, gr[ir.r], gr[ir.x])]
  BY DEF Operate
<1>2. done.fr = set_fr(AluResult(ir.op, gr[ir.r], gr[ir.x]),
                       AluOverflow(ir.op, gr[ir.r], gr[ir.x]))
  BY DEF Operate
<1>3. Ends(done.gr, done.fr, pr)
  OBVIOUS
<1> HIDE DEF done
<1>4. /\ state' = "FETCH_REQ" /\ insn = ir
      /\ gr = seen.gr /\ fr = seen.fr /\ pr = next
      /\ seen'.gr = done.gr /\ seen'.fr = done.fr /\ seen'.pr = pr /\ seen'.sp = seen.sp
      /\ seen'.error = seen.error /\ seen'.memory = seen.memory /\ seen'.io = before
  BY <1>3, EndsHere
<1>5. insn.r \in Regs /\ insn.x \in Regs
  BY <1>4, FieldsOf, FaultsAreStuck
<1>6. seen.gr[insn.r] \in Word /\ seen.gr[insn.x] \in Word
  BY <1>5 DEF SeenTypes
<1>7. before = before \o << >>
  BY IoTypesOf, NoAccess DEF Meaning
<1>8. PICK b : b = gr[ir.x]
  OBVIOUS
<1>9. Machine!Execute(insn, ea, next, before)
  BY <1>1, <1>2, <1>4, <1>6, <1>7, <1>8, Computes
<1> QED
  BY <1>4, <1>9

(* A shift ends.                                                           *)
LEMMA EndsShift ==
  ASSUME ResultsAreWords, ShiftsAgree, Edge, SeenTypes, Execute, ~Faults, write_req' = None,
         NEW word \in Word, NEW given \in Word, Executing(word, given),
         NEW insn, NEW ea, NEW next, NEW before, Meaning(word, given, insn, ea, next, before),
         ir.op \in Shifts,
         LET result == ShiftResult(ir.op, gr[ir.r], Indexed)
         IN  Ends([gr EXCEPT ![ir.r] = result],
                  set_fr(result, ShiftOverflow(ir.op, gr[ir.r], Indexed)), pr)
  PROVE  state' = "FETCH_REQ" /\ Machine!Execute(insn, ea, next, before)
<1> DEFINE result == ShiftResult(ir.op, gr[ir.r], Indexed)
           over   == ShiftOverflow(ir.op, gr[ir.r], Indexed)
<1>1. Ends([gr EXCEPT ![ir.r] = result], set_fr(result, over), pr)
  OBVIOUS
<1>2. /\ state' = "FETCH_REQ" /\ insn = ir
      /\ gr = seen.gr /\ fr = seen.fr /\ pr = next
      /\ seen'.gr = [gr EXCEPT ![ir.r] = result] /\ seen'.fr = set_fr(result, over)
      /\ seen'.pr = pr /\ seen'.sp = seen.sp
      /\ seen'.error = seen.error /\ seen'.memory = seen.memory /\ seen'.io = before
  BY <1>1, EndsHere
<1>3. gr[ir.r] \in Word /\ Indexed \in Word
  BY <1>2, FieldsOf, FaultsAreStuck, AddressType DEF SeenTypes, Edge
<1>4. ea = Indexed
  BY <1>2, MeaningOf DEF Executing, is_two_word_instruction
<1> DEFINE shifted == Machine!Shifted(ir.op, gr[ir.r], Indexed)
<1>5. shifted.value = result /\ ((shifted.out = 1) <=> over)
  BY <1>3 DEF ShiftsAgree
<1>6. over \in BOOLEAN
  BY <1>3, ShiftType
<1> HIDE DEF result, over
<1>7. (shifted.out = 1) = over
  BY <1>5, <1>6
<1>8. Machine!FlagsOf(shifted.value, shifted.out = 1) = set_fr(result, over)
  BY Zenon, <1>5, <1>7, SameFlags
<1>9. shifted = Machine!Shifted(insn.op, seen.gr[insn.r], ea)
  BY <1>2, <1>4
<1> HIDE DEF shifted
<1>10. Machine!Shift(insn, ea, next, before)
  BY <1>2, <1>5, <1>8, <1>9 DEF Machine!Shift
<1>11. Machine!Execute(insn, ea, next, before)
  BY <1>2, <1>10, SameFormats DEF Machine!Execute
<1> QED
  BY <1>2, <1>11

(* Both jump under the same conditions.                                    *)
LEMMA SameJumps ==
  ASSUME NEW op \in Jumps, ir.op = op, fr = seen.fr
  PROVE  Branches <=> Machine!Jump(op)
<1>1. CASE op = "JUMP"
  BY Zenon, <1>1 DEF Branches, Machine!Jump
<1>2. CASE op = "JMI"
  BY Zenon, <1>2 DEF Branches, Machine!Jump
<1>3. CASE op = "JNZ"
  BY Zenon, <1>3 DEF Branches, Machine!Jump
<1>4. CASE op = "JZE"
  BY Zenon, <1>4 DEF Branches, Machine!Jump
<1>5. CASE op = "JPL"
  BY Zenon, <1>5 DEF Branches, Machine!Jump
<1>6. CASE op = "JOV"
  BY Zenon, <1>6 DEF Branches, Machine!Jump
<1> QED
  BY <1>1, <1>2, <1>3, <1>4, <1>5, <1>6 DEF Jumps

(* Every instruction that ends in EXECUTE is a step of Comet2.             *)
LEMMA EndsInExecute ==
  ASSUME ResultsAreWords, ShiftsAgree, Edge, SeenTypes, Execute, ~Faults, EndHere,
         write_req' = None, NEW word \in Word, NEW given \in Word, Executing(word, given)
  PROVE  state' = "FETCH_REQ" /\ Machine!Next
<1>1. PICK insn, ea, next, before : Meaning(word, given, insn, ea, next, before)
  BY DEF Meaning
<1>2. insn = ir /\ (is_two_word_instruction(insn) => ea = Indexed)
  BY <1>1, MeaningOf DEF Executing
<1>3. ASSUME state' = "FETCH_REQ", Machine!Execute(insn, ea, next, before)
      PROVE  Machine!Next
  <2>1. ~Stuck(insn, ea, seen.sp)
    BY <1>1, MeaningOf, FaultsAreStuck DEF Executing
  <2> QED
    BY <1>1, <1>3, <2>1, StepOf DEF Executing
<1>4. CASE ir.op = "NOP" /\ Ends(gr, fr, pr)
  <2>1. /\ state' = "FETCH_REQ" /\ insn = ir
        /\ gr = seen.gr /\ fr = seen.fr /\ pr = next
        /\ seen'.gr = gr /\ seen'.fr = fr /\ seen'.pr = pr /\ seen'.sp = seen.sp
        /\ seen'.error = seen.error /\ seen'.memory = seen.memory /\ seen'.io = before
    BY <1>1, <1>4, EndsHere
  <2>2. Machine!Execute(insn, ea, next, before)
    BY <1>4, <2>1 DEF Machine!Execute, Machine!Only
  <2> QED
    BY <1>3, <2>1, <2>2
<1>5. CASE ir.op = "LAD" /\ Ends([gr EXCEPT ![ir.r] = Indexed], fr, pr)
  <2>1. ea = Indexed
    BY <1>2, <1>5 DEF is_two_word_instruction
  <2>2. /\ state' = "FETCH_REQ" /\ insn = ir
        /\ gr = seen.gr /\ fr = seen.fr /\ pr = next
        /\ seen'.gr = [gr EXCEPT ![ir.r] = Indexed] /\ seen'.fr = fr
        /\ seen'.pr = pr /\ seen'.sp = seen.sp
        /\ seen'.error = seen.error /\ seen'.memory = seen.memory /\ seen'.io = before
    BY <1>1, <1>5, EndsHere
  <2>3. Machine!Execute(insn, ea, next, before)
    BY <1>5, <2>1, <2>2 DEF Machine!Execute
  <2> QED
    BY <1>3, <2>2, <2>3
<1>6. CASE /\ ir.op \in ArithOps /\ ir.reg
           /\ LET done == Operate(ir.op, gr[ir.r], gr[ir.x], ir.r) IN Ends(done.gr, done.fr, pr)
  BY <1>1, <1>3, <1>6, EndsRegisters
<1>7. CASE /\ ir.op \in Shifts
           /\ LET result == ShiftResult(ir.op, gr[ir.r], Indexed)
              IN  Ends([gr EXCEPT ![ir.r] = result],
                       set_fr(result, ShiftOverflow(ir.op, gr[ir.r], Indexed)), pr)
  BY <1>1, <1>3, <1>7, EndsShift
<1>8. CASE ir.op \in Jumps /\ Ends(gr, fr, IF Branches THEN Indexed ELSE pr)
  <2>1. ea = Indexed
    BY <1>2, <1>8 DEF is_two_word_instruction
  <2> DEFINE to == IF Branches THEN Indexed ELSE pr
  <2>2. Ends(gr, fr, to)
    BY <1>8
  <2> HIDE DEF to
  <2>3. /\ state' = "FETCH_REQ" /\ insn = ir
        /\ gr = seen.gr /\ fr = seen.fr /\ pr = next
        /\ seen'.gr = gr /\ seen'.fr = fr /\ seen'.pr = to /\ seen'.sp = seen.sp
        /\ seen'.error = seen.error /\ seen'.memory = seen.memory /\ seen'.io = before
    BY <1>1, <2>2, EndsHere
  <2>4. Branches <=> Machine!Jump(insn.op)
    BY <1>8, <2>3, SameJumps
  <2>5. seen'.pr = IF Machine!Jump(insn.op) THEN ea ELSE next
    BY <2>1, <2>3, <2>4 DEF to
  <2>6. Machine!Execute(insn, ea, next, before)
    BY <1>8, <2>3, <2>5, SameFormats DEF Machine!Execute, Machine!Only
  <2> QED
    BY <1>3, <2>3, <2>6
<1> QED
  BY <1>4, <1>5, <1>6, <1>7, <1>8 DEF EndHere

(* The instructions that read their data.                                  *)
LEMMA EndsData ==
  ASSUME Edge, SeenTypes, TakeData, ~TakeSvc0, write_req' = None,
         NEW word \in Word, NEW given \in Word, ReadingData(word, given),
         NEW insn, NEW ea, NEW next, NEW before, Meaning(word, given, insn, ea, next, before)
  PROVE  /\ state' = "FETCH_REQ" /\ insn = ir /\ mem_read_kind = insn.op /\ dest_reg = insn.r
         /\ TakeArith \/ TakePop
         /\ gr = seen.gr /\ fr = seen.fr /\ pr = next /\ sp = seen.sp
         /\ seen'.gr = gr' /\ seen'.fr = fr' /\ seen'.pr = pr' /\ seen'.sp = sp'
         /\ seen'.error = seen.error /\ seen'.memory = seen.memory
         /\ read_data \in Word
         /\ read_data \in Answers(seen.memory, effective_addr)
         /\ seen'.io = before \o ReadAt(effective_addr, read_data)
<1>1. /\ state' = "FETCH_REQ"
      /\ TakeArith \/ TakePop
      /\ state = "MEM_READ_WAIT" /\ state \in WaitStates /\ read_data # None
      /\ error_instruction' = error_instruction
  BY StateNames DEF TakeData, TakeArith, TakePop, Answered
<1>2. read_data \in Word
  BY <1>1 DEF Edge, BusTypes, Maybe
<1>3. PICK a : a = effective_addr
  OBVIOUS
<1>4. before = Before(word, given)
  BY DEF Meaning
<1>5. Carries(a, before)
  BY <1>3, <1>4 DEF ReadingData
<1>6. read_data \in Answers(Mem, a) /\ Done' = before \o ReadAt(a, read_data) /\ Mem' = Mem
  BY <1>1, <1>5, TakesAnswer
<1>7. insn = ir /\ next = pr
  BY MeaningOf DEF ReadingData, Meaning
<1>8. /\ mem_read_kind = ir.op /\ dest_reg = ir.r /\ sp = seen.sp /\ Mem = seen.memory
      /\ gr = seen.gr /\ fr = seen.fr /\ error_instruction = seen.error
  BY DEF ReadingData, Loaded, Running
<1>9. /\ seen'.gr = gr' /\ seen'.fr = fr' /\ seen'.pr = pr' /\ seen'.sp = sp'
      /\ seen'.error = error_instruction' /\ seen'.memory = Mem' /\ seen'.io = Done'
  BY <1>1, Ended
<1>10. /\ seen'.error = seen.error /\ seen'.memory = seen.memory
       /\ read_data \in Answers(seen.memory, effective_addr)
       /\ seen'.io = before \o ReadAt(effective_addr, read_data)
  BY <1>1, <1>3, <1>6, <1>8, <1>9
<1> QED
  BY <1>1, <1>2, <1>7, <1>8, <1>9, <1>10

(* So is every one that ends with its data,                                *)
LEMMA EndsTaking ==
  ASSUME Edge, SeenTypes, TakeData, ~TakeSvc0, write_req' = None,
         NEW word \in Word, NEW given \in Word, ReadingData(word, given)
  PROVE  state' = "FETCH_REQ" /\ Machine!Next
<1>1. PICK insn, ea, next, before : Meaning(word, given, insn, ea, next, before)
  BY DEF Meaning
<1>2. /\ state' = "FETCH_REQ" /\ insn = ir /\ mem_read_kind = insn.op /\ dest_reg = insn.r
      /\ TakeArith \/ TakePop
      /\ gr = seen.gr /\ fr = seen.fr /\ pr = next /\ sp = seen.sp
      /\ seen'.gr = gr' /\ seen'.fr = fr' /\ seen'.pr = pr' /\ seen'.sp = sp'
      /\ seen'.error = seen.error /\ seen'.memory = seen.memory
      /\ read_data \in Word
      /\ read_data \in Answers(seen.memory, effective_addr)
      /\ seen'.io = before \o ReadAt(effective_addr, read_data)
  BY <1>1, EndsData
<1>3. ~Stuck(insn, ea, seen.sp)
  BY <1>1, MeaningOf DEF ReadingData
<1>4. CASE TakeArith
  <2>1. /\ insn.op \in ArithOps
        /\ gr' = Operate(insn.op, gr[insn.r], read_data, insn.r).gr
        /\ fr' = Operate(insn.op, gr[insn.r], read_data, insn.r).fr
        /\ pr' = pr /\ sp' = sp
    BY <1>2, <1>4 DEF TakeArith
  <2>2. /\ gr' = IF insn.op \in Compares THEN seen.gr
                 ELSE [seen.gr EXCEPT ![insn.r] =
                         AluResult(insn.op, seen.gr[insn.r], read_data)]
        /\ fr' = set_fr(AluResult(insn.op, seen.gr[insn.r], read_data),
                        AluOverflow(insn.op, seen.gr[insn.r], read_data))
    BY <1>2, <2>1 DEF Operate
  <2>3. ~insn.reg /\ effective_addr = Indexed
    BY <1>2, <2>1, OpNames DEF ReadingData
  <2>4. ea = Indexed
    BY <1>1, <1>2, <2>1, <2>3, MeaningOf DEF ReadingData, is_two_word_instruction
  <2>5. seen.gr[insn.r] \in Word
    BY <1>3, <2>1, FieldsOf DEF SeenTypes
  <2>6. PICK b \in Word : b = read_data
    BY <1>2
  <2>7. Machine!Execute(insn, ea, next, before)
    BY <1>2, <2>1, <2>2, <2>3, <2>4, <2>5, <2>6, Computes
  <2>8. QED
    BY <1>1, <1>2, <1>3, <2>7, StepOf DEF ReadingData
<1>5. CASE TakePop
  <2>1. /\ insn.op \in {"POP", "RET"}
        /\ gr' = IF insn.op = "POP" THEN [gr EXCEPT ![insn.r] = read_data] ELSE gr
        /\ pr' = IF insn.op = "RET" THEN read_data ELSE pr
        /\ sp' = Wrap(sp + 1) /\ fr' = fr
    BY <1>2, <1>5 DEF TakePop
  <2>2. effective_addr = seen.sp
    BY <1>2, <2>1, OpNames DEF ReadingData
  <2>3. seen.sp \in Ram
    <3>1. ~(seen.sp >= RamTop)
      BY Zenon, <1>3, <2>1 DEF Stuck
    <3>2. QED
      BY <3>1, IsaAssumption, SMT DEF SeenTypes, Ram, Word, Size
  <2>4. read_data = seen.memory[seen.sp] /\ ReadAt(effective_addr, read_data) = << >>
    BY <1>2, <2>2, <2>3, AddressesOfRam DEF Answers, ReadAt
  <2>5. seen'.io = before
    BY <1>1, <1>2, <2>4, IoTypesOf, NoAccess DEF Meaning
  <2>6. Machine!CanPop
    BY <2>3, IsaAssumption, SMT DEF Machine!CanPop, Ram
  <2>7. Machine!Pop(insn, next, before)
    BY <1>2, <2>1, <2>4, <2>5, <2>6, SameWords DEF Machine!Pop
  <2>8. Machine!Execute(insn, ea, next, before)
    BY <2>1, <2>7 DEF Machine!Execute
  <2>9. QED
    BY <1>1, <1>2, <1>3, <2>8, StepOf DEF ReadingData
<1> QED
  BY <1>2, <1>4, <1>5

(* The instructions that store.                                            *)
LEMMA EndsStoring ==
  ASSUME Edge, SeenTypes, MemWrite, ir.op # "SVC",
         NEW word \in Word, NEW given \in Word, Writing(word, given)
  PROVE  state' = "FETCH_REQ" /\ Machine!Next
<1>1. PICK insn, ea, next, before : Meaning(word, given, insn, ea, next, before)
  BY DEF Meaning
<1>2. insn = ir /\ next = pr /\ before = Before(word, given)
  BY <1>1, MeaningOf DEF Writing, Meaning
<1>3. ~Stuck(insn, ea, seen.sp) /\ ~Stuck(ir, Indexed, seen.sp)
  BY <1>1, MeaningOf DEF Writing
<1>4. ea = Indexed
  BY <1>1, <1>2, MeaningOf DEF Writing, is_two_word_instruction
<1>5. /\ state' = "FETCH_REQ" /\ gr' = gr /\ sp' = sp /\ fr' = fr
      /\ error_instruction' = error_instruction
      /\ pr' = IF ir.op = "CALL" THEN Indexed ELSE pr
  BY DEF MemWrite, Writing
<1>6. /\ gr = seen.gr /\ fr = seen.fr /\ error_instruction = seen.error
      /\ Mem = seen.memory /\ Done = before
  BY <1>2 DEF Writing, Loaded, Running
<1>7. /\ seen'.gr = seen.gr /\ seen'.fr = seen.fr /\ seen'.error = seen.error
      /\ seen'.pr = pr' /\ seen'.sp = sp /\ seen'.memory = Mem' /\ seen'.io = Done'
  BY <1>5, <1>6, Ended
<1>8. ASSUME Machine!Execute(insn, ea, next, before)
      PROVE  Machine!Next
  BY <1>1, <1>3, <1>5, <1>8, StepOf DEF Writing
<1>9. CASE ir.op = "ST"
  <2>1. effective_addr = ea /\ write_word = gr[ir.r] /\ sp = seen.sp
    BY <1>4, <1>9 DEF Writing
  <2>2. seen'.memory = Machine!Stored(ea, seen.gr[insn.r])
    BY <1>2, <1>6, <1>7, <2>1, StoreLeaves, SameWords DEF Machine!Stored
  <2>3. before \in Seq(Accesses)
    BY <1>2, IoTypesOf
  <2>4. seen'.io = before \o Machine!Store(ea, seen.gr[insn.r])
    <3>1. CASE ea \in Devices
      BY <1>2, <1>6, <1>7, <2>1, <3>1, StoreLeaves, SameWords DEF Machine!Store
    <3>2. CASE ea \notin Devices
      <4>1. Machine!Store(ea, seen.gr[insn.r]) = << >>
        BY <3>2, SameWords DEF Machine!Store
      <4>2. Done' = before
        BY <1>6, <2>1, <3>2, StoreLeaves
      <4>3. QED
        BY <1>7, <2>3, <4>1, <4>2, NoAccess
    <3>3. QED
      BY <3>1, <3>2
  <2>5. Machine!Execute(insn, ea, next, before)
    BY <1>2, <1>5, <1>7, <1>9, <2>1, <2>2, <2>4 DEF Machine!Execute
  <2>6. QED
    BY <1>5, <1>8, <2>5
<1>10. CASE ir.op \in {"PUSH", "CALL"}
  <2>1. /\ effective_addr = seen.sp - 1 /\ sp = seen.sp - 1
        /\ write_word = IF ir.op = "PUSH" THEN Indexed ELSE next
    BY <1>1, <1>10 DEF Writing, Meaning
  <2>2. seen.sp \in Ram \ {0} /\ seen.sp - 1 \in Ram
    BY <1>2, <1>3, <1>10, PushMoves
  <2>3. seen'.memory = [seen.memory EXCEPT ![seen.sp - 1] = write_word] /\ seen'.io = before
    BY <1>6, <1>7, <2>1, <2>2, StoreLeaves
  <2>4. Machine!CanPush
    BY <2>2, SameWords DEF Machine!CanPush
  <2>5. ASSUME NEW pushed, pushed = write_word, NEW to, to = pr'
        PROVE  Machine!Push(pushed, to, before)
    BY <1>7, <2>1, <2>2, <2>3, <2>4, <2>5, SameWords DEF Machine!Push, Machine!Stored
  <2>6. CASE ir.op = "PUSH"
    <3>1. ea = write_word /\ next = pr'
      BY <1>2, <1>4, <1>5, <2>1, <2>6
    <3>2. Machine!Push(ea, next, before)
      BY <2>5, <3>1
    <3>3. QED
      BY <1>2, <1>5, <1>8, <2>6, <3>2 DEF Machine!Execute
  <2>7. CASE ir.op = "CALL"
    <3>1. next = write_word /\ ea = pr'
      BY <1>2, <1>4, <1>5, <2>1, <2>7
    <3>2. Machine!Push(next, ea, before)
      BY <2>5, <3>1
    <3>3. QED
      BY <1>2, <1>5, <1>8, <2>7, <3>2 DEF Machine!Execute
  <2>8. QED
    BY <1>10, <2>6, <2>7
<1>11. ir.op \in {"ST", "PUSH", "CALL"}
  BY DEF Writing
<1> QED
  BY <1>9, <1>10, <1>11

(* The supervisor calls.                                                   *)
LEMMA EndsVector ==
  ASSUME Edge, SeenTypes, TakeVector, write_req' = None,
         NEW word \in Word, NEW given \in Word, ReadingVector(word, given)
  PROVE  state' = "FETCH_REQ" /\ Machine!Next
<1>1. PICK insn, ea, next, before : Meaning(word, given, insn, ea, next, before)
  BY DEF Meaning
<1>2. /\ insn = ir /\ next = NextPr(word) /\ before = Before(word, given)
      /\ ~Stuck(insn, ea, seen.sp) /\ insn.op = "SVC" /\ ea = Indexed
  BY <1>1, MeaningOf DEF ReadingVector, Meaning, is_two_word_instruction
<1>3. /\ state' = "FETCH_REQ" /\ pr' = read_data
      /\ state = "SVC_VECTOR_WAIT" /\ state \in WaitStates /\ read_data # None
      /\ gr' = gr /\ sp' = sp /\ fr' = fr /\ error_instruction' = error_instruction
  BY StateNames DEF TakeVector, Answered
<1>4. /\ ea % SvcSpan # 0 /\ svc_vector_addr = ea % SvcSpan /\ svc_vector_addr \in 0..MaxVector
      /\ sp = seen.sp - 1 /\ Mem = [seen.memory EXCEPT ![seen.sp - 1] = next]
      /\ gr = seen.gr /\ fr = seen.fr /\ error_instruction = seen.error
  BY <1>2 DEF ReadingVector, Loaded, Running, Edge, CpuTypes, EffectTypes
<1>5. svc_vector_addr \in Ram
  BY <1>4, AddressesOfRam, IsaAssumption
<1>6. PICK a \in Ram : a = svc_vector_addr
  BY <1>5
<1>7. before \in Seq(Accesses) /\ Carries(a, before)
  BY <1>2, <1>6, IoTypesOf DEF ReadingVector
<1>8. read_data = Mem[a] /\ Done' = before /\ Mem' = Mem
  BY <1>3, <1>7, TakesFromRam
<1>9. seen.sp \in Ram \ {0} /\ seen.sp - 1 \in Ram
  BY <1>2, <1>4, PushMoves
<1>10. Machine!CanPush
  BY <1>9, SameWords DEF Machine!CanPush
<1>11. /\ seen'.gr = seen.gr /\ seen'.fr = seen.fr /\ seen'.error = seen.error
       /\ seen'.sp = seen.sp - 1 /\ seen'.io = before
       /\ seen'.memory = [seen.memory EXCEPT ![seen.sp - 1] = next]
       /\ seen'.pr = seen'.memory[ea % SvcSpan]
  BY <1>3, <1>4, <1>6, <1>8, Ended
<1>12. seen'.memory = Machine!Stored(seen.sp - 1, next)
  BY <1>9, <1>11, SameWords DEF Machine!Stored
<1>13. Machine!SvcCall(ea % SvcSpan, next, before)
  BY <1>10, <1>11, <1>12 DEF Machine!SvcCall
<1>14. Machine!Execute(insn, ea, next, before)
  BY <1>2, <1>4, <1>13 DEF Machine!Execute
<1> QED
  BY <1>1, <1>2, <1>3, <1>14, StepOf DEF ReadingVector

(* and SVC 0, with its SP.                                                 *)
LEMMA EndsSvc0 ==
  ASSUME Edge, SeenTypes, TakeSp, write_req' = None,
         NEW word \in Word, NEW given \in Word, ReadingSp(word, given),
         state = "SVC0_SP_WAIT"
  PROVE  state' = "FETCH_REQ" /\ Machine!Next
<1>1. PICK insn, ea, next, before : Meaning(word, given, insn, ea, next, before)
  BY DEF Meaning
<1>2. /\ insn = ir /\ before = Before(word, given)
      /\ ~Stuck(insn, ea, seen.sp) /\ insn.op = "SVC" /\ ea = Indexed
      /\ ea % SvcSpan = 0
  BY <1>1, MeaningOf DEF ReadingSp, Meaning, is_two_word_instruction
<1>3. /\ state' = "FETCH_REQ" /\ sp' = read_data
      /\ state \in WaitStates /\ read_data # None
      /\ gr' = gr /\ pr' = pr /\ fr' = fr /\ error_instruction' = error_instruction
  BY StateNames DEF TakeSp, Answered
<1>4. PICK a \in Ram : a = SpCell
  BY AddressesOfRam
<1>5. before \in Seq(Accesses) /\ Carries(a, before)
  BY <1>2, <1>4, IoTypesOf DEF ReadingSp
<1>6. read_data = Mem[a] /\ Done' = before /\ Mem' = Mem
  BY <1>3, <1>5, TakesFromRam
<1>7. Machine!SvcReset(before)
  BY <1>3, <1>4, <1>6, Ended DEF Machine!SvcReset, ReadingSp, Loaded, Running
<1>8. Machine!Execute(insn, ea, next, before)
  BY <1>2, <1>7 DEF Machine!Execute
<1> QED
  BY <1>1, <1>2, <1>3, <1>8, StepOf DEF ReadingSp

(* The machine starts when its first SP is there.                          *)
LEMMA Boots ==
  ASSUME Edge, TakeSp, write_req' = None, BootSp, state = "RESET_SP_WAIT"
  PROVE  state' = "FETCH_REQ" /\ Machine!Next
<1>1. /\ state' = "FETCH_REQ" /\ sp' = read_data
      /\ state \in WaitStates /\ read_data # None
      /\ gr' = gr /\ pr' = pr /\ fr' = fr /\ error_instruction' = error_instruction
  BY StateNames DEF TakeSp, Answered
<1>2. PICK a \in Ram : a = SpCell
  BY AddressesOfRam
<1>3. PICK before \in Seq(Accesses) : before = << >>
  BY NoAccesses
<1>4. Carries(a, before)
  BY <1>2, <1>3 DEF BootSp
<1>5. read_data = Mem[a] /\ Done' = before /\ Mem' = Mem
  BY <1>1, <1>4, TakesFromRam
<1>6. /\ seen.phase = "reset" /\ seen.gr = gr /\ seen.fr = fr /\ seen.error = error_instruction
      /\ seen.memory = image /\ seen.io = << >> /\ Mem = image /\ pr = image[0]
  BY DEF BootSp, BootHeld, AtReset
<1>7. Machine!Boot
  BY <1>1, <1>2, <1>3, <1>5, <1>6, Ended DEF Machine!Boot
<1> QED
  BY <1>1, <1>7 DEF Machine!Next

-----------------------------------------------------------------------------
(* Every edge of the running CPU: the instruction goes on, or it ends and  *)
(* is a step of Comet2.                                                    *)
LEMMA ProgressNext ==
  /\ BootPr' /\ state' = "RESET_PR_WAIT" => \A word, given : Progress(word, given)'
  /\ BootSp' /\ state' \in {"RESET_SP_REQ", "RESET_SP_WAIT"} =>
       \A word, given : Progress(word, given)'
  /\ Fetching' /\ state' \in {"FETCH_REQ", "FETCH_WAIT"} =>
       \A word, given : Progress(word, given)'
  /\ \A word : Decoding(word)' /\ state' = "DECODE" => \A given : Progress(word, given)'
  /\ \A word : OperandOf(word)' /\ state' \in {"OPERAND_REQ", "OPERAND_WAIT"} =>
       \A given : Progress(word, given)'
  /\ \A word, given : Executing(word, given)' /\ state' = "EXECUTE" => Progress(word, given)'
  /\ \A word, given : ReadingData(word, given)' /\ state' \in {"MEM_READ_REQ", "MEM_READ_WAIT"}
       => Progress(word, given)'
  /\ \A word, given : ReadingSp(word, given)' /\ state' \in {"SVC0_SP_REQ", "SVC0_SP_WAIT"}
       => Progress(word, given)'
  /\ \A word, given : Writing(word, given)' /\ state' = "MEM_WRITE" => Progress(word, given)'
  /\ \A word, given :
       ReadingVector(word, given)' /\ state' \in {"SVC_VECTOR_REQ", "SVC_VECTOR_WAIT"}
       => Progress(word, given)'
BY DEF Progress

(* An edge that asks or waits leaves the instruction as far as it was.     *)
LEMMA AskProgress ==
  ASSUME Edge, SeenTypes, Request \/ Wait,
         NEW word \in Word, NEW given \in Word, Progress(word, given)
  PROVE  Progress(word, given)' /\ seen' = seen /\ image' = image /\ coding' = coding
<1>1. state' # "FETCH_REQ"
  BY StateNames DEF Request, Wait
<1>2. state \in RequestStates \cup WaitStates
  BY DEF Request, Wait
<1>3. CASE state \in {"RESET_PR_REQ", "RESET_PR_WAIT"}
  <2>1. BootPr
    BY <1>3 DEF Progress
  <2>2. QED
    BY <1>1, <1>3, <2>1, BootPrAsks, ProgressNext, Goes
<1>4. CASE state \in {"RESET_SP_REQ", "RESET_SP_WAIT"}
  <2>1. BootSp
    BY <1>4 DEF Progress
  <2>2. QED
    BY <1>1, <1>4, <2>1, BootSpAsks, ProgressNext, Goes
<1>5. CASE state \in {"FETCH_REQ", "FETCH_WAIT"}
  <2>1. Fetching
    BY <1>5 DEF Progress
  <2>2. QED
    BY <1>1, <1>5, <2>1, FetchingAsks, ProgressNext, Goes
<1>6. CASE state \in {"OPERAND_REQ", "OPERAND_WAIT"}
  <2>1. OperandOf(word)
    BY <1>6 DEF Progress
  <2>2. QED
    BY <1>1, <1>6, <2>1, OperandAsks, ProgressNext, Goes
<1>7. CASE state \in {"MEM_READ_REQ", "MEM_READ_WAIT"}
  <2>1. ReadingData(word, given)
    BY <1>7 DEF Progress
  <2>2. QED
    BY <1>1, <1>7, <2>1, DataAsks, ProgressNext, Goes
<1>8. CASE state \in {"SVC0_SP_REQ", "SVC0_SP_WAIT"}
  <2>1. ReadingSp(word, given)
    BY <1>8 DEF Progress
  <2>2. QED
    BY <1>1, <1>8, <2>1, SpAsks, ProgressNext, Goes
<1>9. CASE state \in {"SVC_VECTOR_REQ", "SVC_VECTOR_WAIT"}
  <2>1. ReadingVector(word, given)
    BY <1>9 DEF Progress
  <2>2. QED
    BY <1>1, <1>9, <2>1, VectorAsks, ProgressNext, Goes
<1> QED
  BY <1>2, <1>3, <1>4, <1>5, <1>6, <1>7, <1>8, <1>9, StateNames

(* An edge brings the instruction on, or ends it with a step of Comet2.    *)
LEMMA ProgressStep ==
  ASSUME ResultsAreWords, ShiftsAgree, Edge, SeenTypes,
         NEW word \in Word, NEW given \in Word, Progress(word, given)
  PROVE  /\ \E w, g \in Word : Progress(w, g)'
         /\ seen' = seen \/ Machine!Next
<1>1. RunCpu
  BY EdgeParts
<1>2. ASSUME Machine!Next, state' = "FETCH_REQ"
      PROVE  /\ \E w, g \in Word : Progress(w, g)'
             /\ seen' = seen \/ Machine!Next
  BY <1>2, Ended, ProgressNext
<1>3. CASE Request \/ Wait
  BY <1>3, AskProgress
<1>4. CASE MemWrite
  <2>1. Writing(word, given)
    BY <1>4 DEF MemWrite, Progress
  <2>2. CASE ir.op = "SVC"
    BY <1>4, <2>1, <2>2, CallsVector, ProgressNext
  <2>3. CASE ir.op # "SVC"
    BY <1>2, <1>4, <2>1, <2>3, EndsStoring
  <2>4. QED
    BY <2>2, <2>3
<1>5. CASE TakeResetPr /\ Quiet /\ write_req' = None
  <2>1. BootPr
    BY <1>5 DEF TakeResetPr, Answered, Progress
  <2>2. QED
    BY <1>5, <2>1, TakesPr, ProgressNext
<1>6. CASE TakeSp /\ write_req' = None
  <2>1. CASE state = "RESET_SP_WAIT"
    <3>1. BootSp
      BY <2>1 DEF Progress
    <3>2. QED
      BY <1>2, <1>6, <2>1, <3>1, Boots
  <2>2. CASE state = "SVC0_SP_WAIT"
    <3>1. ReadingSp(word, given)
      BY <2>2 DEF Progress
    <3>2. QED
      BY <1>2, <1>6, <2>2, <3>1, EndsSvc0
  <2>3. QED
    BY <1>6, <2>1, <2>2 DEF TakeSp, Answered
<1>7. CASE TakeInstruction /\ write_req' = None
  <2>1. Fetching
    BY <1>7 DEF TakeInstruction, Answered, Progress
  <2>2. QED
    BY <1>7, <2>1, TakesInstruction, ProgressNext
<1>8. CASE Decode /\ write_req' = None
  <2>1. Decoding(word)
    BY <1>8 DEF Decode, Progress
  <2>2. QED
    BY <1>8, <2>1, Decodes, ProgressNext, Words
<1>9. CASE TakeOperand /\ write_req' = None
  <2>1. OperandOf(word)
    BY <1>9 DEF TakeOperand, Answered, Progress
  <2>2. QED
    BY <1>9, <2>1, TakesOperand, ProgressNext
<1>10. CASE Execute /\ write_req' = None
  <2>1. Executing(word, given)
    BY <1>10 DEF Execute, Progress
  <2>2. CASE FaultInstruction
    BY <1>2, <1>10, <2>1, <2>2, EndsFault
  <2>3. CASE ~Faults /\ EndHere
    BY <1>2, <1>10, <2>1, <2>3, EndsInExecute
  <2>4. CASE ~Faults /\ ReadMemory
    BY <1>10, <2>1, <2>4, ReadsData, ProgressNext
  <2>5. CASE ~Faults /\ WriteMemory
    BY <1>10, <2>1, <2>5, WritesStore, ProgressNext
  <2>6. QED
    BY <1>10, <2>2, <2>3, <2>4, <2>5 DEF Execute
<1>11. CASE TakeData /\ write_req' = None
  <2>1. ReadingData(word, given)
    BY <1>11 DEF TakeData, Answered, Progress
  <2>2. CASE TakeSvc0
    BY <1>11, <2>1, <2>2, TakesSvc0, ProgressNext
  <2>3. CASE ~TakeSvc0
    BY <1>2, <1>11, <2>1, <2>3, EndsTaking
  <2>4. QED
    BY <2>2, <2>3
<1>12. CASE TakeVector /\ write_req' = None
  <2>1. ReadingVector(word, given)
    BY <1>12 DEF TakeVector, Answered, Progress
  <2>2. QED
    BY <1>2, <1>12, <2>1, EndsVector
<1> QED
  BY Zenon, <1>1, <1>3, <1>4, <1>5, <1>6, <1>7, <1>8, <1>9, <1>10, <1>11, <1>12 DEF RunCpu

(* An edge in reset: the machine is in reset, and at the end of it the     *)
(* image is in memory and no store is under way.                           *)
LEMMA ResetIsReset ==
  ASSUME hold # 0, hold \in Nat, Next
  PROVE  /\ Machine!Next
         /\ seen' = AtReset(image) /\ image' = image /\ coding' = coding
         /\ ResetCpu /\ BusTick /\ LoaderTick /\ io' = << >>
<1>1. cpu_reset
  BY SMT DEF cpu_reset
<1>2. /\ ResetCpu /\ BusTick /\ LoaderTick
      /\ seen' = AtReset(image) /\ io' = << >> /\ image' = image /\ coding' = coding
  BY <1>1 DEF Next, Tick, Observe, Served, LoaderTick
<1>3. /\ seen'.phase = "reset" /\ seen'.gr = [i \in Regs |-> 0] /\ seen'.pr = 0
      /\ seen'.sp = 0 /\ seen'.fr = [of |-> FALSE, sf |-> FALSE, zf |-> FALSE]
      /\ seen'.error = FALSE /\ seen'.memory = image' /\ seen'.io = << >>
  BY <1>2 DEF AtReset, NoFlags
<1>4. Machine!Reset
  BY <1>2, <1>3, SameWords DEF Machine!Reset, Machine!Stopped
<1> QED
  BY <1>2, <1>4 DEF Machine!Next

(* At the end of the reset the first PR is about to be read.               *)
LEMMA Released ==
  ASSUME hold = 1, BusInv, WriteDrains, Next
  PROVE  \A word, given : Progress(word, given)'
<1>1. /\ seen' = AtReset(image) /\ image' = image /\ ResetCpu /\ BusTick /\ LoaderTick
      /\ io' = << >>
  BY ResetIsReset
<1>2. write_req = None
  BY CpuAssumption, SMT DEF WriteDrains, Edges
<1>3. memory' = image /\ memory_wr' = None /\ device_wr' = None /\ write_req' = None
  BY <1>1, <1>2 DEF LoaderTick, BusTick, ForwardWrite, ResetCpu
<1>4. Mem' = image'
  BY <1>1, <1>3 DEF Mem, Landed
<1>5. Done' = << >>
  <2>1. Written(device_wr') = << >> /\ Written(write_req') = << >>
    BY <1>3 DEF Written
  <2>2. Done' = << >> \o << >> \o << >>
    BY <1>1, <2>1 DEF Done
  <2>3. << >> \in Seq(Accesses)
    OBVIOUS
  <2> QED
    BY <2>2, <2>3, NoAccess
<1>6. state' = "RESET_PR_REQ" /\ state' \notin WaitStates
  BY <1>1, StateNames DEF ResetCpu
<1>7. BootPr'
  BY <1>1, <1>4, <1>5, <1>6 DEF BootPr, BootHeld, Carries, ResetCpu, AtReset
<1> QED
  BY <1>6, <1>7 DEF Progress

RefinementInv == TypeInv /\ BusInv /\ PortInv /\ SeenTypes /\ MachineInv

(* The initial states.                                                     *)
LEMMA RefinementInit == Init => RefinementInv /\ Machine!Init
<1> SUFFICES ASSUME Init PROVE RefinementInv /\ Machine!Init
  OBVIOUS
<1>1. TypeInv /\ BusInv /\ PortInv
  BY InitTypes, BusInit DEF Init, PortInv
<1>2. hold = ResetEdges /\ ResetEdges \in Nat /\ ResetEdges >= 5 /\ io = << >> /\ write_req = None
  BY CpuAssumption DEF Init
<1>3. << >> \in Seq(Accesses)
  OBVIOUS
<1>4. MachineInv
  BY <1>2, <1>3 DEF MachineInv, IoTypes, WriteDrains
<1>5. /\ seen.phase = "reset" /\ seen.gr = [i \in Regs |-> 0] /\ seen.pr = 0
      /\ seen.sp = 0 /\ seen.fr = [of |-> FALSE, sf |-> FALSE, zf |-> FALSE]
      /\ seen.error = FALSE /\ seen.memory = image /\ seen.io = << >>
  BY DEF Init, AtReset, NoFlags
<1>6. image \in [Ram -> Word]
  BY CpuAssumption DEF Init
<1>7. SeenTypes
  BY <1>3, <1>5, <1>6, Words DEF SeenTypes
<1>8. Machine!Init
  BY <1>5, SameWords DEF Machine!Init, Machine!Stopped
<1> QED
  BY <1>1, <1>4, <1>7, <1>8 DEF RefinementInv

(* The edges of the running CPU.                                           *)
LEMMA RefinementRuns ==
  ASSUME ResultsAreWords, ShiftsAgree, RefinementInv, TypeInv', Next, hold = 0
  PROVE  SeenTypes' /\ MachineInv' /\ (UNCHANGED Machine!vars \/ Machine!Next)
<1>1. Edge
  BY TypeParts DEF Edge, RefinementInv, MachineInv
<1>2. SeenTypes
  BY DEF RefinementInv
<1>3. PICK word \in Word, given \in Word : Progress(word, given)
  BY DEF RefinementInv, MachineInv
<1>4. /\ \E w, g \in Word : Progress(w, g)'
      /\ seen' = seen \/ Machine!Next
  BY <1>1, <1>2, <1>3, ProgressStep
<1>5. image' = image /\ coding' = coding /\ hold' \in {0, ResetEdges}
  BY <1>1, EdgeParts
<1>6. IoTypes'
  BY <1>1, IoMoves
<1>7. WriteDrains'
  BY <1>5, CpuAssumption, SMT DEF WriteDrains, Edges
<1>8. MachineInv'
  BY <1>4, <1>6, <1>7 DEF MachineInv
<1>9. SeenTypes'
  <2>1. CASE state' # "FETCH_REQ"
    BY <1>1, <1>2, <2>1, Goes DEF SeenTypes
  <2>2. CASE state' = "FETCH_REQ"
    <3>1. /\ gr' \in [Regs -> Word] /\ pr' \in Word /\ sp' \in Word
          /\ write_req' \in Maybe(StoreOf(Word)) /\ memory_wr' \in Maybe(StoreOf(Ram))
          /\ device_wr' \in Maybe(StoreOf(Devices)) /\ memory' \in [Ram -> Word]
      BY DEF TypeInv, TypeOK
    <3>2. memory_wr' \in Maybe(StoreOf(Word)) /\ device_wr' \in Maybe(StoreOf(Word))
      <4>1. StoreOf(Ram) \subseteq StoreOf(Word) /\ StoreOf(Devices) \subseteq StoreOf(Word)
        BY Words DEF StoreOf
      <4>2. QED
        BY <3>1, <4>1 DEF Maybe
    <3>3. Landed(memory', memory_wr') \in [Ram -> Word]
      BY <3>1, <3>2, StoreTypes
    <3>4. Mem' \in [Ram -> Word]
      BY <3>1, <3>3, StoreTypes DEF Mem
    <3>5. Written(device_wr') \in Seq(Accesses) /\ Written(write_req') \in Seq(Accesses)
      BY <3>1, <3>2, StoreTypes
    <3>6. io' \o Written(device_wr') \in Seq(Accesses)
      BY <1>6, <3>5, ConcatProperties DEF IoTypes
    <3>7. Done' \in Seq(Accesses)
      BY <3>5, <3>6, ConcatProperties DEF Done
    <3>8. QED
      BY <1>1, <2>2, <3>1, <3>4, <3>7, Ended DEF SeenTypes
  <2>3. QED
    BY <2>1, <2>2
<1> QED
  BY <1>4, <1>5, <1>8, <1>9 DEF Machine!vars

(* The edges of the reset.                                                 *)
LEMMA RefinementResets ==
  ASSUME RefinementInv, TypeInv', Next, hold # 0
  PROVE  SeenTypes' /\ MachineInv' /\ Machine!Next
<1>1. hold \in Nat /\ hold \in 0..ResetEdges
  BY DEF RefinementInv, BusInv, BusTypeOK
<1>2. /\ Machine!Next
      /\ seen' = AtReset(image) /\ image' = image /\ coding' = coding
      /\ ResetCpu /\ BusTick /\ LoaderTick /\ io' = << >>
  BY <1>1, ResetIsReset
<1>3. IoTypes'
  <2>1. << >> \in Seq(Accesses)
    OBVIOUS
  <2>2. QED
    BY <1>2, <2>1 DEF IoTypes
<1>4. WriteDrains'
  BY <1>2 DEF WriteDrains, ResetCpu
<1>5. hold' = hold - 1
  BY <1>1, <1>2, SMT DEF LoaderTick, cpu_reset
<1>6. hold' = 0 => \E word, given \in Word : Progress(word, given)'
  BY <1>1, <1>5, Released, Words DEF RefinementInv, MachineInv
<1>7. MachineInv'
  BY <1>3, <1>4, <1>6 DEF MachineInv
<1>8. image \in [Ram -> Word] /\ << >> \in Seq(Accesses)
  BY CpuAssumption DEF RefinementInv, TypeInv, TypeOK
<1>9. SeenTypes'
  BY <1>2, <1>8, Words DEF SeenTypes, AtReset
<1> QED
  BY <1>2, <1>7, <1>9

(* Every step.                                                             *)
LEMMA RefinementStep ==
  ASSUME ResultsAreWords, ShiftsAgree, RefinementInv, [Next]_vars
  PROVE  RefinementInv' /\ [Machine!Next]_Machine!vars
<1>1. TypeInv' /\ BusInv' /\ PortInv'
  BY TypeStep, BusStep, PortStep DEF RefinementInv
<1>2. CASE Next
  <2>1. SeenTypes' /\ MachineInv' /\ (UNCHANGED Machine!vars \/ Machine!Next)
    BY <1>1, <1>2, RefinementRuns, RefinementResets
  <2>2. QED
    BY <1>1, <2>1 DEF RefinementInv
<1>3. CASE UNCHANGED vars
  <2>1. SeenTypes'
    BY <1>3 DEF vars, RefinementInv, SeenTypes
  <2>2. /\ hold' = hold /\ io' = io /\ write_req' = write_req
        /\ UNCHANGED <<cpuVars, busVars, loadVars, seen>>
    BY <1>3 DEF vars, cpuVars, loadVars
  <2>3. Mem' = Mem /\ Done' = Done /\ Indexed' = Indexed
    BY <2>2 DEF Mem, Done, Indexed, cpuVars, fileVars, latchVars, busVars
  <2>4. ASSUME NEW word, NEW given, Progress(word, given)
        PROVE  Progress(word, given)'
    <3>1. /\ state' = state /\ seen' = seen /\ image' = image /\ coding' = coding
          /\ gr' = gr /\ pr' = pr /\ sp' = sp /\ fr' = fr
          /\ error_instruction' = error_instruction /\ ir' = ir /\ operand' = operand
          /\ effective_addr' = effective_addr /\ svc_vector_addr' = svc_vector_addr
          /\ write_word' = write_word /\ mem_read_kind' = mem_read_kind
          /\ mem_write_kind' = mem_write_kind /\ dest_reg' = dest_reg
      BY <2>2 DEF cpuVars, fileVars, latchVars, loadVars
    <3>2. /\ read_addr' = read_addr /\ memory_rd' = memory_rd /\ device_rd' = device_rd
          /\ ram_out' = ram_out /\ rd_data' = rd_data /\ device_data' = device_data
          /\ read_data' = read_data
      BY <2>2 DEF cpuVars, readVars, busVars
    <3>3. /\ Long(word)' = Long(word) /\ NextPr(word)' = NextPr(word)
          /\ FetchedIo(word)' = FetchedIo(word)
          /\ Before(word, given)' = Before(word, given)
          /\ Loaded(word, given) => Loaded(word, given)'
          /\ Fetched(word) => Fetched(word)'
          /\ BootHeld => BootHeld'
      BY <2>3, <3>1 DEF Long, NextPr, FetchedIo, Before, Loaded, Running, Fetched, BootHeld,
                        AtReset
    <3>4. ASSUME NEW a, NEW before, Carries(a, before) PROVE Carries(a, before)'
      BY <2>3, <3>1, <3>2, <3>4 DEF Carries, Reading
    <3>5. (BootPr => BootPr') /\ (BootSp => BootSp')
      BY <2>3, <3>1, <3>2, <3>3 DEF BootPr, BootSp, Carries, Reading
    <3>6. (Fetching => Fetching') /\ (Decoding(word) => Decoding(word)')
      BY <2>3, <3>1, <3>2, <3>3 DEF Fetching, Decoding, Running, Carries, Reading
    <3>7. ASSUME OperandOf(word) PROVE OperandOf(word)'
      <4>1. PICK a, before : a = Wrap(seen.pr + 1) /\ before = FetchedIo(word)
        OBVIOUS
      <4>2. Carries(a, before)'
        BY <3>4, <3>7, <4>1 DEF OperandOf
      <4>3. Fetched(word)' /\ Long(word)'
        BY <3>3, <3>7 DEF OperandOf
      <4>4. a = Wrap(seen'.pr + 1) /\ before = FetchedIo(word)'
        BY <3>1, <3>3, <4>1
      <4>5. QED
        BY <4>2, <4>3, <4>4 DEF OperandOf, Carries, Reading
    <3>8. Executing(word, given) => Executing(word, given)'
      BY <2>3, <3>1, <3>3 DEF Executing
    <3>9. ASSUME ReadingData(word, given) PROVE ReadingData(word, given)'
      <4>1. PICK a, before : a = effective_addr /\ before = Before(word, given)
        OBVIOUS
      <4>2. Carries(a, before)'
        BY <3>4, <3>9, <4>1 DEF ReadingData
      <4>3. effective_addr' = a /\ Before(word, given)' = before /\ Loaded(word, given)'
        BY <3>1, <3>3, <3>9, <4>1 DEF ReadingData
      <4>4. /\ ~Stuck(ir', Indexed', seen'.sp)
            /\ pr' = NextPr(word)' /\ sp' = seen'.sp /\ Mem' = seen'.memory
            /\ mem_read_kind' = ir'.op /\ dest_reg' = ir'.r
            /\ \/ ir'.op \in ArithOps /\ ~ir'.reg /\ effective_addr' = Indexed'
               \/ ir'.op \in {"POP", "RET"} /\ effective_addr' = seen'.sp
               \/ ir'.op = "SVC" /\ Indexed' % SvcSpan = 0 /\ effective_addr' = 0
        BY Zenon, <2>3, <3>1, <3>3, <3>9 DEF ReadingData
      <4>5. QED
        BY <4>2, <4>3, <4>4 DEF ReadingData, Carries, Reading
    <3>10. ASSUME ReadingSp(word, given) PROVE ReadingSp(word, given)'
      <4>1. PICK before : before = Before(word, given)
        OBVIOUS
      <4>2. Carries(SpCell, before)'
        BY <3>4, <3>10, <4>1 DEF ReadingSp
      <4>3. Before(word, given)' = before /\ Loaded(word, given)'
        BY <3>3, <3>10, <4>1 DEF ReadingSp
      <4>4. /\ ~Stuck(ir', Indexed', seen'.sp)
            /\ ir'.op = "SVC" /\ Indexed' % SvcSpan = 0
            /\ pr' = seen'.memory[0] /\ sp' = seen'.sp /\ Mem' = seen'.memory
        BY Zenon, <2>3, <3>1, <3>10 DEF ReadingSp
      <4>5. QED
        BY <4>2, <4>3, <4>4 DEF ReadingSp, Carries, Reading
    <3>11. Writing(word, given) => Writing(word, given)'
      BY <2>3, <3>1, <3>3 DEF Writing
    <3>12. ReadingVector(word, given) => ReadingVector(word, given)'
      <4>1. PICK a, before : a = svc_vector_addr /\ before = Before(word, given)
        OBVIOUS
      <4>2. QED
        BY <2>3, <3>1, <3>3, <3>4, <4>1 DEF ReadingVector, Carries, Reading
    <3>13. QED
      BY <2>4, <3>1, <3>5, <3>6, <3>7, <3>8, <3>9, <3>10, <3>11, <3>12 DEF Progress
  <2>5. MachineInv'
    BY <2>2, <2>4 DEF RefinementInv, MachineInv, IoTypes, WriteDrains, Edges
  <2>6. UNCHANGED Machine!vars
    BY <2>2 DEF Machine!vars, loadVars
  <2>7. QED
    BY <1>1, <2>1, <2>5, <2>6 DEF RefinementInv
<1> QED
  BY <1>2, <1>3

(* CometCpu implements Comet2: whatever the program, the sizes of the      *)
(* memory map and of the registers, what the devices answer and when the   *)
(* host resets the CPU, an instruction is a step of the machine of Comet2, *)
(* with its arithmetic, its flags, its faults and its accesses of the      *)
(* devices in their order, although its store is under way while the next  *)
(* one is fetched.                                                         *)
THEOREM MachineImplemented ==
  ASSUME ResultsAreWords, ShiftsAgree
  PROVE  Spec => ImplementsMachine
<1>1. Init => RefinementInv /\ Machine!Init
  BY RefinementInit
<1>2. RefinementInv /\ [Next]_vars => RefinementInv' /\ [Machine!Next]_Machine!vars
  BY RefinementStep
<1> QED
  BY <1>1, <1>2, PTL DEF Spec, ImplementsMachine, Machine!Spec
=============================================================================
