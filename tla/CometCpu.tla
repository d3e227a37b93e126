------------------------------ MODULE CometCpu ------------------------------
(***************************************************************************)
(* comet2_cpu.v, comet2_memory.v and the bus of top.v between them: an     *)
(* instruction is a chain of requests, each of which the bus answers a few *)
(* clock edges later.  A step is one clock edge, and every variable is a   *)
(* register that changes with it.                                          *)
(***************************************************************************)
EXTENDS CometAlu, Sequences

CONSTANTS
  BankSize,      \* 2^14: words of an SPRAM block
  DeviceWords,   \* the words a device may answer
  Images,        \* the programs the loader may bring
  Codings,       \* the tables from words to instructions
  ResetEdges,    \* bound: edges the loader keeps the CPU in reset for a reload
  MaxInstructions, \* bound: instructions of a run of a program
  None           \* no request, no data

ASSUME CpuAssumption ==
  /\ BankSize \in Nat \ {0}
  /\ DeviceWords \subseteq Word
  /\ Images \subseteq [Ram -> Word]
  /\ Codings \subseteq [Word -> Instruction]
  /\ ResetEdges \in Nat /\ ResetEdges >= 5   \* START is at least a packet after INIT
  /\ MaxInstructions \in Nat
  /\ None \notin Word \cup [addr : Word, word : Word]

VARIABLES
  \* comet2_cpu
  state, gr, pr, sp, fr, error_instruction,
  ir,                 \* the instruction that the fetched word stands for
  operand, effective_addr, svc_vector_addr, write_word,
  mem_read_kind, mem_write_kind, dest_reg,
  read_req, read_addr,
  write_req,          \* write_req, write_addr and write_data: a store, or None
  \* top
  cpu_read_req_buf,
  memory_rd, device_rd,    \* the address of the read requested, or None
  memory_wr, device_wr,    \* the store requested, or None
  read_data,          \* cpu_read_data, or None when it is not valid
  \* comet2_memory, and the devices
  memory,
  ram_out,            \* DATAOUT of the block, or None when buf_rd_req is 0
  rd_data,            \* or None when data_valid is 0
  device_data,        \* a device's rd_data, or None when its data_valid is 0
  \* the loader: cpu_reset is high while hold > 0
  hold, image, coding,
  \* history
  executed,           \* instructions begun since the reset
  io,                 \* accesses the devices served since the reset
  seen                \* the machine between two instructions

fileVars  == <<gr, pr, sp, fr, error_instruction>>
latchVars == <<ir, operand, effective_addr, svc_vector_addr, write_word,
               mem_read_kind, mem_write_kind, dest_reg>>
readVars  == <<read_req, read_addr>>
cpuVars   == <<state, fileVars, latchVars, readVars, write_req>>
busVars   == <<cpu_read_req_buf, memory_rd, device_rd, memory_wr, device_wr,
               read_data, memory, ram_out, rd_data, device_data>>
loadVars  == <<hold, image, coding>>
vars      == <<cpuVars, busVars, loadVars, executed, io, seen>>

Maybe(set) == set \cup {None}
StoreOf(addrs) == [addr : addrs, word : Word]

(* Each request state has a state that waits for the answer.               *)
WaitOf == [RESET_PR_REQ   |-> "RESET_PR_WAIT",   RESET_SP_REQ |-> "RESET_SP_WAIT",
           FETCH_REQ      |-> "FETCH_WAIT",      OPERAND_REQ  |-> "OPERAND_WAIT",
           MEM_READ_REQ   |-> "MEM_READ_WAIT",   SVC_VECTOR_REQ |-> "SVC_VECTOR_WAIT",
           SVC0_SP_REQ    |-> "SVC0_SP_WAIT"]

RequestStates == DOMAIN WaitOf
WaitStates    == {WaitOf[s] : s \in RequestStates}
States        == RequestStates \cup WaitStates \cup {"DECODE", "EXECUTE", "MEM_WRITE"}

cpu_reset == hold > 0

NoFlags  == [of |-> FALSE, sf |-> FALSE, zf |-> FALSE]
NoInsn   == [op |-> "NOP", reg |-> FALSE, r |-> 0, x |-> 0]
AtReset(mem) ==
  [phase |-> "reset", gr |-> [i \in Regs |-> 0], pr |-> 0, sp |-> 0, fr |-> NoFlags,
   error |-> FALSE, memory |-> mem, io |-> << >>]

-----------------------------------------------------------------------------
(* The CPU's always block while it is held in reset.                       *)
ResetCpu ==
  /\ state' = "RESET_PR_REQ"
  /\ gr' = [i \in Regs |-> 0]
  /\ pr' = 0 /\ sp' = 0 /\ fr' = NoFlags
  /\ error_instruction' = FALSE
  /\ ir' = NoInsn /\ operand' = 0 /\ effective_addr' = 0 /\ svc_vector_addr' = 0
  /\ write_word' = 0 /\ mem_read_kind' = "NONE" /\ mem_write_kind' = "NONE"
  /\ dest_reg' = 0
  /\ read_req' = FALSE /\ read_addr' = 0
  /\ write_req' = None

(* What the state asks the bus for.                                        *)
Wanted ==
  CASE state \in {"RESET_PR_REQ", "RESET_PR_WAIT"}     -> 0
    [] state \in {"RESET_SP_REQ", "RESET_SP_WAIT", "SVC0_SP_REQ", "SVC0_SP_WAIT"} -> SpCell
    [] state \in {"MEM_READ_REQ", "MEM_READ_WAIT"}     -> effective_addr
    [] state \in {"SVC_VECTOR_REQ", "SVC_VECTOR_WAIT"} -> svc_vector_addr
    [] OTHER                                           -> pr

Asks  == read_req' = TRUE /\ read_addr' = Wanted

(* Mutant of Quiet: the request is not taken back with the answer.         *)
QuietHigh == UNCHANGED readVars

Quiet == read_req' = FALSE /\ UNCHANGED read_addr

Request ==
  /\ state \in RequestStates
  /\ state' = WaitOf[state]
  /\ Asks
  /\ write_req' = None
  /\ UNCHANGED <<fileVars, latchVars>>

Wait ==
  /\ state \in WaitStates
  /\ read_data = None
  /\ Asks
  /\ write_req' = None
  /\ UNCHANGED <<state, fileVars, latchVars>>

Answered(s) == state = s /\ read_data # None

TakeResetPr ==
  /\ Answered("RESET_PR_WAIT")
  /\ pr' = read_data
  /\ state' = "RESET_SP_REQ"
  /\ UNCHANGED <<gr, sp, fr, error_instruction, latchVars>>

TakeSp ==
  /\ Answered("RESET_SP_WAIT") \/ Answered("SVC0_SP_WAIT")
  /\ sp' = read_data
  /\ state' = "FETCH_REQ"
  /\ UNCHANGED <<gr, pr, fr, error_instruction, latchVars>>

TakeInstruction ==
  /\ Answered("FETCH_WAIT")
  /\ ir' = coding[read_data]
  /\ pr' = Wrap(pr + 1)
  /\ state' = "DECODE"
  /\ UNCHANGED <<gr, sp, fr, error_instruction, operand, effective_addr, svc_vector_addr,
                 write_word, mem_read_kind, mem_write_kind, dest_reg>>

Decode ==
  /\ state = "DECODE"
  /\ state' = IF is_two_word_instruction(ir) THEN "OPERAND_REQ" ELSE "EXECUTE"
  /\ UNCHANGED <<fileVars, latchVars>>

TakeOperand ==
  /\ Answered("OPERAND_WAIT")
  /\ operand' = read_data
  /\ pr' = Wrap(pr + 1)
  /\ state' = "EXECUTE"
  /\ UNCHANGED <<gr, sp, fr, error_instruction, ir, effective_addr, svc_vector_addr,
                 write_word, mem_read_kind, mem_write_kind, dest_reg>>

-----------------------------------------------------------------------------
(* ST_EXECUTE, by what each group of instructions does next.               *)
Indexed == indexed_addr(gr, operand, ir.x)

(* Mutant of StackFull: the stack pointer that wraps is let through.       *)
StackFullHigh == sp >= RamTop
StackFull  == sp = 0 \/ sp >= RamTop
StackEmpty == sp >= RamTop

(* Mutant of Faults: every call number has a vector.                       *)
FaultsWithoutVector ==
  \/ BadField(ir)
  \/ ir.op = "undefined"
  \/ ir.op \in {"PUSH", "CALL"} /\ StackFull
  \/ ir.op \in {"POP", "RET"} /\ StackEmpty
  \/ ir.op = "SVC" /\ Indexed % SvcSpan # 0 /\ StackFull

Faults ==
  \/ BadField(ir)
  \/ ir.op = "undefined"
  \/ ir.op \in {"PUSH", "CALL"} /\ StackFull
  \/ ir.op \in {"POP", "RET"} /\ StackEmpty
  \/ ir.op = "SVC" /\ Indexed % SvcSpan # 0 /\ (Indexed % SvcSpan > MaxVector \/ StackFull)

(* fault_instruction: the flag, and on to the next instruction.            *)
FaultInstruction ==
  /\ Faults
  /\ error_instruction' = TRUE
  /\ state' = "FETCH_REQ"
  /\ mem_read_kind' = "NONE" /\ mem_write_kind' = "NONE"
  /\ effective_addr' = IF BadField(ir) THEN effective_addr ELSE Indexed
  /\ dest_reg' = IF BadField(ir) THEN dest_reg ELSE ir.r
  /\ UNCHANGED <<gr, pr, sp, fr, svc_vector_addr, write_word>>

(* The instructions that end here.                                         *)
Ends(reg, flags, next) ==
  /\ gr' = reg /\ fr' = flags /\ pr' = next
  /\ state' = "FETCH_REQ"
  /\ mem_read_kind' = "NONE" /\ mem_write_kind' = "NONE"
  /\ effective_addr' = Indexed /\ dest_reg' = ir.r
  /\ UNCHANGED <<sp, error_instruction, svc_vector_addr, write_word>>

Branches ==
  \/ ir.op = "JUMP"
  \/ ir.op = "JMI" /\ fr.sf
  \/ ir.op = "JNZ" /\ ~fr.zf
  \/ ir.op = "JZE" /\ fr.zf
  \/ ir.op = "JPL" /\ ~fr.sf /\ ~fr.zf
  \/ ir.op = "JOV" /\ fr.of

Operate(op, a, b, r) ==
  [gr |-> IF op \in Compares THEN gr ELSE [gr EXCEPT ![r] = AluResult(op, a, b)],
   fr |-> set_fr(AluResult(op, a, b), AluOverflow(op, a, b))]

EndHere ==
  \/ ir.op = "NOP" /\ Ends(gr, fr, pr)
  \/ ir.op = "LAD" /\ Ends([gr EXCEPT ![ir.r] = Indexed], fr, pr)
  \/ /\ ir.op \in ArithOps /\ ir.reg
     /\ LET done == Operate(ir.op, gr[ir.r], gr[ir.x], ir.r) IN Ends(done.gr, done.fr, pr)
  \/ /\ ir.op \in Shifts
     /\ LET result == ShiftResult(ir.op, gr[ir.r], Indexed)
        IN  Ends([gr EXCEPT ![ir.r] = result],
                 set_fr(result, ShiftOverflow(ir.op, gr[ir.r], Indexed)), pr)
  \/ ir.op \in Jumps /\ Ends(gr, fr, IF Branches THEN Indexed ELSE pr)

ReadsFrom(addr, kind) ==
  /\ effective_addr' = addr
  /\ mem_read_kind' = kind /\ mem_write_kind' = "NONE"
  /\ dest_reg' = ir.r
  /\ state' = "MEM_READ_REQ"
  /\ UNCHANGED <<fileVars, svc_vector_addr, write_word>>

ReadMemory ==
  \/ ir.op \in ArithOps /\ ~ir.reg /\ ReadsFrom(Indexed, ir.op)
  \/ ir.op \in {"POP", "RET"} /\ ReadsFrom(sp, ir.op)
  \/ ir.op = "SVC" /\ Indexed % SvcSpan = 0 /\ ReadsFrom(0, "SVC")

WritesTo(addr, word, kind) ==
  /\ effective_addr' = addr
  /\ write_word' = word
  /\ mem_read_kind' = "NONE" /\ mem_write_kind' = kind
  /\ dest_reg' = ir.r
  /\ state' = "MEM_WRITE"
  /\ UNCHANGED <<gr, pr, fr, error_instruction>>

Pushes(word, kind) ==
  /\ sp' = Wrap(sp - 1)
  /\ WritesTo(Wrap(sp - 1), word, kind)

WriteMemory ==
  \/ ir.op = "ST" /\ WritesTo(Indexed, gr[ir.r], "ST") /\ UNCHANGED <<sp, svc_vector_addr>>
  \/ ir.op = "PUSH" /\ Pushes(Indexed, "PUSH") /\ UNCHANGED svc_vector_addr
  \/ ir.op = "CALL" /\ Pushes(pr, "CALL") /\ UNCHANGED svc_vector_addr
  \/ /\ ir.op = "SVC" /\ Indexed % SvcSpan # 0
     /\ Pushes(pr, "SVC")
     /\ svc_vector_addr' = Indexed % SvcSpan

Execute ==
  /\ state = "EXECUTE"
  /\ FaultInstruction \/ (~Faults /\ (EndHere \/ ReadMemory \/ WriteMemory))
  /\ UNCHANGED <<ir, operand>>

-----------------------------------------------------------------------------
(* ST_MEM_READ_WAIT when the answer is there.                              *)
TakeArith ==
  /\ mem_read_kind \in ArithOps
  /\ LET done == Operate(mem_read_kind, gr[dest_reg], read_data, dest_reg)
     IN  gr' = done.gr /\ fr' = done.fr
  /\ state' = "FETCH_REQ"
  /\ UNCHANGED <<pr, sp>>

TakePop ==
  /\ mem_read_kind \in {"POP", "RET"}
  /\ gr' = IF mem_read_kind = "POP" THEN [gr EXCEPT ![dest_reg] = read_data] ELSE gr
  /\ pr' = IF mem_read_kind = "RET" THEN read_data ELSE pr
  /\ sp' = Wrap(sp + 1)
  /\ state' = "FETCH_REQ"
  /\ UNCHANGED fr

TakeSvc0 ==
  /\ mem_read_kind = "SVC"
  /\ pr' = read_data
  /\ state' = IF effective_addr = 0 THEN "SVC0_SP_REQ" ELSE "FETCH_REQ"
  /\ UNCHANGED <<gr, sp, fr>>

TakeData ==
  /\ Answered("MEM_READ_WAIT")
  /\ TakeArith \/ TakePop \/ TakeSvc0
  /\ UNCHANGED <<error_instruction, latchVars>>

MemWrite ==
  /\ state = "MEM_WRITE"
  /\ write_req' = [addr |-> effective_addr, word |-> write_word]
  /\ pr' = IF mem_write_kind = "CALL" THEN Indexed ELSE pr
  /\ state' = IF mem_write_kind = "SVC" THEN "SVC_VECTOR_REQ" ELSE "FETCH_REQ"
  /\ Quiet
  /\ UNCHANGED <<gr, sp, fr, error_instruction, latchVars>>

TakeVector ==
  /\ Answered("SVC_VECTOR_WAIT")
  /\ pr' = read_data
  /\ state' = "FETCH_REQ"
  /\ UNCHANGED <<gr, sp, fr, error_instruction, latchVars>>

RunCpu ==
  \/ Request
  \/ Wait
  \/ MemWrite
  \/ /\ TakeResetPr \/ TakeSp \/ TakeInstruction \/ Decode \/ TakeOperand
          \/ Execute \/ TakeData \/ TakeVector
     /\ Quiet
     /\ write_req' = None

-----------------------------------------------------------------------------
(* top.v forwards a read at the rising edge of read_req alone.             *)
(* Mutant of ReadRises: at every edge that it is high.                     *)
ReadIsHigh == read_req
ReadRises == read_req /\ ~cpu_read_req_buf

ForwardRead(addrs) == IF ReadRises /\ read_addr \in addrs THEN read_addr ELSE None

(* Mutant of ForwardWrite: memory_wr_req is not taken back.                *)
ForwardWriteHeld(addrs) ==
  IF write_req # None /\ write_req.addr \in addrs THEN write_req
  ELSE IF memory_wr # None /\ memory_wr.addr \in addrs THEN memory_wr ELSE None

ForwardWrite(addrs) ==
  IF write_req # None /\ write_req.addr \in addrs THEN write_req ELSE None

(* A block has one port: a store into it takes the address from the read.  *)
Collides == memory_rd # None /\ memory_wr # None
              /\ memory_rd \div BankSize = memory_wr.addr \div BankSize

RamOut == IF memory_rd = None THEN {None}
          ELSE IF Collides THEN Word ELSE {memory[memory_rd]}

(* The store in flight arrives.                                            *)
Landed(mem, store) == IF store = None \/ store.addr \notin Ram THEN mem
                      ELSE [mem EXCEPT ![store.addr] = store.word]

BusTick ==
  /\ cpu_read_req_buf' = read_req
  /\ memory_rd' = ForwardRead(Ram)
  /\ device_rd' = ForwardRead(Devices)
  /\ memory_wr' = ForwardWrite(Ram)
  /\ device_wr' = ForwardWrite(Devices)
  /\ read_data' = IF device_data # None THEN device_data ELSE rd_data
  /\ ram_out' \in RamOut
  /\ rd_data' = ram_out
  /\ device_data' \in IF device_rd = None THEN {None} ELSE DeviceWords

(* The loader writes the image while the CPU is in reset; it is whole when *)
(* the CPU is started.                                                     *)
LoaderTick ==
  /\ hold' \in IF cpu_reset THEN {hold - 1} ELSE {0, ResetEdges}
  /\ memory' = IF hold = 1 THEN image ELSE Landed(memory, memory_wr)
  /\ UNCHANGED <<image, coding>>

-----------------------------------------------------------------------------
(* History: what the devices served, and the machine between instructions. *)
Written(store) == IF store = None \/ store.addr \notin Devices THEN << >>
                  ELSE <<[kind |-> "write", addr |-> store.addr, word |-> store.word]>>

Served ==
  IF cpu_reset THEN << >>
  ELSE io \o Written(device_wr)
          \o (IF device_rd = None THEN << >>
              ELSE <<[kind |-> "read", addr |-> device_rd, word |-> device_data']>>)

Boundary ==
  [phase |-> "run", gr |-> gr', pr |-> pr', sp |-> sp', fr |-> fr',
   error |-> error_instruction',
   memory |-> Landed(Landed(memory', memory_wr'), write_req'),
   io |-> io' \o Written(device_wr') \o Written(write_req')]

(* At the bound the host brings a program again.                           *)
AtBound == state = "FETCH_REQ" /\ ~cpu_reset /\ executed = MaxInstructions

Observe ==
  /\ io' = Served
  /\ executed' = IF cpu_reset THEN 0
                 ELSE IF state = "FETCH_REQ" /\ ~AtBound THEN executed + 1 ELSE executed
  /\ seen' = IF cpu_reset THEN AtReset(image)
             ELSE IF state' = "FETCH_REQ" THEN Boundary ELSE seen

Tick ==
  /\ IF cpu_reset THEN ResetCpu ELSE RunCpu
  /\ BusTick
  /\ LoaderTick
  /\ AtBound => hold' = ResetEdges
  /\ Observe

Init ==
  /\ state = "RESET_PR_REQ"
  /\ gr = [i \in Regs |-> 0]
  /\ pr = 0 /\ sp = 0 /\ fr = NoFlags /\ error_instruction = FALSE
  /\ ir = NoInsn /\ operand = 0 /\ effective_addr = 0 /\ svc_vector_addr = 0
  /\ write_word = 0 /\ mem_read_kind = "NONE" /\ mem_write_kind = "NONE" /\ dest_reg = 0
  /\ read_req = FALSE /\ read_addr = 0 /\ write_req = None
  /\ cpu_read_req_buf = FALSE
  /\ memory_rd = None /\ device_rd = None /\ memory_wr = None /\ device_wr = None
  /\ read_data = None /\ ram_out = None /\ rd_data = None /\ device_data = None
  /\ image \in Images
  /\ coding \in Codings
  /\ memory = image
  /\ hold = ResetEdges
  /\ executed = 0
  /\ io = << >>
  /\ seen = AtReset(image)

Next == Tick

Spec == Init /\ [][Next]_vars

(* The clock runs; a reload is the host's to choose.                       *)
FairSpec == Spec /\ WF_vars(Next /\ hold' <= hold)

-----------------------------------------------------------------------------
TypeOK ==
  /\ state \in States
  /\ gr \in [Regs -> Word] /\ pr \in Word /\ sp \in Word /\ fr \in Flags
  /\ error_instruction \in BOOLEAN
  /\ ir \in Instruction
  /\ operand \in Word /\ effective_addr \in Word /\ svc_vector_addr \in 0..MaxVector
  /\ write_word \in Word
  /\ mem_read_kind \in ArithOps \cup {"NONE", "POP", "RET", "SVC"}
  /\ mem_write_kind \in {"NONE", "ST", "PUSH", "CALL", "SVC"}
  /\ dest_reg \in 0..NumRegs
  /\ read_req \in BOOLEAN /\ read_addr \in Word
  /\ write_req \in Maybe(StoreOf(Word))
  /\ cpu_read_req_buf \in BOOLEAN
  /\ memory_rd \in Maybe(Ram) /\ device_rd \in Maybe(Devices)
  /\ memory_wr \in Maybe(StoreOf(Ram)) /\ device_wr \in Maybe(StoreOf(Devices))
  /\ read_data \in Maybe(Word) /\ ram_out \in Maybe(Word)
  /\ rd_data \in Maybe(Word) /\ device_data \in Maybe(Word)
  /\ memory \in [Ram -> Word]
  /\ hold \in 0..ResetEdges
  /\ image \in Images /\ coding \in Codings
  /\ executed \in 0..MaxInstructions

(* The chain of requests and answers executes the program an instruction   *)
(* at a time: what the registers, the memory and the devices have seen     *)
(* between two instructions is what the machine of Comet2 has, although    *)
(* the store of an instruction is still on its way when the next begins.   *)
Machine == INSTANCE Comet2 WITH
  phase <- seen.phase, gr <- seen.gr, pr <- seen.pr, sp <- seen.sp, fr <- seen.fr,
  error_instruction <- seen.error, memory <- seen.memory, io <- seen.io

ImplementsMachine == Machine!Spec

(* A shift by the amount at once is as many shifts by one.                 *)
ShiftsAgree ==
  \A op \in Shifts : \A value, amount \in Word :
    LET shifted == Machine!Shifted(op, value, amount)
    IN  /\ shifted.value = ShiftResult(op, value, amount)
        /\ (shifted.out = 1) <=> ShiftOverflow(op, value, amount)

(* An answer reaches the CPU only in a state that waits for one, and no    *)
(* second request is under way with it: comet2_cpu takes whatever is valid,*)
(* with no tag that would say which request it belongs to.                 *)
One(b) == IF b THEN 1 ELSE 0

InFlight ==
  One(ReadRises /\ read_addr < MmioTop) + One(memory_rd # None) + One(device_rd # None)
    + One(ram_out # None) + One(rd_data # None) + One(device_data # None)
    + One(read_data # None)

AnswersAwaited ==
  ~cpu_reset =>
    /\ InFlight <= 1
    /\ read_data # None => state \in WaitStates

(* A read of an SPRAM block never meets a store into it.                   *)
NoCollision == ~Collides

(* The stack is memory: no instruction pushes into a device or pops from   *)
(* one (README.md, "valid RAM-backed stack/data addresses").               *)
StackInRam ==
  /\ (state = "MEM_WRITE" /\ mem_write_kind \in {"PUSH", "CALL", "SVC"})
       => effective_addr \in Ram
  /\ (state = "MEM_READ_REQ" /\ mem_read_kind \in {"POP", "RET"}) => effective_addr \in Ram

(* An instruction ends, whatever the memory and the devices take for their *)
(* answers; it does not when it reads an address that nothing answers.     *)
Unanswered == state \in WaitStates /\ read_addr >= MmioTop

InstructionEnds ==
  state # "FETCH_REQ" ~> (state = "FETCH_REQ" \/ Unanswered \/ cpu_reset)

=============================================================================
