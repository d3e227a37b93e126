------------------------------- MODULE Comet2 -------------------------------
(***************************************************************************)
(* The COMET II machine as its programmer sees it: an instruction is one   *)
(* step, its arithmetic is stated on integers, and every access to a       *)
(* device is made once.  CometCpu implements it.                           *)
(***************************************************************************)
EXTENDS CometIsa, Sequences

VARIABLES
  phase,              \* "reset", or "run"
  image, coding,      \* what the loader puts into memory, what words mean
  gr, pr, sp, fr, error_instruction, memory,
  io                  \* accesses of the devices, in order

vars == <<phase, image, coding, gr, pr, sp, fr, error_instruction, memory, io>>

Access == [kind : {"read", "write"}, addr : Devices, word : Word]

Stopped ==
  /\ gr = [i \in Regs |-> 0]
  /\ pr = 0 /\ sp = 0
  /\ fr = [of |-> FALSE, sf |-> FALSE, zf |-> FALSE]
  /\ error_instruction = FALSE
  /\ memory = image
  /\ io = << >>

Init == phase = "reset" /\ Stopped

-----------------------------------------------------------------------------
(* Arithmetic by its meaning.                                              *)
Signed(a) == IF a >= Half THEN a - Size ELSE a
FitsSigned(n) == n \in -Half..Half - 1

(* What op leaves of the register and its OF.                              *)
Value(op, a, b) ==
  CASE op = "LD"                       -> b
    [] op \in {"ADDA", "ADDL"}         -> (a + b) % Size
    [] op \in {"SUBA", "SUBL"} \cup Compares -> (a - b) % Size
    [] op = "AND"                      -> FromBits(Bits(a) \cap Bits(b))
    [] op = "OR"                       -> FromBits(Bits(a) \cup Bits(b))
    [] op = "XOR"                      -> FromBits(SymDiff(Bits(a), Bits(b)))

Overflow(op, a, b) ==
  CASE op = "ADDA"             -> ~FitsSigned(Signed(a) + Signed(b))
    [] op \in {"SUBA", "CPA"}  -> ~FitsSigned(Signed(a) - Signed(b))
    [] op = "ADDL"             -> a + b >= Size
    [] op \in {"SUBL", "CPL"}  -> a < b
    [] OTHER                   -> FALSE

(* One position of a shift, and the bit that leaves the word.              *)
ShiftOnce(op, v) ==
  CASE op = "SLA" -> [value |-> (v \div Half) * Half + ((2 * v) % Half), out |-> Bit(v, Width - 2)]
    [] op = "SRA" -> [value |-> (v \div Half) * Half + (v \div 2), out |-> v % 2]
    [] op = "SLL" -> [value |-> (2 * v) % Size, out |-> v \div Half]
    [] op = "SRL" -> [value |-> v \div 2, out |-> v % 2]

(* A longer shift than the word behaves as one that just empties it.       *)
Shifted(op, v, amount) ==
  LET limit == IF op = "SLA" THEN Width - 1 ELSE Width
      after[n \in 0..Width] == IF n = 0 THEN [value |-> v, out |-> 0]
                               ELSE ShiftOnce(op, after[n - 1].value)
  IN  after[IF amount > limit THEN limit ELSE amount]

FlagsOf(v, overflow) == [of |-> overflow, sf |-> v >= Half, zf |-> v = 0]

Jump(op) == CASE op = "JUMP" -> TRUE
              [] op = "JMI"  -> fr.sf
              [] op = "JPL"  -> ~fr.sf /\ ~fr.zf
              [] op = "JZE"  -> fr.zf
              [] op = "JNZ"  -> ~fr.zf
              [] op = "JOV"  -> fr.of

-----------------------------------------------------------------------------
(* A read of a device returns what the device has; nothing answers beyond. *)
Answer(a) == IF a \in Ram THEN {memory[a]} ELSE IF a \in Devices THEN Word ELSE {}

Read(a, word) == IF a \in Devices THEN <<[kind |-> "read", addr |-> a, word |-> word]>>
                 ELSE << >>

Store(a, word) == IF a \in Devices THEN <<[kind |-> "write", addr |-> a, word |-> word]>>
                  ELSE << >>

Stored(a, word) == IF a \in Ram THEN [memory EXCEPT ![a] = word] ELSE memory

(* The stack lies in memory: no push from its end, no pop beyond it.       *)
CanPush == sp \in Ram \ {0}
CanPop  == sp < RamTop

Only(before) == io' = before /\ UNCHANGED <<gr, sp, fr, memory>>

Fault(next, before) ==
  error_instruction' = TRUE /\ pr' = next /\ Only(before)

Compute(insn, ea, next, before) ==
  \E b \in IF insn.reg THEN {gr[insn.x]} ELSE Answer(ea) :
    LET value == Value(insn.op, gr[insn.r], b)
    IN  /\ gr' = IF insn.op \in Compares THEN gr ELSE [gr EXCEPT ![insn.r] = value]
        /\ fr' = FlagsOf(value, Overflow(insn.op, gr[insn.r], b))
        /\ io' = before \o (IF insn.reg THEN << >> ELSE Read(ea, b))
        /\ pr' = next
        /\ UNCHANGED <<sp, memory, error_instruction>>

Shift(insn, ea, next, before) ==
  LET shifted == Shifted(insn.op, gr[insn.r], ea)
  IN  /\ gr' = [gr EXCEPT ![insn.r] = shifted.value]
      /\ fr' = FlagsOf(shifted.value, shifted.out = 1)
      /\ pr' = next /\ io' = before
      /\ UNCHANGED <<sp, memory, error_instruction>>

Push(word, next, before) ==
  /\ CanPush
  /\ sp' = sp - 1
  /\ memory' = Stored(sp - 1, word)
  /\ pr' = next /\ io' = before
  /\ UNCHANGED <<gr, fr, error_instruction>>

SvcCall(number, next, before) ==
  /\ CanPush
  /\ sp' = sp - 1
  /\ memory' = Stored(sp - 1, next)
  /\ pr' = memory'[number] /\ io' = before
  /\ UNCHANGED <<gr, fr, error_instruction>>

SvcReset(before) ==
  pr' = memory[0] /\ sp' = memory[SpCell] /\ io' = before
    /\ UNCHANGED <<gr, fr, memory, error_instruction>>

Pop(insn, next, before) ==
  /\ CanPop
  /\ sp' = Wrap(sp + 1)
  /\ gr' = IF insn.op = "POP" THEN [gr EXCEPT ![insn.r] = memory[sp]] ELSE gr
  /\ pr' = IF insn.op = "RET" THEN memory[sp] ELSE next
  /\ io' = before
  /\ UNCHANGED <<fr, memory, error_instruction>>

Illegal(insn, ea) ==
  \/ BadField(insn)
  \/ insn.op = "undefined"
  \/ insn.op \in {"PUSH", "CALL"} /\ ~CanPush
  \/ insn.op \in {"POP", "RET"} /\ ~CanPop
  \/ insn.op = "SVC" /\ ea % SvcSpan # 0 /\ (ea % SvcSpan > MaxVector \/ ~CanPush)

Execute(insn, ea, next, before) ==
  \/ insn.op \in ArithOps /\ Compute(insn, ea, next, before)
  \/ insn.op \in Shifts /\ Shift(insn, ea, next, before)
  \/ /\ insn.op = "NOP" /\ pr' = next /\ Only(before) /\ UNCHANGED error_instruction
  \/ /\ insn.op = "LAD"
     /\ gr' = [gr EXCEPT ![insn.r] = ea]
     /\ pr' = next /\ io' = before /\ UNCHANGED <<sp, fr, memory, error_instruction>>
  \/ /\ insn.op = "ST"
     /\ memory' = Stored(ea, gr[insn.r])
     /\ io' = before \o Store(ea, gr[insn.r])
     /\ pr' = next /\ UNCHANGED <<gr, sp, fr, error_instruction>>
  \/ /\ insn.op \in Jumps
     /\ pr' = IF Jump(insn.op) THEN ea ELSE next
     /\ Only(before) /\ UNCHANGED error_instruction
  \/ insn.op = "PUSH" /\ Push(ea, next, before)
  \/ insn.op = "CALL" /\ Push(next, ea, before)
  \/ insn.op \in {"POP", "RET"} /\ Pop(insn, next, before)
  \/ insn.op = "SVC" /\ ea % SvcSpan = 0 /\ SvcReset(before)
  \/ insn.op = "SVC" /\ ea % SvcSpan # 0 /\ SvcCall(ea % SvcSpan, next, before)

Step ==
  /\ phase = "run"
  /\ \E word \in Answer(pr) : \E operand \in
         IF is_two_word_instruction(coding[word]) THEN Answer(Wrap(pr + 1)) ELSE {0} :
       LET insn   == coding[word]
           long   == is_two_word_instruction(insn)
           next   == Wrap(IF long THEN Wrap(pr + 1) + 1 ELSE pr + 1)
           ea     == indexed_addr(gr, operand, insn.x)
           before == io \o Read(pr, word)
                        \o (IF long THEN Read(Wrap(pr + 1), operand) ELSE << >>)
       IN  IF Illegal(insn, ea) THEN Fault(next, before)
           ELSE Execute(insn, ea, next, before)
  /\ UNCHANGED <<phase, image, coding>>

Boot ==
  /\ phase = "reset"
  /\ phase' = "run"
  /\ pr' = memory[0] /\ sp' = memory[SpCell]
  /\ UNCHANGED <<image, coding, gr, fr, error_instruction, memory, io>>

Reset == phase' = "reset" /\ Stopped' /\ UNCHANGED <<image, coding>>

Next == Step \/ Boot \/ Reset

Spec == Init /\ [][Next]_vars

=============================================================================
