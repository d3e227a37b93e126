------------------------------ MODULE CometIsa ------------------------------
(***************************************************************************)
(* The words, addresses and instruction formats of comet2_cpu.v.           *)
(* An instruction word is decoded by the table `coding', so that a word of *)
(* a few bits can stand for any instruction.                               *)
(***************************************************************************)
EXTENDS Integers, FiniteSetsExt

CONSTANTS
  Width,        \* 16 in the source: bits of a word
  Half,         \* 2^15: the first word whose sign bit is set
  RamTop,       \* F000: the words below are memory
  MmioTop,      \* F400: from RamTop up to here a device answers
  SpCell,       \* 31: the memory word with the initial SP
  SvcSpan,      \* 256: a supervisor call uses the low byte of its operand
  MaxVector,    \* 15: the last vector
  NumRegs       \* 8: the registers of gr; a larger field is undefined

ASSUME IsaAssumption ==
  /\ Width \in Nat \ {0, 1}
  /\ Half = 2^(Width - 1)
  /\ Half \in Nat \ {0}
  /\ RamTop \in 1..2 * Half - 1
  /\ MmioTop \in RamTop..2 * Half - 1
  /\ SpCell \in 1..RamTop - 1
  /\ SvcSpan \in 1..2 * Half
  /\ MaxVector \in 1..RamTop - 1
  /\ NumRegs \in Nat \ {0}

Size    == 2 * Half
Word    == 0..Size - 1
Ram     == 0..RamTop - 1
Devices == RamTop..MmioTop - 1
Regs    == 0..NumRegs - 1
Flags   == [of : BOOLEAN, sf : BOOLEAN, zf : BOOLEAN]

(* Sums and differences of two words, cut to a word.                       *)
Wrap(n) == IF n >= Size THEN n - Size ELSE IF n < 0 THEN n + Size ELSE n

(* The operations with a memory form (r, adr, x) and a register form       *)
(* (r1, r2), and the others.                                               *)
Compares == {"CPA", "CPL"}
ArithOps == {"LD", "ADDA", "SUBA", "ADDL", "SUBL", "AND", "OR", "XOR"} \cup Compares
Shifts   == {"SLA", "SRA", "SLL", "SRL"}
Jumps    == {"JMI", "JNZ", "JZE", "JUMP", "JPL", "JOV"}
Ops      == ArithOps \cup Shifts \cup Jumps
              \cup {"NOP", "ST", "LAD", "PUSH", "POP", "CALL", "RET", "SVC", "undefined"}

Instruction == [op : Ops, reg : BOOLEAN, r : 0..NumRegs, x : 0..NumRegs]

is_two_word_instruction(insn) ==
  \/ insn.op \in ArithOps /\ ~insn.reg
  \/ insn.op \in Shifts \cup Jumps \cup {"ST", "LAD", "PUSH", "CALL", "SVC"}

uses_r_field(insn) == insn.op \in ArithOps \cup Shifts \cup {"ST", "LAD", "POP"}

uses_x_field(insn) == insn.op \in Ops \ {"NOP", "POP", "RET", "undefined"}

BadField(insn) ==
  \/ uses_r_field(insn) /\ insn.r \notin Regs
  \/ uses_x_field(insn) /\ insn.x \notin Regs

(* Field x = 0 means no index register.                                    *)
indexed_addr(gr, addr, x) ==
  IF x \in Regs \ {0} THEN Wrap(addr + gr[x]) ELSE addr

(* The bits of a word and back.                                            *)
Bit(word, i) == (word \div 2^i) % 2
Bits(word) == {i \in 0..Width - 1 : Bit(word, i) = 1}
FromBits(set) == MapThenSumSet(LAMBDA i : 2^i, set)

=============================================================================
