------------------------------ MODULE CometAlu ------------------------------
(***************************************************************************)
(* The arithmetic of comet2_cpu.v, by the bits the code looks at.          *)
(***************************************************************************)
EXTENDS CometIsa

SignBit(a) == a >= Half

signed_add_overflow(a, b, result) ==
  SignBit(a) = SignBit(b) /\ SignBit(result) # SignBit(a)

(* Mutant of signed_sub_overflow: the test of the addition.                *)
SubOverflowAsAdd(a, b, result) ==
  SignBit(a) = SignBit(b) /\ SignBit(result) # SignBit(a)

signed_sub_overflow(a, b, result) ==
  SignBit(a) # SignBit(b) /\ SignBit(result) # SignBit(a)

(* The result of op, for the register and for the flags, and its OF.       *)
AluResult(op, a, b) ==
  CASE op = "LD"                           -> b
    [] op \in {"ADDA", "ADDL"}             -> Wrap(a + b)
    [] op \in {"SUBA", "SUBL", "CPA", "CPL"} -> Wrap(a - b)
    [] op = "AND"                          -> FromBits(Bits(a) \cap Bits(b))
    [] op = "OR"                           -> FromBits(Bits(a) \cup Bits(b))
    [] op = "XOR"                          -> FromBits(SymDiff(Bits(a), Bits(b)))

AluOverflow(op, a, b) ==
  \/ op = "ADDA" /\ signed_add_overflow(a, b, Wrap(a + b))
  \/ op \in {"SUBA", "CPA"} /\ signed_sub_overflow(a, b, Wrap(a - b))
  \/ op = "ADDL" /\ a + b >= Size
  \/ op \in {"SUBL", "CPL"} /\ a < b

(* sla_result keeps the sign, sra_result copies it in; amounts beyond the  *)
(* word are cut to the amount that empties it.                             *)
ShiftResult(op, value, amount) ==
  LET sign == IF SignBit(value) THEN 1 ELSE 0
      n    == IF amount > Width THEN Width ELSE amount
  IN  CASE op = "SLA" -> sign * Half + (((value % Half) * 2^n) % Half)
        [] op = "SRA" -> (value \div 2^n) + sign * (Size - 2^(Width - n))
        [] op = "SLL" -> (value * 2^n) % Size
        [] op = "SRL" -> value \div 2^n

ShiftOverflow(op, value, amount) ==
  amount # 0 /\
  LET bit == CASE op = "SLA" -> IF amount >= Width - 1 THEN 0 ELSE Width - 1 - amount
               [] op = "SLL" -> IF amount >= Width THEN 0 ELSE Width - amount
               [] op \in {"SRA", "SRL"} -> IF amount >= Width THEN Width - 1 ELSE amount - 1
  IN  Bit(value, bit) = 1

set_fr(result, overflow) == [of |-> overflow, sf |-> SignBit(result), zf |-> result = 0]

(* Whatever the bits of its operands, a bitwise operation or a shift leaves *)
(* a word.                                                                 *)
ResultsAreWords ==
  /\ \A op \in {"AND", "OR", "XOR"} : \A a, b \in Word : AluResult(op, a, b) \in Word
  /\ \A op \in Shifts : \A value, amount \in Word : ShiftResult(op, value, amount) \in Word

=============================================================================
