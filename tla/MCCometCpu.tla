----------------------------- MODULE MCCometCpu -----------------------------
(* Instances of CometCpu for TLC: words of Width bits.                     *)
EXTENDS CometCpu

(* The hypotheses of the theorems of CometCpu_proofs, at this width.       *)
ASSUME AluAssumption == ResultsAreWords
ASSUME ShiftAssumption == ShiftsAgree

(* Every memory and register form, and every other instruction.            *)
Twice  == <<"LD", "ADDA", "SUBA", "ADDL", "SUBL", "AND", "OR", "XOR", "CPA", "CPL">>
Single == <<"SLA", "SRA", "SLL", "SRL", "JMI", "JNZ", "JZE", "JUMP", "JPL", "JOV", "NOP",
            "ST", "LAD", "PUSH", "POP", "CALL", "RET", "SVC", "undefined">>

Format(op, reg) == [op |-> op, reg |-> reg]

Listed == [i \in 1..2 * Len(Twice) + Len(Single) |->
             IF i <= Len(Twice) THEN Format(Twice[i], FALSE)
             ELSE IF i <= 2 * Len(Twice) THEN Format(Twice[i - Len(Twice)], TRUE)
             ELSE Format(Single[i - 2 * Len(Twice)], FALSE)]

(* A table gives each word a format and two fields; among them all formats *)
(* occur, and in two tables one of the fields is undefined.  Where `loads' *)
(* is set half of the words are LAD, which brings values into registers.   *)
Table(first, loads, fields) ==
  [w \in Word |->
     LET n      == IF loads THEN w \div 4 + 4 * (w % 2) ELSE w
         format == IF loads /\ w % 4 \in {1, 2} THEN Format("LAD", FALSE)
                   ELSE Listed[((n + first) % Len(Listed)) + 1]
     IN  [op |-> format.op, reg |-> format.reg,
          r |-> IF fields = "r" THEN NumRegs ELSE (w \div 3) % NumRegs,
          x |-> IF fields = "x" THEN NumRegs ELSE (w \div 2) % NumRegs]]

SomeCodings ==
  {Table(first, loads, "ok") : first \in {0, 8, 16, 24, 32}, loads \in BOOLEAN}
    \cup {Table(10, FALSE, "r"), Table(10, FALSE, "x")}

(* Memory images that mix all words: instructions, operands and data.      *)
SomeImages == {[a \in Ram |-> (a * m + b) % Size] : m \in {1, 3, 5, 7, 11, 13}, b \in Word}
=============================================================================
