---------------------------- MODULE SpiHw_proofs ----------------------------
(***************************************************************************)
(* Theorems about spi_hw: the counters of top.v stay in step with the      *)
(* host's bytes across retries and sessions, so each reply is the reply to *)
(* the command it comes with.                                              *)
(***************************************************************************)
EXTENDS SpiHw, TLAPS, SequenceTheorems

-----------------------------------------------------------------------------
(* The reply to command n from its third byte on: the status, and what     *)
(* data_to_send holds after each of the first five bytes.                  *)
Answer(n, i) ==
  IF i = 0 THEN Status
  ELSE IF i = 1 THEN Script[n][1]
  ELSE IF n = 2 THEN Invert(Script[n][i])
  ELSE IF n \in {3, 4} THEN Script[n][i]
  ELSE IF n \in 9..12 THEN VecBytes(n - 8)[i - 1]
  ELSE Script[n][1]

Limit(n) == IF n < 6 THEN n ELSE 6

(* The byte in the receive register is byte k - 1 of the command, or the   *)
(* last byte of the one before.                                            *)
Counters ==
  IF rx = << >>
  THEN counter_read = k /\ counter_send = Limit(k) /\ state_spi = "WAIT_RECEPTION"
  ELSE /\ counter_read = (IF k = 0 THEN 7 ELSE k - 1)
       /\ state_spi \in {"WAIT_RECEPTION", "TRANSMIT_READY", "TRANSMIT", "READ_OPCODE"}
       /\ state_spi \in {"TRANSMIT_READY", "TRANSMIT"} => counter_read < 6
       /\ counter_send = Limit(IF state_spi = "READ_OPCODE" THEN counter_read + 1
                               ELSE counter_read)
       /\ rx = <<rx[1]>>
       /\ k > 0 => rx[1] = Script[at][k]

(* The reply on its way: in data_to_send, the transmit register, on the    *)
(* wire and with the host.                                                 *)
Pipeline ==
  /\ (rx = << >> /\ k \in 1..5) => data_to_send = Answer(at, k)
  /\ (rx # << >> /\ k \in 2..6) => data_to_send = Answer(at, k - 1)
  /\ IF k \in 1..6 /\ (rx = << >> \/ state_spi = "READ_OPCODE")
     THEN tx = <<Answer(at, k - 1)>> ELSE tx = << >>
  /\ k \in 2..7 => shift = Answer(at, k - 2)
  /\ \A i \in 1..Len(recv) : recv[i] = Answer(at, i - 1)

Opcode ==
  /\ ((rx = << >> /\ k > 0) \/ k > 1) => command_data[0] = Script[at][1]
  /\ ((rx = << >> /\ k > 1) \/ k > 2) => command_data[1] = Script[at][2]
  /\ (at \in {4, 5} /\ k = 0) =>
       IF rx = << >> THEN led = Script[at - 1][2]
       ELSE command_data[0] = WR_LEDS /\ command_data[1] = Script[at - 1][2]

(* The bytes of the vector seen by the command that is being sent.         *)
Seen ==
  LET n == IF rx = << >> THEN k ELSE k - 1
  IN IF n <= 1 THEN 0 ELSE IF n <= 5 THEN n - 1 ELSE 4

VecValue(p) == VecBytes((p \div 4) + 1)[(p % 4) + 1]

HoldsVector(c, n) == \A p \in 0..n - 1 : data_vector[(c + p) % 16] = VecValue(p)

Vector ==
  /\ at \in 5..8 => \E c \in 0..15 :
       /\ counter_vector = (c + (4 * (at - 5) + Seen)) % 16
       /\ HoldsVector(c, 4 * (at - 5) + Seen)
  /\ at \in 9..13 => \E c \in 0..15 :
       /\ counter_vector = (c + (4 * (at - 9) + Seen)) % 16
       /\ HoldsVector(c, 16)

(* Before top.v has seen 11h, the last byte of INIT, the host is in its    *)
(* first transfer.                                                         *)
BeforeInit ==
  /\ counter_read = 0 /\ counter_send = 0 /\ tx = << >>
  /\ state_spi \in {Setup[n] : n \in DOMAIN Setup} \cup {"READ_INIT"}
  /\ state_spi \notin {"WAIT_RECEPTION", "READ_INIT"} => rx = << >>
  /\ state_spi = "READ_INIT" => rx # << >>
  /\ rx = << >> => at = 1
  /\ rx # << >> => rx = <<rx[1]>>
  /\ (rx # << >> /\ k > 0) => (at = 1 /\ rx[1] = Script[1][k])
  /\ (rx # << >> /\ k = 0) => (at \in {1, 2} /\ rx[1] = InitByte)

RepliesSoFar ==
  /\ Len(got) = at - 1
  /\ \A n \in 1..at - 1 : Expected(n) # << >> => got[n] = Expected(n)

HostInv == (k > 0 => at <= 12) /\ RepliesSoFar

InStep == Counters /\ Pipeline /\ Opcode /\ Vector

StepInv == HostInv /\ (IF is_spi_init THEN InStep ELSE BeforeInit)

-----------------------------------------------------------------------------
(* The commands of main.                                                   *)
LEMMA SequenceOfFour ==
  ASSUME NEW S, NEW a \in S, NEW b \in S, NEW c \in S, NEW d \in S
  PROVE  <<a, b, c, d>> \in Seq(S) /\ Len(<<a, b, c, d>>) = 4
  OBVIOUS

LEMMA FunctionIsSequence ==
  ASSUME NEW S, NEW n \in Nat, NEW f \in [1..n -> S]
  PROVE  f \in Seq(S) /\ Len(f) = n
  BY IsASeq, SeqDef, LenProperties

LEMMA ByteConcat ==
  ASSUME NEW s \in Seq(Byte), NEW t \in Seq(Byte)
  PROVE  /\ s \o t \in Seq(Byte) /\ Len(s \o t) = Len(s) + Len(t)
         /\ \A i \in 1..Len(s) + Len(t) :
              (s \o t)[i] = IF i <= Len(s) THEN s[i] ELSE t[i - Len(s)]
  BY ConcatProperties

Bytes == Seq(Byte)

LEMMA CommandConcat ==
  ASSUME NEW s \in Seq(Bytes), NEW t \in Seq(Bytes)
  PROVE  /\ s \o t \in Seq(Bytes) /\ Len(s \o t) = Len(s) + Len(t)
         /\ \A i \in 1..Len(s) + Len(t) :
              (s \o t)[i] = IF i <= Len(s) THEN s[i] ELSE t[i - Len(s)]
  BY ConcatProperties

Five(op, a, b, c, d) == <<op>> \o <<a, b, c, d>>

Eight(op, a, b, c, d, last) == Command(op, <<a, b, c, d>>, last)

LEMMA FiveIs ==
  ASSUME NEW op \in Byte, NEW a \in Byte, NEW b \in Byte, NEW c \in Byte, NEW d \in Byte
  PROVE  /\ Five(op, a, b, c, d) \in Seq(Byte) /\ Len(Five(op, a, b, c, d)) = 5
         /\ Five(op, a, b, c, d)[1] = op
         /\ Five(op, a, b, c, d)[2] = a /\ Five(op, a, b, c, d)[3] = b
         /\ Five(op, a, b, c, d)[4] = c /\ Five(op, a, b, c, d)[5] = d
<1> DEFINE o == <<op>>
           t == <<a, b, c, d>>
           v == o \o t
<1>1. o \in Seq(Byte) /\ Len(o) = 1 /\ o[1] = op
  OBVIOUS
<1>2. t \in Seq(Byte) /\ Len(t) = 4 /\ t[1] = a /\ t[2] = b /\ t[3] = c /\ t[4] = d
  OBVIOUS
<1>3. Five(op, a, b, c, d) = v
  BY Zenon DEF Five
<1>4. 5 = 1 + 4
  OBVIOUS
<1> HIDE DEF o, t
<1>5. v \in Seq(Byte) /\ Len(v) = 5
  BY <1>1, <1>2, <1>4, ByteConcat
<1>6. \A i \in 1..5 : v[i] = IF i <= 1 THEN o[i] ELSE t[i - 1]
  <2>1. \A i \in 1..Len(o) + Len(t) : v[i] = IF i <= Len(o) THEN o[i] ELSE t[i - Len(o)]
    BY Zenon, <1>1, <1>2, ByteConcat
  <2>2. QED
    BY Zenon, <1>1, <1>2, <1>4, <2>1
<1> HIDE DEF v
<1>7. v[1] = op /\ v[2] = a /\ v[3] = b /\ v[4] = c /\ v[5] = d
  BY <1>1, <1>2, <1>6
<1>8. QED
  BY Zenon, <1>3, <1>5, <1>7

(* The bytes of a command.                                                 *)
IsCommand(e, op, a, b, c, d, last) ==
  /\ e \in Seq(Byte) /\ Len(e) = 8
  /\ e[1] = op /\ e[2] = a /\ e[3] = b /\ e[4] = c /\ e[5] = d
  /\ e[6] = 0 /\ e[7] = 0 /\ e[8] = last

LEMMA EightBytes ==
  ASSUME NEW op \in Byte, NEW a \in Byte, NEW b \in Byte, NEW c \in Byte, NEW d \in Byte,
         NEW last \in Byte
  PROVE  IsCommand(Eight(op, a, b, c, d, last), op, a, b, c, d, last)
<1> DEFINE v == Five(op, a, b, c, d)
           u == <<0, 0, last>>
           w == v \o u
<1>1. /\ v \in Seq(Byte) /\ Len(v) = 5
      /\ v[1] = op /\ v[2] = a /\ v[3] = b /\ v[4] = c /\ v[5] = d
  BY FiveIs
<1>2. 0 \in Byte
  BY DEF Byte
<1>3. u \in Seq(Byte) /\ Len(u) = 3 /\ u[1] = 0 /\ u[2] = 0 /\ u[3] = last
  BY <1>2
<1>4. Eight(op, a, b, c, d, last) = w
  BY Zenon DEF Eight, Command, Five
<1>5. 8 = 5 + 3
  OBVIOUS
<1> HIDE DEF v, u
<1>6. w \in Seq(Byte) /\ Len(w) = 8
  BY <1>1, <1>3, <1>5, ByteConcat
<1>7. \A i \in 1..8 : w[i] = IF i <= 5 THEN v[i] ELSE u[i - 5]
  <2>1. \A i \in 1..Len(v) + Len(u) : w[i] = IF i <= Len(v) THEN v[i] ELSE u[i - Len(v)]
    BY Zenon, <1>1, <1>3, ByteConcat
  <2>2. QED
    BY Zenon, <1>1, <1>3, <1>5, <2>1
<1> HIDE DEF w
<1>8. w[1] = op /\ w[2] = a /\ w[3] = b /\ w[4] = c /\ w[5] = d
  BY <1>1, <1>7
<1>9. w[6] = 0 /\ w[7] = 0 /\ w[8] = last
  BY <1>3, <1>7
<1>10. IsCommand(w, op, a, b, c, d, last)
  BY Zenon, <1>6, <1>8, <1>9 DEF IsCommand
<1>11. QED
  BY Zenon, <1>4, <1>10

LEMMA EightType ==
  ASSUME NEW op \in Byte, NEW a \in Byte, NEW b \in Byte, NEW c \in Byte, NEW d \in Byte,
         NEW last \in Byte
  PROVE  Eight(op, a, b, c, d, last) \in Bytes
BY Zenon, EightBytes DEF Bytes, IsCommand

First4 == <<Eight(INIT, 0, 0, 0, 0, InitByte), Eight(WR_INVERTED, 56, 174, 59, 72, 0),
            Eight(WR_LEDS, 3, 0, 0, 0, 0), Eight(WR_LEDS, 4, 0, 0, 0, 0)>>
Writes == [n \in 1..4 |-> Eight(WR_VEC, 4 * n, 3 * n, 2 * n, n, 0)]
Reads  == [n \in 1..4 |-> Eight(RD_VEC, 0, 0, 0, 0, 0)]

LEMMA CodeBytes ==
  /\ INIT \in Byte /\ WR_INVERTED \in Byte /\ WR_LEDS \in Byte /\ WR_VEC \in Byte
  /\ RD_VEC \in Byte /\ InitByte \in Byte /\ Status \in Byte
  /\ 0 \in Byte /\ 3 \in Byte /\ 4 \in Byte
  /\ 56 \in Byte /\ 174 \in Byte /\ 59 \in Byte /\ 72 \in Byte
  BY DEF INIT, WR_INVERTED, WR_LEDS, WR_VEC, RD_VEC, InitByte, Status, Byte

LEMMA VectorBytes ==
  ASSUME NEW n \in 1..4
  PROVE  4 * n \in Byte /\ 3 * n \in Byte /\ 2 * n \in Byte /\ n \in Byte
  BY DEF Byte

LEMMA ScriptParts ==
  /\ First4 \in Seq(Bytes) /\ Len(First4) = 4
  /\ Writes \in Seq(Bytes) /\ Len(Writes) = 4
  /\ Reads \in Seq(Bytes) /\ Len(Reads) = 4
<1>1. 4 \in Nat
  OBVIOUS
<1>2. First4 \in Seq(Bytes) /\ Len(First4) = 4
  <2>1. /\ Eight(INIT, 0, 0, 0, 0, InitByte) \in Bytes
        /\ Eight(WR_INVERTED, 56, 174, 59, 72, 0) \in Bytes
        /\ Eight(WR_LEDS, 3, 0, 0, 0, 0) \in Bytes
        /\ Eight(WR_LEDS, 4, 0, 0, 0, 0) \in Bytes
    BY Zenon, EightType, CodeBytes
  <2>2. QED
    BY <2>1, SequenceOfFour DEF First4
<1>3. Writes \in Seq(Bytes) /\ Len(Writes) = 4
  <2>1. \A n \in 1..4 : Eight(WR_VEC, 4 * n, 3 * n, 2 * n, n, 0) \in Bytes
    BY Zenon, EightType, CodeBytes, VectorBytes
  <2>2. Writes \in [1..4 -> Bytes]
    BY <2>1 DEF Writes
  <2>3. QED
    BY Zenon, <1>1, <2>2, FunctionIsSequence
<1>4. Reads \in Seq(Bytes) /\ Len(Reads) = 4
  <2>1. Eight(RD_VEC, 0, 0, 0, 0, 0) \in Bytes
    BY Zenon, EightType, CodeBytes
  <2>2. Reads \in [1..4 -> Bytes]
    BY <2>1 DEF Reads
  <2>3. QED
    BY Zenon, <1>1, <2>2, FunctionIsSequence
<1>5. QED
  BY <1>2, <1>3, <1>4

LEMMA ScriptEntries ==
  /\ Len(Script) = 12
  /\ \A n \in 1..4 : Script[n] = First4[n]
  /\ \A n \in 5..8 : Script[n] = Writes[n - 4]
  /\ \A n \in 9..12 : Script[n] = Reads[n - 8]
<1> DEFINE f == First4 \o Writes
           s == f \o Reads
<1>1. 8 = 4 + 4 /\ 12 = 8 + 4
  OBVIOUS
<1>2. f \in Seq(Bytes) /\ Len(f) = 8
  <2>1. f \in Seq(Bytes) /\ Len(f) = Len(First4) + Len(Writes)
    BY Zenon, ScriptParts, CommandConcat
  <2>2. QED
    BY Zenon, <1>1, ScriptParts, <2>1
<1>3. \A i \in 1..8 : f[i] = IF i <= 4 THEN First4[i] ELSE Writes[i - 4]
  <2>1. \A i \in 1..Len(First4) + Len(Writes) :
           f[i] = IF i <= Len(First4) THEN First4[i] ELSE Writes[i - Len(First4)]
    BY Zenon, ScriptParts, CommandConcat
  <2>2. QED
    BY Zenon, <1>1, ScriptParts, <2>1
<1> HIDE DEF f
<1>4. s \in Seq(Bytes) /\ Len(s) = 12
  <2>1. s \in Seq(Bytes) /\ Len(s) = Len(f) + Len(Reads)
    BY Zenon, <1>2, ScriptParts, CommandConcat
  <2>2. QED
    BY Zenon, <1>1, <1>2, ScriptParts, <2>1
<1>5. \A i \in 1..12 : s[i] = IF i <= 8 THEN f[i] ELSE Reads[i - 8]
  <2>1. \A i \in 1..Len(f) + Len(Reads) :
           s[i] = IF i <= Len(f) THEN f[i] ELSE Reads[i - Len(f)]
    BY Zenon, <1>2, ScriptParts, CommandConcat
  <2>2. QED
    BY Zenon, <1>1, <1>2, ScriptParts, <2>1
<1>6. Script = s
  BY Zenon DEF Script, First4, Writes, Reads, Eight, VecBytes, f
<1> HIDE DEF s
<1>7. QED
  BY <1>3, <1>4, <1>5, <1>6

LEMMA Commands ==
  /\ Script[1] = Eight(INIT, 0, 0, 0, 0, InitByte)
  /\ Script[2] = Eight(WR_INVERTED, 56, 174, 59, 72, 0)
  /\ Script[3] = Eight(WR_LEDS, 3, 0, 0, 0, 0)
  /\ Script[4] = Eight(WR_LEDS, 4, 0, 0, 0, 0)
  /\ \A n \in 5..8 :
       Script[n] = Eight(WR_VEC, 4 * (n - 4), 3 * (n - 4), 2 * (n - 4), n - 4, 0)
  /\ \A n \in 9..12 : Script[n] = Eight(RD_VEC, 0, 0, 0, 0, 0)
<1>1. \A n \in 1..4 : Script[n] = First4[n]
  BY Zenon, ScriptEntries
<1>2. 1 \in 1..4 /\ 2 \in 1..4 /\ 3 \in 1..4 /\ 4 \in 1..4
  OBVIOUS
<1>3. /\ First4[1] = Eight(INIT, 0, 0, 0, 0, InitByte)
      /\ First4[2] = Eight(WR_INVERTED, 56, 174, 59, 72, 0)
      /\ First4[3] = Eight(WR_LEDS, 3, 0, 0, 0, 0)
      /\ First4[4] = Eight(WR_LEDS, 4, 0, 0, 0, 0)
  BY DEF First4
<1>4. ASSUME NEW n \in 5..8
      PROVE  Script[n] = Eight(WR_VEC, 4 * (n - 4), 3 * (n - 4), 2 * (n - 4), n - 4, 0)
  <2>1. n - 4 \in 1..4
    OBVIOUS
  <2>2. Writes[n - 4] = Eight(WR_VEC, 4 * (n - 4), 3 * (n - 4), 2 * (n - 4), n - 4, 0)
    BY Zenon, <2>1 DEF Writes
  <2>3. QED
    BY Zenon, <2>2, ScriptEntries
<1>5. ASSUME NEW n \in 9..12
      PROVE  Script[n] = Eight(RD_VEC, 0, 0, 0, 0, 0)
  <2>1. n - 8 \in 1..4
    OBVIOUS
  <2>2. Reads[n - 8] = Eight(RD_VEC, 0, 0, 0, 0, 0)
    BY Zenon, <2>1 DEF Reads
  <2>3. QED
    BY Zenon, <2>2, ScriptEntries
<1>6. QED
  BY Zenon, <1>1, <1>2, <1>3, <1>4, <1>5

LEMMA CommandTable ==
  /\ IsCommand(Script[1], INIT, 0, 0, 0, 0, InitByte)
  /\ IsCommand(Script[2], WR_INVERTED, 56, 174, 59, 72, 0)
  /\ IsCommand(Script[3], WR_LEDS, 3, 0, 0, 0, 0)
  /\ IsCommand(Script[4], WR_LEDS, 4, 0, 0, 0, 0)
  /\ \A n \in 5..8 :
       IsCommand(Script[n], WR_VEC, 4 * (n - 4), 3 * (n - 4), 2 * (n - 4), n - 4, 0)
  /\ \A n \in 9..12 : IsCommand(Script[n], RD_VEC, 0, 0, 0, 0, 0)
<1>1. IsCommand(Script[1], INIT, 0, 0, 0, 0, InitByte)
  <2>1. IsCommand(Eight(INIT, 0, 0, 0, 0, InitByte), INIT, 0, 0, 0, 0, InitByte)
    BY Zenon, CodeBytes, EightBytes
  <2>2. QED
    BY Zenon, <2>1, Commands
<1>2. IsCommand(Script[2], WR_INVERTED, 56, 174, 59, 72, 0)
  <2>1. IsCommand(Eight(WR_INVERTED, 56, 174, 59, 72, 0), WR_INVERTED, 56, 174, 59, 72, 0)
    BY Zenon, CodeBytes, EightBytes
  <2>2. QED
    BY Zenon, <2>1, Commands
<1>3. IsCommand(Script[3], WR_LEDS, 3, 0, 0, 0, 0)
  <2>1. IsCommand(Eight(WR_LEDS, 3, 0, 0, 0, 0), WR_LEDS, 3, 0, 0, 0, 0)
    BY Zenon, CodeBytes, EightBytes
  <2>2. QED
    BY Zenon, <2>1, Commands
<1>4. IsCommand(Script[4], WR_LEDS, 4, 0, 0, 0, 0)
  <2>1. IsCommand(Eight(WR_LEDS, 4, 0, 0, 0, 0), WR_LEDS, 4, 0, 0, 0, 0)
    BY Zenon, CodeBytes, EightBytes
  <2>2. QED
    BY Zenon, <2>1, Commands
<1>5. ASSUME NEW n \in 5..8
      PROVE  IsCommand(Script[n], WR_VEC, 4 * (n - 4), 3 * (n - 4), 2 * (n - 4), n - 4, 0)
  <2>1. n - 4 \in 1..4
    OBVIOUS
  <2>2. /\ 4 * (n - 4) \in Byte /\ 3 * (n - 4) \in Byte /\ 2 * (n - 4) \in Byte
        /\ n - 4 \in Byte
    BY Zenon, <2>1, VectorBytes
  <2>3. IsCommand(Eight(WR_VEC, 4 * (n - 4), 3 * (n - 4), 2 * (n - 4), n - 4, 0),
                  WR_VEC, 4 * (n - 4), 3 * (n - 4), 2 * (n - 4), n - 4, 0)
    BY Zenon, <2>2, CodeBytes, EightBytes
  <2>4. QED
    BY Zenon, <2>3, Commands
<1>6. ASSUME NEW n \in 9..12
      PROVE  IsCommand(Script[n], RD_VEC, 0, 0, 0, 0, 0)
  <2>1. IsCommand(Eight(RD_VEC, 0, 0, 0, 0, 0), RD_VEC, 0, 0, 0, 0, 0)
    BY Zenon, CodeBytes, EightBytes
  <2>2. QED
    BY Zenon, <2>1, Commands
<1>7. QED
  BY Zenon, <1>1, <1>2, <1>3, <1>4, <1>5, <1>6

LEMMA ScriptBytes ==
  ASSUME NEW n \in 1..12
  PROVE  /\ Script[n] \in Seq(Byte) /\ Len(Script[n]) = 8
         /\ \A i \in 1..8 : Script[n][i] \in Byte
<1>1. Script[n] \in Seq(Byte) /\ Len(Script[n]) = 8
  <2>1. n \in {1, 2, 3, 4} \/ n \in 5..8 \/ n \in 9..12
    OBVIOUS
  <2>2. QED
    BY Zenon, <2>1, CommandTable DEF IsCommand
<1>2. QED
  BY <1>1

-----------------------------------------------------------------------------
(* Types, and what they rest on.                                           *)
StateInv ==
  /\ state_spi \in {"READ_INIT", "READ_OPCODE", "TRANSMIT_READY", "TRANSMIT"} => rx # << >>
  /\ state_spi \in {"TRANSMIT_READY", "TRANSMIT"} => counter_send < 6

States == {"INIT_SPICR0", "INIT_SPICR1", "INIT_SPICR2", "INIT_SPIBR", "INIT_SPICSR",
           "WAIT_RECEPTION", "TRANSMIT_READY", "TRANSMIT", "READ_INIT", "READ_OPCODE"}

LEMMA SetupStates ==
  /\ DOMAIN Setup = 1..6 /\ Len(Setup) = 6
  /\ {Setup[n] : n \in DOMAIN Setup} \cup {"TRANSMIT_READY", "TRANSMIT", "READ_INIT", "READ_OPCODE"}
       = States
  /\ \A n \in 1..5 : Setup[n + 1] \in {"INIT_SPICR1", "INIT_SPICR2", "INIT_SPIBR",
                                        "INIT_SPICSR", "WAIT_RECEPTION"}
  /\ \A n \in 1..5 : Setup[n] \in {"INIT_SPICR0", "INIT_SPICR1", "INIT_SPICR2",
                                    "INIT_SPIBR", "INIT_SPICSR"}
<1>1. DOMAIN Setup = 1..6 /\ Len(Setup) = 6
  BY DEF Setup
<1>2. /\ Setup[1] = "INIT_SPICR0" /\ Setup[2] = "INIT_SPICR1" /\ Setup[3] = "INIT_SPICR2"
      /\ Setup[4] = "INIT_SPIBR" /\ Setup[5] = "INIT_SPICSR" /\ Setup[6] = "WAIT_RECEPTION"
  BY DEF Setup
<1>3. \A n \in 1..6 : n \in {1, 2, 3, 4, 5, 6}
  OBVIOUS
<1>4. {Setup[n] : n \in 1..6}
        = {"INIT_SPICR0", "INIT_SPICR1", "INIT_SPICR2", "INIT_SPIBR", "INIT_SPICSR",
           "WAIT_RECEPTION"}
  <2>1. 1 \in 1..6 /\ 2 \in 1..6 /\ 3 \in 1..6 /\ 4 \in 1..6 /\ 5 \in 1..6 /\ 6 \in 1..6
    OBVIOUS
  <2>2. QED
    BY <1>2, <1>3, <2>1
<1>5. {Setup[n] : n \in DOMAIN Setup} \cup {"TRANSMIT_READY", "TRANSMIT", "READ_INIT", "READ_OPCODE"}
        = States
  BY <1>1, <1>4 DEF States
<1>6. \A n \in 1..5 : n + 1 \in {2, 3, 4, 5, 6} /\ n \in {1, 2, 3, 4, 5}
  OBVIOUS
<1>7. QED
  BY <1>1, <1>2, <1>5, <1>6

(* The types, part by part.                                                *)
HostTypes ==
  /\ at \in 1..13 /\ k \in 0..7 /\ retries \in 0..MaxRetries - 1 /\ session \in 1..Sessions
  /\ recv \in Seq(Byte) /\ Len(recv) = (IF k < 3 THEN 0 ELSE k - 2)
  /\ got \in Seq(Seq(Byte))

BlockTypes ==
  /\ rx \in Seq(Byte) /\ Len(rx) <= 1 /\ tx \in Seq(Byte) /\ Len(tx) <= 1 /\ shift \in Byte

TopTypes ==
  /\ state_spi \in States /\ is_spi_init \in BOOLEAN
  /\ counter_read \in 0..7 /\ counter_send \in 0..6
  /\ command_data \in [0..7 -> Byte] /\ data_to_send \in Byte /\ led \in 0..7

VectorTypes == data_vector \in [0..15 -> Byte] /\ counter_vector \in 0..15

TypeInv == HostTypes /\ BlockTypes /\ TopTypes /\ VectorTypes /\ StateInv

LEMMA TypeInvGivesTypeOK ==
  TypeInv => TypeOK
<1> SUFFICES ASSUME TypeInv PROVE TypeOK
  OBVIOUS
<1>1. Len(Script) + 1 = 13
  BY ScriptEntries
<1>2. Len(recv) <= 6
  BY DEF TypeInv, HostTypes
<1>3. state_spi \in {Setup[n] : n \in DOMAIN Setup}
                     \cup {"TRANSMIT_READY", "TRANSMIT", "READ_INIT", "READ_OPCODE"}
  BY SetupStates DEF TypeInv, TopTypes
<1>4. QED
  BY Zenon, <1>1, <1>2, <1>3
  DEF TypeInv, TypeOK, HostTypes, BlockTypes, TopTypes, VectorTypes

LEMMA InitTypeInv ==
  ASSUME Init
  PROVE  TypeInv
<1>1. /\ 1 \in 1..13 /\ 0 \in 0..7 /\ 0 \in 0..6 /\ 0 \in 0..15 /\ 0 \in 0..MaxRetries - 1
      /\ 1 \in 1..Sessions /\ 0 < 3
  BY HwAssumption
<1>2. << >> \in Seq(Byte) /\ << >> \in Seq(Seq(Byte)) /\ Len(<< >>) = 0 /\ 0 <= 1
  OBVIOUS
<1>3. HostTypes
  <2>1. recv = << >> /\ k = 0 /\ Len(recv) = (IF k < 3 THEN 0 ELSE k - 2)
    BY <1>2 DEF Init
  <2>2. QED
    BY Zenon, <1>1, <1>2, <2>1 DEF Init, HostTypes
<1>4. BlockTypes
  BY <1>2, CodeBytes DEF Init, BlockTypes
<1>5. TopTypes
  BY <1>1, CodeBytes DEF Init, TopTypes, States
<1>6. VectorTypes
  BY <1>1, CodeBytes DEF Init, VectorTypes
<1>7. StateInv
  BY DEF Init, StateInv
<1>8. QED
  BY Zenon, <1>3, <1>4, <1>5, <1>6, <1>7 DEF TypeInv

(* What leaves the host alone, and what the block.                         *)
LEMMA HostAlone ==
  ASSUME HostTypes, UNCHANGED <<hostVars, k>>
  PROVE  HostTypes'
  BY Zenon DEF HostTypes, hostVars

LEMMA VectorAlone ==
  ASSUME VectorTypes, UNCHANGED vectors
  PROVE  VectorTypes'
  BY Zenon DEF VectorTypes, vectors

LEMMA OneByte ==
  ASSUME NEW s \in Seq(Byte), s # << >>
  PROVE  s[1] \in Byte /\ Len(s) \in Nat \ {0}
  BY EmptySeq, LenProperties

LEMMA SingleByte ==
  ASSUME NEW b \in Byte
  PROVE  /\ <<b>> \in Seq(Byte) /\ Len(<<b>>) = 1 /\ <<b>>[1] = b /\ <<b>> # << >>
         /\ << >> \in Seq(Byte) /\ Len(<< >>) = 0
  OBVIOUS

LEMMA ConfigureTypes ==
  ASSUME TypeInv, Configure
  PROVE  TypeInv'
<1>1. PICK n \in 1..5 : state_spi = Setup[n] /\ state_spi' = Setup[n + 1]
  BY SetupStates DEF Configure
<1>2. /\ UNCHANGED <<hostVars, k, rx, tx, shift, is_spi_init, counter_read, counter_send,
                     command_data, data_to_send, vectors, led>>
  BY Zenon DEF Configure
<1>3. state_spi' \in {"INIT_SPICR1", "INIT_SPICR2", "INIT_SPIBR", "INIT_SPICSR", "WAIT_RECEPTION"}
  BY Zenon, <1>1, SetupStates
<1>4. HostTypes' /\ VectorTypes'
  BY Zenon, <1>2, HostAlone, VectorAlone DEF TypeInv
<1>5. BlockTypes'
  BY Zenon, <1>2 DEF TypeInv, BlockTypes
<1>6. TopTypes'
  BY <1>2, <1>3 DEF TypeInv, TopTypes, States
<1>7. StateInv'
  BY <1>3 DEF StateInv
<1>8. QED
  BY Zenon, <1>4, <1>5, <1>6, <1>7 DEF TypeInv

LEMMA WaitReceptionTypes ==
  ASSUME TypeInv, WaitReception
  PROVE  TypeInv'
<1>1. /\ UNCHANGED <<hostVars, k, rx, tx, shift, is_spi_init, counter_read, counter_send,
                     command_data, data_to_send, vectors, led>>
      /\ rx # << >>
  BY Zenon DEF WaitReception
<1>2. /\ state_spi' \in {"READ_INIT", "TRANSMIT_READY", "READ_OPCODE"}
      /\ state_spi' = "TRANSMIT_READY" => counter_send < 6
  BY DEF WaitReception, Replies
<1>3. HostTypes' /\ VectorTypes'
  BY Zenon, <1>1, HostAlone, VectorAlone DEF TypeInv
<1>4. BlockTypes'
  BY Zenon, <1>1 DEF TypeInv, BlockTypes
<1>5. TopTypes'
  BY <1>1, <1>2 DEF TypeInv, TopTypes, States
<1>6. StateInv'
  BY <1>1, <1>2 DEF StateInv
<1>7. QED
  BY Zenon, <1>3, <1>4, <1>5, <1>6 DEF TypeInv

LEMMA WaitTransmitReadyTypes ==
  ASSUME TypeInv, WaitTransmitReady
  PROVE  TypeInv'
<1>1. /\ UNCHANGED <<hostVars, k, rx, tx, shift, is_spi_init, counter_read, counter_send,
                     command_data, data_to_send, vectors, led>>
      /\ state_spi = "TRANSMIT_READY" /\ state_spi' = "TRANSMIT"
  BY Zenon DEF WaitTransmitReady
<1>2. HostTypes' /\ VectorTypes'
  BY Zenon, <1>1, HostAlone, VectorAlone DEF TypeInv
<1>3. BlockTypes'
  BY Zenon, <1>1 DEF TypeInv, BlockTypes
<1>4. TopTypes'
  BY <1>1 DEF TypeInv, TopTypes, States
<1>5. StateInv'
  BY <1>1 DEF TypeInv, StateInv
<1>6. QED
  BY Zenon, <1>2, <1>3, <1>4, <1>5 DEF TypeInv

LEMMA TransmitTypes ==
  ASSUME TypeInv, Transmit
  PROVE  TypeInv'
<1>1. /\ UNCHANGED <<hostVars, k, rx, shift, is_spi_init, counter_read, command_data,
                     data_to_send, vectors, led>>
      /\ state_spi = "TRANSMIT" /\ state_spi' = "READ_OPCODE"
      /\ counter_send' = counter_send + 1
      /\ tx' = <<IF counter_send = 0 THEN Status ELSE data_to_send>>
  BY Zenon DEF Transmit
<1>2. HostTypes' /\ VectorTypes'
  BY Zenon, <1>1, HostAlone, VectorAlone DEF TypeInv
<1>3. BlockTypes'
  <2> DEFINE b == IF counter_send = 0 THEN Status ELSE data_to_send
  <2>1. b \in Byte /\ tx' = <<b>>
    BY Zenon, <1>1, CodeBytes DEF TypeInv, TopTypes
  <2> HIDE DEF b
  <2>2. tx' \in Seq(Byte) /\ Len(tx') = 1 /\ 1 <= 1
    BY <2>1, SingleByte
  <2>3. QED
    BY <1>1, <2>2 DEF TypeInv, BlockTypes
<1>4. TopTypes'
  BY <1>1 DEF TypeInv, TopTypes, States, StateInv
<1>5. StateInv'
  BY <1>1 DEF TypeInv, StateInv
<1>6. QED
  BY Zenon, <1>2, <1>3, <1>4, <1>5 DEF TypeInv

LEMMA StoresByte ==
  ASSUME command_data \in [0..7 -> Byte], counter_read \in 0..7, NEW b \in Byte
  PROVE  [command_data EXCEPT ![counter_read] = b] \in [0..7 -> Byte]
  OBVIOUS

LEMMA ReadInitTypes ==
  ASSUME TypeInv, ReadInit
  PROVE  TypeInv'
<1>1. /\ UNCHANGED <<hostVars, k, tx, shift, data_to_send, vectors, led>>
      /\ state_spi = "READ_INIT" /\ state_spi' = "WAIT_RECEPTION"
      /\ rx' = << >>
      /\ command_data' = [command_data EXCEPT ![counter_read] = rx[1]]
      /\ is_spi_init' \in {TRUE, is_spi_init} /\ counter_read' \in {0, counter_read}
      /\ counter_send' \in {0, counter_send}
  BY Zenon DEF ReadInit
<1>2. HostTypes' /\ VectorTypes'
  BY Zenon, <1>1, HostAlone, VectorAlone DEF TypeInv
<1>3. BlockTypes'
  BY <1>1 DEF TypeInv, BlockTypes
<1>4. rx[1] \in Byte
  BY <1>1, OneByte DEF TypeInv, BlockTypes, StateInv
<1>5. TopTypes'
  <2>1. command_data' \in [0..7 -> Byte]
    BY Zenon, <1>1, <1>4, StoresByte DEF TypeInv, TopTypes
  <2>2. is_spi_init' \in BOOLEAN /\ state_spi' \in States
    BY Zenon, <1>1 DEF TypeInv, TopTypes, States
  <2>3. counter_read' \in 0..7 /\ counter_send' \in 0..6
    BY <1>1 DEF TypeInv, TopTypes
  <2>4. QED
    BY Zenon, <1>1, <2>1, <2>2, <2>3 DEF TypeInv, TopTypes
<1>6. StateInv'
  BY <1>1 DEF StateInv
<1>7. QED
  BY Zenon, <1>2, <1>3, <1>5, <1>6 DEF TypeInv

LEMMA ReadOpcodeTypes ==
  ASSUME TypeInv, ReadOpcode
  PROVE  TypeInv'
<1>1. /\ UNCHANGED <<hostVars, k, tx, shift, is_spi_init>>
      /\ state_spi = "READ_OPCODE" /\ state_spi' = "WAIT_RECEPTION"
      /\ rx' = << >>
      /\ command_data' = [command_data EXCEPT ![counter_read] = rx[1]]
      /\ OpcodeByte(rx[1]) /\ CommandEnds
  BY Zenon DEF ReadOpcode
<1>2. HostTypes'
  BY Zenon, <1>1, HostAlone DEF TypeInv
<1>3. BlockTypes'
  BY <1>1 DEF TypeInv, BlockTypes
<1>4. rx[1] \in Byte
  BY <1>1, OneByte DEF TypeInv, BlockTypes, StateInv
<1> DEFINE b == rx[1]
<1> HIDE DEF b
<1>5. data_to_send' \in Byte /\ VectorTypes'
  <2>1. b \in Byte /\ OpcodeByte(b)
    BY Zenon, <1>1, <1>4 DEF b
  <2>2. \/ data_to_send' \in {b, Invert(b)} /\ UNCHANGED vectors
        \/ /\ data_vector' = [data_vector EXCEPT ![counter_vector] = b]
           /\ counter_vector' = (counter_vector + 1) % 16
           /\ UNCHANGED data_to_send
        \/ /\ data_to_send' = data_vector[counter_vector]
           /\ counter_vector' = (counter_vector + 1) % 16
           /\ UNCHANGED data_vector
        \/ UNCHANGED <<data_to_send, vectors>>
    BY Zenon, <2>1 DEF OpcodeByte
  <2>3. data_vector \in [0..15 -> Byte] /\ counter_vector \in 0..15 /\ data_to_send \in Byte
    BY Zenon DEF TypeInv, TopTypes, VectorTypes
  <2>4. (counter_vector + 1) % 16 \in 0..15
    BY <2>3
  <2>5. Invert(b) \in Byte
    BY <2>1 DEF Invert, Byte
  <2>6. [data_vector EXCEPT ![counter_vector] = b] \in [0..15 -> Byte]
    BY <2>1, <2>3
  <2>7. data_vector[counter_vector] \in Byte
    BY <2>3
  <2>8. QED
    BY Zenon, <2>1, <2>2, <2>3, <2>4, <2>5, <2>6, <2>7 DEF VectorTypes, vectors
<1>6. counter_read' \in 0..7 /\ counter_send' \in 0..6 /\ led' \in 0..7
  <2>1. /\ counter_read \in 0..7 /\ counter_send \in 0..6 /\ led \in 0..7
        /\ command_data[1] \in 0..255
    BY DEF TypeInv, TopTypes, Byte
  <2>2. command_data[1] % 8 \in 0..7
    BY <2>1
  <2>3. \/ counter_read = 7 /\ counter_read' = 0 /\ counter_send' = 0
           /\ led' \in {command_data[1] % 8, led}
        \/ counter_read # 7 /\ counter_read' = counter_read + 1 /\ UNCHANGED <<counter_send, led>>
    BY Zenon, <1>1 DEF CommandEnds
  <2>4. QED
    BY <2>1, <2>2, <2>3
<1>7. TopTypes'
  <2>1. command_data' \in [0..7 -> Byte]
    BY Zenon, <1>1, <1>4, StoresByte DEF TypeInv, TopTypes
  <2>2. state_spi' \in States
    BY <1>1 DEF States
  <2>3. QED
    BY Zenon, <1>1, <1>5, <1>6, <2>1, <2>2 DEF TypeInv, TopTypes
<1>8. StateInv'
  BY <1>1 DEF StateInv
<1>9. QED
  BY Zenon, <1>2, <1>3, <1>5, <1>7, <1>8 DEF TypeInv

LEMMA OnTheWireTypes ==
  ASSUME TypeInv, OnTheWire, at <= 12
  PROVE  /\ BlockTypes' /\ TopTypes' /\ VectorTypes' /\ StateInv'
         /\ rx' = <<Script[at][k + 1]>> /\ Script[at][k + 1] \in Byte
         /\ k' = (IF k = 7 THEN 0 ELSE k + 1)
<1>1. /\ UNCHANGED <<state_spi, is_spi_init, counter_read, counter_send, command_data,
                     data_to_send, vectors, led>>
      /\ state_spi = "WAIT_RECEPTION"
      /\ rx' = <<Script[at][k + 1]>>
      /\ IF tx = << >> THEN shift' \in {0, Status} ELSE shift' = tx[1]
      /\ tx' = << >> /\ k' = (k + 1) % 8
  BY Zenon DEF OnTheWire
<1>2. at \in 1..12 /\ k + 1 \in 1..8
  BY DEF TypeInv, HostTypes
<1>3. Script[at][k + 1] \in Byte
  BY Zenon, <1>2, ScriptBytes
<1>4. k' = (IF k = 7 THEN 0 ELSE k + 1)
  <2>1. k \in 0..7 /\ k' = (k + 1) % 8
    BY Zenon, <1>1 DEF TypeInv, HostTypes
  <2>2. QED
    BY Z3, <2>1
<1>5. shift' \in Byte
  BY <1>1, OneByte, CodeBytes DEF TypeInv, BlockTypes
<1>6. rx' \in Seq(Byte) /\ Len(rx') = 1 /\ tx' \in Seq(Byte) /\ Len(tx') = 0
  BY Zenon, <1>1, <1>3, SingleByte
<1>7. BlockTypes'
  BY <1>5, <1>6 DEF BlockTypes
<1>8. VectorTypes'
  BY Zenon, <1>1, VectorAlone DEF TypeInv
<1>9. TopTypes'
  BY Zenon, <1>1 DEF TypeInv, TopTypes
<1>10. StateInv'
  BY <1>1 DEF StateInv
<1>11. QED
  BY Zenon, <1>1, <1>3, <1>4, <1>7, <1>8, <1>9, <1>10

LEMMA ReceivedType ==
  ASSUME TypeInv
  PROVE  /\ Received \in Seq(Byte)
         /\ Len(Received) = IF k < 2 THEN 0 ELSE k - 1
<1>1. k \in 0..7 /\ recv \in Seq(Byte) /\ shift \in Byte
      /\ Len(recv) = (IF k < 3 THEN 0 ELSE k - 2)
  BY Zenon DEF TypeInv, HostTypes, BlockTypes
<1>2. CASE k < 2
  BY <1>2 DEF Received
<1>3. CASE ~(k < 2)
  <2>1. Append(recv, shift) \in Seq(Byte) /\ Len(Append(recv, shift)) = Len(recv) + 1
    BY <1>1, AppendProperties
  <2>2. Len(recv) + 1 = k - 1
    BY <1>1, <1>3
  <2>3. QED
    BY Zenon, <1>3, <2>1, <2>2 DEF Received
<1>4. QED
  BY Zenon, <1>2, <1>3

LEMMA NextByteTypes ==
  ASSUME TypeInv, NextByte
  PROVE  TypeInv'
<1>1. at <= 12 /\ OnTheWire /\ k < 7 /\ recv' = Received
  BY Zenon, ScriptEntries DEF NextByte
<1>2. UNCHANGED <<at, retries, session, got>>
  BY Zenon DEF NextByte
<1>3. /\ BlockTypes' /\ TopTypes' /\ VectorTypes' /\ StateInv'
      /\ k' = (IF k = 7 THEN 0 ELSE k + 1)
  BY Zenon, <1>1, OnTheWireTypes
<1>4. k' \in 0..7 /\ (IF k < 2 THEN 0 ELSE k - 1) = (IF k' < 3 THEN 0 ELSE k' - 2)
  BY <1>1, <1>3 DEF TypeInv, HostTypes
<1>5. recv' \in Seq(Byte) /\ Len(recv') = (IF k' < 3 THEN 0 ELSE k' - 2)
  BY Zenon, <1>1, <1>4, ReceivedType
<1>6. HostTypes'
  BY Zenon, <1>2, <1>4, <1>5 DEF TypeInv, HostTypes
<1>7. QED
  BY Zenon, <1>3, <1>6 DEF TypeInv

LEMMA TailOfSix ==
  ASSUME NEW s \in Seq(Byte), Len(s) = 6
  PROVE  /\ Tail(s) \in Seq(Byte) /\ Len(Tail(s)) = 5
         /\ \A i \in 1..5 : Tail(s)[i] = s[i + 1]
<1>1. s # << >>
  <2>1. SUFFICES ASSUME s = << >> PROVE FALSE
    OBVIOUS
  <2>2. Len(s) = 0
    BY <2>1
  <2>3. QED
    BY <2>2
<1>2. 6 - 1 = 5
  OBVIOUS
<1>3. /\ Tail(s) \in Seq(Byte) /\ Len(Tail(s)) = Len(s) - 1
      /\ \A i \in 1..Len(Tail(s)) : Tail(s)[i] = s[i + 1]
  BY Zenon, <1>1, HeadTailProperties
<1>4. QED
  BY Zenon, <1>2, <1>3

LEMMA ReplyAppend ==
  ASSUME NEW s \in Seq(Seq(Byte)), NEW e \in Seq(Byte)
  PROVE  /\ Append(s, e) \in Seq(Seq(Byte)) /\ Len(Append(s, e)) = Len(s) + 1
         /\ \A i \in 1..Len(s) : Append(s, e)[i] = s[i]
         /\ Append(s, e)[Len(s) + 1] = e
  BY AppendProperties

LEMMA LastByteTypes ==
  ASSUME TypeInv, LastByte
  PROVE  TypeInv'
<1>1. at <= 12 /\ OnTheWire /\ k = 7 /\ recv' = << >> /\ session' = session
  BY Zenon, ScriptEntries DEF LastByte
<1>2. IF Acknowledged \/ retries + 1 = MaxRetries
      THEN /\ got' = Append(got, Tail(Received)) /\ at' = at + 1 /\ retries' = 0
      ELSE retries' = retries + 1 /\ UNCHANGED <<at, got>>
  BY Zenon DEF LastByte
<1>3. /\ BlockTypes' /\ TopTypes' /\ VectorTypes' /\ StateInv'
      /\ k' = (IF k = 7 THEN 0 ELSE k + 1)
  BY Zenon, <1>1, OnTheWireTypes
<1>4. k' = 0 /\ k' \in 0..7
  BY <1>1, <1>3
<1>5. Tail(Received) \in Seq(Byte)
  <2>1. Received \in Seq(Byte) /\ Len(Received) = 6
    BY <1>1, ReceivedType
  <2>2. QED
    BY Zenon, <2>1, TailOfSix
<1>6. got' \in Seq(Seq(Byte))
  <2>1. Append(got, Tail(Received)) \in Seq(Seq(Byte)) /\ got \in Seq(Seq(Byte))
    BY Zenon, <1>5, ReplyAppend DEF TypeInv, HostTypes
  <2>2. QED
    BY Zenon, <1>2, <2>1
<1>7. at' \in 1..13 /\ retries' \in 0..MaxRetries - 1
  <2>1. MaxRetries \in Nat \ {0, 1} /\ at \in 1..13 /\ at <= 12 /\ retries \in 0..MaxRetries - 1
    BY Zenon, HwAssumption, <1>1 DEF TypeInv, HostTypes
  <2>2. \/ at' = at + 1 /\ retries' = 0
        \/ at' = at /\ retries' = retries + 1 /\ retries + 1 # MaxRetries
    BY Zenon, <1>2
  <2>3. at' \in 1..13
    BY <2>1, <2>2
  <2>4. retries' \in 0..MaxRetries - 1
    BY <2>1, <2>2
  <2>5. QED
    BY Zenon, <2>3, <2>4
<1>8. recv' \in Seq(Byte) /\ Len(recv') = (IF k' < 3 THEN 0 ELSE k' - 2)
  BY <1>1, <1>4
<1>9. HostTypes'
  BY Zenon, <1>1, <1>4, <1>6, <1>7, <1>8 DEF TypeInv, HostTypes
<1>10. QED
  BY Zenon, <1>3, <1>9 DEF TypeInv

LEMMA RerunTypes ==
  ASSUME TypeInv, Rerun
  PROVE  TypeInv'
<1>1. /\ UNCHANGED <<k, recv, rx, tx, shift, state_spi, is_spi_init, counter_read, counter_send,
                     command_data, data_to_send, vectors, led>>
      /\ session < Sessions /\ session' = session + 1
      /\ at' = 1 /\ retries' = 0 /\ got' = << >>
  BY Zenon DEF Rerun
<1>2. /\ at' \in 1..13 /\ retries' \in 0..MaxRetries - 1 /\ session' \in 1..Sessions
      /\ got' \in Seq(Seq(Byte))
  BY <1>1, HwAssumption DEF TypeInv, HostTypes
<1>3. HostTypes'
  BY Zenon, <1>1, <1>2 DEF TypeInv, HostTypes
<1>4. BlockTypes' /\ TopTypes' /\ StateInv'
  BY Zenon, <1>1 DEF TypeInv, BlockTypes, TopTypes, StateInv
<1>5. VectorTypes'
  BY Zenon, <1>1, VectorAlone DEF TypeInv
<1>6. QED
  BY Zenon, <1>3, <1>4, <1>5 DEF TypeInv

LEMMA TypeInvStep ==
  ASSUME TypeInv, [Next]_vars
  PROVE  TypeInv'
<1>1. CASE Next
  BY Zenon, <1>1, ConfigureTypes, WaitReceptionTypes, WaitTransmitReadyTypes, TransmitTypes,
     ReadInitTypes, ReadOpcodeTypes, NextByteTypes, LastByteTypes, RerunTypes DEF Next
<1>2. CASE UNCHANGED vars
  BY Zenon, <1>2 DEF vars, hostVars, vectors, TypeInv, HostTypes, BlockTypes, TopTypes,
     VectorTypes, StateInv
<1>3. QED
  BY Zenon, <1>1, <1>2

LEMMA TypeInvAlways == Spec => []TypeInv
<1>1. Init => TypeInv
  BY InitTypeInv
<1>2. TypeInv /\ [Next]_vars => TypeInv'
  BY TypeInvStep
<1>3. QED
  BY <1>1, <1>2, PTL DEF Spec

(* Every register and counter of top.v and of the host keeps to its range: *)
(* no counter of top.v leaves the command or the vector.                   *)
THEOREM TypeCorrect == Spec => []TypeOK
<1>1. QED
  BY TypeInvAlways, TypeInvGivesTypeOK, PTL

-----------------------------------------------------------------------------
(* What the table says of the opcodes, the vector and the replies.         *)
LEMMA Opcodes ==
  /\ Script[1][1] = INIT /\ Script[2][1] = WR_INVERTED
  /\ Script[3][1] = WR_LEDS /\ Script[4][1] = WR_LEDS
  /\ \A n \in 5..8 : Script[n][1] = WR_VEC
  /\ \A n \in 9..12 : Script[n][1] = RD_VEC
  /\ Script[3][2] = 3 /\ Script[4][2] = 4
BY Zenon, CommandTable DEF IsCommand

LEMMA InitCommand ==
  /\ Script[1][8] = InitByte
  /\ \A i \in 1..7 : Script[1][i] # InitByte
<1>1. /\ Script[1][1] = INIT /\ Script[1][2] = 0 /\ Script[1][3] = 0 /\ Script[1][4] = 0
      /\ Script[1][5] = 0 /\ Script[1][6] = 0 /\ Script[1][7] = 0
      /\ Script[1][8] = InitByte
  BY Zenon, CommandTable DEF IsCommand
<1>2. \A i \in 1..7 : i \in {1, 2, 3, 4, 5, 6, 7}
  OBVIOUS
<1>3. INIT # InitByte /\ 0 # InitByte
  BY DEF INIT, InitByte
<1>4. QED
  BY <1>1, <1>2, <1>3

LEMMA ValueAt ==
  ASSUME NEW m \in 0..3, NEW j \in 0..3
  PROVE  VecValue(4 * m + j) = VecBytes(m + 1)[j + 1]
<1>1. (4 * m + j) \div 4 = m /\ (4 * m + j) % 4 = j
  BY Z3
<1>2. QED
  BY Zenon, <1>1 DEF VecValue

LEMMA FourBytes ==
  ASSUME NEW n \in Int
  PROVE  /\ VecBytes(n)[1] = 4 * n /\ VecBytes(n)[2] = 3 * n
         /\ VecBytes(n)[3] = 2 * n /\ VecBytes(n)[4] = n
  BY DEF VecBytes

LEMMA WrittenValue ==
  ASSUME NEW n \in 5..8, NEW i \in 2..5
  PROVE  Script[n][i] = VecValue(4 * (n - 5) + (i - 2))
<1>1. n - 5 \in 0..3 /\ i - 2 \in 0..3 /\ (n - 5) + 1 = n - 4 /\ (i - 2) + 1 = i - 1 /\ n - 4 \in Int
  OBVIOUS
<1>2. VecValue(4 * (n - 5) + (i - 2)) = VecBytes(n - 4)[i - 1]
  BY Zenon, <1>1, ValueAt
<1>3. /\ Script[n][2] = 4 * (n - 4) /\ Script[n][3] = 3 * (n - 4)
      /\ Script[n][4] = 2 * (n - 4) /\ Script[n][5] = n - 4
  BY Zenon, CommandTable DEF IsCommand
<1>4. /\ VecBytes(n - 4)[1] = 4 * (n - 4) /\ VecBytes(n - 4)[2] = 3 * (n - 4)
      /\ VecBytes(n - 4)[3] = 2 * (n - 4) /\ VecBytes(n - 4)[4] = n - 4
  BY Zenon, <1>1, FourBytes
<1>5. \/ (i = 2 /\ i - 1 = 1) \/ (i = 3 /\ i - 1 = 2)
      \/ (i = 4 /\ i - 1 = 3) \/ (i = 5 /\ i - 1 = 4)
  OBVIOUS
<1>6. QED
  BY Zenon, <1>2, <1>3, <1>4, <1>5

LEMMA AnswerIs ==
  ASSUME NEW n \in 1..12
  PROVE  /\ Answer(n, 0) = Status
         /\ Answer(n, 1) = Script[n][1]
         /\ \A i \in 2..5 :
              /\ n = 2 => Answer(n, i) = Invert(Script[n][i])
              /\ n \in {3, 4} => Answer(n, i) = Script[n][i]
              /\ n \in 9..12 => Answer(n, i) = VecValue(4 * (n - 9) + (i - 2))
              /\ n \notin {2, 3, 4} \cup (9..12) => Answer(n, i) = Script[n][1]
<1>1. Answer(n, 0) = Status
  BY Zenon DEF Answer
<1>2. Answer(n, 1) = Script[n][1]
  BY DEF Answer
<1>3. ASSUME NEW i \in 2..5
      PROVE  /\ n = 2 => Answer(n, i) = Invert(Script[n][i])
             /\ n \in {3, 4} => Answer(n, i) = Script[n][i]
             /\ n \in 9..12 => Answer(n, i) = VecBytes(n - 8)[i - 1]
             /\ n \notin {2, 3, 4} \cup (9..12) => Answer(n, i) = Script[n][1]
  <2>1. i # 0 /\ i # 1 /\ 3 # 2 /\ 4 # 2 /\ (n \in 9..12 => n # 2 /\ n # 3 /\ n # 4)
    OBVIOUS
  <2>2. QED
    BY Zenon, <2>1 DEF Answer
<1>4. ASSUME NEW i \in 2..5, n \in 9..12
      PROVE  VecBytes(n - 8)[i - 1] = VecValue(4 * (n - 9) + (i - 2))
  <2>1. n - 9 \in 0..3 /\ i - 2 \in 0..3 /\ (n - 9) + 1 = n - 8 /\ (i - 2) + 1 = i - 1
    BY <1>4
  <2>2. QED
    BY Zenon, <2>1, ValueAt
<1>5. QED
  BY Zenon, <1>1, <1>2, <1>3, <1>4

-----------------------------------------------------------------------------
(* The steps of top.v's state machine that read no byte.                   *)
LEMMA InitStepInv ==
  ASSUME Init
  PROVE  StepInv
<1>1. /\ at = 1 /\ k = 0 /\ got = << >> /\ rx = << >> /\ tx = << >> /\ is_spi_init = FALSE
      /\ counter_read = 0 /\ counter_send = 0 /\ state_spi = "INIT_SPICR0"
  BY Zenon DEF Init
<1>2. state_spi \in {Setup[n] : n \in DOMAIN Setup} \cup {"READ_INIT"}
  <2>1. 1 \in DOMAIN Setup /\ Setup[1] = "INIT_SPICR0"
    BY DEF Setup
  <2>2. QED
    BY Zenon, <1>1, <2>1
<1>3. BeforeInit
  BY <1>1, <1>2 DEF BeforeInit
<1>4. HostInv
  BY <1>1 DEF HostInv, RepliesSoFar
<1>5. QED
  BY Zenon, <1>1, <1>3, <1>4 DEF StepInv

SetUp == {"INIT_SPICR0", "INIT_SPICR1", "INIT_SPICR2", "INIT_SPIBR", "INIT_SPICSR",
          "WAIT_RECEPTION", "READ_INIT"}

LEMMA SetUpStates ==
  {Setup[n] : n \in DOMAIN Setup} \cup {"READ_INIT"} = SetUp
<1>1. /\ Setup[1] = "INIT_SPICR0" /\ Setup[2] = "INIT_SPICR1" /\ Setup[3] = "INIT_SPICR2"
      /\ Setup[4] = "INIT_SPIBR" /\ Setup[5] = "INIT_SPICSR" /\ Setup[6] = "WAIT_RECEPTION"
      /\ DOMAIN Setup = 1..6
  BY DEF Setup
<1>2. /\ 1 \in 1..6 /\ 2 \in 1..6 /\ 3 \in 1..6 /\ 4 \in 1..6 /\ 5 \in 1..6 /\ 6 \in 1..6
      /\ \A n \in 1..6 : n \in {1, 2, 3, 4, 5, 6}
  OBVIOUS
<1>3. QED
  BY <1>1, <1>2 DEF SetUp

LEMMA HostInvKept ==
  ASSUME HostInv, UNCHANGED <<hostVars, k>>
  PROVE  HostInv'
BY Zenon DEF HostInv, RepliesSoFar, hostVars

LEMMA VectorKept ==
  ASSUME Vector, UNCHANGED vectors, at' = at, Seen' = Seen
  PROVE  Vector'
BY Zenon DEF Vector, HoldsVector, vectors

LEMMA ConfigureStep ==
  ASSUME TypeInv, StepInv, Configure
  PROVE  StepInv'
<1>1. PICK n \in 1..5 : state_spi = Setup[n] /\ state_spi' = Setup[n + 1]
  BY SetupStates DEF Configure
<1>2. UNCHANGED <<hostVars, k, rx, tx, shift, is_spi_init, counter_read, counter_send,
                  command_data, data_to_send, vectors, led>>
  BY Zenon DEF Configure
<1>3. /\ state_spi' \in {"INIT_SPICR1", "INIT_SPICR2", "INIT_SPIBR", "INIT_SPICSR", "WAIT_RECEPTION"}
      /\ state_spi \in {"INIT_SPICR0", "INIT_SPICR1", "INIT_SPICR2", "INIT_SPIBR", "INIT_SPICSR"}
  BY Zenon, <1>1, SetupStates
<1>4. ~is_spi_init
  BY <1>3 DEF StepInv, InStep, Counters
<1>5. BeforeInit /\ HostInv
  BY Zenon, <1>4 DEF StepInv
<1>6. BeforeInit'
  <2>1. state_spi' \in SetUp
    BY <1>3 DEF SetUp
    <2>2. state_spi' \in {Setup[i] : i \in DOMAIN Setup} \cup {"READ_INIT"}
    BY Zenon, <2>1, SetUpStates
  <2>3. rx = << >> /\ at = 1
    BY <1>3, <1>5 DEF BeforeInit
  <2>4. QED
    BY <1>2, <1>3, <1>5, <2>2, <2>3 DEF BeforeInit, hostVars
<1>7. QED
  BY Zenon, <1>2, <1>4, <1>5, <1>6, HostInvKept DEF StepInv

LEMMA WaitReceptionStep ==
  ASSUME TypeInv, StepInv, WaitReception
  PROVE  StepInv'
<1>1. /\ UNCHANGED <<hostVars, k, rx, tx, shift, is_spi_init, counter_read, counter_send,
                     command_data, data_to_send, vectors, led>>
      /\ rx # << >> /\ state_spi = "WAIT_RECEPTION"
  BY Zenon DEF WaitReception
<1>2. HostInv'
  BY Zenon, <1>1, HostInvKept DEF StepInv
<1>3. CASE is_spi_init
  <2>1. Counters /\ Pipeline /\ Opcode /\ Vector
    BY Zenon, <1>3 DEF StepInv, InStep
  <2>2. \/ counter_send < 6 /\ state_spi' = "TRANSMIT_READY"
        \/ ~(counter_send < 6) /\ state_spi' = "READ_OPCODE"
    BY Zenon, <1>3 DEF WaitReception, Replies
  <2>3. k \in 0..7
    BY Zenon DEF TypeInv, HostTypes
  <2>4. Counters'
    BY <1>1, <2>1, <2>2, <2>3 DEF Counters, Limit, hostVars
  <2>5. Pipeline'
    <3>1. state_spi' = "READ_OPCODE" => k \notin 1..6
      BY <1>1, <2>1, <2>2, <2>3 DEF Counters, Limit
    <3>2. tx = << >>
      BY <1>1, <2>1 DEF Pipeline
    <3>3. /\ rx' # << >>
          /\ (rx' # << >> /\ k' \in 2..6) => data_to_send' = Answer(at', k' - 1)
      BY Zenon, <1>1, <2>1 DEF Pipeline, hostVars
    <3>4. /\ k' \in 2..7 => shift' = Answer(at', k' - 2)
          /\ \A i \in 1..Len(recv') : recv'[i] = Answer(at', i - 1)
      BY Zenon, <1>1, <2>1 DEF Pipeline, hostVars
    <3>5. ~(k' \in 1..6 /\ (rx' = << >> \/ state_spi' = "READ_OPCODE")) /\ tx' = << >>
      BY Zenon, <1>1, <3>1, <3>2
    <3>6. QED
      BY Zenon, <3>3, <3>4, <3>5 DEF Pipeline
  <2>6. Opcode' /\ Vector'
    <3>1. Seen' = Seen /\ at' = at
      BY Zenon, <1>1 DEF Seen, hostVars
    <3>2. QED
      BY Zenon, <1>1, <2>1, <3>1, VectorKept DEF Opcode, hostVars
  <2>7. QED
    BY Zenon, <1>1, <1>2, <1>3, <2>4, <2>5, <2>6 DEF StepInv, InStep
<1>4. CASE ~is_spi_init
  <2>1. state_spi' = "READ_INIT" /\ BeforeInit
    <3>1. state_spi' = "READ_INIT"
      BY <1>4 DEF WaitReception
    <3>2. QED
      BY Zenon, <1>4, <3>1 DEF StepInv
  <2>2. BeforeInit'
    BY <1>1, <2>1 DEF BeforeInit, hostVars
  <2>3. QED
    BY Zenon, <1>1, <1>2, <1>4, <2>2 DEF StepInv
<1>5. QED
  BY Zenon, <1>3, <1>4

LEMMA WaitTransmitReadyStep ==
  ASSUME TypeInv, StepInv, WaitTransmitReady
  PROVE  StepInv'
<1>1. /\ UNCHANGED <<hostVars, k, rx, tx, shift, is_spi_init, counter_read, counter_send,
                     command_data, data_to_send, vectors, led>>
      /\ state_spi = "TRANSMIT_READY" /\ state_spi' = "TRANSMIT"
  BY Zenon DEF WaitTransmitReady
<1>2. is_spi_init
  <2>1. "TRANSMIT_READY" \notin SetUp
    BY DEF SetUp
  <2>2. QED
    BY Zenon, <1>1, <2>1, SetUpStates DEF StepInv, BeforeInit
<1>3. Counters /\ Pipeline /\ Opcode /\ Vector /\ rx # << >>
  BY Zenon, <1>1, <1>2 DEF StepInv, InStep, TypeInv, StateInv
<1>4. Counters'
  BY <1>1, <1>3 DEF Counters, hostVars
<1>5. Pipeline'
  <2>1. state_spi # "READ_OPCODE" /\ state_spi' # "READ_OPCODE"
    BY <1>1
  <2>2. QED
    BY Zenon, <1>1, <1>3, <2>1 DEF Pipeline, hostVars
<1>6. Opcode' /\ Vector'
  <2>1. Seen' = Seen /\ at' = at
    BY Zenon, <1>1 DEF Seen, hostVars
  <2>2. QED
    BY Zenon, <1>1, <1>3, <2>1, VectorKept DEF Opcode, hostVars
<1>7. HostInv'
  BY Zenon, <1>1, HostInvKept DEF StepInv
<1>8. QED
  BY Zenon, <1>1, <1>2, <1>4, <1>5, <1>6, <1>7 DEF StepInv, InStep

(* The reply to byte k - 2 is put behind the one that is being sent.       *)
LEMMA TransmitStep ==
  ASSUME TypeInv, StepInv, Transmit
  PROVE  StepInv'
<1>1. /\ UNCHANGED <<hostVars, k, rx, shift, is_spi_init, counter_read, command_data,
                     data_to_send, vectors, led>>
      /\ state_spi = "TRANSMIT" /\ state_spi' = "READ_OPCODE"
      /\ counter_send' = counter_send + 1
      /\ tx' = <<IF counter_send = 0 THEN Status ELSE data_to_send>>
  BY Zenon DEF Transmit
<1>2. is_spi_init
  <2>1. "TRANSMIT" \notin SetUp
    BY DEF SetUp
  <2>2. QED
    BY Zenon, <1>1, <2>1, SetUpStates DEF StepInv, BeforeInit
<1>3. Counters /\ Pipeline /\ Opcode /\ Vector /\ rx # << >>
  BY Zenon, <1>1, <1>2 DEF StepInv, InStep, TypeInv, StateInv
<1>4. k \in 1..6 /\ counter_read = k - 1 /\ counter_send = k - 1
  BY <1>1, <1>3 DEF Counters, Limit, TypeInv, HostTypes
<1>5. Counters'
  BY <1>1, <1>3, <1>4 DEF Counters, Limit, hostVars
<1>6. Pipeline'
  <2>1. at \in 1..12
    BY <1>4 DEF StepInv, HostInv, TypeInv, HostTypes
  <2>2. CASE k = 1
    <3>1. counter_send = 0 /\ k - 1 = 0
      BY <1>4, <2>2
    <3>2. tx' = <<Answer(at, k - 1)>>
      BY Zenon, <1>1, <2>1, <3>1, AnswerIs
    <3>3. QED
      BY Zenon, <1>1, <1>3, <1>4, <3>2 DEF Pipeline, hostVars
  <2>3. CASE k \in 2..6
    <3>1. counter_send # 0
      BY <1>4, <2>3
    <3>2. data_to_send = Answer(at, k - 1)
      BY Zenon, <1>3, <2>3 DEF Pipeline
    <3>3. tx' = <<Answer(at, k - 1)>>
      BY Zenon, <1>1, <3>1, <3>2
    <3>4. QED
      BY Zenon, <1>1, <1>3, <1>4, <3>3 DEF Pipeline, hostVars
  <2>4. QED
    BY <1>4, <2>2, <2>3
<1>7. Opcode' /\ Vector'
  <2>1. Seen' = Seen /\ at' = at
    BY Zenon, <1>1 DEF Seen, hostVars
  <2>2. QED
    BY Zenon, <1>1, <1>3, <2>1, VectorKept DEF Opcode, hostVars
<1>8. HostInv'
  BY Zenon, <1>1, HostInvKept DEF StepInv
<1>9. QED
  BY Zenon, <1>1, <1>2, <1>5, <1>6, <1>7, <1>8 DEF StepInv, InStep

(* The byte 11h: the next one is the first of a command.                   *)
LEMMA ReadInitStep ==
  ASSUME TypeInv, StepInv, ReadInit
  PROVE  StepInv'
<1>1. /\ UNCHANGED <<hostVars, k, tx, shift, data_to_send, vectors, led>>
      /\ state_spi = "READ_INIT" /\ state_spi' = "WAIT_RECEPTION" /\ rx' = << >>
      /\ IF rx[1] = InitByte
         THEN is_spi_init' = TRUE /\ counter_read' = 0 /\ counter_send' = 0
         ELSE UNCHANGED <<is_spi_init, counter_read, counter_send>>
  BY Zenon DEF ReadInit
<1>2. ~is_spi_init
  BY <1>1 DEF StepInv, InStep, Counters, TypeInv, StateInv
<1>3. BeforeInit /\ rx # << >> /\ k \in 0..7
  BY Zenon, <1>1, <1>2 DEF StepInv, TypeInv, StateInv, HostTypes
<1>4. HostInv'
  BY Zenon, <1>1, HostInvKept DEF StepInv
<1>5. CASE rx[1] = InitByte
  <2>1. k = 0
    <3>1. k > 0 => k \in 1..7 /\ rx[1] = Script[1][k]
      BY <1>3 DEF BeforeInit
    <3>2. ~(k > 0)
      BY Zenon, <1>5, <3>1, InitCommand
    <3>3. QED
      BY <1>3, <3>2
  <2>2. at \in {1, 2} /\ tx = << >> /\ recv = << >>
    <3>1. at \in {1, 2} /\ tx = << >>
      BY <1>3, <2>1 DEF BeforeInit
    <3>2. recv \in Seq(Byte) /\ Len(recv) = 0
      BY <2>1 DEF TypeInv, HostTypes
    <3>3. QED
      BY <3>1, <3>2, EmptySeq
  <2>3. k' = 0 /\ at' \in {1, 2} /\ tx' = << >> /\ recv' = << >>
    BY Zenon, <1>1, <2>1, <2>2 DEF hostVars
  <2>4. Counters'
    BY <1>1, <1>5, <2>3 DEF Counters, Limit
  <2>5. Pipeline'
    BY <1>1, <2>3 DEF Pipeline
  <2>6. Opcode' /\ Vector'
    BY <1>1, <2>3 DEF Opcode, Vector
  <2>7. QED
    BY Zenon, <1>1, <1>4, <1>5, <2>4, <2>5, <2>6 DEF StepInv, InStep
<1>6. CASE rx[1] # InitByte
  <2>1. k > 0 /\ at = 1
    BY <1>3, <1>6 DEF BeforeInit
  <2>2. state_spi' \in {Setup[n] : n \in DOMAIN Setup} \cup {"READ_INIT"}
    BY <1>1, SetUpStates DEF SetUp
  <2>3. BeforeInit'
    BY <1>1, <1>3, <1>6, <2>1, <2>2 DEF BeforeInit, hostVars
  <2>4. QED
    BY Zenon, <1>1, <1>2, <1>4, <1>6, <2>3 DEF StepInv
<1>7. QED
  BY Zenon, <1>5, <1>6

-----------------------------------------------------------------------------
(* A byte of a command is read.                                            *)
LEMMA ReadOpcodeFacts ==
  ASSUME TypeInv, StepInv, ReadOpcode
  PROVE  /\ is_spi_init /\ Counters /\ Pipeline /\ Opcode /\ Vector /\ HostInv
         /\ UNCHANGED <<hostVars, k, tx, shift, is_spi_init>>
         /\ state_spi = "READ_OPCODE" /\ state_spi' = "WAIT_RECEPTION"
         /\ rx # << >> /\ rx' = << >>
         /\ command_data' = [command_data EXCEPT ![counter_read] = rx[1]]
         /\ OpcodeByte(rx[1]) /\ CommandEnds
<1>1. /\ UNCHANGED <<hostVars, k, tx, shift, is_spi_init>>
      /\ state_spi = "READ_OPCODE" /\ state_spi' = "WAIT_RECEPTION" /\ rx' = << >>
      /\ command_data' = [command_data EXCEPT ![counter_read] = rx[1]]
      /\ OpcodeByte(rx[1]) /\ CommandEnds
  BY Zenon DEF ReadOpcode
<1>2. is_spi_init
  <2>1. "READ_OPCODE" \notin SetUp
    BY DEF SetUp
  <2>2. QED
    BY Zenon, <1>1, <2>1, SetUpStates DEF StepInv, BeforeInit
<1>3. Counters /\ Pipeline /\ Opcode /\ Vector /\ HostInv /\ rx # << >>
  BY Zenon, <1>1, <1>2 DEF StepInv, InStep, TypeInv, StateInv
<1>4. QED
  BY Zenon, <1>1, <1>2, <1>3

(* Which byte it is.                                                       *)
LEMMA ReadPosition ==
  ASSUME TypeInv, StepInv, ReadOpcode
  PROVE  /\ k \in 0..7 /\ counter_read = (IF k = 0 THEN 7 ELSE k - 1)
         /\ counter_send = Limit(counter_read + 1)
         /\ k > 0 => (at \in 1..12 /\ rx[1] = Script[at][k])
         /\ k > 1 => command_data[0] = Script[at][1]
<1>1. Counters /\ Opcode /\ HostInv /\ rx # << >> /\ state_spi = "READ_OPCODE"
  BY Zenon, ReadOpcodeFacts
<1>2. k \in 0..7 /\ at \in 1..13
  BY Zenon DEF TypeInv, HostTypes
<1>3. /\ counter_read = (IF k = 0 THEN 7 ELSE k - 1)
      /\ counter_send = Limit(counter_read + 1)
      /\ k > 0 => rx[1] = Script[at][k]
  BY <1>1 DEF Counters
<1>4. k > 0 => at \in 1..12
  BY <1>1, <1>2 DEF HostInv
<1>5. k > 1 => command_data[0] = Script[at][1]
  BY Zenon, <1>1 DEF Opcode
<1>6. QED
  BY Zenon, <1>2, <1>3, <1>4, <1>5

(* What a byte of the vector's commands does: in the four bytes after the  *)
(* opcode the vector's counter moves, in the others nothing changes.       *)
OpcodesDiffer == /\ WR_INVERTED # WR_LEDS /\ WR_INVERTED # WR_VEC /\ WR_INVERTED # RD_VEC
                 /\ WR_LEDS # WR_VEC /\ WR_LEDS # RD_VEC /\ WR_VEC # RD_VEC
                 /\ INIT # WR_INVERTED /\ INIT # WR_LEDS /\ INIT # WR_VEC /\ INIT # RD_VEC

LEMMA ByteEffect ==
  ASSUME TypeInv, StepInv, ReadOpcode
  PROVE  /\ k = 1 => (data_to_send' = rx[1] /\ UNCHANGED vectors)
         /\ k \notin 1..5 => UNCHANGED vectors
         /\ k \in 2..5 =>
              /\ at = 2 => (data_to_send' = Invert(rx[1]) /\ UNCHANGED vectors)
              /\ at \in {3, 4} => (data_to_send' = rx[1] /\ UNCHANGED vectors)
              /\ at \in 5..8 => /\ data_vector' = [data_vector EXCEPT ![counter_vector] = rx[1]]
                                /\ counter_vector' = (counter_vector + 1) % 16
                                /\ UNCHANGED data_to_send
              /\ at \in 9..12 => /\ data_to_send' = data_vector[counter_vector]
                                 /\ counter_vector' = (counter_vector + 1) % 16
                                 /\ UNCHANGED data_vector
              /\ at = 1 => UNCHANGED <<data_to_send, vectors>>
<1> DEFINE b == rx[1]
<1>1. OpcodeByte(b)
  BY Zenon, ReadOpcodeFacts
<1> HIDE DEF b
<1>2. k \in 0..7 /\ counter_read = (IF k = 0 THEN 7 ELSE k - 1)
  BY Zenon, ReadPosition
<1>3. OpcodesDiffer
  BY DEF OpcodesDiffer, INIT, WR_INVERTED, WR_LEDS, WR_VEC, RD_VEC
<1>4. CASE k = 1
  <2>1. counter_read = 0 /\ k \in 1..5 /\ k \notin 2..5
    BY <1>2, <1>4
  <2>2. QED
    BY Zenon, <1>1, <1>4, <2>1 DEF OpcodeByte, b
<1>5. CASE k \notin 1..5
  <2>1. counter_read # 0 /\ ~InVector /\ k # 1 /\ k \notin 2..5
    BY <1>2, <1>5 DEF InVector
  <2>2. UNCHANGED vectors
    BY Zenon, <1>1, <2>1 DEF OpcodeByte
  <2>3. QED
    BY Zenon, <2>1, <2>2
<1>6. CASE k \in 2..5
  <2>1. counter_read # 0 /\ InVector /\ k # 1 /\ k \in 1..5 /\ k > 1 /\ k > 0
    BY <1>2, <1>6 DEF InVector
  <2>2. command_data[0] = Script[at][1]
    BY Zenon, <2>1, ReadPosition
  <2>3. at = 2 => (data_to_send' = Invert(b) /\ UNCHANGED vectors)
    <3>1. SUFFICES ASSUME at = 2 PROVE data_to_send' = Invert(b) /\ UNCHANGED vectors
      OBVIOUS
    <3>2. command_data[0] = WR_INVERTED
      BY Zenon, <2>2, <3>1, Opcodes
    <3>3. QED
      BY Zenon, <1>1, <1>3, <2>1, <3>2 DEF OpcodeByte, OpcodesDiffer
  <2>4. at \in {3, 4} => (data_to_send' = b /\ UNCHANGED vectors)
    <3>1. SUFFICES ASSUME at \in {3, 4} PROVE data_to_send' = b /\ UNCHANGED vectors
      OBVIOUS
    <3>2. command_data[0] = WR_LEDS
      BY Zenon, <2>2, <3>1, Opcodes
    <3>3. QED
      BY Zenon, <1>1, <1>3, <2>1, <3>2 DEF OpcodeByte, OpcodesDiffer
  <2>5. ASSUME at \in 5..8
        PROVE  /\ data_vector' = [data_vector EXCEPT ![counter_vector] = b]
               /\ counter_vector' = (counter_vector + 1) % 16
               /\ UNCHANGED data_to_send
    <3>1. command_data[0] = WR_VEC
      BY Zenon, <2>2, <2>5, Opcodes
    <3>2. QED
      BY Zenon, <1>1, <1>3, <2>1, <3>1 DEF OpcodeByte, OpcodesDiffer
  <2>6. ASSUME at \in 9..12
        PROVE  /\ data_to_send' = data_vector[counter_vector]
               /\ counter_vector' = (counter_vector + 1) % 16
               /\ UNCHANGED data_vector
    <3>1. command_data[0] = RD_VEC
      BY Zenon, <2>2, <2>6, Opcodes
    <3>2. QED
      BY Zenon, <1>1, <1>3, <2>1, <3>1 DEF OpcodeByte, OpcodesDiffer
  <2>7. at = 1 => UNCHANGED <<data_to_send, vectors>>
    <3>1. SUFFICES ASSUME at = 1 PROVE UNCHANGED <<data_to_send, vectors>>
      OBVIOUS
    <3>2. command_data[0] = INIT
      BY Zenon, <2>2, <3>1, Opcodes
    <3>3. QED
      BY Zenon, <1>1, <1>3, <2>1, <3>2 DEF OpcodeByte, OpcodesDiffer
  <2>8. QED
    BY Zenon, <2>1, <2>3, <2>4, <2>5, <2>6, <2>7 DEF b
<1>7. QED
  <2>1. k = 1 \/ k \notin 1..5 \/ k \in 2..5
    BY <1>2
  <2>2. QED
    BY Zenon, <1>4, <1>5, <1>6, <2>1

(* Positions in the vector.                                                *)
LEMMA Position ==
  ASSUME NEW c \in 0..15, NEW m \in 0..16
  PROVE  /\ (c + m) % 16 = IF c + m < 16 THEN c + m ELSE (c + m) - 16
         /\ (c + m) % 16 \in 0..15
<1>1. (c + m) % 16 = IF c + m < 16 THEN c + m ELSE (c + m) - 16
  BY Z3
<1>2. QED
  BY <1>1

LEMMA NextPosition ==
  ASSUME NEW c \in 0..15, NEW m \in 0..15
  PROVE  (((c + m) % 16) + 1) % 16 = (c + (m + 1)) % 16
<1>1. m + 1 \in 0..16 /\ m \in 0..16 /\ 1 \in 0..16
  OBVIOUS
<1> DEFINE a == (c + m) % 16
<1>2. a = (IF c + m < 16 THEN c + m ELSE (c + m) - 16) /\ a \in 0..15
  BY Zenon, <1>1, Position
<1> HIDE DEF a
<1>3. (a + 1) % 16 = IF a + 1 < 16 THEN a + 1 ELSE (a + 1) - 16
  BY Zenon, <1>1, <1>2, Position
<1>4. (c + (m + 1)) % 16 = IF c + (m + 1) < 16 THEN c + (m + 1) ELSE (c + (m + 1)) - 16
  BY Zenon, <1>1, Position
<1>5. (a + 1) % 16 = (c + (m + 1)) % 16
  <2> DEFINE x == (a + 1) % 16
             y == (c + (m + 1)) % 16
  <2>1. /\ x = IF a + 1 < 16 THEN a + 1 ELSE (a + 1) - 16
        /\ y = IF c + (m + 1) < 16 THEN c + (m + 1) ELSE (c + (m + 1)) - 16
    BY Zenon, <1>3, <1>4
  <2> HIDE DEF x, y
  <2>2. x = y
    BY <1>2, <2>1
  <2>3. QED
    BY Zenon, <2>2 DEF x, y
<1>6. QED
  BY Zenon, <1>5 DEF a

LEMMA OtherPosition ==
  ASSUME NEW c \in 0..15, NEW m \in 0..15, NEW p \in 0..15, p # m
  PROVE  (c + p) % 16 # (c + m) % 16
<1> DEFINE x == (c + p) % 16
           y == (c + m) % 16
<1>1. m \in 0..16 /\ p \in 0..16
  OBVIOUS
<1>2. x = IF c + p < 16 THEN c + p ELSE (c + p) - 16
  BY Zenon, <1>1, Position
<1>3. y = IF c + m < 16 THEN c + m ELSE (c + m) - 16
  BY Zenon, <1>1, Position
<1> HIDE DEF x, y
<1>4. x # y
  BY <1>2, <1>3
<1>5. QED
  BY Zenon, <1>4 DEF x, y

(* Once more round the vector is where one was.                            *)
LEMMA FullTurn ==
  ASSUME NEW c \in 0..15
  PROVE  (c + 16) % 16 = c /\ (c + 0) % 16 = c
<1>1. 16 \in 0..16 /\ 0 \in 0..16
  OBVIOUS
<1>2. /\ (c + 16) % 16 = IF c + 16 < 16 THEN c + 16 ELSE (c + 16) - 16
      /\ (c + 0) % 16 = IF c + 0 < 16 THEN c + 0 ELSE (c + 0) - 16
  BY Zenon, <1>1, Position
<1>3. QED
  BY <1>2

LEMMA ReadOpcodeVector ==
  ASSUME TypeInv, StepInv, ReadOpcode
  PROVE  Vector'
<1>1. /\ Vector /\ rx # << >> /\ rx' = << >> /\ at' = at /\ k' = k
      /\ k \in 0..7
  BY Zenon, ReadOpcodeFacts, ReadPosition DEF hostVars
<1>2. data_vector \in [0..15 -> Byte] /\ counter_vector \in 0..15 /\ at \in 1..13
  BY Zenon DEF TypeInv, VectorTypes, HostTypes
<1>3. /\ Seen = (IF k \in 2..5 THEN k - 2 ELSE IF k \in {6, 7} THEN 4 ELSE 0)
      /\ Seen' = (IF k \in 2..5 THEN k - 1 ELSE IF k \in {6, 7} THEN 4 ELSE 0)
  BY <1>1 DEF Seen
<1>4. CASE k \notin 2..5 \/ at \in 1..4
  <2>1. CASE k \notin 2..5
    <3>1. Seen' = Seen
      BY <1>3, <2>1
    <3>2. UNCHANGED vectors
      <4>1. k = 1 \/ k \notin 1..5
        BY <1>1, <2>1
      <4>2. QED
        BY Zenon, <4>1, ByteEffect
    <3>3. QED
      BY Zenon, <1>1, <3>1, <3>2, VectorKept
  <2>2. CASE at \in 1..4
    <3>1. at' \notin 5..8 /\ at' \notin 9..13
      BY <1>1, <2>2
    <3>2. QED
      BY Zenon, <3>1 DEF Vector
  <2>3. QED
    BY Zenon, <1>4, <2>1, <2>2
<1>5. CASE k \in 2..5 /\ at \in 5..8
  <2> DEFINE m == 4 * (at - 5) + (k - 2)
  <2>1. /\ 4 * (at - 5) + Seen = m /\ (4 * (at - 5) + Seen)' = m + 1 /\ m \in 0..15
    BY <1>1, <1>3, <1>5
  <2>2. PICK c \in 0..15 : counter_vector = (c + m) % 16 /\ HoldsVector(c, m)
    BY Zenon, <1>1, <1>5, <2>1 DEF Vector
  <2>3. /\ data_vector' = [data_vector EXCEPT ![counter_vector] = rx[1]]
        /\ counter_vector' = (counter_vector + 1) % 16
    BY Zenon, <1>5, ByteEffect
  <2>4. rx[1] = VecValue(m)
    <3>1. rx[1] = Script[at][k]
      BY <1>5, ReadPosition
    <3>2. QED
      BY Zenon, <1>5, <3>1, WrittenValue
  <2> HIDE DEF m
  <2>5. counter_vector' = (c + (m + 1)) % 16
    BY Zenon, <2>1, <2>2, <2>3, NextPosition
  <2>6. ASSUME NEW p \in 0..(m + 1) - 1
        PROVE  data_vector'[(c + p) % 16] = VecValue(p)
    <3>1. p \in 0..15 /\ p \in 0..16 /\ (p # m => p \in 0..m - 1)
      BY <2>1
    <3>2. CASE p = m
      <4>1. data_vector'[counter_vector] = rx[1]
        BY <1>2, <2>3
      <4>2. QED
        BY Zenon, <2>2, <2>4, <3>2, <4>1
    <3>3. CASE p # m
      <4> DEFINE x == (c + p) % 16
      <4>1. x \in 0..15 /\ x # counter_vector
        BY Zenon, <2>1, <2>2, <3>1, <3>3, Position, OtherPosition
      <4>2. data_vector[x] = VecValue(p)
        BY Zenon, <2>2, <3>1, <3>3 DEF HoldsVector
      <4> HIDE DEF x
      <4>3. data_vector'[x] = data_vector[x]
        BY <1>2, <2>3, <4>1
      <4>4. QED
        BY Zenon, <4>2, <4>3 DEF x
    <3>4. QED
      BY Zenon, <3>2, <3>3
  <2>7. at' \notin 9..13
    BY <1>1, <1>5
  <2>8. (4 * (at - 5) + Seen)' = m + 1
    BY Zenon, <2>1
  <2>9. \E d \in 0..15 :
          /\ counter_vector' = (d + (4 * (at - 5) + Seen)') % 16
          /\ \A p \in 0..(4 * (at - 5) + Seen)' - 1 : data_vector'[(d + p) % 16] = VecValue(p)
    BY Zenon, <2>5, <2>6, <2>8
  <2>10. QED
    BY Zenon, <2>7, <2>9 DEF Vector, HoldsVector
<1>6. CASE k \in 2..5 /\ at \in 9..13
  <2>1. at \in 9..12
    BY <1>6 DEF StepInv, HostInv
  <2> DEFINE m == 4 * (at - 9) + (k - 2)
  <2>2. /\ 4 * (at - 9) + Seen = m /\ (4 * (at - 9) + Seen)' = m + 1 /\ m \in 0..15
    BY <1>1, <1>3, <1>6, <2>1
  <2>3. PICK c \in 0..15 : counter_vector = (c + m) % 16 /\ HoldsVector(c, 16)
    BY Zenon, <1>1, <1>6, <2>2 DEF Vector
  <2>4. data_vector' = data_vector /\ counter_vector' = (counter_vector + 1) % 16
    BY Zenon, <1>6, <2>1, ByteEffect
  <2> HIDE DEF m
  <2>5. counter_vector' = (c + (m + 1)) % 16
    BY Zenon, <2>2, <2>3, <2>4, NextPosition
  <2>6. HoldsVector(c, 16)'
    BY Zenon, <2>3, <2>4 DEF HoldsVector
  <2>7. at' \notin 5..8
    BY <1>1, <1>6
  <2>8. counter_vector' = (c + (4 * (at - 9) + Seen)') % 16
    BY Zenon, <2>2, <2>5
  <2>9. QED
    BY Zenon, <2>6, <2>7, <2>8 DEF Vector
<1>7. QED
  <2>1. at \in 1..4 \/ at \in 5..8 \/ at \in 9..13
    BY <1>2
  <2>2. QED
    BY Zenon, <1>4, <1>5, <1>6, <2>1

(* What is read from the vector: value m of the session.                   *)
LEMMA ValueRead ==
  ASSUME TypeInv, StepInv, ReadOpcode, k \in 2..5, at \in 9..12
  PROVE  data_vector[counter_vector] = VecValue(4 * (at - 9) + (k - 2))
<1>1. Vector /\ rx # << >> /\ at \in 9..13
  BY ReadOpcodeFacts
<1> DEFINE m == 4 * (at - 9) + (k - 2)
<1>2. 4 * (at - 9) + Seen = m /\ m \in 0..16 - 1
  BY <1>1 DEF Seen
<1>3. PICK c \in 0..15 : counter_vector = (c + m) % 16 /\ HoldsVector(c, 16)
  BY Zenon, <1>1, <1>2 DEF Vector
<1> HIDE DEF m
<1>4. data_vector[counter_vector] = VecValue(m)
  BY Zenon, <1>2, <1>3 DEF HoldsVector
<1>5. QED
  BY Zenon, <1>4 DEF m

LEMMA ReadOpcodeCounters ==
  ASSUME TypeInv, StepInv, ReadOpcode
  PROVE  Counters'
<1>1. /\ rx' = << >> /\ k' = k /\ state_spi' = "WAIT_RECEPTION"
      /\ k \in 0..7 /\ counter_read = (IF k = 0 THEN 7 ELSE k - 1)
      /\ counter_send = Limit(counter_read + 1)
  BY Zenon, ReadOpcodeFacts, ReadPosition
<1>2. /\ counter_read = 7 => (counter_read' = 0 /\ counter_send' = 0)
      /\ counter_read # 7 => (counter_read' = counter_read + 1 /\ counter_send' = counter_send)
  BY Zenon, ReadOpcodeFacts DEF CommandEnds
<1>3. counter_read' = k /\ counter_send' = Limit(k)
  BY <1>1, <1>2 DEF Limit
<1>4. QED
  BY Zenon, <1>1, <1>3 DEF Counters

LEMMA ReadOpcodeReply ==
  ASSUME TypeInv, StepInv, ReadOpcode, k \in 1..5
  PROVE  data_to_send' = Answer(at, k)
<1>1. at \in 1..12 /\ rx[1] = Script[at][k]
  BY ReadPosition
<1>2. CASE k = 1
  BY Zenon, <1>1, <1>2, AnswerIs, ByteEffect
<1>3. CASE k \in 2..5
  <2>1. CASE at = 2
    BY Zenon, <1>1, <1>3, <2>1, AnswerIs, ByteEffect
  <2>2. CASE at \in {3, 4}
    BY Zenon, <1>1, <1>3, <2>2, AnswerIs, ByteEffect
  <2>3. CASE at \in 9..12
    BY Zenon, <1>1, <1>3, <2>3, AnswerIs, ByteEffect, ValueRead
  <2>4. CASE at = 1 \/ at \in 5..8
    <3>1. data_to_send' = data_to_send
      BY Zenon, <1>3, <2>4, ByteEffect
    <3>2. k \in 2..6 /\ at \notin {2, 3, 4} \cup (9..12) /\ k - 1 \in 1..4
      BY <1>3, <2>4
    <3>3. data_to_send = Answer(at, k - 1)
      BY Zenon, <3>2, ReadOpcodeFacts DEF Pipeline
    <3>4. Answer(at, k) = Script[at][1]
      BY Zenon, <1>1, <1>3, <3>2, AnswerIs
    <3>5. Answer(at, k - 1) = Script[at][1]
      <4>1. k - 1 = 1 \/ k - 1 \in 2..5
        BY <3>2
      <4>2. QED
        BY Zenon, <1>1, <3>2, <4>1, AnswerIs
    <3>6. QED
      BY Zenon, <3>1, <3>3, <3>4, <3>5
  <2>5. QED
    <3>1. at = 1 \/ at = 2 \/ at \in {3, 4} \/ at \in 5..8 \/ at \in 9..12
      BY <1>1
    <3>2. QED
      BY Zenon, <2>1, <2>2, <2>3, <2>4, <3>1
<1>4. QED
  BY <1>2, <1>3

LEMMA ReadOpcodePipeline ==
  ASSUME TypeInv, StepInv, ReadOpcode
  PROVE  Pipeline'
<1>1. /\ Pipeline /\ UNCHANGED <<hostVars, k, tx, shift>> /\ rx' = << >>
      /\ state_spi = "READ_OPCODE"
  BY Zenon, ReadOpcodeFacts
<1>2. k' \in 1..5 => data_to_send' = Answer(at', k')
  BY Zenon, <1>1, ReadOpcodeReply DEF hostVars
<1>3. IF k' \in 1..6 THEN tx' = <<Answer(at', k' - 1)>> ELSE tx' = << >>
  BY Zenon, <1>1 DEF Pipeline, hostVars
<1>4. /\ k' \in 2..7 => shift' = Answer(at', k' - 2)
      /\ \A i \in 1..Len(recv') : recv'[i] = Answer(at', i - 1)
  BY Zenon, <1>1 DEF Pipeline, hostVars
<1>5. QED
  BY Zenon, <1>1, <1>2, <1>3, <1>4 DEF Pipeline

LEMMA ReadOpcodeOpcode ==
  ASSUME TypeInv, StepInv, ReadOpcode
  PROVE  Opcode'
<1>1. /\ Opcode /\ rx # << >> /\ rx' = << >> /\ at' = at /\ k' = k
      /\ command_data' = [command_data EXCEPT ![counter_read] = rx[1]]
  BY Zenon, ReadOpcodeFacts DEF hostVars
<1>2. /\ k \in 0..7 /\ counter_read = (IF k = 0 THEN 7 ELSE k - 1)
      /\ k > 0 => (at \in 1..12 /\ rx[1] = Script[at][k])
  BY Zenon, ReadPosition
<1>3. command_data \in [0..7 -> Byte] /\ counter_read \in 0..7 /\ at \in 1..13
  BY Zenon DEF TypeInv, TopTypes, HostTypes
<1>4. /\ counter_read = 0 => command_data'[0] = rx[1]
      /\ counter_read # 0 => command_data'[0] = command_data[0]
      /\ counter_read = 1 => command_data'[1] = rx[1]
      /\ counter_read # 1 => command_data'[1] = command_data[1]
  BY <1>1, <1>3
<1>5. k > 0 => command_data'[0] = Script[at][1]
  <2>1. CASE k = 1
    BY <1>2, <1>4, <2>1
  <2>2. CASE k > 1
    <3>1. command_data[0] = Script[at][1]
      BY Zenon, <1>1, <2>2 DEF Opcode
    <3>2. counter_read # 0
      BY <1>2, <2>2
    <3>3. QED
      BY Zenon, <1>4, <3>1, <3>2
  <2>3. QED
    BY <1>2, <2>1, <2>2
<1>6. k > 1 => command_data'[1] = Script[at][2]
  <2>1. CASE k = 2
    BY <1>2, <1>4, <2>1
  <2>2. CASE k > 2
    <3>1. command_data[1] = Script[at][2]
      BY Zenon, <1>1, <2>2 DEF Opcode
    <3>2. counter_read # 1
      BY <1>2, <2>2
    <3>3. QED
      BY Zenon, <1>4, <3>1, <3>2
  <2>3. QED
    BY <1>2, <2>1, <2>2
<1>7. ASSUME at \in {4, 5}, k = 0
      PROVE  led' = Script[at - 1][2]
  <2>1. command_data[0] = WR_LEDS /\ command_data[1] = Script[at - 1][2]
    BY Zenon, <1>1, <1>7 DEF Opcode
  <2>2. counter_read = 7
    BY <1>2, <1>7
  <2>3. led' = command_data[1] % 8
    BY Zenon, <2>1, <2>2, ReadOpcodeFacts DEF CommandEnds
  <2>4. Script[at - 1][2] \in {3, 4}
    <3>1. at - 1 \in {3, 4}
      BY <1>7
    <3>2. QED
      BY Zenon, <3>1, Opcodes
  <2>5. 3 % 8 = 3 /\ 4 % 8 = 4
    BY Z3
  <2>6. QED
    BY Zenon, <2>1, <2>3, <2>4, <2>5
<1>8. QED
  <2>1. /\ ((rx' = << >> /\ k' > 0) \/ k' > 1) => command_data'[0] = Script[at'][1]
        /\ ((rx' = << >> /\ k' > 1) \/ k' > 2) => command_data'[1] = Script[at'][2]
    BY <1>1, <1>2, <1>5, <1>6
  <2>2. (at' \in {4, 5} /\ k' = 0) => led' = Script[at' - 1][2]
    BY Zenon, <1>1, <1>7
  <2>3. QED
    BY Zenon, <1>1, <2>1, <2>2 DEF Opcode

LEMMA ReadOpcodeStep ==
  ASSUME TypeInv, StepInv, ReadOpcode
  PROVE  StepInv'
<1>1. HostInv' /\ is_spi_init'
  <2>1. HostInv /\ is_spi_init /\ UNCHANGED <<hostVars, k, tx, shift, is_spi_init>>
    BY Zenon, ReadOpcodeFacts
  <2>2. UNCHANGED <<hostVars, k>>
    BY Zenon, <2>1
  <2>3. QED
    BY Zenon, <2>1, <2>2, HostInvKept
<1>2. QED
  BY Zenon, <1>1, ReadOpcodeCounters, ReadOpcodePipeline, ReadOpcodeOpcode, ReadOpcodeVector
  DEF StepInv, InStep

-----------------------------------------------------------------------------
(* The reply the host has at the end of a command is the one expected.     *)
LEMMA ExpectedNothing ==
  ASSUME NEW n \in {1} \cup (5..8)
  PROVE  Expected(n) = << >>
<1>1. Script[n][1] \in {INIT, WR_VEC}
  BY Zenon, Opcodes
<1>2. OpcodesDiffer
  BY DEF OpcodesDiffer, INIT, WR_INVERTED, WR_LEDS, WR_VEC, RD_VEC
<1>3. QED
  BY Zenon, <1>1, <1>2 DEF Expected, OpcodesDiffer

LEMMA OpcodeThenBytes ==
  ASSUME NEW op \in Byte, NEW t \in Seq(Byte), Len(t) = 4
  PROVE  LET e == <<op>> \o t
         IN  /\ e \in Seq(Byte) /\ Len(e) = 5 /\ e[1] = op
             /\ \A i \in 2..5 : e[i] = t[i - 1]
<1> DEFINE o == <<op>>
           e == o \o t
<1>1. o \in Seq(Byte) /\ Len(o) = 1 /\ o[1] = op
  BY SingleByte
<1>2. 5 = 1 + 4
  OBVIOUS
<1> HIDE DEF o
<1>3. e \in Seq(Byte) /\ Len(e) = 5
  <2>1. e \in Seq(Byte) /\ Len(e) = Len(o) + Len(t)
    BY Zenon, <1>1, ByteConcat
  <2>2. QED
    BY Zenon, <1>1, <1>2, <2>1
<1>4. \A i \in 1..5 : e[i] = IF i <= 1 THEN o[i] ELSE t[i - 1]
  <2>1. \A i \in 1..Len(o) + Len(t) : e[i] = IF i <= Len(o) THEN o[i] ELSE t[i - Len(o)]
    BY Zenon, <1>1, ByteConcat
  <2>2. QED
    BY Zenon, <1>1, <1>2, <2>1
<1> HIDE DEF e
<1>5. e[1] = op /\ \A i \in 2..5 : e[i] = t[i - 1]
  BY <1>1, <1>4
<1>6. QED
  BY Zenon, <1>3, <1>5 DEF e, o

IsReply(e, n) ==
  e \in Seq(Byte) /\ Len(e) = 5 /\ \A i \in 1..5 : e[i] = Answer(n, i)

LEMMA ExpectedInverse == IsReply(Expected(2), 2)
<1> DEFINE t == [m \in 1..4 |-> Invert(Script[2][m + 1])]
<1>1. \A m \in 1..4 : m + 1 \in 1..8
  OBVIOUS
<1>2. 2 \in 1..12 /\ 1 \in 1..8
  OBVIOUS
<1>3. \A m \in 1..4 : Script[2][m + 1] \in Byte
  BY Zenon, <1>1, <1>2, ScriptBytes
<1>4. \A b \in Byte : Invert(b) \in Byte
  BY DEF Invert, Byte
<1>5. t \in [1..4 -> Byte]
  BY Zenon, <1>3, <1>4
<1>6. t \in Seq(Byte) /\ Len(t) = 4
  <2>1. 4 \in Nat
    OBVIOUS
  <2>2. QED
    BY Zenon, <1>5, <2>1, FunctionIsSequence
<1>7. \A i \in 2..5 : t[i - 1] = Invert(Script[2][i])
  <2>1. \A i \in 2..5 : i - 1 \in 1..4 /\ (i - 1) + 1 = i
    OBVIOUS
  <2>2. \A m \in 1..4 : t[m] = Invert(Script[2][m + 1])
    OBVIOUS
  <2>3. QED
    BY Zenon, <2>1, <2>2
<1>8. WR_INVERTED \in Byte /\ Script[2][1] = WR_INVERTED
  BY Zenon, CodeBytes, Opcodes
<1>9. Expected(2) = <<WR_INVERTED>> \o t
  <2>1. OpcodesDiffer
    BY DEF OpcodesDiffer, INIT, WR_INVERTED, WR_LEDS, WR_VEC, RD_VEC
  <2>2. QED
    BY Zenon, <1>8, <2>1 DEF Expected, OpcodesDiffer
<1> HIDE DEF t
<1> DEFINE e == <<WR_INVERTED>> \o t
<1>10. /\ e \in Seq(Byte) /\ Len(e) = 5 /\ e[1] = WR_INVERTED
       /\ \A i \in 2..5 : e[i] = t[i - 1]
  BY Zenon, <1>6, <1>8, OpcodeThenBytes
<1>11. Expected(2) = e
  BY Zenon, <1>9
<1> HIDE DEF e
<1>12. \A i \in 1..5 : i = 1 \/ i \in 2..5
  OBVIOUS
<1>13. \A i \in 1..5 : e[i] = Answer(2, i)
  BY Zenon, <1>2, <1>7, <1>8, <1>10, <1>12, AnswerIs
<1>14. QED
  BY Zenon, <1>10, <1>11, <1>13 DEF IsReply

LEMMA FirstFive ==
  ASSUME NEW s \in Seq(Byte), Len(s) = 8
  PROVE  /\ SubSeq(s, 1, 5) \in Seq(Byte) /\ Len(SubSeq(s, 1, 5)) = 5
         /\ \A i \in 1..5 : SubSeq(s, 1, 5)[i] = s[i]
<1>1. \A i \in 1..5 : s[i] \in Byte
  <2>1. \A i \in 1..8 : s[i] \in Byte
    BY Zenon, ElementOfSeq
  <2>2. \A i \in 1..5 : i \in 1..8
    OBVIOUS
  <2>3. QED
    BY Zenon, <2>1, <2>2
<1>2. /\ SubSeq(s, 1, 5) \in Seq(Byte)
      /\ Len(SubSeq(s, 1, 5)) = IF 1 <= 5 THEN (5 - 1) + 1 ELSE 0
      /\ \A i \in 1..(5 - 1) + 1 : SubSeq(s, 1, 5)[i] = s[(1 + i) - 1]
  BY <1>1, SubSeqProperties
<1>3. (IF 1 <= 5 THEN (5 - 1) + 1 ELSE 0) = 5
  OBVIOUS
<1>4. \A i \in 1..5 : i \in 1..(5 - 1) + 1 /\ (1 + i) - 1 = i
  OBVIOUS
<1>5. QED
  BY Zenon, <1>2, <1>3, <1>4

LEMMA ExpectedColour ==
  ASSUME NEW n \in {3, 4}
  PROVE  IsReply(Expected(n), n)
<1> DEFINE s == Script[n]
<1>1. n \in 1..12 /\ n \in 1..4
  OBVIOUS
<1>2. s \in Seq(Byte) /\ Len(s) = 8
  BY Zenon, <1>1, ScriptBytes
<1>3. s[1] = WR_LEDS
  BY Zenon, Opcodes
<1>4. Expected(n) = SubSeq(s, 1, 5)
  <2>1. OpcodesDiffer
    BY DEF OpcodesDiffer, INIT, WR_INVERTED, WR_LEDS, WR_VEC, RD_VEC
  <2>2. QED
    BY Zenon, <1>3, <2>1 DEF Expected, OpcodesDiffer
<1>5. \A i \in 1..5 : s[i] = Answer(n, i)
  <2>1. \A i \in 1..5 : i = 1 \/ i \in 2..5
    OBVIOUS
  <2>2. QED
    BY Zenon, <1>1, <2>1, AnswerIs
<1> HIDE DEF s
<1> DEFINE e == SubSeq(s, 1, 5)
<1>6. e \in Seq(Byte) /\ Len(e) = 5 /\ \A i \in 1..5 : e[i] = s[i]
  BY Zenon, <1>2, FirstFive
<1> HIDE DEF e
<1>7. IsReply(e, n)
  BY Zenon, <1>5, <1>6 DEF IsReply
<1>8. QED
  BY Zenon, <1>4, <1>7 DEF e

LEMMA ExpectedValue ==
  ASSUME NEW n \in 9..12
  PROVE  IsReply(Expected(n), n)
<1> DEFINE t == VecBytes(n - 8)
           e == <<RD_VEC>> \o t
<1>1. n \in 1..12 /\ n - 8 \in 1..4 /\ n - 8 \in Int
  OBVIOUS
<1>2. Script[n][1] = RD_VEC /\ RD_VEC \in Byte
  BY Zenon, Opcodes, CodeBytes
<1>3. Expected(n) = e
  <2>1. OpcodesDiffer
    BY DEF OpcodesDiffer, INIT, WR_INVERTED, WR_LEDS, WR_VEC, RD_VEC
  <2>2. QED
    BY Zenon, <1>2, <2>1 DEF Expected, OpcodesDiffer
<1>4. t \in Seq(Byte) /\ Len(t) = 4
  <2>1. 4 * (n - 8) \in Byte /\ 3 * (n - 8) \in Byte /\ 2 * (n - 8) \in Byte /\ n - 8 \in Byte
    BY Zenon, <1>1, VectorBytes
  <2>2. QED
    BY Zenon, <2>1, SequenceOfFour DEF VecBytes
<1>5. \A i \in 2..5 : Answer(n, i) = t[i - 1]
  <2>1. SUFFICES ASSUME NEW i \in 2..5 PROVE Answer(n, i) = t[i - 1]
    OBVIOUS
  <2>2. n - 9 \in 0..3 /\ i - 2 \in 0..3 /\ (n - 9) + 1 = n - 8 /\ (i - 2) + 1 = i - 1
    OBVIOUS
  <2>3. Answer(n, i) = VecValue(4 * (n - 9) + (i - 2))
    BY Zenon, <1>1, AnswerIs
  <2>4. QED
    BY Zenon, <2>2, <2>3, ValueAt
<1> HIDE DEF t
<1>6. /\ e \in Seq(Byte) /\ Len(e) = 5 /\ e[1] = RD_VEC
      /\ \A i \in 2..5 : e[i] = t[i - 1]
  BY Zenon, <1>2, <1>4, OpcodeThenBytes
<1> HIDE DEF e
<1>7. \A i \in 1..5 : i = 1 \/ i \in 2..5
  OBVIOUS
<1>8. \A i \in 1..5 : e[i] = Answer(n, i)
  BY Zenon, <1>1, <1>2, <1>5, <1>6, <1>7, AnswerIs
<1>9. QED
  BY Zenon, <1>3, <1>6, <1>8 DEF IsReply

LEMMA ReplyExpected ==
  ASSUME NEW n \in 1..12, Expected(n) # << >>, NEW e, IsReply(e, n)
  PROVE  e = Expected(n)
<1>1. IsReply(Expected(n), n)
  <2>1. n \in {1} \cup (5..8) \/ n = 2 \/ n \in {3, 4} \/ n \in 9..12
    OBVIOUS
  <2>2. QED
    BY Zenon, <2>1, ExpectedNothing, ExpectedInverse, ExpectedColour, ExpectedValue
<1> DEFINE f == Expected(n)
<1>2. f \in Seq(Byte) /\ Len(f) = 5 /\ \A i \in 1..5 : f[i] = Answer(n, i)
  BY Zenon, <1>1 DEF IsReply
<1>3. e \in Seq(Byte) /\ Len(e) = 5 /\ \A i \in 1..5 : e[i] = Answer(n, i)
  BY Zenon DEF IsReply
<1> HIDE DEF f
<1>4. \A i \in 1..Len(e) : e[i] = f[i]
  BY Zenon, <1>2, <1>3
<1>5. e = f
  BY Zenon, <1>2, <1>3, <1>4, SeqEqual
<1>6. QED
  BY Zenon, <1>5 DEF f

-----------------------------------------------------------------------------
(* A byte ends on the wire.                                                *)
LEMMA WireFacts ==
  ASSUME TypeInv, StepInv, OnTheWire, at <= 12
  PROVE  /\ at \in 1..12 /\ k \in 0..7
         /\ rx = << >> /\ rx' = <<Script[at][k + 1]>> /\ rx' # << >> /\ rx'[1] = Script[at][k + 1]
         /\ tx' = << >> /\ state_spi = "WAIT_RECEPTION"
         /\ UNCHANGED <<state_spi, is_spi_init, counter_read, counter_send, command_data,
                        data_to_send, vectors, led>>
         /\ k' = (IF k = 7 THEN 0 ELSE k + 1)
         /\ is_spi_init => (k \in 1..6 => shift' = Answer(at, k - 1))
<1>1. /\ at \in 1..12 /\ k \in 0..7
  BY DEF TypeInv, HostTypes
<1>2. /\ rx' = <<Script[at][k + 1]>> /\ k' = (IF k = 7 THEN 0 ELSE k + 1)
      /\ Script[at][k + 1] \in Byte
  BY Zenon, OnTheWireTypes
<1>3. /\ rx = << >> /\ tx' = << >> /\ state_spi = "WAIT_RECEPTION"
      /\ UNCHANGED <<state_spi, is_spi_init, counter_read, counter_send, command_data,
                     data_to_send, vectors, led>>
      /\ IF tx = << >> THEN shift' \in {0, Status} ELSE shift' = tx[1]
  BY Zenon DEF OnTheWire
<1>4. rx' # << >> /\ rx'[1] = Script[at][k + 1]
  BY <1>2
<1>5. ASSUME is_spi_init, k \in 1..6
      PROVE  shift' = Answer(at, k - 1)
  <2>1. tx = <<Answer(at, k - 1)>>
    BY Zenon, <1>3, <1>5 DEF StepInv, InStep, Pipeline
  <2>2. tx # << >> /\ tx[1] = Answer(at, k - 1)
    BY <2>1
  <2>3. QED
    BY Zenon, <1>3, <2>2
<1>6. QED
  BY Zenon, <1>1, <1>2, <1>3, <1>4, <1>5

(* The bytes the host has, with the one that just came.                    *)
LEMMA ReceivedAnswers ==
  ASSUME TypeInv, StepInv, is_spi_init, at <= 12
  PROVE  \A i \in 1..Len(Received) : Received[i] = Answer(at, i - 1)
<1>1. /\ \A i \in 1..Len(recv) : recv[i] = Answer(at, i - 1)
      /\ k \in 2..7 => shift = Answer(at, k - 2)
  BY Zenon DEF StepInv, InStep, Pipeline
<1>2. /\ k \in 0..7 /\ recv \in Seq(Byte) /\ shift \in Byte
      /\ Len(recv) = (IF k < 3 THEN 0 ELSE k - 2)
  BY Zenon DEF TypeInv, HostTypes, BlockTypes
<1>3. CASE k < 2
  <2>1. Len(Received) = 0
    BY <1>3 DEF Received
  <2>2. QED
    BY <2>1
<1>4. CASE ~(k < 2)
  <2> DEFINE r == Append(recv, shift)
  <2>1. /\ Len(r) = Len(recv) + 1 /\ r[Len(recv) + 1] = shift
        /\ \A i \in 1..Len(recv) : r[i] = recv[i]
    BY <1>2, AppendProperties
  <2>2. Received = r
    BY Zenon, <1>4 DEF Received
  <2> HIDE DEF r
  <2>3. Len(recv) + 1 = k - 1 /\ (k - 1) - 1 = k - 2 /\ k \in 2..7
    BY <1>2, <1>4
  <2>4. \A i \in 1..Len(recv) + 1 : i \in 1..Len(recv) \/ i = Len(recv) + 1
    BY <1>2
  <2>5. \A i \in 1..Len(recv) + 1 : r[i] = Answer(at, i - 1)
    BY Zenon, <1>1, <2>1, <2>3, <2>4
  <2>6. QED
    BY Zenon, <2>1, <2>2, <2>5
<1>5. QED
  BY Zenon, <1>3, <1>4

LEMMA BeforeInitByte ==
  ASSUME TypeInv, StepInv, OnTheWire, at <= 12, ~is_spi_init,
         at' = at \/ (k = 7 /\ at' = at + 1)
  PROVE  BeforeInit'
<1>1. BeforeInit
  BY Zenon DEF StepInv
<1>2. /\ k \in 0..7 /\ rx = << >> /\ rx' = <<Script[at][k + 1]>> /\ rx' # << >>
      /\ rx'[1] = Script[at][k + 1]
      /\ tx' = << >> /\ state_spi = "WAIT_RECEPTION" /\ state_spi' = state_spi
      /\ counter_read' = counter_read /\ counter_send' = counter_send
      /\ k' = (IF k = 7 THEN 0 ELSE k + 1)
  BY Zenon, WireFacts
<1>3. at = 1 /\ counter_read = 0 /\ counter_send = 0
  BY Zenon, <1>1, <1>2 DEF BeforeInit
<1>4. rx' = <<rx'[1]>>
  BY Zenon, <1>2
<1>5. k' > 0 => (at' = 1 /\ rx'[1] = Script[1][k'])
  BY <1>2, <1>3
<1>6. k' = 0 => (at' \in {1, 2} /\ rx'[1] = InitByte)
  <2>1. k' = 0 => k = 7
    BY <1>2
  <2>2. k = 7 => k + 1 = 8
    OBVIOUS
  <2>3. at' \in {1, 2}
    BY <1>3
  <2>4. QED
    BY Zenon, <1>2, <1>3, <2>1, <2>2, <2>3, InitCommand
<1>7. /\ state_spi' \in {Setup[n] : n \in DOMAIN Setup} \cup {"READ_INIT"}
      /\ state_spi' \in {"WAIT_RECEPTION", "READ_INIT"} /\ state_spi' # "READ_INIT"
  BY <1>2, SetUpStates DEF SetUp
<1>8. QED
  BY Zenon, <1>2, <1>3, <1>4, <1>5, <1>6, <1>7 DEF BeforeInit

(* Counters and the parts of the pipeline that a byte on the wire moves.   *)
LEMMA WireCounters ==
  ASSUME TypeInv, StepInv, OnTheWire, at <= 12, is_spi_init,
         k < 7 => at' = at
  PROVE  Counters'
<1>1. /\ k \in 0..7 /\ rx = << >> /\ rx' = <<Script[at][k + 1]>> /\ rx' # << >>
      /\ rx'[1] = Script[at][k + 1]
      /\ state_spi = "WAIT_RECEPTION" /\ state_spi' = state_spi
      /\ counter_read' = counter_read /\ counter_send' = counter_send
      /\ k' = (IF k = 7 THEN 0 ELSE k + 1)
  BY Zenon, WireFacts
<1>2. counter_read = k /\ counter_send = Limit(k)
  BY Zenon, <1>1 DEF StepInv, InStep, Counters
<1>3. counter_read' = (IF k' = 0 THEN 7 ELSE k' - 1) /\ counter_send' = Limit(counter_read')
  <2>1. counter_read' = (IF k' = 0 THEN 7 ELSE k' - 1)
    BY <1>1, <1>2
  <2>2. QED
    BY Zenon, <1>1, <1>2, <2>1 DEF Limit
<1>4. k' > 0 => rx'[1] = Script[at'][k']
  BY <1>1
<1>5. rx' = <<rx'[1]>> /\ state_spi' = "WAIT_RECEPTION"
  BY Zenon, <1>1
<1>6. QED
  BY <1>1, <1>3, <1>4, <1>5 DEF Counters

LEMMA NextByteStep ==
  ASSUME TypeInv, StepInv, NextByte
  PROVE  StepInv'
<1>1. /\ at <= 12 /\ OnTheWire /\ k < 7 /\ recv' = Received
      /\ UNCHANGED <<at, retries, session, got>>
  BY Zenon, ScriptEntries DEF NextByte
<1>2. /\ at \in 1..12 /\ k \in 0..7 /\ rx = << >> /\ rx' # << >> /\ tx' = << >>
      /\ state_spi' = "WAIT_RECEPTION" /\ is_spi_init' = is_spi_init
      /\ command_data' = command_data /\ data_to_send' = data_to_send /\ led' = led
      /\ UNCHANGED vectors
      /\ k' = (IF k = 7 THEN 0 ELSE k + 1)
      /\ is_spi_init => (k \in 1..6 => shift' = Answer(at, k - 1))
  BY Zenon, <1>1, WireFacts
<1>3. at' = at /\ k' = k + 1 /\ k' - 1 = k /\ k' - 2 = k - 1
  BY <1>1, <1>2
<1>4. HostInv'
  BY Zenon, <1>1, <1>3 DEF StepInv, HostInv, RepliesSoFar
<1>5. CASE ~is_spi_init
  <2>1. BeforeInit'
    BY Zenon, <1>1, <1>5, BeforeInitByte
  <2>2. QED
    BY Zenon, <1>2, <1>4, <1>5, <2>1 DEF StepInv
<1>6. CASE is_spi_init
  <2>1. Pipeline /\ Opcode /\ Vector
    BY Zenon, <1>6 DEF StepInv, InStep
  <2>2. Counters'
    BY Zenon, <1>1, <1>6, WireCounters
  <2>3. Pipeline'
    <3>1. k' \in 2..6 => data_to_send' = Answer(at', k' - 1)
      <4>1. k' \in 2..6 => k \in 1..5
        BY <1>2, <1>3
      <4>2. QED
        BY Zenon, <1>2, <1>3, <2>1, <4>1 DEF Pipeline
    <3>2. k' \in 2..7 => shift' = Answer(at', k' - 2)
      <4>1. k' \in 2..7 => k \in 1..6
        BY <1>2, <1>3
      <4>2. QED
        BY Zenon, <1>2, <1>3, <1>6, <4>1
    <3>3. \A i \in 1..Len(recv') : recv'[i] = Answer(at', i - 1)
      BY Zenon, <1>1, <1>3, <1>6, ReceivedAnswers
    <3>4. state_spi' # "READ_OPCODE"
      BY <1>2
    <3>5. QED
      BY Zenon, <1>2, <3>1, <3>2, <3>3, <3>4 DEF Pipeline
  <2>4. Opcode'
    <3>1. /\ k' > 1 => k > 0
          /\ k' > 2 => k > 1
          /\ k' # 0
      BY <1>2, <1>3
    <3>2. QED
      BY Zenon, <1>2, <1>3, <2>1, <3>1 DEF Opcode
  <2>5. Vector'
    <3>1. Seen' = Seen
      <4>1. Seen = (IF k <= 1 THEN 0 ELSE IF k <= 5 THEN k - 1 ELSE 4)
        BY Zenon, <1>2 DEF Seen
      <4>2. Seen' = (IF k' - 1 <= 1 THEN 0 ELSE IF k' - 1 <= 5 THEN (k' - 1) - 1 ELSE 4)
        BY Zenon, <1>2 DEF Seen
      <4>3. QED
        BY Zenon, <1>3, <4>1, <4>2
    <3>2. QED
      BY Zenon, <1>2, <1>3, <2>1, <3>1, VectorKept
  <2>6. QED
    BY Zenon, <1>2, <1>4, <1>6, <2>2, <2>3, <2>4, <2>5 DEF StepInv, InStep
<1>7. QED
  BY Zenon, <1>5, <1>6

(* A command is over: before 11h was seen nothing counts; afterwards the   *)
(* status is always acknowledged, so no command is sent twice.             *)
LEMMA LastByteFacts ==
  ASSUME TypeInv, StepInv, LastByte
  PROVE  /\ at \in 1..12 /\ OnTheWire /\ k = 7 /\ k' = 0 /\ recv' = << >>
         /\ is_spi_init => (at' = at + 1 /\ got' = Append(got, Tail(Received)))
         /\ ~is_spi_init =>
               /\ at = 1
               /\ \/ at' = at + 1 /\ got' = Append(got, Tail(Received))
                  \/ at' = at /\ got' = got
<1>1. /\ at <= 12 /\ OnTheWire /\ k = 7 /\ recv' = << >>
      /\ IF Acknowledged \/ retries + 1 = MaxRetries
         THEN at' = at + 1 /\ got' = Append(got, Tail(Received))
         ELSE at' = at /\ got' = got
  BY Zenon, ScriptEntries DEF LastByte
<1>2. at \in 1..12 /\ rx = << >> /\ k' = (IF k = 7 THEN 0 ELSE k + 1)
  BY Zenon, <1>1, WireFacts
<1>3. is_spi_init => Acknowledged
  <2>1. SUFFICES ASSUME is_spi_init PROVE Acknowledged
    OBVIOUS
  <2>2. 1 \in 1..Len(recv) /\ 1 - 1 = 0
    BY <1>1 DEF TypeInv, HostTypes
  <2>3. recv[1] = Status
    <3>1. \A i \in 1..Len(recv) : recv[i] = Answer(at, i - 1)
      BY Zenon, <2>1 DEF StepInv, InStep, Pipeline
    <3>2. recv[1] = Answer(at, 0)
      BY Zenon, <2>2, <3>1
    <3>3. Answer(at, 0) = Status
      BY Zenon, <1>2, AnswerIs
    <3>4. QED
      BY Zenon, <3>2, <3>3
  <2>4. (64 \div 64) % 2 = 1
    BY Z3
  <2>5. QED
    BY Zenon, <2>3, <2>4 DEF Acknowledged, Status
<1>4. ~is_spi_init => at = 1
  BY Zenon, <1>2 DEF StepInv, BeforeInit
<1>5. QED
  BY Zenon, <1>1, <1>2, <1>3, <1>4

LEMMA LastReply ==
  ASSUME TypeInv, StepInv, is_spi_init, at \in 1..12, k = 7
  PROVE  IsReply(Tail(Received), at)
<1> DEFINE r == Received
           e == Tail(r)
<1>1. r \in Seq(Byte) /\ Len(r) = 6
  BY ReceivedType
<1>2. \A i \in 1..6 : r[i] = Answer(at, i - 1)
  <2>1. at <= 12
    OBVIOUS
  <2>2. QED
    BY Zenon, <1>1, <2>1, ReceivedAnswers
<1> HIDE DEF r
<1>3. e \in Seq(Byte) /\ Len(e) = 5 /\ \A i \in 1..5 : e[i] = r[i + 1]
  BY Zenon, <1>1, TailOfSix
<1> HIDE DEF e
<1>4. \A i \in 1..5 : i + 1 \in 1..6 /\ (i + 1) - 1 = i
  OBVIOUS
<1>5. \A i \in 1..5 : e[i] = Answer(at, i)
  BY Zenon, <1>2, <1>3, <1>4
<1>6. IsReply(e, at)
  BY Zenon, <1>3, <1>5 DEF IsReply
<1>7. QED
  BY Zenon, <1>6 DEF e, r

LEMMA LastByteReplies ==
  ASSUME TypeInv, StepInv, LastByte
  PROVE  HostInv'
<1>1. at \in 1..12 /\ k = 7 /\ k' = 0
  BY Zenon, LastByteFacts
<1>2. /\ got \in Seq(Seq(Byte)) /\ Len(got) = at - 1
      /\ \A n \in 1..at - 1 : Expected(n) # << >> => got[n] = Expected(n)
  BY Zenon DEF TypeInv, HostTypes, StepInv, HostInv, RepliesSoFar
<1>3. ASSUME at' = at, got' = got
      PROVE  RepliesSoFar'
  BY Zenon, <1>2, <1>3 DEF RepliesSoFar
<1>4. ASSUME at' = at + 1, got' = Append(got, Tail(Received))
      PROVE  RepliesSoFar'
  <2> DEFINE e == Tail(Received)
  <2>1. e \in Seq(Byte)
    <3>1. Received \in Seq(Byte) /\ Len(Received) = 6
      BY <1>1, ReceivedType
    <3>2. QED
      BY Zenon, <3>1, TailOfSix
  <2>2. Expected(at) # << >> => e = Expected(at)
    <3>1. SUFFICES ASSUME Expected(at) # << >> PROVE e = Expected(at)
      OBVIOUS
    <3>2. is_spi_init
      BY Zenon, <3>1, LastByteFacts, ExpectedNothing
    <3>3. QED
      BY Zenon, <1>1, <3>1, <3>2, LastReply, ReplyExpected
  <2> HIDE DEF e
  <2>3. /\ Len(got') = Len(got) + 1 /\ got'[Len(got) + 1] = e
        /\ \A i \in 1..Len(got) : got'[i] = got[i]
    <3>1. got' = Append(got, e)
      BY Zenon, <1>4 DEF e
    <3>2. QED
      BY Zenon, <1>2, <2>1, <3>1, ReplyAppend
  <2>4. Len(got) + 1 = at /\ at' - 1 = at /\ \A n \in 1..at : n \in 1..at - 1 \/ n = at
    BY <1>1, <1>2, <1>4
  <2>5. Len(got') = at' - 1
    BY Zenon, <2>3, <2>4
  <2>6. \A n \in 1..at' - 1 : Expected(n) # << >> => got'[n] = Expected(n)
    BY Zenon, <1>2, <2>2, <2>3, <2>4
  <2>7. QED
    BY Zenon, <2>5, <2>6 DEF RepliesSoFar
<1>5. RepliesSoFar'
  BY Zenon, <1>3, <1>4, LastByteFacts
<1>6. QED
  BY <1>1, <1>5 DEF HostInv

LEMMA LastByteVector ==
  ASSUME TypeInv, StepInv, LastByte, is_spi_init
  PROVE  Vector'
<1>1. at \in 1..12 /\ k = 7 /\ k' = 0 /\ at' = at + 1
  BY Zenon, LastByteFacts
<1>2. rx = << >> /\ rx' # << >> /\ data_vector' = data_vector /\ counter_vector' = counter_vector
  <2>1. at <= 12
    BY <1>1
  <2>2. QED
    BY Zenon, <2>1, LastByteFacts, WireFacts DEF vectors
<1>3. Seen = 4 /\ Seen' = 0
  BY <1>1, <1>2 DEF Seen
<1>4. counter_vector \in 0..15
  BY Zenon DEF TypeInv, VectorTypes
<1>5. Vector
  BY Zenon DEF StepInv, InStep
<1>6. CASE at \in 1..3
  <2>1. at' \notin 5..8 /\ at' \notin 9..13
    BY <1>1, <1>6
  <2>2. QED
    BY Zenon, <2>1 DEF Vector
<1>7. CASE at = 4
  <2>1. at' \in 5..8 /\ at' \notin 9..13 /\ (4 * (at - 5) + Seen)' = 0 /\ ~(\E p \in 0..0 - 1 : TRUE)
    BY <1>1, <1>3, <1>7
  <2>2. counter_vector' = (counter_vector + 0) % 16
    BY Zenon, <1>2, <1>4, FullTurn
  <2>3. QED
    BY Zenon, <1>4, <2>1, <2>2 DEF Vector, HoldsVector
<1>8. CASE at \in 5..7
  <2>1. at \in 5..8 /\ at' \in 5..8 /\ at' \notin 9..13 /\ (4 * (at - 5) + Seen)' = 4 * (at - 5) + Seen
    BY <1>1, <1>3, <1>8
  <2>2. QED
    BY Zenon, <1>2, <1>5, <2>1 DEF Vector, HoldsVector
<1>9. CASE at = 8
  <2>1. at \in 5..8 /\ at' \notin 5..8 /\ at' \in 9..13
        /\ 4 * (at - 5) + Seen = 16 /\ (4 * (at - 9) + Seen)' = 0
    BY <1>1, <1>3, <1>9
  <2>2. PICK c \in 0..15 : counter_vector = (c + 16) % 16 /\ HoldsVector(c, 16)
    BY Zenon, <1>5, <2>1 DEF Vector
  <2>3. counter_vector' = (c + 0) % 16
    BY Zenon, <1>2, <2>2, FullTurn
  <2>4. HoldsVector(c, 16)'
    BY Zenon, <1>2, <2>2 DEF HoldsVector
  <2>5. QED
    BY Zenon, <2>1, <2>3, <2>4 DEF Vector
<1>10. CASE at \in 9..12
  <2>1. at \in 9..13 /\ at' \notin 5..8 /\ at' \in 9..13 /\ (4 * (at - 9) + Seen)' = 4 * (at - 9) + Seen
    BY <1>1, <1>3, <1>10
  <2>2. QED
    BY Zenon, <1>2, <1>5, <2>1 DEF Vector, HoldsVector
<1>11. QED
  BY <1>1, <1>6, <1>7, <1>8, <1>9, <1>10

LEMMA LastByteStep ==
  ASSUME TypeInv, StepInv, LastByte
  PROVE  StepInv'
<1>1. /\ at \in 1..12 /\ OnTheWire /\ k = 7 /\ k' = 0 /\ recv' = << >> /\ at <= 12
  BY LastByteFacts
<1>2. /\ rx = << >> /\ rx' # << >> /\ tx' = << >>
      /\ state_spi' = "WAIT_RECEPTION" /\ is_spi_init' = is_spi_init
      /\ command_data' = command_data
  BY Zenon, <1>1, WireFacts
<1>3. CASE ~is_spi_init
  <2>1. at' = at \/ (k = 7 /\ at' = at + 1)
    BY Zenon, <1>1, <1>3, LastByteFacts
  <2>2. BeforeInit'
    BY Zenon, <1>1, <1>3, <2>1, BeforeInitByte
  <2>3. QED
    BY Zenon, <1>2, <1>3, <2>2, LastByteReplies DEF StepInv
<1>4. CASE is_spi_init
  <2>1. at' = at + 1 /\ Pipeline /\ Opcode
    BY Zenon, <1>4, LastByteFacts DEF StepInv, InStep
  <2>2. Counters'
    <3>1. ~(k < 7)
      BY <1>1
    <3>2. QED
      BY Zenon, <1>1, <1>4, <3>1, WireCounters
  <2>3. Pipeline'
    BY <1>1, <1>2 DEF Pipeline
  <2>4. Opcode'
    <3>1. command_data[0] = Script[at][1] /\ command_data[1] = Script[at][2]
      BY <1>1, <1>2, <2>1 DEF Opcode
    <3>2. at' \in {4, 5} => (command_data'[0] = WR_LEDS /\ command_data'[1] = Script[at' - 1][2])
      <4>1. at' \in {4, 5} => (at \in {3, 4} /\ at' - 1 = at)
        BY <1>1, <2>1
      <4>2. QED
        BY Zenon, <1>2, <3>1, <4>1, Opcodes
    <3>3. ~(k' > 0) /\ ~(k' > 1) /\ ~(k' > 2)
      BY <1>1
    <3>4. QED
      BY Zenon, <1>2, <3>2, <3>3 DEF Opcode
  <2>5. QED
    BY Zenon, <1>2, <1>4, <2>2, <2>3, <2>4, LastByteReplies, LastByteVector DEF StepInv, InStep
<1>5. QED
  BY Zenon, <1>3, <1>4

-----------------------------------------------------------------------------
LEMMA RerunStep ==
  ASSUME TypeInv, StepInv, Rerun
  PROVE  StepInv'
<1>1. /\ UNCHANGED <<k, recv, rx, tx, shift, state_spi, is_spi_init, counter_read, counter_send,
                     command_data, data_to_send, vectors, led>>
      /\ k = 0 /\ at' = 1 /\ got' = << >>
  BY Zenon DEF Rerun
<1>2. HostInv'
  BY <1>1 DEF HostInv, RepliesSoFar
<1>3. recv = << >>
  <2>1. recv \in Seq(Byte) /\ Len(recv) = 0
    BY <1>1 DEF TypeInv, HostTypes
  <2>2. QED
    BY <2>1, EmptySeq
<1>4. CASE ~is_spi_init
  <2>1. BeforeInit
    BY Zenon, <1>4 DEF StepInv
  <2>2. BeforeInit'
    BY <1>1, <2>1 DEF BeforeInit
  <2>3. QED
    BY Zenon, <1>1, <1>2, <1>4, <2>2 DEF StepInv
<1>5. CASE is_spi_init
  <2>1. Counters /\ Pipeline
    BY Zenon, <1>5 DEF StepInv, InStep
  <2>2. Counters'
    BY <1>1, <2>1 DEF Counters
  <2>3. Pipeline'
    BY <1>1, <1>3, <2>1 DEF Pipeline
  <2>4. Opcode' /\ Vector'
    BY <1>1 DEF Opcode, Vector
  <2>5. QED
    BY Zenon, <1>1, <1>2, <1>5, <2>2, <2>3, <2>4 DEF StepInv, InStep
<1>6. QED
  BY Zenon, <1>4, <1>5

LEMMA StepInvStep ==
  ASSUME TypeInv, StepInv, [Next]_vars
  PROVE  StepInv'
<1>1. CASE Next
  BY Zenon, <1>1, ConfigureStep, WaitReceptionStep, WaitTransmitReadyStep, TransmitStep,
     ReadInitStep, ReadOpcodeStep, NextByteStep, LastByteStep, RerunStep DEF Next
<1>2. CASE UNCHANGED vars
  BY Zenon, <1>2 DEF vars, hostVars, vectors, StepInv, InStep, HostInv, RepliesSoFar, Counters,
     Pipeline, Opcode, Vector, HoldsVector, Seen, BeforeInit
<1>3. QED
  BY Zenon, <1>1, <1>2

LEMMA StepInvReplies ==
  ASSUME TypeInv, StepInv
  PROVE  RepliesMatch
<1>1. /\ got \in Seq(Seq(Byte)) /\ Len(got) = at - 1
      /\ \A n \in 1..at - 1 : Expected(n) # << >> => got[n] = Expected(n)
  BY Zenon DEF TypeInv, HostTypes, StepInv, HostInv, RepliesSoFar
<1>2. DOMAIN got = 1..at - 1
  BY <1>1, LenProperties
<1>3. ASSUME at \in {4, 5}, k = 0, rx = << >>
      PROVE  led = Script[at - 1][2]
  <2>1. is_spi_init
    BY <1>3 DEF StepInv, BeforeInit
  <2>2. QED
    BY Zenon, <1>3, <2>1 DEF StepInv, InStep, Opcode
<1>4. QED
  BY Zenon, <1>1, <1>2, <1>3 DEF RepliesMatch

(* The replies are in step with the commands in every session, for every   *)
(* number of retries: each is the reply to the command it comes with, the  *)
(* vector comes back as this session wrote it wherever its counter was     *)
(* left, and the LED has the colour acknowledged last.                     *)
THEOREM RepliesMatchAlways == Spec => []RepliesMatch
<1>1. Init => StepInv
  BY InitStepInv
<1>2. TypeInv /\ StepInv /\ [Next]_vars => StepInv'
  BY StepInvStep
<1>3. TypeInv /\ StepInv => RepliesMatch
  BY StepInvReplies
<1>4. QED
  BY <1>1, <1>2, <1>3, TypeInvAlways, PTL DEF Spec

=============================================================================
