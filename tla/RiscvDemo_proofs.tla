-------------------------- MODULE RiscvDemo_proofs --------------------------
(***************************************************************************)
(* Theorems about RiscvDemo, for every size of the firmware, number of     *)
(* tries and number of runs of main.                                       *)
(***************************************************************************)
EXTENDS RiscvDemo, SequenceTheorems, FiniteSetTheorems, TLAPS

-----------------------------------------------------------------------------
(* The script as a table.                                                  *)
Ops == {"INIT", "FIRM", "START", "LED", "POW", "FIB", "MATRIX", "GRADIENT", "READ",
        "NOP", "ECHO"}
Packet == [op : Ops, ch : Nat]
Reads  == {6, 8, 17, 18, 19, 20}    \* the steps of the demonstration that read a result

LEMMA CmdType ==
  ASSUME NEW o \in Ops, NEW v \in Nat
  PROVE  Cmd(o, v) \in Packet /\ Cmd(o, v).op = o /\ Cmd(o, v).ch = v
BY DEF Cmd, Packet

JoinOf(u, s, t, m, l) ==
  /\ u \in Seq(Packet) /\ Len(u) = m + l
  /\ \A n \in 1..m : u[n] = s[n]
  /\ \A n \in 1..l : u[m + n] = t[n]

LEMMA Joined ==
  ASSUME NEW s \in Seq(Packet), NEW t \in Seq(Packet), NEW m \in Nat, NEW l \in Nat,
         Len(s) = m, Len(t) = l
  PROVE  JoinOf(s \o t, s, t, m, l)
BY DEF JoinOf

LEMMA MatrixTable ==
  ASSUME NEW a \in Nat, NEW b \in Nat, NEW c \in Nat, NEW d \in Nat
  PROVE  Matrix(<<a, b, c, d>>) = <<Cmd("MATRIX", a), Cmd("MATRIX", b),
                                    Cmd("MATRIX", c), Cmd("MATRIX", d)>>
<1>1. DOMAIN <<a, b, c, d>> = 1..4
  OBVIOUS
<1>2. /\ <<a, b, c, d>>[1] = a /\ <<a, b, c, d>>[2] = b
      /\ <<a, b, c, d>>[3] = c /\ <<a, b, c, d>>[4] = d
  OBVIOUS
<1> QED
  BY <1>1, <1>2 DEF Matrix

LEMMA DemoTable ==
  /\ Demo \in Seq(Packet) /\ Len(Demo) = 21
  /\ Demo[1] = Cmd("LED", 1) /\ Demo[2] = Cmd("LED", 2) /\ Demo[3] = Cmd("LED", 3)
  /\ Demo[4] = Cmd("LED", 7) /\ Demo[5] = Cmd("POW", 125) /\ Demo[6] = Read
  /\ Demo[7] = Cmd("FIB", 20) /\ Demo[8] = Read
  /\ Demo[9] = Cmd("MATRIX", 1) /\ Demo[10] = Cmd("MATRIX", 2)
  /\ Demo[11] = Cmd("MATRIX", 3) /\ Demo[12] = Cmd("MATRIX", 1)
  /\ Demo[13] = Cmd("MATRIX", 10) /\ Demo[14] = Cmd("MATRIX", 0)
  /\ Demo[15] = Cmd("MATRIX", 5) /\ Demo[16] = Cmd("MATRIX", 2)
  /\ Demo[17] = Read /\ Demo[18] = ReadAtOnce /\ Demo[19] = ReadAtOnce
  /\ Demo[20] = ReadAtOnce /\ Demo[21] = Cmd("GRADIENT", 0)
<1> DEFINE A == <<Cmd("LED", 1), Cmd("LED", 2), Cmd("LED", 3), Cmd("LED", 7),
                  Cmd("POW", 125), Read, Cmd("FIB", 20), Read>>
           B == Matrix(mat0)
           C == Matrix(mat1)
           D == <<Read, ReadAtOnce, ReadAtOnce, ReadAtOnce, Cmd("GRADIENT", 0)>>
<1>1. A \in Seq(Packet) /\ Len(A) = 8
  BY CmdType DEF Ops, Read
<1>2. B = <<Cmd("MATRIX", 1), Cmd("MATRIX", 2), Cmd("MATRIX", 3), Cmd("MATRIX", 1)>>
  BY MatrixTable DEF mat0
<1>3. C = <<Cmd("MATRIX", 10), Cmd("MATRIX", 0), Cmd("MATRIX", 5), Cmd("MATRIX", 2)>>
  BY MatrixTable DEF mat1
<1>4. B \in Seq(Packet) /\ Len(B) = 4
  BY <1>2, CmdType DEF Ops
<1>5. C \in Seq(Packet) /\ Len(C) = 4
  BY <1>3, CmdType DEF Ops
<1>6. D \in Seq(Packet) /\ Len(D) = 5
  BY CmdType DEF Ops, Read, ReadAtOnce
<1>7. Demo = ((A \o B) \o C) \o D
  BY DEF Demo
<1>8. /\ A[1] = Cmd("LED", 1) /\ A[2] = Cmd("LED", 2) /\ A[3] = Cmd("LED", 3)
      /\ A[4] = Cmd("LED", 7) /\ A[5] = Cmd("POW", 125) /\ A[6] = Read
      /\ A[7] = Cmd("FIB", 20) /\ A[8] = Read
  OBVIOUS
<1>9. /\ B[1] = Cmd("MATRIX", 1) /\ B[2] = Cmd("MATRIX", 2)
      /\ B[3] = Cmd("MATRIX", 3) /\ B[4] = Cmd("MATRIX", 1)
  BY <1>2
<1>10. /\ C[1] = Cmd("MATRIX", 10) /\ C[2] = Cmd("MATRIX", 0)
       /\ C[3] = Cmd("MATRIX", 5) /\ C[4] = Cmd("MATRIX", 2)
  BY <1>3
<1>11. /\ D[1] = Read /\ D[2] = ReadAtOnce /\ D[3] = ReadAtOnce /\ D[4] = ReadAtOnce
       /\ D[5] = Cmd("GRADIENT", 0)
  OBVIOUS
<1> HIDE DEF A, B, C, D
<1> DEFINE AB == A \o B
<1>12. /\ AB \in Seq(Packet) /\ Len(AB) = 8 + 4
       /\ \A n \in 1..8 : AB[n] = A[n]
       /\ \A n \in 1..4 : AB[8 + n] = B[n]
  <2>1. 8 \in Nat /\ 4 \in Nat
    OBVIOUS
  <2>2. JoinOf(AB, A, B, 8, 4)
    BY Zenon, <1>1, <1>4, <2>1, Joined
  <2> QED
    BY Zenon, <2>2 DEF JoinOf
<1> HIDE DEF AB
<1> DEFINE ABC == AB \o C
<1>13. /\ ABC \in Seq(Packet) /\ Len(ABC) = 12 + 4
       /\ \A n \in 1..12 : ABC[n] = AB[n]
       /\ \A n \in 1..4 : ABC[12 + n] = C[n]
  <2>1. 12 \in Nat /\ 4 \in Nat /\ Len(AB) = 12
    BY <1>12
  <2>2. JoinOf(ABC, AB, C, 12, 4)
    BY Zenon, <1>12, <1>5, <2>1, Joined
  <2> QED
    BY Zenon, <2>2 DEF JoinOf
<1> HIDE DEF ABC
<1>14. /\ ABC \o D \in Seq(Packet) /\ Len(ABC \o D) = 16 + 5
       /\ \A n \in 1..16 : (ABC \o D)[n] = ABC[n]
       /\ \A n \in 1..5 : (ABC \o D)[16 + n] = D[n]
  <2>1. 16 \in Nat /\ 5 \in Nat /\ Len(ABC) = 16
    BY <1>13
  <2>2. JoinOf(ABC \o D, ABC, D, 16, 5)
    BY Zenon, <1>13, <1>6, <2>1, Joined
  <2> QED
    BY Zenon, <2>2 DEF JoinOf
<1>15. Demo = ABC \o D
  BY <1>7 DEF AB, ABC
<1>16. \A n \in 1..16 : Demo[n] = ABC[n]
  BY Zenon, <1>14, <1>15
<1>17. \A n \in 1..12 : Demo[n] = AB[n]
  <2>1. \A n \in 1..12 : n \in 1..16
    OBVIOUS
  <2> QED
    BY Zenon, <1>13, <1>16, <2>1
<1>18. \A n \in 1..8 : Demo[n] = A[n]
  BY <1>12, <1>17
<1>19. \A n \in 1..5 : Demo[16 + n] = D[n]
  BY Zenon, <1>14, <1>15
<1>20. /\ Demo[1] = A[1] /\ Demo[2] = A[2] /\ Demo[3] = A[3] /\ Demo[4] = A[4]
       /\ Demo[5] = A[5] /\ Demo[6] = A[6] /\ Demo[7] = A[7] /\ Demo[8] = A[8]
  BY <1>18
<1>21. /\ AB[8 + 1] = B[1] /\ AB[8 + 2] = B[2] /\ AB[8 + 3] = B[3] /\ AB[8 + 4] = B[4]
       /\ ABC[12 + 1] = C[1] /\ ABC[12 + 2] = C[2] /\ ABC[12 + 3] = C[3] /\ ABC[12 + 4] = C[4]
  BY <1>12, <1>13
<1>22. /\ Demo[9] = B[1] /\ Demo[10] = B[2] /\ Demo[11] = B[3] /\ Demo[12] = B[4]
       /\ Demo[13] = C[1] /\ Demo[14] = C[2] /\ Demo[15] = C[3] /\ Demo[16] = C[4]
  BY <1>16, <1>17, <1>21
<1>23. /\ Demo[16 + 1] = D[1] /\ Demo[16 + 2] = D[2] /\ Demo[16 + 3] = D[3]
       /\ Demo[16 + 4] = D[4] /\ Demo[16 + 5] = D[5]
  BY <1>19
<1>24. Demo \in Seq(Packet) /\ Len(Demo) = 21
  BY <1>14, <1>15
<1> QED
  BY <1>8, <1>9, <1>10, <1>11, <1>20, <1>22, <1>23, <1>24

(* A firmware load: INIT, the half-words, START.                           *)
LEMMA LoadTable ==
  ASSUME NEW s \in Nat
  PROVE  /\ Load(s) \in Seq(Packet) /\ Len(Load(s)) = Halves + 2
         /\ Load(s)[1] = Cmd("INIT", 0)
         /\ \A n \in 1..Halves : Load(s)[1 + n] = Cmd("FIRM", Half(s, n))
         /\ Load(s)[Halves + 2] = Cmd("START", 0)
<1> DEFINE I == <<Cmd("INIT", 0)>>
           F == [k \in 1..Halves |-> Cmd("FIRM", Half(s, k))]
           S == <<Cmd("START", 0)>>
<1>1. Halves \in Nat
  BY DemoAssumption
<1>2. I \in Seq(Packet) /\ Len(I) = 1 /\ I[1] = Cmd("INIT", 0)
  BY CmdType DEF Ops
<1>3. S \in Seq(Packet) /\ Len(S) = 1 /\ S[1] = Cmd("START", 0)
  BY CmdType DEF Ops
<1>4. F \in Seq(Packet) /\ Len(F) = Halves
      /\ \A n \in 1..Halves : F[n] = Cmd("FIRM", Half(s, n))
  <2>1. \A n \in 1..Halves : Half(s, n) \in Nat
    BY <1>1 DEF Half
  <2>2. \A n \in 1..Halves : Cmd("FIRM", Half(s, n)) \in Packet
    BY <2>1, CmdType DEF Ops
  <2> HIDE DEF Cmd
  <2> QED
    BY <1>1, <2>2, IsASeq
<1>5. Load(s) = (I \o F) \o S
  BY DEF Load
<1> HIDE DEF I, F, S
<1> DEFINE Begin == I \o F
<1>6. /\ Begin \in Seq(Packet) /\ Len(Begin) = 1 + Halves
      /\ \A n \in 1..1 : Begin[n] = I[n]
      /\ \A n \in 1..Halves : Begin[1 + n] = F[n]
  <2>1. PICK one \in Nat : one = 1
    OBVIOUS
  <2>2. one \in Nat /\ I \in Seq(Packet) /\ Len(I) = one /\ F \in Seq(Packet) /\ Len(F) = Halves
    BY <1>2, <1>4, <2>1
  <2>3. /\ Begin \in Seq(Packet) /\ Len(Begin) = one + Halves
        /\ \A n \in 1..one : Begin[n] = I[n]
        /\ \A n \in 1..Halves : Begin[one + n] = F[n]
    BY <1>1, <2>2
  <2> QED
    BY <2>1, <2>3
<1> HIDE DEF Begin
<1>7. /\ Begin \o S \in Seq(Packet) /\ Len(Begin \o S) = (1 + Halves) + 1
      /\ \A n \in 1..(1 + Halves) : (Begin \o S)[n] = Begin[n]
      /\ \A n \in 1..1 : (Begin \o S)[1 + Halves + n] = S[n]
  <2>1. 1 \in Nat /\ 1 + Halves \in Nat
    BY <1>1
  <2>2. JoinOf(Begin \o S, Begin, S, 1 + Halves, 1)
    BY Zenon, <1>3, <1>6, <2>1, Joined
  <2> QED
    BY Zenon, <2>2 DEF JoinOf
<1> DEFINE L == Begin \o S
<1>8. Load(s) = L
  BY <1>5 DEF Begin
<1> HIDE DEF L
<1>9. /\ L \in Seq(Packet) /\ Len(L) = (1 + Halves) + 1
      /\ \A n \in 1..(1 + Halves) : L[n] = Begin[n]
      /\ \A n \in 1..1 : L[1 + Halves + n] = S[n]
  BY Zenon, <1>7 DEF L
<1>10. L[1] = Cmd("INIT", 0)
  BY <1>1, <1>2, <1>6, <1>9
<1>11. \A n \in 1..Halves : L[1 + n] = Cmd("FIRM", Half(s, n))
  <2>1. TAKE n \in 1..Halves
  <2>2. 1 + n \in 1..(1 + Halves)
    BY <1>1, <2>1
  <2>3. L[1 + n] = Begin[1 + n] /\ Begin[1 + n] = F[n] /\ F[n] = Cmd("FIRM", Half(s, n))
    BY Zenon, <1>4, <1>6, <1>9, <2>1, <2>2
  <2> QED
    BY Zenon, <2>3
<1>12. L[Halves + 2] = Cmd("START", 0)
  <2>1. 1 \in 1..1 /\ 1 + Halves + 1 = Halves + 2
    BY <1>1
  <2>2. L[1 + Halves + 1] = S[1]
    BY Zenon, <1>9, <2>1
  <2> QED
    BY Zenon, <1>3, <2>1, <2>2
<1> QED
  BY <1>1, <1>8, <1>9, <1>10, <1>11, <1>12

LEMMA ScriptTable ==
  ASSUME session \in Nat, only \in BOOLEAN
  PROVE  /\ Script \in Seq(Packet)
         /\ Len(Script) = IF only THEN Halves + 2 ELSE Halves + 23
         /\ Script[1] = Cmd("INIT", 0)
         /\ \A n \in 1..Halves : Script[1 + n] = Cmd("FIRM", Half(session, n))
         /\ Script[Halves + 2] = Cmd("START", 0)
         /\ ~only => \A k \in 1..21 : Script[Halves + 2 + k] = Demo[k]
<1> DEFINE L == Load(session)
<1>1. /\ L \in Seq(Packet) /\ Len(L) = Halves + 2
      /\ L[1] = Cmd("INIT", 0)
      /\ \A n \in 1..Halves : L[1 + n] = Cmd("FIRM", Half(session, n))
      /\ L[Halves + 2] = Cmd("START", 0)
  BY LoadTable
<1> HIDE DEF L
<1>2. Halves \in Nat
  BY DemoAssumption
<1>3. CASE only
  <2>1. Script = L
    BY <1>1, <1>3 DEF Script, L
  <2> QED
    BY <1>1, <1>3, <2>1
<1>4. CASE ~only
  <2> DEFINE S == L \o Demo
  <2>1. Script = S
    BY <1>4 DEF Script, L
  <2>2. /\ S \in Seq(Packet) /\ Len(S) = (Halves + 2) + 21
        /\ \A n \in 1..(Halves + 2) : S[n] = L[n]
        /\ \A n \in 1..21 : S[Halves + 2 + n] = Demo[n]
    <3>1. Halves + 2 \in Nat /\ 21 \in Nat
      BY <1>2
    <3>2. JoinOf(S, L, Demo, Halves + 2, 21)
      BY Zenon, <1>1, <3>1, DemoTable, Joined
    <3> QED
      BY Zenon, <3>2 DEF JoinOf
  <2> HIDE DEF S
  <2>3. 1 \in 1..(Halves + 2) /\ Halves + 2 \in 1..(Halves + 2)
        /\ \A n \in 1..Halves : 1 + n \in 1..(Halves + 2)
    BY <1>2
  <2>4. /\ S[1] = Cmd("INIT", 0) /\ S[Halves + 2] = Cmd("START", 0)
        /\ \A n \in 1..Halves : S[1 + n] = Cmd("FIRM", Half(session, n))
    BY Zenon, <1>1, <2>2, <2>3
  <2>5. (Halves + 2) + 21 = Halves + 23
    BY <1>2
  <2> QED
    BY Zenon, <1>4, <2>1, <2>2, <2>4, <2>5
<1> QED
  BY <1>3, <1>4

LEMMA DemoOps ==
  ASSUME NEW k \in 1..21
  PROVE  /\ Demo[k] \in Packet
         /\ Demo[k].op = "READ" <=> k \in Reads
         /\ Demo[k].op \notin {"INIT", "FIRM", "START", "NOP", "ECHO"}
         /\ Demo[k] = Read <=> k \in {6, 8, 17}
         /\ Demo[k].op = "LED" <=> k \in 1..4
         /\ Demo[k].op = "MATRIX" <=> k \in 9..16
         /\ Demo[k].op = "POW" <=> k = 5
         /\ Demo[k].op = "FIB" <=> k = 7
         /\ Demo[k].op = "GRADIENT" <=> k = 21
<1>1. /\ Demo[1].op = "LED" /\ Demo[2].op = "LED" /\ Demo[3].op = "LED"
      /\ Demo[4].op = "LED" /\ Demo[5].op = "POW" /\ Demo[6].op = "READ"
      /\ Demo[7].op = "FIB" /\ Demo[8].op = "READ" /\ Demo[9].op = "MATRIX"
      /\ Demo[10].op = "MATRIX" /\ Demo[11].op = "MATRIX" /\ Demo[12].op = "MATRIX"
      /\ Demo[13].op = "MATRIX" /\ Demo[14].op = "MATRIX" /\ Demo[15].op = "MATRIX"
      /\ Demo[16].op = "MATRIX" /\ Demo[17].op = "READ" /\ Demo[18].op = "READ"
      /\ Demo[19].op = "READ" /\ Demo[20].op = "READ" /\ Demo[21].op = "GRADIENT"
  BY DemoTable DEF Cmd, Read, ReadAtOnce
<1>2. /\ Demo[6] = Read /\ Demo[8] = Read /\ Demo[17] = Read
      /\ Demo[18] # Read /\ Demo[19] # Read /\ Demo[20] # Read
  BY DemoTable DEF Cmd, Read, ReadAtOnce
<1>3. Read.op = "READ"
  BY DEF Read, Cmd
<1>4. Demo \in Seq(Packet) /\ k \in 1..Len(Demo)
  BY Zenon, DemoTable
<1>5. Demo[k] \in Packet
  BY Zenon, <1>4, ElementOfSeq
<1>6. \/ k = 1 \/ k = 2 \/ k = 3 \/ k = 4 \/ k = 5 \/ k = 6 \/ k = 7 \/ k = 8 \/ k = 9
      \/ k = 10 \/ k = 11 \/ k = 12 \/ k = 13 \/ k = 14 \/ k = 15 \/ k = 16 \/ k = 17
      \/ k = 18 \/ k = 19 \/ k = 20 \/ k = 21
  OBVIOUS
<1>7. /\ Demo[k].op = "READ" <=> k \in Reads
      /\ Demo[k].op \notin {"INIT", "FIRM", "START", "NOP", "ECHO"}
  BY <1>1, <1>6 DEF Reads
<1>8. /\ Demo[k].op = "LED" <=> k \in 1..4
      /\ Demo[k].op = "MATRIX" <=> k \in 9..16
      /\ Demo[k].op = "POW" <=> k = 5
      /\ Demo[k].op = "FIB" <=> k = 7
      /\ Demo[k].op = "GRADIENT" <=> k = 21
  BY <1>1, <1>6
<1>9. Demo[k] = Read <=> k \in {6, 8, 17}
  <2>1. CASE k \in Reads
    BY <1>2, <2>1 DEF Reads
  <2>2. CASE k \notin Reads
    BY <1>3, <1>7, <2>2 DEF Reads
  <2> QED
    BY <2>1, <2>2
<1> QED
  BY <1>5, <1>7, <1>8, <1>9

LEMMA FixedPackets ==
  /\ Nop \in Packet /\ Nop.op = "NOP" /\ Echo \in Packet /\ Echo.op = "ECHO" /\ Nop # Echo
  /\ Read \in Packet /\ ReadAtOnce \in Packet /\ Read # ReadAtOnce
BY DEF Nop, Echo, Packet, Ops, Read, ReadAtOnce, Cmd

-----------------------------------------------------------------------------
(* Types.  The step of the demonstration that comes next (1 to 22); the    *)
(* results printed before it; the half-words sent, and the one that waits. *)
Step == at - (Halves + 2)
Shown(k) == IF k <= 6 THEN 0 ELSE IF k <= 8 THEN 1 ELSE IF k <= 17 THEN 2
            ELSE IF k <= 20 THEN k - 15 ELSE 6
FirmsSent == IF at <= 2 THEN 0 ELSE IF at <= Halves + 2 THEN at - 2 ELSE Halves
FirmWaits == IF fifo # << >> /\ fifo[1].op = "FIRM" THEN 1 ELSE 0

(* A sequence of whatever values: TLC, not the prover, knows what fib is.  *)
IsSeq(q) == \E S : q \in Seq(S)
HostTypes ==
  /\ at \in 1..Halves + 24 /\ tries \in 0..Retries - 1 /\ only \in BOOLEAN
  /\ session \in 1..Sessions
  /\ IsSeq(printed) /\ Len(printed) = Shown(Step)
  /\ at > Halves + 3 => ~only
AtMostOne(S) == {<< >>} \cup {<<v>> : v \in S}
LinkTypes ==
  /\ fifo \in AtMostOne(Packet) /\ mail \in AtMostOne(Packet)
  /\ \E S : outbox \in AtMostOne(S)
LoaderTypes ==
  /\ ram \in [0..Halves - 1 -> Nat \X Nat] /\ buf \in Nat /\ addr \in Nat
  /\ addr + FirmWaits <= Halves * (session - 1) + FirmsSent
CpuTypes ==
  /\ cpu \in {"off", "idle", "put", "gradient"} /\ led \in 0..7
  /\ IsSeq(results) /\ Len(results) <= 4 /\ (cpu = "put" => results # << >>)
  /\ mat \in Seq(Nat) /\ Len(mat) < 8
TypeInv == HostTypes /\ LinkTypes /\ LoaderTypes /\ CpuTypes

LEMMA Bounds == Halves \in Nat /\ Sessions \in 1..8 /\ Retries \in Nat \ {0, 1} /\ Depth = 1
BY DemoAssumption, LinkAssumption

(* A place for one value.                                                  *)
LEMMA OneCases ==
  ASSUME NEW S, NEW q \in AtMostOne(S)
  PROVE  /\ q = << >> \/ \E v \in S : q = <<v>>
         /\ q # << >> => q[1] \in S /\ q = <<q[1]>> /\ Head(q) = q[1] /\ Tail(q) = << >>
         /\ q = << >> => Len(q) = 0
         /\ q # << >> => Len(q) = 1
         /\ Len(q) <= 1
<1>1. CASE q = << >>
  BY <1>1
<1>2. CASE q # << >>
  <2>1. PICK v \in S : q = <<v>>
    BY <1>2 DEF AtMostOne
  <2> QED
    BY <1>2, <2>1
<1> QED
  BY <1>1, <1>2

LEMMA OneOf == \A S : << >> \in AtMostOne(S) /\ \A v \in S : <<v>> \in AtMostOne(S) /\ <<v>> # << >>
BY DEF AtMostOne

LEMMA TypesGive == TypeInv => TypeOK
<1> SUFFICES ASSUME TypeInv PROVE TypeOK
  OBVIOUS
<1>1. addr <= Halves * Sessions
  <2>1. Halves * (session - 1) + Halves <= Halves * Sessions
    <3>1. Halves \in Nat /\ session \in 1..8 /\ Sessions \in 1..8 /\ session <= Sessions
      BY Bounds DEF TypeInv, HostTypes
    <3> QED
      BY <3>1
  <2>2. FirmsSent <= Halves /\ FirmsSent \in Nat
    BY Bounds DEF FirmsSent, TypeInv, HostTypes
  <2>3. addr \in Nat /\ addr <= Halves * (session - 1) + FirmsSent
    <3>1. Halves * (session - 1) \in Int
      BY Bounds DEF TypeInv, HostTypes
    <3> QED
      BY <2>2, <3>1 DEF TypeInv, LoaderTypes, FirmWaits
  <2>4. Halves * (session - 1) \in Int /\ Halves * Sessions \in Int
    BY Bounds DEF TypeInv, HostTypes
  <2> QED
    BY <2>1, <2>2, <2>3, <2>4, Bounds
<1>2. addr \in 0..Halves * Sessions
  <2>1. Halves * Sessions \in Nat
    BY Bounds
  <2> QED
    BY <1>1, <2>1 DEF TypeInv, LoaderTypes
<1>5. Len(fifo) <= Depth /\ Len(mail) <= 1 /\ Len(outbox) <= 1
  BY OneCases, Bounds DEF TypeInv, LinkTypes
<1>3. Len(printed) <= 6
  BY Bounds DEF TypeInv, HostTypes, Shown, Step
<1>4. at \in 1..Halves + 3 + Len(Demo)
  BY DemoTable, Bounds DEF TypeInv, HostTypes
<1> QED
  BY <1>2, <1>3, <1>4, <1>5, Bounds DEF TypeInv, HostTypes, LoaderTypes, CpuTypes, TypeOK

(* The next step of the script.                                            *)
LEMMA NextStep ==
  ASSUME HostTypes, ~Done
  PROVE  /\ at \in 1..Halves + 23 /\ (at > Halves + 2 => ~only)
         /\ at > Halves + 2 => Step \in 1..21 /\ Script[at] = Demo[Step]
         /\ Script[at] \in Packet
         /\ Script[at].op = "READ" <=> Step \in Reads
         /\ Script[at].op = "FIRM" <=> at \in 2..Halves + 1
         /\ Script[at].op = "INIT" <=> at = 1
         /\ Script[at].op = "START" <=> at = Halves + 2
         /\ Script[at].op \notin {"NOP", "ECHO"}
<1>1. Halves \in Nat /\ session \in 1..8 /\ session \in Nat /\ only \in BOOLEAN
      /\ at \in Nat /\ at > 0
  BY Bounds DEF HostTypes
<1>2. /\ Script \in Seq(Packet) /\ Len(Script) \in Nat
      /\ Len(Script) = IF only THEN Halves + 2 ELSE Halves + 23
  BY <1>1, ScriptTable
<1>4. at <= Len(Script)
  BY <1>1, <1>2 DEF Done
<1>3. Script[at] \in Packet
  BY <1>1, <1>2, <1>4, ElementOfSeq
<1>5. CASE at = 1
  <2>1. Script[at] = Cmd("INIT", 0)
    BY <1>1, <1>5, ScriptTable
  <2> QED
    BY <1>1, <1>3, <1>5, <2>1 DEF Cmd, Step, Reads
<1>6. CASE at \in 2..Halves + 1
  <2>1. at - 1 \in 1..Halves /\ 1 + (at - 1) = at
    BY <1>1, <1>6
  <2>2. Script[at] = Cmd("FIRM", Half(session, at - 1))
    BY Zenon, <1>1, <2>1, ScriptTable
  <2> QED
    BY <1>1, <1>3, <1>6, <2>2 DEF Cmd, Step, Reads
<1>7. CASE at = Halves + 2
  <2>1. Script[at] = Cmd("START", 0)
    BY <1>1, <1>7, ScriptTable
  <2> QED
    BY <1>1, <1>3, <1>7, <2>1 DEF Cmd, Step, Reads
<1>8. CASE at > Halves + 2
  <2>1. ~only /\ Step \in 1..21 /\ Halves + 2 + Step = at
    BY <1>1, <1>2, <1>4, <1>8 DEF Step
  <2>2. Script[at] = Demo[Step]
    BY Zenon, <1>1, <2>1, ScriptTable
  <2>3. /\ Script[at].op = "READ" <=> Step \in Reads
        /\ Script[at].op \notin {"INIT", "FIRM", "START", "NOP", "ECHO"}
    <3>1. /\ Demo[Step].op = "READ" <=> Step \in Reads
          /\ Demo[Step].op \notin {"INIT", "FIRM", "START", "NOP", "ECHO"}
      BY <2>1, DemoOps
    <3> QED
      BY Zenon, <2>2, <3>1
  <2>4. at \in 1..Halves + 23
    BY <1>1, <2>1 DEF Step
  <2> QED
    BY <1>1, <1>3, <1>8, <2>1, <2>2, <2>3, <2>4
<1> QED
  BY <1>1, <1>5, <1>6, <1>7, <1>8

(* What a transfer and a dispatch do to the one place of the slave.        *)
LEMMA TransferOne ==
  ASSUME LinkTypes, NEW p \in Packet, Transfer(p)
  PROVE  /\ fifo' = IF fifo = << >> THEN <<p>> ELSE fifo
         /\ outbox' = << >> /\ mail' = mail
<1>1. /\ fifo = << >> => Len(fifo) < Depth
      /\ fifo # << >> => ~(Len(fifo) < Depth)
  BY OneCases, Bounds DEF LinkTypes
<1>2. Append(<< >>, p) = <<p>>
  OBVIOUS
<1> QED
  BY <1>1, <1>2, Zenon DEF Transfer

LEMMA DispatchOne ==
  ASSUME LinkTypes, ~Settled
  PROVE  /\ mail = << >> /\ fifo = <<fifo[1]>> /\ Head(fifo) = fifo[1] /\ Tail(fifo) = << >>
         /\ fifo[1] \in Packet
BY OneCases DEF LinkTypes, Settled

LEMMA TransferTypes ==
  ASSUME LinkTypes, NEW p \in Packet, Transfer(p)
  PROVE  /\ LinkTypes'
         /\ FirmWaits' = IF fifo = << >> THEN (IF p.op = "FIRM" THEN 1 ELSE 0) ELSE FirmWaits
<1>1. /\ fifo' = IF fifo = << >> THEN <<p>> ELSE fifo
      /\ outbox' = << >> /\ mail' = mail
  BY TransferOne
<1>2. LinkTypes'
  BY <1>1, OneOf DEF LinkTypes
<1> QED
  BY <1>1, <1>2, OneOf DEF FirmWaits

(* Every session brings as many half-words as the image has.               *)
LEMMA SessionSize ==
  ASSUME NEW s \in 1..8
  PROVE  Halves * (s - 1) \in Int /\ Halves * s = Halves * (s - 1) + Halves
BY Bounds

LEMMA AnswerTypes ==
  ASSUME NEW p \in Packet
  PROVE  IsSeq(Answer(p)) /\ Len(Answer(p)) <= 4
<1>1. \A m : \E f : matrix_mult(m) = [n \in 1..4 |-> f[n]]
  <2> TAKE m
  <2> WITNESS matrix_mult(m)
  <2> QED
    BY DEF matrix_mult
<1>2. \A f : LET q == [n \in 1..4 |-> f[n]] IN IsSeq(q) /\ Len(q) = 4
  <2> TAKE f
  <2> DEFINE q == [n \in 1..4 |-> f[n]]
             S == {f[n] : n \in 1..4}
  <2>1. q \in [1..4 -> S]
    OBVIOUS
  <2>2. q \in Seq(S) /\ Len(q) = 4
    BY <2>1
  <2> QED
    BY <2>2 DEF IsSeq
<1>3. \A v : IsSeq(<<v>>) /\ Len(<<v>>) = 1
  <2> TAKE v
  <2>1. <<v>> \in Seq({v})
    OBVIOUS
  <2> QED
    BY <2>1 DEF IsSeq
<1>4. IsSeq(<< >>) /\ Len(<< >>) = 0
  <2>1. << >> \in Seq({})
    OBVIOUS
  <2> QED
    BY <2>1 DEF IsSeq
<1>5. \A m : IsSeq(matrix_mult(m)) /\ Len(matrix_mult(m)) = 4
  BY <1>1, <1>2
<1> DEFINE q == Answer(p)
<1>6. \/ \E v : q = <<v>>
      \/ \E m : q = matrix_mult(m)
      \/ q = << >>
  BY Zenon DEF Answer
<1> HIDE DEF q
<1>7. IsSeq(q) /\ (Len(q) = 0 \/ Len(q) = 1 \/ Len(q) = 4)
  BY Zenon, <1>3, <1>4, <1>5, <1>6
<1>8. IsSeq(q) /\ Len(q) <= 4
  BY <1>7
<1> QED
  BY <1>8 DEF q

(* One action at a time.                                                   *)
LEMMA SendTypes ==
  ASSUME TypeInv, SendStep
  PROVE  TypeInv'
<1>1. /\ ~Done /\ Script[at].op # "READ" /\ Transfer(Script[at]) /\ at' = at + 1
      /\ UNCHANGED <<tries, only, session, printed, loadVars, cpuVars>>
  BY Zenon DEF SendStep, Send
<1>2. /\ at \in 1..Halves + 23 /\ (at > Halves + 2 => ~only) /\ Script[at] \in Packet
      /\ Step \notin Reads
      /\ at > Halves + 2 => Step \in 1..21
      /\ Script[at].op = "FIRM" <=> at \in 2..Halves + 1
  BY <1>1, NextStep DEF TypeInv
<1>3. Halves \in Nat
  BY Bounds
<1>4. LinkTypes' /\ FirmWaits' = IF fifo = << >> THEN (IF Script[at].op = "FIRM" THEN 1 ELSE 0)
                                 ELSE FirmWaits
  BY Zenon, <1>1, <1>2, TransferTypes DEF TypeInv
<1>5. Shown(Step') = Shown(Step)
  BY <1>1, <1>2, <1>3 DEF Step, Shown, Reads
<1>6. HostTypes'
  BY <1>1, <1>2, <1>3, <1>5 DEF TypeInv, HostTypes
<1>7. addr' + FirmWaits' <= Halves * (session' - 1) + FirmsSent'
  <2>1. Halves * (session - 1) \in Int
    BY SessionSize, Bounds DEF TypeInv, HostTypes
  <2>2. addr \in Nat /\ FirmWaits \in {0, 1} /\ addr + FirmWaits <= Halves * (session - 1) + FirmsSent
    BY DEF TypeInv, LoaderTypes, FirmWaits
  <2>3. FirmsSent \in Nat /\ FirmsSent' = IF at \in 2..Halves + 1 THEN FirmsSent + 1 ELSE FirmsSent
    BY <1>1, <1>2, <1>3 DEF FirmsSent
  <2>4. FirmWaits' <= FirmWaits + (IF at \in 2..Halves + 1 THEN 1 ELSE 0) /\ FirmWaits' \in {0, 1}
    BY <1>2, <1>4, <2>2
  <2>5. addr' = addr /\ session' = session
    BY <1>1 DEF loadVars
  <2> QED
    BY <2>1, <2>2, <2>3, <2>4, <2>5
<1>8. LoaderTypes'
  BY <1>1, <1>7 DEF TypeInv, LoaderTypes, loadVars
<1>9. CpuTypes'
  BY <1>1 DEF TypeInv, CpuTypes, cpuVars
<1> QED
  BY <1>4, <1>6, <1>8, <1>9 DEF TypeInv

LEMMA ReadTypes ==
  ASSUME TypeInv, ReadStep
  PROVE  TypeInv'
<1> DEFINE p == IF tries = 0 THEN Nop ELSE Echo
           got == IF outbox # << >> THEN outbox[1] ELSE 0
           over == outbox # << >> \/ GivesUp(tries)
<1>1. /\ ~Done /\ Script[at].op = "READ" /\ Transfer(p)
      /\ IF over THEN printed' = Append(printed, got) /\ at' = at + 1 /\ tries' = 0
                 ELSE tries' = tries + 1 /\ at' = at /\ printed' = printed
      /\ only' = only /\ session' = session /\ UNCHANGED loadVars /\ UNCHANGED cpuVars
  BY Zenon DEF ReadStep, ReadTry
<1>2. /\ at \in 1..Halves + 23 /\ (at > Halves + 2 => ~only)
      /\ Step \in Reads
  BY <1>1, NextStep DEF TypeInv
<1>3. Halves \in Nat /\ Retries \in Nat \ {0, 1}
  BY Bounds
<1>4. p \in Packet /\ p.op # "FIRM"
  BY FixedPackets
<1>5. LinkTypes' /\ FirmWaits' = IF fifo = << >> THEN (IF p.op = "FIRM" THEN 1 ELSE 0)
                                 ELSE FirmWaits
  <2> HIDE DEF p
  <2> QED
    BY Zenon, <1>1, <1>4, TransferTypes DEF TypeInv
<1> HIDE DEF p, got
<1>6. HostTypes'
  <2>1. tries \in 0..Retries - 1 /\ IsSeq(printed) /\ Len(printed) = Shown(Step)
        /\ only \in BOOLEAN /\ session \in 1..Sessions
    BY DEF TypeInv, HostTypes
  <2>2. CASE over
    <3>1. IsSeq(printed') /\ Len(printed') = Len(printed) + 1
      <4>1. PICK S : printed \in Seq(S)
        BY <2>1 DEF IsSeq
      <4>2. printed \in Seq(S \cup {got})
        BY <4>1
      <4>3. printed' = Append(printed, got)
        BY Zenon, <1>1, <2>2
      <4>4. printed' \in Seq(S \cup {got}) /\ Len(printed') = Len(printed) + 1
        BY <4>2, <4>3
      <4> QED
        BY <4>4 DEF IsSeq
    <3>2. at' = at + 1 /\ tries' = 0 /\ only' = only /\ session' = session
      BY <1>1, <2>2
    <3>3. Shown(Step') = Shown(Step) + 1
      BY <3>2, <1>2, <1>3 DEF Step, Shown, Reads
    <3>4. at > Halves + 2
      BY <1>2, <1>3 DEF Step, Reads
    <3> QED
      BY <1>2, <1>3, <2>1, <3>1, <3>2, <3>3, <3>4 DEF HostTypes
  <2>3. CASE ~over
    <3>1. /\ tries' = tries + 1 /\ at' = at /\ printed' = printed /\ only' = only
          /\ session' = session /\ tries + 1 # Retries
      BY <1>1, <2>3 DEF GivesUp
    <3>2. Step' = Step
      BY <3>1 DEF Step
    <3> QED
      BY <1>2, <1>3, <2>1, <3>1, <3>2 DEF TypeInv, HostTypes
  <2> QED
    BY <2>2, <2>3
<1>7. addr' + FirmWaits' <= Halves * (session' - 1) + FirmsSent'
  <2>1. Halves * (session - 1) \in Int
    BY SessionSize, Bounds DEF TypeInv, HostTypes
  <2>2. addr \in Nat /\ FirmWaits \in {0, 1} /\ addr + FirmWaits <= Halves * (session - 1) + FirmsSent
    BY DEF TypeInv, LoaderTypes, FirmWaits
  <2>3. (at' = at \/ at' = at + 1) /\ at > Halves + 2 /\ at \in Nat
    BY <1>1, <1>2, <1>3 DEF Step, Reads
  <2>4. FirmsSent = Halves /\ FirmsSent' = Halves
    BY <1>3, <2>3 DEF FirmsSent
  <2>5. FirmWaits' <= FirmWaits /\ FirmWaits' \in {0, 1}
    BY <1>4, <1>5, <2>2
  <2>6. addr' = addr /\ session' = session
    BY <1>1 DEF loadVars
  <2> QED
    BY <1>3, <2>1, <2>2, <2>4, <2>5, <2>6
<1>8. LoaderTypes'
  BY <1>1, <1>7 DEF TypeInv, LoaderTypes, loadVars
<1>9. CpuTypes'
  BY <1>1 DEF TypeInv, CpuTypes, cpuVars
<1> QED
  BY <1>5, <1>6, <1>8, <1>9 DEF TypeInv

LEMMA ServeTypes ==
  ASSUME TypeInv, Serve
  PROVE  TypeInv'
<1> DEFINE p == fifo[1]
<1>1. mail = << >> /\ fifo = <<p>> /\ Head(fifo) = p /\ Tail(fifo) = << >> /\ p \in Packet
      /\ fifo # << >> /\ ~Settled
  BY DispatchOne DEF TypeInv, Serve, Settled
<1>2. at' = at /\ tries' = tries /\ only' = only /\ session' = session /\ printed' = printed
  BY DEF Serve, hostVars
<1>3. HostTypes'
  BY <1>2 DEF TypeInv, HostTypes, Step
<1>4. /\ Halves * (session - 1) \in Int /\ FirmsSent \in Nat
      /\ FirmsSent' = FirmsSent
  BY <1>2, SessionSize, Bounds DEF TypeInv, HostTypes, FirmsSent
<1>5. addr \in Nat /\ FirmWaits = (IF p.op = "FIRM" THEN 1 ELSE 0)
      /\ addr + FirmWaits <= Halves * (session - 1) + FirmsSent
  BY <1>1 DEF TypeInv, LoaderTypes, FirmWaits
<1>6. FirmWaits' = 0 /\ fifo' = << >>
  BY <1>1 DEF Serve, Dispatch, FirmWaits
<1>7. LinkTypes'
  <2>1. mail' = mail \/ mail' = << >> \/ mail' = <<p>>
    BY <1>1 DEF Serve, Dispatch
  <2>2. outbox' = outbox
    BY DEF Serve, Dispatch
  <2> QED
    BY <1>1, <1>6, <2>1, <2>2, OneOf DEF TypeInv, LinkTypes
<1> DEFINE kept == UNCHANGED <<loadVars, cpuVars>>
<1>8. \/ p.op = "INIT" /\ InitCpu
      \/ p.op = "FIRM" /\ WriteMemory(p.ch)
      \/ p.op = "START" /\ StartCpu
      \/ kept
  BY Zenon, <1>1 DEF Serve
<1>9. IsSeq(<< >>) /\ Len(<< >>) = 0 /\ << >> \in Seq(Nat)
  <2>1. << >> \in Seq({}) /\ << >> \in Seq(Nat)
    OBVIOUS
  <2> QED
    BY <2>1 DEF IsSeq
<1>10. CASE p.op = "INIT" /\ InitCpu
  <2>1. LoaderTypes'
    <3>1. 0 <= Halves * (session - 1)
      BY Bounds DEF TypeInv, HostTypes
    <3> QED
      BY <1>2, <1>4, <1>6, <1>10, <3>1 DEF InitCpu, TypeInv, LoaderTypes
  <2>2. CpuTypes'
    BY <1>9, <1>10 DEF InitCpu, TypeInv, CpuTypes
  <2> QED
    BY <1>3, <1>7, <2>1, <2>2 DEF TypeInv
<1>11. CASE p.op = "FIRM" /\ WriteMemory(p.ch)
  <2>1. p.ch \in Nat
    BY <1>1 DEF Packet
  <2>2. addr' = addr + 1 /\ UNCHANGED cpuVars
    BY <1>11 DEF WriteMemory
  <2>3. buf' \in Nat /\ ram' \in [0..Halves - 1 -> Nat \X Nat]
    <3>1. (addr \div 2) % Halves \in 0..Halves - 1
      <4>1. Halves # 0
        <5> SUFFICES ASSUME Halves = 0 PROVE FALSE
          OBVIOUS
        <5>1. at \in Nat /\ session \in Nat /\ Halves * (session - 1) = 0
          BY Bounds DEF TypeInv, HostTypes
        <5>2. FirmsSent = 0
          BY <5>1 DEF FirmsSent
        <5> QED
          BY <1>5, <1>11, <5>1, <5>2
      <4>2. Halves \in Nat /\ addr \div 2 \in Nat
        BY <1>5, Bounds
      <4> QED
        BY <4>1, <4>2
    <3>2. <<buf, p.ch>> \in Nat \X Nat
      BY <2>1 DEF TypeInv, LoaderTypes
    <3> QED
      BY <1>11, <2>1, <3>1, <3>2 DEF WriteMemory, TypeInv, LoaderTypes
  <2>4. addr' + FirmWaits' <= Halves * (session' - 1) + FirmsSent'
    BY <1>2, <1>4, <1>5, <1>6, <1>11, <2>2
  <2>5. LoaderTypes'
    BY <1>5, <2>2, <2>3, <2>4 DEF LoaderTypes
  <2>6. CpuTypes'
    BY <2>2 DEF TypeInv, CpuTypes, cpuVars
  <2> QED
    BY <1>3, <1>7, <2>5, <2>6 DEF TypeInv
<1>12. CASE (p.op = "START" /\ StartCpu) \/ kept
  <2>1. UNCHANGED loadVars
    BY <1>12 DEF StartCpu
  <2>2. LoaderTypes'
    BY <1>2, <1>4, <1>5, <1>6, <2>1 DEF loadVars, TypeInv, LoaderTypes
  <2>3. CpuTypes'
    <3>1. \/ cpu' = "idle" /\ mat' = << >> /\ results' = results /\ led' = led
          \/ UNCHANGED <<cpu, mat, results, led>>
      BY <1>12 DEF StartCpu, cpuVars
    <3>2. mat' \in Seq(Nat) /\ Len(mat') < 8
      <4>1. CASE mat' = << >>
        BY <1>9, <4>1
      <4>2. CASE mat' = mat
        BY <4>2 DEF TypeInv, CpuTypes
      <4> QED
        BY <3>1, <4>1, <4>2
    <3> QED
      BY Zenon, <3>1, <3>2 DEF TypeInv, CpuTypes
  <2> QED
    BY <1>3, <1>7, <2>2, <2>3 DEF TypeInv
<1> QED
  BY <1>8, <1>10, <1>11, <1>12

LEMMA TakeTypes ==
  ASSUME TypeInv, Take
  PROVE  TypeInv'
<1> DEFINE p == mail[1]
<1>1. p \in Packet
  BY OneCases DEF Take, TypeInv, LinkTypes
<1>2. UNCHANGED hostVars /\ UNCHANGED loadVars /\ mail' = << >> /\ fifo' = fifo /\ outbox' = outbox
  BY DEF Take, Ack, AckMail
<1>3. HostTypes' /\ LoaderTypes'
  BY <1>2 DEF TypeInv, HostTypes, LoaderTypes, hostVars, loadVars, Step, FirmWaits, FirmsSent
<1>4. LinkTypes'
  BY <1>2, OneOf DEF TypeInv, LinkTypes
<1>5. IsSeq(Answer(p)) /\ Len(Answer(p)) <= 4
  BY <1>1, AnswerTypes
<1>6. led' = (IF p.op = "LED" THEN p.ch % 8 ELSE led) /\ results' = Answer(p)
      /\ cpu' \in {"gradient", "put", "idle"} /\ (cpu' = "put" => results' # << >>)
      /\ mat' = (CASE p.op # "MATRIX" -> mat
                   [] p.op = "MATRIX" /\ Len(mat) = 7 -> << >>
                   [] OTHER -> Append(mat, p.ch))
  BY Zenon DEF Take
<1>7. led' \in 0..7
  <2>1. p.ch % 8 \in 0..7
    BY <1>1 DEF Packet
  <2> QED
    BY <1>6, <2>1 DEF TypeInv, CpuTypes
<1>8. mat' \in Seq(Nat) /\ Len(mat') < 8
  <2>1. mat \in Seq(Nat) /\ Len(mat) \in Nat /\ Len(mat) < 8 /\ p.ch \in Nat
    BY <1>1 DEF TypeInv, CpuTypes, Packet
  <2>2. Append(mat, p.ch) \in Seq(Nat) /\ Len(Append(mat, p.ch)) = Len(mat) + 1
    BY <2>1, AppendProperties
  <2>3. << >> \in Seq(Nat) /\ Len(<< >>) = 0
    OBVIOUS
  <2>4. mat' = mat \/ mat' = << >> \/ (Len(mat) # 7 /\ mat' = Append(mat, p.ch))
    BY <1>6
  <2>5. CASE mat' = mat
    BY <2>1, <2>5
  <2>6. CASE mat' = << >>
    BY <2>3, <2>6
  <2>7. CASE Len(mat) # 7 /\ mat' = Append(mat, p.ch)
    <3>1. Len(mat') = Len(mat) + 1 /\ mat' \in Seq(Nat) /\ Len(mat) # 7
      BY Zenon, <2>2, <2>7
    <3>2. \A n \in Nat : n < 8 /\ n # 7 => n + 1 < 8
      OBVIOUS
    <3>3. Len(mat') < 8
      BY Zenon, <2>1, <3>1, <3>2
    <3> QED
      BY Zenon, <3>1, <3>3
  <2> QED
    BY Zenon, <2>4, <2>5, <2>6, <2>7
<1>9. CpuTypes'
  BY <1>5, <1>6, <1>7, <1>8 DEF CpuTypes
<1> QED
  BY <1>3, <1>4, <1>9 DEF TypeInv

LEMMA PutTypes ==
  ASSUME TypeInv, Put
  PROVE  TypeInv'
<1> DEFINE w == Head(results)
<1>1. /\ cpu = "put" /\ outbox' = <<w>> /\ fifo' = fifo /\ mail' = mail
      /\ results' = Tail(results) /\ cpu' = (IF Len(results) = 1 THEN "idle" ELSE "put")
      /\ UNCHANGED hostVars /\ UNCHANGED loadVars /\ mat' = mat /\ led' = led
  BY Zenon DEF Put, StoreWord
<1>2. HostTypes' /\ LoaderTypes'
  BY <1>1 DEF TypeInv, HostTypes, LoaderTypes, hostVars, loadVars, Step, FirmWaits, FirmsSent
<1>3. LinkTypes'
  BY <1>1, OneOf DEF TypeInv, LinkTypes
<1>4. IsSeq(results') /\ Len(results') = Len(results) - 1 /\ Len(results) \in Nat
  <2>1. results # << >>
    BY <1>1 DEF TypeInv, CpuTypes
  <2>2. PICK S : results \in Seq(S)
    BY DEF TypeInv, CpuTypes, IsSeq
  <2>3. Tail(results) \in Seq(S) /\ Len(Tail(results)) = Len(results) - 1 /\ Len(results) \in Nat
    BY <2>1, <2>2, HeadTailProperties, LenProperties
  <2> QED
    BY <1>1, <2>3 DEF IsSeq
<1>5. cpu' = "put" => results' # << >>
  <2>1. Len(<< >>) = 0
    OBVIOUS
  <2>2. cpu' = "put" => Len(results') # 0
    BY <1>1, <1>4
  <2> QED
    BY Zenon, <2>1, <2>2
<1>6. CpuTypes'
  BY <1>1, <1>4, <1>5 DEF TypeInv, CpuTypes
<1> QED
  BY <1>2, <1>3, <1>6 DEF TypeInv

LEMMA FadeTypes ==
  ASSUME TypeInv, Fade
  PROVE  TypeInv'
<1>1. led' \in 0..7 /\ (cpu' = cpu \/ cpu' = "idle") /\ results' = results /\ mat' = mat
      /\ UNCHANGED <<linkVars, hostVars, loadVars>>
  BY DEF Fade
<1> QED
  BY <1>1 DEF TypeInv, HostTypes, LinkTypes, LoaderTypes, CpuTypes, hostVars, loadVars, linkVars,
              Step, FirmWaits, FirmsSent

LEMMA RerunTypes ==
  ASSUME TypeInv, Rerun
  PROVE  TypeInv'
<1>1. /\ session < Sessions /\ session' = session + 1 /\ only' \in BOOLEAN
      /\ at' = 1 /\ tries' = 0 /\ printed' = << >>
      /\ UNCHANGED linkVars /\ UNCHANGED loadVars /\ UNCHANGED cpuVars
  BY DEF Rerun
<1>2. session \in 1..8 /\ session' \in 1..Sessions /\ at \in 1..Halves + 24
      /\ Halves \in Nat /\ Retries \in Nat \ {0, 1}
  BY <1>1, Bounds DEF TypeInv, HostTypes
<1>3. IsSeq(printed') /\ Len(printed') = 0
  <2>1. << >> \in Seq({}) /\ Len(<< >>) = 0
    OBVIOUS
  <2> QED
    BY <1>1, <2>1 DEF IsSeq
<1>4. Shown(Step') = 0 /\ ~(at' > Halves + 3) /\ at' \in 1..Halves + 24
  BY <1>1, <1>2 DEF Step, Shown
<1>5. HostTypes'
  BY <1>1, <1>2, <1>3, <1>4 DEF HostTypes
<1>6. addr' + FirmWaits' <= Halves * (session' - 1) + FirmsSent'
  <2>1. Halves * (session - 1) \in Int /\ Halves * session = Halves * (session - 1) + Halves
    BY <1>2, SessionSize
  <2>2. addr \in Nat /\ FirmWaits \in {0, 1} /\ addr + FirmWaits <= Halves * (session - 1) + FirmsSent
    BY DEF TypeInv, LoaderTypes, FirmWaits
  <2>3. FirmsSent \in Nat /\ FirmsSent <= Halves /\ FirmsSent' = 0
    BY <1>1, <1>2 DEF FirmsSent
  <2>4. addr' = addr /\ FirmWaits' = FirmWaits
    BY <1>1 DEF loadVars, linkVars, FirmWaits
  <2>5. session' - 1 = session
    BY <1>1, <1>2
  <2>6. Halves * (session' - 1) = Halves * session
    BY Zenon, <2>5
  <2> DEFINE all == Halves * session
             old == Halves * (session - 1)
             new == Halves * (session' - 1)
  <2>7. old \in Int /\ all = old + Halves /\ new = all /\ addr + FirmWaits <= old + FirmsSent
    BY Zenon, <2>1, <2>2, <2>6
  <2> HIDE DEF all, old, new
  <2>8. addr' + FirmWaits' <= new + FirmsSent'
    BY <1>2, <2>2, <2>3, <2>4, <2>7
  <2> QED
    BY Zenon, <2>8 DEF new
<1>7. LoaderTypes'
  BY <1>1, <1>6 DEF TypeInv, LoaderTypes, loadVars
<1>8. LinkTypes' /\ CpuTypes'
  BY <1>1 DEF TypeInv, LinkTypes, CpuTypes, linkVars, cpuVars
<1> QED
  BY <1>5, <1>7, <1>8 DEF TypeInv

LEMMA InitTypes == Init => TypeInv
<1> SUFFICES ASSUME Init PROVE TypeInv
  OBVIOUS
<1>1. Halves \in Nat /\ Sessions \in 1..8 /\ Retries \in Nat \ {0, 1}
  BY Bounds
<1>2. IsSeq(<< >>) /\ Len(<< >>) = 0 /\ << >> \in Seq(Nat)
  <2>1. << >> \in Seq({}) /\ << >> \in Seq(Nat)
    OBVIOUS
  <2> QED
    BY <2>1 DEF IsSeq
<1>3. Shown(Step) = 0 /\ FirmsSent = 0 /\ FirmWaits = 0
  BY <1>1 DEF Init, LinkInit, Step, Shown, FirmsSent, FirmWaits
<1>4. HostTypes
  BY <1>1, <1>2, <1>3 DEF Init, HostTypes
<1>5. LinkTypes
  BY OneOf DEF Init, LinkInit, LinkTypes
<1>6. LoaderTypes
  BY <1>1, <1>3 DEF Init, LoaderTypes
<1>7. CpuTypes
  BY <1>2 DEF Init, CpuTypes
<1> QED
  BY <1>4, <1>5, <1>6, <1>7 DEF TypeInv

LEMMA TypeStep == TypeInv /\ [Next]_vars => TypeInv'
<1> SUFFICES ASSUME TypeInv, [Next]_vars PROVE TypeInv'
  OBVIOUS
<1>1. CASE UNCHANGED vars
  BY <1>1 DEF vars, linkVars, hostVars, loadVars, cpuVars, TypeInv, HostTypes, LinkTypes,
              LoaderTypes, CpuTypes, Step, FirmWaits, FirmsSent
<1> QED
  BY <1>1, SendTypes, ReadTypes, ServeTypes, TakeTypes, PutTypes, FadeTypes, RerunTypes
     DEF Next, Host, Cpu

(* All registers, buffers and counters of host, chip and program keep to   *)
(* their ranges, also when main is stopped anywhere: no more half-words    *)
(* arrive than were sent, at most six results are printed, the program     *)
(* never holds eight elements.                                             *)
THEOREM TypeCorrect == Spec => []TypeOK
<1>1. TypeInv => TypeOK
  BY TypesGive
<1> QED
  BY <1>1, InitTypes, TypeStep, PTL DEF Spec

-----------------------------------------------------------------------------
(* The commands of a session, counted.                                     *)
LEMMA RankNext ==
  ASSUME NEW n \in Nat \ {0}
  PROVE  /\ Rank(n) = Rank(n - 1) + (IF IsCommand(Script[n]) THEN 1 ELSE 0)
         /\ Rank(n) \in Nat /\ Rank(n - 1) \in Nat
<1> DEFINE All == {m \in 1..n : IsCommand(Script[m])}
           Old == {m \in 1..n - 1 : IsCommand(Script[m])}
<1>1. IsFiniteSet(1..n - 1) /\ IsFiniteSet(1..n)
  BY FS_Interval
<1>2. IsFiniteSet(Old) /\ IsFiniteSet(All)
  BY <1>1, FS_Subset
<1>3. n \notin Old
  OBVIOUS
<1>4. All = IF IsCommand(Script[n]) THEN Old \cup {n} ELSE Old
  <2>1. \A m : m \in 1..n <=> m \in 1..n - 1 \/ m = n
    OBVIOUS
  <2> QED
    BY <2>1
<1>5. Cardinality(Old) \in Nat /\ Cardinality(Old \cup {n}) = Cardinality(Old) + 1
  BY <1>2, <1>3, FS_AddElement, FS_CardinalityType
<1>6. Rank(n) = Cardinality(All) /\ Rank(n - 1) = Cardinality(Old)
  BY DEF Rank
<1> HIDE DEF All, Old
<1> QED
  BY <1>4, <1>5, <1>6

LEMMA RankZero == Rank(0) = 0
<1>1. {m \in 1..0 : IsCommand(Script[m])} = {}
  OBVIOUS
<1> QED
  BY <1>1, FS_EmptySet DEF Rank

LEMMA RankGrows ==
  ASSUME NEW m \in Nat, NEW n \in Nat, m <= n
  PROVE  Rank(m) <= Rank(n) /\ Rank(m) \in Nat /\ Rank(n) \in Nat
<1> DEFINE All == {i \in 1..n : IsCommand(Script[i])}
           Old == {i \in 1..m : IsCommand(Script[i])}
<1>1. IsFiniteSet(1..n)
  BY FS_Interval
<1>2. IsFiniteSet(All)
  BY <1>1, FS_Subset
<1>3. Old \subseteq All
  OBVIOUS
<1>4. Rank(n) = Cardinality(All) /\ Rank(m) = Cardinality(Old)
  BY DEF Rank
<1> HIDE DEF All, Old
<1> QED
  BY <1>2, <1>3, <1>4, FS_Subset, FS_CardinalityType

(* q is the commands of the steps before n, in order.                      *)
InOrder(q, n) ==
  /\ q \in Seq(Packet) /\ Len(q) = Rank(n - 1)
  /\ \A m \in 1..n - 1 : IsCommand(Script[m]) => q[Rank(m)] = Script[m]

LEMMA OrderAppend ==
  ASSUME NEW q, NEW n \in Nat \ {0}, InOrder(q, n), IsCommand(Script[n]), Script[n] \in Packet
  PROVE  InOrder(Append(q, Script[n]), n + 1)
<1> DEFINE a == Append(q, Script[n])
<1>1. q \in Seq(Packet) /\ Len(q) = Rank(n - 1)
      /\ \A m \in 1..n - 1 : IsCommand(Script[m]) => q[Rank(m)] = Script[m]
  BY DEF InOrder
<1>2. Rank(n) = Rank(n - 1) + 1 /\ Rank(n - 1) \in Nat
  BY RankNext
<1>3. /\ a \in Seq(Packet) /\ Len(a) = Len(q) + 1 /\ a[Len(q) + 1] = Script[n]
      /\ \A i \in 1..Len(q) : a[i] = q[i]
  BY <1>1, AppendProperties
<1> HIDE DEF a
<1>4. Len(a) = Rank(n) /\ a[Rank(n)] = Script[n]
  BY <1>1, <1>2, <1>3
<1>5. ASSUME NEW m \in 1..n - 1, IsCommand(Script[m])
      PROVE  a[Rank(m)] = Script[m]
  <2>1. Rank(m) = Rank(m - 1) + 1 /\ Rank(m - 1) \in Nat
    BY <1>5, RankNext
  <2>2. Rank(m) <= Rank(n - 1)
    BY RankGrows
  <2>3. Rank(m) \in 1..Len(q)
    BY <1>1, <1>2, <2>1, <2>2
  <2> QED
    BY Zenon, <1>1, <1>3, <1>5, <2>3
<1>6. \A m \in 1..(n + 1) - 1 : m = n \/ m \in 1..n - 1
  OBVIOUS
<1>7. (n + 1) - 1 = n
  OBVIOUS
<1>8. \A m \in 1..(n + 1) - 1 : IsCommand(Script[m]) => a[Rank(m)] = Script[m]
  BY Zenon, <1>4, <1>5, <1>6
<1>9. Len(a) = Rank((n + 1) - 1)
  BY Zenon, <1>4, <1>7
<1> QED
  BY Zenon, <1>3, <1>8, <1>9 DEF InOrder, a

LEMMA OrderKept ==
  ASSUME NEW q, NEW n \in Nat \ {0}, InOrder(q, n), ~IsCommand(Script[n])
  PROVE  InOrder(q, n + 1)
<1>1. Rank(n) = Rank(n - 1)
  BY RankNext
<1>2. \A m \in 1..(n + 1) - 1 : m = n \/ m \in 1..n - 1
  OBVIOUS
<1>3. (n + 1) - 1 = n
  OBVIOUS
<1>4. Len(q) = Rank((n + 1) - 1)
  BY Zenon, <1>1, <1>3 DEF InOrder
<1> QED
  BY Zenon, <1>2, <1>4 DEF InOrder

LEMMA ScriptKept ==
  ASSUME session' = session, only' = only
  PROVE  /\ Script' = Script
         /\ \A q, n : InOrder(q, n)' <=> InOrder(q, n)
<1>1. Script' = Script
  BY DEF Script, Load
<1> QED
  BY <1>1 DEF InOrder, Rank

-----------------------------------------------------------------------------
(* A session of main that is not stopped while the chip still has packets. *)
(* First the load: n of its commands have been carried out.                *)
Loading(n) ==
  /\ n = 0 /\ cpu # "off" => \E s \in 1..session : Holds(s)
  /\ n > 0 =>
       /\ cpu = "off" /\ addr = n - 1 /\ results = << >>
       /\ n % 2 = 0 => buf = Half(session, n - 1)
       /\ \A w \in DOMAIN Image(session) : 2 * w + 2 <= n - 1 => ram[w] = Image(session)[w]
LoadInv ==
  /\ mail = << >> /\ tries = 0 /\ printed = << >>
  /\ at > 2 => outbox = << >>
  /\ \E n \in 0..Halves + 1 :
       /\ Loading(n)
       /\ \/ fifo = << >> /\ at = n + 1
          \/ fifo = <<Script[n + 1]>> /\ at = n + 2

(* Then the demonstration, before step k of it: the results that main has  *)
(* asked for and not read, and the elements that the program holds.        *)
Product == matrix_mult(mat0 \o mat1)
Owed(k) ==
  CASE k = 6  -> <<15625>>
    [] k = 8  -> <<fib[20]>>
    [] k = 17 -> <<Product[1], Product[2], Product[3], Product[4]>>
    [] k = 18 -> <<Product[2], Product[3], Product[4]>>
    [] k = 19 -> <<Product[3], Product[4]>>
    [] k = 20 -> <<Product[4]>>
    [] OTHER  -> << >>
Computed == <<15625, fib[20], Product[1], Product[2], Product[3], Product[4]>>
Held(k) == IF k \in 10..16 THEN k - 9 ELSE 0
Elements(k) == [n \in 1..Held(k) |-> Demo[8 + n].ch]

(* The command of the step before has not been taken by the program;       *)
Sent(k) ==
  /\ k > 1 /\ k - 1 \notin Reads
  /\ \/ fifo = <<Demo[k - 1]>> /\ mail = << >>
     \/ fifo = << >> /\ mail = <<Demo[k - 1]>>
  /\ cpu = "idle" /\ results = << >> /\ outbox = << >> /\ tries = 0
  /\ mat = Elements(k - 1) /\ InOrder(handled, Halves + 1 + k)

(* or it has, and the results wait, and nothing but a poll is under way.   *)
Served(k) ==
  /\ fifo \in {<< >>, <<Nop>>, <<Echo>>} /\ mail \in {<< >>, <<Echo>>}
  /\ k \notin 18..21 => mail = << >> /\ fifo # <<Echo>>
  /\ k \notin 18..20 => tries = 0
  /\ \/ outbox = << >> /\ results = Owed(k)
     \/ Owed(k) # << >> /\ outbox = <<Head(Owed(k))>> /\ results = Tail(Owed(k))
  /\ \/ cpu = IF results # << >> THEN "put" ELSE "idle"
     \/ k = 22 /\ cpu = "gradient"
  /\ mat = Elements(k) /\ InOrder(handled, Halves + 2 + k)
  /\ k \in 2..5 => led = Demo[k - 1].ch

DemoInv ==
  /\ Holds(session)
  /\ \E k \in 1..22 :
       /\ at = Halves + 2 + k
       /\ \A n \in 1..Shown(k) : printed[n] = Computed[n]
       /\ Sent(k) \/ Served(k)

SessionInv == LoadInv \/ DemoInv

(* The step of the demonstration: a command and what it leads to, or a     *)
(* read and what it reads.                                                 *)
LEMMA ElementsAppend ==
  ASSUME NEW k \in 9..16
  PROVE  /\ Elements(k) \in Seq(Nat) /\ Len(Elements(k)) = k - 9
         /\ Append(Elements(k), Demo[k].ch) = [n \in 1..k - 8 |-> Demo[8 + n].ch]
<1>1. \A n \in 1..k - 8 : Demo[8 + n].ch \in Nat
  <2>1. \A n \in 1..k - 8 : 8 + n \in 1..21
    OBVIOUS
  <2> QED
    BY <2>1, DemoOps DEF Packet
<1> DEFINE a == [n \in 1..k - 8 |-> Demo[8 + n].ch]
<1>2. Held(k) = k - 9 /\ k - 9 \in Nat /\ k - 8 \in Nat
  BY DEF Held
<1>3. Elements(k) \in Seq(Nat) /\ Len(Elements(k)) = k - 9
      /\ \A n \in 1..k - 9 : Elements(k)[n] = Demo[8 + n].ch
  <2> DEFINE e == [n \in 1..k - 9 |-> Demo[8 + n].ch]
  <2>1. Elements(k) = e
    BY Zenon, <1>2 DEF Elements
  <2>2. \A n \in 1..k - 9 : Demo[8 + n].ch \in Nat
    BY <1>1
  <2>3. e \in [1..k - 9 -> Nat] /\ \A n \in 1..k - 9 : e[n] = Demo[8 + n].ch
    BY <2>2
  <2> HIDE DEF e
  <2>4. e \in Seq(Nat) /\ Len(e) = k - 9
    BY <1>2, <2>3
  <2> QED
    BY Zenon, <2>1, <2>3, <2>4
<1>4. a \in Seq(Nat) /\ Len(a) = k - 8 /\ \A n \in 1..k - 8 : a[n] = Demo[8 + n].ch
  BY <1>1, <1>2, IsASeq
<1>5. Demo[k].ch = Demo[8 + (k - 8)].ch /\ Demo[k].ch \in Nat
  <2>1. k = 8 + (k - 8) /\ k - 8 \in 1..k - 8
    OBVIOUS
  <2> QED
    BY Zenon, <1>1, <2>1
<1> HIDE DEF a
<1> DEFINE b == Append(Elements(k), Demo[k].ch)
<1>6. b \in Seq(Nat) /\ Len(b) = (k - 9) + 1
      /\ (\A n \in 1..k - 9 : b[n] = Elements(k)[n]) /\ b[(k - 9) + 1] = Demo[k].ch
  BY <1>3, <1>5, AppendProperties
<1> HIDE DEF b
<1>7. Len(b) = Len(a) /\ (k - 9) + 1 = k - 8
  BY <1>4, <1>6
<1>8. \A n \in 1..k - 8 : b[n] = a[n]
  <2>1. \A n \in 1..k - 8 : n \in 1..k - 9 \/ n = k - 8
    OBVIOUS
  <2>2. b[k - 8] = a[k - 8]
    <3>1. b[k - 8] = Demo[k].ch
      BY Zenon, <1>6, <1>7
    <3>2. a[k - 8] = Demo[8 + (k - 8)].ch
      BY <1>4
    <3> QED
      BY Zenon, <1>5, <3>1, <3>2
  <2>3. \A n \in 1..k - 9 : b[n] = a[n]
    BY <1>3, <1>4, <1>6
  <2> QED
    BY Zenon, <2>1, <2>2, <2>3
<1>9. a = b
  <2>1. \A n \in 1..Len(a) : a[n] = b[n]
    BY Zenon, <1>4, <1>8
  <2> QED
    BY Zenon, <1>4, <1>6, <1>7, <2>1, SeqEqual
<1> QED
  BY Zenon, <1>3, <1>9 DEF a, b

LEMMA ProductTable == Product = <<Product[1], Product[2], Product[3], Product[4]>>
<1>1. \A m : \E f : matrix_mult(m) = [n \in 1..4 |-> f[n]]
  <2> TAKE m
  <2> WITNESS matrix_mult(m)
  <2> QED
    BY DEF matrix_mult
<1>2. PICK f : Product = [n \in 1..4 |-> f[n]]
  BY <1>1 DEF Product
<1>3. [n \in 1..4 |-> f[n]] = <<f[1], f[2], f[3], f[4]>>
  OBVIOUS
<1>4. Product[1] = f[1] /\ Product[2] = f[2] /\ Product[3] = f[3] /\ Product[4] = f[4]
  BY <1>2
<1> QED
  BY Zenon, <1>2, <1>3, <1>4

LEMMA MatricesJoined == mat0 \o mat1 = <<1, 2, 3, 1, 10, 0, 5, 2>>
<1> DEFINE a == mat0 \o mat1
           b == <<1, 2, 3, 1, 10, 0, 5, 2>>
<1>2. /\ a \in Seq(Nat) /\ Len(a) = 8
      /\ a[1] = 1 /\ a[2] = 2 /\ a[3] = 3 /\ a[4] = 1 /\ a[5] = 10 /\ a[6] = 0 /\ a[7] = 5 /\ a[8] = 2
  BY DEF mat0, mat1
<1>3. /\ b \in Seq(Nat) /\ Len(b) = 8
      /\ b[1] = 1 /\ b[2] = 2 /\ b[3] = 3 /\ b[4] = 1 /\ b[5] = 10 /\ b[6] = 0 /\ b[7] = 5 /\ b[8] = 2
  OBVIOUS
<1> HIDE DEF a, b
<1>4. \A n \in 1..8 : a[n] = b[n]
  <2>1. \A n \in 1..8 : n = 1 \/ n = 2 \/ n = 3 \/ n = 4 \/ n = 5 \/ n = 6 \/ n = 7 \/ n = 8
    OBVIOUS
  <2> QED
    BY <1>2, <1>3, <2>1
<1>5. \A n \in 1..Len(a) : a[n] = b[n]
  BY Zenon, <1>2, <1>4
<1>6. a = b
  BY Zenon, <1>2, <1>3, <1>5, SeqEqual
<1> QED
  BY <1>6 DEF a, b

LEMMA NextCommand ==
  ASSUME NEW k \in 1..21, k \notin Reads, mat = Elements(k)
  PROVE  /\ Owed(k) = << >> /\ Answer(Demo[k]) = Owed(k + 1)
         /\ Demo[k].op = "MATRIX" /\ Len(mat) = 7 => Elements(k + 1) = << >>
         /\ Demo[k].op = "MATRIX" /\ Len(mat) # 7 => Elements(k + 1) = Append(mat, Demo[k].ch)
         /\ Demo[k].op # "MATRIX" => Elements(k + 1) = mat
         /\ Shown(k + 1) = Shown(k)
<1>1. Shown(k + 1) = Shown(k) /\ Owed(k) = << >>
  BY DEF Shown, Reads, Owed
<1>2. CASE Demo[k].op # "MATRIX"
  <2>1. Elements(k + 1) = mat
    <3>1. Held(k) = 0 /\ Held(k + 1) = 0
      BY <1>2, DemoOps DEF Held
    <3> QED
      BY <3>1 DEF Elements
  <2>2. Answer(Demo[k]) = Owed(k + 1)
    <3>1. CASE k \in 1..4 \/ k = 21
      <4>1. Demo[k].op \in {"LED", "GRADIENT"}
        BY <3>1, DemoOps
      <4>2. Owed(k + 1) = << >>
        BY <3>1 DEF Owed
      <4> QED
        BY <4>1, <4>2 DEF Answer
    <3>2. CASE k = 5
      <4>1. Demo[k].op = "POW" /\ Demo[k].ch = 125
        BY <3>2, DemoTable DEF Cmd
      <4>2. Owed(k + 1) = <<15625>>
        BY <3>2 DEF Owed
      <4> QED
        BY <4>1, <4>2 DEF Answer
    <3>3. CASE k = 7
      <4>1. Demo[k].op = "FIB" /\ Demo[k].ch = 20
        BY <3>3, DemoTable DEF Cmd
      <4>2. Owed(k + 1) = <<fib[20]>>
        BY <3>3 DEF Owed
      <4> QED
        BY Zenon, <4>1, <4>2 DEF Answer
    <3>4. \/ k \in 1..4 \/ k = 21 \/ k = 5 \/ k = 7
      BY <1>2, DemoOps DEF Reads
    <3> QED
      BY <3>1, <3>2, <3>3, <3>4
  <2> QED
    BY Zenon, <1>1, <1>2, <2>1, <2>2
<1>3. CASE Demo[k].op = "MATRIX"
  <2>1. k \in 9..16
    BY <1>3, DemoOps
  <2>2. /\ Len(mat) = k - 9
        /\ Append(mat, Demo[k].ch) = [n \in 1..k - 8 |-> Demo[8 + n].ch]
    BY Zenon, <2>1, ElementsAppend
  <2>3. CASE k # 16
    <3>1. Len(mat) # 7
      BY <2>1, <2>2, <2>3
    <3>2. Answer(Demo[k]) = << >>
      BY Zenon, <1>3, <3>1 DEF Answer
    <3>3. Owed(k + 1) = << >> /\ Held(k + 1) = k - 8
      BY <2>1, <2>3 DEF Owed, Held
    <3>4. Elements(k + 1) = Append(mat, Demo[k].ch)
      BY Zenon, <2>2, <3>3 DEF Elements
    <3> QED
      BY Zenon, <1>1, <1>3, <3>1, <3>2, <3>3, <3>4
  <2>4. CASE k = 16
    <3>1. Len(mat) = 7
      BY <2>2, <2>4
    <3>2. Answer(Demo[k]) = matrix_mult(Append(mat, Demo[k].ch))
      BY <1>3, <3>1 DEF Answer
    <3>3. Append(mat, Demo[k].ch) = mat0 \o mat1
      <4>1. Append(mat, Demo[k].ch) = [n \in 1..8 |-> Demo[8 + n].ch]
        BY <2>2, <2>4
      <4>2. /\ Demo[8 + 1].ch = 1 /\ Demo[8 + 2].ch = 2 /\ Demo[8 + 3].ch = 3 /\ Demo[8 + 4].ch = 1
            /\ Demo[8 + 5].ch = 10 /\ Demo[8 + 6].ch = 0 /\ Demo[8 + 7].ch = 5
            /\ Demo[8 + 8].ch = 2
        <5>1. /\ Demo[9].ch = 1 /\ Demo[10].ch = 2 /\ Demo[11].ch = 3 /\ Demo[12].ch = 1
              /\ Demo[13].ch = 10 /\ Demo[14].ch = 0 /\ Demo[15].ch = 5 /\ Demo[16].ch = 2
          <6>1. \A v : Cmd("MATRIX", v).ch = v
            BY DEF Cmd
          <6>2. /\ Demo[9] = Cmd("MATRIX", 1) /\ Demo[10] = Cmd("MATRIX", 2)
                /\ Demo[11] = Cmd("MATRIX", 3) /\ Demo[12] = Cmd("MATRIX", 1)
                /\ Demo[13] = Cmd("MATRIX", 10) /\ Demo[14] = Cmd("MATRIX", 0)
                /\ Demo[15] = Cmd("MATRIX", 5) /\ Demo[16] = Cmd("MATRIX", 2)
            BY DemoTable
          <6> QED
            BY Zenon, <6>1, <6>2
        <5> QED
          BY <5>1
      <4>3. [n \in 1..8 |-> Demo[8 + n].ch] = <<1, 2, 3, 1, 10, 0, 5, 2>>
        BY <4>2
      <4>4. mat0 \o mat1 = <<1, 2, 3, 1, 10, 0, 5, 2>>
        BY MatricesJoined
      <4> QED
        BY Zenon, <4>1, <4>3, <4>4
    <3>4. matrix_mult(mat0 \o mat1) = <<Product[1], Product[2], Product[3], Product[4]>>
      BY ProductTable DEF Product
    <3>5. Owed(k + 1) = <<Product[1], Product[2], Product[3], Product[4]>> /\ Held(k + 1) = 0
      BY <2>4 DEF Owed, Held
    <3>6. Elements(k + 1) = << >>
      BY <3>5 DEF Elements
    <3> QED
      BY Zenon, <1>1, <1>3, <3>1, <3>2, <3>3, <3>4, <3>5, <3>6
  <2> QED
    BY <2>3, <2>4
<1> QED
  BY <1>2, <1>3

LEMMA NextRead ==
  ASSUME NEW k \in Reads
  PROVE  /\ Owed(k) # << >> /\ Head(Owed(k)) = Computed[Shown(k) + 1]
         /\ Tail(Owed(k)) = Owed(k + 1)
         /\ Shown(k + 1) = Shown(k) + 1 /\ Elements(k + 1) = Elements(k)
<1>1. k = 6 \/ k = 8 \/ k = 17 \/ k = 18 \/ k = 19 \/ k = 20
  BY DEF Reads
<1>2. Shown(k + 1) = Shown(k) + 1 /\ Elements(k + 1) = Elements(k)
  <2>1. Shown(k + 1) = Shown(k) + 1
    BY <1>1 DEF Shown
  <2>2. Held(k + 1) = 0 /\ Held(k) = 0
    BY <1>1 DEF Held
  <2> QED
    BY <2>1, <2>2 DEF Elements
<1>3. Tail(Owed(k)) = Owed(k + 1) /\ Owed(k) # << >>
  BY <1>1 DEF Owed
<1>4. Head(Owed(k)) = Computed[Shown(k) + 1]
  BY <1>1 DEF Owed, Computed, Shown
<1> QED
  BY <1>2, <1>3, <1>4

-----------------------------------------------------------------------------
(* The load, one command after the other.                                  *)
LEMMA Halved ==
  ASSUME NEW a \in Nat
  PROVE  /\ a % 2 = 0 => a = 2 * (a \div 2)
         /\ a % 2 # 0 => a = 2 * (a \div 2) + 1
         /\ a \div 2 \in Nat
OBVIOUS

LEMMA ServedInit ==
  ASSUME InitCpu, session' = session
  PROVE  Loading(1)'
BY Bounds DEF InitCpu, Loading, Image

LEMMA ServedFirm ==
  ASSUME TypeInv, NEW n \in 2..Halves + 1, Loading(n - 1), WriteMemory(Half(session, n - 1)),
         session' = session
  PROVE  Loading(n)'
<1> DEFINE j == n - 1
           S == session
<1>1. Halves \in Nat /\ S \in Nat
  BY Bounds DEF TypeInv, HostTypes
<1>2. /\ cpu = "off" /\ addr = j - 1 /\ results = << >>
      /\ (n - 1) % 2 = 0 => buf = Half(S, j - 1)
      /\ \A w \in DOMAIN Image(S) : 2 * w + 2 <= j - 1 => ram[w] = Image(S)[w]
  BY DEF Loading
<1>3. j \in 1..Halves /\ addr \in Nat /\ addr' = addr + 1 /\ cpu' = "off" /\ results' = << >>
  BY <1>1, <1>2 DEF WriteMemory, cpuVars
<1>4. Image(S)' = Image(S) /\ Half(S, n - 1)' = Half(S, n - 1) /\ DOMAIN Image(S) = 0..Halves \div 2 - 1
  BY DEF Image, Half
<1>5. CASE addr % 2 = 0
  <2>1. buf' = Half(S, j) /\ ram' = ram
    BY <1>5 DEF WriteMemory
  <2>2. \A w \in DOMAIN Image(S) : 2 * w + 2 <= j => 2 * w + 2 <= j - 1
    <3>1. j - 1 = 2 * (addr \div 2) /\ addr \div 2 \in Nat
      BY <1>2, <1>3, <1>5, Halved
    <3>2. \A w \in DOMAIN Image(S) : w \in Nat
      BY <1>1, <1>4
    <3> QED
      BY <1>3, <3>1, <3>2
  <2> QED
    BY <1>2, <1>3, <1>4, <2>1, <2>2 DEF Loading
<1>6. CASE addr % 2 # 0
  <2> DEFINE v == addr \div 2
  <2>1. /\ v \in 0..Halves \div 2 - 1 /\ v \in 0..Halves - 1 /\ 2 * v + 1 = j - 1 /\ 2 * v + 2 = j
        /\ v % Halves = v
    <3>1. /\ addr = 2 * v + 1 /\ v \in Nat /\ Halves \div 2 \in Nat
          /\ Halves = 2 * (Halves \div 2) \/ Halves = 2 * (Halves \div 2) + 1
      BY <1>1, <1>3, <1>6, Halved
    <3> DEFINE h == Halves \div 2
    <3> HIDE DEF v, h
    <3>2. 2 * v + 1 = j - 1 /\ 2 * v + 2 = j /\ v < h /\ v < Halves
      BY <1>2, <1>3, <3>1 DEF h
    <3>3. \A a, b \in Nat : a < b => a % b = a
      BY Z3
    <3>4. v % Halves = v
      BY <1>1, <3>1, <3>2, <3>3
    <3> QED
      BY <1>1, <3>1, <3>2, <3>4 DEF h
  <2>2. n % 2 # 0 /\ (n - 1) % 2 = 0
    BY <1>2, <1>3, <1>6
  <2>3. ram' = [ram EXCEPT ![v] = <<buf, Half(S, j)>>]
    BY <1>6, <2>1 DEF WriteMemory
  <2>4. buf = Half(S, j - 1)
    BY Zenon, <1>2, <2>2
  <2>5. Image(S)[v] = <<Half(S, j - 1), Half(S, j)>>
    BY <2>1 DEF Image
  <2>6. ram \in [0..Halves - 1 -> Nat \X Nat]
    BY DEF TypeInv, LoaderTypes
  <2>7. \A w \in DOMAIN Image(S) : 2 * w + 2 <= j => w = v \/ 2 * w + 2 <= j - 1
    BY <1>1, <1>3, <1>4, <2>1
  <2>8. ram'[v] = Image(S)[v]
    BY Zenon, <2>1, <2>3, <2>4, <2>5, <2>6
  <2>9. \A w \in DOMAIN Image(S) : w # v => ram'[w] = ram[w]
    <3>1. DOMAIN Image(S) \subseteq 0..Halves - 1
      BY <1>1, <1>4
    <3> QED
      BY <2>3, <2>6, <3>1
  <2>10. \A w \in DOMAIN Image(S) : 2 * w + 2 <= j => ram'[w] = Image(S)[w]
    BY Zenon, <1>2, <2>7, <2>8, <2>9
  <2> QED
    BY <1>2, <1>3, <1>4, <2>2, <2>10 DEF Loading
<1> QED
  BY <1>5, <1>6

LEMMA ServedStart ==
  ASSUME TypeInv, Loading(Halves + 1), StartCpu, session' = session
  PROVE  /\ Holds(session)' /\ cpu' = "idle" /\ mat' = << >> /\ handled' = << >>
         /\ results' = << >> /\ led' = led
<1>1. Halves \in Nat
  BY Bounds
<1>2. cpu = "off" /\ results = << >>
      /\ \A w \in DOMAIN Image(session) : 2 * w + 2 <= Halves => ram[w] = Image(session)[w]
  BY <1>1 DEF Loading
<1>3. \A w \in DOMAIN Image(session) : 2 * w + 2 <= Halves
  BY <1>1 DEF Image
<1>4. Holds(session)
  BY <1>2, <1>3 DEF Holds
<1>5. Image(session)' = Image(session)
  BY DEF Image, Half
<1> QED
  BY <1>2, <1>4, <1>5 DEF StartCpu, Holds, loadVars

-----------------------------------------------------------------------------
(* Each action, in the load and in the demonstration.                      *)
LEMMA LoadingKept ==
  ASSUME NEW n \in Nat, session' = session, ram' = ram, addr' = addr, buf' = buf,
         cpu' = cpu \/ (n = 0 /\ cpu # "off"), n # 0 => results' = results
  PROVE  Loading(n) => Loading(n)'
<1>1. \A s : Image(s)' = Image(s) /\ Half(s, n - 1)' = Half(s, n - 1)
  BY DEF Image, Half
<1>2. \A s : Holds(s) <=> Holds(s)'
  BY <1>1 DEF Holds
<1>3. CASE n = 0
  BY <1>2, <1>3 DEF Loading
<1>4. CASE n > 0
  BY <1>1, <1>4 DEF Loading
<1> QED
  BY <1>3, <1>4

LEMMA HoldsKept ==
  ASSUME session' = session, ram' = ram
  PROVE  Holds(session)' <=> Holds(session)
BY DEF Holds, Image, Half

LEMMA OrderPrimed ==
  ASSUME session' = session, only' = only, NEW q, q = handled', NEW n
  PROVE  InOrder(handled, n)' <=> InOrder(q, n)
<1>1. Script' = Script
  BY ScriptKept
<1> QED
  BY <1>1 DEF InOrder, Rank

LEMMA LoadSend ==
  ASSUME TypeInv, LoadInv, SendStep
  PROVE  LoadInv'
<1>1. /\ ~Done /\ Rested /\ Transfer(Script[at]) /\ at' = at + 1 /\ tries' = tries /\ only' = only
      /\ session' = session /\ printed' = printed /\ UNCHANGED loadVars /\ UNCHANGED cpuVars
  BY Zenon DEF SendStep, Send
<1>2. mail = << >> /\ fifo = << >>
  BY <1>1 DEF LoadInv, Rested, Settled
<1>3. PICK n \in 0..Halves + 1 : Loading(n) /\ at = n + 1
  <2>1. \A v : << >> # <<v>>
    OBVIOUS
  <2> QED
    BY Zenon, <1>2, <2>1 DEF LoadInv
<1>4. Script[at] \in Packet
  BY <1>1, NextStep DEF TypeInv
<1>5. fifo' = <<Script[at]>> /\ outbox' = << >> /\ mail' = mail
  BY Zenon, <1>1, <1>2, <1>4, TransferOne DEF TypeInv
<1>6. Script' = Script
  BY <1>1, ScriptKept
<1>7. Loading(n)'
  BY <1>1, <1>3, LoadingKept DEF loadVars, cpuVars
<1>8. at' = n + 2 /\ fifo' = <<Script'[n + 1]>>
  BY <1>1, <1>3, <1>5, <1>6
<1> QED
  BY <1>1, <1>2, <1>3, <1>5, <1>7, <1>8 DEF LoadInv

LEMMA LoadServe ==
  ASSUME TypeInv, LoadInv, Serve
  PROVE  LoadInv' \/ DemoInv'
<1>1. mail = << >> /\ fifo # << >> /\ fifo = <<fifo[1]>> /\ Head(fifo) = fifo[1] /\ Tail(fifo) = << >>
  BY DispatchOne DEF TypeInv, Serve, Settled
<1>2. PICK n \in 0..Halves + 1 : Loading(n) /\ fifo = <<Script[n + 1]>> /\ at = n + 2
  BY Zenon, <1>1 DEF LoadInv
<1>3. Halves \in Nat /\ session \in Nat /\ only \in BOOLEAN
  BY Bounds DEF TypeInv, HostTypes
<1>4. Head(fifo) = Script[n + 1]
  BY <1>2
<1>5. /\ at' = at /\ tries' = tries /\ only' = only /\ session' = session /\ printed' = printed
  BY DEF Serve, hostVars
<1>6. Script' = Script
  BY <1>5, ScriptKept
<1>7. outbox' = outbox
  BY DEF Serve, Dispatch
<1>8. n = 0 => Script[n + 1] = Cmd("INIT", 0)
  BY <1>3, ScriptTable
<1>9. n \in 1..Halves => Script[n + 1] = Cmd("FIRM", Half(session, n))
  <2>1. n \in 1..Halves => 1 + n = n + 1
    BY <1>3
  <2> QED
    BY Zenon, <1>3, <2>1, ScriptTable
<1>10. n = Halves + 1 => Script[n + 1] = Cmd("START", 0)
  <2>1. n = Halves + 1 => n + 1 = Halves + 2
    BY <1>3
  <2> QED
    BY Zenon, <1>3, <2>1, ScriptTable
<1>11. CASE n = 0
  <2>1. Head(fifo).op = "INIT"
    BY <1>4, <1>8, <1>11 DEF Cmd
  <2>2. fifo' = << >> /\ mail' = mail /\ InitCpu
    BY <1>1, <2>1 DEF Serve
  <2>3. Loading(1)'
    BY <1>5, <2>2, ServedInit
  <2>4. at' = 1 + 1 /\ 1 \in 0..Halves + 1 /\ ~(at' > 2)
    BY <1>2, <1>3, <1>5, <1>11
  <2> QED
    BY <1>1, <1>5, <2>2, <2>3, <2>4 DEF LoadInv
<1>12. CASE n \in 1..Halves
  <2>1. Head(fifo).op = "FIRM" /\ Head(fifo).ch = Half(session, n)
    BY <1>4, <1>9, <1>12 DEF Cmd
  <2>2. fifo' = << >> /\ mail' = mail /\ WriteMemory(Half(session, n))
    BY <1>1, <2>1 DEF Serve
  <2>3. PICK m \in 2..Halves + 1 : m = n + 1 /\ n = m - 1
    BY <1>3, <1>12
  <2>4. Loading(m)'
    <3>1. Loading(m - 1) /\ WriteMemory(Half(session, m - 1))
      BY Zenon, <1>2, <2>2, <2>3
    <3> QED
      BY <1>5, <3>1, ServedFirm
  <2>5. at' = m + 1 /\ m \in 0..Halves + 1 /\ at > 2
    BY <1>2, <1>3, <1>5, <1>12, <2>3
  <2> QED
    BY <1>1, <1>5, <1>7, <2>2, <2>4, <2>5 DEF LoadInv
<1>13. CASE n = Halves + 1
  <2>1. Head(fifo).op = "START"
    BY <1>4, <1>10, <1>13 DEF Cmd
  <2>2. fifo' = << >> /\ mail' = mail /\ StartCpu
    BY <1>1, <2>1 DEF Serve
  <2>3. /\ Holds(session)' /\ cpu' = "idle" /\ mat' = << >> /\ handled' = << >>
        /\ results' = << >>
    BY <1>2, <1>5, <1>13, <2>2, ServedStart
  <2>4. at' = Halves + 2 + 1 /\ at > 2
    BY <1>2, <1>3, <1>5, <1>13
  <2>5. outbox' = << >> /\ tries' = 0
    BY <1>5, <1>7, <2>4 DEF LoadInv
  <2>6. InOrder(handled, Halves + 2 + 1)'
    <3>1. InOrder(<< >>, Halves + 2 + 1)
      <4>1. \A i \in 1..Halves + 2 : ~IsCommand(Script[i])
        <5> TAKE i \in 1..Halves + 2
        <5>1. i = 1 \/ (i - 1 \in 1..Halves /\ 1 + (i - 1) = i) \/ i = Halves + 2
          BY <1>3
        <5>2. CASE i = 1
          BY <1>3, <5>2, ScriptTable DEF IsCommand, Cmd
        <5>3. CASE i - 1 \in 1..Halves /\ 1 + (i - 1) = i
          <6>1. Script[i] = Cmd("FIRM", Half(session, i - 1))
            BY Zenon, <1>3, <5>3, ScriptTable
          <6> QED
            BY <6>1 DEF IsCommand, Cmd
        <5>4. CASE i = Halves + 2
          BY <1>3, <5>4, ScriptTable DEF IsCommand, Cmd
        <5> QED
          BY <5>1, <5>2, <5>3, <5>4
      <4>2. (Halves + 2 + 1) - 1 = Halves + 2
        BY <1>3
      <4>3. {i \in 1..Halves + 2 : IsCommand(Script[i])} = {}
        BY <4>1
      <4>4. Rank(Halves + 2) = 0
        BY <4>3, FS_EmptySet DEF Rank
      <4>5. << >> \in Seq(Packet) /\ Len(<< >>) = 0
        OBVIOUS
      <4>6. \A i \in 1..(Halves + 2 + 1) - 1 : ~IsCommand(Script[i])
        BY Zenon, <4>1, <4>2
      <4>7. Rank((Halves + 2 + 1) - 1) = 0
        BY Zenon, <4>2, <4>4
      <4> QED
        BY Zenon, <4>5, <4>6, <4>7 DEF InOrder
    <3> QED
      BY Zenon, <1>5, <2>3, <3>1, OrderPrimed
  <2>7. Owed(1) = << >> /\ Elements(1) = << >> /\ Shown(1) = 0
    <3>1. Held(1) = 0
      BY DEF Held
    <3> QED
      BY <3>1 DEF Owed, Elements, Shown
  <2>8. Served(1)'
    BY <1>1, <2>2, <2>3, <2>5, <2>6, <2>7 DEF Served
  <2>9. \A i \in 1..Shown(1) : printed'[i] = Computed[i]
    BY <2>7
  <2>10. 1 \in 1..22
    OBVIOUS
  <2> QED
    BY <2>3, <2>4, <2>8, <2>9, <2>10 DEF DemoInv
<1> QED
  BY <1>3, <1>11, <1>12, <1>13

LEMMA LoadRead ==
  ASSUME TypeInv, LoadInv, ReadStep
  PROVE  FALSE
<1>1. ~Done /\ Script[at].op = "READ"
  BY Zenon DEF ReadStep
<1>2. Step \in Reads
  BY Zenon, <1>1, NextStep DEF TypeInv
<1>3. at \in Nat /\ at <= Halves + 3
  BY Bounds DEF LoadInv, TypeInv, HostTypes
<1> QED
  BY <1>2, <1>3, Bounds DEF Step, Reads

LEMMA LoadCpu ==
  ASSUME TypeInv, LoadInv, Put \/ Fade
  PROVE  LoadInv'
<1>1. /\ at' = at /\ tries' = tries /\ only' = only /\ session' = session /\ printed' = printed
      /\ ram' = ram /\ addr' = addr /\ buf' = buf /\ fifo' = fifo /\ mail' = mail
  BY DEF Put, Fade, StoreWord, hostVars, loadVars, linkVars
<1>2. cpu # "off" /\ cpu' # "off"
  BY DEF Put, Fade
<1>3. PICK n \in 0..Halves + 1 :
        /\ Loading(n)
        /\ \/ fifo = << >> /\ at = n + 1
           \/ fifo = <<Script[n + 1]>> /\ at = n + 2
  BY Zenon DEF LoadInv
<1>4. n = 0
  BY <1>2, <1>3, Bounds DEF Loading
<1>5. Loading(n)'
  BY <1>1, <1>2, <1>3, <1>4, LoadingKept
<1>6. Script' = Script
  BY <1>1, ScriptKept
<1>7. ~(at' > 2)
  BY <1>1, <1>3, <1>4
<1> QED
  BY <1>1, <1>3, <1>5, <1>6, <1>7 DEF LoadInv

LEMMA AnyRerun ==
  ASSUME ~KillAnywhere, TypeInv, SessionInv, Rerun
  PROVE  LoadInv'
<1>1. /\ fifo' = << >> /\ mail' = << >> /\ at' = 1 /\ tries' = 0 /\ printed' = << >>
      /\ session' = session + 1 /\ cpu' = cpu /\ ram' = ram
  BY Zenon DEF Rerun, linkVars, loadVars, cpuVars
<1>2. session \in Nat /\ session > 0
  BY Bounds DEF TypeInv, HostTypes
<1>3. ASSUME cpu # "off" PROVE \E s \in 1..session : Holds(s)
  <2>1. CASE LoadInv
    <3>1. PICK n \in 0..Halves + 1 : Loading(n)
      BY <2>1 DEF LoadInv
    <3>2. n = 0
      BY <1>3, <3>1, Bounds DEF Loading
    <3> QED
      BY <1>3, <3>1, <3>2 DEF Loading
  <2>2. CASE DemoInv
    BY <1>2, <2>2 DEF DemoInv
  <2> QED
    BY <2>1, <2>2 DEF SessionInv
<1>4. \A s : Holds(s) => Holds(s)'
  BY <1>1 DEF Holds, Image, Half
<1>5. cpu' # "off" => \E s \in 1..session' : Holds(s)'
  <2>1. 1..session \subseteq 1..session'
    BY <1>1, <1>2
  <2> QED
    BY <1>1, <1>3, <1>4, <2>1
<1>6. Loading(0)'
  BY <1>5 DEF Loading
<1>7. 0 \in 0..Halves + 1 /\ at' = 0 + 1 /\ ~(at' > 2)
  BY <1>1, Bounds
<1> QED
  BY <1>1, <1>6, <1>7 DEF LoadInv


LEMMA DemoStep ==
  ASSUME TypeInv, NEW k \in 1..22, at = Halves + 2 + k, ~Done
  PROVE  /\ k \in 1..21 /\ Script[at] = Demo[k] /\ Demo[k] \in Packet
         /\ Script[at].op = "READ" <=> k \in Reads
         /\ IsCommand(Demo[k]) <=> k \notin Reads
<1>1. k = Step /\ at > Halves + 2
  BY Bounds DEF Step
<1>2. k \in 1..21 /\ Script[at] = Demo[k] /\ (Script[at].op = "READ" <=> k \in Reads)
  BY <1>1, NextStep DEF TypeInv
<1>3. Demo[k] \in Packet /\ (Demo[k].op = "READ" <=> k \in Reads)
      /\ Demo[k].op \notin {"INIT", "FIRM", "START", "NOP", "ECHO"}
  BY <1>2, DemoOps
<1> QED
  BY Zenon, <1>1, <1>2, <1>3, NextStep DEF IsCommand, TypeInv

LEMMA DemoSend ==
  ASSUME TypeInv, DemoInv, SendStep
  PROVE  DemoInv'
<1>1. /\ ~Done /\ Script[at].op # "READ" /\ Rested /\ Transfer(Script[at]) /\ at' = at + 1
      /\ tries' = tries /\ only' = only /\ session' = session /\ printed' = printed
      /\ ram' = ram /\ cpu' = cpu /\ results' = results /\ mat' = mat /\ handled' = handled
  BY Zenon DEF SendStep, Send, loadVars, cpuVars
<1>2. PICK k \in 1..22 : /\ at = Halves + 2 + k
                         /\ \A n \in 1..Shown(k) : printed[n] = Computed[n]
                         /\ Sent(k) \/ Served(k)
  BY Zenon DEF DemoInv
<1>3. k \in 1..21 /\ Script[at] = Demo[k] /\ Demo[k] \in Packet /\ k \notin Reads
  BY Zenon, <1>1, <1>2, DemoStep
<1>4. \A v : <<v>> # << >>
  OBVIOUS
<1>5. ~Sent(k)
  BY Zenon, <1>1, <1>4 DEF Sent, Rested, Settled
<1>6. Owed(k) = << >> /\ k \notin 18..20 /\ k # 22
  BY <1>3 DEF Owed, Reads
<1>7. /\ cpu = "idle" /\ results = << >> /\ outbox = << >> /\ tries = 0
      /\ mat = Elements(k) /\ InOrder(handled, Halves + 2 + k)
  BY Zenon, <1>2, <1>5, <1>6 DEF Served
<1>8. mail = << >> /\ fifo = << >>
  BY Zenon, <1>1, <1>7 DEF Rested, Settled
<1>9. fifo' = <<Demo[k]>> /\ outbox' = << >> /\ mail' = << >>
  BY Zenon, <1>1, <1>3, <1>8, TransferOne DEF TypeInv
<1>10. PICK j \in 2..22 : /\ j = k + 1 /\ k = j - 1 /\ j > 1 /\ at' = Halves + 2 + j
                          /\ Halves + 2 + k = Halves + 1 + j
  <2>1. k + 1 \in 2..22 /\ k = (k + 1) - 1 /\ k + 1 > 1 /\ at' = Halves + 2 + (k + 1)
        /\ Halves + 2 + k = Halves + 1 + (k + 1)
    BY <1>1, <1>2, <1>3, Bounds
  <2> QED
    BY <2>1
<1>11. InOrder(handled, Halves + 1 + j)'
  BY Zenon, <1>1, <1>7, <1>10, OrderPrimed
<1>12. Sent(j)'
  BY Zenon, <1>1, <1>3, <1>7, <1>9, <1>10, <1>11 DEF Sent
<1>13. Shown(j) = Shown(k)
  BY <1>3, <1>10 DEF Shown, Reads
<1>14. Holds(session)'
  BY Zenon, <1>1, HoldsKept DEF DemoInv
<1>15. j \in 1..22
  BY <1>10
<1> QED
  BY Zenon, <1>1, <1>2, <1>10, <1>12, <1>13, <1>14, <1>15 DEF DemoInv

LEMMA DemoServe ==
  ASSUME TypeInv, DemoInv, Serve
  PROVE  DemoInv'
<1>1. /\ mail = << >> /\ fifo = <<fifo[1]>> /\ Head(fifo) = fifo[1] /\ Tail(fifo) = << >>
  BY DispatchOne DEF TypeInv, Serve
<1>2. PICK k \in 1..22 : /\ at = Halves + 2 + k
                         /\ \A n \in 1..Shown(k) : printed[n] = Computed[n]
                         /\ Sent(k) \/ Served(k)
  BY Zenon DEF DemoInv
<1>3. \A v, w : <<v>> # << >> /\ (<<v>> = <<w>> => v = w)
  OBVIOUS
<1>4. /\ at' = at /\ tries' = tries /\ only' = only /\ session' = session /\ printed' = printed
  BY DEF Serve, hostVars
<1>5. k > 1 /\ k - 1 \notin Reads => k - 1 \in 1..21
  BY <1>2
<1>6. Head(fifo).op \notin {"INIT", "FIRM", "START"}
  <2>1. CASE Sent(k)
    <3>1. fifo = <<Demo[k - 1]>> /\ k - 1 \in 1..21
      BY Zenon, <1>1, <1>3, <1>5, <2>1 DEF Sent
    <3>2. Demo[k - 1].op \notin {"INIT", "FIRM", "START", "NOP", "ECHO"}
      BY Zenon, <3>1, DemoOps
    <3> QED
      BY Zenon, <1>1, <1>3, <3>1, <3>2
  <2>2. CASE Served(k)
    <3>1. fifo = <<Nop>> \/ fifo = <<Echo>>
      BY Zenon, <1>1, <1>3, <2>2 DEF Served
    <3>2. fifo[1] = Nop \/ fifo[1] = Echo
      BY <3>1
    <3>3. fifo[1].op = "NOP" \/ fifo[1].op = "ECHO"
      BY Zenon, <3>2, FixedPackets
    <3> QED
      BY <1>1, <3>3
  <2> QED
    BY <1>2, <2>1, <2>2
<1>7. /\ fifo' = << >> /\ outbox' = outbox
      /\ mail' = (IF fifo[1] = Nop THEN << >> ELSE <<fifo[1]>>)
      /\ ram' = ram /\ cpu' = cpu /\ results' = results /\ mat' = mat /\ handled' = handled
      /\ led' = led
  <2>1. Dispatch /\ UNCHANGED <<loadVars, cpuVars>>
    BY <1>6 DEF Serve
  <2> QED
    BY Zenon, <1>1, <2>1 DEF Dispatch, loadVars, cpuVars
<1>8. Holds(session)'
  BY Zenon, <1>4, <1>7, HoldsKept DEF DemoInv
<1>9. \A n : InOrder(handled, n)' <=> InOrder(handled, n)
  BY Zenon, <1>4, <1>7, OrderPrimed
<1>10. CASE Sent(k)
  <2>1. fifo = <<Demo[k - 1]>> /\ k - 1 \in 1..21
    BY Zenon, <1>1, <1>3, <1>5, <1>10 DEF Sent
  <2>2. Demo[k - 1].op \notin {"INIT", "FIRM", "START", "NOP", "ECHO"}
    BY Zenon, <2>1, DemoOps
  <2>3. fifo[1] = Demo[k - 1] /\ fifo[1] # Nop
    BY Zenon, <1>1, <1>3, <2>1, <2>2, FixedPackets
  <2>4. mail' = <<Demo[k - 1]>>
    BY Zenon, <1>7, <2>3
  <2>5. Sent(k)'
    BY Zenon, <1>4, <1>7, <1>9, <1>10, <2>4 DEF Sent
  <2> QED
    BY Zenon, <1>2, <1>4, <1>8, <2>5 DEF DemoInv
<1>11. CASE Served(k)
  <2>1. fifo = <<Nop>> \/ fifo = <<Echo>>
    BY Zenon, <1>1, <1>3, <1>11 DEF Served
  <2>2. fifo = <<Nop>> => mail' = << >>
    BY Zenon, <1>1, <1>3, <1>7
  <2>3. fifo = <<Echo>> => mail' = <<Echo>>
    BY Zenon, <1>1, <1>3, <1>7, FixedPackets
  <2>4. mail' \in {<< >>, <<Echo>>} /\ (k \notin 18..21 => mail' = << >>)
    <3>1. k \notin 18..21 => fifo = <<Nop>>
      BY Zenon, <1>11, <2>1 DEF Served
    <3> QED
      BY Zenon, <2>1, <2>2, <2>3, <3>1
  <2>5. << >> # <<Echo>>
    OBVIOUS
  <2>6. Served(k)'
    BY Zenon, <1>4, <1>7, <1>9, <1>11, <2>4, <2>5 DEF Served
  <2> QED
    BY Zenon, <1>2, <1>4, <1>8, <2>6 DEF DemoInv
<1> QED
  BY <1>2, <1>10, <1>11


LEMMA DemoRead ==
  ASSUME TypeInv, DemoInv, ReadStep
  PROVE  DemoInv'
<1> DEFINE p == IF tries = 0 THEN Nop ELSE Echo
           got == IF outbox # << >> THEN outbox[1] ELSE 0
           over == outbox # << >> \/ GivesUp(tries)
<1>1. /\ ~Done /\ Script[at].op = "READ" /\ Transfer(p)
      /\ ((Script[at] = Read /\ tries = 0) \/ GivesUp(tries) => Rested)
      /\ IF over THEN printed' = Append(printed, got) /\ at' = at + 1 /\ tries' = 0
                 ELSE tries' = tries + 1 /\ at' = at /\ printed' = printed
      /\ only' = only /\ session' = session
      /\ ram' = ram /\ cpu' = cpu /\ results' = results /\ mat' = mat /\ handled' = handled
  BY Zenon DEF ReadStep, ReadTry, loadVars, cpuVars
<1>2. PICK k \in 1..22 : /\ at = Halves + 2 + k
                         /\ \A n \in 1..Shown(k) : printed[n] = Computed[n]
                         /\ Sent(k) \/ Served(k)
  BY Zenon DEF DemoInv
<1>3. k \in 1..21 /\ Script[at] = Demo[k] /\ k \in Reads /\ ~IsCommand(Script[at])
  BY Zenon, <1>1, <1>2, DemoStep
<1>4. \A v, w : <<v>> # << >>
  OBVIOUS
<1>5. k \in {6, 8, 17} => k \notin 18..20 /\ Script[at] = Read
  BY <1>3, DemoOps
<1>6. p \in Packet /\ (tries = 0 => p = Nop) /\ (p = Nop \/ p = Echo)
  BY FixedPackets
<1>7. /\ fifo' = IF fifo = << >> THEN <<p>> ELSE fifo
      /\ outbox' = << >> /\ mail' = mail
  <2> HIDE DEF p
  <2> QED
    BY Zenon, <1>1, <1>6, TransferOne DEF TypeInv
<1> HIDE DEF p, got
<1>8. Served(k)
  <2> SUFFICES ASSUME Sent(k) PROVE FALSE
    BY <1>2
  <2>1. k \in {6, 8, 17}
    BY <1>3 DEF Sent, Reads
  <2>2. Rested
    BY Zenon, <1>1, <1>5, <2>1 DEF Sent
  <2> QED
    BY Zenon, <1>4, <2>2 DEF Sent, Rested, Settled
<1>9. Holds(session)'
  BY Zenon, <1>1, HoldsKept DEF DemoInv
<1>10. \A n : InOrder(handled, n)' <=> InOrder(handled, n)
  BY Zenon, <1>1, OrderPrimed
<1>11. /\ Owed(k) # << >> /\ Head(Owed(k)) = Computed[Shown(k) + 1] /\ Tail(Owed(k)) = Owed(k + 1)
       /\ Shown(k + 1) = Shown(k) + 1 /\ Elements(k + 1) = Elements(k)
  BY Zenon, <1>3, NextRead
<1>12. k # 22 /\ k \notin 2..5
  BY <1>3 DEF Reads
<1>13. CASE outbox = << >>
  <2>1. results = Owed(k) /\ cpu = "put"
    BY Zenon, <1>4, <1>8, <1>11, <1>12, <1>13 DEF Served
  <2>2. ~Rested
    BY Zenon, <1>13, <2>1 DEF Rested, MayPut, MayStore
  <2>3. ~over /\ ~(Script[at] = Read /\ tries = 0)
    BY Zenon, <1>1, <1>13, <2>2
  <2>4. k \in 18..20
    <3>1. k \in {6, 8, 17} => tries = 0
      BY Zenon, <1>5, <1>8 DEF Served
    <3>2. k \notin {6, 8, 17}
      BY Zenon, <1>5, <2>3, <3>1
    <3> QED
      BY <1>3, <3>2 DEF Reads
  <2>5. k \in 18..21
    BY <2>4
  <2>6. fifo' \in {<< >>, <<Nop>>, <<Echo>>} /\ mail' \in {<< >>, <<Echo>>}
    BY Zenon, <1>6, <1>7, <1>8 DEF Served
  <2>7. at' = at /\ printed' = printed
    BY Zenon, <1>1, <2>3
  <2>8. Served(k)'
    BY Zenon, <1>1, <1>7, <1>8, <1>10, <1>12, <1>13, <2>1, <2>4, <2>5, <2>6 DEF Served
  <2> QED
    BY Zenon, <1>2, <1>9, <2>7, <2>8 DEF DemoInv
<1>14. CASE outbox # << >>
  <2>1. outbox = <<Head(Owed(k))>> /\ results = Tail(Owed(k))
    BY Zenon, <1>8, <1>14 DEF Served
  <2>2. got = Computed[Shown(k) + 1]
    <3>1. \A v : <<v>>[1] = v
      OBVIOUS
    <3> QED
      BY Zenon, <1>11, <1>14, <2>1, <3>1 DEF got
  <2>3. printed' = Append(printed, got) /\ at' = at + 1 /\ tries' = 0
    BY Zenon, <1>1, <1>14
  <2>4. PICK j \in 2..22 : /\ j = k + 1 /\ at' = Halves + 2 + j /\ j \in 1..22
                           /\ at + 1 = Halves + 2 + j
    <3>1. k + 1 \in 2..22 /\ at' = Halves + 2 + (k + 1) /\ k + 1 \in 1..22
          /\ at + 1 = Halves + 2 + (k + 1)
      BY <1>2, <1>3, <2>3, Bounds
    <3> QED
      BY <3>1
  <2>5. InOrder(handled, Halves + 2 + j)'
    <3>1. at \in Nat \ {0}
      BY Bounds DEF TypeInv, HostTypes
    <3>2. InOrder(handled, at)
      BY Zenon, <1>2, <1>8 DEF Served
    <3>3. InOrder(handled, at + 1)
      BY Zenon, <1>3, <3>1, <3>2, OrderKept
    <3> QED
      BY Zenon, <1>10, <2>4, <3>3
  <2>6. \A n \in 1..Shown(j) : printed'[n] = Computed[n]
    <3>1. Len(printed) = Shown(k) /\ Shown(k) \in Nat
      <4>1. Step = k
        BY <1>2, Bounds DEF Step
      <4>2. Shown(k) \in Nat
        BY DEF Shown
      <4> QED
        BY Zenon, <4>1, <4>2 DEF TypeInv, HostTypes
    <3>2. PICK S : printed \in Seq(S)
      BY Zenon DEF TypeInv, HostTypes, IsSeq
    <3>3. printed \in Seq(S \cup {got}) /\ got \in S \cup {got}
      BY <3>2
    <3>4. /\ \A n \in 1..Len(printed) : printed'[n] = printed[n]
          /\ printed'[Len(printed) + 1] = got
      <4>1. \A T : \A s \in Seq(T) : \A v \in T :
              /\ \A n \in 1..Len(s) : Append(s, v)[n] = s[n]
              /\ Append(s, v)[Len(s) + 1] = v
        BY AppendProperties
      <4>2. /\ \A n \in 1..Len(printed) : Append(printed, got)[n] = printed[n]
            /\ Append(printed, got)[Len(printed) + 1] = got
        BY Zenon, <3>3, <4>1
      <4> QED
        BY Zenon, <2>3, <4>2
    <3>5. \A n \in 1..Shown(j) : n = Shown(k) + 1 \/ n \in 1..Shown(k)
      BY <1>11, <2>4, <3>1
    <3> QED
      BY Zenon, <1>2, <2>2, <3>1, <3>4, <3>5
  <2>7. /\ fifo' \in {<< >>, <<Nop>>, <<Echo>>} /\ mail' \in {<< >>, <<Echo>>}
        /\ j \notin 18..21 => mail' = << >> /\ fifo' # <<Echo>>
    <3>1. /\ fifo \in {<< >>, <<Nop>>, <<Echo>>} /\ mail \in {<< >>, <<Echo>>}
          /\ k \notin 18..21 => mail = << >> /\ fifo # <<Echo>>
          /\ k \notin 18..20 => tries = 0
      BY Zenon, <1>8 DEF Served
    <3>2. fifo' \in {<< >>, <<Nop>>, <<Echo>>}
      BY Zenon, <1>6, <1>7, <3>1
    <3>3. j \notin 18..21 => k \notin 18..21 /\ k \notin 18..20
      BY <1>3, <2>4 DEF Reads
    <3>4. <<Nop>> # <<Echo>>
      <4>1. <<Nop>>[1] = Nop /\ <<Echo>>[1] = Echo
        OBVIOUS
      <4> QED
        BY Zenon, <4>1, FixedPackets
    <3>5. j \notin 18..21 => mail' = << >> /\ fifo' # <<Echo>>
      BY Zenon, <1>6, <1>7, <3>1, <3>3, <3>4
    <3> QED
      BY Zenon, <1>7, <3>1, <3>2, <3>5
  <2>8. cpu' = (IF results' # << >> THEN "put" ELSE "idle")
    BY Zenon, <1>1, <1>8, <1>12 DEF Served
  <2>9. j \notin 2..5
    BY <1>3, <2>4 DEF Reads
  <2>10. results' = Owed(j) /\ mat' = Elements(j)
    BY Zenon, <1>1, <1>8, <1>11, <2>1, <2>4 DEF Served
  <2>11. Served(j)'
    BY Zenon, <1>7, <2>3, <2>5, <2>7, <2>8, <2>9, <2>10 DEF Served
  <2> QED
    BY Zenon, <1>9, <2>4, <2>6, <2>11 DEF DemoInv
<1> QED
  BY <1>13, <1>14


LEMMA DemoTake ==
  ASSUME TypeInv, DemoInv, Take
  PROVE  DemoInv'
<1>1. /\ cpu = "idle" /\ mail # << >> /\ mail' = << >> /\ fifo' = fifo /\ outbox' = outbox
      /\ at' = at /\ tries' = tries /\ only' = only /\ session' = session /\ printed' = printed
      /\ ram' = ram
  BY Zenon DEF Take, Ack, AckMail, hostVars, loadVars
<1>2. PICK k \in 1..22 : /\ at = Halves + 2 + k
                         /\ \A n \in 1..Shown(k) : printed[n] = Computed[n]
                         /\ Sent(k) \/ Served(k)
  BY Zenon DEF DemoInv
<1>3. \A v : <<v>> # << >> /\ <<v>>[1] = v
  OBVIOUS
<1>4. Holds(session)'
  BY Zenon, <1>1, HoldsKept DEF DemoInv
<1>5. \A p : mail = <<p>> =>
        /\ led' = (IF p.op = "LED" THEN p.ch % 8 ELSE led)
        /\ results' = Answer(p)
        /\ p.op # "MATRIX" => mat' = mat
        /\ p.op = "MATRIX" /\ Len(mat) = 7 => mat' = << >>
        /\ p.op = "MATRIX" /\ Len(mat) # 7 => mat' = Append(mat, p.ch)
        /\ p.op = "GRADIENT" /\ Answer(p) = << >> => cpu' = "gradient"
        /\ p.op # "GRADIENT" => cpu' = (IF Answer(p) # << >> THEN "put" ELSE "idle")
        /\ handled' = (IF p = Echo THEN handled ELSE Append(handled, p))
  <2> SUFFICES ASSUME NEW p, mail = <<p>>
               PROVE  /\ led' = (IF p.op = "LED" THEN p.ch % 8 ELSE led)
                      /\ results' = Answer(p)
                      /\ p.op # "MATRIX" => mat' = mat
                      /\ p.op = "MATRIX" /\ Len(mat) = 7 => mat' = << >>
                      /\ p.op = "MATRIX" /\ Len(mat) # 7 => mat' = Append(mat, p.ch)
                      /\ p.op = "GRADIENT" /\ Answer(p) = << >> => cpu' = "gradient"
                      /\ p.op # "GRADIENT" =>
                           cpu' = (IF Answer(p) # << >> THEN "put" ELSE "idle")
                      /\ handled' = (IF p = Echo THEN handled ELSE Append(handled, p))
    OBVIOUS
  <2>1. mail[1] = p
    BY Zenon, <1>3
  <2>2. led' = IF p.op = "LED" THEN p.ch % 8 ELSE led
    BY Zenon, <2>1 DEF Take
  <2>3. results' = Answer(p)
    BY Zenon, <2>1 DEF Take
  <2>4. mat' = CASE p.op # "MATRIX" -> mat
                 [] p.op = "MATRIX" /\ Len(mat) = 7 -> << >>
                 [] OTHER -> Append(mat, p.ch)
    BY Zenon, <2>1 DEF Take
  <2>5. cpu' = CASE p.op = "GRADIENT" -> "gradient"
                 [] Answer(p) # << >> -> "put"
                 [] OTHER -> "idle"
    BY Zenon, <2>1 DEF Take
  <2>6. handled' = IF p = Echo THEN handled ELSE Append(handled, p)
    BY Zenon, <2>1 DEF Take
  <2>7. /\ p.op # "MATRIX" => mat' = mat
        /\ p.op = "MATRIX" /\ Len(mat) = 7 => mat' = << >>
        /\ p.op = "MATRIX" /\ Len(mat) # 7 => mat' = Append(mat, p.ch)
    BY Zenon, <2>4
  <2>8. /\ p.op = "GRADIENT" /\ Answer(p) = << >> => cpu' = "gradient"
        /\ p.op # "GRADIENT" => cpu' = (IF Answer(p) # << >> THEN "put" ELSE "idle")
    BY Zenon, <2>5
  <2> QED
    BY Zenon, <2>2, <2>3, <2>6, <2>7, <2>8
<1>6. CASE Sent(k)
  <2>1. PICK i \in 1..21 : i = k - 1 /\ k = i + 1 /\ Halves + 1 + k = Halves + 2 + i
                           /\ Halves + 2 + k = (Halves + 2 + i) + 1
    <3>1. k - 1 \in 1..21 /\ k = (k - 1) + 1 /\ Halves + 1 + k = Halves + 2 + (k - 1)
          /\ Halves + 2 + k = (Halves + 2 + (k - 1)) + 1
      BY <1>6, Bounds DEF Sent
    <3> QED
      BY <3>1
  <2> DEFINE p == Demo[i]
  <2>2. mail = <<p>> /\ fifo = << >> /\ i \notin Reads /\ mat = Elements(i) /\ outbox = << >>
        /\ tries = 0 /\ InOrder(handled, Halves + 2 + i)
    BY Zenon, <1>1, <1>6, <2>1 DEF Sent
  <2>3. /\ p \in Packet /\ p.op \notin {"READ", "NOP", "ECHO"} /\ IsCommand(p)
        /\ p.op = "LED" <=> i \in 1..4
        /\ p.op = "GRADIENT" <=> i = 21
    <3>1. /\ p \in Packet /\ p.op \notin {"INIT", "FIRM", "START", "NOP", "ECHO"}
          /\ p.op = "READ" <=> i \in Reads
          /\ p.op = "LED" <=> i \in 1..4
          /\ p.op = "GRADIENT" <=> i = 21
      BY Zenon, DemoOps
    <3>2. p.op # "READ"
      BY Zenon, <2>2, <3>1
    <3> HIDE DEF p
    <3>3. p.op \notin {"READ", "NOP", "ECHO"} /\ IsCommand(p)
      BY <3>1, <3>2 DEF IsCommand
    <3> QED
      BY Zenon, <3>1, <3>3
  <2>4. Script[Halves + 2 + i] = p
    <3>1. at > Halves + 3 /\ session \in Nat /\ only \in BOOLEAN
      BY <1>2, <2>1, Bounds DEF TypeInv, HostTypes
    <3>2. ~only
      BY Zenon, <3>1 DEF TypeInv, HostTypes
    <3> QED
      BY Zenon, <3>1, <3>2, ScriptTable
  <2>5. /\ Answer(p) = Owed(k)
        /\ p.op = "MATRIX" /\ Len(mat) = 7 => Elements(k) = << >>
        /\ p.op = "MATRIX" /\ Len(mat) # 7 => Elements(k) = Append(mat, p.ch)
        /\ p.op # "MATRIX" => Elements(k) = mat
    BY Zenon, <2>1, <2>2, NextCommand
  <2>6. mat' = Elements(k) /\ results' = Owed(k)
    BY Zenon, <1>5, <2>2, <2>5
  <2>7. \/ cpu' = IF results' # << >> THEN "put" ELSE "idle"
        \/ k = 22 /\ cpu' = "gradient"
    <3>1. CASE p.op = "GRADIENT"
      <4>1. k = 22 /\ i = 21
        BY <2>1, <2>3, <3>1
      <4>2. Owed(k) = << >>
        BY <4>1 DEF Owed
      <4>3. Answer(p) = << >>
        BY Zenon, <2>5, <4>2
      <4> HIDE DEF p
      <4> QED
        BY Zenon, <1>5, <2>2, <3>1, <4>1, <4>3
    <3>2. CASE p.op # "GRADIENT"
      BY Zenon, <1>5, <2>2, <2>5, <2>6, <3>2
    <3> QED
      BY <3>1, <3>2
  <2>8. InOrder(handled, Halves + 2 + k)'
    <3>1. p # Echo
      BY Zenon, <2>3, FixedPackets
    <3>2. handled' = Append(handled, p)
      BY Zenon, <1>5, <2>2, <3>1
    <3>3. Halves + 2 + i \in Nat \ {0}
      BY Bounds
    <3>4. InOrder(Append(handled, p), (Halves + 2 + i) + 1)
      BY Zenon, <2>2, <2>3, <2>4, <3>3, OrderAppend
    <3>5. InOrder(handled', Halves + 2 + k)
      BY Zenon, <2>1, <3>2, <3>4
    <3> QED
      BY Zenon, <1>1, <3>5, OrderPrimed
  <2>9. k \in 2..5 => led' = Demo[k - 1].ch
    <3> SUFFICES ASSUME k \in 2..5 PROVE led' = Demo[k - 1].ch
      OBVIOUS
    <3>1. i \in 1..4
      BY <2>1
    <3>2. led' = p.ch % 8
      BY Zenon, <1>5, <2>2, <2>3, <3>1
    <3>3. Demo[1].ch = 1 /\ Demo[2].ch = 2 /\ Demo[3].ch = 3 /\ Demo[4].ch = 7
      BY DemoTable DEF Cmd
    <3>4. p.ch % 8 = p.ch
      BY <3>1, <3>3
    <3> QED
      BY Zenon, <2>1, <3>2, <3>4
  <2>10. Served(k)'
    BY Zenon, <1>1, <2>2, <2>6, <2>7, <2>8, <2>9, <1>3 DEF Served
  <2> QED
    BY Zenon, <1>1, <1>2, <1>4, <2>10 DEF DemoInv
<1>7. CASE Served(k)
  <2>1. mail = <<Echo>> /\ results = << >>
    <3>1. "idle" # "put" /\ "idle" # "gradient"
      OBVIOUS
    <3> QED
      BY Zenon, <1>1, <1>7, <3>1 DEF Served
  <2>2. /\ Echo.op = "ECHO" /\ Echo.op \notin {"LED", "MATRIX", "GRADIENT", "FIB", "POW"}
    BY FixedPackets
  <2>3. Answer(Echo) = << >>
    BY Zenon, <2>2 DEF Answer
  <2>4. led' = led /\ results' = results /\ mat' = mat /\ cpu' = "idle" /\ handled' = handled
    BY Zenon, <1>5, <2>1, <2>2, <2>3
  <2>5. \A n : InOrder(handled, n)' <=> InOrder(handled, n)
    BY Zenon, <1>1, <2>4, OrderPrimed
  <2>6. Served(k)'
    BY Zenon, <1>1, <1>3, <1>7, <2>1, <2>4, <2>5 DEF Served
  <2> QED
    BY Zenon, <1>1, <1>2, <1>4, <2>6 DEF DemoInv
<1> QED
  BY <1>2, <1>6, <1>7

LEMMA DemoPut ==
  ASSUME TypeInv, DemoInv, Put
  PROVE  DemoInv'
<1>1. /\ cpu = "put" /\ outbox = << >> /\ outbox' = <<Head(results)>> /\ results' = Tail(results)
      /\ cpu' = (IF Len(results) = 1 THEN "idle" ELSE "put")
      /\ mail' = mail /\ fifo' = fifo /\ mat' = mat /\ led' = led /\ handled' = handled
      /\ at' = at /\ tries' = tries /\ only' = only /\ session' = session /\ printed' = printed
      /\ ram' = ram
  BY Zenon DEF Put, MayPut, MayStore, StoreWord, hostVars, loadVars
<1>2. PICK k \in 1..22 : /\ at = Halves + 2 + k
                         /\ \A n \in 1..Shown(k) : printed[n] = Computed[n]
                         /\ Sent(k) \/ Served(k)
  BY Zenon DEF DemoInv
<1>3. Served(k)
  <2>1. "idle" # "put"
    OBVIOUS
  <2> QED
    BY Zenon, <1>1, <1>2, <2>1 DEF Sent
<1>4. Holds(session)'
  BY Zenon, <1>1, HoldsKept DEF DemoInv
<1>5. \A n : InOrder(handled, n)' <=> InOrder(handled, n)
  BY Zenon, <1>1, OrderPrimed
<1>6. \A v : <<v>> # << >>
  OBVIOUS
<1>7. results = Owed(k) /\ results # << >>
  BY Zenon, <1>1, <1>3, <1>6 DEF Served, TypeInv, CpuTypes
<1>8. cpu' = IF results' # << >> THEN "put" ELSE "idle"
  <2>1. PICK S : results \in Seq(S)
    BY Zenon DEF TypeInv, CpuTypes, IsSeq
  <2>2. Tail(results) = << >> <=> Len(results) = 1
    <3>1. Tail(results) \in Seq(S) /\ Len(Tail(results)) = Len(results) - 1
          /\ Len(results) \in Nat
      BY <1>7, <2>1
    <3>2. Tail(results) = << >> <=> Len(Tail(results)) = 0
      BY Zenon, <3>1, EmptySeq
    <3> QED
      BY <3>1, <3>2
  <2> QED
    BY Zenon, <1>1, <2>2
<1>9. Served(k)'
  BY Zenon, <1>1, <1>3, <1>5, <1>7, <1>8 DEF Served
<1> QED
  BY Zenon, <1>1, <1>2, <1>4, <1>9 DEF DemoInv

LEMMA DemoFade ==
  ASSUME TypeInv, DemoInv, Fade
  PROVE  DemoInv'
<1>1. /\ cpu = "gradient" /\ cpu' \in {"gradient", "idle"}
      /\ fifo' = fifo /\ mail' = mail /\ outbox' = outbox
      /\ at' = at /\ tries' = tries /\ only' = only /\ session' = session /\ printed' = printed
      /\ ram' = ram /\ results' = results /\ mat' = mat /\ handled' = handled
  BY DEF Fade, linkVars, hostVars, loadVars
<1>2. PICK k \in 1..22 : /\ at = Halves + 2 + k
                         /\ \A n \in 1..Shown(k) : printed[n] = Computed[n]
                         /\ Sent(k) \/ Served(k)
  BY Zenon DEF DemoInv
<1>3. Served(k) /\ k = 22
  <2>1. "idle" # "gradient" /\ "put" # "gradient"
    OBVIOUS
  <2> QED
    BY Zenon, <1>1, <1>2, <2>1 DEF Sent, Served
<1>4. Holds(session)'
  BY Zenon, <1>1, HoldsKept DEF DemoInv
<1>5. \A n : InOrder(handled, n)' <=> InOrder(handled, n)
  BY Zenon, <1>1, OrderPrimed
<1>6. Owed(k) = << >> /\ k \notin 2..5
  BY <1>3 DEF Owed
<1>7. results = << >>
  BY Zenon, <1>3, <1>6 DEF Served
<1>8. Served(k)'
  BY Zenon, <1>1, <1>3, <1>5, <1>6, <1>7 DEF Served
<1> QED
  BY Zenon, <1>1, <1>2, <1>4, <1>8 DEF DemoInv


-----------------------------------------------------------------------------
LEMMA InitSession == Init => SessionInv
<1> SUFFICES ASSUME Init PROVE LoadInv
  BY DEF SessionInv
<1>1. cpu = "off" /\ at = 1 /\ tries = 0 /\ printed = << >> /\ mail = << >> /\ fifo = << >>
  BY DEF Init, LinkInit
<1>2. Loading(0)
  BY <1>1 DEF Loading
<1>3. 0 \in 0..Halves + 1 /\ at = 0 + 1 /\ ~(at > 2)
  BY <1>1, Bounds
<1> QED
  BY Zenon, <1>1, <1>2, <1>3 DEF LoadInv

LEMMA SessionStutter == SessionInv /\ UNCHANGED vars => SessionInv'
<1> SUFFICES ASSUME SessionInv, UNCHANGED vars PROVE SessionInv'
  OBVIOUS
<1>1. /\ fifo' = fifo /\ mail' = mail /\ outbox' = outbox
      /\ at' = at /\ tries' = tries /\ only' = only /\ session' = session /\ printed' = printed
      /\ ram' = ram /\ buf' = buf /\ addr' = addr
      /\ cpu' = cpu /\ results' = results /\ mat' = mat /\ led' = led /\ handled' = handled
  BY DEF vars, linkVars, hostVars, loadVars, cpuVars
<1>2. CASE LoadInv
  <2>1. Script' = Script
    BY <1>1, ScriptKept
  <2>2. PICK n \in 0..Halves + 1 :
          /\ Loading(n)
          /\ \/ fifo = << >> /\ at = n + 1
             \/ fifo = <<Script[n + 1]>> /\ at = n + 2
    BY Zenon, <1>2 DEF LoadInv
  <2>3. n \in Nat
    BY Bounds
  <2>4. Loading(n)'
    BY Zenon, <1>1, <2>2, <2>3, LoadingKept
  <2>5. LoadInv'
    BY Zenon, <1>1, <1>2, <2>1, <2>2, <2>4 DEF LoadInv
  <2> QED
    BY <2>5 DEF SessionInv
<1>3. CASE DemoInv
  <2>1. Holds(session)'
    BY Zenon, <1>1, <1>3, HoldsKept DEF DemoInv
  <2>2. \A n : InOrder(handled, n)' <=> InOrder(handled, n)
    BY Zenon, <1>1, OrderPrimed
  <2>3. PICK k \in 1..22 : /\ at = Halves + 2 + k
                           /\ \A n \in 1..Shown(k) : printed[n] = Computed[n]
                           /\ Sent(k) \/ Served(k)
    BY Zenon, <1>3 DEF DemoInv
  <2>4. Sent(k) => Sent(k)'
    BY Zenon, <1>1, <2>2 DEF Sent
  <2>5. Served(k) => Served(k)'
    BY Zenon, <1>1, <2>2 DEF Served
  <2>6. DemoInv'
    BY Zenon, <1>1, <2>1, <2>3, <2>4, <2>5 DEF DemoInv
  <2> QED
    BY <2>6 DEF SessionInv
<1> QED
  BY <1>2, <1>3 DEF SessionInv

LEMMA SessionStep ==
  ASSUME ~KillAnywhere
  PROVE  TypeInv /\ SessionInv /\ [Next]_vars => SessionInv'
<1> SUFFICES ASSUME TypeInv, SessionInv, [Next]_vars PROVE SessionInv'
  OBVIOUS
<1>1. CASE UNCHANGED vars
  BY <1>1, SessionStutter
<1>2. CASE Rerun
  BY <1>2, AnyRerun DEF SessionInv
<1>3. CASE Next /\ ~Rerun /\ LoadInv
  <2>1. ~Take
    BY <1>3 DEF Take, LoadInv
  <2>2. CASE SendStep
    BY <1>3, <2>2, LoadSend DEF SessionInv
  <2>3. CASE ReadStep
    BY <1>3, <2>3, LoadRead
  <2>4. CASE Serve
    BY <1>3, <2>4, LoadServe DEF SessionInv
  <2>5. CASE Put \/ Fade
    BY <1>3, <2>5, LoadCpu DEF SessionInv
  <2> QED
    BY Zenon, <1>3, <2>1, <2>2, <2>3, <2>4, <2>5 DEF Next, Host, Cpu
<1>4. CASE Next /\ ~Rerun /\ DemoInv
  <2>1. DemoInv'
    BY Zenon, <1>4, DemoSend, DemoRead, DemoServe, DemoTake, DemoPut, DemoFade
       DEF Next, Host, Cpu
  <2> QED
    BY <2>1 DEF SessionInv
<1> QED
  BY Zenon, <1>1, <1>2, <1>3, <1>4 DEF SessionInv

LEMMA SessionAlways ==
  ASSUME ~KillAnywhere
  PROVE  Spec => [](TypeInv /\ SessionInv)
<1>1. Init => TypeInv /\ SessionInv
  BY InitTypes, InitSession
<1>2. (TypeInv /\ SessionInv) /\ [Next]_vars => (TypeInv /\ SessionInv)'
  BY TypeStep, SessionStep
<1> QED
  BY <1>1, <1>2, PTL DEF Spec

(* In the load nothing has been started: the START is still on its way.    *)
LEMMA NotYetStarted ==
  ASSUME TypeInv, LoadInv
  PROVE  ~Started
<1> SUFFICES ASSUME Started PROVE FALSE
  OBVIOUS
<1>1. Halves \in Nat /\ at > Halves + 2 /\ session \in Nat /\ only \in BOOLEAN
  BY Bounds DEF Started, Loaded, TypeInv, HostTypes
<1>2. PICK n \in 0..Halves + 1 :
          \/ fifo = << >> /\ at = n + 1
          \/ fifo = <<Script[n + 1]>> /\ at = n + 2
  BY Zenon DEF LoadInv
<1>3. fifo = <<Script[n + 1]>> /\ n + 1 = Halves + 2
  BY <1>1, <1>2
<1>4. Script[n + 1] = Cmd("START", 0)
  BY Zenon, <1>1, <1>3, ScriptTable
<1>5. 1 \in DOMAIN fifo /\ fifo[1].op = "START"
  <2>1. \A v : 1 \in DOMAIN <<v>> /\ <<v>>[1] = v
    OBVIOUS
  <2>2. Cmd("START", 0).op = "START"
    BY DEF Cmd
  <2> QED
    BY Zenon, <1>3, <1>4, <2>1, <2>2
<1> QED
  BY Zenon, <1>5 DEF Started

(* The CPU runs one session's image only and, once this session's START    *)
(* has been carried out, this session's, whatever the number of            *)
(* half-words in it and as far as its words are complete, if main is run   *)
(* again only when the chip has no packets of the last run.                *)
THEOREM StartsLoadedAlways ==
  ASSUME ~KillAnywhere
  PROVE  Spec => []StartsLoaded
<1>1. TypeInv /\ SessionInv => StartsLoaded
  <2> SUFFICES ASSUME TypeInv, SessionInv PROVE StartsLoaded
    OBVIOUS
  <2>1. CASE LoadInv
    <3>1. PICK n \in 0..Halves + 1 : Loading(n)
      BY <2>1 DEF LoadInv
    <3>2. cpu # "off" => \E s \in 1..session : Holds(s)
      BY <3>1, Bounds DEF Loading
    <3> QED
      BY <2>1, <3>2, NotYetStarted DEF StartsLoaded
  <2>2. CASE DemoInv
    <3>1. session \in 1..session
      BY Bounds DEF TypeInv, HostTypes
    <3>2. Holds(session)
      BY <2>2 DEF DemoInv
    <3>3. cpu # "off"
      BY <2>2 DEF DemoInv, Sent, Served
    <3> QED
      BY Zenon, <3>1, <3>2, <3>3 DEF StartsLoaded
  <2> QED
    BY <2>1, <2>2 DEF SessionInv
<1> QED
  BY <1>1, SessionAlways, PTL

(* The demonstration is before some step k; a command that the program has *)
(* not taken yet is in the slave or in the mailbox.                        *)
LEMMA HandledInOrder ==
  ASSUME TypeInv, DemoInv
  PROVE  InOrder(handled \o Waiting(mail) \o Waiting(fifo), at)
<1>1. PICK k \in 1..22 : at = Halves + 2 + k /\ (Sent(k) \/ Served(k))
  BY DEF DemoInv
<1>2. \A v : <<v>> # << >> /\ <<v>>[1] = v
  OBVIOUS
<1>3. Waiting(<< >>) = << >> /\ Waiting(<<Nop>>) = << >> /\ Waiting(<<Echo>>) = << >>
  BY Zenon, <1>2, FixedPackets DEF Waiting, IsCommand
<1>4. \A q \in Seq(Packet) : q \o << >> = q
  OBVIOUS
<1>5. CASE Sent(k)
  <2>1. PICK i \in 1..21 : i = k - 1 /\ Halves + 1 + k = Halves + 2 + i /\ at = (Halves + 2 + i) + 1
    <3>1. k - 1 \in 1..21 /\ Halves + 1 + k = Halves + 2 + (k - 1)
          /\ at = (Halves + 2 + (k - 1)) + 1
      BY <1>1, <1>5, Bounds DEF Sent
    <3> QED
      BY <3>1
  <2> DEFINE p == Demo[i]
  <2>2. /\ i \notin Reads /\ InOrder(handled, Halves + 2 + i)
        /\ \/ fifo = <<p>> /\ mail = << >>
           \/ fifo = << >> /\ mail = <<p>>
    BY Zenon, <1>5, <2>1 DEF Sent
  <2>3. p \in Packet /\ IsCommand(p)
    <3>1. /\ p \in Packet /\ p.op \notin {"INIT", "FIRM", "START", "NOP", "ECHO"}
          /\ p.op = "READ" <=> i \in Reads
      BY Zenon, DemoOps
    <3>2. p.op # "READ"
      BY Zenon, <2>2, <3>1
    <3> HIDE DEF p
    <3> QED
      BY <3>1, <3>2 DEF IsCommand
  <2>4. Script[Halves + 2 + i] = p
    <3>1. at > Halves + 3 /\ session \in Nat /\ only \in BOOLEAN
      BY <2>1, Bounds DEF TypeInv, HostTypes
    <3>2. ~only
      BY Zenon, <3>1 DEF TypeInv, HostTypes
    <3> QED
      BY Zenon, <3>1, <3>2, ScriptTable
  <2> HIDE DEF p
  <2>5. Waiting(<<p>>) = <<p>>
    BY Zenon, <1>2, <2>3 DEF Waiting
  <2>6. handled \in Seq(Packet) /\ handled \o <<p>> = Append(handled, p)
        /\ Append(handled, p) \in Seq(Packet)
    <3>1. handled \in Seq(Packet)
      BY <2>2 DEF InOrder
    <3> QED
      BY <2>3, <3>1
  <2>7. handled \o Waiting(mail) \o Waiting(fifo) = Append(handled, p)
    BY Zenon, <1>3, <1>4, <2>2, <2>5, <2>6
  <2>8. InOrder(Append(handled, p), (Halves + 2 + i) + 1)
    <3>1. Halves + 2 + i \in Nat \ {0}
      BY Bounds
    <3> QED
      BY Zenon, <2>2, <2>3, <2>4, <3>1, OrderAppend
  <2> QED
    BY Zenon, <2>1, <2>7, <2>8
<1>6. CASE Served(k)
  <2>1. InOrder(handled, at)
    BY Zenon, <1>1, <1>6 DEF Served
  <2>2. Waiting(mail) = << >> /\ Waiting(fifo) = << >>
    BY Zenon, <1>3, <1>6 DEF Served
  <2>3. handled \o Waiting(mail) \o Waiting(fifo) = handled
    BY Zenon, <1>4, <2>1, <2>2 DEF InOrder
  <2> QED
    BY Zenon, <2>1, <2>3
<1> QED
  BY <1>1, <1>5, <1>6

(* No command of the script is lost, doubled or overtaken on its way       *)
(* through the slave's one place and the mailbox, whatever polls and       *)
(* returned replies travel between them.                                   *)
THEOREM HandledOnceAlways ==
  ASSUME ~KillAnywhere
  PROVE  Spec => []HandledOnce
<1>1. TypeInv /\ SessionInv => HandledOnce
  <2> SUFFICES ASSUME TypeInv, SessionInv, Started PROVE HandledOnce
    BY DEF HandledOnce
  <2>1. DemoInv
    BY NotYetStarted DEF SessionInv
  <2>2. InOrder(handled \o Waiting(mail) \o Waiting(fifo), at)
    BY <2>1, HandledInOrder
  <2> QED
    BY Zenon, <2>2 DEF InOrder, HandledOnce
<1> QED
  BY <1>1, SessionAlways, PTL

LEMMA Prefix ==
  \A s \in Seq(Nat) : \A l \in 0..Len(s) :
     /\ SubSeq(s, 1, l) \in Seq(Nat) /\ Len(SubSeq(s, 1, l)) = l
     /\ \A n \in 1..l : SubSeq(s, 1, l)[n] = s[n]
<1> TAKE s \in Seq(Nat)
<1> TAKE l \in 0..Len(s)
<1>1. 1 \in Int /\ l \in Int /\ \A n \in 1..l : s[n] \in Nat
  BY ElementOfSeq
<1> DEFINE t == SubSeq(s, 1, l)
<1>2. /\ t \in Seq(Nat) /\ Len(t) = (IF 1 <= l THEN l - 1 + 1 ELSE 0)
      /\ \A n \in 1..l - 1 + 1 : t[n] = s[1 + n - 1]
  BY <1>1, SubSeqProperties
<1> HIDE DEF t
<1> QED
  BY <1>2 DEF t

(* What main prints is what the program computes for what main sent, and   *)
(* the LED shows the colour sent last.  The values themselves, of fib and  *)
(* matrix_mult at the arguments of the script, are the hypothesis          *)
(* ComputesAnswers.                                                        *)
THEOREM ResultsMatchAlways ==
  ASSUME ~KillAnywhere, ComputesAnswers
  PROVE  Spec => []ResultsMatch
<1>1. Computed = Answers
  BY DEF Computed, Answers, ComputesAnswers, Product
<1>2. TypeInv /\ SessionInv => ResultsMatch
  <2> SUFFICES ASSUME TypeInv, SessionInv PROVE ResultsMatch
    OBVIOUS
  <2>1. \A l \in 0..6 : /\ SubSeq(Answers, 1, l) \in Seq(Nat) /\ Len(SubSeq(Answers, 1, l)) = l
                        /\ \A n \in 1..l : SubSeq(Answers, 1, l)[n] = Answers[n]
    <3>1. Answers \in Seq(Nat) /\ Len(Answers) = 6
      BY DEF Answers
    <3>2. \A l \in 0..6 : l \in 0..Len(Answers)
      BY <3>1
    <3> QED
      BY Zenon, <3>1, <3>2, Prefix
  <2>2. PICK S : printed \in Seq(S)
    BY DEF TypeInv, HostTypes, IsSeq
  <2>3. ASSUME Len(printed) \in 0..6, \A n \in 1..Len(printed) : printed[n] = Answers[n]
        PROVE  printed = SubSeq(Answers, 1, Len(printed))
    <3> DEFINE t == SubSeq(Answers, 1, Len(printed))
    <3>1. t \in Seq(Nat) /\ Len(t) = Len(printed) /\ \A n \in 1..Len(printed) : t[n] = Answers[n]
      BY Zenon, <2>1, <2>3
    <3> HIDE DEF t
    <3>2. printed \in Seq(S \cup Nat) /\ t \in Seq(S \cup Nat)
      BY <2>2, <3>1
    <3>3. \A n \in 1..Len(printed) : printed[n] = t[n]
      BY Zenon, <2>3, <3>1
    <3>4. printed = t
      BY Zenon, <3>1, <3>2, <3>3, SeqEqual
    <3> QED
      BY <3>4 DEF t
  <2>4. CASE LoadInv
    <3>1. printed = << >> /\ Len(<< >>) = 0
      BY <2>4 DEF LoadInv
    <3>2. Len(printed) \in 0..6 /\ \A n \in 1..Len(printed) : printed[n] = Answers[n]
      BY <3>1
    <3> QED
      BY Zenon, <2>3, <2>4, <3>2, NotYetStarted DEF ResultsMatch
  <2>5. CASE DemoInv
    <3>1. PICK k \in 1..22 : /\ at = Halves + 2 + k
                             /\ \A n \in 1..Shown(k) : printed[n] = Computed[n]
                             /\ Sent(k) \/ Served(k)
      BY Zenon, <2>5 DEF DemoInv
    <3>2. Len(printed) = Shown(k) /\ Shown(k) \in 0..6
      <4>1. Step = k
        BY <3>1, Bounds DEF Step
      <4>2. Shown(k) \in 0..6
        BY DEF Shown
      <4> QED
        BY Zenon, <4>1, <4>2 DEF TypeInv, HostTypes
    <3>3. printed = SubSeq(Answers, 1, Len(printed))
      BY Zenon, <1>1, <2>3, <3>1, <3>2
    <3>4. ASSUME Rested, at <= Halves + 7, at # Halves + 3
          PROVE  led = Script[at - 1].ch
      <4>1. PICK i \in 1..4 : i = k - 1 /\ at - 1 = Halves + 2 + i /\ k \in 2..5
        <5>1. k - 1 \in 1..4 /\ at - 1 = Halves + 2 + (k - 1) /\ k \in 2..5
          BY <3>1, <3>4, Bounds
        <5> QED
          BY <5>1
      <4>2. ~Sent(k)
        <5>1. \A v : <<v>> # << >>
          OBVIOUS
        <5> QED
          BY Zenon, <3>4, <5>1 DEF Sent, Rested, Settled
      <4>3. led = Demo[i].ch
        BY Zenon, <3>1, <4>1, <4>2 DEF Served
      <4>4. Script[Halves + 2 + i] = Demo[i]
        <5>1. at > Halves + 3 /\ session \in Nat /\ only \in BOOLEAN /\ i \in 1..21
          BY <3>1, <3>4, Bounds DEF TypeInv, HostTypes
        <5>2. ~only
          BY Zenon, <5>1 DEF TypeInv, HostTypes
        <5> QED
          BY Zenon, <5>1, <5>2, ScriptTable
      <4> QED
        BY Zenon, <4>1, <4>3, <4>4
    <3> QED
      BY Zenon, <3>3, <3>4 DEF ResultsMatch
  <2> QED
    BY <2>4, <2>5 DEF SessionInv
<1> QED
  BY <1>2, SessionAlways, PTL

=============================================================================
