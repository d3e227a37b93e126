-------------------------- MODULE FlashRead_proofs --------------------------
(***************************************************************************)
(* Theorems about FlashRead, for every value of its constants.             *)
(***************************************************************************)
EXTENDS FlashRead, SequenceTheorems, TLAPS

(* Bits and shift registers.                                               *)
LEMMA BitsType ==
  ASSUME NEW v \in Nat, NEW n \in Nat
  PROVE  Bits(v, n) \in [1..n -> Bit]
  BY DEF Bits, Bit

LEMMA FunctionIsSeq ==
  ASSUME NEW S, NEW n \in Nat, NEW s \in [1..n -> S]
  PROVE  s \in Seq(S) /\ Len(s) = n
<1>1. s \in Seq(S)
  OBVIOUS
<1>2. QED
  BY <1>1, LenProperties

LEMMA RotatedElements ==
  ASSUME NEW S, NEW n \in Nat \ {0}, NEW s \in [1..n -> S], NEW r, r = Rotated(s)
  PROVE  r \in [1..n -> S] /\ \A k \in 1..n : r[k] = IF k < n THEN s[k + 1] ELSE s[1]
<1>1. s \in Seq(S) /\ Len(s) = n
  BY FunctionIsSeq
<1>2. s # << >>
  BY <1>1, EmptySeq
<1>3. /\ Tail(s) \in Seq(S) /\ Len(Tail(s)) = n - 1
      /\ \A i \in 1..n - 1 : Tail(s)[i] = s[i + 1]
  BY <1>1, <1>2, HeadTailProperties
<1>4. Head(s) = s[1] /\ s[1] \in S
  BY <1>1, <1>2
<1>5. <<Head(s)>> \in Seq(S) /\ Len(<<Head(s)>>) = 1 /\ <<Head(s)>>[1] = s[1]
  BY <1>4
<1> DEFINE t == Tail(s)
           h == <<Head(s)>>
<1> HIDE DEF t, h
<1>6. /\ t \o h \in Seq(S)
      /\ Len(t \o h) = Len(t) + Len(h)
      /\ \A i \in 1..Len(t) + Len(h) : (t \o h)[i] = IF i <= Len(t) THEN t[i] ELSE h[i - Len(t)]
<2>1. t \in Seq(S) /\ h \in Seq(S)
  BY <1>3, <1>5 DEF t, h
<2>2. QED
  BY <2>1, ConcatProperties
<1>7. Rotated(s) = t \o h
  BY DEF Rotated, t, h
<1>8. Len(t) = n - 1 /\ Len(h) = 1 /\ h[1] = s[1] /\ (\A i \in 1..n - 1 : t[i] = s[i + 1])
  BY <1>3, <1>5 DEF t, h
<1>9. \A i \in 1..n : (t \o h)[i] = IF i < n THEN s[i + 1] ELSE s[1]
<2>1. TAKE i \in 1..n
<2>2. CASE i < n
  BY <1>6, <1>8, <2>2
<2>3. CASE i = n
  BY <1>6, <1>8, <2>3
<2>4. i < n \/ i = n
  OBVIOUS
<2>5. QED
  BY <2>2, <2>3, <2>4, Zenon
<1>10. t \o h \in [1..n -> S]
<2>1. Len(t \o h) = n
  BY <1>6, <1>8
<2>2. t \o h \in [1..Len(t \o h) -> S]
  BY <1>6, LenProperties
<2>3. QED
  BY <2>1, <2>2, Zenon
<1>11. QED
  BY <1>7, <1>9, <1>10

(* What the flash must take: the READ command and the address 0x100000.    *)
Command == ReadCmd \o Address

LEMMA StoredType ==
  ASSUME NEW n \in 1..32, bytes \in [1..4 -> 0..255]
  PROVE  Stored(n) \in Bit
<1>1. (n - 1) \div 8 + 1 \in 1..4 /\ ((n - 1) % 8) + 1 \in 1..8
  BY Z3
<1>2. bytes[(n - 1) \div 8 + 1] \in Nat
  BY <1>1
<1>3. Bits(bytes[(n - 1) \div 8 + 1], 8) \in [1..8 -> Bit]
  BY <1>2, BitsType
<1>4. QED
  BY <1>1, <1>3 DEF Stored

LEMMA CommandElements ==
  /\ ReadCmd \in [1..8 -> Bit] /\ Address \in [1..24 -> Bit]
  /\ Command \in Seq(Bit) /\ Len(Command) = 32
  /\ \A i \in 1..32 : Command[i] = IF i <= 8 THEN ReadCmd[i] ELSE Address[i - 8]
<1>1. ReadCmd \in [1..8 -> Bit] /\ Address \in [1..24 -> Bit]
<2>1. \A v \in Nat : Bits(v, 8) \in [1..8 -> Bit] /\ Bits(v, 24) \in [1..24 -> Bit]
  BY BitsType
<2>2. ReadCmd \in [1..8 -> Bit]
  BY <2>1, SMT DEF ReadCmd
<2>3. Address \in [1..24 -> Bit]
  BY <2>1, SMT DEF Address
<2>4. QED
  BY <2>2, <2>3
<1>2. /\ ReadCmd \in Seq(Bit) /\ Len(ReadCmd) = 8
      /\ Address \in Seq(Bit) /\ Len(Address) = 24
<2>1. ReadCmd \in Seq(Bit) /\ Len(ReadCmd) = 8
<3>1. PICK n \in Nat : n = 8
  OBVIOUS
<3>2. PICK s \in [1..n -> Bit] : s = ReadCmd
  BY <1>1, <3>1
<3>3. s \in Seq(Bit) /\ Len(s) = n
  BY FunctionIsSeq
<3>4. QED
  BY <3>1, <3>2, <3>3, Zenon
<2>2. Address \in Seq(Bit) /\ Len(Address) = 24
<3>1. PICK n \in Nat : n = 24
  OBVIOUS
<3>2. PICK s \in [1..n -> Bit] : s = Address
  BY <1>1, <3>1
<3>3. s \in Seq(Bit) /\ Len(s) = n
  BY FunctionIsSeq
<3>4. QED
  BY <3>1, <3>2, <3>3, Zenon
<2>3. QED
  BY <2>1, <2>2
<1> DEFINE r == ReadCmd
           a == Address
<1> HIDE DEF r, a
<1>3. /\ r \o a \in Seq(Bit)
      /\ Len(r \o a) = Len(r) + Len(a)
      /\ \A i \in 1..Len(r) + Len(a) : (r \o a)[i] = IF i <= Len(r) THEN r[i] ELSE a[i - Len(r)]
<2>1. r \in Seq(Bit) /\ a \in Seq(Bit)
  BY <1>2 DEF r, a
<2>2. QED
  BY <2>1, ConcatProperties
<1>4. Len(r) = 8 /\ Len(a) = 24
  BY <1>2 DEF r, a
<1>5. /\ r \o a \in Seq(Bit) /\ Len(r \o a) = 32
      /\ \A i \in 1..32 : (r \o a)[i] = IF i <= 8 THEN r[i] ELSE a[i - 8]
<2>1. Len(r) + Len(a) = 32
  BY <1>4
<2>2. \A i \in 1..32 : (r \o a)[i] = IF i <= 8 THEN r[i] ELSE a[i - 8]
<3>1. TAKE i \in 1..32
<3>2. (r \o a)[i] = IF i <= Len(r) THEN r[i] ELSE a[i - Len(r)]
  BY <1>3, <2>1, Zenon
<3>3. QED
  BY <1>4, <3>2, Zenon
<2>3. QED
  BY <1>3, <2>1, <2>2, Zenon
<1>6. QED
  BY <1>1, <1>5 DEF Command, r, a

LEMMA ShownElements ==
  ASSUME NEW S, NEW s \in [1..32 -> S]
  PROVE  /\ SubSeq(s, 22, 24) \in [1..3 -> S]
         /\ \A i \in 1..3 : SubSeq(s, 22, 24)[i] = s[21 + i]
<1>1. \A i \in 22..24 : s[i] \in S
  OBVIOUS
<1> DEFINE u == SubSeq(s, 22, 24)
<1> HIDE DEF u
<1>2. /\ u \in Seq(S) /\ Len(u) = 3
      /\ \A i \in 1..3 : u[i] = s[22 + i - 1]
<2>1. /\ SubSeq(s, 22, 24) \in Seq(S)
      /\ Len(SubSeq(s, 22, 24)) = IF 22 <= 24 THEN 24 - 22 + 1 ELSE 0
      /\ \A i \in 1..24 - 22 + 1 : SubSeq(s, 22, 24)[i] = s[22 + i - 1]
  BY <1>1, SubSeqProperties
<2>2. /\ u \in Seq(S)
      /\ Len(u) = IF 22 <= 24 THEN 24 - 22 + 1 ELSE 0
      /\ \A i \in 1..24 - 22 + 1 : u[i] = s[22 + i - 1]
  BY <2>1, Zenon DEF u
<2>3. QED
  BY <2>2
<1>3. u \in [1..3 -> S]
  BY <1>2, LenProperties, Zenon
<1>4. \A i \in 1..3 : u[i] = s[21 + i]
<2>1. TAKE i \in 1..3
<2>2. 22 + i - 1 = 21 + i
  OBVIOUS
<2>3. QED
  BY <1>2, <2>2, Zenon
<1>5. QED
  BY <1>3, <1>4 DEF u

-----------------------------------------------------------------------------
(* Edges of a bit are counted only while one is sent.                      *)
CountsInv ==
  /\ state = "SEND_READ_CMD" => counter_send < 8
  /\ state = "SEND_READ_ADDR" => counter_send < 24
  /\ state \in {"WAIT_READ_ADDR", "WAIT_READ_ACK"} => counter_clk = 0 /\ counter_send = 0
  /\ top_state = "INIT" => counter <= StartWait

(* top.v asks once, waits, and takes what it asked for once.               *)
HandshakeInv ==
  /\ rd_data_available <=> state = "WAIT_READ_ACK"
  /\ top_state \in {"INIT", "SEND_ADDR_SPI"} =>
       state = "WAIT_READ_ADDR" /\ ~spi_addr_en /\ ~spi_rd_ack
  /\ top_state = "WAIT_READ_DATA" =>
       ~spi_rd_ack /\ (spi_addr_en <=> state = "WAIT_READ_ADDR")
  /\ top_state = "DISPLAY_LED" =>
       ~spi_addr_en /\ state = IF spi_rd_ack THEN "WAIT_READ_ACK" ELSE "WAIT_READ_ADDR"

TypeInv == TypeOK /\ CountsInv

LEMMA InitTypeInv == Init => TypeInv
<1>1. Init => /\ read_cmd \in [1..8 -> Bit] /\ read_addr_reg \in [1..24 -> Bit]
              /\ rd_data \in [1..32 -> Unknown] /\ led \in [1..3 -> Unknown]
  BY CommandElements DEF Init, Zeros, Bit, Unknown
<1>2. Init => taken \in Seq(Bit) /\ Len(taken) <= 32
  BY EmptySeq DEF Init
<1>3. SUFFICES ASSUME Init PROVE TypeInv
  OBVIOUS
<1>4. CountsInv
  BY <1>3, FlashAssumption DEF Init, CountsInv
<1>5. /\ counter \in 0..StartWait + 1 /\ given \in 0..32 /\ settling \in 0..MaxDelay
      /\ counter_clk \in 0..7 /\ counter_send \in 0..31
<2>1. counter = 0 /\ given = 0 /\ settling = 0 /\ counter_clk = 0 /\ counter_send = 0
  BY <1>3, Zenon DEF Init
<2>2. StartWait \in Nat /\ MaxDelay \in Nat
  BY FlashAssumption
<2>3. QED
  BY <2>1, <2>2
<1>6. /\ {SPI_SCK, SPI_MOSI, spi_ss_reg, SPI_SS} \subseteq Bit /\ SPI_MISO \in Unknown
      /\ {addr_buffer_free, rd_data_available, spi_addr_en, spi_rd_ack} \subseteq BOOLEAN
  BY <1>3 DEF Init, Bit, Unknown
<1>7. /\ state = "WAIT_READ_ADDR" /\ top_state = "INIT" /\ bytes \in Contents
  BY <1>3 DEF Init
<1>8. TypeOK
  BY <1>1, <1>2, <1>3, <1>5, <1>6, <1>7 DEF TypeOK
<1>9. QED
  BY <1>4, <1>8 DEF TypeInv

LEMMA TurnedType ==
  ASSUME NEW S, NEW n \in Nat \ {0}, NEW r \in [1..n -> S]
  PROVE  Head(r) = r[1] /\ Head(r) \in S /\ Turned(r) \in [1..n -> S]
<1>1. Head(r) = r[1]
  OBVIOUS
<1>2. Rotated(r) \in [1..n -> S]
  BY RotatedElements
<1>3. QED
  BY <1>1, <1>2 DEF Turned

(* The sending side.                                                       *)
LEMMA MasterTypeStep ==
  ASSUME TypeInv, Master
  PROVE  /\ state' \in {"WAIT_READ_ADDR", "SEND_READ_CMD", "SEND_READ_ADDR", "READ_FLASH",
                        "WAIT_READ_ACK"}
         /\ counter_clk' \in 0..7 /\ counter_send' \in 0..31
         /\ read_cmd' \in [1..8 -> Bit] /\ read_addr_reg' \in [1..24 -> Bit]
         /\ rd_data' \in [1..32 -> Unknown]
         /\ addr_buffer_free' \in BOOLEAN /\ rd_data_available' \in BOOLEAN
         /\ SPI_SCK' \in Bit /\ SPI_MOSI' \in Bit /\ spi_ss_reg' \in Bit
         /\ state' = "SEND_READ_CMD" => counter_send' < 8
         /\ state' = "SEND_READ_ADDR" => counter_send' < 24
         /\ state' \in {"WAIT_READ_ADDR", "WAIT_READ_ACK"} => counter_clk' = 0 /\ counter_send' = 0
<1> DEFINE Numbers ==
             /\ state' \in {"WAIT_READ_ADDR", "SEND_READ_CMD", "SEND_READ_ADDR", "READ_FLASH",
                            "WAIT_READ_ACK"}
             /\ counter_clk' \in 0..7 /\ counter_send' \in 0..31
             /\ SPI_SCK' \in Bit
             /\ state' = "SEND_READ_CMD" => counter_send' < 8
             /\ state' = "SEND_READ_ADDR" => counter_send' < 24
             /\ state' \in {"WAIT_READ_ADDR", "WAIT_READ_ACK"} =>
                  counter_clk' = 0 /\ counter_send' = 0
           Registers ==
             /\ read_cmd' \in [1..8 -> Bit] /\ read_addr_reg' \in [1..24 -> Bit]
             /\ rd_data' \in [1..32 -> Unknown]
             /\ SPI_MOSI' \in Bit
           Flags ==
             addr_buffer_free' \in BOOLEAN /\ rd_data_available' \in BOOLEAN /\ spi_ss_reg' \in Bit
<1>1. /\ counter_clk \in 0..7 /\ counter_send \in 0..31 /\ SPI_SCK \in Bit /\ SPI_MOSI \in Bit
      /\ read_cmd \in [1..8 -> Bit] /\ read_addr_reg \in [1..24 -> Bit]
      /\ rd_data \in [1..32 -> Unknown] /\ SPI_MISO \in Unknown
      /\ addr_buffer_free \in BOOLEAN /\ rd_data_available \in BOOLEAN
  BY DEF TypeInv, TypeOK
<1>2. /\ state = "SEND_READ_CMD" => counter_send < 8
      /\ state = "SEND_READ_ADDR" => counter_send < 24
      /\ state \in {"WAIT_READ_ADDR", "WAIT_READ_ACK"} => counter_clk = 0 /\ counter_send = 0
  BY DEF TypeInv, CountsInv
<1>3. CASE WaitReadAddr
<2>1. Numbers
  BY <1>1, <1>2, <1>3 DEF WaitReadAddr
<2>2. Registers
  BY <1>1, <1>3, CommandElements DEF WaitReadAddr
<2>3. Flags
  BY <1>1, <1>3 DEF WaitReadAddr, Bit
<2>4. QED
  BY <2>1, <2>2, <2>3
<1>4. CASE SendReadCmd
<2>1. Numbers
  BY <1>1, <1>2, <1>4 DEF SendReadCmd, Clocked, LastBit, Bit
<2>2. Registers
<3>1. Head(read_cmd) \in Bit /\ Turned(read_cmd) \in [1..8 -> Bit]
<4>1. 8 \in Nat \ {0}
  OBVIOUS
<4>2. QED
  BY <1>1, <4>1, TurnedType, Zenon
<3>2. QED
  BY <1>1, <1>4, <3>1 DEF SendReadCmd, Sends
<2>3. Flags
  BY <1>1, <1>4 DEF SendReadCmd, Bit
<2>4. QED
  BY <2>1, <2>2, <2>3
<1>5. CASE SendReadAddr
<2>1. Numbers
  BY <1>1, <1>2, <1>5 DEF SendReadAddr, Clocked, LastBit, Bit
<2>2. Registers
<3>1. Head(read_addr_reg) \in Bit /\ Turned(read_addr_reg) \in [1..24 -> Bit]
<4>1. 24 \in Nat \ {0}
  OBVIOUS
<4>2. QED
  BY <1>1, <4>1, TurnedType, Zenon
<3>2. QED
  BY <1>1, <1>5, <3>1 DEF SendReadAddr, Sends
<2>3. Flags
  BY <1>1, <1>5 DEF SendReadAddr, Bit
<2>4. QED
  BY <2>1, <2>2, <2>3
<1>6. CASE ReadFlash
<2>1. Numbers
  BY <1>1, <1>2, <1>6 DEF ReadFlash, Clocked, LastBit, Bit
<2>2. Registers
<3>1. Turned(rd_data) \in [1..32 -> Unknown]
<4>1. 32 \in Nat \ {0}
  OBVIOUS
<4>2. QED
  BY <1>1, <4>1, TurnedType, Zenon
<3>2. QED
  BY <1>1, <1>6, <3>1 DEF ReadFlash, Bit
<2>3. Flags
  BY <1>1, <1>6 DEF ReadFlash, Bit
<2>4. QED
  BY <2>1, <2>2, <2>3
<1>7. CASE WaitReadAck
<2>1. Numbers
  BY <1>1, <1>2, <1>7 DEF WaitReadAck
<2>2. Registers
  BY <1>1, <1>7 DEF WaitReadAck
<2>3. Flags
  BY <1>1, <1>7 DEF WaitReadAck, Bit
<2>4. QED
  BY <2>1, <2>2, <2>3
<1>8. QED
  BY <1>3, <1>4, <1>5, <1>6, <1>7 DEF Master

(* The application and the flash chip.                                     *)
LEMMA TopTypeStep ==
  ASSUME TypeInv, Top
  PROVE  /\ spi_addr_en' \in BOOLEAN /\ spi_rd_ack' \in BOOLEAN
         /\ top_state' \in {"INIT", "SEND_ADDR_SPI", "WAIT_READ_DATA", "DISPLAY_LED"}
         /\ counter' \in 0..StartWait + 1 /\ led' \in [1..3 -> Unknown]
         /\ top_state' = "INIT" => counter' <= StartWait
<1>1. /\ counter \in 0..StartWait + 1 /\ led \in [1..3 -> Unknown]
      /\ rd_data \in [1..32 -> Unknown] /\ rd_data_available \in BOOLEAN
      /\ top_state = "INIT" => counter <= StartWait
  BY DEF TypeInv, TypeOK, CountsInv
<1>2. SubSeq(rd_data, 22, 24) \in [1..3 -> Unknown]
  BY <1>1, ShownElements
<1>3. CASE TopInit
<2>1. counter' = counter + 1 /\ counter <= StartWait /\ counter \in Nat
  BY <1>1, <1>3, FlashAssumption DEF TopInit
<2>2. /\ counter' \in 0..StartWait + 1
      /\ counter # StartWait => counter' <= StartWait
  BY <2>1, FlashAssumption
<2>3. /\ led' = led /\ spi_addr_en' = FALSE /\ spi_rd_ack' = FALSE
      /\ top_state' = IF counter = StartWait THEN "SEND_ADDR_SPI" ELSE "INIT"
  BY <1>3, Zenon DEF TopInit
<2>4. top_state' = "INIT" => counter # StartWait
  BY <2>3
<2>5. QED
  BY <1>1, <2>2, <2>3, <2>4
<1>4. CASE SendAddrSpi
  BY <1>1, <1>4 DEF SendAddrSpi
<1>5. CASE WaitReadData
  BY <1>1, <1>2, <1>5 DEF WaitReadData
<1>6. CASE DisplayLed
  BY <1>1, <1>6 DEF DisplayLed
<1>7. QED
  BY <1>3, <1>4, <1>5, <1>6 DEF Top

LEMMA FlashTypeStep ==
  ASSUME TypeInv, FlashTick
  PROVE  /\ SPI_MISO' \in Unknown
         /\ bytes' \in Contents /\ taken' \in Seq(Bit) /\ Len(taken') <= 32
         /\ given' \in 0..32 /\ settling' \in 0..MaxDelay
<1>1. /\ bytes \in Contents /\ taken \in Seq(Bit) /\ Len(taken) <= 32 /\ Len(taken) \in Nat
      /\ given \in 0..32 /\ settling \in 0..MaxDelay /\ SPI_MOSI \in Bit
  BY LenProperties DEF TypeInv, TypeOK
<1>2. given' \in 0..32
  BY <1>1 DEF FlashTick
<1>3. settling' \in 0..MaxDelay
  BY <1>1, FlashAssumption DEF FlashTick
<1>4. taken' \in Seq(Bit) /\ Len(taken') <= 32
<2>1. /\ Append(taken, SPI_MOSI) \in Seq(Bit)
      /\ Len(Append(taken, SPI_MOSI)) = Len(taken) + 1
  BY <1>1, AppendProperties
<2>2. QED
  BY <1>1, <2>1 DEF FlashTick
<1>5. SPI_MISO' \in Unknown
<2>1. CASE SPI_SS = 0 /\ Driven
<3>1. given' \in 1..32
  BY <2>1 DEF Driven
<3>2. bytes \in [1..4 -> 0..255]
  BY <1>1, FlashAssumption
<3>3. \A n \in 1..32 : Stored(n) \in Bit
  BY <3>2, StoredType
<3>4. SPI_MISO' = Stored(given')
  BY <2>1 DEF FlashTick
<3>5. QED
  BY <3>1, <3>3, <3>4 DEF Unknown
<2>2. CASE ~(SPI_SS = 0 /\ Driven)
  BY <2>2 DEF FlashTick, Unknown
<2>3. QED
  BY <2>1, <2>2
<1>6. QED
  BY <1>1, <1>2, <1>3, <1>4, <1>5 DEF FlashTick

LEMMA TypeInvStep == TypeInv /\ [Next]_vars => TypeInv'
<1>1. SUFFICES ASSUME TypeInv, [Next]_vars PROVE TypeInv'
  OBVIOUS
<1>2. CASE Next
<2>1. Master /\ Top /\ FlashTick /\ SPI_SS' = SPI_SS
  BY <1>2 DEF Next, Tick
<2>2. SPI_SS' \in Bit
  BY <1>1, <2>1 DEF TypeInv, TypeOK
<2>3. TypeOK'
  BY <1>1, <2>1, <2>2, MasterTypeStep, TopTypeStep, FlashTypeStep DEF TypeOK
<2>4. CountsInv'
  BY <1>1, <2>1, MasterTypeStep, TopTypeStep DEF CountsInv
<2>5. QED
  BY <2>3, <2>4 DEF TypeInv
<1>3. CASE UNCHANGED vars
  BY <1>1, <1>3 DEF TypeInv, TypeOK, CountsInv, vars, sendVars, topVars, flashVars
<1>4. QED
  BY <1>1, <1>2, <1>3

(* Every register of spi_master.v and top.v keeps to its range, however    *)
(* long top.v waits and whatever the flash answers, and when.              *)
THEOREM TypeCorrect == Spec => []TypeOK
<1>1. TypeInv => TypeOK
  BY DEF TypeInv
<1>2. QED
  BY <1>1, InitTypeInv, TypeInvStep, PTL DEF Spec

-----------------------------------------------------------------------------
(* The sequence of states of spi_master.v and top.v.                       *)

LEMMA MasterStates ==
  ASSUME TypeInv, Master
  PROVE  /\ state = "WAIT_READ_ADDR" =>
              /\ state' = IF spi_addr_en THEN "SEND_READ_CMD" ELSE "WAIT_READ_ADDR"
              /\ rd_data_available' = rd_data_available
         /\ state \in {"SEND_READ_CMD", "SEND_READ_ADDR"} =>
              /\ state' \in {"SEND_READ_CMD", "SEND_READ_ADDR", "READ_FLASH"}
              /\ rd_data_available' = rd_data_available
         /\ state = "READ_FLASH" =>
              /\ state' \in {"READ_FLASH", "WAIT_READ_ACK"}
              /\ rd_data_available' <=> state' = "WAIT_READ_ACK"
         /\ state = "WAIT_READ_ACK" /\ spi_rd_ack =>
              state' = "WAIT_READ_ADDR" /\ ~rd_data_available'
         /\ state = "WAIT_READ_ACK" /\ ~spi_rd_ack =>
              state' = "WAIT_READ_ACK" /\ rd_data_available' = rd_data_available
<1>1. CASE WaitReadAddr
  BY <1>1 DEF WaitReadAddr
<1>2. CASE SendReadCmd
  BY <1>2 DEF SendReadCmd, Clocked
<1>3. CASE SendReadAddr
  BY <1>3 DEF SendReadAddr, Clocked
<1>4. CASE ReadFlash
  BY <1>4 DEF ReadFlash, Clocked
<1>5. CASE WaitReadAck
  BY <1>5 DEF WaitReadAck
<1>6. QED
  BY <1>1, <1>2, <1>3, <1>4, <1>5 DEF Master

LEMMA HandshakeStep ==
  ASSUME TypeInv, HandshakeInv, Next
  PROVE  HandshakeInv'
<1>1. Master /\ Top
  BY DEF Next, Tick
<1>2. CASE TopInit
  BY <1>1, <1>2, MasterStates DEF TopInit, HandshakeInv
<1>3. CASE SendAddrSpi
  BY <1>1, <1>3, MasterStates DEF SendAddrSpi, HandshakeInv
<1>4. CASE WaitReadData
<2>1. CASE rd_data_available
  BY <1>1, <1>4, <2>1, MasterStates DEF WaitReadData, HandshakeInv
<2>2. CASE ~rd_data_available
<3>1. /\ top_state = "WAIT_READ_DATA" /\ top_state' = top_state
      /\ ~spi_addr_en' /\ ~spi_rd_ack'
  BY <1>4, <2>2 DEF WaitReadData
<3>2. /\ state # "WAIT_READ_ACK" /\ state' # "WAIT_READ_ADDR"
      /\ rd_data_available' <=> state' = "WAIT_READ_ACK"
<4>1. state \in {"SEND_READ_CMD", "SEND_READ_ADDR", "READ_FLASH", "WAIT_READ_ADDR",
                "WAIT_READ_ACK"}
  BY DEF TypeInv, TypeOK
<4>2. /\ state # "WAIT_READ_ACK" /\ (state = "WAIT_READ_ADDR" => spi_addr_en)
      /\ rd_data_available <=> FALSE
  BY <2>2, <3>1 DEF HandshakeInv
<4>3. CASE state = "WAIT_READ_ADDR"
  BY <1>1, <4>2, <4>3, MasterStates
<4>4. CASE state \in {"SEND_READ_CMD", "SEND_READ_ADDR"}
  BY <1>1, <4>2, <4>4, MasterStates
<4>5. CASE state = "READ_FLASH"
  BY <1>1, <4>5, MasterStates
<4>6. QED
  BY <4>1, <4>2, <4>3, <4>4, <4>5
<3>3. QED
  BY <3>1, <3>2 DEF HandshakeInv
<2>3. QED
  BY <2>1, <2>2
<1>5. CASE DisplayLed
  BY <1>1, <1>5, MasterStates DEF DisplayLed, HandshakeInv
<1>6. QED
  BY <1>1, <1>2, <1>3, <1>4, <1>5 DEF Top

-----------------------------------------------------------------------------
(* A register of n bits that was turned k times.                           *)
TurnedBy(s, t, n, k) ==
  \A i \in 1..n : t[i] = IF i + k <= n THEN s[i + k] ELSE s[i + k - n]

RegistersInv ==
  /\ state = "SEND_READ_CMD" => TurnedBy(ReadCmd, read_cmd, 8, counter_send)
  /\ state # "SEND_READ_CMD" => read_cmd = ReadCmd
  /\ state = "SEND_READ_CMD" => read_addr_reg = Address
  /\ state = "SEND_READ_ADDR" => TurnedBy(Address, read_addr_reg, 24, counter_send)

LEMMA TurnOnce ==
  ASSUME NEW S, NEW n \in Nat \ {0}, NEW s \in [1..n -> S], NEW t \in [1..n -> S],
         NEW k \in 0..n - 1, TurnedBy(s, t, n, k)
  PROVE  TurnedBy(s, Rotated(t), n, k + 1)
<1>0. PICK u : u = Rotated(t)
  OBVIOUS
<1>1. u \in [1..n -> S] /\ \A i \in 1..n : u[i] = IF i < n THEN t[i + 1] ELSE t[1]
  BY <1>0, RotatedElements
<1>2. \A i \in 1..n : t[i] = IF i + k <= n THEN s[i + k] ELSE s[i + k - n]
  BY DEF TurnedBy
<1>3. \A i \in 1..n : u[i] = IF i + (k + 1) <= n THEN s[i + (k + 1)] ELSE s[i + (k + 1) - n]
<2>1. TAKE i \in 1..n
<2>2. CASE i < n
<3>1. u[i] = t[i + 1] /\ i + 1 \in 1..n
  BY <1>1, <2>2
<3>2. t[i + 1] = IF (i + 1) + k <= n THEN s[(i + 1) + k] ELSE s[(i + 1) + k - n]
  BY <1>2, <3>1
<3>3. u[i] = IF (i + 1) + k <= n THEN s[(i + 1) + k] ELSE s[(i + 1) + k - n]
  BY <3>1, <3>2, Zenon
<3>4. QED
  BY <3>3
<2>3. CASE i = n
<3>1. u[i] = t[1] /\ 1 \in 1..n
  BY <1>1, <2>3
<3>2. t[1] = IF 1 + k <= n THEN s[1 + k] ELSE s[1 + k - n]
  BY <1>2, <3>1
<3>3. 1 + k <= n /\ ~(i + (k + 1) <= n) /\ i + (k + 1) - n = 1 + k
  BY <2>3
<3>4. QED
  BY <3>1, <3>2, <3>3, Zenon
<2>4. i < n \/ i = n
  OBVIOUS
<2>5. QED
  BY <2>2, <2>3, <2>4, Zenon
<1>4. QED
  BY <1>0, <1>3 DEF TurnedBy

LEMMA TurnedRound ==
  ASSUME NEW S, NEW n \in Nat \ {0}, NEW s \in [1..n -> S], NEW t \in [1..n -> S],
         TurnedBy(s, t, n, n)
  PROVE  t = s
<1>1. \A i \in 1..n : t[i] = s[i]
<2>1. TAKE i \in 1..n
<2>2. ~(i + n <= n) /\ i + n - n = i
  OBVIOUS
<2>3. t[i] = IF i + n <= n THEN s[i + n] ELSE s[i + n - n]
  BY Zenon DEF TurnedBy
<2>4. QED
  BY <2>2, <2>3, Zenon
<1>2. QED
  BY <1>1

LEMMA NotTurned ==
  ASSUME NEW S, NEW n \in Nat \ {0}, NEW s \in [1..n -> S]
  PROVE  TurnedBy(s, s, n, 0)
<1>1. \A i \in 1..n : i + 0 = i /\ i + 0 <= n
  OBVIOUS
<1>2. QED
  BY <1>1, Zenon DEF TurnedBy

LEMMA RegistersStep ==
  ASSUME TypeInv, RegistersInv, Next
  PROVE  RegistersInv'
<1>1. /\ read_cmd \in [1..8 -> Bit] /\ read_addr_reg \in [1..24 -> Bit]
      /\ counter_clk \in 0..7 /\ counter_send \in 0..31
      /\ state = "SEND_READ_CMD" => counter_send < 8
      /\ state = "SEND_READ_ADDR" => counter_send < 24
      /\ state \in {"WAIT_READ_ADDR", "WAIT_READ_ACK"} => counter_clk = 0 /\ counter_send = 0
  BY DEF TypeInv, TypeOK, CountsInv
<1>2. Master
  BY DEF Next, Tick
<1>3. CASE WaitReadAddr
<2>1. read_cmd = ReadCmd /\ read_cmd' = ReadCmd /\ counter_send' = 0
  BY <1>1, <1>3 DEF WaitReadAddr, RegistersInv
<2>2. TurnedBy(ReadCmd, ReadCmd, 8, 0)
<3>1. 8 \in Nat \ {0}
  OBVIOUS
<3>2. QED
  BY <3>1, CommandElements, NotTurned, Zenon
<2>3. \/ state' = "WAIT_READ_ADDR"
      \/ state' = "SEND_READ_CMD" /\ read_addr_reg' = Address
  BY <1>3 DEF WaitReadAddr
<2>4. QED
  BY <2>1, <2>2, <2>3 DEF RegistersInv
<1>4. CASE SendReadCmd
<2>1. /\ state = "SEND_READ_CMD" /\ TurnedBy(ReadCmd, read_cmd, 8, counter_send)
      /\ read_addr_reg = Address /\ read_addr_reg' = Address
  BY <1>4 DEF SendReadCmd, RegistersInv
<2>2. CASE counter_clk # 7
<3>1. read_cmd' = read_cmd /\ state' = state /\ counter_send' = counter_send
  BY <1>4, <2>2 DEF SendReadCmd, Clocked, Turned
<3>2. QED
  BY <2>1, <3>1 DEF RegistersInv
<2>3. CASE counter_clk = 7
<3>1. /\ read_cmd' = Rotated(read_cmd)
      /\ counter_send # 7 => state' = state /\ counter_send' = counter_send + 1
      /\ counter_send = 7 => state' = "SEND_READ_ADDR" /\ counter_send' = 0
  BY <1>1, <1>4, <2>3 DEF SendReadCmd, Clocked, Turned, LastBit
<3>2. TurnedBy(ReadCmd, Rotated(read_cmd), 8, counter_send + 1)
<4>1. 8 \in Nat \ {0} /\ counter_send \in 0..8 - 1
  BY <1>1, <2>1
<4>2. QED
  BY <1>1, <2>1, <4>1, CommandElements, TurnOnce, Zenon
<3>3. CASE counter_send # 7
  BY <2>1, <3>1, <3>2, <3>3 DEF RegistersInv
<3>4. CASE counter_send = 7
<4>1. read_cmd' = ReadCmd
<5>1. TurnedBy(ReadCmd, Rotated(read_cmd), 8, 8)
<6>1. counter_send + 1 = 8
  BY <3>4
<6>2. QED
  BY <3>2, <6>1, Zenon
<5>2. 8 \in Nat \ {0}
  OBVIOUS
<5>3. Rotated(read_cmd) \in [1..8 -> Bit]
  BY <1>1, <5>2, RotatedElements, Zenon
<5>4. QED
  BY <3>1, <5>1, <5>2, <5>3, CommandElements, TurnedRound, Zenon
<4>2. TurnedBy(Address, Address, 24, 0)
<5>1. 24 \in Nat \ {0}
  OBVIOUS
<5>2. QED
  BY <5>1, CommandElements, NotTurned, Zenon
<4>3. QED
  BY <2>1, <3>1, <3>4, <4>1, <4>2 DEF RegistersInv
<3>5. QED
  BY <3>3, <3>4
<2>4. QED
  BY <2>2, <2>3
<1>5. CASE SendReadAddr
<2>1. /\ state = "SEND_READ_ADDR" /\ TurnedBy(Address, read_addr_reg, 24, counter_send)
      /\ read_cmd = ReadCmd /\ read_cmd' = ReadCmd
  BY <1>5 DEF SendReadAddr, RegistersInv
<2>2. CASE counter_clk # 7
<3>1. read_addr_reg' = read_addr_reg /\ state' = state /\ counter_send' = counter_send
  BY <1>5, <2>2 DEF SendReadAddr, Clocked, Turned
<3>2. QED
  BY <2>1, <3>1 DEF RegistersInv
<2>3. CASE counter_clk = 7
<3>1. /\ read_addr_reg' = Rotated(read_addr_reg)
      /\ counter_send # 23 => state' = state /\ counter_send' = counter_send + 1
      /\ counter_send = 23 => state' = "READ_FLASH"
  BY <1>1, <1>5, <2>3 DEF SendReadAddr, Clocked, Turned, LastBit
<3>2. TurnedBy(Address, Rotated(read_addr_reg), 24, counter_send + 1)
<4>1. 24 \in Nat \ {0} /\ counter_send \in 0..24 - 1
  BY <1>1, <2>1
<4>2. QED
  BY <1>1, <2>1, <4>1, CommandElements, TurnOnce, Zenon
<3>3. QED
  BY <2>1, <3>1, <3>2 DEF RegistersInv
<2>4. QED
  BY <2>2, <2>3
<1>6. CASE ReadFlash
  BY <1>6 DEF ReadFlash, Clocked, RegistersInv
<1>7. CASE WaitReadAck
  BY <1>7 DEF WaitReadAck, RegistersInv
<1>8. QED
  BY <1>2, <1>3, <1>4, <1>5, <1>6, <1>7 DEF Master

-----------------------------------------------------------------------------
(* Bits over: of 32 sent and 32 read.                                      *)
NotAsked == top_state \in {"INIT", "SEND_ADDR_SPI"} \/ spi_addr_en
BitsOver ==
  IF state = "SEND_READ_CMD" THEN counter_send
  ELSE IF state = "SEND_READ_ADDR" THEN 8 + counter_send
  ELSE IF state = "READ_FLASH" THEN 32 + counter_send
  ELSE IF NotAsked THEN 0 ELSE 64

(* The clock pin falls at the first edge of a bit and rises at the fifth.  *)
ClockInv == SPI_SCK = IF counter_clk > 4 \/ (counter_clk = 0 /\ BitsOver > 0) THEN 1 ELSE 0
DataPinInv == counter_clk \in 1..4 /\ BitsOver < 32 => SPI_MOSI = Command[BitsOver + 1]

(* The bit that is given n-th, of given contents.                          *)
StoredIn(m, n) == Bits(m[(n - 1) \div 8 + 1], 8)[((n - 1) % 8) + 1]

(* The flash has taken a bit at each rise ...                              *)
TakenInv ==
  /\ counter_clk <= 4 /\ BitsOver < 32 => Len(taken) = BitsOver
  /\ counter_clk > 4 /\ BitsOver < 32 => Len(taken) = BitsOver + 1
  /\ BitsOver >= 32 => Len(taken) = 32
  /\ \A i \in 1..Len(taken) : taken[i] = Command[i]
(* ... and given one at each fall after that.                              *)
GivenInv ==
  /\ BitsOver < 32 => given = 0
  /\ BitsOver >= 32 /\ counter_clk = 0 => given = BitsOver - 32
  /\ BitsOver >= 32 /\ counter_clk > 0 =>
       /\ given = BitsOver - 31
       /\ settling = 0 \/ settling + counter_clk <= 6
       /\ settling = 0 => SPI_MISO = StoredIn(bytes, given)

(* n bits turned in are the last n of the register.                        *)
ReadInv ==
  /\ state = "READ_FLASH" =>
       \A i \in 1..counter_send : rd_data[32 - counter_send + i] = StoredIn(bytes, i)
  /\ state = "READ_FLASH" /\ counter_clk = 7 => rd_data[1] = StoredIn(bytes, counter_send + 1)
  /\ state = "WAIT_READ_ACK" => \A i \in 1..32 : rd_data[i] = StoredIn(bytes, i)
  /\ top_state = "DISPLAY_LED" => \A i \in 1..3 : led[i] = StoredIn(bytes, 21 + i)

FlashInv == ClockInv /\ DataPinInv /\ (SPI_SS = 0 => TakenInv /\ GivenInv /\ ReadInv)
LedInv   == TypeInv /\ HandshakeInv /\ RegistersInv /\ FlashInv

Sending == state \in {"SEND_READ_CMD", "SEND_READ_ADDR", "READ_FLASH"}

LEMMA BitsOverType ==
  ASSUME TypeInv
  PROVE  BitsOver \in 0..64
<1>1. /\ counter_send \in 0..31
      /\ state = "SEND_READ_CMD" => counter_send < 8
      /\ state = "SEND_READ_ADDR" => counter_send < 24
  BY DEF TypeInv, TypeOK, CountsInv
<1>2. QED
  BY <1>1 DEF BitsOver

(* One edge of a bit that is sent or read ...                              *)
LEMMA BitStep ==
  ASSUME TypeInv, HandshakeInv, RegistersInv, Next, Sending
  PROVE  /\ BitsOver \in 0..63
         /\ counter_clk \in 0..6 => counter_clk' = counter_clk + 1 /\ BitsOver' = BitsOver
         /\ counter_clk = 7 => counter_clk' = 0 /\ BitsOver' = BitsOver + 1
         /\ counter_clk = 0 => SPI_SCK' = 0
         /\ counter_clk = 4 => SPI_SCK' = 1
         /\ counter_clk \notin {0, 4} => SPI_SCK' = SPI_SCK
         /\ BitsOver < 32 =>
              SPI_MOSI' = IF counter_clk = 0 THEN Command[BitsOver + 1] ELSE SPI_MOSI
<1> DEFINE Counted ==
             /\ counter_clk \in 0..6 => counter_clk' = counter_clk + 1 /\ BitsOver' = BitsOver
             /\ counter_clk = 7 => counter_clk' = 0 /\ BitsOver' = BitsOver + 1
           Pins ==
             /\ counter_clk = 0 => SPI_SCK' = 0
             /\ counter_clk = 4 => SPI_SCK' = 1
             /\ counter_clk \notin {0, 4} => SPI_SCK' = SPI_SCK
<1>1. /\ read_cmd \in [1..8 -> Bit] /\ read_addr_reg \in [1..24 -> Bit]
      /\ counter_clk \in 0..7 /\ counter_send \in 0..31
      /\ state = "SEND_READ_CMD" => counter_send < 8
      /\ state = "SEND_READ_ADDR" => counter_send < 24
  BY DEF TypeInv, TypeOK, CountsInv
<1>2. /\ top_state \in {"INIT", "SEND_ADDR_SPI", "WAIT_READ_DATA", "DISPLAY_LED"}
      /\ Master /\ Top
  BY DEF TypeInv, TypeOK, Next, Tick
<1>3. top_state = "WAIT_READ_DATA" /\ ~rd_data_available
<2>1. state # "WAIT_READ_ADDR" /\ state # "WAIT_READ_ACK"
  BY DEF Sending
<2>2. QED
  BY <1>2, <2>1 DEF HandshakeInv
<1>4. top_state' = "WAIT_READ_DATA" /\ ~spi_addr_en'
  BY <1>2, <1>3 DEF Top, TopInit, SendAddrSpi, WaitReadData, DisplayLed
<1>5. ~NotAsked'
  BY <1>4 DEF NotAsked
<1>6. CASE state = "SEND_READ_CMD"
<2>1. SendReadCmd
  BY <1>2, <1>6 DEF Master, WaitReadAddr, SendReadAddr, ReadFlash, WaitReadAck
<2>2. BitsOver = counter_send
  BY <1>6 DEF BitsOver
<2>3. Counted
  BY <1>1, <1>6, <2>1, <2>2 DEF SendReadCmd, Clocked, LastBit, BitsOver
<2>4. Pins
  BY <1>1, <2>1 DEF SendReadCmd, Clocked
<2>5. SPI_MOSI' = IF counter_clk = 0 THEN Command[BitsOver + 1] ELSE SPI_MOSI
<3>1. read_cmd[1] = ReadCmd[counter_send + 1]
<4>1. 1 \in 1..8 /\ 1 + counter_send <= 8 /\ 1 + counter_send = counter_send + 1
  BY <1>1, <1>6
<4>2. read_cmd[1] = IF 1 + counter_send <= 8 THEN ReadCmd[1 + counter_send]
                    ELSE ReadCmd[1 + counter_send - 8]
  BY <1>6, <4>1, Zenon DEF RegistersInv, TurnedBy
<4>3. QED
  BY <4>1, <4>2
<3>2. Head(read_cmd) = read_cmd[1]
  BY <1>1
<3>3. Command[counter_send + 1] = ReadCmd[counter_send + 1]
<4>1. counter_send + 1 \in 1..32 /\ counter_send + 1 <= 8
  BY <1>1, <1>6
<4>2. QED
  BY <4>1, CommandElements
<3>4. QED
  BY <2>1, <2>2, <3>1, <3>2, <3>3 DEF SendReadCmd, Sends
<2>6. QED
  BY <1>1, <1>6, <2>2, <2>3, <2>4, <2>5
<1>7. CASE state = "SEND_READ_ADDR"
<2>1. SendReadAddr
  BY <1>2, <1>7 DEF Master, WaitReadAddr, SendReadCmd, ReadFlash, WaitReadAck
<2>2. BitsOver = 8 + counter_send
  BY <1>7 DEF BitsOver
<2>3. Counted
  BY <1>1, <1>7, <2>1, <2>2 DEF SendReadAddr, Clocked, LastBit, BitsOver
<2>4. Pins
  BY <1>1, <2>1 DEF SendReadAddr, Clocked
<2>5. SPI_MOSI' = IF counter_clk = 0 THEN Command[BitsOver + 1] ELSE SPI_MOSI
<3>1. read_addr_reg[1] = Address[counter_send + 1]
<4>1. 1 \in 1..24 /\ 1 + counter_send <= 24 /\ 1 + counter_send = counter_send + 1
  BY <1>1, <1>7
<4>2. read_addr_reg[1] = IF 1 + counter_send <= 24 THEN Address[1 + counter_send]
                         ELSE Address[1 + counter_send - 24]
  BY <1>7, <4>1, Zenon DEF RegistersInv, TurnedBy
<4>3. QED
  BY <4>1, <4>2
<3>2. Head(read_addr_reg) = read_addr_reg[1]
  BY <1>1
<3>3. Command[BitsOver + 1] = Address[counter_send + 1]
<4>1. /\ BitsOver + 1 \in 1..32 /\ ~(BitsOver + 1 <= 8)
      /\ BitsOver + 1 - 8 = counter_send + 1
  BY <1>1, <1>7, <2>2
<4>2. PICK j \in 1..32 : j = BitsOver + 1
  BY <4>1
<4>3. Command[j] = IF j <= 8 THEN ReadCmd[j] ELSE Address[j - 8]
  BY CommandElements
<4>4. Command[j] = Address[j - 8] /\ j - 8 = counter_send + 1
<5>1. ~(j <= 8)
  BY <4>1, <4>2
<5>2. j - 8 = counter_send + 1
  BY <1>1, <2>2, <4>2
<5>3. QED
  BY <4>3, <5>1, <5>2, Zenon
<4>5. QED
  BY <4>2, <4>4
<3>4. QED
  BY <2>1, <3>1, <3>2, <3>3 DEF SendReadAddr, Sends
<2>6. QED
  BY <1>1, <1>7, <2>2, <2>3, <2>4, <2>5
<1>8. CASE state = "READ_FLASH"
<2>1. ReadFlash
  BY <1>2, <1>8 DEF Master, WaitReadAddr, SendReadCmd, SendReadAddr, WaitReadAck
<2>2. BitsOver = 32 + counter_send
  BY <1>8 DEF BitsOver
<2>3. Counted
  BY <1>1, <1>5, <1>8, <2>1, <2>2 DEF ReadFlash, Clocked, LastBit, BitsOver
<2>4. Pins
  BY <1>1, <2>1 DEF ReadFlash, Clocked
<2>5. QED
  BY <1>1, <2>2, <2>3, <2>4
<1>9. QED
  BY <1>6, <1>7, <1>8 DEF Sending

(* ... and one between two states that wait.                               *)
LEMMA NoBitStep ==
  ASSUME TypeInv, HandshakeInv, Next, ~Sending
  PROVE  /\ counter_clk = 0 /\ counter_clk' = 0
         /\ BitsOver \in {0, 64} /\ BitsOver' = BitsOver
         /\ SPI_SCK' = SPI_SCK /\ SPI_MOSI' = SPI_MOSI
<1>1. /\ state \in {"WAIT_READ_ADDR", "WAIT_READ_ACK"}
      /\ counter_clk = 0 /\ counter_send = 0
  BY DEF TypeInv, TypeOK, CountsInv, Sending
<1>2. Master /\ Top
  BY DEF Next, Tick
<1>3. top_state \in {"INIT", "SEND_ADDR_SPI", "WAIT_READ_DATA", "DISPLAY_LED"}
  BY DEF TypeInv, TypeOK
<1>4. BitsOver = IF NotAsked THEN 0 ELSE 64
  BY <1>1 DEF BitsOver
<1>5. CASE state = "WAIT_READ_ADDR"
<2>1. WaitReadAddr
  BY <1>2, <1>5 DEF Master, SendReadCmd, SendReadAddr, ReadFlash, WaitReadAck
<2>2. CASE spi_addr_en
<3>1. NotAsked /\ state' = "SEND_READ_CMD" /\ counter_send' = 0
  BY <1>1, <2>1, <2>2 DEF WaitReadAddr, NotAsked
<3>2. BitsOver = 0 /\ BitsOver' = 0
  BY <1>4, <3>1 DEF BitsOver
<3>3. QED
  BY <1>1, <2>1, <3>2 DEF WaitReadAddr
<2>3. CASE ~spi_addr_en
<3>1. state' = "WAIT_READ_ADDR"
  BY <1>5, <2>1, <2>3 DEF WaitReadAddr
<3>2. BitsOver' = IF NotAsked' THEN 0 ELSE 64
  BY <3>1 DEF BitsOver
<3>3. top_state \in {"INIT", "SEND_ADDR_SPI", "DISPLAY_LED"}
  BY <1>3, <1>5, <2>3 DEF HandshakeInv
<3>4. CASE top_state = "DISPLAY_LED"
<4>1. top_state' = "DISPLAY_LED" /\ ~spi_addr_en'
  BY <1>2, <3>4 DEF Top, TopInit, SendAddrSpi, WaitReadData, DisplayLed
<4>2. ~NotAsked /\ ~NotAsked'
  BY <2>3, <3>4, <4>1 DEF NotAsked
<4>3. QED
  BY <1>1, <1>4, <2>1, <3>2, <4>2 DEF WaitReadAddr
<3>5. CASE top_state \in {"INIT", "SEND_ADDR_SPI"}
<4>1. top_state' \in {"INIT", "SEND_ADDR_SPI"} \/ spi_addr_en'
  BY <1>2, <3>5 DEF Top, TopInit, SendAddrSpi, WaitReadData, DisplayLed
<4>2. NotAsked /\ NotAsked'
  BY <3>5, <4>1 DEF NotAsked
<4>3. QED
  BY <1>1, <1>4, <2>1, <3>2, <4>2 DEF WaitReadAddr
<3>6. QED
  BY <3>3, <3>4, <3>5
<2>4. QED
  BY <2>2, <2>3
<1>6. CASE state = "WAIT_READ_ACK"
<2>1. WaitReadAck
  BY <1>2, <1>6 DEF Master, WaitReadAddr, SendReadCmd, SendReadAddr, ReadFlash
<2>2. state' \in {"WAIT_READ_ADDR", "WAIT_READ_ACK"}
  BY <1>6, <2>1 DEF WaitReadAck
<2>3. top_state \in {"WAIT_READ_DATA", "DISPLAY_LED"} /\ ~spi_addr_en
  BY <1>3, <1>6 DEF HandshakeInv
<2>4. top_state' \in {"WAIT_READ_DATA", "DISPLAY_LED"} /\ ~spi_addr_en'
  BY <1>2, <2>3 DEF Top, TopInit, SendAddrSpi, WaitReadData, DisplayLed
<2>5. ~NotAsked /\ ~NotAsked'
  BY <2>3, <2>4 DEF NotAsked
<2>6. BitsOver = 64 /\ BitsOver' = 64
  BY <1>4, <2>2, <2>5 DEF BitsOver
<2>7. QED
  BY <1>1, <2>1, <2>6 DEF WaitReadAck
<1>7. QED
  BY <1>1, <1>5, <1>6

LEMMA PinsStep ==
  ASSUME TypeInv, HandshakeInv, RegistersInv, ClockInv, DataPinInv, Next
  PROVE  ClockInv' /\ DataPinInv'
<1>1. BitsOver \in 0..64 /\ counter_clk \in 0..7
  BY BitsOverType DEF TypeInv, TypeOK
<1>2. CASE ~Sending
  BY <1>2, NoBitStep DEF ClockInv, DataPinInv
<1>3. CASE Sending
<2>1. /\ BitsOver \in 0..63
      /\ counter_clk \in 0..6 => counter_clk' = counter_clk + 1 /\ BitsOver' = BitsOver
      /\ counter_clk = 7 => counter_clk' = 0 /\ BitsOver' = BitsOver + 1
      /\ counter_clk = 0 => SPI_SCK' = 0
      /\ counter_clk = 4 => SPI_SCK' = 1
      /\ counter_clk \notin {0, 4} => SPI_SCK' = SPI_SCK
      /\ BitsOver < 32 =>
           SPI_MOSI' = IF counter_clk = 0 THEN Command[BitsOver + 1] ELSE SPI_MOSI
  BY <1>3, BitStep
<2>2. ClockInv'
  BY <1>1, <2>1 DEF ClockInv
<2>3. DataPinInv'
<3>1. CASE counter_clk = 0
  BY <2>1, <3>1 DEF DataPinInv
<3>2. CASE counter_clk \in 1..3
  BY <2>1, <3>2 DEF DataPinInv
<3>3. CASE counter_clk \in 4..7
<4>1. counter_clk' \notin 1..4
  BY <1>1, <2>1, <3>3
<4>2. QED
  BY <4>1 DEF DataPinInv
<3>4. QED
  BY <1>1, <3>1, <3>2, <3>3
<2>4. QED
  BY <2>2, <2>3
<1>4. QED
  BY <1>2, <1>3

(* The flash takes the pin at the fifth edge of a bit ...                  *)
LEMMA TakenStep ==
  ASSUME TypeInv, HandshakeInv, RegistersInv, ClockInv, DataPinInv, Next, SPI_SS = 0, TakenInv
  PROVE  TakenInv'
<1>1. /\ BitsOver \in 0..64 /\ counter_clk \in 0..7 /\ SPI_MOSI \in Bit
      /\ taken \in Seq(Bit) /\ Len(taken) \in Nat
  BY BitsOverType, LenProperties DEF TypeInv, TypeOK
<1>2. FlashTick
  BY DEF Next, Tick
<1>3. /\ counter_clk <= 4 /\ BitsOver < 32 => Len(taken) = BitsOver
      /\ counter_clk > 4 /\ BitsOver < 32 => Len(taken) = BitsOver + 1
      /\ BitsOver >= 32 => Len(taken) = 32
      /\ \A i \in 1..Len(taken) : taken[i] = Command[i]
  BY DEF TakenInv
<1> DEFINE len == Len(taken)
<1>7. /\ counter_clk <= 4 /\ BitsOver < 32 => len = BitsOver
      /\ counter_clk > 4 /\ BitsOver < 32 => len = BitsOver + 1
      /\ BitsOver >= 32 => len = 32
      /\ len \in Nat
  BY <1>1, <1>3, Zenon
<1> HIDE DEF len
<1>4. CASE ~Sending
<2>1. /\ counter_clk = 0 /\ counter_clk' = 0 /\ BitsOver' = BitsOver /\ SPI_SCK' = SPI_SCK
  BY <1>4, NoBitStep
<2>2. ~Rises
  BY <2>1 DEF Rises
<2>3. taken' = taken
  BY <1>2, <2>2 DEF FlashTick
<2>4. QED
  BY <1>3, <2>1, <2>3 DEF TakenInv
<1>5. CASE Sending
<2>1. /\ BitsOver \in 0..63
      /\ counter_clk \in 0..6 => counter_clk' = counter_clk + 1 /\ BitsOver' = BitsOver
      /\ counter_clk = 7 => counter_clk' = 0 /\ BitsOver' = BitsOver + 1
      /\ counter_clk = 0 => SPI_SCK' = 0
      /\ counter_clk = 4 => SPI_SCK' = 1
      /\ counter_clk \notin {0, 4} => SPI_SCK' = SPI_SCK
  BY <1>5, BitStep
<2>2. CASE counter_clk = 4 /\ BitsOver < 32
<3>1. SPI_SCK = 0 /\ SPI_MOSI = Command[BitsOver + 1]
  BY <2>1, <2>2 DEF ClockInv, DataPinInv
<3>2. Rises /\ Len(taken) = BitsOver /\ Len(taken) < 32
  BY <1>3, <2>1, <2>2, <3>1 DEF Rises
<3>3. taken' = Append(taken, SPI_MOSI)
  BY <1>2, <3>2 DEF FlashTick
<3>4. /\ Len(taken') = BitsOver + 1
      /\ \A i \in 1..BitsOver : taken'[i] = taken[i]
      /\ taken'[BitsOver + 1] = SPI_MOSI
<4>1. /\ Len(Append(taken, SPI_MOSI)) = Len(taken) + 1
      /\ \A i \in 1..Len(taken) : Append(taken, SPI_MOSI)[i] = taken[i]
      /\ Append(taken, SPI_MOSI)[Len(taken) + 1] = SPI_MOSI
  BY <1>1, AppendProperties
<4>2. QED
  BY <3>2, <3>3, <4>1, Zenon
<3>5. \A i \in 1..Len(taken') : taken'[i] = Command[i]
<4>1. TAKE i \in 1..Len(taken')
<4>2. i \in 1..BitsOver \/ i = BitsOver + 1
  BY <2>1, <3>4
<4>3. CASE i \in 1..BitsOver
  BY <1>3, <3>2, <3>4, <4>3, Zenon
<4>4. CASE i = BitsOver + 1
  BY <3>1, <3>4, <4>4, Zenon
<4>5. QED
  BY <4>2, <4>3, <4>4
<3>6. counter_clk' = 5 /\ BitsOver' = BitsOver
  BY <2>1, <2>2
<3>7. QED
  BY <2>2, <3>4, <3>5, <3>6 DEF TakenInv
<2>3. CASE ~(counter_clk = 4 /\ BitsOver < 32)
<3>1. counter_clk # 4 => ~Rises
<4>1. SUFFICES ASSUME counter_clk # 4 PROVE ~Rises
  OBVIOUS
<4>2. SPI_SCK' = 0 \/ SPI_SCK' = SPI_SCK
  BY <2>1, <4>1
<4>3. QED
  BY <4>2 DEF Rises
<3>2. BitsOver >= 32 => ~(len < 32)
  BY <1>7
<3>3. taken' = taken
<4>1. ~(SPI_SS = 0 /\ Rises /\ len < 32)
  BY <1>1, <2>1, <2>3, <3>1, <3>2
<4>2. QED
  BY <1>2, <4>1, Zenon DEF FlashTick, len
<3>4. /\ counter_clk' <= 4 /\ BitsOver' < 32 => Len(taken) = BitsOver'
      /\ counter_clk' > 4 /\ BitsOver' < 32 => Len(taken) = BitsOver' + 1
      /\ BitsOver' >= 32 => Len(taken) = 32
<4>1. /\ counter_clk' <= 4 /\ BitsOver' < 32 => len = BitsOver'
      /\ counter_clk' > 4 /\ BitsOver' < 32 => len = BitsOver' + 1
      /\ BitsOver' >= 32 => len = 32
<5>1. CASE counter_clk = 7
  BY <1>7, <2>1, <5>1
<5>2. CASE counter_clk = 4
  BY <1>7, <2>1, <2>3, <5>2
<5>3. CASE counter_clk \in {0, 1, 2, 3, 5, 6}
  BY <1>7, <2>1, <5>3
<5>4. QED
  BY <1>1, <5>1, <5>2, <5>3
<4>2. QED
  BY <4>1, Zenon DEF len
<3>5. QED
  BY <1>3, <3>3, <3>4 DEF TakenInv
<2>4. QED
  BY <2>2, <2>3
<1>6. QED
  BY <1>4, <1>5

LEMMA StoredIsStoredIn == \A n : Stored(n) = StoredIn(bytes, n)
  BY DEF Stored, StoredIn

(* ... and answers at the first, which is stable when it is sampled.       *)
LEMMA GivenStep ==
  ASSUME TypeInv, HandshakeInv, RegistersInv, ClockInv, DataPinInv, Next, SPI_SS = 0,
         TakenInv, GivenInv
  PROVE  GivenInv'
<1>1. /\ BitsOver \in 0..64 /\ counter_clk \in 0..7
      /\ taken \in Seq(Bit) /\ Len(taken) \in Nat
      /\ given \in 0..32 /\ settling \in 0..MaxDelay /\ MaxDelay \in 0..5
  BY BitsOverType, LenProperties, FlashAssumption DEF TypeInv, TypeOK
<1>2. FlashTick
  BY DEF Next, Tick
<1>3. /\ counter_clk <= 4 /\ BitsOver < 32 => Len(taken) = BitsOver
      /\ BitsOver >= 32 => Len(taken) = 32
      /\ \A i \in 1..Len(taken) : taken[i] = Command[i]
  BY DEF TakenInv
<1>4. /\ BitsOver < 32 => given = 0
      /\ BitsOver >= 32 /\ counter_clk = 0 => given = BitsOver - 32
      /\ BitsOver >= 32 /\ counter_clk > 0 =>
           given = BitsOver - 31 /\ (settling = 0 \/ settling + counter_clk <= 6)
  BY DEF GivenInv
<1> DEFINE len == Len(taken)
<1>8. /\ counter_clk <= 4 /\ BitsOver < 32 => len = BitsOver
      /\ BitsOver >= 32 => len = 32
  BY <1>3, Zenon
<1> HIDE DEF len
<1>5. CASE ~Sending
<2>1. /\ counter_clk = 0 /\ counter_clk' = 0 /\ BitsOver' = BitsOver /\ SPI_SCK' = SPI_SCK
  BY <1>5, NoBitStep
<2>2. ~Falls
  BY <2>1 DEF Falls
<2>3. given' = given
  BY <1>2, <2>2 DEF FlashTick
<2>4. QED
  BY <1>4, <2>1, <2>3 DEF GivenInv
<1>6. CASE Sending
<2>1. /\ BitsOver \in 0..63
      /\ counter_clk \in 0..6 => counter_clk' = counter_clk + 1 /\ BitsOver' = BitsOver
      /\ counter_clk = 7 => counter_clk' = 0 /\ BitsOver' = BitsOver + 1
      /\ counter_clk = 0 => SPI_SCK' = 0
      /\ counter_clk = 4 => SPI_SCK' = 1
      /\ counter_clk \notin {0, 4} => SPI_SCK' = SPI_SCK
  BY <1>6, BitStep
<2>2. /\ counter_clk = 0 /\ BitsOver >= 32 => given' = given + 1
      /\ ~(counter_clk = 0 /\ BitsOver >= 32) => given' = given
<3>1. counter_clk # 0 => ~Falls
<4>1. SUFFICES ASSUME counter_clk # 0 PROVE ~Falls
  OBVIOUS
<4>2. SPI_SCK' = 1 \/ SPI_SCK' = SPI_SCK
  BY <2>1, <4>1
<4>3. QED
  BY <4>2 DEF Falls
<3>2. counter_clk = 0 /\ BitsOver >= 32 => Falls
  BY <2>1 DEF Falls, ClockInv
<3>3. counter_clk = 0 /\ BitsOver < 32 => len # 32
  BY <1>8, <2>1
<3>4. counter_clk = 0 /\ BitsOver >= 32 => given < 32 /\ len = 32
  BY <1>8, <1>4, <2>1
<3>5. given' = IF SPI_SS = 0 /\ Falls /\ len = 32 /\ given < 32 THEN given + 1 ELSE given
  BY <1>2, Zenon DEF FlashTick, len
<3>6. QED
  BY <1>1, <2>1, <3>1, <3>2, <3>3, <3>4, <3>5
<2>3. settling' = IF given' # given THEN MaxDelay ELSE IF settling > 0 THEN settling - 1 ELSE 0
  BY <1>2, Zenon DEF FlashTick
<2>4. /\ BitsOver' < 32 => given' = 0
      /\ BitsOver' >= 32 /\ counter_clk' = 0 => given' = BitsOver' - 32
      /\ BitsOver' >= 32 /\ counter_clk' > 0 => given' = BitsOver' - 31
  BY <1>1, <1>4, <2>1, <2>2
<2>5. BitsOver' >= 32 /\ counter_clk' > 0 => settling' = 0 \/ settling' + counter_clk' <= 6
<3>1. SUFFICES ASSUME BitsOver' >= 32, counter_clk' > 0
               PROVE  settling' = 0 \/ settling' + counter_clk' <= 6
  OBVIOUS
<3>2. CASE counter_clk = 0
<4>1. settling' = MaxDelay /\ counter_clk' = 1
  BY <1>1, <2>1, <2>2, <2>3, <3>1, <3>2
<4>2. QED
  BY <1>1, <4>1
<3>3. CASE counter_clk # 0
<4>1. /\ counter_clk' = counter_clk + 1 /\ given' = given
      /\ settling = 0 \/ settling + counter_clk <= 6
  BY <1>1, <1>4, <2>1, <2>2, <3>1, <3>3
<4>2. QED
  BY <1>1, <2>3, <4>1
<3>4. QED
  BY <3>2, <3>3
<2>6. BitsOver' >= 32 /\ counter_clk' > 0 /\ settling' = 0 =>
        SPI_MISO' = StoredIn(bytes', given')
<3>1. SUFFICES ASSUME BitsOver' >= 32, counter_clk' > 0, settling' = 0
               PROVE  SPI_MISO' = StoredIn(bytes', given')
  OBVIOUS
<3>2. BitsOver' = BitsOver /\ BitsOver >= 32
  BY <1>1, <2>1, <3>1
<3>3. given' \in 1..32
  BY <2>1, <2>4, <3>1, <3>2
<3>4. taken = ReadCmd \o Address
<4>1. Len(taken) = Len(Command) /\ Command \in Seq(Bit)
  BY <1>3, <3>2, CommandElements
<4>2. taken = Command
  BY <1>1, <1>3, <4>1, SeqEqual, Zenon
<4>3. QED
  BY <4>2 DEF Command
<3>5. Driven
  BY <3>1, <3>3, <3>4 DEF Driven
<3>6. SPI_MISO' = Stored(given') /\ bytes' = bytes
  BY <1>2, <3>5 DEF FlashTick
<3>7. QED
  BY <3>6, StoredIsStoredIn
<2>7. QED
  BY <2>4, <2>5, <2>6 DEF GivenInv
<1>7. QED
  BY <1>5, <1>6

(* Each sample is the next bit, and 32 of them make the register.          *)
LEMMA ReadStep ==
  ASSUME TypeInv, HandshakeInv, Next, SPI_SS = 0, GivenInv, ReadInv
  PROVE  ReadInv'
<1>1. /\ counter_clk \in 0..7 /\ counter_send \in 0..31
      /\ rd_data \in [1..32 -> Unknown] /\ led \in [1..3 -> Unknown]
      /\ settling \in Nat
  BY FlashAssumption DEF TypeInv, TypeOK
<1>2. Master /\ Top /\ bytes' = bytes
  BY DEF Next, Tick, FlashTick
<1>3. CASE state = "READ_FLASH"
<2>1. ReadFlash
  BY <1>2, <1>3 DEF Master, WaitReadAddr, SendReadCmd, SendReadAddr, WaitReadAck
<2>2. \A i \in 1..counter_send : rd_data[32 - counter_send + i] = StoredIn(bytes, i)
  BY <1>3 DEF ReadInv
<2>3. ~rd_data_available /\ top_state # "DISPLAY_LED"
  BY <1>3 DEF HandshakeInv
<2>4. top_state' # "DISPLAY_LED"
  BY <1>2, <2>3 DEF Top, TopInit, SendAddrSpi, WaitReadData, DisplayLed
<2>5. CASE counter_clk < 6
<3>1. /\ rd_data' = rd_data /\ state' = state /\ counter_send' = counter_send
      /\ counter_clk' # 7
  BY <1>1, <2>1, <2>5 DEF ReadFlash, Samples, Turned, Clocked
<3>2. QED
  BY <1>2, <1>3, <2>2, <2>4, <3>1 DEF ReadInv
<2>6. CASE counter_clk = 6
<3>1. /\ rd_data' = [rd_data EXCEPT ![1] = SPI_MISO]
      /\ state' = state /\ counter_send' = counter_send /\ counter_clk' = 7
  BY <2>1, <2>6 DEF ReadFlash, Samples, Clocked
<3>2. SPI_MISO = StoredIn(bytes, counter_send + 1)
<4>1. BitsOver = 32 + counter_send
  BY <1>3 DEF BitsOver
<4>2. given = counter_send + 1 /\ settling = 0
  BY <1>1, <2>6, <4>1 DEF GivenInv
<4>3. SPI_MISO = StoredIn(bytes, given)
  BY <1>1, <2>6, <4>1, <4>2 DEF GivenInv
<4>4. QED
  BY <4>2, <4>3
<3>3. rd_data'[1] = StoredIn(bytes, counter_send + 1)
  BY <1>1, <3>1, <3>2
<3>4. \A i \in 1..counter_send : rd_data'[32 - counter_send + i] = StoredIn(bytes, i)
<4>1. TAKE i \in 1..counter_send
<4>2. 32 - counter_send + i \in 2..32
  BY <1>1
<4>3. rd_data'[32 - counter_send + i] = rd_data[32 - counter_send + i]
  BY <1>1, <3>1, <4>2
<4>4. QED
  BY <2>2, <4>3
<3>5. QED
  BY <1>2, <1>3, <2>4, <3>1, <3>3, <3>4 DEF ReadInv
<2>7. CASE counter_clk = 7
<3>1. /\ rd_data' = Rotated(rd_data) /\ counter_clk' = 0
      /\ counter_send # 31 => state' = state /\ counter_send' = counter_send + 1
      /\ counter_send = 31 => state' = "WAIT_READ_ACK"
  BY <1>1, <2>1, <2>7 DEF ReadFlash, Samples, Turned, Clocked, LastBit
<3>2. \A k \in 1..32 : rd_data'[k] = IF k < 32 THEN rd_data[k + 1] ELSE rd_data[1]
<4>1. 32 \in Nat \ {0}
  OBVIOUS
<4>2. PICK n \in Nat \ {0} : n = 32
  BY <4>1
<4>3. PICK s \in [1..n -> Unknown] : s = rd_data
  BY <1>1, <4>2
<4>4. PICK t : t = Rotated(s)
  OBVIOUS
<4>5. t \in [1..n -> Unknown] /\ \A k \in 1..n : t[k] = IF k < n THEN s[k + 1] ELSE s[1]
  BY <4>4, RotatedElements
<4>6. rd_data' = t
  BY <3>1, <4>3, <4>4
<4>7. QED
  BY <4>2, <4>3, <4>5, <4>6, Zenon
<3>3. rd_data[1] = StoredIn(bytes, counter_send + 1)
  BY <1>3, <2>7 DEF ReadInv
<3>4. \A i \in 1..counter_send + 1 : rd_data'[31 - counter_send + i] = StoredIn(bytes, i)
<4>1. TAKE i \in 1..counter_send + 1
<4>2. PICK k \in 1..32 : k = 31 - counter_send + i
  BY <1>1
<4>3. rd_data'[k] = IF k < 32 THEN rd_data[k + 1] ELSE rd_data[1]
  BY <3>2
<4>4. CASE i = counter_send + 1
<5>1. ~(k < 32)
  BY <1>1, <4>2, <4>4
<5>2. QED
  BY <3>3, <4>2, <4>3, <4>4, <5>1, Zenon
<4>5. CASE i \in 1..counter_send
<5>1. k < 32 /\ k + 1 = 32 - counter_send + i
  BY <1>1, <4>2, <4>5
<5>2. QED
  BY <2>2, <4>2, <4>3, <4>5, <5>1, Zenon
<4>6. i \in 1..counter_send \/ i = counter_send + 1
  BY <1>1
<4>7. QED
  BY <4>4, <4>5, <4>6
<3>5. CASE counter_send # 31
<4>1. state' = "READ_FLASH" /\ counter_send' = counter_send + 1
  BY <1>3, <3>1, <3>5
<4>2. \A i \in 1..counter_send' : rd_data'[32 - counter_send' + i] = StoredIn(bytes', i)
<5>1. SUFFICES ASSUME NEW i \in 1..counter_send'
               PROVE  rd_data'[32 - counter_send' + i] = StoredIn(bytes', i)
  OBVIOUS
<5>2. i \in 1..counter_send + 1 /\ 32 - counter_send' + i = 31 - counter_send + i
  BY <1>1, <4>1
<5>3. QED
  BY <1>2, <3>4, <5>2, Zenon
<4>3. QED
  BY <2>4, <3>1, <4>1, <4>2 DEF ReadInv
<3>6. CASE counter_send = 31
<4>1. \A i \in 1..32 : rd_data'[i] = StoredIn(bytes', i)
<5>1. TAKE i \in 1..32
<5>2. i \in 1..counter_send + 1 /\ 31 - counter_send + i = i
  BY <3>6
<5>3. QED
  BY <1>2, <3>4, <5>2, Zenon
<4>2. state' = "WAIT_READ_ACK"
  BY <3>1, <3>6
<4>3. QED
  BY <2>4, <4>1, <4>2 DEF ReadInv
<3>7. QED
  BY <3>5, <3>6
<2>8. QED
  BY <1>1, <2>5, <2>6, <2>7
<1>4. CASE state # "READ_FLASH"
<2>1. rd_data' = rd_data
  BY <1>2, <1>4 DEF Master, WaitReadAddr, SendReadCmd, SendReadAddr, ReadFlash, WaitReadAck
<2>2. state' = "WAIT_READ_ACK" => state = "WAIT_READ_ACK"
  BY <1>2, <1>4, MasterStates DEF TypeInv, TypeOK
<2>3. state' = "READ_FLASH" => counter_send' = 0 /\ counter_clk' = 0
<3>1. SUFFICES ASSUME state' = "READ_FLASH" PROVE counter_send' = 0 /\ counter_clk' = 0
  OBVIOUS
<3>2. SendReadAddr
  BY <1>2, <1>4, <3>1
     DEF Master, WaitReadAddr, SendReadCmd, ReadFlash, WaitReadAck, Clocked
<3>3. counter_clk = 7 /\ counter_send = 23
  BY <1>1, <3>1, <3>2 DEF SendReadAddr, Clocked, LastBit
<3>4. QED
  BY <3>2, <3>3 DEF SendReadAddr, Clocked, LastBit
<2>4. top_state' = "DISPLAY_LED" => \A i \in 1..3 : led'[i] = StoredIn(bytes', 21 + i)
<3>1. SUFFICES ASSUME top_state' = "DISPLAY_LED"
               PROVE  \A i \in 1..3 : led'[i] = StoredIn(bytes', 21 + i)
  OBVIOUS
<3>2. \/ top_state = "DISPLAY_LED" /\ led' = led
      \/ rd_data_available /\ led' = SubSeq(rd_data, 22, 24)
  BY <1>2, <3>1 DEF Top, TopInit, SendAddrSpi, WaitReadData, DisplayLed
<3>3. CASE top_state = "DISPLAY_LED" /\ led' = led
  BY <1>2, <3>3 DEF ReadInv
<3>4. CASE rd_data_available /\ led' = SubSeq(rd_data, 22, 24)
<4>1. \A i \in 1..32 : rd_data[i] = StoredIn(bytes, i)
  BY <3>4 DEF HandshakeInv, ReadInv
<4>2. \A i \in 1..3 : led'[i] = rd_data[21 + i]
  BY <1>1, <3>4, ShownElements
<4>3. QED
  BY <1>2, <4>1, <4>2
<3>5. QED
  BY <3>2, <3>3, <3>4
<2>5. state' = "WAIT_READ_ACK" => \A i \in 1..32 : rd_data'[i] = StoredIn(bytes', i)
  BY <1>2, <2>1, <2>2 DEF ReadInv
<2>6. QED
  BY <2>3, <2>4, <2>5 DEF ReadInv
<1>5. QED
  BY <1>3, <1>4

-----------------------------------------------------------------------------
LEMMA InitLedInv == Init => LedInv
<1>1. SUFFICES ASSUME Init PROVE LedInv
  OBVIOUS
<1>2. TypeInv /\ HandshakeInv
  BY <1>1, InitTypeInv DEF Init, HandshakeInv
<1>3. RegistersInv
  BY <1>1 DEF Init, RegistersInv
<1>4. BitsOver = 0 /\ counter_clk = 0 /\ SPI_SCK = 0
  BY <1>1 DEF Init, BitsOver, NotAsked
<1>5. ClockInv /\ DataPinInv
  BY <1>4 DEF ClockInv, DataPinInv
<1>6. TakenInv /\ GivenInv
<2>1. taken = << >> /\ Len(<< >>) = 0 /\ given = 0
  BY <1>1, EmptySeq DEF Init
<2>2. TakenInv
<3>1. Len(taken) = 0
  BY <2>1
<3>2. QED
  BY <1>4, <3>1 DEF TakenInv
<2>3. GivenInv
  BY <1>4, <2>1 DEF GivenInv
<2>4. QED
  BY <2>2, <2>3
<1>7. ReadInv
  BY <1>1 DEF Init, ReadInv
<1>8. QED
  BY <1>2, <1>3, <1>5, <1>6, <1>7 DEF LedInv, FlashInv

LEMMA LedInvStep == LedInv /\ [Next]_vars => LedInv'
<1>1. SUFFICES ASSUME LedInv, [Next]_vars PROVE LedInv'
  OBVIOUS
<1>2. /\ TypeInv /\ HandshakeInv /\ RegistersInv /\ ClockInv /\ DataPinInv
      /\ SPI_SS = 0 => TakenInv /\ GivenInv /\ ReadInv
  BY <1>1 DEF LedInv, FlashInv
<1>3. CASE Next
<2>1. TypeInv'
  BY <1>2, <1>3, TypeInvStep
<2>2. HandshakeInv' /\ RegistersInv'
  BY <1>2, <1>3, HandshakeStep, RegistersStep
<2>3. ClockInv' /\ DataPinInv'
  BY <1>2, <1>3, PinsStep
<2>4. SPI_SS' = SPI_SS
  BY <1>3 DEF Next, Tick
<2>5. SPI_SS = 0 => TakenInv' /\ GivenInv' /\ ReadInv'
  BY <1>2, <1>3, TakenStep, GivenStep, ReadStep
<2>6. QED
  BY <2>1, <2>2, <2>3, <2>4, <2>5 DEF LedInv, FlashInv
<1>4. CASE UNCHANGED vars
<2>1. UNCHANGED <<sendVars, SPI_SS, topVars, flashVars>>
  BY <1>4, Zenon DEF vars
<2>2. TypeInv'
  BY <1>2, <1>4, TypeInvStep
<2>3. HandshakeInv' /\ RegistersInv'
  BY <1>2, <2>1 DEF HandshakeInv, RegistersInv, sendVars, topVars
<2>4. BitsOver' = BitsOver
  BY <2>1 DEF BitsOver, NotAsked, sendVars, topVars
<2>5. ClockInv' /\ DataPinInv'
  BY <1>2, <2>1, <2>4 DEF ClockInv, DataPinInv, sendVars
<2>6. SPI_SS = 0 => TakenInv' /\ GivenInv' /\ ReadInv'
  BY <1>2, <2>1, <2>4 DEF TakenInv, GivenInv, ReadInv, sendVars, topVars, flashVars
<2>7. SPI_SS' = SPI_SS
  BY <2>1
<2>8. QED
  BY <2>2, <2>3, <2>5, <2>6, <2>7 DEF LedInv, FlashInv
<1>5. QED
  BY <1>1, <1>3, <1>4

(* If the select pin that spi_master.v leaves undriven is low, the LED     *)
(* shows the low bits of the byte at 0x100002, for every content of the    *)
(* flash, every wait of top.v and every delay of an answer up to five      *)
(* edges: the clock, the shift registers and the handshake fit together.   *)
THEOREM LedRightAlways == Spec => []LedRight
<1>1. LedInv => LedRight
<2>1. SUFFICES ASSUME LedInv, SPI_SS = 0, top_state = "DISPLAY_LED"
               PROVE  led = SubSeq(Bits(bytes[3], 8), 6, 8)
  BY DEF LedRight
<2>2. /\ led \in [1..3 -> Unknown] /\ bytes \in [1..4 -> 0..255]
      /\ \A i \in 1..3 : led[i] = StoredIn(bytes, 21 + i)
  BY <2>1, FlashAssumption DEF LedInv, FlashInv, ReadInv, TypeInv, TypeOK
<2>3. \A i \in 1..3 : StoredIn(bytes, 21 + i) = Bits(bytes[3], 8)[5 + i]
<3>1. TAKE i \in 1..3
<3>2. (21 + i - 1) \div 8 + 1 = 3 /\ ((21 + i - 1) % 8) + 1 = 5 + i
  BY Z3
<3>3. QED
  BY <3>2 DEF StoredIn
<2> DEFINE b == Bits(bytes[3], 8)
           u == SubSeq(b, 6, 8)
<2>4. b \in [1..8 -> Bit]
<3>1. bytes[3] \in Nat /\ 8 \in Nat
  BY <2>2
<3>2. QED
  BY <3>1, BitsType, Zenon
<2> HIDE DEF b
<2>5. /\ u \in Seq(Bit) /\ Len(u) = IF 6 <= 8 THEN 8 - 6 + 1 ELSE 0
      /\ \A i \in 1..8 - 6 + 1 : u[i] = b[6 + i - 1]
<3>1. \A i \in 6..8 : b[i] \in Bit
  BY <2>4
<3>2. QED
  BY <3>1, SubSeqProperties
<2> HIDE DEF u
<2>6. Len(u) = 3 /\ \A i \in 1..3 : u[i] = b[5 + i]
<3>1. 8 - 6 + 1 = 3 /\ 6 <= 8 /\ \A i \in 1..3 : 6 + i - 1 = 5 + i
  OBVIOUS
<3>2. QED
  BY <2>5, <3>1
<2>7. u \in [1..3 -> Bit]
  BY <2>5, <2>6, LenProperties, Zenon
<2>8. \A i \in 1..3 : led[i] = u[i]
  BY <2>2, <2>3, <2>6, Zenon DEF b
<2>9. led = u
  BY <2>2, <2>7, <2>8
<2>10. QED
  BY <2>9, Zenon DEF u, b
<1>2. QED
  BY <1>1, InitLedInv, LedInvStep, PTL DEF Spec
=============================================================================
