----------------------------- MODULE FlashRead -----------------------------
(***************************************************************************)
(* The flash example: top.v asks spi_master.v once for the four bytes at   *)
(* 0x100000 and shows the lowest bits of the third on the LED.  A step is  *)
(* a clock edge; the flash chip, outside the repository, sees SCK move.    *)
(***************************************************************************)
EXTENDS Integers, Sequences

CONSTANTS
  Contents,    \* what the four bytes may be
  StartWait,   \* edges top.v waits first (0x1000000)
  MaxDelay,    \* edges until the flash's answer to a falling SCK is stable
  X            \* a bit that may be 0 or 1: nothing drives it, or not yet

ASSUME FlashAssumption ==
  /\ Contents \subseteq [1..4 -> 0..255]
  /\ StartWait \in Nat /\ MaxDelay \in 0..5
  /\ X \notin 0..1

VARIABLES
  \* spi_master.v
  state, counter_clk, counter_send, read_cmd, read_addr_reg, addr_buffer_free,
  rd_data, rd_data_available, SPI_SCK, SPI_MOSI, spi_ss_reg,
  SPI_SS,      \* the output, which nothing drives: always what the build made of it
  \* top.v
  top_state, counter, spi_addr_en, spi_rd_ack, led,
  \* the flash chip
  bytes, taken, given, settling, SPI_MISO

sendVars == <<state, counter_clk, counter_send, read_cmd, read_addr_reg, addr_buffer_free,
              rd_data, rd_data_available, SPI_SCK, SPI_MOSI, spi_ss_reg>>
topVars  == <<top_state, counter, spi_addr_en, spi_rd_ack, led>>
flashVars == <<bytes, taken, given, settling, SPI_MISO>>
vars == <<sendVars, SPI_SS, topVars, flashVars>>

Bit == {0, 1}
Unknown == Bit \cup {X}
(* A number of n bits, the most significant first.                         *)
Bits(v, n) == [k \in 1..n |-> (v \div 2 ^ (n - k)) % 2]
Zeros(n) == [k \in 1..n |-> 0]
ReadCmd == Bits(3, 8)
Address == Bits(1048576, 24)

TypeOK ==
  /\ state \in {"WAIT_READ_ADDR", "SEND_READ_CMD", "SEND_READ_ADDR", "READ_FLASH",
                "WAIT_READ_ACK"}
  /\ counter_clk \in 0..7 /\ counter_send \in 0..31
  /\ read_cmd \in [1..8 -> Bit] /\ read_addr_reg \in [1..24 -> Bit]
  /\ rd_data \in [1..32 -> Unknown]
  /\ {addr_buffer_free, rd_data_available, spi_addr_en, spi_rd_ack} \subseteq BOOLEAN
  /\ {SPI_SCK, SPI_MOSI, spi_ss_reg, SPI_SS} \subseteq Bit /\ SPI_MISO \in Unknown
  /\ top_state \in {"INIT", "SEND_ADDR_SPI", "WAIT_READ_DATA", "DISPLAY_LED"}
  /\ counter \in 0..StartWait + 1 /\ led \in [1..3 -> Unknown]
  /\ bytes \in Contents /\ taken \in Seq(Bit) /\ Len(taken) <= 32
  /\ given \in 0..32 /\ settling \in 0..MaxDelay

Init ==
  /\ state = "WAIT_READ_ADDR" /\ counter_clk = 0 /\ counter_send = 0
  /\ read_cmd = ReadCmd /\ read_addr_reg = Zeros(24) /\ addr_buffer_free = TRUE
  /\ rd_data = [n \in 1..32 |-> X] /\ rd_data_available = FALSE
  /\ SPI_SCK = 0 /\ SPI_MOSI = 0 /\ spi_ss_reg = 1 /\ SPI_SS \in Bit
  /\ top_state = "INIT" /\ counter = 0 /\ led = Zeros(3)
  /\ spi_addr_en = FALSE /\ spi_rd_ack = FALSE
  /\ bytes \in Contents /\ taken = << >> /\ given = 0 /\ settling = 0 /\ SPI_MISO = X

-----------------------------------------------------------------------------
(* spi_master.v.  A bit takes eight edges: SCK falls at the first, rises   *)
(* at the fifth; at the last the register of the bits turns and, after     *)
(* `size' of them, the next state begins.                                  *)

Rotated(s) == Tail(s) \o <<Head(s)>>

LastBitLate(size) == counter_send = size     \* mutant
LastBit(size)     == counter_send = size - 1

Clocked(size, next) ==
  /\ counter_clk' = (counter_clk + 1) % 8
  /\ SPI_SCK' = CASE counter_clk = 0 -> 0 [] counter_clk = 4 -> 1 [] OTHER -> SPI_SCK
  /\ IF counter_clk = 7
     THEN /\ counter_send' = IF LastBit(size) THEN 0 ELSE counter_send + 1
          /\ state' = IF LastBit(size) THEN next ELSE state
     ELSE UNCHANGED <<counter_send, state>>

Sends(reg) == SPI_MOSI' = IF counter_clk = 0 THEN Head(reg) ELSE SPI_MOSI
Turned(reg) == IF counter_clk = 7 THEN Rotated(reg) ELSE reg

WaitReadAddr ==
  /\ state = "WAIT_READ_ADDR"
  /\ spi_ss_reg' = 1
  /\ IF spi_addr_en
     THEN read_addr_reg' = Address /\ addr_buffer_free' = FALSE /\ state' = "SEND_READ_CMD"
     ELSE UNCHANGED <<read_addr_reg, addr_buffer_free, state>>
  /\ UNCHANGED <<counter_clk, counter_send, read_cmd, rd_data, rd_data_available, SPI_SCK,
                 SPI_MOSI>>

SendReadCmd ==
  /\ state = "SEND_READ_CMD"
  /\ spi_ss_reg' = 0
  /\ Clocked(8, "SEND_READ_ADDR")
  /\ Sends(read_cmd) /\ read_cmd' = Turned(read_cmd)
  /\ UNCHANGED <<read_addr_reg, addr_buffer_free, rd_data, rd_data_available>>

SendReadAddr ==
  /\ state = "SEND_READ_ADDR"
  /\ spi_ss_reg' = 0
  /\ Clocked(24, "READ_FLASH")
  /\ Sends(read_addr_reg) /\ read_addr_reg' = Turned(read_addr_reg)
  /\ UNCHANGED <<read_cmd, addr_buffer_free, rd_data, rd_data_available>>

SamplesEarly == counter_clk = 4     \* mutant: at the rising edge
Samples      == counter_clk = 6

ReadFlash ==
  /\ state = "READ_FLASH"
  /\ Clocked(32, "WAIT_READ_ACK")
  /\ SPI_MOSI' = 0
  /\ rd_data' = IF Samples THEN [rd_data EXCEPT ![1] = SPI_MISO] ELSE Turned(rd_data)
  /\ rd_data_available' = (state' = "WAIT_READ_ACK")
  /\ spi_ss_reg' = IF state' = "WAIT_READ_ACK" THEN 1 ELSE 0
  /\ UNCHANGED <<read_cmd, read_addr_reg, addr_buffer_free>>

(* addr_buffer_free stays low: the source clears it here once more.        *)
WaitReadAck ==
  /\ state = "WAIT_READ_ACK"
  /\ spi_ss_reg' = 1
  /\ IF spi_rd_ack
     THEN addr_buffer_free' = FALSE /\ rd_data_available' = FALSE /\ state' = "WAIT_READ_ADDR"
     ELSE UNCHANGED <<addr_buffer_free, rd_data_available, state>>
  /\ UNCHANGED <<counter_clk, counter_send, read_cmd, read_addr_reg, rd_data, SPI_SCK, SPI_MOSI>>

Master == WaitReadAddr \/ SendReadCmd \/ SendReadAddr \/ ReadFlash \/ WaitReadAck

-----------------------------------------------------------------------------
(* top.v.                                                                  *)

TopInit ==
  /\ top_state = "INIT"
  /\ counter' = counter + 1
  /\ top_state' = IF counter = StartWait THEN "SEND_ADDR_SPI" ELSE "INIT"
  /\ spi_addr_en' = FALSE /\ spi_rd_ack' = FALSE /\ UNCHANGED led

SendAddrSpi ==
  /\ top_state = "SEND_ADDR_SPI"
  /\ top_state' = "WAIT_READ_DATA"
  /\ spi_addr_en' = TRUE /\ spi_rd_ack' = FALSE /\ UNCHANGED <<counter, led>>

WaitReadData ==
  /\ top_state = "WAIT_READ_DATA"
  /\ spi_addr_en' = FALSE
  /\ spi_rd_ack' = rd_data_available
  /\ IF rd_data_available
     THEN led' = SubSeq(rd_data, 22, 24) /\ top_state' = "DISPLAY_LED"
     ELSE UNCHANGED <<led, top_state>>
  /\ UNCHANGED counter

DisplayLed ==
  /\ top_state = "DISPLAY_LED"
  /\ spi_addr_en' = FALSE /\ spi_rd_ack' = FALSE
  /\ UNCHANGED <<top_state, counter, led>>

Top == TopInit \/ SendAddrSpi \/ WaitReadData \/ DisplayLed

-----------------------------------------------------------------------------
(* The flash chip takes 32 bits at rising edges of SCK and then, if they   *)
(* are the READ command, gives the bytes from that address on, a bit at    *)
(* each falling edge.  The line is unknown until an answer has settled,    *)
(* and while the chip is not selected.                                     *)

Rises == SPI_SCK = 0 /\ SPI_SCK' = 1
Falls == SPI_SCK = 1 /\ SPI_SCK' = 0

Stored(n) == Bits(bytes[(n - 1) \div 8 + 1], 8)[((n - 1) % 8) + 1]
Driven    == taken = ReadCmd \o Address /\ given' \in 1..32 /\ settling' = 0

FlashTick ==
  /\ taken' = IF SPI_SS = 0 /\ Rises /\ Len(taken) < 32 THEN Append(taken, SPI_MOSI) ELSE taken
  /\ given' = IF SPI_SS = 0 /\ Falls /\ Len(taken) = 32 /\ given < 32 THEN given + 1 ELSE given
  /\ settling' = IF given' # given THEN MaxDelay ELSE IF settling > 0 THEN settling - 1 ELSE 0
  /\ SPI_MISO' = IF SPI_SS = 0 /\ Driven THEN Stored(given') ELSE X
  /\ UNCHANGED bytes

Tick == Master /\ Top /\ FlashTick /\ UNCHANGED SPI_SS
Next == Tick
Spec == Init /\ [][Next]_vars

-----------------------------------------------------------------------------
(* The LED never shows anything but the low bits of the byte at 0x100002   *)
(* (or nothing, before), if the select pin that nothing drives is low: 32  *)
(* bits are sent in the right order, each answer is taken when it has      *)
(* settled, and the third byte is the one that is shown.  (SEND_READ_CMD,  *)
(* SEND_READ_ADDR and READ_FLASH of spi_master.v, WAIT_READ_DATA of top.v.)*)
LedRight ==
  SPI_SS = 0 /\ top_state = "DISPLAY_LED" => led = SubSeq(Bits(bytes[3], 8), 6, 8)
=============================================================================
