-------------------------------- MODULE SpiHw --------------------------------
(***************************************************************************)
(* The spi_hw example: spi_hw/spi_host/main.c and spi_lib.c talk to the    *)
(* state machine of spi_hw/top.v through the iCE40's hard SPI block, eight *)
(* bytes a command.  The block is outside the repository: it has a receive *)
(* register, a transmit register and the byte that is being shifted out,   *)
(* which it takes from the transmit register when a byte begins.  So what  *)
(* top.v writes after a byte goes out with the next but one.               *)
(*                                                                         *)
(* top.v is done with a byte before the next one ends (a byte is at least  *)
(* 32 of its clock edges, a register access two or three).                 *)
(***************************************************************************)
EXTENDS Integers, Sequences

CONSTANTS
  MaxRetries,   \* transfers of one command (10)
  Sessions      \* how often main is run

ASSUME HwAssumption == MaxRetries \in Nat \ {0, 1} /\ Sessions \in Nat \ {0}

VARIABLES
  at, k, recv, retries,       \* main's next command, its next byte, the reply from byte 2 on
  rx, tx, shift,              \* the SPI block
  state_spi, is_spi_init, counter_read, counter_send, command_data, data_to_send,
  data_vector, counter_vector, led,
  session, got                \* history: the replies of this session

hostVars  == <<at, recv, retries, session, got>>
vectors   == <<data_vector, counter_vector>>
vars == <<hostVars, k, rx, tx, shift, state_spi, is_spi_init, counter_read, counter_send,
          command_data, data_to_send, vectors, led>>

INIT == 1
WR_INVERTED == 2
WR_LEDS == 4
WR_VEC == 6
RD_VEC == 7
InitByte == 17
Status   == 64
Byte == 0..255
Invert(b) == 255 - b

(* The vector's n-th value is n * 0x01020304; least significant byte first.*)
VecBytes(n) == <<4 * n, 3 * n, 2 * n, n>>
Command(op, bytes, last) == <<op>> \o bytes \o <<0, 0, last>>
Script ==
  <<Command(INIT, <<0, 0, 0, 0>>, InitByte),
    Command(WR_INVERTED, <<56, 174, 59, 72>>, 0),
    Command(WR_LEDS, <<3, 0, 0, 0>>, 0), Command(WR_LEDS, <<4, 0, 0, 0>>, 0)>>
  \o [n \in 1..4 |-> Command(WR_VEC, VecBytes(n), 0)]
  \o [n \in 1..4 |-> Command(RD_VEC, <<0, 0, 0, 0>>, 0)]

(* The writes to the block's registers that enable it come first.          *)
Setup == <<"INIT_SPICR0", "INIT_SPICR1", "INIT_SPICR2", "INIT_SPIBR", "INIT_SPICSR",
           "WAIT_RECEPTION">>

TypeOK ==
  /\ at \in 1..Len(Script) + 1 /\ k \in 0..7 /\ Len(recv) <= 6
  /\ retries \in 0..MaxRetries - 1 /\ session \in 1..Sessions
  /\ rx \in Seq(Byte) /\ Len(rx) <= 1 /\ tx \in Seq(Byte) /\ Len(tx) <= 1 /\ shift \in Byte
  /\ state_spi \in {Setup[n] : n \in DOMAIN Setup}
                     \cup {"TRANSMIT_READY", "TRANSMIT", "READ_INIT", "READ_OPCODE"}
  /\ counter_read \in 0..7 /\ counter_send \in 0..6
  /\ command_data \in [0..7 -> Byte] /\ data_to_send \in Byte
  /\ data_vector \in [0..15 -> Byte] /\ counter_vector \in 0..15 /\ led \in 0..7

Init ==
  /\ at = 1 /\ k = 0 /\ recv = << >> /\ retries = 0 /\ session = 1 /\ got = << >>
  /\ rx = << >> /\ tx = << >> /\ shift \in {0, Status}
  /\ state_spi = "INIT_SPICR0" /\ is_spi_init = FALSE
  /\ counter_read = 0 /\ counter_send = 0
  /\ command_data = [n \in 0..7 |-> 0] /\ data_to_send = 0
  /\ data_vector = [n \in 0..15 |-> 0] /\ counter_vector = 0 /\ led = 0

-----------------------------------------------------------------------------
(* top.v, one register access a step.                                      *)

Configure ==
  \E n \in 1..Len(Setup) - 1 :
    /\ state_spi = Setup[n]
    /\ state_spi' = Setup[n + 1]
    /\ UNCHANGED <<hostVars, k, rx, tx, shift, is_spi_init, counter_read, counter_send,
                   command_data, data_to_send, vectors, led>>

(* Bit 3 of the status: a byte has come.  Six bytes go back per command.   *)
RepliesAlways == TRUE     \* mutant
Replies       == counter_send < 6
WaitReception ==
  /\ state_spi = "WAIT_RECEPTION" /\ rx # << >>
  /\ state_spi' = CASE ~is_spi_init -> "READ_INIT"
                    [] is_spi_init /\ Replies -> "TRANSMIT_READY"
                    [] OTHER -> "READ_OPCODE"
  /\ UNCHANGED <<hostVars, k, rx, tx, shift, is_spi_init, counter_read, counter_send,
                 command_data, data_to_send, vectors, led>>

(* Bit 4: the transmit register is free.                                   *)
WaitTransmitReady ==
  /\ state_spi = "TRANSMIT_READY" /\ tx = << >>
  /\ state_spi' = "TRANSMIT"
  /\ UNCHANGED <<hostVars, k, rx, tx, shift, is_spi_init, counter_read, counter_send,
                 command_data, data_to_send, vectors, led>>

Transmit ==
  /\ state_spi = "TRANSMIT"
  /\ tx' = <<IF counter_send = 0 THEN Status ELSE data_to_send>>
  /\ counter_send' = counter_send + 1
  /\ state_spi' = "READ_OPCODE"
  /\ UNCHANGED <<hostVars, k, rx, shift, is_spi_init, counter_read, command_data,
                 data_to_send, vectors, led>>

(* Everything up to the byte 11h is thrown away: the next byte is the      *)
(* first of a command.                                                     *)
ReadInit ==
  /\ state_spi = "READ_INIT"
  /\ rx' = << >>
  /\ state_spi' = "WAIT_RECEPTION"
  /\ command_data' = [command_data EXCEPT ![counter_read] = rx[1]]
  /\ IF rx[1] = InitByte
     THEN is_spi_init' = TRUE /\ counter_read' = 0 /\ counter_send' = 0
     ELSE UNCHANGED <<is_spi_init, counter_read, counter_send>>
  /\ UNCHANGED <<hostVars, k, tx, shift, data_to_send, vectors, led>>

(* What a byte of the current command does to the next reply byte and to   *)
(* the vector; only four bytes after the opcode count for a vector.        *)
InVectorOff == counter_read < 6     \* mutant
InVector    == counter_read < 5
OpcodeByte(b) ==
  IF counter_read = 0
  THEN data_to_send' = b /\ UNCHANGED vectors
  ELSE CASE command_data[0] = WR_INVERTED -> data_to_send' = Invert(b) /\ UNCHANGED vectors
         [] command_data[0] = WR_LEDS -> data_to_send' = b /\ UNCHANGED vectors
         [] command_data[0] = WR_VEC /\ InVector ->
              /\ data_vector' = [data_vector EXCEPT ![counter_vector] = b]
              /\ counter_vector' = (counter_vector + 1) % 16
              /\ UNCHANGED data_to_send
         [] command_data[0] = RD_VEC /\ InVector ->
              /\ data_to_send' = data_vector[counter_vector]
              /\ counter_vector' = (counter_vector + 1) % 16
              /\ UNCHANGED data_vector
         [] OTHER -> UNCHANGED <<data_to_send, vectors>>

CommandEnds ==
  IF counter_read = 7
  THEN /\ counter_read' = 0 /\ counter_send' = 0
       /\ led' = IF command_data[0] = WR_LEDS THEN command_data[1] % 8 ELSE led
  ELSE counter_read' = counter_read + 1 /\ UNCHANGED <<counter_send, led>>

ReadOpcode ==
  /\ state_spi = "READ_OPCODE"
  /\ rx' = << >>
  /\ state_spi' = "WAIT_RECEPTION"
  /\ command_data' = [command_data EXCEPT ![counter_read] = rx[1]]
  /\ OpcodeByte(rx[1]) /\ CommandEnds
  /\ UNCHANGED <<hostVars, k, tx, shift, is_spi_init>>

-----------------------------------------------------------------------------
(* A byte ends on the wire, and the next begins: the host has `shift', the *)
(* block the host's byte.  Without a byte to send the block sends anything.*)
OnTheWire ==
  /\ state_spi = "WAIT_RECEPTION" /\ rx = << >>
  /\ rx' = <<Script[at][k + 1]>>
  /\ IF tx = << >> THEN shift' \in {0, Status} ELSE shift' = tx[1]
  /\ tx' = << >>
  /\ k' = (k + 1) % 8
  /\ UNCHANGED <<state_spi, is_spi_init, counter_read, counter_send, command_data,
                 data_to_send, vectors, led>>

Received == IF k < 2 THEN << >> ELSE Append(recv, shift)

(* The first two bytes are garbage; the third is the status.               *)
NextByte ==
  /\ at <= Len(Script) /\ k < 7
  /\ OnTheWire
  /\ recv' = Received
  /\ UNCHANGED <<at, retries, session, got>>

(* The command is sent again if bit 6 of the status is 0, at most          *)
(* MaxRetries times; the reply is what came with the last transfer.        *)
Acknowledged == (recv[1] \div 64) % 2 = 1
LastByte ==
  /\ at <= Len(Script) /\ k = 7
  /\ OnTheWire
  /\ recv' = << >>
  /\ IF Acknowledged \/ retries + 1 = MaxRetries
     THEN /\ got' = Append(got, Tail(Received))
          /\ at' = at + 1 /\ retries' = 0
     ELSE retries' = retries + 1 /\ UNCHANGED <<at, got>>
  /\ UNCHANGED session

(* main ends or is stopped, between two transfers, and is run again.       *)
Rerun ==
  /\ k = 0 /\ session < Sessions
  /\ session' = session + 1
  /\ at' = 1 /\ retries' = 0 /\ got' = << >>
  /\ UNCHANGED <<k, recv, rx, tx, shift, state_spi, is_spi_init, counter_read, counter_send,
                 command_data, data_to_send, vectors, led>>

Next ==
  \/ Configure \/ WaitReception \/ WaitTransmitReady \/ Transmit \/ ReadInit \/ ReadOpcode
  \/ NextByte \/ LastByte \/ Rerun

Spec == Init /\ [][Next]_vars

-----------------------------------------------------------------------------
(* The replies are in step with the commands: the first byte is the        *)
(* opcode, then come the inverted bytes, the colour, or the values of the  *)
(* vector as this session wrote them, wherever an earlier session left the *)
(* vector's counter; and the LED has the colour acknowledged last.         *)
(* (counter_read, counter_send and counter_vector of top.v, the retries of *)
(* spi_command_send_recv.)                                                 *)
Expected(n) ==
  LET sent == Script[n]
      op   == sent[1]
  IN CASE op = WR_INVERTED -> <<op>> \o [m \in 1..4 |-> Invert(sent[m + 1])]
       [] op = WR_LEDS -> SubSeq(sent, 1, 5)
       [] op = RD_VEC -> <<op>> \o VecBytes(n - 8)
       [] OTHER -> << >>
RepliesMatch ==
  /\ \A n \in DOMAIN got : Expected(n) # << >> => got[n] = Expected(n)
  /\ (at \in {4, 5} /\ k = 0 /\ rx = << >>) => led = Script[at - 1][2]
=============================================================================
