----------------------------- MODULE CometUart -----------------------------
(***************************************************************************)
(* The UART console: uart_mm.v between a terminal, which types whenever it *)
(* likes, and the program, which reads and writes one character at a time  *)
(* as UAIGETC and UAOPUTC of svc_handler_uart.cas do (and uart_echo.c in   *)
(* riscv/).  A step is one clock edge.                                     *)
(***************************************************************************)
EXTENDS UartMm, Sequences

CONSTANTS
  RxGap,        \* least edges between two received bytes (1040 in the source)
  UartGap,      \* least edges between two bus accesses of the program
  UartCalls,    \* subset of {"GETC", "PUTC", "FILL", "CLEAR"}
  Collisions    \* a byte may arrive at the edge that serves a read

ASSUME UartTimingAssumption == RxGap \in Nat \ {0} /\ UartGap \in Nat
ASSUME UartEnvironmentAssumption ==
  /\ UartCalls \subseteq {"GETC", "PUTC", "FILL", "CLEAR"}
  /\ Collisions \in BOOLEAN

ProgramStates == {"compute", "get_poll", "get_status", "get_read", "get_data",
                  "put_poll", "put_status", "put_write", "fill_poll", "fill_status"}

VARIABLES
  \* the terminal and uart_rx
  rx_byte_valid, rx_byte,
  rx_wait,       \* edges until the next byte can be complete
  \* the program and its bus
  pc, wait,
  rd_req, wr_req,
  wr_data,
  \* history
  arrived,       \* bytes the terminal sent
  accepted,      \* those that found room in the FIFO
  received,      \* what the program read
  written,       \* bytes the program wrote
  transmitted    \* bytes whose frame is complete

lineVars    == <<rx_byte_valid, rx_byte, rx_wait, arrived>>
programVars == <<pc, wait, rd_req, wr_req, wr_data, written>>
logVars     == <<accepted, received, transmitted>>
vars        == <<uartVars, lineVars, programVars, logVars>>

TypeOK ==
  /\ UartTypeOK
  /\ rx_byte_valid \in BOOLEAN
  /\ rx_byte \in RxByte
  /\ rx_wait \in 0..RxGap
  /\ pc \in ProgramStates
  /\ wait \in 0..UartGap
  /\ rd_req \in Registers
  /\ wr_req \in {"none", "data", "clear"}
  /\ wr_data \in TxByte
  /\ arrived \in RxByte
  /\ accepted \in Seq(RxByte)
  /\ received \in Seq(RxByte)
  /\ written \in TxByte
  /\ transmitted \in Seq(TxByte)

Init ==
  /\ UartInit
  /\ rx_byte_valid = FALSE /\ rx_byte = 0 /\ rx_wait = 0
  /\ pc = "compute" /\ wait = 0
  /\ rd_req = "none" /\ wr_req = "none" /\ wr_data = 0
  /\ arrived = 0
  /\ accepted = << >> /\ received = << >>
  /\ written = 0
  /\ transmitted = << >>

-----------------------------------------------------------------------------
(* uart_rx presents a byte for one edge when its stop bit is sampled.      *)
ByteArrives ==
  /\ rx_wait = 0
  /\ arrived < MaxArrivals
  /\ arrived' = arrived + 1
  /\ rx_byte_valid' = TRUE
  /\ rx_byte' = arrived + 1
  /\ rx_wait' = RxGap - 1

LineQuiet ==
  /\ rx_byte_valid' = FALSE
  /\ rx_wait' = IF rx_wait = 0 THEN 0 ELSE rx_wait - 1
  /\ UNCHANGED <<rx_byte, arrived>>

LineTick == ByteArrives \/ LineQuiet

(* The register whose read is served at the next edge.                     *)
ReadsNext == IF direct THEN buf_rd_req' ELSE rd_req'

NoCollision == ~(rx_byte_valid' /\ ReadsNext = "data")

-----------------------------------------------------------------------------
Bus(rd, wr) == rd_req' = rd /\ wr_req' = wr

(* The program computes as long as it likes between two calls.  FILL is a  *)
(* writer that looks at bit 3, "TX FIFO full", in place of bit 1.          *)
Compute ==
  /\ pc = "compute"
  /\ \/ pc' = "compute" /\ Bus("none", "none")
     \/ "GETC" \in UartCalls /\ pc' = "get_poll" /\ Bus("none", "none")
     \/ "PUTC" \in UartCalls /\ written < MaxSent /\ pc' = "put_poll" /\ Bus("none", "none")
     \/ "FILL" \in UartCalls /\ written < MaxSent /\ pc' = "fill_poll" /\ Bus("none", "none")
     \/ "CLEAR" \in UartCalls /\ pc' = "compute" /\ Bus("none", "clear")
  /\ UNCHANGED <<wr_data, written>>

PollStatus ==
  /\ pc \in {"get_poll", "put_poll", "fill_poll"}
  /\ pc' = CASE pc = "get_poll"  -> "get_status"
             [] pc = "put_poll"  -> "put_status"
             [] pc = "fill_poll" -> "fill_status"
  /\ Bus("status", "none")
  /\ UNCHANGED <<wr_data, written>>

SeeStatus ==
  /\ pc \in {"get_status", "put_status", "fill_status"}
  /\ data_valid
  /\ pc' = CASE pc = "get_status"  -> IF rd_data.ready THEN "get_read" ELSE "get_poll"
             [] pc = "put_status"  -> IF rd_data.busy THEN "put_poll" ELSE "put_write"
             [] pc = "fill_status" -> IF rd_data.full THEN "fill_poll" ELSE "put_write"
  /\ Bus("none", "none")
  /\ UNCHANGED <<wr_data, written>>

ReadData ==
  /\ pc = "get_read"
  /\ pc' = "get_data"
  /\ Bus("data", "none")
  /\ UNCHANGED <<wr_data, written>>

SeeData ==
  /\ pc = "get_data"
  /\ data_valid
  /\ pc' = "compute"
  /\ Bus("none", "none")
  /\ UNCHANGED <<wr_data, written>>

WriteData ==
  /\ pc = "put_write"
  /\ pc' = "compute"
  /\ Bus("none", "data")
  /\ wr_data' = written + 1
  /\ written' = written + 1

WaitForBus ==
  /\ \/ wait > 0
     \/ pc \in {"get_status", "put_status", "fill_status", "get_data"} /\ ~data_valid
  /\ wait' = IF wait > 0 THEN wait - 1 ELSE 0
  /\ Bus("none", "none")
  /\ UNCHANGED <<pc, wr_data, written>>

ProgramStep ==
  /\ wait = 0
  /\ Compute \/ PollStatus \/ SeeStatus \/ ReadData \/ SeeData \/ WriteData
  /\ wait' = IF pc' \in {"get_status", "put_status", "fill_status", "get_data"} \/ pc' = pc
             THEN 0 ELSE UartGap

ProgramTick == WaitForBus \/ ProgramStep

-----------------------------------------------------------------------------
LogTick ==
  /\ accepted' = IF Stores(rx_byte_valid) THEN Append(accepted, rx_byte) ELSE accepted
  /\ received' = IF Served(rd_req) = "data" THEN Append(received, ReadByte) ELSE received
  /\ transmitted' = IF EndsFrame THEN Append(transmitted, tx_byte) ELSE transmitted

Tick ==
  /\ LineTick
  /\ ProgramTick
  /\ UartTick(rd_req, wr_req, wr_data, rx_byte_valid, rx_byte)
  /\ Collisions \/ NoCollision
  /\ LogTick

Next == Tick

Spec == Init /\ [][Next]_vars

(* The clock runs while an edge would change a register of the UART.       *)
FairSpec == Spec /\ WF_uartVars(Next)

-----------------------------------------------------------------------------
Pending(fifo, first, n) == [i \in 1..n |-> fifo[(first + i - 1) % FifoDepth]]

If(b, x) == IF b THEN <<x>> ELSE << >>

(* The program reads the bytes that found room in the FIFO, in order, each *)
(* once, and the rest of them is what the FIFO holds: the pointers and the *)
(* count, which different statements move, never disagree.                 *)
ReceivesInOrder == accepted = received \o Pending(rx_fifo, rx_rd_ptr, rx_count)

(* Every byte the program wrote is on its way, at one stage of the         *)
(* transmitter, or has been sent, in order: none is overtaken or dropped   *)
(* between the poll of the status and the rise of busy.                    *)
SendsInOrder ==
  [i \in 1..written |-> i] =
    transmitted \o If(busy, tx_byte) \o If(tx_wr_en, tx_wr_data)
      \o Pending(tx_fifo, tx_rd_ptr, tx_count) \o If(wr_req = "data", wr_data)

(* What the program has written is eventually on the line: the FIFO is     *)
(* never stuck behind a busy bit that does not fall or a count that is off. *)
EverythingSent == []<>(Len(transmitted) = written)

=============================================================================
