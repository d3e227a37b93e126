------------------------------ MODULE HostLink ------------------------------
(***************************************************************************)
(* The SPI link as the programs at its two ends use it: spi_send and       *)
(* spi_read of comet2/host_server/spi_lib.c on the host, the registers     *)
(* F000..F005 on the CPU.  A transfer is one step: a packet goes in, the   *)
(* word that the CPU has queued comes out.  SpiSlave and SpiMm have the    *)
(* edges below this.                                                       *)
(*                                                                         *)
(* A transfer is several USB transactions, the dispatch of a packet a few  *)
(* clock edges: the packets of one transfer are dispatched as far as the   *)
(* mailbox allows before the next (Settled).                               *)
(***************************************************************************)
EXTENDS Integers, Sequences

CONSTANTS
  Depth,      \* packets the chip queues (8)
  Retries     \* transfers of one spi_read (50)

ASSUME LinkAssumption == Depth \in Nat \ {0} /\ Retries \in Nat \ {0, 1}

VARIABLES
  fifo,       \* packets received and not yet dispatched
  mail,       \* the packet in the CPU's mailbox (status bit 0), or <<>>
  outbox      \* the word on its way to the host (status bit 1), or <<>>

linkVars == <<fifo, mail, outbox>>

(* What a packet is to the chip: a poll, a character for the program, or   *)
(* a reply that the host sent back.                                        *)
Nop        == [op |-> "NOP", ch |-> 0]
Echo       == [op |-> "ECHO", ch |-> 0]
InChar(ch) == [op |-> "IN", ch |-> ch]

LinkInit == fifo = << >> /\ mail = << >> /\ outbox = << >>

-----------------------------------------------------------------------------
(* The chip's end of a transfer: the packet is queued or, in a full queue, *)
(* dropped; the word that was waiting has been read.                       *)
TransferUnbounded(p) ==     \* mutant
  /\ fifo' = Append(fifo, p)
  /\ outbox' = << >>
  /\ UNCHANGED mail
Transfer(p) ==
  /\ fifo' = IF Len(fifo) < Depth THEN Append(fifo, p) ELSE fifo
  /\ outbox' = << >>
  /\ UNCHANGED mail

Settled == mail # << >> \/ fifo = << >>

(* spi_mm: polls are consumed, anything else waits for the CPU.            *)
Dispatch ==
  /\ ~Settled
  /\ fifo' = Tail(fifo)
  /\ mail' = IF Head(fifo) = Nop THEN << >> ELSE <<Head(fifo)>>
  /\ UNCHANGED outbox

(* spi_read sends its four bytes again until bit 7 of the reply is set.    *)
(* xfer_spi has by then replaced them with the reply: from the second try  *)
(* on, the packet is the quiet reply of the first (40 00 00 00), which the *)
(* chip takes for a command.                                               *)
ReadTry(tries) == Transfer(IF tries = 0 THEN Nop ELSE Echo)

(* A word is returned if it comes before the last try (retries <           *)
(* max_retries at the end).                                                *)
Returns(tries) == outbox # << >> /\ tries + 1 < Retries
GivesUp(tries) == tries + 1 = Retries

(* spi_send looks at bit 6 of the reply only, which is always 1: one       *)
(* transfer, and the word that came with it is not looked at.              *)
Send(p) == Transfer(p)

(* The CPU's accesses: a word for the host (F004, F005), the end of a mail *)
(* (F003).                                                                 *)
MayAlways   == outbox \in Seq(Int)     \* mutant: no look at status bit 1
MayStore    == outbox = << >>
StoreWord(w) == MayStore /\ outbox' = <<w>> /\ UNCHANGED <<fifo, mail>>
AckMail     == mail' = << >> /\ UNCHANGED <<fifo, outbox>>
=============================================================================
