---------------------------- MODULE PacketQueue ----------------------------
(***************************************************************************)
(* What the receive side of spi_slave promises spi_mm: a bounded first-in  *)
(* first-out queue whose head is presented, emptied by an INIT packet.  A  *)
(* packet that may enter does so at the step at which it arrives: none is  *)
(* passed over, and none is removed at that step.                          *)
(***************************************************************************)
EXTENDS Sequences, Naturals

CONSTANTS Depth, NoPacket

VARIABLES
  arriving,    \* the packet that ends at this step, chosen by the host
  open,        \* the first INIT packet has been seen
  queue,
  presented    \* what spi_mm sees

pqVars == <<arriving, open, queue, presented>>

Presented(q) == IF q = << >> THEN NoPacket ELSE Head(q)

Init ==
  /\ arriving = NoPacket
  /\ open = FALSE
  /\ queue = << >>
  /\ presented = NoPacket

Opens == arriving # NoPacket /\ arriving.op = "INIT"

(* Before the first INIT, and while the queue is full, a packet is refused. *)
Enters ==
  /\ arriving # NoPacket
  /\ arriving.op # "INIT"
  /\ open
  /\ Len(queue) < Depth

Restart ==
  /\ Opens
  /\ open' = TRUE
  /\ queue' = <<arriving>>
  /\ presented' = arriving

Enqueue ==
  /\ Enters
  /\ queue' = Append(queue, arriving)
  /\ presented' = Presented(queue')
  /\ UNCHANGED open

Dequeue ==
  /\ ~Opens /\ ~Enters
  /\ queue # << >>
  /\ queue' = Tail(queue)
  /\ presented' = Presented(queue')
  /\ UNCHANGED open

Rest ==
  /\ ~Opens /\ ~Enters
  /\ UNCHANGED <<open, queue, presented>>

(* What arrives next is the host's business.                               *)
Next == Restart \/ Enqueue \/ Dequeue \/ Rest

Spec == Init /\ [][Next]_pqVars
=============================================================================
