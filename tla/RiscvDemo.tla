------------------------------ MODULE RiscvDemo ------------------------------
(***************************************************************************)
(* The RISC-V example: the script of riscv/host_server/main.c, the loader  *)
(* of riscv/top.v and the program riscv/host_server/firmware/main.c, over  *)
(* the link of HostLink.  spi/spi_slave.v keeps one packet (Depth = 1) and *)
(* spi_mm.v one mail; while the mail waits, every packet waits.            *)
(*                                                                         *)
(* The script sleeps before every send, and before a read of a result that *)
(* takes time, until the chip is at rest (Rested).                         *)
(***************************************************************************)
EXTENDS HostLink, FiniteSetsExt

CONSTANTS
  Halves,        \* 16-bit words main makes of the firmware file, none if it is empty
  Sessions,      \* how often main is run
  KillAnywhere   \* may it be stopped while the chip still has its packets

ASSUME DemoAssumption ==
  /\ Depth = 1
  /\ Halves \in Nat
  /\ Sessions \in 1..8 /\ KillAnywhere \in BOOLEAN

VARIABLES
  at, tries, only,       \* main: its next step, spi_read, --load-only
  ram, buf, addr,        \* top.v: memory, firmware_data_buf, counter_firmware_address
  cpu, results, mat,     \* the program: words to store, matrix elements so far
  led,
  session, printed, handled   \* history; the last two of this session

hostVars == <<at, tries, only, session, printed>>
loadVars == <<ram, buf, addr>>
cpuVars  == <<cpu, results, mat, led, handled>>
vars == <<linkVars, hostVars, loadVars, cpuVars>>

Cmd(op, value) == [op |-> op, ch |-> value]

(* A half-word of the file that a session sends; every session has its own.*)
Half(s, k) == 100 * s + k

(* main, step by step.                                                     *)
mat0 == <<1, 2, 3, 1>>
mat1 == <<10, 0, 5, 2>>
Matrix(m)  == [n \in DOMAIN m |-> Cmd("MATRIX", m[n])]
Read       == Cmd("READ", 0)      \* spi_read after a sleep
ReadAtOnce == Cmd("READ", 1)      \* and without one
Load(s) ==
  <<Cmd("INIT", 0)>> \o [k \in 1..Halves |-> Cmd("FIRM", Half(s, k))] \o <<Cmd("START", 0)>>
Demo ==
  <<Cmd("LED", 1), Cmd("LED", 2), Cmd("LED", 3), Cmd("LED", 7),
    Cmd("POW", 125), Read, Cmd("FIB", 20), Read>>
  \o Matrix(mat0) \o Matrix(mat1)
  \o <<Read, ReadAtOnce, ReadAtOnce, ReadAtOnce, Cmd("GRADIENT", 0)>>
Script == Load(session) \o IF only THEN << >> ELSE Demo

Done   == at > Len(Script)
Loaded == at > Halves + 2

TypeOK ==
  /\ at \in 1..Halves + 3 + Len(Demo) /\ tries \in 0..Retries - 1 /\ only \in BOOLEAN
  /\ session \in 1..Sessions /\ Len(printed) <= 6
  /\ ram \in [0..Halves - 1 -> Nat \X Nat] /\ buf \in Nat /\ addr \in 0..Halves * Sessions
  /\ cpu \in {"off", "idle", "put", "gradient"} /\ led \in 0..7
  /\ Len(results) <= 4 /\ (cpu = "put" => results # << >>) /\ Len(mat) < 8
  /\ Len(fifo) <= Depth /\ Len(mail) <= 1 /\ Len(outbox) <= 1

Init ==
  /\ LinkInit
  /\ at = 1 /\ tries = 0 /\ only \in BOOLEAN /\ session = 1 /\ printed = << >>
  /\ ram = [w \in 0..Halves - 1 |-> <<0, 0>>] /\ buf = 0 /\ addr = 0
  /\ cpu = "off" /\ results = << >> /\ mat = << >> /\ led = 0 /\ handled = << >>

-----------------------------------------------------------------------------
(* The chip.  INIT stops the CPU and restarts the load; two half-words     *)
(* make a word of memory; START lets go of the CPU, which then begins.     *)

InitCpuKeepsAddress == cpu' = "off" /\ results' = << >> /\ UNCHANGED <<mat, led, handled, loadVars>>   \* mutant
InitCpu ==
  /\ cpu' = "off" /\ results' = << >>
  /\ addr' = 0 /\ buf' = 0
  /\ UNCHANGED <<ram, mat, led, handled>>

WriteMemory(half) ==
  /\ IF addr % 2 = 0
     THEN buf' = half /\ UNCHANGED ram
     ELSE ram' = [ram EXCEPT ![(addr \div 2) % Halves] = <<buf, half>>] /\ UNCHANGED buf
  /\ addr' = addr + 1
  /\ UNCHANGED cpuVars

StartCpu ==
  /\ IF cpu = "off"
     THEN cpu' = "idle" /\ mat' = << >> /\ handled' = << >>
     ELSE UNCHANGED <<cpu, mat, handled>>
  /\ UNCHANGED <<results, led, loadVars>>

Serve ==
  LET p == Head(fifo)
  IN /\ ~Settled
     /\ IF p.op \in {"INIT", "FIRM", "START"}
        THEN /\ fifo' = Tail(fifo) /\ UNCHANGED <<mail, outbox>>
             /\ \/ p.op = "INIT" /\ InitCpu
                \/ p.op = "FIRM" /\ WriteMemory(p.ch)
                \/ p.op = "START" /\ StartCpu
        ELSE Dispatch /\ UNCHANGED <<loadVars, cpuVars>>
     /\ UNCHANGED hostVars

-----------------------------------------------------------------------------
(* The program.                                                            *)

fib[n \in Nat] == IF n = 0 THEN 0 ELSE IF n <= 2 THEN 1 ELSE fib[n - 2] + fib[n - 1]

(* m0 and m1 of two rows each, one element after the other.                *)
matrix_mult(m) ==
  [n \in 1..4 |-> LET j == (n - 1) \div 2
                      i == (n - 1) % 2
                  IN FoldSet(LAMBDA k, sum : sum + m[2 * j + k + 1] * m[4 + 2 * k + i + 1],
                             0, 0..1)]

(* What the program answers to a command, given the elements it has.       *)
Answer(p) ==
  CASE p.op = "FIB" -> <<fib[p.ch]>>
    [] p.op = "POW" -> <<p.ch * p.ch>>
    [] p.op = "MATRIX" /\ Len(mat) = 7 -> matrix_mult(Append(mat, p.ch))
    [] OTHER -> << >>

(* It takes the mail, gives the mailbox back, and acts.                    *)
AckLate == AckMail \/ UNCHANGED linkVars    \* mutant: status bit 0 is still set
Ack     == AckMail
Take ==
  /\ cpu = "idle" /\ mail # << >>
  /\ Ack
  /\ LET p == mail[1]
     IN /\ led' = IF p.op = "LED" THEN p.ch % 8 ELSE led
        /\ results' = Answer(p)
        /\ mat' = CASE p.op # "MATRIX" -> mat
                    [] p.op = "MATRIX" /\ Len(mat) = 7 -> << >>
                    [] OTHER -> Append(mat, p.ch)
        /\ cpu' = CASE p.op = "GRADIENT" -> "gradient"
                    [] Answer(p) # << >> -> "put"
                    [] OTHER -> "idle"
        /\ handled' = IF p = Echo THEN handled ELSE Append(handled, p)
  /\ UNCHANGED <<hostVars, loadVars>>

(* It polls status bit 1 before every word.                                *)
MayPutIdle == MayStore /\ mail = << >>      \* mutant: polls bits 0 and 1
MayPut     == MayStore
Put ==
  /\ cpu = "put" /\ MayPut
  /\ StoreWord(Head(results))
  /\ results' = Tail(results)
  /\ cpu' = IF Len(results) = 1 THEN "idle" ELSE "put"
  /\ UNCHANGED <<hostVars, loadVars, mat, led, handled>>

(* Seven colours fade in; the LED is dark in between and at the end.       *)
Fade ==
  /\ cpu = "gradient"
  /\ \/ \E col \in 1..7 : led' \in {0, col} /\ UNCHANGED cpu
     \/ led' = 0 /\ cpu' = "idle"
  /\ UNCHANGED <<linkVars, hostVars, loadVars, results, mat, handled>>

-----------------------------------------------------------------------------
(* The script.                                                             *)

Rested == Settled /\ ~(cpu = "idle" /\ mail # << >>) /\ ~(cpu = "put" /\ MayPut)

SendStep ==
  /\ ~Done /\ Script[at].op # "READ"
  /\ Rested
  /\ Send(Script[at])
  /\ at' = at + 1
  /\ UNCHANGED <<tries, only, session, printed, loadVars, cpuVars>>

(* spi_read prints the three bytes of its last transfer, whatever it       *)
(* returns; a thousand tries outlast the program.                          *)
ReadStep ==
  /\ ~Done /\ Script[at].op = "READ"
  /\ (Script[at] = Read /\ tries = 0) \/ GivesUp(tries) => Rested
  /\ ReadTry(tries)
  /\ IF outbox # << >> \/ GivesUp(tries)
     THEN /\ printed' = Append(printed, IF outbox # << >> THEN outbox[1] ELSE 0)
          /\ at' = at + 1 /\ tries' = 0
     ELSE tries' = tries + 1 /\ UNCHANGED <<at, printed>>
  /\ UNCHANGED <<only, session, loadVars, cpuVars>>

(* main ends, or is stopped, and is run again.                             *)
Rerun ==
  /\ session < Sessions
  /\ KillAnywhere \/ (fifo = << >> /\ mail = << >>)
  /\ session' = session + 1 /\ only' \in BOOLEAN
  /\ at' = 1 /\ tries' = 0 /\ printed' = << >>
  /\ UNCHANGED <<linkVars, loadVars, cpuVars>>

Host == SendStep \/ ReadStep
Cpu  == Take \/ Put
Next == Host \/ Serve \/ Cpu \/ Fade \/ Rerun

Spec == Init /\ [][Next]_vars
FairSpec == Spec /\ WF_vars(Host) /\ WF_vars(Serve) /\ WF_vars(Cpu)

-----------------------------------------------------------------------------
(* The complete words of a file; an odd half-word at its end waits for     *)
(* its other half in firmware_data_buf and is not written.                 *)
Image(s) == [w \in 0..Halves \div 2 - 1 |-> <<Half(s, 2 * w + 1), Half(s, 2 * w + 2)>>]
Holds(s) == \A w \in DOMAIN Image(s) : ram[w] = Image(s)[w]
Started  == Loaded /\ \A n \in DOMAIN fifo : fifo[n].op # "START"

(* The CPU never runs on a mixture of two images, or on part of one; once  *)
(* main has sent START it is the image of this session, as far as its      *)
(* words are complete.  (INIT, FIRM and START of spi_mm.v, WRITE_MEMORY    *)
(* and INIT_CPU of top.v.)                                                 *)
StartsLoaded ==
  /\ cpu # "off" => \E s \in 1..session : Holds(s)
  /\ Started => cpu # "off" /\ Holds(session)

(* Every command of the session is handled once and in order, whatever     *)
(* replies were sent back as packets in between.  (The one packet of the   *)
(* slave, the mailbox, the acknowledgement of firmware/main.c.)            *)
IsCommand(p) == p.op \notin {"READ", "NOP", "ECHO", "INIT", "FIRM", "START"}
Rank(n) == Cardinality({m \in 1..n : IsCommand(Script[m])})   \* commands up to step n
Waiting(q) == IF q # << >> /\ IsCommand(q[1]) THEN q ELSE << >>
HandledOnce ==
  Started =>
    LET all == handled \o Waiting(mail) \o Waiting(fifo)
    IN  /\ Len(all) = Rank(at - 1)
        /\ \A n \in 1..at - 1 : IsCommand(Script[n]) => all[Rank(n)] = Script[n]

(* What main prints are the answers to what it asked, as its README says:  *)
(* 125 * 125, fib(20) and the product of the matrices, of this session and *)
(* no other; and the LED shows the colour sent last.                       *)
Answers == <<15625, 6765, 20, 4, 35, 2>>
ResultsMatch ==
  /\ printed = SubSeq(Answers, 1, Len(printed))
  /\ Started /\ Rested /\ at <= Halves + 7 =>
       \/ at = Halves + 3
       \/ led = Script[at - 1].ch

(* What fib and matrix_mult make of the arguments in the script.           *)
ComputesAnswers == fib[20] = 6765 /\ matrix_mult(mat0 \o mat1) = <<20, 4, 35, 2>>

(* A run of main that is not stopped ends with the program showing the     *)
(* gradient, which it reaches only when no result has been left behind.    *)
Finishes ==
  []<>(Done /\ (~only => handled # << >> /\ handled[Len(handled)].op = "GRADIENT"))
=============================================================================
