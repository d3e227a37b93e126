------------------------------ MODULE CometIo ------------------------------
(***************************************************************************)
(* A session of a host program with a program on the COMET II:             *)
(* comet2_spi_loader.c or comet2_spi_run.c loads an image, starts the CPU  *)
(* and then is its console, over the link of HostLink; on the CPU, IN and  *)
(* OUT of svc_handler_spi.cas.  The two host programs share the reading of *)
(* stdin and differ in their loop.                                         *)
(*                                                                         *)
(* Time is counted in unsuccessful spi_reads: `left' is how many of them   *)
(* fit before the deadline.  The handlers on the CPU are much faster than  *)
(* a transfer (Prompt); between two calls the program may compute for any  *)
(* time.                                                                   *)
(***************************************************************************)
EXTENDS HostLink, SequencesExt

CONSTANTS
  Sessions,   \* the option records the run tries, each a member of Options
  Batch,      \* firmware packets of one burst (8)
  MaxBytes,   \* the largest image (0xF000 * 2)
  FixedReads, MaxReads, QuietGoal,   \* reads before INIT (10; 64 and 4)
  LineMax,    \* size of the line buffer (1024)
  Capture,    \* size of the loader's receive buffer (256)
  MaxKeys, MaxOuts, MaxIns,          \* bounds: characters typed, OUTs and INs
  Faults      \* what may happen that the programs do not handle

FaultKinds == {"last_try", "open_end", "long_line", "slow_loader"}

(* Characters: 1, 2, ... are printable ones in the order they are typed.   *)
NL  == 0
EOT == -1      \* 0x04, Ctrl-D
BS  == -2      \* 0x08 or 0x7f
ETX == -3      \* 0x03, Ctrl-C
EOF == -4      \* the end of stdin
Request == 0   \* the word 0x30; a word n >= 1 is the n-th character of OUT

(* parse_args, setup_raw_mode and the image: where input comes from, an -i *)
(* text of so many characters, a terminal or a pipe; -t and -e in reads.   *)
(* ahead: how many characters may be there before the program asks.        *)
Options == [prog : {"loader", "run"}, source : {"text", "raw", "pipe"}, text : Nat,
            ahead : Nat, idle : Nat \ {0}, drain : Nat, bytes : Nat, burst : BOOLEAN,
            safe : BOOLEAN]

ASSUME SessionsAssumption ==
  /\ Sessions \subseteq Options
  /\ \A o \in Sessions : o.prog = "run" /\ o.source = "text" => o.ahead > 0
ASSUME SizesAssumption ==
  /\ {Batch, MaxBytes, FixedReads, MaxReads, QuietGoal, Capture} \subseteq Nat \ {0}
  /\ FixedReads <= MaxReads
  /\ LineMax \in Nat \ {0, 1}
  /\ {MaxKeys, MaxOuts, MaxIns} \subseteq Nat
  /\ Faults \subseteq FaultKinds

VARIABLES
  opt,         \* the session's options; never changes
  pc,          \* where the host program is; the last three are its ends
  reads, quiet_reads,          \* drain_spi_output_until_quiet
  i,           \* bytes of the image sent
  image,       \* words the chip has been given in this session
  tries, left, \* spi_read; the deadline
  ch,          \* the character to send
  pos,         \* characters of the -i text consumed
  line,        \* characters of the line buffer not yet sent
  eof, eof_sent,
  cpu,         \* "off" until START
  outs, ins,   \* words of OUT stored, INs begun
  \* history
  keys,        \* what was typed
  meant,       \* what it means: the input so far, and the unfinished line
  shown,       \* what the host printed, or captured
  dropped,     \* what the loader's full buffer dropped
  received     \* what IN got

loadVars == <<reads, quiet_reads, i, image>>
srcVars  == <<pos, line, eof, eof_sent, keys, meant>>
logVars  == <<shown, dropped>>
cpuVars  == <<cpu, outs, ins, received>>
vars == <<linkVars, opt, pc, loadVars, tries, left, ch, srcVars, logVars, cpuVars>>

Ends  == {"idle", "asked", "error"}
Ended == pc \in Ends

Characters == {EOT, NL} \cup 1..MaxKeys \cup 1..opt.text \cup {BS}

TypeOK ==
  /\ opt \in Sessions
  /\ pc \in {"open", "drain", "init", "load", "start", "top", "read", "need", "line",
             "poll", "send"} \cup Ends
  /\ reads \in 0..MaxReads /\ quiet_reads \in 0..QuietGoal
  /\ i \in 0..opt.bytes /\ image \in Seq(Nat)
  /\ tries \in 0..Retries - 1 /\ left \in Nat
  /\ ch \in Characters
  /\ pos \in 0..opt.text
  /\ line \in Seq(Characters) /\ Len(line) < LineMax
  /\ eof \in BOOLEAN /\ eof_sent \in BOOLEAN
  /\ cpu \in {"off", "run", "out", "ask", "wait", "halt"}
  /\ outs \in 0..MaxOuts /\ ins \in 0..MaxIns
  /\ fifo \in Seq({Nop, Echo} \cup {InChar(c) : c \in Characters}) /\ Len(fifo) <= Depth
  /\ mail = << >> \/ \E c \in Characters : mail \in {<<Echo>>, <<InChar(c)>>}
  /\ outbox = << >> \/ \E w \in 0..MaxOuts : outbox = <<w>>
  /\ keys \in Seq(Characters \cup {ETX, EOF}) /\ Len(keys) <= MaxKeys
  /\ meant \in [done : Seq(Characters), part : Seq(Characters)]
  /\ shown \in Seq(1..MaxOuts) /\ dropped \in 0..MaxOuts
  /\ received \in Seq(Characters)

(* What the keys mean: line editing as the README describes it, without    *)
(* the limits of a buffer.  The README says nothing of the end of stdin;   *)
(* it gives one Ctrl-D, as in the code, and not the line feeds of the      *)
(* comments (EndGivesLineFeed).                                            *)
Text(done, part) == [done |-> done, part |-> part]
Edit(text, k) ==
  LET done == text.done  part == text.part
  IN IF k = ETX THEN text
     ELSE IF k > 0 THEN Text(done, Append(part, k))
     ELSE IF k = BS THEN Text(done, IF part = << >> THEN part ELSE Front(part))
     ELSE IF k # NL /\ part = << >> THEN Text(Append(done, EOT), part)
     ELSE Text(done \o part \o (IF k = EOF THEN <<NL, EOT>> ELSE <<NL>>), << >>)
Meant == meant.done \o meant.part

Pressed(k) == keys' = Append(keys, k) /\ meant' = Edit(meant, k)

(* main: everything is fresh, stdin not yet touched.                       *)
Init ==
  /\ opt \in Sessions
  /\ pc = "open"
  /\ reads = 0 /\ quiet_reads = 0 /\ i = 0 /\ image = << >>
  /\ tries = 0 /\ left = 0 /\ ch = NL
  /\ pos = 0 /\ line = << >> /\ eof = FALSE /\ eof_sent = FALSE /\ keys = << >>
  /\ meant = Text(<< >>, << >>)
  /\ cpu = "off" /\ outs = 0 /\ ins = 0 /\ received = << >>
  /\ shown = << >> /\ dropped = 0
  /\ LinkInit

-----------------------------------------------------------------------------
(* Loading.  What the program of an earlier session has left in the chip   *)
(* is an arbitrary answer to the reads; INIT flushes it (CometLink).       *)

(* read_firmware_file refuses an image of odd or excessive size.           *)
Open ==
  /\ pc = "open"
  /\ pc' = IF opt.bytes > MaxBytes \/ opt.bytes % 2 # 0 THEN "error" ELSE "drain"
  /\ UNCHANGED <<linkVars, opt, loadVars, tries, left, ch, srcVars, logVars, cpuVars>>

(* One of ten reads, or a read of drain_spi_output_until_quiet.            *)
DrainsOnUntilQuiet == quiet_reads < QuietGoal      \* mutant
DrainsOn == IF opt.safe THEN reads < MaxReads /\ quiet_reads < QuietGoal
                        ELSE reads < FixedReads
DrainRead ==
  /\ pc = "drain"
  /\ IF DrainsOn
     THEN /\ \E found \in BOOLEAN :
               quiet_reads' = IF found \/ ~opt.safe THEN 0 ELSE quiet_reads + 1
          /\ reads' = IF reads < MaxReads THEN reads + 1 ELSE reads
          /\ UNCHANGED pc
     ELSE /\ pc' = "init"
          /\ reads' = 0 /\ quiet_reads' = 0
  /\ UNCHANGED <<linkVars, opt, i, image, tries, left, ch, srcVars, logVars, cpuVars>>

SendInit ==
  /\ pc = "init"
  /\ pc' = "load"
  /\ image' = << >>
  /\ UNCHANGED <<linkVars, opt, reads, quiet_reads, i, tries, left, ch, srcVars, logVars,
                 cpuVars>>

(* A word at a time, or up to Batch words in one transfer.                 *)
WordsAtFull(from) == IF opt.burst THEN Batch ELSE 1    \* mutant: the last batch is full too
WordsAt(from) ==
  LET words == (opt.bytes - from) \div 2
  IN IF ~opt.burst THEN 1 ELSE IF words > Batch THEN Batch ELSE words
SendWords ==
  /\ pc = "load" /\ i < opt.bytes
  /\ image' = image \o [k \in 1..WordsAt(i) |-> i \div 2 + k]
  /\ i' = i + 2 * WordsAt(i)
  /\ UNCHANGED <<linkVars, opt, pc, reads, quiet_reads, tries, left, ch, srcVars, logVars,
                 cpuVars>>

Limit(end) == IF opt.prog = "run" /\ end THEN opt.drain ELSE opt.idle

SendStart ==
  /\ pc = "load" /\ i >= opt.bytes
  /\ pc' = "top"
  /\ cpu' = "run"
  /\ left' = Limit(eof)
  /\ UNCHANGED <<linkVars, opt, loadVars, tries, ch, srcVars, logVars, outs, ins, received>>

-----------------------------------------------------------------------------
(* The program on the CPU: SVC 1 (IN) reads a record of characters, SVC 2  *)
(* (OUT) writes them; between calls it computes, or has halted.            *)

(* A call begins.  Unless "last_try", not between the last two tries of a  *)
(* spi_read, which would lose the word.                                    *)
Begin ==
  /\ cpu = "run"
  /\ "last_try" \notin Faults => ~(pc = "read" /\ tries + 1 = Retries)
  /\ \/ outs < MaxOuts /\ cpu' = "out" /\ UNCHANGED ins
     \/ ins < MaxIns /\ cpu' = "ask" /\ ins' = ins + 1
     \/ cpu' = "halt" /\ UNCHANGED ins
  /\ UNCHANGED <<linkVars, opt, pc, loadVars, tries, left, ch, srcVars, logVars, outs, received>>

(* SPOPUTC waits for a free transmit side and stores the character.        *)
PutChar ==
  /\ cpu = "out"
  /\ StoreWord(outs + 1)
  /\ outs' = outs + 1
  /\ cpu' = "run"
  /\ UNCHANGED <<opt, pc, loadVars, tries, left, ch, srcVars, logVars, ins, received>>

(* SPIGETC asks for a character ...                                        *)
Ask ==
  /\ cpu = "ask"
  /\ StoreWord(Request)
  /\ cpu' = "wait"
  /\ UNCHANGED <<opt, pc, loadVars, tries, left, ch, srcVars, logVars, outs, ins, received>>

(* ... discards whatever comes that is not OPIN ...                        *)
Discard ==
  /\ cpu = "wait" /\ mail # << >> /\ mail[1].op # "IN"
  /\ AckMail
  /\ UNCHANGED <<opt, pc, loadVars, tries, left, ch, srcVars, logVars, cpuVars>>

(* ... and takes the character; SPINRW ends the record at LF, CR or Ctrl-D *)
(* and asks for the next character otherwise.                              *)
GetChar ==
  /\ cpu = "wait" /\ mail # << >> /\ mail[1].op = "IN"
  /\ AckMail
  /\ received' = Append(received, mail[1].ch)
  /\ cpu' = IF mail[1].ch \in {NL, EOT} THEN "run" ELSE "ask"
  /\ UNCHANGED <<opt, pc, loadVars, tries, left, ch, srcVars, logVars, outs, ins>>

CpuCall == PutChar \/ Ask \/ Discard \/ GetChar

(* What goes on before the host's next transfer.                           *)
Prompt == ~Settled \/ (cpu = "wait" /\ mail # << >>) \/ (cpu \in {"out", "ask"} /\ MayStore)

-----------------------------------------------------------------------------
(* The loop.  The runner's deadline stays ahead while a terminal is open.  *)
Interactive == opt.prog = "run" /\ opt.source = "raw"

DeadlineHeldBack == IF Interactive THEN Limit(eof) ELSE left     \* mutant
Deadline == IF Interactive /\ ~eof THEN Limit(eof) ELSE left

LoopTop ==
  /\ pc = "top"
  /\ left' = Deadline
  /\ pc' = IF Deadline = 0 THEN "idle" ELSE "read"
  /\ tries' = 0
  /\ UNCHANGED <<linkVars, opt, loadVars, ch, srcVars, logVars, cpuVars>>

(* A try that brings nothing: another, or the end of the spi_read.  The    *)
(* runner then looks at stdin.                                             *)
QuietTry ==
  /\ pc = "read" /\ ~Prompt
  /\ ~Returns(tries)
  /\ ReadTry(tries)
  /\ IF GivesUp(tries)
     THEN /\ left' = IF left > 0 THEN left - 1 ELSE 0
          /\ pc' = IF opt.prog = "run" THEN "poll" ELSE "top"
          /\ tries' = 0
     ELSE tries' = tries + 1 /\ UNCHANGED <<left, pc>>
  /\ UNCHANGED <<opt, loadVars, ch, srcVars, logVars, cpuVars>>

(* Both programs print or keep a character, the loader as far as it has    *)
(* room (rx_capture_push).                                                 *)
KeepsOutput(w) ==
  IF opt.prog = "run" \/ Len(shown) < Capture
  THEN shown' = Append(shown, w) /\ UNCHANGED dropped
  ELSE dropped' = dropped + 1 /\ UNCHANGED shown

ReadWord ==
  /\ pc = "read" /\ ~Prompt
  /\ Returns(tries)
  /\ ReadTry(tries)
  /\ left' = Limit(eof)
  /\ tries' = 0
  /\ IF outbox[1] = Request
     THEN pc' = "need" /\ UNCHANGED logVars
     ELSE pc' = "top" /\ KeepsOutput(outbox[1])
  /\ UNCHANGED <<opt, loadVars, ch, srcVars, cpuVars>>

(* input_source_next, input_source_next_blocking: the next character of    *)
(* the text and then line feeds for ever, or of the line buffer.           *)
NextChar ==
  /\ pc = "need"
  /\ IF opt.source = "text"
     THEN /\ ch' = IF pos < opt.text THEN pos + 1 ELSE NL
          /\ pos' = IF pos < opt.text THEN pos + 1 ELSE pos
          /\ UNCHANGED <<line, eof_sent>>
     ELSE /\ line # << >>
          /\ ch' = Head(line) /\ line' = Tail(line)
          /\ eof_sent' = (eof_sent \/ Head(line) = EOT)
          /\ UNCHANGED pos
  /\ pc' = "send"
  /\ UNCHANGED <<linkVars, opt, loadVars, tries, left, eof, keys, meant, logVars, cpuVars>>

(* refill_interactive_line, before it reads: at the end of stdin one       *)
(* Ctrl-D, then no answer any more.                                        *)
ExhaustedByCtrlD == eof \/ eof_sent     \* mutant
Exhausted == eof

Refill ==
  /\ pc = "need" /\ opt.source # "text" /\ line = << >>
  /\ pc' = IF ~Exhausted THEN "line" ELSE IF eof_sent THEN "top" ELSE "need"
  /\ line' = IF Exhausted /\ ~eof_sent THEN <<EOT>> ELSE << >>
  /\ UNCHANGED <<linkVars, opt, loadVars, tries, left, ch, pos, eof, eof_sent, keys, meant,
                 logVars, cpuVars>>

(* comet_send_in_char.  The loader's deadline was set before the character *)
(* was waited for.                                                         *)
DeadlineBefore == left     \* mutant: the runner's too
DeadlineAfter  == IF opt.prog = "run" THEN Limit(eof) ELSE left

SendChar ==
  /\ pc = "send" /\ ~Prompt
  /\ Send(InChar(ch))
  /\ left' = DeadlineAfter
  /\ pc' = "top"
  /\ UNCHANGED <<opt, loadVars, tries, ch, srcVars, logVars, cpuVars>>

-----------------------------------------------------------------------------
(* Stdin.  A key is the next printable character or one of the others.     *)
Printable == {k \in DOMAIN keys : keys[k] > 0}
Keys ==
  {NL, EOT, EOF, Cardinality(Printable) + 1}
    \cup (IF opt.source = "raw" THEN {BS} ELSE {})
    \cup (IF opt.prog = "run" THEN {ETX} ELSE {})

Stored(c) == IF Len(line) < LineMax - 1 THEN Append(line, c) ELSE line

(* What refill_interactive_line makes of a key, and a mutant for which     *)
(* Ctrl-D ends the input in any column.                                    *)
TypedCtrlD(k) == IF k \in {EOF, EOT} THEN <<EOT>> ELSE Stored(k)
Typed(k) ==
  IF k = EOF \/ (k = EOT /\ line = << >>) THEN <<EOT>>
  ELSE IF k = BS THEN (IF line = << >> THEN line ELSE Front(line))
  ELSE IF k = EOT THEN Stored(NL)
  ELSE Stored(k)

Handled(k) ==
  /\ k > 0 /\ "long_line" \notin Faults => Len(line) < LineMax - 2
  /\ k = EOF /\ "open_end" \notin Faults => line = << >>

(* fgetc returns while an IN waits; the user may take longer than the      *)
(* loader's deadline.                                                      *)
Type(k) ==
  /\ pc = "line" /\ k # ETX
  /\ Handled(k)
  /\ line' = Typed(k)
  /\ eof' = (k = EOF)
  /\ pc' = IF k \in {NL, EOT, EOF} THEN "need" ELSE "line"
  /\ \E slow \in IF opt.prog = "run" \/ "slow_loader" \in Faults THEN BOOLEAN ELSE {FALSE} :
       left' = IF slow THEN 0 ELSE left
  /\ Pressed(k)
  /\ UNCHANGED <<linkVars, opt, loadVars, tries, ch, pos, eof_sent, logVars, cpuVars>>

TypeInterrupt ==
  /\ pc = "line" /\ ETX \in Keys
  /\ pc' = "asked"
  /\ Pressed(ETX)
  /\ UNCHANGED <<linkVars, opt, loadVars, tries, left, ch, pos, line, eof, eof_sent, logVars,
                 cpuVars>>

(* stdin_poll_char: nothing is ready, or the text or the terminal has a    *)
(* character that no IN has asked for yet; it passes by the line buffer.   *)
PollNothing ==
  /\ pc = "poll"
  /\ opt.source = "text" => pos = opt.text /\ eof
  /\ pc' = "top"
  /\ UNCHANGED <<linkVars, opt, loadVars, tries, left, ch, srcVars, logVars, cpuVars>>

PollText ==
  /\ pc = "poll" /\ opt.source = "text" /\ ~(pos = opt.text /\ eof)
  /\ IF pos < opt.text
     THEN pos' = pos + 1 /\ ch' = pos + 1 /\ UNCHANGED eof
     ELSE eof' = TRUE /\ ch' = NL /\ UNCHANGED pos
  /\ pc' = "send"
  /\ UNCHANGED <<linkVars, opt, loadVars, tries, left, line, eof_sent, keys, meant, logVars,
                 cpuVars>>

PollKey(k) ==
  /\ pc = "poll" /\ opt.source # "text" /\ ~eof /\ Len(keys) < opt.ahead
  /\ Pressed(k)
  /\ eof' = (k \in {EOF, EOT})
  /\ ch' = IF k \in {EOF, EOT} THEN NL ELSE IF k = ETX THEN ch ELSE k
  /\ pc' = IF k = ETX THEN "asked" ELSE "send"
  /\ UNCHANGED <<linkVars, opt, loadVars, tries, left, pos, line, eof_sent, logVars, cpuVars>>

(* SIGINT and SIGTERM (sig_cleanup), at any time.                          *)
Signal ==
  /\ ~Ended
  /\ pc' = "asked"
  /\ UNCHANGED <<linkVars, opt, loadVars, tries, left, ch, srcVars, logVars, cpuVars>>

-----------------------------------------------------------------------------
Chip == Dispatch /\ UNCHANGED <<opt, pc, loadVars, tries, left, ch, srcVars, logVars, cpuVars>>

(* The user and the program on the CPU do what they like; the rest is the  *)
(* machinery, which does not stop.                                         *)
Host ==
  \/ Open \/ DrainRead \/ SendInit \/ SendWords \/ SendStart
  \/ LoopTop \/ QuietTry \/ ReadWord \/ NextChar \/ Refill \/ SendChar
  \/ PollNothing \/ PollText
User == \/ /\ Len(keys) < MaxKeys
           /\ \/ TypeInterrupt
              \/ \E k \in Keys : Type(k) \/ PollKey(k)
        \/ Signal

Next == Host \/ User \/ Chip \/ Begin \/ CpuCall

Spec == Init /\ [][Next]_vars
FairSpec == Spec /\ WF_vars(Host) /\ WF_vars(Chip) /\ WF_vars(CpuCall)

-----------------------------------------------------------------------------
(* Characters that left the source and have not reached the program.       *)
Inputs(packets) == {k \in DOMAIN packets : packets[k].op = "IN"}
Nth(set, n) == CHOOSE k \in set : Cardinality({m \in set : m <= k}) = n
Characterwise(packets) ==
  [n \in 1..Cardinality(Inputs(packets)) |-> packets[Nth(Inputs(packets), n)].ch]
InFlight == Characterwise(mail \o fifo) \o IF pc = "send" THEN <<ch>> ELSE << >>

(* Input is never duplicated or reordered; and if the program asks for it  *)
(* before it is there, every character reaches the program once: what IN   *)
(* got, what is on its way and what is in the line buffer make up the      *)
(* text, or what the keys mean, until a signal or Ctrl-C takes the host    *)
(* away.  (input_source_next, spi_send, the chip's queue, SPIGETC.)        *)
Increasing(s) == \A m, n \in DOMAIN s : m < n /\ s[m] > 0 /\ s[n] > 0 => s[m] < s[n]
Delivered(given) ==
  IF opt.source = "text"
  THEN given = [n \in DOMAIN given |-> IF n <= opt.text THEN n ELSE NL]
  ELSE given \o line = Meant
InputInOrder ==
  /\ Increasing(received \o InFlight)
  /\ opt.ahead = 0 /\ pc # "asked" => Delivered(received \o InFlight)

(* The same where input may come early, as the runner's comments promise.  *)
ForwardedInOrder == pc # "asked" => Delivered(received \o InFlight)

(* A statement of the comments that the code does not keep: at the end of  *)
(* stdin '\n' is supplied, and again for each IN that follows              *)
(* (comet2_spi_loader.c:71-72 and 483-484, comet2_spi_run.c:532-534).  The *)
(* code supplies one 0x04, then nothing (Refill).                          *)
EndGivesLineFeed == eof /\ line = << >> /\ pc = "send" => ch = NL

(* Every character of OUT is printed once and in order; the loader drops   *)
(* only those behind a full buffer.  Where input comes early, none twice.  *)
(* (SPOPUTC, spi_read, rx_capture_push.)                                   *)
Waiting == IF outbox = <<Request>> THEN << >> ELSE outbox
OutputInOrder ==
  /\ Increasing(shown \o Waiting)
  /\ opt.ahead = 0 => /\ \A n \in DOMAIN shown : shown[n] = n
                   /\ Len(shown) + dropped + Len(Waiting) = outs
  /\ dropped > 0 => Len(shown) = Capture

(* A host that leaves for lack of activity leaves no typed line unsent,    *)
(* and no IN without an answer unless stdin is at its end.  (The deadline  *)
(* of run_io_loop.)                                                        *)
LeavesNothing ==
  pc = "idle" =>
    /\ line = << >>
    /\ cpu = "wait" /\ outbox = << >> /\ InFlight = << >> => eof /\ eof_sent

(* The CPU starts on the whole image, each word once and in order, and an  *)
(* image that is refused is not started.  (send_firmware_legacy and        *)
(* send_firmware_burst, read_firmware_file.)                               *)
StartsWithImage ==
  cpu # "off" => /\ image = [k \in 1..opt.bytes \div 2 |-> k]
                 /\ opt.bytes % 2 = 0 /\ opt.bytes <= MaxBytes

(* A session gets past its drain, however much an old program prints.      *)
LoadEnds == <>(cpu # "off" \/ Ended)

(* An IN that waits gets a character, or the host waits for the user, or   *)
(* is gone.                                                                *)
RequestAnswered == cpu = "wait" ~> (cpu # "wait" \/ pc = "line" \/ Ended)

(* When the program has halted, the host leaves, except for a terminal     *)
(* whose user has not ended the input.                                     *)
HostLeaves == cpu = "halt" ~> (Ended \/ (Interactive /\ ~eof))

=============================================================================
