----------------------------- MODULE CometTimer -----------------------------
(***************************************************************************)
(* The polling timer: timer_mm.v, the way top.v maps its 32-bit registers  *)
(* to 16-bit addresses, and programs that use it.  A use is a list of      *)
(* stores followed by a loop that polls bit 2 of F300.  A step is one      *)
(* clock edge.                                                             *)
(***************************************************************************)
EXTENDS Integers, Sequences

CONSTANTS
  Half,        \* values of a bus word, 2^16 in the source
  Delays,      \* the delays a program asks for, in edges
  Presets,     \* the values a program presets the counter to
  Uses,        \* subset of UseKinds
  TimerGap,    \* least edges between two bus accesses of the program
  MaxUses      \* bound: uses of the timer

UseKinds == {"low", "both", "preset", "periodic"}

(* timer_mm's registers are 32 bits wide: two bus words.                   *)
Value == 0..Half * Half - 1

ASSUME TimerAssumption ==
  /\ Half \in Nat \ {0, 1}
  /\ Delays \subseteq Value
  /\ Presets \subseteq 0..Half - 1
  /\ Uses \subseteq UseKinds
  /\ TimerGap \in Nat
  /\ MaxUses \in Nat

(* The bits of the control register, F305.                                 *)
Control == [enable : BOOLEAN, periodic : BOOLEAN, clear_fired : BOOLEAN,
            clear_counter : BOOLEAN]

NoControl == [enable |-> FALSE, periodic |-> FALSE, clear_fired |-> FALSE,
              clear_counter |-> FALSE]

(* A store: its address, the word, and what the word says as a control.    *)
Store == [addr : {"none", "F301", "F302", "F303", "F304", "F305"},
          word : 0..Half - 1, control : Control]

VARIABLES
  counter_reg, compare_reg, enable_reg, periodic_reg, fired_reg,
  status_fired,  \* bit 2 of rd_data
  data_valid,
  rd_req,        \* top.v's register: F300 is read
  write,         \* top.v's registers: the store to be served
  pc, wait,
  stores,        \* stores left in this use
  use,           \* kind of this use
  uses,          \* uses begun
  \* history
  asked,         \* edges this use asked for
  elapsed,       \* edges since its last store was served, up to asked
  lost           \* a fire that no later read of F300 can show

timerVars   == <<counter_reg, compare_reg, enable_reg, periodic_reg, fired_reg,
                 status_fired, data_valid>>
programVars == <<rd_req, write, pc, wait, stores, use, uses, asked>>
vars        == <<timerVars, programVars, elapsed, lost>>

ProgramStates == {"idle", "store", "poll", "see", "again"}

Idle == [addr |-> "none", word |-> 0, control |-> NoControl]

TypeOK ==
  /\ counter_reg \in Value /\ compare_reg \in Value
  /\ enable_reg \in BOOLEAN /\ periodic_reg \in BOOLEAN /\ fired_reg \in BOOLEAN
  /\ status_fired \in BOOLEAN /\ data_valid \in BOOLEAN
  /\ rd_req \in BOOLEAN
  /\ write \in Store
  /\ pc \in ProgramStates
  /\ wait \in 0..TimerGap
  /\ stores \in Seq(Store)
  /\ use \in UseKinds
  /\ uses \in 0..MaxUses
  /\ asked \in Value /\ elapsed \in Value
  /\ lost \in BOOLEAN

Init ==
  /\ counter_reg = 0 /\ compare_reg = 0
  /\ enable_reg = FALSE /\ periodic_reg = FALSE /\ fired_reg = FALSE
  /\ status_fired = FALSE /\ data_valid = FALSE
  /\ rd_req = FALSE
  /\ write = Idle
  /\ pc = "idle" /\ wait = 0
  /\ stores = << >>
  /\ use \in Uses
  /\ uses = 0
  /\ asked = 0 /\ elapsed = 0
  /\ lost = FALSE

-----------------------------------------------------------------------------
(* The comparison in timer_mm.v.                                           *)
Due == counter_reg >= compare_reg

(* Mutant of Fires: a timer that never counted does not fire.              *)
FiresAfterZero == enable_reg /\ Due /\ counter_reg # 0

Fires == enable_reg /\ Due

(* Mutant of Counted: a periodic fire does not restart the counter.        *)
CountedOn ==
  IF enable_reg /\ (periodic_reg \/ ~Due) THEN counter_reg + 1 ELSE counter_reg

Counted ==
  IF ~enable_reg THEN counter_reg
  ELSE IF Due THEN (IF periodic_reg THEN 0 ELSE counter_reg)
  ELSE (counter_reg + 1) % (Half * Half)

(* top.v puts the word in the high half and zeroes the low half, and uses  *)
(* the address at which timer_mm replaces the whole register.              *)
High(word, reg) == word * Half

(* Mutant of Clears: the clear bits count only while the timer is off.     *)
ClearsWhenOff(control) ==
  [fired   |-> control.clear_fired /\ ~enable_reg,
   counter |-> control.clear_counter /\ ~enable_reg]

Clears(control) ==
  [fired |-> control.clear_fired, counter |-> control.clear_counter]

(* A store comes last in the always block and overrides the count.         *)
ServesControl ==
  /\ write.addr = "F305"
  /\ enable_reg' = write.control.enable
  /\ periodic_reg' = write.control.periodic
  /\ fired_reg' = (~Clears(write.control).fired /\ (fired_reg \/ Fires))
  /\ counter_reg' = IF Clears(write.control).counter THEN 0 ELSE Counted
  /\ UNCHANGED compare_reg

ServesOther ==
  /\ write.addr # "F305"
  /\ enable_reg' = (enable_reg /\ (Fires => periodic_reg))
  /\ fired_reg' = (fired_reg \/ Fires)
  /\ counter_reg' = CASE write.addr = "F301" -> write.word
                      [] write.addr = "F303" -> High(write.word, counter_reg)
                      [] OTHER               -> Counted
  /\ compare_reg' = CASE write.addr = "F302" -> write.word
                      [] write.addr = "F304" -> High(write.word, compare_reg)
                      [] OTHER               -> compare_reg
  /\ UNCHANGED periodic_reg

ReadPort ==
  /\ data_valid' = rd_req
  /\ status_fired' = IF rd_req THEN fired_reg ELSE status_fired

TimerTick == (ServesControl \/ ServesOther) /\ ReadPort

-----------------------------------------------------------------------------
Put(addr, word) == [Idle EXCEPT !.addr = addr, !.word = word]
Set(control) == [Idle EXCEPT !.addr = "F305", !.control = control]

(* 000C, 0001 and 0003, and 0007 to clear fired in periodic mode.          *)
ClearAll == Set([NoControl EXCEPT !.clear_fired = TRUE, !.clear_counter = TRUE])
StartOnce == Set([NoControl EXCEPT !.enable = TRUE])
StartPeriodic == Set([NoControl EXCEPT !.enable = TRUE, !.periodic = TRUE])
NextPeriod == Set([NoControl EXCEPT !.enable = TRUE, !.periodic = TRUE,
                                    !.clear_fired = TRUE])

(* The one-shot flow of the README with the low half alone; USLPRT and     *)
(* mmio_timer_test.cas write both halves.                                  *)
Program(kind, delay, preset) ==
  CASE kind = "low"      -> <<Put("F302", delay), ClearAll, StartOnce>>
    [] kind = "both"     -> <<Put("F302", delay % Half), Put("F304", delay \div Half),
                              ClearAll, StartOnce>>
    [] kind = "preset"   -> <<Put("F302", delay), ClearAll, Put("F303", 0),
                              Put("F301", preset), StartOnce>>
    [] kind = "periodic" -> <<Put("F302", delay), ClearAll, StartPeriodic>>

Bus(rd, wr) == rd_req' = rd /\ write' = wr

Begin ==
  /\ pc = "idle"
  /\ uses < MaxUses
  /\ \E kind \in Uses, delay \in Delays, preset \in Presets :
       /\ kind # "both" => delay < Half
       /\ kind = "preset" => preset <= delay
       /\ stores' = Program(kind, delay, preset)
       /\ use' = kind
       /\ asked' = IF kind = "preset" THEN delay - preset ELSE delay
  /\ uses' = uses + 1
  /\ pc' = "store"
  /\ Bus(FALSE, Idle)

(* The program computes; a periodic timer keeps running meanwhile.         *)
Compute ==
  /\ pc = "idle"
  /\ Bus(FALSE, Idle)
  /\ UNCHANGED <<pc, stores, use, uses, asked>>

DoStore ==
  /\ pc = "store"
  /\ Bus(FALSE, Head(stores))
  /\ stores' = Tail(stores)
  /\ pc' = IF Len(stores) = 1 THEN "poll" ELSE "store"
  /\ UNCHANGED <<use, uses, asked>>

Poll ==
  /\ pc = "poll"
  /\ Bus(TRUE, Idle)
  /\ pc' = "see"
  /\ UNCHANGED <<stores, use, uses, asked>>

See ==
  /\ pc = "see"
  /\ data_valid
  /\ Bus(FALSE, Idle)
  /\ pc' = IF ~status_fired THEN "poll" ELSE IF use = "periodic" THEN "again" ELSE "idle"
  /\ UNCHANGED <<stores, use, uses, asked>>

(* A periodic program clears the bit and polls again, or ends its use.     *)
Again ==
  /\ pc = "again"
  /\ \/ pc' = "poll" /\ Bus(FALSE, NextPeriod)
     \/ pc' = "idle" /\ Bus(FALSE, Idle)
  /\ UNCHANGED <<stores, use, uses, asked>>

WaitForBus ==
  /\ wait > 0 \/ (pc = "see" /\ ~data_valid)
  /\ wait' = IF wait > 0 THEN wait - 1 ELSE 0
  /\ Bus(FALSE, Idle)
  /\ UNCHANGED <<pc, stores, use, uses, asked>>

ProgramStep ==
  /\ wait = 0
  /\ Begin \/ Compute \/ DoStore \/ Poll \/ See \/ Again
  /\ wait' = IF pc \in {"idle", "poll"} THEN 0 ELSE TimerGap

ProgramTick == WaitForBus \/ ProgramStep

-----------------------------------------------------------------------------
(* The last store of a use has been served: the timer runs for it.         *)
Started == pc \in {"poll", "see", "again"} /\ write \notin {StartOnce, StartPeriodic}

LogTick ==
  /\ elapsed' = IF ~Started THEN 0
                ELSE IF elapsed < asked THEN elapsed + 1 ELSE elapsed
  /\ lost' = (Started /\ (lost \/ (Fires /\ fired_reg)))

Next == TimerTick /\ ProgramTick /\ LogTick

Spec == Init /\ [][Next]_vars

(* The clock does not stop.                                                *)
FairSpec == Spec /\ WF_vars(Next)

-----------------------------------------------------------------------------
(* A poll of F300 that finds bit 2 set ends no delay before its time,      *)
(* whatever earlier uses left in the registers, a running periodic timer   *)
(* or a fired bit included (timer_mm.v; USLPRT and mmio_timer_test.cas).   *)
NotEarly == (Started /\ fired_reg) => elapsed >= asked

(* Every delay ends: the program that polls bit 2 sees it set.             *)
Wakes == (pc = "poll") ~> (pc \in {"idle", "again"})

(* Edges from the poll that finds the bit set to the poll after its clear. *)
PollLoop == 2 * TimerGap + 6

(* A periodic program whose period is not shorter than its polling loop    *)
(* misses no fire: none finds the bit of the one before still set.         *)
NoTickLost == lost => asked < PollLoop
=============================================================================
