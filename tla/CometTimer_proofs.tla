-------------------------- MODULE CometTimer_proofs --------------------------
(***************************************************************************)
(* Theorems about CometTimer, for every width of the bus word, every delay *)
(* and preset, every number of uses and every distance between accesses.   *)
(***************************************************************************)
EXTENDS CometTimer, SequenceTheorems, TLAPS

-----------------------------------------------------------------------------
LEMMA SmallRemainder ==
  ASSUME NEW d \in Nat \ {0}, NEW x \in Nat, x < d
  PROVE  x % d = x
  BY Z3

(* Two bus words make a register.                                          *)
LEMMA Widths ==
  /\ Half * Half \in Nat \ {0} /\ Half <= Half * Half
  /\ \A w \in 0..Half - 1 : w \in Value /\ w * Half \in Value
  /\ \A x \in Nat : x % (Half * Half) \in Value
  /\ \A x \in Value : x + 1 < Half * Half => (x + 1) % (Half * Half) = x + 1
<1>1. Half \in Nat /\ Half >= 2
  BY TimerAssumption
<1>2. Half * Half \in Nat /\ Half * Half >= Half
  BY <1>1
<1>3. \A w \in 0..Half - 1 : w * Half \in Nat /\ w * Half < Half * Half
  <2>1. TAKE w \in 0..Half - 1
  <2>2. w * Half + Half <= Half * Half
    <3>1. (w + 1) * Half <= Half * Half
      BY <1>1
    <3>2. QED
      BY <1>1, <3>1
  <2>3. QED
    BY <1>1, <2>2
<1>4. \A d \in Nat \ {0}, x \in Nat : x % d \in 0..d - 1
  OBVIOUS
<1>5. \A x \in Value : x + 1 < Half * Half => (x + 1) % (Half * Half) = x + 1
  BY <1>1, <1>2, SmallRemainder DEF Value
<1>6. QED
  BY <1>1, <1>2, <1>3, <1>4, <1>5 DEF Value

(* The stores of a use, field by field.                                    *)
LEMMA StoreFields ==
  /\ Idle \in Store /\ Idle.addr = "none"
  /\ ClearAll \in Store /\ ClearAll.addr = "F305" /\ ~ClearAll.control.enable
  /\ ClearAll.control.clear_fired /\ ClearAll.control.clear_counter
  /\ StartOnce \in Store /\ StartOnce.addr = "F305" /\ StartOnce.control.enable
  /\ ~StartOnce.control.clear_fired /\ ~StartOnce.control.clear_counter
  /\ StartPeriodic \in Store /\ StartPeriodic.addr = "F305" /\ StartPeriodic.control.enable
  /\ ~StartPeriodic.control.clear_fired /\ ~StartPeriodic.control.clear_counter
  /\ NextPeriod \in Store /\ NextPeriod.addr = "F305" /\ NextPeriod.control.enable
  /\ NextPeriod.control.clear_fired /\ ~NextPeriod.control.clear_counter
  /\ \A w \in 0..Half - 1, a \in {"F301", "F302", "F303", "F304"} :
       Put(a, w) \in Store /\ Put(a, w).addr = a /\ Put(a, w).word = w
<1>1. 0 \in 0..Half - 1
  BY TimerAssumption
<1>2. NoControl \in Control /\ Idle \in Store
  BY <1>1 DEF NoControl, Control, Idle, Store
<1>3. QED
  BY <1>1, <1>2 DEF NoControl, Control, Idle, Store, Set, Put, ClearAll, StartOnce,
     StartPeriodic, NextPeriod

LEMMA TuplesOf ==
  ASSUME NEW a, NEW b, NEW c, NEW d, NEW e
  PROVE  /\ Len(<<a>>) = 1 /\ Head(<<a>>) = a /\ Tail(<<a>>) = << >>
         /\ Len(<<a, b>>) = 2 /\ Head(<<a, b>>) = a /\ Tail(<<a, b>>) = <<b>>
         /\ Len(<<a, b, c>>) = 3 /\ Head(<<a, b, c>>) = a /\ Tail(<<a, b, c>>) = <<b, c>>
         /\ Len(<<a, b, c, d>>) = 4 /\ Head(<<a, b, c, d>>) = a
         /\ Tail(<<a, b, c, d>>) = <<b, c, d>>
         /\ Len(<<a, b, c, d, e>>) = 5 /\ Head(<<a, b, c, d, e>>) = a
         /\ Tail(<<a, b, c, d, e>>) = <<b, c, d, e>>
  OBVIOUS

-----------------------------------------------------------------------------
(* Types.  A use that is storing has a store left.                         *)
TypeInv == TypeOK /\ (pc = "store" => stores # << >>)

LEMMA ProgramType ==
  ASSUME NEW kind \in UseKinds, NEW delay \in Value, NEW preset \in 0..Half - 1,
         kind # "both" => delay < Half
  PROVE  Program(kind, delay, preset) \in Seq(Store) /\ Program(kind, delay, preset) # << >>
<1>1. Half \in Nat /\ Half >= 2 /\ delay \in Nat
  BY TimerAssumption DEF Value
<1>2. 0 \in 0..Half - 1
  BY <1>1
<1>3. CASE kind = "both"
  <2>1. delay % Half \in 0..Half - 1
    BY <1>1
  <2>2. delay \div Half \in 0..Half - 1
    <3>1. /\ delay \div Half \in Nat
          /\ (delay \div Half) * Half <= delay
      BY <1>1, Z3
    <3>2. \A q \in Nat : q >= Half => q * Half >= Half * Half
      BY <1>1
    <3>3. delay < Half * Half
      BY Widths DEF Value
    <3>4. QED
      BY <1>1, <3>1, <3>2, <3>3
  <2>3. QED
    BY <1>3, <2>1, <2>2, StoreFields DEF Program
<1>4. CASE kind # "both"
  <2>1. delay \in 0..Half - 1
    BY <1>1, <1>4
  <2>2. QED
    BY <1>2, <1>4, <2>1, StoreFields DEF Program, UseKinds
<1>5. QED
  BY <1>3, <1>4

LEMMA ProgramTypeStep ==
  ASSUME TypeInv, ProgramTick
  PROVE  /\ rd_req' \in BOOLEAN /\ write' \in Store /\ pc' \in ProgramStates
         /\ wait' \in 0..TimerGap /\ stores' \in Seq(Store) /\ use' \in UseKinds
         /\ uses' \in 0..MaxUses /\ asked' \in Value
         /\ pc' = "store" => stores' # << >>
<1>1. /\ rd_req \in BOOLEAN /\ write \in Store /\ pc \in ProgramStates
      /\ wait \in 0..TimerGap /\ stores \in Seq(Store) /\ use \in UseKinds
      /\ uses \in 0..MaxUses /\ asked \in Value
      /\ pc = "store" => stores # << >>
      /\ TimerGap \in Nat /\ MaxUses \in Nat
  BY TimerAssumption DEF TypeInv, TypeOK
<1>2. Idle \in Store /\ NextPeriod \in Store
  BY StoreFields
<1>3. CASE WaitForBus
  <2>1. /\ wait' = IF wait > 0 THEN wait - 1 ELSE 0
        /\ rd_req' = FALSE /\ write' = Idle
        /\ UNCHANGED <<pc, stores, use, uses, asked>>
    BY <1>3 DEF WaitForBus, Bus
  <2>2. wait' \in 0..TimerGap
    BY <1>1, <2>1
  <2>3. QED
    BY <1>1, <1>2, <2>1, <2>2
<1>4. CASE ProgramStep
  <2>1. wait' \in 0..TimerGap
    BY <1>1, <1>4 DEF ProgramStep
  <2>2. CASE Begin
    <3>1. PICK kind \in Uses, delay \in Delays, preset \in Presets :
            /\ kind # "both" => delay < Half
            /\ kind = "preset" => preset <= delay
            /\ stores' = Program(kind, delay, preset)
            /\ use' = kind
            /\ asked' = IF kind = "preset" THEN delay - preset ELSE delay
      BY <2>2 DEF Begin
    <3>2. kind \in UseKinds /\ delay \in Value /\ preset \in 0..Half - 1
      BY TimerAssumption
    <3>3. asked' \in Value
      BY <3>1, <3>2, Widths, TimerAssumption DEF Value
    <3>4. stores' \in Seq(Store) /\ stores' # << >>
      BY <3>1, <3>2, ProgramType
    <3>5. uses' \in 0..MaxUses /\ pc' = "store" /\ rd_req' = FALSE /\ write' = Idle
      BY <1>1, <2>2 DEF Begin, Bus
    <3>6. QED
      BY <1>2, <2>1, <3>1, <3>2, <3>3, <3>4, <3>5 DEF ProgramStates
  <2>3. CASE Compute
    BY <1>1, <1>2, <2>1, <2>3 DEF Compute, Bus, ProgramStates
  <2>4. CASE DoStore
    <3>1. /\ stores # << >> /\ write' = Head(stores) /\ stores' = Tail(stores)
          /\ pc' = IF Len(stores) = 1 THEN "poll" ELSE "store"
          /\ rd_req' = FALSE /\ UNCHANGED <<use, uses, asked>>
      BY <1>1, <2>4 DEF DoStore, Bus
    <3>2. /\ Head(stores) \in Store /\ Tail(stores) \in Seq(Store)
          /\ Len(Tail(stores)) = Len(stores) - 1
      BY <1>1, <3>1, HeadTailProperties
    <3>3. Len(stores) # 1 => Tail(stores) # << >>
      BY <1>1, <3>2, EmptySeq
    <3>4. QED
      BY <1>1, <2>1, <3>1, <3>2, <3>3 DEF ProgramStates
  <2>5. CASE Poll
    BY <1>1, <1>2, <2>1, <2>5 DEF Poll, Bus, ProgramStates
  <2>6. CASE See
    BY <1>1, <1>2, <2>1, <2>6 DEF See, Bus, ProgramStates
  <2>7. CASE Again
    BY <1>1, <1>2, <2>1, <2>7 DEF Again, Bus, ProgramStates
  <2>8. QED
    BY <1>4, <2>2, <2>3, <2>4, <2>5, <2>6, <2>7 DEF ProgramStep
<1>5. QED
  BY <1>3, <1>4 DEF ProgramTick

LEMMA TimerTypeStep ==
  ASSUME TypeOK, TimerTick
  PROVE  /\ counter_reg' \in Value /\ compare_reg' \in Value
         /\ enable_reg' \in BOOLEAN /\ periodic_reg' \in BOOLEAN /\ fired_reg' \in BOOLEAN
         /\ status_fired' \in BOOLEAN /\ data_valid' \in BOOLEAN
<1>1. /\ counter_reg \in Value /\ compare_reg \in Value
      /\ enable_reg \in BOOLEAN /\ periodic_reg \in BOOLEAN /\ fired_reg \in BOOLEAN
      /\ status_fired \in BOOLEAN /\ rd_req \in BOOLEAN
      /\ write.word \in 0..Half - 1 /\ write.control \in Control
  BY DEF TypeOK, Store
<1>2. 0 \in Value /\ counter_reg + 1 \in Nat
  BY <1>1, Widths DEF Value
<1>3. Counted \in Value
  BY <1>1, <1>2, Widths DEF Counted
<1>4. write.word \in Value /\ High(write.word, counter_reg) \in Value
      /\ High(write.word, compare_reg) \in Value
  BY <1>1, Widths DEF High
<1>5. status_fired' \in BOOLEAN /\ data_valid' \in BOOLEAN
  BY <1>1 DEF TimerTick, ReadPort
<1>6. CASE ServesControl
  <2>1. counter_reg' \in Value /\ compare_reg' \in Value
    BY <1>1, <1>2, <1>3, <1>6 DEF ServesControl
  <2>2. enable_reg' \in BOOLEAN /\ periodic_reg' \in BOOLEAN
    BY <1>1, <1>6 DEF ServesControl, Control
  <2>3. fired_reg' \in BOOLEAN
    BY Zenon, <1>6 DEF ServesControl
  <2>4. QED
    BY <1>5, <2>1, <2>2, <2>3
<1>7. CASE ServesOther
  <2>1. counter_reg' \in Value /\ compare_reg' \in Value
    BY <1>1, <1>3, <1>4, <1>7 DEF ServesOther
  <2>2. enable_reg' \in BOOLEAN /\ periodic_reg' \in BOOLEAN /\ fired_reg' \in BOOLEAN
    BY Zenon, <1>1, <1>7 DEF ServesOther
  <2>3. QED
    BY <1>5, <2>1, <2>2
<1>8. QED
  BY <1>6, <1>7 DEF TimerTick

LEMMA InitTypes == Init => TypeInv
<1>1. Init => 0 \in Value /\ << >> \in Seq(Store) /\ Idle \in Store
  BY Widths, StoreFields DEF Value
<1>2. Init => pc # "store"
  BY DEF Init
<1>3. 0 \in 0..TimerGap /\ 0 \in 0..MaxUses /\ Uses \subseteq UseKinds
  BY TimerAssumption
<1>4. Init => pc \in ProgramStates
  BY DEF Init, ProgramStates
<1>5. QED
  BY <1>1, <1>2, <1>3, <1>4 DEF Init, TypeInv, TypeOK

LEMMA TypeStep ==
  ASSUME TypeInv, Next
  PROVE  TypeInv'
<1>1. TypeOK /\ TimerTick /\ ProgramTick /\ LogTick
  BY DEF TypeInv, Next
<1>2. elapsed' \in Value /\ lost' \in BOOLEAN
  <2>1. elapsed \in Value /\ asked \in Value
    BY Zenon, <1>1 DEF TypeOK
  <2>2. elapsed' \in Value
    <3>1. Half * Half \in Nat \ {0}
      BY Widths
    <3>2. elapsed' \in {0, elapsed} \/ (elapsed < asked /\ elapsed' = elapsed + 1)
      BY <1>1 DEF LogTick
    <3>3. QED
      BY <2>1, <3>1, <3>2 DEF Value
  <2>3. lost' \in BOOLEAN
    BY Zenon, <1>1 DEF LogTick
  <2>4. QED
    BY <2>2, <2>3
<1>3. QED
  BY <1>1, <1>2, ProgramTypeStep, TimerTypeStep DEF TypeInv, TypeOK

LEMMA TypeInvAlways == Spec => []TypeInv
<1>1. TypeInv /\ UNCHANGED vars => TypeInv'
  BY DEF TypeInv, TypeOK, vars, timerVars, programVars
<1>2. QED
  BY <1>1, InitTypes, TypeStep, PTL DEF Spec

(* No register leaves its width, and a use always has a store to issue.    *)
THEOREM TypeCorrect == Spec => []TypeOK
<1>1. TypeInv => TypeOK
  BY DEF TypeInv
<1>2. QED
  BY <1>1, TypeInvAlways, PTL

-----------------------------------------------------------------------------
(* A use.  Its stores are issued one after the other and each is served an *)
(* edge later; until the last one is, the timer is off once it is cleared, *)
(* and the counter of a one-word delay is where the use wants it.          *)
Start == IF use = "periodic" THEN StartPeriodic ELSE StartOnce

Off(count) == ~enable_reg /\ ~fired_reg /\ counter_reg = count

(* The store has been served, or is in top.v's registers.                  *)
Issued(store, served) == write = store \/ (write = Idle /\ served)

Stage(d, p) ==
  \/ stores = Program(use, d, p) /\ write = Idle
  \/ stores = Tail(Program(use, d, p)) /\ Issued(Put("F302", d), compare_reg = d)
  \/ /\ stores = Tail(Tail(Program(use, d, p))) /\ compare_reg = d
     /\ Issued(ClearAll, Off(0))
  \/ /\ use = "preset" /\ stores = <<Put("F301", p), StartOnce>> /\ compare_reg = d
     /\ Off(0) /\ Issued(Put("F303", 0), TRUE)
  \/ /\ use = "preset" /\ stores = <<StartOnce>> /\ compare_reg = d
     /\ write = Put("F301", p) => Off(0)
     /\ Issued(Put("F301", p), Off(p))

(* A delay written as two words: only the clear matters.                   *)
BothStage(d) ==
  \/ stores \in {Program(use, d, 0), Tail(Program(use, d, 0)), Tail(Tail(Program(use, d, 0)))}
  \/ stores = <<StartOnce>> /\ Issued(ClearAll, Off(0))

Asks(d, p) ==
  /\ d \in 0..Half - 1 /\ p \in 0..d
  /\ asked = IF use = "preset" THEN d - p ELSE d

StoreInv ==
  /\ use \in Uses
  /\ pc = "store" /\ use = "both" => \E d \in Delays : BothStage(d)
  /\ pc = "store" /\ use # "both" =>
       \E d \in 0..Half - 1 : \E p \in 0..d : Asks(d, p) /\ Stage(d, p)

(* The last store is about to be served, then the timer runs; with a       *)
(* one-word delay it does not reach the compare value before `asked' edges. *)
Starts == {StartOnce, StartPeriodic}
Written == IF use = "periodic" THEN {Idle, StartPeriodic, NextPeriod} ELSE {Idle, StartOnce}

RunInv ==
  /\ pc = "poll" => write \in Written
  /\ pc \in {"idle", "see", "again"} => write = Idle
  /\ pc = "again" => use = "periodic"
  /\ pc = "poll" /\ write \in Starts =>
       /\ ~enable_reg /\ ~fired_reg
       /\ use # "both" => counter_reg + asked = compare_reg
       /\ use = "periodic" => counter_reg = 0
  /\ Started /\ use # "both" =>
       \/ elapsed >= asked
       \/ ~fired_reg /\ enable_reg /\ counter_reg + asked = compare_reg + elapsed

(* What an edge does with the store in top.v's registers.                  *)
LEMMA ServeStep ==
  ASSUME TypeOK, TimerTick
  PROVE  /\ write \in {Idle, NextPeriod} \cup Starts => compare_reg' = compare_reg
         /\ \A c \in Value : Off(c) /\ write = Idle => Off(c)'
         /\ \A d \in 0..Half - 1 : write = Put("F302", d) => compare_reg' = d
         /\ write = ClearAll => Off(0)' /\ compare_reg' = compare_reg
         /\ \A c \in Value : Off(c) /\ write = Put("F303", 0) =>
              Off(0)' /\ compare_reg' = compare_reg
         /\ \A c \in Value, p \in 0..Half - 1 : Off(c) /\ write = Put("F301", p) =>
              Off(p)' /\ compare_reg' = compare_reg
         /\ ~enable_reg /\ ~fired_reg /\ write \in Starts =>
              enable_reg' /\ ~fired_reg' /\ counter_reg' = counter_reg
         /\ ~fired_reg /\ enable_reg /\ counter_reg < compare_reg /\ write \in {Idle, NextPeriod} =>
              enable_reg' /\ ~fired_reg' /\ counter_reg' = counter_reg + 1
<1>1. /\ counter_reg \in Value /\ compare_reg \in Value /\ enable_reg \in BOOLEAN
      /\ fired_reg \in BOOLEAN /\ 0 \in 0..Half - 1 /\ Half \in Nat
  BY TimerAssumption DEF TypeOK
<1>2. ServesControl \/ ServesOther
  BY DEF TimerTick
<1>3. ~enable_reg => Counted = counter_reg /\ ~Fires
  BY DEF Counted, Fires
<1>4. ~Due /\ enable_reg => Counted = counter_reg + 1 /\ ~Fires
  <2> SUFFICES ASSUME ~Due, enable_reg PROVE Counted = counter_reg + 1
    BY DEF Fires
  <2>1. counter_reg + 1 <= compare_reg /\ counter_reg + 1 < Half * Half
    BY <1>1, Widths DEF Due, Value
  <2>2. QED
    BY <1>1, <2>1, Widths DEF Counted
<1>5. counter_reg < compare_reg => ~Due
  BY <1>1 DEF Due, Value
<1>6. write.addr = "none" => /\ compare_reg' = compare_reg /\ counter_reg' = Counted
                             /\ enable_reg' = (enable_reg /\ (Fires => periodic_reg))
                             /\ fired_reg' = (fired_reg \/ Fires)
  BY <1>2 DEF ServesControl, ServesOther
<1>7. write.addr = "F305" =>
        /\ compare_reg' = compare_reg /\ enable_reg' = write.control.enable
        /\ fired_reg' = (~write.control.clear_fired /\ (fired_reg \/ Fires))
        /\ counter_reg' = IF write.control.clear_counter THEN 0 ELSE Counted
  BY <1>2 DEF ServesControl, ServesOther, Clears
<1>8. write.addr = "F302" => compare_reg' = write.word
  BY <1>2 DEF ServesControl, ServesOther
<1>9. write.addr \in {"F301", "F303"} =>
        /\ compare_reg' = compare_reg
        /\ enable_reg' = (enable_reg /\ (Fires => periodic_reg))
        /\ fired_reg' = (fired_reg \/ Fires)
        /\ write.addr = "F301" => counter_reg' = write.word
        /\ write.addr = "F303" => counter_reg' = write.word * Half
  BY <1>2 DEF ServesControl, ServesOther, High
<1>10. 0 * Half = 0
  BY <1>1
<1>11. write \in {Idle, NextPeriod} \cup Starts => compare_reg' = compare_reg
  BY <1>6, <1>7, StoreFields DEF Starts
<1>12. \A c \in Value : Off(c) /\ write = Idle => Off(c)'
  <2> SUFFICES ASSUME NEW c \in Value, Off(c), write = Idle
               PROVE  Off(c)'
    OBVIOUS
  <2>1. write.addr = "none" /\ ~enable_reg /\ ~fired_reg /\ counter_reg = c
    BY StoreFields DEF Off
  <2>2. ~enable_reg' /\ ~fired_reg' /\ counter_reg' = c
    BY <1>3, <1>6, <2>1
  <2>3. QED
    BY <2>2 DEF Off
<1>13. \A d \in 0..Half - 1 : write = Put("F302", d) => compare_reg' = d
  BY <1>8, StoreFields
<1>14. write = ClearAll => Off(0)' /\ compare_reg' = compare_reg
  BY <1>7, StoreFields DEF Off
<1>15. \A c \in Value : Off(c) /\ write = Put("F303", 0) => Off(0)' /\ compare_reg' = compare_reg
  BY <1>1, <1>3, <1>9, <1>10, StoreFields DEF Off
<1>16. \A c \in Value, p \in 0..Half - 1 : Off(c) /\ write = Put("F301", p) =>
         Off(p)' /\ compare_reg' = compare_reg
  <2> SUFFICES ASSUME NEW c \in Value, NEW p \in 0..Half - 1, Off(c), write = Put("F301", p)
               PROVE  Off(p)' /\ compare_reg' = compare_reg
    OBVIOUS
  <2>1. /\ write.addr = "F301" /\ write.word = p
        /\ ~enable_reg /\ ~fired_reg
    BY StoreFields DEF Off
  <2>2. ~enable_reg' /\ ~fired_reg' /\ counter_reg' = p /\ compare_reg' = compare_reg
    BY <1>3, <1>9, <2>1
  <2>3. QED
    BY <2>2 DEF Off
<1>17. ~enable_reg /\ ~fired_reg /\ write \in Starts =>
         enable_reg' /\ ~fired_reg' /\ counter_reg' = counter_reg
  BY <1>3, <1>7, StoreFields DEF Starts
<1>18. ~fired_reg /\ enable_reg /\ counter_reg < compare_reg /\ write \in {Idle, NextPeriod} =>
         enable_reg' /\ ~fired_reg' /\ counter_reg' = counter_reg + 1
  BY <1>4, <1>5, <1>6, <1>7, StoreFields
<1>19. QED
  BY <1>11, <1>12, <1>13, <1>14, <1>15, <1>16, <1>17, <1>18

(* What the program has stored when it is not storing.                     *)
LEMMA PollingStep ==
  ASSUME TypeInv, ProgramTick, pc # "store"
  PROVE  /\ pc' # "store" => /\ write' \in {Idle, NextPeriod}
                             /\ pc' # "poll" => write' = Idle
         /\ pc # "idle" => UNCHANGED <<asked, use>> /\ pc' # "store"
         /\ pc = "idle" => pc' \in {"idle", "store"}
         /\ pc = "poll" => pc' \in {"poll", "see"}
         /\ write' = NextPeriod => pc = "again"
         /\ pc' = "again" => pc = "again" \/ use = "periodic"
<1>0. Idle # NextPeriod
  BY StoreFields
<1>1. pc \in ProgramStates
  BY DEF TypeInv, TypeOK
<1>2. CASE WaitForBus
  BY <1>0, <1>1, <1>2 DEF WaitForBus, Bus, ProgramStates
<1>3. CASE ProgramStep
  <2>1. CASE Begin
    BY <1>0, <2>1 DEF Begin, Bus
  <2>2. CASE Compute \/ Poll \/ See \/ Again
    BY <1>0, <2>2 DEF Compute, Poll, See, Again, Bus
  <2>3. QED
    BY <1>3, <2>1, <2>2 DEF ProgramStep, DoStore
<1>4. QED
  BY <1>2, <1>3 DEF ProgramTick

(* The lists of stores.                                                    *)
LEMMA StoreLists ==
  ASSUME use \in UseKinds, use # "both", NEW d, NEW p
  PROVE  /\ Program(use, d, p) =
              IF use = "preset"
              THEN <<Put("F302", d), ClearAll, Put("F303", 0), Put("F301", p), StartOnce>>
              ELSE <<Put("F302", d), ClearAll, Start>>
         /\ Tail(Program(use, d, p)) =
              IF use = "preset"
              THEN <<ClearAll, Put("F303", 0), Put("F301", p), StartOnce>>
              ELSE <<ClearAll, Start>>
         /\ Tail(Tail(Program(use, d, p))) =
              IF use = "preset" THEN <<Put("F303", 0), Put("F301", p), StartOnce>>
                                ELSE <<Start>>
<1>1. Program(use, d, p) =
        IF use = "preset"
        THEN <<Put("F302", d), ClearAll, Put("F303", 0), Put("F301", p), StartOnce>>
        ELSE <<Put("F302", d), ClearAll, Start>>
  BY DEF Program, Start, UseKinds
<1>2. CASE use = "preset"
  BY <1>1, <1>2, TuplesOf
<1>3. CASE use # "preset"
  BY <1>1, <1>3, TuplesOf
<1>4. QED
  BY <1>1, <1>2, <1>3

LEMMA TailsOf ==
  ASSUME NEW a, NEW b, NEW c, NEW d
  PROVE  Tail(<<a, b, c, d>>) = <<b, c, d>> /\ Tail(<<b, c, d>>) = <<c, d>>
  OBVIOUS

LEMMA BothLists ==
  ASSUME use = "both", NEW d
  PROVE  \E low, high :
           /\ Program(use, d, 0) =
                <<Put("F302", low), Put("F304", high), ClearAll, StartOnce>>
           /\ Tail(Program(use, d, 0)) = <<Put("F304", high), ClearAll, StartOnce>>
           /\ Tail(Tail(Program(use, d, 0))) = <<ClearAll, StartOnce>>
<1>1. Program(use, d, 0) =
        <<Put("F302", d % Half), Put("F304", d \div Half), ClearAll, StartOnce>>
  BY DEF Program
<1>2. PICK low, high :
        Program(use, d, 0) = <<Put("F302", low), Put("F304", high), ClearAll, StartOnce>>
  BY Zenon, <1>1
<1>3. Tail(Program(use, d, 0)) = <<Put("F304", high), ClearAll, StartOnce>>
  <2>1. Tail(<<Put("F302", low), Put("F304", high), ClearAll, StartOnce>>) =
          <<Put("F304", high), ClearAll, StartOnce>>
    BY TailsOf
  <2>2. QED
    BY <1>2, <2>1
<1>4. Tail(Tail(Program(use, d, 0))) = <<ClearAll, StartOnce>>
  BY Zenon, <1>3, TailsOf
<1>5. QED
  BY Zenon, <1>2, <1>3, <1>4

(* An edge on which no store is issued leaves a use at the stage it is at. *)
LEMMA BothWaits ==
  ASSUME TypeOK, StoreInv, pc = "store", use = "both", TimerTick,
         write' = Idle, UNCHANGED <<pc, stores, use>>
  PROVE  StoreInv'
<1>1. PICK d \in Delays : BothStage(d)
  BY DEF StoreInv
<1>2. Program(use, d, 0)' = Program(use, d, 0)
  BY DEF Program
<1>3. 0 \in Value
  BY Widths, TimerAssumption
<1>4. CASE stores \in {Program(use, d, 0), Tail(Program(use, d, 0)), Tail(Tail(Program(use, d, 0)))}
  <2>1. BothStage(d)'
    BY <1>2, <1>4 DEF BothStage
  <2>2. QED
    BY <2>1 DEF StoreInv
<1>5. CASE stores = <<StartOnce>> /\ Issued(ClearAll, Off(0))
  <2>1. Off(0)'
    BY <1>3, <1>5, ServeStep DEF Issued
  <2>2. BothStage(d)'
    BY <1>5, <2>1 DEF BothStage, Issued
  <2>3. QED
    BY <2>2 DEF StoreInv
<1>6. QED
  BY <1>1, <1>4, <1>5 DEF BothStage

LEMMA StageWaits ==
  ASSUME TypeOK, StoreInv, pc = "store", use # "both", TimerTick,
         write' = Idle, UNCHANGED <<pc, stores, use, asked>>
  PROVE  StoreInv'
<1>1. PICK d \in 0..Half - 1 : \E p \in 0..d : Asks(d, p) /\ Stage(d, p)
  BY DEF StoreInv
<1>2. PICK p \in 0..d : Asks(d, p) /\ Stage(d, p)
  BY <1>1
<1>3. /\ d \in Value /\ p \in 0..Half - 1 /\ p \in Value /\ 0 \in Value
      /\ 0 \in 0..Half - 1
  BY Widths, TimerAssumption
<1>4. Asks(d, p)'
  BY <1>2 DEF Asks
<1>5. Program(use, d, p)' = Program(use, d, p)
  BY DEF Program
<1>6. Stage(d, p)'
  <2>1. CASE stores = Program(use, d, p) /\ write = Idle
    BY <1>5, <2>1 DEF Stage
  <2>2. CASE stores = Tail(Program(use, d, p)) /\ Issued(Put("F302", d), compare_reg = d)
    <3>1. compare_reg' = d
      BY <2>2, ServeStep DEF Issued
    <3>2. QED
      BY <1>5, <2>2, <3>1 DEF Stage, Issued
  <2>3. CASE /\ stores = Tail(Tail(Program(use, d, p))) /\ compare_reg = d
             /\ Issued(ClearAll, Off(0))
    <3>1. compare_reg' = d /\ Off(0)'
      BY <1>3, <2>3, ServeStep DEF Issued
    <3>2. QED
      BY <1>5, <2>3, <3>1 DEF Stage, Issued
  <2>4. CASE /\ use = "preset" /\ stores = <<Put("F301", p), StartOnce>> /\ compare_reg = d
             /\ Off(0) /\ Issued(Put("F303", 0), TRUE)
    <3>1. compare_reg' = d /\ Off(0)'
      BY <1>3, <2>4, ServeStep DEF Issued
    <3>2. QED
      BY <2>4, <3>1 DEF Stage, Issued
  <2>5. CASE /\ use = "preset" /\ stores = <<StartOnce>> /\ compare_reg = d
             /\ write = Put("F301", p) => Off(0)
             /\ Issued(Put("F301", p), Off(p))
    <3>1. compare_reg' = d /\ Off(p)'
      BY <1>3, <2>5, ServeStep DEF Issued
    <3>2. write' # Put("F301", p)
      BY <1>3, StoreFields
    <3>3. QED
      BY <2>5, <3>1, <3>2 DEF Stage, Issued
  <2>6. QED
    BY <1>2, <2>1, <2>2, <2>3, <2>4, <2>5 DEF Stage
<1>7. QED
  BY <1>4, <1>6 DEF StoreInv

(* A store takes the use to its next stage; the last one finds the timer   *)
(* off and, after a one-word delay, `asked' edges below the compare value. *)
LEMMA BothAdvances ==
  ASSUME TypeOK, StoreInv, DoStore, use = "both", TimerTick
  PROVE  /\ StoreInv'
         /\ use' = use
         /\ pc' # "store" => /\ pc' = "poll" /\ write' = StartOnce
                             /\ ~enable_reg' /\ ~fired_reg'
<1>1. /\ pc = "store" /\ write' = Head(stores) /\ stores' = Tail(stores)
      /\ pc' = IF Len(stores) = 1 THEN "poll" ELSE "store"
      /\ use' = use /\ use \in Uses
  BY DEF DoStore, Bus, StoreInv
<1>2. PICK d \in Delays : BothStage(d)
  BY <1>1 DEF StoreInv
<1>3. PICK low, high :
           /\ Program(use, d, 0) =
                <<Put("F302", low), Put("F304", high), ClearAll, StartOnce>>
           /\ Tail(Program(use, d, 0)) = <<Put("F304", high), ClearAll, StartOnce>>
           /\ Tail(Tail(Program(use, d, 0))) = <<ClearAll, StartOnce>>
  BY BothLists
<1>4. Program(use, d, 0)' = Program(use, d, 0) /\ 0 \in Value
  BY <1>1, Widths, TimerAssumption DEF Program
<1>5. BothStage(d)' => StoreInv'
  BY <1>1 DEF StoreInv
<1>6. CASE stores \in {Program(use, d, 0), Tail(Program(use, d, 0))}
  <2>1. Len(stores) # 1
    <3>1. CASE stores = Program(use, d, 0)
      <4>1. stores = <<Put("F302", low), Put("F304", high), ClearAll, StartOnce>>
        BY Zenon, <1>3, <3>1
      <4>2. QED
        BY <4>1
    <3>2. CASE stores = Tail(Program(use, d, 0))
      <4>1. stores = <<Put("F304", high), ClearAll, StartOnce>>
        BY Zenon, <1>3, <3>2
      <4>2. QED
        BY <4>1
    <3>3. QED
      BY <1>6, <3>1, <3>2
  <2>2. BothStage(d)'
    BY <1>1, <1>4, <1>6 DEF BothStage
  <2>3. QED
    BY <1>1, <1>5, <2>1, <2>2
<1>7. CASE stores = Tail(Tail(Program(use, d, 0)))
  <2>1. Head(stores) = ClearAll /\ Len(stores) # 1 /\ Tail(stores) = <<StartOnce>>
    <3>1. stores = <<ClearAll, StartOnce>>
      BY Zenon, <1>3, <1>7
    <3>2. QED
      BY <3>1, TuplesOf
  <2>2. BothStage(d)'
    BY <1>1, <2>1 DEF BothStage, Issued
  <2>3. QED
    BY <1>1, <1>5, <2>1, <2>2
<1>8. CASE stores = <<StartOnce>> /\ Issued(ClearAll, Off(0))
  <2>1. Head(stores) = StartOnce /\ Len(stores) = 1
    BY <1>8, TuplesOf
  <2>2. Off(0)'
    BY <1>4, <1>8, ServeStep DEF Issued
  <2>3. ~enable_reg' /\ ~fired_reg'
    BY <2>2 DEF Off
  <2>4. QED
    BY <1>1, <2>1, <2>3 DEF StoreInv
<1>9. QED
  BY <1>2, <1>6, <1>7, <1>8 DEF BothStage

LEMMA StageAdvances ==
  ASSUME TypeOK, StoreInv, DoStore, use # "both", TimerTick
  PROVE  /\ StoreInv'
         /\ UNCHANGED <<use, asked>>
         /\ pc' # "store" => /\ pc' = "poll" /\ write' = Start
                             /\ ~enable_reg' /\ ~fired_reg'
                             /\ counter_reg' + asked' = compare_reg'
                             /\ use = "periodic" => counter_reg' = 0
<1>1. /\ pc = "store" /\ write' = Head(stores) /\ stores' = Tail(stores)
      /\ pc' = IF Len(stores) = 1 THEN "poll" ELSE "store"
      /\ use' = use /\ asked' = asked /\ use \in Uses /\ use \in UseKinds
  BY DEF DoStore, Bus, StoreInv, TypeOK
<1>2. PICK d \in 0..Half - 1 : \E p \in 0..d : Asks(d, p) /\ Stage(d, p)
  BY <1>1 DEF StoreInv
<1>3. PICK p \in 0..d : Asks(d, p) /\ Stage(d, p)
  BY <1>2
<1>4. /\ d \in Value /\ p \in 0..Half - 1 /\ p \in Value /\ 0 \in Value
      /\ 0 \in 0..Half - 1 /\ d \in Nat /\ p \in Nat
  BY Widths, TimerAssumption
<1>5. Asks(d, p)'
  BY <1>1, <1>3 DEF Asks
<1>6. Program(use, d, p)' = Program(use, d, p)
  BY <1>1 DEF Program
<1>7. Stage(d, p)' => StoreInv'
  BY <1>1, <1>5 DEF StoreInv
<1>8. CASE stores = Program(use, d, p) /\ write = Idle
  <2>1. Head(stores) = Put("F302", d) /\ Len(stores) # 1
    <3>1. stores = IF use = "preset"
                   THEN <<Put("F302", d), ClearAll, Put("F303", 0), Put("F301", p), StartOnce>>
                   ELSE <<Put("F302", d), ClearAll, Start>>
      BY <1>1, <1>8, StoreLists
    <3>2. QED
      BY <3>1, TuplesOf
  <2>2. Stage(d, p)'
    BY <1>1, <1>6, <1>8, <2>1 DEF Stage, Issued
  <2>3. QED
    BY <1>1, <1>7, <2>1, <2>2
<1>9. CASE stores = Tail(Program(use, d, p)) /\ Issued(Put("F302", d), compare_reg = d)
  <2>1. Head(stores) = ClearAll /\ Len(stores) # 1
    <3>1. stores = IF use = "preset"
                   THEN <<ClearAll, Put("F303", 0), Put("F301", p), StartOnce>>
                   ELSE <<ClearAll, Start>>
      BY <1>1, <1>9, StoreLists
    <3>2. QED
      BY <3>1, TuplesOf
  <2>2. compare_reg' = d
    BY <1>9, ServeStep DEF Issued
  <2>3. Stage(d, p)'
    BY <1>1, <1>6, <1>9, <2>1, <2>2 DEF Stage, Issued
  <2>4. QED
    BY <1>1, <1>7, <2>1, <2>3
<1>10. CASE /\ stores = Tail(Tail(Program(use, d, p))) /\ compare_reg = d
            /\ Issued(ClearAll, Off(0))
  <2>1. compare_reg' = d /\ Off(0)'
    BY <1>4, <1>10, ServeStep DEF Issued
  <2>2. CASE use = "preset"
    <3>1. /\ Head(stores) = Put("F303", 0) /\ Len(stores) # 1
          /\ Tail(stores) = <<Put("F301", p), StartOnce>>
      <4>1. stores = <<Put("F303", 0), Put("F301", p), StartOnce>>
        BY <1>1, <1>10, <2>2, StoreLists
      <4>2. QED
        BY <4>1, TuplesOf
    <3>2. Stage(d, p)'
      BY <1>1, <2>1, <2>2, <3>1 DEF Stage, Issued
    <3>3. QED
      BY <1>1, <1>7, <3>1, <3>2
  <2>3. CASE use # "preset"
    <3>1. Head(stores) = Start /\ Len(stores) = 1
      <4>1. stores = <<Start>>
        BY <1>1, <1>10, <2>3, StoreLists
      <4>2. QED
        BY <4>1, TuplesOf
    <3>2. ~enable_reg' /\ ~fired_reg' /\ counter_reg' = 0
      BY <2>1 DEF Off
    <3>3. asked' = d
      BY <1>1, <1>3, <2>3 DEF Asks
    <3>4. counter_reg' + asked' = compare_reg'
      BY <1>4, <2>1, <3>2, <3>3
    <3>5. pc' = "poll" /\ write' = Start
      BY <1>1, <3>1
    <3>6. QED
      BY <1>1, <3>2, <3>4, <3>5 DEF StoreInv
  <2>4. QED
    BY <2>2, <2>3
<1>11. CASE /\ use = "preset" /\ stores = <<Put("F301", p), StartOnce>> /\ compare_reg = d
            /\ Off(0) /\ Issued(Put("F303", 0), TRUE)
  <2>1. Head(stores) = Put("F301", p) /\ Len(stores) # 1 /\ Tail(stores) = <<StartOnce>>
    BY <1>11, TuplesOf
  <2>2. compare_reg' = d /\ Off(0)'
    BY <1>4, <1>11, ServeStep DEF Issued
  <2>3. Stage(d, p)'
    BY <1>1, <1>11, <2>1, <2>2 DEF Stage, Issued
  <2>4. QED
    BY <1>1, <1>7, <2>1, <2>3
<1>12. CASE /\ use = "preset" /\ stores = <<StartOnce>> /\ compare_reg = d
            /\ write = Put("F301", p) => Off(0)
            /\ Issued(Put("F301", p), Off(p))
  <2>1. Head(stores) = StartOnce /\ Len(stores) = 1
    BY <1>12, TuplesOf
  <2>2. compare_reg' = d /\ Off(p)'
    BY <1>4, <1>12, ServeStep DEF Issued
  <2>3. ~enable_reg' /\ ~fired_reg' /\ counter_reg' = p
    BY <2>2 DEF Off
  <2>4. asked' = d - p
    BY <1>1, <1>3, <1>12 DEF Asks
  <2>5. counter_reg' + asked' = compare_reg'
    BY <1>4, <2>2, <2>3, <2>4
  <2>6. pc' = "poll" /\ write' = Start /\ use # "periodic"
    BY <1>1, <1>12, <2>1 DEF Start
  <2>7. QED
    BY <1>1, <2>3, <2>5, <2>6 DEF StoreInv
<1>13. QED
  BY <1>3, <1>8, <1>9, <1>10, <1>11, <1>12 DEF Stage

(* A use begins with its whole list.                                       *)
LEMMA UseBegins ==
  ASSUME Begin
  PROVE  StoreInv'
<1>1. PICK kind \in Uses, delay \in Delays, preset \in Presets :
        /\ kind # "both" => delay < Half
        /\ kind = "preset" => preset <= delay
        /\ stores' = Program(kind, delay, preset)
        /\ use' = kind
        /\ asked' = IF kind = "preset" THEN delay - preset ELSE delay
  BY DEF Begin
<1>2. /\ kind # "both" => delay \in 0..Half - 1
      /\ delay \in Nat /\ preset \in 0..Half - 1
  BY <1>1, TimerAssumption DEF Value
<1>3. write' = Idle
  BY DEF Begin, Bus
<1>4. CASE kind = "preset"
  <2>1. preset \in 0..delay
    BY <1>1, <1>2, <1>4
  <2>2. Asks(delay, preset)' /\ Stage(delay, preset)'
    BY <1>1, <1>2, <1>3, <1>4, <2>1 DEF Asks, Stage
  <2>3. use' \in Uses /\ use' # "both" /\ delay \in 0..Half - 1
    BY Zenon, <1>1, <1>2, <1>4
  <2>4. QED
    BY <2>1, <2>2, <2>3 DEF StoreInv
<1>5. CASE kind \notin {"preset", "both"}
  <2>1. 0 \in 0..delay /\ Program(kind, delay, preset) = Program(kind, delay, 0)
    BY <1>2, <1>5, TimerAssumption DEF Program, UseKinds
  <2>2. Asks(delay, 0)' /\ Stage(delay, 0)'
    BY <1>1, <1>2, <1>3, <1>5, <2>1 DEF Asks, Stage
  <2>3. use' \in Uses /\ use' # "both" /\ delay \in 0..Half - 1
    BY <1>1, <1>2, <1>5
  <2>4. QED
    BY <2>1, <2>2, <2>3 DEF StoreInv
<1>6. CASE kind = "both"
  <2>1. Program(kind, delay, preset) = Program(kind, delay, 0)
    BY <1>6 DEF Program
  <2>2. BothStage(delay)'
    BY <1>1, <2>1 DEF BothStage
  <2>3. QED
    BY <1>1, <1>6, <2>2 DEF StoreInv
<1>7. QED
  BY <1>4, <1>5, <1>6

-----------------------------------------------------------------------------
(* A running timer does not outrun the log.                                *)
LEMMA StoreInvStep ==
  ASSUME TypeInv, StoreInv, Next
  PROVE  StoreInv'
<1>1. TypeOK /\ TimerTick /\ ProgramTick
  BY DEF Next, TypeInv
<1>2. CASE pc # "store"
  <2>1. CASE ProgramStep /\ Begin
    BY <2>1, UseBegins
  <2>2. CASE ~Begin \/ ~ProgramStep
    <3>1. pc' # "store" /\ use' = use
      BY <1>1, <1>2, <2>2 DEF ProgramTick, ProgramStep, WaitForBus, Compute, DoStore, Poll,
         See, Again
    <3>2. QED
      BY <3>1 DEF StoreInv
  <2>3. QED
    BY <2>1, <2>2
<1>3. CASE pc = "store"
  <2>1. CASE WaitForBus
    BY <1>1, <1>3, <2>1, StageWaits, BothWaits DEF WaitForBus, Bus
  <2>2. CASE ProgramStep
    <3>1. DoStore
      BY <1>3, <2>2 DEF ProgramStep, Begin, Compute, Poll, See, Again
    <3>2. QED
      BY <1>1, <3>1, StageAdvances, BothAdvances
  <2>3. QED
    BY <1>1, <2>1, <2>2 DEF ProgramTick
<1>4. QED
  BY <1>2, <1>3

LEMMA RunInvStep ==
  ASSUME TypeInv, StoreInv, RunInv, Next
  PROVE  RunInv'
<1>1. TypeOK /\ TimerTick /\ ProgramTick /\ LogTick
  BY DEF Next, TypeInv
<1>2. /\ counter_reg \in Nat /\ compare_reg \in Nat /\ asked \in Nat /\ elapsed \in Nat
      /\ enable_reg \in BOOLEAN /\ fired_reg \in BOOLEAN /\ pc \in ProgramStates
      /\ pc' \in ProgramStates
  BY <1>1, Widths, ProgramTypeStep DEF TypeOK, Value
<1>3. Idle # StartOnce /\ Idle # StartPeriodic /\ NextPeriod # StartOnce
      /\ NextPeriod # StartPeriodic
  BY StoreFields
<1>4. CASE pc = "store"
  <2>1. ~Started
    BY <1>4 DEF Started
  <2>2. CASE pc' = "store"
    BY <2>2 DEF RunInv, Started
  <2>3. CASE pc' # "store"
    <3>1. DoStore
      BY <1>1, <1>4, <2>3 DEF ProgramTick, ProgramStep, WaitForBus, Begin, Compute, Poll,
         See, Again
    <3>2. CASE use # "both"
      <4>1. /\ pc' = "poll" /\ write' = Start /\ use' = use
            /\ ~enable_reg' /\ ~fired_reg' /\ counter_reg' + asked' = compare_reg'
            /\ use = "periodic" => counter_reg' = 0
        BY <1>1, <2>3, <3>1, <3>2, StageAdvances
      <4>2. write' \in Starts /\ Written' = Written /\ write' \in Written
        BY <4>1 DEF Start, Starts, Written
      <4>3. QED
        BY <4>1, <4>2 DEF RunInv, Started, Starts
    <3>3. CASE use = "both"
      <4>1. /\ pc' = "poll" /\ write' = StartOnce /\ use' = use
            /\ ~enable_reg' /\ ~fired_reg'
        BY <1>1, <2>3, <3>1, <3>3, BothAdvances
      <4>2. QED
        BY <3>3, <4>1 DEF RunInv, Started, Starts, Written
    <3>4. QED
      BY <3>2, <3>3
  <2>4. QED
    BY <2>2, <2>3
<1>5. CASE pc # "store"
  <2>1. /\ pc' # "store" => /\ write' \in {Idle, NextPeriod}
                            /\ pc' # "poll" => write' = Idle
        /\ pc # "idle" => UNCHANGED <<asked, use>> /\ pc' # "store"
        /\ pc = "idle" => pc' \in {"idle", "store"}
        /\ write' = NextPeriod => pc = "again"
        /\ pc' = "again" => pc = "again" \/ use = "periodic"
    BY <1>1, <1>5, PollingStep
  <2>2. pc' # "store" => write' \notin Starts
    BY <1>3, <2>1 DEF Starts
  <2>3. ASSUME Started', use' # "both"
        PROVE  \/ elapsed' >= asked'
               \/ ~fired_reg' /\ enable_reg' /\ counter_reg' + asked' = compare_reg' + elapsed'
    <3>1. pc \in {"poll", "see", "again"} /\ asked' = asked /\ use # "both"
      BY <1>2, <1>5, <2>1, <2>3 DEF Started, ProgramStates
    <3>2. write \in {Idle, NextPeriod} \cup Starts
      BY <3>1 DEF RunInv, Written, Starts
    <3>3. compare_reg' = compare_reg
      BY <1>1, <3>2, ServeStep
    <3>4. CASE write \in Starts
      <4>1. ~enable_reg /\ ~fired_reg /\ counter_reg + asked = compare_reg
        BY <1>3, <3>1, <3>4 DEF RunInv, Starts
      <4>2. enable_reg' /\ ~fired_reg' /\ counter_reg' = counter_reg
        BY <1>1, <3>4, <4>1, ServeStep
      <4>3. elapsed' = 0
        BY <1>1, <3>4 DEF LogTick, Started, Starts
      <4>4. QED
        BY <1>2, <3>1, <3>3, <4>1, <4>2, <4>3
    <3>5. CASE write \notin Starts
      <4>1. Started /\ write \in {Idle, NextPeriod}
        BY <3>1, <3>2, <3>5 DEF Started, Starts
      <4>2. elapsed' = IF elapsed < asked THEN elapsed + 1 ELSE elapsed
        BY <1>1, <4>1 DEF LogTick
      <4>3. CASE elapsed >= asked
        BY <1>2, <3>1, <4>2, <4>3
      <4>4. CASE elapsed < asked
        <5>1. ~fired_reg /\ enable_reg /\ counter_reg + asked = compare_reg + elapsed
          BY <1>2, <3>1, <4>1, <4>4 DEF RunInv
        <5>2. counter_reg < compare_reg
          BY <1>2, <4>4, <5>1
        <5>3. enable_reg' /\ ~fired_reg' /\ counter_reg' = counter_reg + 1
          BY <1>1, <4>1, <5>1, <5>2, ServeStep
        <5>4. QED
          BY <1>2, <3>1, <3>3, <4>2, <4>4, <5>1, <5>3
      <4>5. QED
        BY <1>2, <4>3, <4>4
    <3>6. QED
      BY <3>4, <3>5
  <2>4. pc' \in {"poll", "see", "again"} =>
          /\ pc \in {"poll", "see", "again"} /\ use' = use
          /\ pc' = "again" => use = "periodic"
    BY <1>2, <1>5, <2>1 DEF RunInv, ProgramStates
  <2>5. pc' # "store" => write' \in {Idle, NextPeriod}
    BY <2>1
  <2>6. pc' = "poll" => write' \in Written'
    <3> SUFFICES ASSUME pc' = "poll" PROVE write' \in Written'
      OBVIOUS
    <3>1. write' = NextPeriod => use' = "periodic"
      BY <2>1, <2>4 DEF RunInv
    <3>2. QED
      BY <2>5, <3>1 DEF Written
  <2>7. pc' = "again" => use' = "periodic"
    BY <2>4
  <2>8. pc' \in {"idle", "see", "again"} => write' = Idle
    BY <2>1
  <2>9. QED
    BY Zenon, <2>2, <2>3, <2>6, <2>7, <2>8 DEF RunInv
<1>6. QED
  BY <1>4, <1>5

LEMMA InitRun == Init => StoreInv /\ RunInv
<1>1. Idle # StartOnce /\ Idle # StartPeriodic
  BY StoreFields
<1>2. QED
  BY <1>1 DEF Init, StoreInv, RunInv, Started, Starts

LEMMA RunAlways == Spec => [](TypeInv /\ StoreInv /\ RunInv)
<1>1. Init => TypeInv /\ StoreInv /\ RunInv
  BY InitTypes, InitRun
<1>2. TypeInv /\ StoreInv /\ RunInv /\ [Next]_vars => (TypeInv /\ StoreInv /\ RunInv)'
  <2> SUFFICES ASSUME TypeInv, StoreInv, RunInv, [Next]_vars
               PROVE  TypeInv' /\ StoreInv' /\ RunInv'
    OBVIOUS
  <2>1. CASE Next
    BY <2>1, TypeStep, StoreInvStep, RunInvStep
  <2>2. CASE UNCHANGED vars
    <3>1. TypeInv'
      BY <2>2 DEF TypeInv, TypeOK, vars, timerVars, programVars
    <3>2. UNCHANGED <<use, pc, stores, write, asked, elapsed, counter_reg, compare_reg,
                      enable_reg, fired_reg>>
      BY <2>2 DEF vars, timerVars, programVars
    <3>3. StoreInv'
      <4>1. \A d, p : Asks(d, p)' <=> Asks(d, p)
        BY <3>2 DEF Asks
      <4>2. \A d, p : Program(use, d, p)' = Program(use, d, p)
        BY <3>2 DEF Program
      <4>3. \A c : Off(c)' <=> Off(c)
        BY <3>2 DEF Off
      <4>4. \A d, p : Stage(d, p) => Stage(d, p)'
        BY Zenon, <3>2, <4>2, <4>3 DEF Stage, Issued
      <4>5. \A d : BothStage(d) => BothStage(d)'
        BY Zenon, <3>2, <4>2, <4>3 DEF BothStage, Issued
      <4>6. QED
        BY Zenon, <3>2, <4>1, <4>4, <4>5 DEF StoreInv
    <3>4. RunInv'
      BY Zenon, <3>2 DEF RunInv, Started, Written
    <3>5. QED
      BY <3>1, <3>3, <3>4
  <2>3. QED
    BY <2>1, <2>2
<1>3. QED
  BY <1>1, <1>2, PTL DEF Spec

(* A poll that finds bit 2 set ends no one-word delay before its time, in  *)
(* any order of one-shot, preset and periodic uses: what earlier uses left *)
(* in the registers does not matter (timer_mm.v; the README's one-shot     *)
(* flow).  A program that writes the high halves is left out: the bus map  *)
(* zeroes the low ones.                                                    *)
THEOREM NotEarlyAlways ==
  ASSUME "both" \notin Uses
  PROVE  Spec => []NotEarly
<1>1. TypeInv /\ StoreInv /\ RunInv => NotEarly
  <2>1. SUFFICES ASSUME TypeInv, StoreInv, RunInv, Started, fired_reg
                 PROVE  elapsed >= asked
    BY DEF NotEarly
  <2>2. use # "both"
    BY <2>1 DEF StoreInv
  <2>3. QED
    BY <2>1, <2>2 DEF RunInv
<1>2. QED
  BY <1>1, RunAlways, PTL

-----------------------------------------------------------------------------
(* A running periodic timer restarts at each fire, so the counter tells    *)
(* how old the bit is: Seen bounds it at each point of the polling loop.   *)
PortInv ==
  /\ rd_req => pc = "see" /\ ~data_valid
  /\ data_valid => pc = "see"
  /\ pc = "see" => wait = 0 /\ (rd_req \/ data_valid)

Seen ==
  /\ pc = "poll" /\ write = Idle => counter_reg + wait <= TimerGap + 1
  /\ pc = "see" /\ ~data_valid => counter_reg <= TimerGap + 2
  /\ pc = "see" /\ data_valid /\ ~status_fired => counter_reg = 0
  /\ pc = "see" /\ data_valid /\ status_fired => counter_reg <= TimerGap + 3
  /\ pc = "again" => counter_reg + wait <= 2 * TimerGap + 4
  /\ pc = "poll" /\ write = NextPeriod => counter_reg <= 2 * TimerGap + 5

PeriodicRuns ==
  /\ enable_reg /\ periodic_reg
  /\ compare_reg = asked /\ counter_reg <= asked
  /\ fired_reg /\ asked >= PollLoop => Seen

(* A timer that runs once is off when its bit is set.                      *)
RunsOnce == ~periodic_reg /\ (enable_reg => ~fired_reg)

TickInv ==
  /\ PortInv
  /\ Started => IF use = "periodic" THEN PeriodicRuns ELSE RunsOnce
  /\ NoTickLost

LEMMA PortStep ==
  ASSUME TypeInv, PortInv, TimerTick, ProgramTick
  PROVE  PortInv'
<1>1. /\ data_valid' = rd_req /\ wait \in 0..TimerGap /\ TimerGap \in Nat
      /\ rd_req \in BOOLEAN /\ data_valid \in BOOLEAN
  BY TimerAssumption DEF TimerTick, ReadPort, TypeInv, TypeOK
<1>2. CASE WaitForBus
  <2>1. /\ ~rd_req' /\ pc' = pc
        /\ pc = "see" => wait' = 0 /\ ~data_valid
    BY <1>1, <1>2 DEF WaitForBus, Bus, PortInv
  <2>2. QED
    BY <1>1, <2>1 DEF PortInv
<1>3. CASE ProgramStep
  <2>1. CASE Poll
    <3>1. rd_req' /\ pc' = "see" /\ wait' = 0 /\ pc = "poll"
      BY <1>3, <2>1 DEF ProgramStep, Poll, Bus
    <3>2. QED
      BY <1>1, <3>1 DEF PortInv
  <2>2. CASE Begin \/ Compute \/ DoStore \/ See \/ Again
    <3>1. ~rd_req' /\ pc' # "see" /\ ~rd_req
      BY <2>2 DEF Begin, Compute, DoStore, See, Again, Bus, PortInv
    <3>2. QED
      BY <1>1, <3>1 DEF PortInv
  <2>3. QED
    BY <1>3, <2>1, <2>2 DEF ProgramStep
<1>4. QED
  BY <1>2, <1>3 DEF ProgramTick

(* An edge of a timer that runs, once or with a period.                    *)
LEMMA PeriodicServe ==
  ASSUME TypeOK, TimerTick, enable_reg, periodic_reg, counter_reg <= compare_reg,
         write \in {Idle, NextPeriod}
  PROVE  /\ enable_reg' /\ periodic_reg' /\ compare_reg' = compare_reg
         /\ counter_reg' <= compare_reg
         /\ counter_reg = compare_reg => counter_reg' = 0
         /\ counter_reg < compare_reg => counter_reg' = counter_reg + 1 /\ ~Fires
         /\ write = NextPeriod => ~fired_reg'
         /\ fired_reg' => fired_reg \/ counter_reg = compare_reg
<1>1. counter_reg \in Value /\ compare_reg \in Value /\ counter_reg \in Nat /\ compare_reg \in Nat
  BY Widths DEF TypeOK, Value
<1>2. Due <=> counter_reg = compare_reg
  BY <1>1 DEF Due
<1>3. Counted = IF Due THEN 0 ELSE counter_reg + 1
  <2>1. ~Due => counter_reg + 1 < Half * Half
    BY <1>1, <1>2, Widths DEF Value
  <2>2. ~Due => (counter_reg + 1) % (Half * Half) = counter_reg + 1
    BY <1>1, <2>1, Widths
  <2>3. QED
    BY <2>2 DEF Counted
<1>4. counter_reg' = Counted /\ compare_reg' = compare_reg /\ enable_reg' /\ periodic_reg'
  <2>1. CASE write = Idle
    BY Zenon, <2>1, StoreFields DEF TimerTick, ServesControl, ServesOther
  <2>2. CASE write = NextPeriod
    <3>1. ~NextPeriod.control.clear_counter /\ NextPeriod.control.periodic
      BY DEF NextPeriod, Set, Idle, NoControl
    <3>2. QED
      BY <2>2, <3>1, StoreFields DEF TimerTick, ServesControl, ServesOther, Clears
  <2>3. QED
    BY <2>1, <2>2
<1>5. fired_reg' => fired_reg \/ Due
  BY StoreFields DEF TimerTick, ServesControl, ServesOther, Clears, Fires
<1>6. write = NextPeriod => ~fired_reg'
  BY StoreFields DEF TimerTick, ServesControl, ServesOther, Clears
<1>7. counter_reg < compare_reg => ~Due /\ ~Fires
  BY <1>1 DEF Due, Fires
<1>8. counter_reg' <= compare_reg /\ (counter_reg = compare_reg => counter_reg' = 0)
      /\ (counter_reg < compare_reg => counter_reg' = counter_reg + 1)
  BY <1>1, <1>2, <1>3, <1>4
<1>9. QED
  BY <1>2, <1>4, <1>5, <1>6, <1>7, <1>8

LEMMA StartServe ==
  ASSUME TimerTick
  PROVE  /\ write = StartOnce => ~periodic_reg'
         /\ write = StartPeriodic => periodic_reg'
<1>1. ~StartOnce.control.periodic /\ StartPeriodic.control.periodic
  BY DEF StartOnce, StartPeriodic, Set, Idle, NoControl
<1>2. QED
  BY <1>1, StoreFields DEF TimerTick, ServesControl, ServesOther

LEMMA OnceServe ==
  ASSUME TypeOK, TimerTick, RunsOnce, write = Idle
  PROVE  RunsOnce'
<1>1. write.addr # "F305"
  BY StoreFields
<1>2. /\ enable_reg' = (enable_reg /\ (Fires => periodic_reg))
      /\ fired_reg' = (fired_reg \/ Fires) /\ periodic_reg' = periodic_reg
  BY Zenon, <1>1 DEF TimerTick, ServesControl, ServesOther
<1>3. QED
  BY Zenon, <1>2 DEF RunsOnce, Fires

(* The bit is younger than the loop at each of its points.                 *)
LEMMA SeenBounds ==
  ASSUME TypeInv, RunInv, Started, Seen
  PROVE  counter_reg <= 2 * TimerGap + 5
<1>1. /\ counter_reg \in Nat /\ wait \in Nat /\ TimerGap \in Nat
      /\ data_valid \in BOOLEAN /\ status_fired \in BOOLEAN
  BY Widths, TimerAssumption DEF TypeInv, TypeOK, Value
<1>2. pc \in {"poll", "see", "again"} /\ (pc = "poll" => write \in {Idle, NextPeriod})
  BY DEF Started, RunInv, Written
<1>3. QED
  BY <1>1, <1>2 DEF Seen

LEMMA SeenStep ==
  ASSUME TypeInv, RunInv, PortInv, Started, Seen, write = Idle, TimerTick, ProgramTick, fired_reg,
         counter_reg' = counter_reg + 1, Started'
  PROVE  Seen'
<1>1. /\ counter_reg \in Nat /\ TimerGap \in Nat /\ wait \in 0..TimerGap
      /\ data_valid \in BOOLEAN /\ status_fired \in BOOLEAN /\ rd_req \in BOOLEAN
  BY Widths, TimerAssumption DEF TypeInv, TypeOK, Value
<1>2. pc \in {"poll", "see", "again"}
  BY DEF Started
<1>3. /\ data_valid' = rd_req
      /\ rd_req => status_fired'
  BY Zenon DEF TimerTick, ReadPort
<1>4. Idle # NextPeriod
  BY StoreFields
<1>5. CASE WaitForBus
  <2>1. UNCHANGED pc /\ write' = Idle /\ wait' = IF wait > 0 THEN wait - 1 ELSE 0
    BY <1>5 DEF WaitForBus, Bus
  <2>2. CASE pc = "poll"
    <3>1. wait > 0 /\ wait' = wait - 1
      BY <1>1, <1>5, <2>1, <2>2 DEF WaitForBus
    <3>2. write = Idle => counter_reg' + wait' <= TimerGap + 1
      BY <1>1, <2>2, <3>1 DEF Seen
    <3>3. QED
      BY <1>4, <2>1, <2>2, <3>2 DEF Seen
  <2>3. CASE pc = "see"
    BY <1>1, <1>3, <1>5, <2>1, <2>3 DEF Seen, PortInv, WaitForBus
  <2>4. CASE pc = "again"
    BY <1>1, <1>5, <2>1, <2>4 DEF Seen, WaitForBus
  <2>5. QED
    BY <1>2, <2>2, <2>3, <2>4
<1>6. CASE ProgramStep
  <2>1. wait = 0 /\ wait' = IF pc \in {"idle", "poll"} THEN 0 ELSE TimerGap
    BY <1>6 DEF ProgramStep
  <2>2. CASE Poll
    <3>1. pc = "poll" /\ pc' = "see" /\ data_valid' = FALSE
      BY <1>3, <2>2 DEF Poll, PortInv
    <3>2. QED
      BY <1>1, <1>2, <2>1, <3>1 DEF Seen
  <2>3. CASE See
    BY <1>1, <1>4, <2>1, <2>3 DEF See, Seen, Bus, Started
  <2>4. CASE Again
    BY <1>1, <1>4, <2>1, <2>4 DEF Again, Seen, Bus, Started
  <2>5. QED
    BY <1>2, <1>6, <2>2, <2>3, <2>4 DEF ProgramStep, Begin, Compute, DoStore
<1>7. QED
  BY <1>5, <1>6 DEF ProgramTick

(* A bit that was just set is as young as it can be.                       *)
LEMMA SeenAtZero ==
  ASSUME TypeInv', counter_reg' = 0
  PROVE  Seen'
<1>1. wait' \in 0..TimerGap /\ TimerGap \in Nat
  BY TimerAssumption DEF TypeInv, TypeOK
<1>2. \A g \in Nat : \A w \in 0..g :
        /\ 0 + w <= g + 1 /\ 0 + w <= 2 * g + 4
        /\ 0 <= g + 2 /\ 0 <= g + 3 /\ 0 <= 2 * g + 5
  OBVIOUS
<1>3. QED
  BY Zenon, <1>1, <1>2 DEF Seen

LEMMA TickInvStep ==
  ASSUME TypeInv, StoreInv, RunInv, TickInv, Next, TypeInv'
  PROVE  TickInv'
<1>1. TypeOK /\ TimerTick /\ ProgramTick /\ LogTick /\ PortInv
  BY DEF Next, TypeInv, TickInv
<1>2. /\ counter_reg \in Nat /\ compare_reg \in Nat /\ asked \in Nat /\ TimerGap \in Nat
      /\ pc \in ProgramStates /\ pc' \in ProgramStates
  BY <1>1, Widths, ProgramTypeStep, TimerAssumption DEF TypeOK, Value
<1>3. PortInv'
  BY <1>1, PortStep
<1>4. Idle # StartOnce /\ Idle # StartPeriodic /\ NextPeriod # StartOnce
      /\ NextPeriod # StartPeriodic
  BY StoreFields
<1>5. pc # "store" => /\ pc # "idle" => UNCHANGED <<asked, use>> /\ pc' # "store"
                      /\ pc = "idle" => pc' \in {"idle", "store"}
  BY <1>1, PollingStep
<1>6. pc = "store" /\ pc' # "store" => write' \in Starts
  <2> SUFFICES ASSUME pc = "store", pc' # "store" PROVE write' \in Starts
    OBVIOUS
  <2>1. DoStore
    BY <1>1 DEF ProgramTick, ProgramStep, WaitForBus, Begin, Compute, Poll, See, Again
  <2>2. QED
    BY <1>1, <2>1, StageAdvances, BothAdvances DEF Start, Starts
<1>7. Started' => pc \in {"poll", "see", "again"} /\ UNCHANGED <<asked, use>>
  <2>1. Started' => pc' \in {"poll", "see", "again"} /\ write' \notin Starts
    BY DEF Started, Starts
  <2>2. QED
    BY <1>2, <1>5, <1>6, <2>1 DEF ProgramStates
<1>8. Started => UNCHANGED <<asked, use>>
  BY <1>5 DEF Started
<1>9. ASSUME Started', use = "periodic"
      PROVE  PeriodicRuns'
  <2>1. write \in {Idle, StartPeriodic, NextPeriod} /\ pc \in {"poll", "see", "again"}
    BY <1>7, <1>9 DEF RunInv, Written
  <2>2. CASE write = StartPeriodic
    <3>1. /\ ~enable_reg /\ ~fired_reg /\ counter_reg = 0
          /\ counter_reg + asked = compare_reg
      BY <1>4, <2>1, <2>2, <1>9 DEF RunInv, Starts
    <3>2. /\ enable_reg' /\ ~fired_reg' /\ counter_reg' = counter_reg
          /\ compare_reg' = compare_reg
      BY <1>1, <2>2, <3>1, ServeStep DEF Starts
    <3>3. periodic_reg'
      BY <1>1, <2>2, StartServe
    <3>4. QED
      BY <1>2, <1>7, <1>9, <3>1, <3>2, <3>3 DEF PeriodicRuns
  <2>3. CASE write \in {Idle, NextPeriod}
    <3>1. Started /\ PeriodicRuns
      BY <1>4, <1>9, <2>1, <2>3 DEF Started, TickInv
    <3>2. /\ enable_reg /\ periodic_reg /\ compare_reg = asked /\ counter_reg <= asked
          /\ fired_reg /\ asked >= PollLoop => Seen
      BY <3>1 DEF PeriodicRuns
    <3>3. /\ enable_reg' /\ periodic_reg' /\ compare_reg' = compare_reg
          /\ counter_reg' <= compare_reg
          /\ counter_reg = compare_reg => counter_reg' = 0
          /\ counter_reg < compare_reg => counter_reg' = counter_reg + 1
          /\ write = NextPeriod => ~fired_reg'
          /\ fired_reg' => fired_reg \/ counter_reg = compare_reg
      BY <1>1, <2>3, <3>2, PeriodicServe
    <3>4. fired_reg' /\ asked >= PollLoop => Seen'
      <4> SUFFICES ASSUME fired_reg', asked >= PollLoop PROVE Seen'
        OBVIOUS
      <4>1. CASE counter_reg = compare_reg
        BY <3>3, <4>1, SeenAtZero
      <4>2. CASE counter_reg # compare_reg
        <5>1. /\ fired_reg /\ Seen /\ write = Idle
              /\ counter_reg' = counter_reg + 1
          BY <1>2, <2>3, <3>2, <3>3, <4>2
        <5>2. QED
          BY <1>1, <1>9, <3>1, <5>1, SeenStep
      <4>3. QED
        BY <4>1, <4>2
    <3>5. enable_reg' /\ periodic_reg' /\ compare_reg' = asked' /\ counter_reg' <= asked'
      BY <1>7, <1>9, <3>2, <3>3
    <3>6. QED
      BY <1>7, <1>9, <3>4, <3>5 DEF PeriodicRuns, PollLoop
  <2>4. QED
    BY <2>1, <2>2, <2>3
<1>10. ASSUME Started', use # "periodic"
       PROVE  RunsOnce'
  <2>1. write \in {Idle, StartOnce} /\ pc \in {"poll", "see", "again"}
    BY <1>7, <1>10 DEF RunInv, Written
  <2>2. CASE write = StartOnce
    <3>1. ~enable_reg /\ ~fired_reg
      BY <1>4, <2>1, <2>2 DEF RunInv, Starts
    <3>2. ~fired_reg'
      BY <1>1, <2>2, <3>1, ServeStep DEF Starts
    <3>3. ~periodic_reg'
      BY <1>1, <2>2, StartServe
    <3>4. QED
      BY <3>2, <3>3 DEF RunsOnce
  <2>3. CASE write = Idle
    <3>1. RunsOnce
      BY <1>4, <1>10, <2>1, <2>3 DEF Started, TickInv
    <3>2. QED
      BY <1>1, <2>3, <3>1, OnceServe
  <2>4. QED
    BY <2>1, <2>2, <2>3
<1>11. NoTickLost'
  <2> SUFFICES ASSUME lost' PROVE asked' < PollLoop
    BY DEF NoTickLost, PollLoop
  <2>1. Started /\ asked' = asked /\ (lost \/ (Fires /\ fired_reg))
    BY Zenon, <1>1, <1>8 DEF LogTick
  <2>2. CASE lost
    BY <2>1, <2>2 DEF TickInv, NoTickLost
  <2>3. CASE Fires /\ fired_reg /\ use = "periodic"
    <3>1. PeriodicRuns
      BY <2>1, <2>3 DEF TickInv
    <3>2. counter_reg = asked
      BY <1>2, <2>3, <3>1 DEF PeriodicRuns, Fires, Due
    <3>3. Seen => counter_reg <= 2 * TimerGap + 5
      BY <2>1, SeenBounds
    <3>4. ~(asked >= PollLoop)
      BY <1>2, <2>3, <3>1, <3>2, <3>3 DEF PeriodicRuns, PollLoop
    <3>5. QED
      BY <1>2, <2>1, <3>4 DEF PollLoop
  <2>4. CASE Fires /\ fired_reg /\ use # "periodic"
    BY <2>1, <2>4 DEF TickInv, RunsOnce, Fires
  <2>5. QED
    BY <2>1, <2>2, <2>3, <2>4
<1>12. QED
  BY <1>3, <1>7, <1>9, <1>10, <1>11 DEF TickInv

(* No period of a periodic timer is lost on a program that polls often     *)
(* enough: while its period is not shorter than the polling loop, the bit  *)
(* of one fire is cleared before the next (timer_mm.v; the README's        *)
(* periodic flow).  Uses of every kind may come before it, the two-word    *)
(* delay included.                                                         *)
THEOREM NoTickLostAlways == Spec => []NoTickLost
<1>1. Init => TickInv
  BY DEF Init, TickInv, PortInv, Started, NoTickLost
<1>2. TypeInv /\ StoreInv /\ RunInv /\ TypeInv' /\ TickInv /\ [Next]_vars => TickInv'
  <2> SUFFICES ASSUME TypeInv, StoreInv, RunInv, TypeInv', TickInv, [Next]_vars
               PROVE  TickInv'
    OBVIOUS
  <2>1. CASE Next
    BY <2>1, TickInvStep
  <2>2. CASE UNCHANGED vars
    <3>1. UNCHANGED <<rd_req, data_valid, status_fired, wait, use, pc, write, asked,
                      counter_reg, compare_reg, enable_reg, periodic_reg, fired_reg, lost>>
      BY <2>2 DEF vars, timerVars, programVars
    <3>2. Started' = Started /\ Seen' = Seen
      BY Zenon, <3>1 DEF Started, Seen
    <3>3. PeriodicRuns' = PeriodicRuns /\ RunsOnce' = RunsOnce
      BY Zenon, <3>1, <3>2 DEF PeriodicRuns, RunsOnce, PollLoop
    <3>4. PortInv' /\ NoTickLost'
      BY <3>1 DEF TickInv, PortInv, NoTickLost, PollLoop
    <3>5. QED
      BY Zenon, <3>1, <3>2, <3>3, <3>4 DEF TickInv
  <2>3. QED
    BY <2>1, <2>2
<1>3. TickInv => NoTickLost
  BY DEF TickInv
<1>4. QED
  BY <1>1, <1>2, <1>3, RunAlways, PTL DEF Spec
=============================================================================
