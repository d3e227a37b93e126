--------------------------- MODULE CometIo_proofs ---------------------------
(***************************************************************************)
(* Theorems about CometIo, for every value of its constants: every image,  *)
(* batch and buffer size, every number of tries, keys and calls.           *)
(***************************************************************************)
EXTENDS CometIo, SequenceTheorems, FiniteSetTheorems, TLAPS

-----------------------------------------------------------------------------
(* The load.  While the host loads, the CPU is off and the image is what   *)
(* has been sent of it.                                                    *)
Words(n) == [k \in 1..n |-> k]
LoadInv ==
  /\ pc \in {"open", "drain", "init"} => i = 0
  /\ pc \in {"drain", "init", "load"} => opt.bytes % 2 = 0 /\ opt.bytes <= MaxBytes
  /\ pc = "load" => i <= opt.bytes /\ i % 2 = 0 /\ image = Words(i \div 2)
  /\ pc \in {"open", "drain", "init", "load", "error"} => cpu = "off"
  /\ cpu = "off" => pc \in {"open", "drain", "init", "load"} \cup Ends
  /\ cpu # "off" => /\ image = Words(opt.bytes \div 2)
                    /\ opt.bytes % 2 = 0 /\ opt.bytes <= MaxBytes

(* The output.  What has been shown or dropped, and the word that waits,   *)
(* are the words stored so far.                                            *)
OutInv ==
  /\ cpu = "out" => outs < MaxOuts
  /\ cpu = "off" => outs = 0
  /\ Len(shown) + dropped + Len(Waiting) <= outs
  /\ \A n \in DOMAIN shown : shown[n] <= outs
  /\ \A m, n \in DOMAIN shown : m < n => shown[m] < shown[n]
  /\ Waiting # << >> => /\ outbox[1] = outs
                        /\ \A n \in DOMAIN shown : shown[n] < outs
  /\ dropped > 0 => Len(shown) = Capture /\ opt.prog = "loader"
  /\ opt.prog = "loader" => Len(shown) <= Capture

(* An IN that is being served.  Where input does not come early, the host  *)
(* has something to send only while the program waits for it, and nothing  *)
(* else is under way then.                                                 *)
NoInput == /\ \A n \in DOMAIN mail : mail[n].op # "IN"
           /\ \A n \in DOMAIN fifo : fifo[n].op # "IN"
OneInput ==
  /\ \A m, n \in DOMAIN fifo : fifo[m].op = "IN" /\ fifo[n].op = "IN" => m = n
  /\ mail # << >> /\ mail[1].op = "IN" => \A n \in DOMAIN fifo : fifo[n].op # "IN"
Unasked == cpu # "wait" \/ outbox # << >> \/ pc \in {"need", "line", "send"}
AskInv ==
  opt.ahead = 0 =>
    /\ pc \in {"need", "line", "send"} => cpu = "wait" /\ outbox = << >>
    /\ outbox = <<Request>> => cpu = "wait"
    /\ Unasked => NoInput
    /\ OneInput

(* Only the runner looks for input that was not asked for.                 *)
PollInv == pc = "poll" => opt.prog = "run"

(* At the last try of a spi_read nothing is in the transmit side and no    *)
(* call that would put something there is under way.                       *)
LastTryInv ==
  pc = "read" /\ GivesUp(tries) =>
       outbox = << >> /\ cpu \notin {"out", "ask"} /\ (cpu = "wait" => NoInput)

(* Nothing is lost while nothing comes early.                              *)
AllOut ==
  opt.ahead = 0 => /\ Len(shown) + dropped + Len(Waiting) = outs
                   /\ \A n \in DOMAIN shown : shown[n] = n

-----------------------------------------------------------------------------
(* The options of a session.                                               *)
LEMMA OptionTypes ==
  ASSUME opt \in Sessions
  PROVE  /\ opt.prog \in {"loader", "run"} /\ opt.source \in {"text", "raw", "pipe"}
         /\ opt.text \in Nat /\ opt.ahead \in Nat /\ opt.idle \in Nat \ {0}
         /\ opt.drain \in Nat /\ opt.bytes \in Nat
         /\ opt.burst \in BOOLEAN /\ opt.safe \in BOOLEAN
         /\ opt.prog = "run" /\ opt.source = "text" => opt.ahead > 0
<1>1. opt \in Options
  BY SessionsAssumption
<1>2. opt.prog = "run" /\ opt.source = "text" => opt.ahead > 0
  BY SessionsAssumption
<1>3. QED
  BY <1>1, <1>2 DEF Options

(* Sending m words after the first n makes the first n + m.                *)
LEMMA WordsGrow ==
  ASSUME NEW n \in Nat, NEW m \in Nat
  PROVE  Words(n) \o [k \in 1..m |-> n + k] = Words(n + m)
<1>1. Words(n) \in Seq(Nat) /\ Len(Words(n)) = n
  BY IsASeq DEF Words
<1>2. [k \in 1..m |-> n + k] \in Seq(Nat) /\ Len([k \in 1..m |-> n + k]) = m
  BY IsASeq
<1>3. Words(n + m) \in Seq(Nat) /\ Len(Words(n + m)) = n + m
  BY IsASeq DEF Words
<1>4. QED
  BY <1>1, <1>2, <1>3, ConcatProperties, SeqEqual DEF Words

(* A batch stays within the image, and is not empty.                       *)
LEMMA WordsAtBound ==
  ASSUME opt \in Sessions, opt.bytes % 2 = 0, i \in Nat, i % 2 = 0, i < opt.bytes
  PROVE  WordsAt(i) \in 1..(opt.bytes - i) \div 2
<1>1. opt.bytes \in Nat
  BY OptionTypes
<1>2. (opt.bytes - i) \div 2 \in Nat \ {0}
  BY <1>1
<1>3. Batch \in Nat \ {0}
  BY SizesAssumption
<1>4. QED
  BY <1>2, <1>3 DEF WordsAt

LEMMA LoadStep ==
  ASSUME opt \in Sessions, i \in Nat, LoadInv, Next
  PROVE  LoadInv'
<1> USE DEF LoadInv, Ends, linkVars, loadVars, srcVars, logVars, cpuVars
<1>1. CASE Open
  <2>1. opt.bytes \in Nat /\ MaxBytes \in Nat
    BY OptionTypes, SizesAssumption
  <2>2. QED
    BY <1>1, <2>1 DEF Open
<1>2. CASE DrainRead
  BY <1>2 DEF DrainRead
<1>3. CASE SendInit
  <2>1. 0 \div 2 = 0 /\ 0 % 2 = 0
    OBVIOUS
  <2>2. Words(0) = << >>
    BY DEF Words
  <2>3. opt.bytes \in Nat
    BY OptionTypes
  <2>4. QED
    BY <1>3, <2>1, <2>2, <2>3 DEF SendInit
<1>4. CASE SendWords
  <2> DEFINE w == WordsAt(i)
  <2>1. /\ pc = "load" /\ i < opt.bytes /\ i % 2 = 0 /\ image = Words(i \div 2)
        /\ opt.bytes \in Nat /\ opt.bytes % 2 = 0
    BY <1>4, OptionTypes DEF SendWords
  <2>2. w \in 1..(opt.bytes - i) \div 2
    BY <2>1, WordsAtBound
  <2>3. /\ image' = Words(i \div 2) \o [k \in 1..w |-> i \div 2 + k]
        /\ i' = i + 2 * w
    BY <1>4, <2>1 DEF SendWords
  <2>4. image' = Words(i \div 2 + w)
    <3>1. i \div 2 \in Nat /\ w \in Nat
      BY <2>1, <2>2
    <3>2. QED
      BY <2>3, <3>1, WordsGrow
  <2> HIDE DEF w
  <2>5. i' \div 2 = i \div 2 + w /\ i' % 2 = 0 /\ i' <= opt.bytes
    BY <2>1, <2>2, <2>3
  <2>6. UNCHANGED <<pc, cpu, opt>>
    BY <1>4 DEF SendWords
  <2>7. QED
    BY <2>1, <2>4, <2>5, <2>6
<1>5. CASE SendStart
  <2>1. i = opt.bytes
    BY <1>5, OptionTypes DEF SendStart
  <2>2. QED
    BY <1>5, <2>1 DEF SendStart
<1>6. CASE LoopTop
  BY <1>6 DEF LoopTop
<1>7. CASE QuietTry
  BY <1>7 DEF QuietTry
<1>8. CASE ReadWord
  BY <1>8 DEF ReadWord
<1>9. CASE NextChar \/ Refill
  BY <1>9 DEF NextChar, Refill
<1>10. CASE SendChar
  BY <1>10 DEF SendChar
<1>11. CASE PollNothing \/ PollText
  BY <1>11 DEF PollNothing, PollText
<1>12. CASE User
  BY <1>12 DEF User, TypeInterrupt, Type, PollKey, Signal, Ended
<1>13. CASE Chip
  BY <1>13 DEF Chip
<1>14. CASE Begin
  BY <1>14 DEF Begin
<1>15. CASE CpuCall
  BY <1>15 DEF CpuCall, PutChar, Ask, Discard, GetChar
<1>16. QED
  BY <1>1, <1>2, <1>3, <1>4, <1>5, <1>6, <1>7, <1>8, <1>9, <1>10, <1>11, <1>12, <1>13,
     <1>14, <1>15 DEF Next, Host

-----------------------------------------------------------------------------
(* Types.  The options do not change, nor what depends on them.            *)
Packets == {Nop, Echo} \cup {InChar(c) : c \in Characters}
LEMMA OptStep ==
  ASSUME Next
  PROVE  opt' = opt /\ Characters' = Characters /\ Packets' = Packets
<1>1. opt' = opt
  BY DEF Next, Host, User, Chip, CpuCall, Open, DrainRead, SendInit, SendWords, SendStart,
         LoopTop, QuietTry, ReadWord, NextChar, Refill, SendChar, PollNothing, PollText,
         Type, TypeInterrupt, PollKey, Signal, Begin, PutChar, Ask, Discard, GetChar
<1>2. QED
  BY <1>1 DEF Characters, Packets

(* A key that is typed is a character, or one that is not stored.           *)
LEMMA KeyTypes ==
  ASSUME TypeOK, Len(keys) < MaxKeys, NEW k \in Keys
  PROVE  /\ k \in Characters \cup {ETX, EOF}
         /\ Append(keys, k) \in Seq(Characters \cup {ETX, EOF})
         /\ Len(Append(keys, k)) <= MaxKeys
<1>1. keys \in Seq(Characters \cup {ETX, EOF}) /\ Len(keys) \in Nat /\ MaxKeys \in Nat
  BY SizesAssumption, LenProperties DEF TypeOK
<1>2. Cardinality(Printable) \in 0..Len(keys)
  <2>1. Printable \subseteq 1..Len(keys)
    BY <1>1, LenProperties DEF Printable
  <2>2. IsFiniteSet(1..Len(keys)) /\ Cardinality(1..Len(keys)) = Len(keys)
    <3>1. \A n \in Nat : IsFiniteSet(1..n) /\ Cardinality(1..n) = n
      <4>1. TAKE n \in Nat
      <4>2. IsFiniteSet(1..n) /\ Cardinality(1..n) = IF 1 > n THEN 0 ELSE n - 1 + 1
        BY FS_Interval
      <4>3. QED
        BY <4>2
    <3>2. QED
      BY <1>1, <3>1
  <2>3. /\ IsFiniteSet(Printable) /\ Cardinality(Printable) \in Nat
        /\ Cardinality(Printable) <= Cardinality(1..Len(keys))
    BY <2>1, <2>2, FS_Subset, FS_CardinalityType
  <2>4. QED
    BY <2>2, <2>3, <1>1
<1>3. Cardinality(Printable) + 1 \in 1..MaxKeys
  BY <1>1, <1>2
<1>4. k \in Characters \cup {ETX, EOF}
  BY <1>3 DEF Keys, Characters, NL, EOT, EOF, BS, ETX
<1>5. QED
  BY <1>1, <1>4, AppendProperties

(* The line buffer stays a line, shorter than its array.                   *)
LEMMA TypedType ==
  ASSUME TypeOK, NEW k \in Characters \cup {EOF}
  PROVE  Typed(k) \in Seq(Characters) /\ Len(Typed(k)) < LineMax
<1>1. line \in Seq(Characters) /\ Len(line) \in Nat /\ Len(line) < LineMax
  BY LenProperties DEF TypeOK
<1>2. LineMax \in Nat /\ LineMax > 1
  BY SizesAssumption
<1>3. EOT \in Characters /\ NL \in Characters /\ EOF # BS /\ EOT # EOF
  BY DEF Characters, EOT, NL, BS, EOF
<1>4. <<EOT>> \in Seq(Characters) /\ Len(<<EOT>>) = 1
  BY <1>3
<1>5. \A c \in Characters : Stored(c) \in Seq(Characters) /\ Len(Stored(c)) < LineMax
  BY <1>1, <1>2, AppendProperties DEF Stored
<1>6. line # << >> => Front(line) \in Seq(Characters) /\ Len(Front(line)) < LineMax
  BY <1>1, <1>2 DEF Front
<1>7. QED
  BY <1>1, <1>2, <1>3, <1>4, <1>5, <1>6 DEF Typed

(* What the keys mean is text, as the keys are.                            *)
Texts == [done : Seq(Characters), part : Seq(Characters)]
LEMMA EditCases ==
  ASSUME NEW d, NEW p, NEW k, NEW t, t = Text(d, p)
  PROVE  /\ k = ETX => Edit(t, k) = t
         /\ k \in Nat /\ k > 0 => Edit(t, k) = Text(d, Append(p, k))
         /\ k = BS => Edit(t, k) = Text(d, IF p = << >> THEN p ELSE Front(p))
         /\ k \in {EOT, EOF} /\ p = << >> => Edit(t, k) = Text(Append(d, EOT), p)
         /\ k = EOF /\ p # << >> => Edit(t, k) = Text(d \o p \o <<NL, EOT>>, << >>)
         /\ k = NL \/ (k = EOT /\ p # << >>) => Edit(t, k) = Text(d \o p \o <<NL>>, << >>)
<1>1. t.done = d /\ t.part = p
  BY DEF Text
<1> HIDE DEF Text
<1>2. QED
  BY <1>1 DEF Edit, ETX, BS, EOT, EOF, NL

LEMMA EditType ==
  ASSUME TypeOK, NEW k \in Characters \cup {ETX, EOF}
  PROVE  Edit(meant, k) \in Texts
<1>1. PICK d \in Seq(Characters), p \in Seq(Characters) : meant = Text(d, p)
  BY DEF TypeOK, Text
<1>2. EOT \in Characters /\ NL \in Characters
  BY DEF Characters
<1>3. /\ Append(d, EOT) \in Seq(Characters)
      /\ d \o p \o <<NL>> \in Seq(Characters) /\ d \o p \o <<NL, EOT>> \in Seq(Characters)
      /\ << >> \in Seq(Characters)
      /\ p # << >> => Front(p) \in Seq(Characters)
      /\ k \in Characters => Append(p, k) \in Seq(Characters)
  BY <1>1, <1>2, AppendProperties, ConcatProperties DEF Front
<1>4. k \in {ETX, BS, EOT, EOF, NL} \/ (k \in Nat /\ k > 0 /\ k \in Characters)
  BY OptionTypes, SizesAssumption DEF Characters, EOT, NL, BS, ETX, EOF, TypeOK
<1>5. \A x, y \in Seq(Characters) : Text(x, y) \in Texts
  BY DEF Texts, Text
<1>6. CASE k = ETX
  BY <1>1, <1>5, <1>6, EditCases
<1>7. CASE k = BS
  BY <1>1, <1>3, <1>5, <1>7, EditCases
<1>8. CASE k \in {EOT, EOF}
  <2>1. CASE p = << >>
    <3>1. Edit(meant, k) = Text(Append(d, EOT), p)
      BY <1>1, <1>8, <2>1, EditCases
    <3>2. QED
      BY <1>3, <1>5, <3>1
  <2>2. CASE p # << >> /\ k = EOF
    <3>1. Edit(meant, k) = Text(d \o p \o <<NL, EOT>>, << >>)
      BY <1>1, <2>2, EditCases
    <3>2. QED
      BY <1>3, <1>5, <3>1
  <2>3. CASE p # << >> /\ k = EOT
    <3>1. Edit(meant, k) = Text(d \o p \o <<NL>>, << >>)
      BY <1>1, <2>3, EditCases
    <3>2. QED
      BY <1>3, <1>5, <3>1
  <2>4. QED
    BY <1>8, <2>1, <2>2, <2>3
<1>9. CASE k = NL
  <2>1. Edit(meant, k) = Text(d \o p \o <<NL>>, << >>)
    BY <1>1, <1>9, EditCases
  <2>2. QED
    BY <1>3, <1>5, <2>1
<1>10. CASE k \in Nat /\ k > 0 /\ k \in Characters
  <2>1. Edit(meant, k) = Text(d, Append(p, k))
    BY <1>1, <1>10, EditCases
  <2>2. QED
    BY <1>1, <1>3, <1>5, <1>10, <2>1
<1>11. QED
  BY <1>4, <1>6, <1>7, <1>8, <1>9, <1>10

LEMMA InputTypes ==
  ASSUME TypeOK, Next
  PROVE  /\ ch' \in Characters' /\ pos' \in 0..opt'.text
         /\ line' \in Seq(Characters') /\ Len(line') < LineMax
         /\ eof' \in BOOLEAN /\ eof_sent' \in BOOLEAN
         /\ keys' \in Seq((Characters \cup {ETX, EOF})') /\ Len(keys') <= MaxKeys
         /\ meant' \in Texts'
         /\ received' \in Seq(Characters')
<1> DEFINE Types == /\ ch \in Characters /\ pos \in 0..opt.text
                    /\ line \in Seq(Characters) /\ Len(line) < LineMax
                    /\ eof \in BOOLEAN /\ eof_sent \in BOOLEAN
                    /\ keys \in Seq(Characters \cup {ETX, EOF}) /\ Len(keys) <= MaxKeys
                    /\ meant \in Texts
                    /\ received \in Seq(Characters)
<1>1. Types
  BY DEF TypeOK, Texts
<1>2. opt' = opt /\ Characters' = Characters /\ Texts' = Texts /\ opt.text \in Nat
  BY OptStep, OptionTypes DEF TypeOK, Texts
<1>3. /\ NL \in Characters /\ EOT \in Characters /\ ETX \notin Characters /\ EOF \notin Characters
      /\ 1..opt.text \subseteq Characters
  BY <1>2 DEF Characters, NL, EOT, ETX, EOF, BS
<1>4. CASE NextChar
  <2>1. line # << >> => Head(line) \in Characters /\ Tail(line) \in Seq(Characters)
                        /\ Len(Tail(line)) < LineMax
    BY <1>1, SizesAssumption
  <2>2. pos < opt.text => pos + 1 \in 1..opt.text
    BY <1>1, <1>2
  <2>3. UNCHANGED <<eof, keys, meant, received>>
    BY <1>4 DEF NextChar, cpuVars
  <2>4. CASE opt.source = "text"
    <3>1. UNCHANGED <<line, eof_sent>>
      BY <1>4, <2>4 DEF NextChar
    <3>2. ch' \in Characters /\ pos' \in 0..opt.text
      BY <1>4, <2>4, <1>1, <1>2, <1>3, <2>2 DEF NextChar
    <3>3. QED
      BY <1>1, <1>2, <2>3, <3>1, <3>2
  <2>5. CASE opt.source # "text"
    <3>1. /\ line # << >> /\ ch' = Head(line) /\ line' = Tail(line)
          /\ eof_sent' = (eof_sent \/ Head(line) = EOT) /\ pos' = pos
      BY <1>4, <2>5 DEF NextChar
    <3>2. eof_sent' \in BOOLEAN
      BY <3>1
    <3>3. QED
      BY <1>1, <1>2, <2>1, <2>3, <3>1, <3>2
  <2>6. QED
    BY <2>4, <2>5
<1>5. CASE Refill
  <2>1. <<EOT>> \in Seq(Characters) /\ Len(<<EOT>>) < LineMax /\ Len(<< >>) < LineMax
    BY <1>3, SizesAssumption
  <2>2. QED
    BY <1>1, <1>2, <1>5, <2>1 DEF Refill, cpuVars
<1>6. CASE PollText
  <2>1. UNCHANGED <<line, eof_sent, keys, meant, received>> /\ eof' \in BOOLEAN
    BY <1>1, <1>6 DEF PollText, cpuVars
  <2>2. ch' \in Characters /\ pos' \in 0..opt.text
    <3>1. CASE pos < opt.text
      <4>1. pos + 1 \in 1..opt.text /\ ch' = pos + 1 /\ pos' = pos + 1
        BY <1>1, <1>2, <1>6, <3>1 DEF PollText
      <4>2. QED
        BY <4>1, <1>3
    <3>2. CASE ~(pos < opt.text)
      BY <1>1, <1>3, <1>6, <3>2 DEF PollText
    <3>3. QED
      BY <3>1, <3>2
  <2>3. QED
    BY <1>1, <1>2, <2>1, <2>2
<1>7. ASSUME User PROVE Types'
  <2>1. CASE Signal \/ (TypeInterrupt /\ Len(keys) < MaxKeys)
    <3>1. UNCHANGED <<ch, pos, line, eof, eof_sent, received>>
      BY <2>1 DEF Signal, TypeInterrupt, cpuVars, srcVars
    <3>2. keys' \in Seq(Characters \cup {ETX, EOF}) /\ Len(keys') <= MaxKeys /\ meant' \in Texts
      <4>1. CASE Signal
        BY <1>1, <4>1 DEF Signal, srcVars
      <4>2. CASE TypeInterrupt /\ Len(keys) < MaxKeys
        <5>1. ETX \in Keys /\ keys' = Append(keys, ETX) /\ meant' = Edit(meant, ETX)
          BY <4>2 DEF TypeInterrupt, Pressed
        <5>2. QED
          BY <4>2, <5>1, KeyTypes, EditType
      <4>3. QED
        BY <2>1, <4>1, <4>2
    <3>3. QED
      BY <1>1, <1>2, <3>1, <3>2
  <2>2. ASSUME NEW k \in Keys, Len(keys) < MaxKeys, Type(k) PROVE Types'
    <3>1. k \in Characters \cup {EOF}
      BY <2>2, KeyTypes DEF Type
    <3>2. keys' \in Seq(Characters \cup {ETX, EOF}) /\ Len(keys') <= MaxKeys /\ meant' \in Texts
      BY <2>2, KeyTypes, EditType DEF Type, Pressed
    <3>3. line' \in Seq(Characters) /\ Len(line') < LineMax
      BY <2>2, <3>1, TypedType DEF Type
    <3>4. UNCHANGED <<ch, pos, eof_sent, received>> /\ eof' \in BOOLEAN
      BY <2>2 DEF Type, cpuVars
    <3>5. QED
      BY <1>1, <1>2, <3>2, <3>3, <3>4
  <2>3. ASSUME NEW k \in Keys, Len(keys) < MaxKeys, PollKey(k) PROVE Types'
    <3>1. k \in Characters \cup {ETX, EOF}
      BY <2>3, KeyTypes
    <3>2. keys' \in Seq(Characters \cup {ETX, EOF}) /\ Len(keys') <= MaxKeys /\ meant' \in Texts
      BY <2>3, KeyTypes, EditType DEF PollKey, Pressed
    <3>3. UNCHANGED <<pos, line, eof_sent, received>> /\ eof' \in BOOLEAN
      BY <2>3 DEF PollKey, cpuVars
    <3>4. ch' \in Characters
      BY <1>1, <1>3, <2>3, <3>1 DEF PollKey
    <3>5. QED
      BY <1>1, <1>2, <3>2, <3>3, <3>4
  <2> HIDE DEF Types
  <2>4. QED
    <3>1. CASE \E k \in Keys : Len(keys) < MaxKeys /\ (Type(k) \/ PollKey(k))
      BY <2>2, <2>3, <3>1
    <3>2. \/ Signal \/ (TypeInterrupt /\ Len(keys) < MaxKeys)
          \/ \E k \in Keys : Len(keys) < MaxKeys /\ (Type(k) \/ PollKey(k))
      BY <1>7 DEF User
    <3>3. QED
      BY <2>1, <3>1, <3>2
<1>8. CASE GetChar
  <2>1. mail[1].ch \in Characters
    BY <1>8 DEF GetChar, TypeOK, InChar, Echo
  <2>2. received' \in Seq(Characters)
    BY <1>1, <1>8, <2>1, AppendProperties DEF GetChar
  <2>3. UNCHANGED <<ch, srcVars>>
    BY <1>8 DEF GetChar
  <2>4. QED
    BY <1>1, <1>2, <2>2, <2>3 DEF srcVars
<1>9. CASE \/ Open \/ DrainRead \/ SendInit \/ SendWords \/ SendStart \/ LoopTop \/ QuietTry
           \/ ReadWord \/ SendChar \/ PollNothing \/ Chip \/ Begin \/ PutChar \/ Ask \/ Discard
  <2>1. UNCHANGED <<ch, srcVars, received>>
    BY <1>9 DEF Open, DrainRead, SendInit, SendWords, SendStart, LoopTop, QuietTry, ReadWord,
                SendChar, PollNothing, Chip, Begin, PutChar, Ask, Discard, cpuVars
  <2>2. QED
    BY <1>1, <1>2, <2>1 DEF srcVars
<1>10. QED
  BY <1>4, <1>5, <1>6, <1>7, <1>8, <1>9 DEF Next, Host, CpuCall

(* The transmit side holds nothing, or one word.                           *)
LEMMA OutboxCases ==
  ASSUME TypeOK
  PROVE  /\ MaxOuts \in Nat /\ Capture \in Nat \ {0}
         /\ Len(shown) \in Nat /\ shown \in Seq(1..MaxOuts) /\ dropped \in Nat
         /\ outs \in Nat /\ outs <= MaxOuts
         /\ outbox # << >> => outbox[1] \in 0..MaxOuts /\ outbox = <<outbox[1]>>
         /\ outbox = << >> => Waiting = << >>
         /\ outbox # << >> /\ outbox[1] = Request => outbox = <<Request>> /\ Waiting = << >>
         /\ outbox # << >> /\ outbox[1] # Request => Waiting = outbox /\ Len(Waiting) = 1
         /\ Len(Waiting) \in {0, 1} /\ Len(<< >>) = 0
<1>1. MaxOuts \in Nat /\ Capture \in Nat \ {0}
  BY SizesAssumption
<1>2. shown \in Seq(1..MaxOuts) /\ Len(shown) \in Nat /\ dropped \in Nat
      /\ outs \in Nat /\ outs <= MaxOuts
  BY <1>1, LenProperties DEF TypeOK
<1>3. outbox # << >> => \E w \in 0..MaxOuts : outbox = <<w>> /\ outbox[1] = w /\ Len(outbox) = 1
  BY DEF TypeOK
<1>4. << >> # <<Request>>
  OBVIOUS
<1>5. QED
  BY <1>1, <1>2, <1>3, <1>4 DEF Waiting, Request

(* A word that is read is kept, or dropped behind a full buffer.           *)
LEMMA ReadWordOut ==
  ASSUME TypeOK, OutInv, ReadWord
  PROVE  /\ OutInv' /\ shown' \in Seq(1..MaxOuts) /\ dropped' \in 0..MaxOuts
         /\ AllOut => AllOut'
<1>1. /\ outbox # << >> /\ outbox' = << >>
      /\ UNCHANGED <<opt, cpu, outs>>
      /\ outbox[1] = Request => UNCHANGED <<shown, dropped>>
      /\ outbox[1] # Request => KeepsOutput(outbox[1])
  BY DEF ReadWord, Returns, ReadTry, Transfer, logVars, cpuVars
<1>2. Waiting' = << >> /\ Len(Waiting') = 0
  BY <1>1 DEF Waiting
<1>3. CASE outbox[1] = Request
  <2>1. Len(Waiting) = 0
    BY <1>1, <1>3, OutboxCases
  <2>2. UNCHANGED <<shown, dropped>>
    BY <1>1, <1>3
  <2>3. QED
    BY <1>1, <1>2, <2>1, <2>2, OutboxCases DEF OutInv, AllOut, TypeOK
<1>4. CASE outbox[1] # Request
  <2> DEFINE w == outbox[1]
  <2>1. /\ w \in 1..MaxOuts /\ w = outs /\ Len(Waiting) = 1
        /\ \A n \in DOMAIN shown : shown[n] < w
    BY <1>1, <1>4, OutboxCases DEF OutInv, Request
  <2>2. /\ opt.prog \in {"loader", "run"}
        /\ Len(shown) + dropped + 1 <= outs
        /\ dropped > 0 => Len(shown) = Capture /\ opt.prog = "loader"
        /\ opt.ahead = 0 /\ AllOut => Len(shown) + dropped + 1 = outs
    BY <2>1, OptionTypes DEF OutInv, AllOut, TypeOK
  <2> HIDE DEF w
  <2>3. CASE shown' = Append(shown, w) /\ dropped' = dropped
             /\ (opt.prog = "run" \/ Len(shown) < Capture)
    <3>1. /\ shown' \in Seq(1..MaxOuts) /\ Len(shown') = Len(shown) + 1
          /\ shown'[Len(shown) + 1] = w
          /\ \A n \in 1..Len(shown) : shown'[n] = shown[n]
          /\ DOMAIN shown' = 1..Len(shown) + 1 /\ DOMAIN shown = 1..Len(shown)
      BY <2>1, <2>3, OutboxCases, AppendProperties
    <3>2. dropped = 0
      BY <2>2, <2>3, OutboxCases
    <3> DEFINE len == Len(shown)
    <3>a. /\ len \in Nat /\ w \in Nat /\ w = outs
          /\ \A n \in 1..len : shown[n] \in Nat /\ shown[n] < w
          /\ \A m, n \in 1..len : m < n => shown[m] < shown[n]
      BY <2>1, <3>1, OutboxCases DEF OutInv
    <3>b. /\ DOMAIN shown' = 1..len + 1 /\ shown'[len + 1] = w
          /\ \A n \in 1..len : shown'[n] = shown[n]
      BY <3>1
    <3>c. \A n \in 1..len + 1 : n \in 1..len \/ n = len + 1
      BY <3>a
    <3> HIDE DEF len
    <3>3. \A n \in DOMAIN shown' : shown'[n] <= outs
      BY <3>a, <3>b, <3>c
    <3>4. \A m, n \in DOMAIN shown' : m < n => shown'[m] < shown'[n]
      BY <3>a, <3>b, <3>c
    <3>5. AllOut /\ opt.ahead = 0 =>
            Len(shown) + 1 = outs /\ \A n \in DOMAIN shown' : shown'[n] = n
      BY <2>1, <2>2, <3>1, <3>2, OutboxCases DEF AllOut
    <3>6. dropped' \in 0..MaxOuts
      BY <2>3, <3>2, OutboxCases
    <3>7. /\ Len(shown') + dropped' + Len(Waiting') <= outs'
          /\ dropped' = 0 /\ Waiting' = << >>
          /\ opt'.prog = "loader" => Len(shown') <= Capture
      <4>1. Len(shown) \in Nat /\ Capture \in Nat /\ outs \in Nat
        BY OutboxCases
      <4>2. Len(shown') = Len(shown) + 1 /\ dropped' = 0 /\ outs' = outs /\ opt' = opt
        BY <1>1, <2>3, <3>1, <3>2
      <4>3. opt.prog = "loader" => Len(shown) < Capture
        BY <2>3
      <4>4. QED
        BY <1>2, <2>2, <3>2, <4>1, <4>2, <4>3
    <3>8. OutInv'
      BY <1>1, <3>3, <3>4, <3>7 DEF OutInv
    <3>9. AllOut => AllOut'
      <4>1. Len(shown) \in Nat /\ outs \in Nat
        BY OutboxCases
      <4>2. Len(shown') = Len(shown) + 1 /\ dropped' = 0 /\ outs' = outs /\ opt' = opt
        BY <1>1, <2>3, <3>1, <3>2
      <4>3. QED
        BY <1>2, <3>5, <4>1, <4>2 DEF AllOut
    <3>10. QED
      BY <3>1, <3>6, <3>8, <3>9
  <2>4. CASE shown' = shown /\ dropped' = dropped + 1
             /\ opt.prog # "run" /\ ~(Len(shown) < Capture)
    <3>1. Len(shown) = Capture
      <4>1. Len(shown) <= Capture
        BY <2>2, <2>4 DEF OutInv
      <4>2. QED
        BY <2>4, <4>1, OutboxCases
    <3>2. dropped' \in 0..MaxOuts
      BY <2>2, <2>4, OutboxCases
    <3>3. /\ Len(shown') + dropped' + Len(Waiting') <= outs'
          /\ dropped' > 0 => Len(shown') = Capture /\ opt'.prog = "loader"
          /\ Waiting' = << >> /\ opt' = opt /\ outs' = outs /\ cpu' = cpu
      BY <1>1, <1>2, <2>2, <2>4, <3>1, OutboxCases
    <3>4. OutInv'
      BY <2>4, <3>3 DEF OutInv
    <3>5. AllOut => AllOut'
      BY <1>2, <2>2, <2>4, <3>3, OutboxCases DEF AllOut
    <3>6. QED
      BY <2>4, <3>2, <3>4, <3>5, OutboxCases
  <2>5. KeepsOutput(w)
    BY <1>1, <1>4 DEF w
  <2>6. QED
    BY <2>3, <2>4, <2>5 DEF KeepsOutput
<1>5. QED
  BY <1>3, <1>4

(* The actions by what they do to the link: the last group leaves it, the  *)
(* program and the output alone, but for the end of the load.              *)
Quietly == \/ Open \/ DrainRead \/ SendInit \/ SendWords \/ LoopTop \/ NextChar \/ Refill
           \/ PollNothing \/ PollText \/ User
LEMMA ActionCases ==
  ASSUME Next
  PROVE  \/ QuietTry \/ ReadWord \/ SendChar \/ SendStart \/ Begin \/ PutChar \/ Ask
         \/ Discard \/ GetChar \/ Chip \/ Quietly
  BY Zenon DEF Next, Host, CpuCall, Quietly

LEMMA QuietlyLeaves ==
  ASSUME Quietly
  PROVE  UNCHANGED <<linkVars, opt, cpu, outs, ins, logVars>>
  BY DEF Quietly, Open, DrainRead, SendInit, SendWords, LoopTop, NextChar, Refill,
         PollNothing, PollText, User, Type, TypeInterrupt, PollKey, Signal, cpuVars

(* A transfer empties the transmit side.                                   *)
LEMMA TransferOut ==
  ASSUME TypeOK, OutInv, outbox' = << >>, UNCHANGED <<opt, cpu, outs, logVars>>
  PROVE  OutInv' /\ (outbox = << >> /\ AllOut => AllOut')
<1>1. Waiting' = << >> /\ Len(Waiting') = 0 /\ Len(Waiting) >= 0
  BY OutboxCases DEF Waiting
<1>2. UNCHANGED <<shown, dropped>>
  BY DEF logVars
<1>3. Len(shown') + dropped' + Len(Waiting') <= outs'
  BY <1>1, <1>2, OutboxCases DEF OutInv
<1>4. OutInv'
  BY <1>1, <1>2, <1>3 DEF OutInv
<1>5. outbox = << >> => Len(Waiting) = 0
  BY OutboxCases
<1>6. QED
  BY <1>1, <1>2, <1>4, <1>5 DEF AllOut

LEMMA OutStep ==
  ASSUME TypeOK, LoadInv, OutInv, Next
  PROVE  OutInv'
<1>1. CASE QuietTry \/ SendChar
  BY <1>1, TransferOut DEF QuietTry, SendChar, ReadTry, Send, Transfer, cpuVars
<1>2. CASE ReadWord
  BY <1>2, ReadWordOut
<1>3. ASSUME UNCHANGED <<outbox, opt, outs, logVars>>,
             cpu' = "out" => outs < MaxOuts, cpu' = "off" => cpu = "off"
      PROVE  OutInv'
  <2>1. UNCHANGED <<Waiting, shown, dropped>>
    BY <1>3 DEF Waiting, logVars
  <2>2. QED
    BY <1>3, <2>1 DEF OutInv
<1>4. CASE Quietly
  BY <1>3, <1>4, QuietlyLeaves DEF linkVars, OutInv
<1>5. CASE SendStart
  BY <1>3, <1>5 DEF SendStart, linkVars
<1>6. CASE Begin
  BY <1>3, <1>6 DEF Begin, linkVars
<1>7. CASE Chip
  BY <1>3, <1>7 DEF Chip, Dispatch, cpuVars, OutInv
<1>8. CASE Discard
  BY <1>3, <1>8 DEF Discard, AckMail, cpuVars, OutInv
<1>9. CASE GetChar
  BY <1>3, <1>9 DEF GetChar, AckMail
<1>10. CASE PutChar
  <2>1. /\ cpu = "out" /\ cpu' = "run" /\ outbox = << >> /\ outbox' = <<outs + 1>>
        /\ outs' = outs + 1 /\ UNCHANGED <<opt, shown, dropped>>
    BY <1>10 DEF PutChar, StoreWord, MayStore, logVars
  <2>2. Waiting' = <<outs + 1>> /\ Len(Waiting') = 1 /\ outbox'[1] = outs + 1
    BY <2>1, OutboxCases DEF Waiting, Request
  <2>3. Len(Waiting) = 0
    BY <2>1, OutboxCases
  <2>4. Len(shown') + dropped' + Len(Waiting') <= outs'
    BY <2>1, <2>2, <2>3, OutboxCases DEF OutInv
  <2>5. \A n \in DOMAIN shown : shown[n] \in Nat /\ shown[n] <= outs
    <3>1. \A n \in DOMAIN shown : shown[n] <= outs
      BY DEF OutInv
    <3>2. shown \in Seq(1..MaxOuts)
      BY OutboxCases
    <3>3. \A n \in DOMAIN shown : shown[n] \in 1..MaxOuts
      <4>1. DOMAIN shown = 1..Len(shown)
        BY <3>2
      <4>2. QED
        BY <3>2, <4>1, ElementOfSeq
    <3>4. QED
      BY <3>1, <3>3, OutboxCases
  <2>6. \A n \in DOMAIN shown' : shown'[n] <= outs' /\ shown'[n] < outs'
    BY <2>1, <2>5, OutboxCases
  <2>7. QED
    BY <2>1, <2>2, <2>4, <2>6 DEF OutInv
<1>11. CASE Ask
  <2>1. /\ outbox = << >> /\ outbox' = <<Request>> /\ cpu' = "wait"
        /\ UNCHANGED <<opt, outs, shown, dropped>>
    BY <1>11 DEF Ask, StoreWord, MayStore, logVars
  <2>2. Waiting = << >> /\ Waiting' = << >>
    BY <2>1 DEF Waiting
  <2>3. QED
    BY <2>1, <2>2 DEF OutInv
<1>12. QED
  BY <1>1, <1>2, <1>4, <1>5, <1>6, <1>7, <1>8, <1>9, <1>10, <1>11, ActionCases

-----------------------------------------------------------------------------
(* What is in the chip stays well formed.                                  *)
LinkTypes ==
  /\ fifo \in Seq(Packets) /\ Len(fifo) <= Depth
  /\ mail = << >> \/ \E p \in Packets : p # Nop /\ mail = <<p>>
  /\ outbox = << >> \/ \E w \in 0..MaxOuts : outbox = <<w>>

LEMMA PacketOps ==
  \A p \in Packets : (p.op = "IN" => p.ch \in Characters) /\ (p = Nop <=> p.op = "NOP")
  BY DEF Packets, Nop, Echo, InChar

LEMMA LinkTypesOf ==
  ASSUME TypeOK
  PROVE  LinkTypes /\ Depth \in Nat \ {0} /\ Len(fifo) \in Nat
<1>1. fifo \in Seq(Packets) /\ Len(fifo) <= Depth
  BY DEF TypeOK, Packets
<1>2. \A c \in Characters : InChar(c) # Nop /\ Echo # Nop
  BY DEF InChar, Nop, Echo
<1>3. mail = << >> \/ \E p \in Packets : p # Nop /\ mail = <<p>>
  BY <1>2 DEF TypeOK, Packets
<1>4. QED
  BY <1>1, <1>3, LinkAssumption, LenProperties DEF LinkTypes, TypeOK

(* A transfer adds at most its packet, a dispatch moves one.               *)
LEMMA TransferLink ==
  ASSUME TypeOK, NEW p \in Packets, Transfer(p)
  PROVE  /\ fifo' \in Seq(Packets) /\ Len(fifo') <= Depth /\ outbox' = << >> /\ mail' = mail
         /\ \/ fifo' = fifo
            \/ /\ Len(fifo') = Len(fifo) + 1 /\ fifo'[Len(fifo) + 1] = p
               /\ \A n \in 1..Len(fifo) : fifo'[n] = fifo[n]
<1>1. fifo \in Seq(Packets) /\ Len(fifo) \in Nat /\ Depth \in Nat /\ Len(fifo) <= Depth
  BY LinkTypesOf DEF LinkTypes
<1>2. QED
  BY <1>1, AppendProperties DEF Transfer

LEMMA DispatchLink ==
  ASSUME TypeOK, Dispatch
  PROVE  /\ fifo # << >> /\ mail = << >> /\ outbox' = outbox
         /\ fifo' \in Seq(Packets) /\ Len(fifo') = Len(fifo) - 1
         /\ \A n \in 1..Len(fifo) - 1 : fifo'[n] = fifo[n + 1]
         /\ fifo[1] \in Packets
         /\ mail' = << >> \/ (mail' = <<fifo[1]>> /\ fifo[1] # Nop)
<1>1. fifo \in Seq(Packets)
  BY LinkTypesOf DEF LinkTypes
<1>2. fifo # << >> /\ mail = << >> /\ outbox' = outbox /\ fifo' = Tail(fifo)
      /\ mail' = IF Head(fifo) = Nop THEN << >> ELSE <<Head(fifo)>>
  BY DEF Dispatch, Settled
<1>3. Head(fifo) = fifo[1] /\ fifo[1] \in Packets
  BY <1>1, <1>2, HeadTailProperties, ElementOfSeq, EmptySeq
<1>4. Tail(fifo) \in Seq(Packets) /\ Len(Tail(fifo)) = Len(fifo) - 1
      /\ \A n \in 1..Len(Tail(fifo)) : Tail(fifo)[n] = fifo[n + 1]
  BY <1>1, <1>2, HeadTailProperties
<1>5. QED
  BY <1>2, <1>3, <1>4

LEMMA LinkTypesStep ==
  ASSUME TypeOK, OutInv, Next
  PROVE  LinkTypes'
<1>1. LinkTypes /\ Packets' = Packets /\ Depth \in Nat \ {0} /\ Len(fifo) \in Nat
  BY LinkTypesOf, OptStep
<1>2. Nop \in Packets /\ Echo \in Packets /\ InChar(ch) \in Packets
  BY DEF Packets, TypeOK
<1>3. ASSUME NEW p \in Packets, Transfer(p) PROVE LinkTypes'
  BY <1>1, <1>3, TransferLink DEF LinkTypes
<1>4. CASE QuietTry \/ ReadWord
  BY <1>2, <1>3, <1>4 DEF QuietTry, ReadWord, ReadTry
<1>5. CASE SendChar
  BY <1>2, <1>3, <1>5 DEF SendChar, Send
<1>6. CASE Chip
  <2>1. Dispatch
    BY <1>6 DEF Chip
  <2>2. QED
    BY <1>1, <2>1, DispatchLink DEF LinkTypes
<1>7. CASE PutChar \/ Ask
  <2>1. \E w \in 0..MaxOuts : outbox' = <<w>> /\ UNCHANGED <<fifo, mail>>
    BY <1>7, OutboxCases DEF PutChar, Ask, StoreWord, OutInv, Request
  <2>2. QED
    BY <1>1, <2>1 DEF LinkTypes
<1>8. CASE Discard \/ GetChar
  BY <1>1, <1>8 DEF Discard, GetChar, AckMail, LinkTypes
<1>9. CASE SendStart \/ Begin \/ Quietly
  <2>1. UNCHANGED linkVars
    BY <1>9, QuietlyLeaves DEF SendStart, Begin
  <2>2. QED
    BY <1>1, <2>1 DEF LinkTypes, linkVars
<1>10. QED
  BY <1>4, <1>5, <1>6, <1>7, <1>8, <1>9, ActionCases

-----------------------------------------------------------------------------
(* The rest of the type invariant.                                         *)
LEMMA ControlTypes ==
  ASSUME TypeOK, LoadInv, OutInv, Next
  PROVE  /\ pc' \in {"open", "drain", "init", "load", "start", "top", "read", "need", "line",
                     "poll", "send"} \cup Ends
         /\ reads' \in 0..MaxReads /\ quiet_reads' \in 0..QuietGoal
         /\ tries' \in 0..Retries - 1 /\ left' \in Nat
         /\ cpu' \in {"off", "run", "out", "ask", "wait", "halt"}
         /\ outs' \in 0..MaxOuts /\ ins' \in 0..MaxIns
<1> DEFINE Pcs == {"open", "drain", "init", "load", "start", "top", "read", "need", "line",
                   "poll", "send"} \cup Ends
<1>1. /\ pc \in Pcs /\ reads \in 0..MaxReads /\ quiet_reads \in 0..QuietGoal
      /\ tries \in 0..Retries - 1 /\ left \in Nat
      /\ cpu \in {"off", "run", "out", "ask", "wait", "halt"}
      /\ outs \in 0..MaxOuts /\ ins \in 0..MaxIns
      /\ {MaxReads, QuietGoal, MaxOuts, MaxIns, Retries} \subseteq Nat /\ Retries > 1
  BY SizesAssumption, LinkAssumption DEF TypeOK
<1>2. \A end \in BOOLEAN : Limit(end) \in Nat
  BY OptionTypes DEF Limit, TypeOK
<1>3. pc' \in Pcs
  BY <1>1 DEF Next, Host, User, Chip, CpuCall, Open, DrainRead, SendInit, SendWords, SendStart,
              LoopTop, QuietTry, ReadWord, NextChar, Refill, SendChar, PollNothing, PollText,
              Type, TypeInterrupt, PollKey, Signal, Begin, PutChar, Ask, Discard, GetChar, Ends
<1>4. reads' \in 0..MaxReads /\ quiet_reads' \in 0..QuietGoal
  <2>1. CASE DrainRead
    <3>1. CASE DrainsOn
      <4>1. opt.safe => quiet_reads + 1 \in 0..QuietGoal
        BY <1>1, <3>1 DEF DrainsOn
      <4>2. QED
        BY <1>1, <2>1, <3>1, <4>1 DEF DrainRead
    <3>2. CASE ~DrainsOn
      BY <1>1, <2>1, <3>2 DEF DrainRead
    <3>3. QED
      BY <3>1, <3>2
  <2>2. CASE ~DrainRead
    <3>1. UNCHANGED <<reads, quiet_reads>>
      BY <2>2 DEF Next, Host, User, Chip, CpuCall, Open, SendInit, SendWords, SendStart,
                  LoopTop, QuietTry, ReadWord, NextChar, Refill, SendChar, PollNothing, PollText,
                  Type, TypeInterrupt, PollKey, Signal, Begin, PutChar, Ask, Discard, GetChar,
                  loadVars
    <3>2. QED
      BY <1>1, <3>1
  <2>3. QED
    BY <2>1, <2>2
<1>5. tries' \in 0..Retries - 1
  <2>1. CASE QuietTry
    BY <1>1, <2>1 DEF QuietTry, GivesUp
  <2>2. CASE ~QuietTry
    <3>1. tries' \in {tries, 0}
      BY <2>2 DEF Next, Host, User, Chip, CpuCall, Open, DrainRead, SendInit, SendWords, SendStart,
                  LoopTop, ReadWord, NextChar, Refill, SendChar, PollNothing, PollText,
                  Type, TypeInterrupt, PollKey, Signal, Begin, PutChar, Ask, Discard, GetChar
    <3>2. QED
      BY <1>1, <3>1
  <2>3. QED
    BY <2>1, <2>2
<1>6. left' \in Nat
  <2>1. eof \in BOOLEAN /\ Deadline \in Nat /\ DeadlineAfter \in Nat /\ Limit(eof) \in Nat
    BY <1>1, <1>2 DEF TypeOK, Deadline, DeadlineAfter
  <2>2. left' \in {left, 0, Limit(eof), Deadline, DeadlineAfter} \/ (left > 0 /\ left' = left - 1)
    BY DEF Next, Host, User, Chip, CpuCall, Open, DrainRead, SendInit, SendWords, SendStart,
           LoopTop, QuietTry, ReadWord, NextChar, Refill, SendChar, PollNothing, PollText,
           Type, TypeInterrupt, PollKey, Signal, Begin, PutChar, Ask, Discard, GetChar
  <2>3. QED
    BY <1>1, <2>1, <2>2
<1>7. /\ cpu' \in {"off", "run", "out", "ask", "wait", "halt"}
      /\ outs' \in 0..MaxOuts /\ ins' \in 0..MaxIns
  <2>1. CASE PutChar
    BY <1>1, <2>1 DEF PutChar, OutInv
  <2>2. CASE Begin
    BY <1>1, <2>2 DEF Begin
  <2>3. CASE ~PutChar /\ ~Begin
    <3>1. /\ UNCHANGED <<outs, ins>>
          /\ cpu' \in {cpu, "run", "wait", "ask"}
      BY <2>3, QuietlyLeaves, ActionCases
         DEF Chip, SendStart, QuietTry, ReadWord, SendChar, Ask, Discard, GetChar, cpuVars
    <3>2. QED
      BY <1>1, <3>1
  <2>4. QED
    BY <2>1, <2>2, <2>3
<1>8. QED
  BY <1>3, <1>4, <1>5, <1>6, <1>7

LEMMA ImageTypes ==
  ASSUME TypeOK, LoadInv, Next
  PROVE  i' \in 0..opt'.bytes /\ image' \in Seq(Nat)
<1>1. opt.bytes \in Nat /\ i \in 0..opt.bytes /\ image \in Seq(Nat)
  BY OptionTypes DEF TypeOK
<1>2. CASE SendWords
  <2>1. LoadInv' /\ pc' = "load" /\ opt' = opt
    <3>1. opt \in Sessions
      BY DEF TypeOK
    <3>2. QED
      BY <1>1, <1>2, <3>1, LoadStep DEF SendWords
  <2>2. i' <= opt.bytes /\ image' = Words(i' \div 2)
    BY <2>1 DEF LoadInv
  <2>3. WordsAt(i) \in Nat
    <3>1. opt \in Sessions /\ pc = "load" /\ i < opt.bytes
      BY <1>2 DEF SendWords, TypeOK
    <3>2. opt.bytes % 2 = 0 /\ i % 2 = 0
      BY <3>1 DEF LoadInv
    <3>3. WordsAt(i) \in 1..(opt.bytes - i) \div 2
      BY <1>1, <3>1, <3>2, WordsAtBound
    <3>4. QED
      BY <3>3
  <2>4. i' \in Nat
    BY <1>1, <1>2, <2>3 DEF SendWords
  <2>5. Words(i' \div 2) \in Seq(Nat)
    <3>1. \A n \in Nat : Words(n) \in Seq(Nat)
      BY IsASeq DEF Words
    <3>2. \A n \in Nat : n \div 2 \in Nat
      OBVIOUS
    <3>3. QED
      BY <2>4, <3>1, <3>2
  <2>6. QED
    BY <1>1, <2>1, <2>2, <2>4, <2>5
<1>3. CASE ~SendWords
  <2>1. opt' = opt /\ i' = i /\ image' \in {image, << >>}
    BY <1>3 DEF Next, Host, User, Chip, CpuCall, Open, DrainRead, SendInit, SendStart,
                LoopTop, QuietTry, ReadWord, NextChar, Refill, SendChar, PollNothing, PollText,
                Type, TypeInterrupt, PollKey, Signal, Begin, PutChar, Ask, Discard, GetChar, loadVars
  <2>2. << >> \in Seq(Nat)
    OBVIOUS
  <2>3. QED
    BY <1>1, <2>1, <2>2
<1>4. QED
  BY <1>2, <1>3

LEMMA LogTypes ==
  ASSUME TypeOK, OutInv, Next
  PROVE  shown' \in Seq(1..MaxOuts) /\ dropped' \in 0..MaxOuts
<1>1. CASE ReadWord
  BY <1>1, ReadWordOut
<1>2. CASE ~ReadWord
  <2>1. UNCHANGED <<shown, dropped>>
    BY <1>2, QuietlyLeaves, ActionCases
       DEF Chip, SendStart, QuietTry, SendChar, Begin, PutChar, Ask, Discard, GetChar, logVars
  <2>2. QED
    BY <2>1 DEF TypeOK
<1>3. QED
  BY <1>1, <1>2

LEMMA TypeStep ==
  ASSUME TypeOK, LoadInv, OutInv, Next
  PROVE  TypeOK'
<1>1. opt' \in Sessions
  BY OptStep DEF TypeOK
<1>2. /\ fifo' \in Seq({Nop, Echo} \cup {InChar(c) : c \in Characters'})
      /\ Len(fifo') <= Depth
      /\ mail' = << >> \/ \E c \in Characters' : mail' \in {<<Echo>>, <<InChar(c)>>}
      /\ outbox' = << >> \/ \E w \in 0..MaxOuts : outbox' = <<w>>
  <2>1. Characters' # {}
    BY DEF Characters
  <2>2. LinkTypes' /\ Packets' = {Nop, Echo} \cup {InChar(c) : c \in Characters'}
    BY LinkTypesStep DEF Packets
  <2>3. QED
    BY <2>1, <2>2 DEF LinkTypes
<1>3. QED
  BY <1>1, <1>2, InputTypes, ControlTypes, ImageTypes, LogTypes DEF TypeOK, Texts

-----------------------------------------------------------------------------
(* The calls of the program and what the host has for them.                *)
SendsUnasked == PollText \/ \E k \in Keys : Len(keys) < MaxKeys /\ PollKey(k)
LEMMA NothingEarly ==
  ASSUME TypeOK, PollInv, opt.ahead = 0
  PROVE  ~SendsUnasked
<1>1. ~PollText
  <2>1. opt.source = "text" => opt.prog # "run"
    <3>1. opt \in Sessions
      BY Zenon DEF TypeOK
    <3>2. opt.prog = "run" /\ opt.source = "text" => opt.ahead > 0
      BY <3>1, OptionTypes
    <3>3. QED
      BY <3>2
  <2>2. QED
    BY <2>1 DEF PollText, PollInv
<1>2. ASSUME NEW k \in Keys PROVE ~PollKey(k)
  <2>1. Len(keys) \in Nat
    BY LenProperties DEF TypeOK
  <2>2. QED
    BY <2>1 DEF PollKey
<1>3. QED
  BY <1>1, <1>2 DEF SendsUnasked

LEMMA PollStep ==
  ASSUME TypeOK, PollInv, Next
  PROVE  PollInv'
<1>1. opt' = opt
  BY OptStep
<1>2. CASE QuietTry
  BY <1>1, <1>2 DEF QuietTry, PollInv
<1>3. CASE ~QuietTry
  <2>1. pc' = "poll" => pc = "poll"
    BY <1>3 DEF Next, Host, User, Chip, CpuCall, Open, DrainRead, SendInit, SendWords, SendStart,
                LoopTop, ReadWord, NextChar, Refill, SendChar, PollNothing, PollText,
                Type, TypeInterrupt, PollKey, Signal, Begin, PutChar, Ask, Discard, GetChar
  <2>2. QED
    BY <1>1, <2>1 DEF PollInv
<1>4. QED
  BY <1>2, <1>3

(* With no input in the chip, a transfer of anything else and a dispatch   *)
(* bring none.                                                             *)
LEMMA NoInputKept ==
  ASSUME TypeOK, NoInput,
         \/ \E p \in Packets : p.op # "IN" /\ Transfer(p)
         \/ Dispatch
         \/ mail' \in {mail, << >>} /\ fifo' = fifo
  PROVE  NoInput'
<1>1. fifo \in Seq(Packets) /\ Len(fifo) \in Nat /\ DOMAIN fifo = 1..Len(fifo)
  BY LinkTypesOf, LenProperties DEF LinkTypes
<1>2. CASE \E p \in Packets : p.op # "IN" /\ Transfer(p)
  <2>1. PICK p \in Packets : p.op # "IN" /\ Transfer(p)
    BY <1>2
  <2>2. /\ fifo' \in Seq(Packets) /\ mail' = mail
        /\ \/ fifo' = fifo
           \/ /\ Len(fifo') = Len(fifo) + 1 /\ fifo'[Len(fifo) + 1] = p
              /\ \A n \in 1..Len(fifo) : fifo'[n] = fifo[n]
    BY <2>1, TransferLink
  <2>3. DOMAIN fifo' = 1..Len(fifo')
    BY <2>2, LenProperties
  <2>4. \A n \in DOMAIN fifo' : fifo'[n].op # "IN"
    <3>1. CASE fifo' = fifo
      BY <3>1 DEF NoInput
    <3>2. CASE fifo' # fifo
      <4>1. \A n \in DOMAIN fifo' : n \in 1..Len(fifo) \/ n = Len(fifo) + 1
        <5>1. DOMAIN fifo' = 1..Len(fifo) + 1 /\ Len(fifo) \in Nat
          BY <1>1, <2>2, <2>3, <3>2
        <5>2. QED
          BY <5>1
      <4>2. QED
        BY <1>1, <2>1, <2>2, <3>2, <4>1 DEF NoInput
    <3>3. QED
      BY <3>1, <3>2
  <2>5. QED
    BY <2>2, <2>4 DEF NoInput
<1>3. CASE Dispatch
  <2>1. /\ fifo # << >> /\ fifo' \in Seq(Packets) /\ Len(fifo') = Len(fifo) - 1
        /\ \A n \in 1..Len(fifo) - 1 : fifo'[n] = fifo[n + 1]
        /\ mail' = << >> \/ mail' = <<fifo[1]>>
    BY <1>3, DispatchLink
  <2>2. DOMAIN fifo' = 1..Len(fifo') /\ 1 \in DOMAIN fifo
    BY <1>1, <2>1, LenProperties, EmptySeq
  <2>3. \A n \in DOMAIN fifo' : fifo'[n].op # "IN"
    BY <1>1, <2>1, <2>2 DEF NoInput
  <2>4. \A n \in DOMAIN mail' : mail'[n].op # "IN"
    BY <2>1, <2>2 DEF NoInput
  <2>5. QED
    BY <2>3, <2>4 DEF NoInput
<1>4. CASE mail' \in {mail, << >>} /\ fifo' = fifo
  BY <1>4 DEF NoInput
<1>5. QED
  BY <1>2, <1>3, <1>4

LEMMA OneInputKept ==
  ASSUME TypeOK, OneInput,
         \/ \E p \in Packets : p.op # "IN" /\ Transfer(p)
         \/ Dispatch
         \/ mail' \in {mail, << >>} /\ fifo' = fifo
  PROVE  OneInput'
<1>1. fifo \in Seq(Packets) /\ Len(fifo) \in Nat /\ DOMAIN fifo = 1..Len(fifo)
  BY LinkTypesOf, LenProperties DEF LinkTypes
<1>2. CASE \E p \in Packets : p.op # "IN" /\ Transfer(p)
  <2>1. PICK p \in Packets : p.op # "IN" /\ Transfer(p)
    BY <1>2
  <2>2. /\ fifo' \in Seq(Packets) /\ mail' = mail
        /\ \/ fifo' = fifo
           \/ /\ Len(fifo') = Len(fifo) + 1 /\ fifo'[Len(fifo) + 1] = p
              /\ \A n \in 1..Len(fifo) : fifo'[n] = fifo[n]
    BY <2>1, TransferLink
  <2>3. CASE fifo' = fifo
    BY <2>2, <2>3 DEF OneInput
  <2>4. CASE fifo' # fifo
    <3>1. DOMAIN fifo' = 1..Len(fifo) + 1
      BY <2>2, <2>4, LenProperties
    <3>2. \A n \in DOMAIN fifo' : fifo'[n].op = "IN" => n \in DOMAIN fifo /\ fifo[n].op = "IN"
      BY <1>1, <2>1, <2>2, <2>4, <3>1
    <3>3. QED
      BY <2>2, <3>2 DEF OneInput
  <2>5. QED
    BY <2>3, <2>4
<1>3. CASE Dispatch
  <2>1. /\ fifo # << >> /\ fifo' \in Seq(Packets) /\ Len(fifo') = Len(fifo) - 1
        /\ \A n \in 1..Len(fifo) - 1 : fifo'[n] = fifo[n + 1]
        /\ mail' = << >> \/ mail' = <<fifo[1]>>
    BY <1>3, DispatchLink
  <2>2. DOMAIN fifo' = 1..Len(fifo) - 1 /\ 1 \in DOMAIN fifo
    BY <1>1, <2>1, LenProperties, EmptySeq
  <2>3. \A n \in DOMAIN fifo' : n + 1 \in DOMAIN fifo /\ n + 1 # 1 /\ fifo'[n] = fifo[n + 1]
    BY <1>1, <2>1, <2>2
  <2>4. \A m, n \in DOMAIN fifo' : m + 1 = n + 1 => m = n
    BY <2>2
  <2>5. mail' # << >> => mail'[1] = fifo[1]
    BY <2>1
  <2>6. QED
    BY <2>2, <2>3, <2>4, <2>5 DEF OneInput
<1>4. CASE mail' \in {mail, << >>} /\ fifo' = fifo
  BY <1>4 DEF OneInput
<1>5. QED
  BY <1>2, <1>3, <1>4

(* The transfers of the loop, none of which carries input.                 *)
LEMMA TryLink ==
  ASSUME QuietTry \/ ReadWord
  PROVE  /\ \E p \in Packets : p.op # "IN" /\ Transfer(p)
         /\ pc = "read" /\ outbox' = << >> /\ UNCHANGED <<opt, cpu>>
<1>1. Nop \in Packets /\ Nop.op # "IN" /\ Echo \in Packets /\ Echo.op # "IN"
  BY DEF Packets, Nop, Echo
<1>2. ReadTry(tries) /\ pc = "read" /\ UNCHANGED <<opt, cpu>>
  BY DEF QuietTry, ReadWord, cpuVars
<1>3. CASE tries = 0
  BY <1>1, <1>2, <1>3 DEF ReadTry, Transfer
<1>4. CASE tries # 0
  BY <1>1, <1>2, <1>4 DEF ReadTry, Transfer
<1>5. QED
  BY <1>3, <1>4

(* A step that leaves the link and the program alone starts no input.      *)
LEMMA QuietlyAsks ==
  ASSUME TypeOK, PollInv, opt.ahead = 0, Quietly
  PROVE  pc' \in {"need", "line", "send"} => pc \in {"need", "line", "send"}
<1>1. ~PollText /\ ~\E k \in Keys : Len(keys) < MaxKeys /\ PollKey(k)
  BY NothingEarly DEF SendsUnasked
<1>2. \/ Open \/ DrainRead \/ SendInit \/ SendWords \/ LoopTop \/ NextChar \/ Refill
      \/ PollNothing \/ Signal \/ TypeInterrupt \/ \E k \in Keys : Type(k)
  BY <1>1 DEF Quietly, User
<1>3. QED
  BY <1>2 DEF Open, DrainRead, SendInit, SendWords, LoopTop, NextChar, Refill, PollNothing,
              Signal, TypeInterrupt, Type

LEMMA AskStep ==
  ASSUME TypeOK, LoadInv, AskInv, PollInv, Next
  PROVE  AskInv'
<1>1. SUFFICES ASSUME opt.ahead = 0
               PROVE  /\ pc' \in {"need", "line", "send"} => cpu' = "wait" /\ outbox' = << >>
                      /\ outbox' = <<Request>> => cpu' = "wait"
                      /\ Unasked' => NoInput'
                      /\ OneInput'
  BY OptStep DEF AskInv
<1>2. /\ pc \in {"need", "line", "send"} => cpu = "wait" /\ outbox = << >>
      /\ outbox = <<Request>> => cpu = "wait"
      /\ Unasked => NoInput
      /\ OneInput
  BY <1>1 DEF AskInv
<1>3. << >> # <<Request>>
  OBVIOUS
<1>4. CASE QuietTry
  <2>1. pc' \notin {"need", "line", "send"} /\ pc \notin {"need", "line", "send"}
    BY <1>4 DEF QuietTry
  <2>2. OneInput' /\ (NoInput => NoInput')
    BY <1>2, <1>4, TryLink, OneInputKept, NoInputKept
  <2>3. outbox' = << >> /\ cpu' = cpu
    BY <1>4, TryLink
  <2>4. QED
    BY <1>2, <1>3, <2>1, <2>2, <2>3 DEF Unasked
<1>5. CASE ReadWord
  <2>1. OneInput' /\ (NoInput => NoInput')
    BY <1>2, <1>5, TryLink, OneInputKept, NoInputKept
  <2>2. outbox' = << >> /\ cpu' = cpu /\ outbox # << >>
    BY <1>5, TryLink DEF ReadWord, Returns
  <2>3. NoInput
    BY <1>2, <2>2 DEF Unasked
  <2>4. pc' \in {"need", "line", "send"} => outbox = <<Request>>
    BY <1>5, <2>2, OutboxCases DEF ReadWord
  <2>5. QED
    BY <1>2, <1>3, <2>1, <2>2, <2>3, <2>4
<1>6. CASE SendChar
  <2>1. cpu = "wait" /\ NoInput /\ pc' = "top" /\ cpu' = cpu
    BY <1>2, <1>6 DEF SendChar, Unasked, cpuVars
  <2>2. InChar(ch) \in Packets /\ Transfer(InChar(ch))
    BY <1>6 DEF SendChar, Send, Packets, TypeOK
  <2>3. /\ fifo' \in Seq(Packets) /\ outbox' = << >> /\ mail' = mail
        /\ \/ fifo' = fifo
           \/ /\ Len(fifo') = Len(fifo) + 1
              /\ \A n \in 1..Len(fifo) : fifo'[n] = fifo[n]
    BY <2>2, TransferLink
  <2>4. \A n \in DOMAIN mail' : mail'[n].op # "IN"
    BY <2>1, <2>3 DEF NoInput
  <2>5. OneInput'
    <3>1. mail # << >> => 1 \in DOMAIN mail
      BY LinkTypesOf DEF LinkTypes
    <3>2. mail' # << >> => mail'[1].op # "IN"
      BY <2>3, <2>4, <3>1
    <3>3. CASE fifo' = fifo
      BY <2>1, <3>2, <3>3 DEF NoInput, OneInput
    <3>4. CASE fifo' # fifo
      <4>1. DOMAIN fifo' = 1..Len(fifo) + 1 /\ DOMAIN fifo = 1..Len(fifo) /\ Len(fifo) \in Nat
        BY <2>3, <3>4, LinkTypesOf, LenProperties DEF LinkTypes
      <4>2. \A n \in DOMAIN fifo' : fifo'[n].op = "IN" => n = Len(fifo) + 1
        BY <2>1, <2>3, <3>4, <4>1 DEF NoInput
      <4>3. QED
        BY <3>2, <4>2 DEF OneInput
    <3>5. QED
      BY <3>3, <3>4
  <2>6. QED
    BY <1>3, <2>1, <2>3, <2>5 DEF Unasked
<1>7. CASE Chip
  <2>1. Dispatch /\ UNCHANGED <<pc, cpu, outbox>>
    BY <1>7 DEF Chip, cpuVars, Dispatch
  <2>2. OneInput' /\ (NoInput => NoInput')
    BY <1>2, <2>1, OneInputKept, NoInputKept
  <2>3. QED
    BY <1>2, <2>1, <2>2 DEF Unasked
<1>8. CASE Discard
  <2>1. mail' = << >> /\ UNCHANGED <<pc, cpu, outbox, fifo>>
    BY <1>8 DEF Discard, cpuVars, AckMail
  <2>2. OneInput' /\ (NoInput => NoInput')
    BY <1>2, <2>1, OneInputKept, NoInputKept
  <2>3. QED
    BY <1>2, <2>1, <2>2 DEF Unasked
<1>9. CASE GetChar
  <2>1. /\ mail # << >> /\ mail[1].op = "IN" /\ mail' = << >> /\ fifo' = fifo
        /\ UNCHANGED <<pc, outbox>>
    BY <1>9 DEF GetChar, AckMail
  <2>2. 1 \in DOMAIN mail
    BY <2>1, LinkTypesOf DEF LinkTypes
  <2>3. ~Unasked
    BY <1>2, <2>1, <2>2 DEF NoInput
  <2>4. NoInput' /\ OneInput'
    BY <1>2, <2>1 DEF NoInput, OneInput
  <2>5. QED
    BY <1>3, <2>1, <2>3, <2>4 DEF Unasked
<1>10. CASE Begin \/ PutChar \/ Ask \/ SendStart
  <2>1. /\ cpu # "wait" /\ UNCHANGED <<fifo, mail>>
        /\ pc' = pc \/ pc' = "top"
        /\ outbox' = outbox \/ outbox' = <<outs + 1>> \/ (outbox' = <<Request>> /\ cpu' = "wait")
    BY <1>10 DEF Begin, PutChar, Ask, SendStart, StoreWord, linkVars, LoadInv
  <2>2. NoInput /\ pc \notin {"need", "line", "send"} /\ outbox # <<Request>>
    BY <1>2, <2>1 DEF Unasked
  <2>3. <<outs + 1>> # <<Request>>
    BY OutboxCases DEF Request
  <2>4. NoInput' /\ OneInput'
    BY <1>2, <2>1, <2>2 DEF NoInput, OneInput
  <2>5. QED
    BY <2>1, <2>2, <2>3, <2>4
<1>11. CASE Quietly
  <2>1. UNCHANGED <<fifo, mail, outbox, cpu>>
    BY <1>11, QuietlyLeaves DEF linkVars
  <2>2. pc' \in {"need", "line", "send"} => pc \in {"need", "line", "send"}
    BY <1>1, <1>11, QuietlyAsks
  <2>3. NoInput' = NoInput /\ OneInput' = OneInput
    BY <2>1 DEF NoInput, OneInput
  <2>4. QED
    BY <1>2, <2>1, <2>2, <2>3 DEF Unasked
<1>12. QED
  BY <1>4, <1>5, <1>6, <1>7, <1>8, <1>9, <1>10, <1>11, ActionCases

(* A spi_read gets to its last try only if nothing is there and nothing is *)
(* about to be.                                                            *)
LEMMA LastTryStep ==
  ASSUME "last_try" \notin Faults, TypeOK, LoadInv, LastTryInv, Next
  PROVE  LastTryInv'
<1>1. /\ opt' = opt /\ opt.prog \in {"loader", "run"} /\ tries \in 0..Retries - 1
      /\ Retries \in Nat /\ Retries > 1
  BY OptStep, OptionTypes, LinkAssumption DEF TypeOK
<1>2. CASE QuietTry
  <2>1. /\ pc = "read" /\ ~Prompt /\ ~Returns(tries) /\ cpu' = cpu /\ outbox' = << >>
        /\ \E p \in Packets : p.op # "IN" /\ Transfer(p)
        /\ IF GivesUp(tries) THEN pc' = (IF opt.prog = "run" THEN "poll" ELSE "top")
                             ELSE pc' = pc
    BY <1>2, TryLink DEF QuietTry
  <2>2. CASE GivesUp(tries)
    BY <1>1, <2>1, <2>2 DEF LastTryInv
  <2>3. CASE ~GivesUp(tries)
    <3>1. tries + 1 < Retries
      BY <1>1, <2>3 DEF GivesUp
    <3>2. outbox = << >>
      BY <2>1, <3>1 DEF Returns
    <3>3. cpu \notin {"out", "ask"}
      BY <2>1, <3>2 DEF Prompt, MayStore
    <3>4. CASE cpu = "wait"
      <4>1. mail = << >> /\ fifo = << >>
        BY <2>1, <3>4 DEF Prompt, Settled
      <4>2. NoInput
        BY <4>1 DEF NoInput
      <4>3. NoInput'
        BY <2>1, <4>2, NoInputKept
      <4>4. QED
        BY <2>1, <2>3, <3>3, <4>3 DEF LastTryInv
    <3>5. CASE cpu # "wait"
      BY <2>1, <2>3, <3>3, <3>5 DEF LastTryInv
    <3>6. QED
      BY <3>4, <3>5
  <2>4. QED
    BY <2>2, <2>3
<1>3. CASE ReadWord \/ SendChar \/ SendStart
  <2>1. pc' \notin {"poll", "read"}
    BY <1>3 DEF ReadWord, SendChar, SendStart
  <2>2. QED
    BY <2>1 DEF LastTryInv
<1>4. CASE Begin
  <2>1. ~(pc = "read" /\ tries + 1 = Retries) /\ pc' = pc /\ tries' = tries
    BY <1>4 DEF Begin
  <2>2. QED
    BY <1>1, <2>1 DEF LastTryInv, GivesUp
<1>5. CASE PutChar \/ Ask
  <2>1. cpu \in {"out", "ask"} /\ pc' = pc /\ tries' = tries
    BY <1>5 DEF PutChar, Ask
  <2>2. QED
    BY <1>1, <2>1 DEF LastTryInv, GivesUp
<1>6. CASE GetChar
  <2>1. cpu = "wait" /\ ~NoInput /\ pc' = pc /\ tries' = tries
    <3>1. mail # << >> /\ mail[1].op = "IN"
      BY <1>6 DEF GetChar
    <3>2. 1 \in DOMAIN mail
      BY <3>1, LinkTypesOf DEF LinkTypes
    <3>3. QED
      BY <1>6, <3>1, <3>2 DEF GetChar, NoInput
  <2>2. QED
    BY <1>1, <2>1 DEF LastTryInv, GivesUp
<1>7. CASE Discard \/ Chip
  <2>1. NoInput => NoInput'
    <3>1. Dispatch \/ (mail' \in {mail, << >>} /\ fifo' = fifo)
      BY <1>7 DEF Discard, AckMail, Chip
    <3>2. QED
      BY <3>1, NoInputKept
  <2>2. UNCHANGED <<pc, tries, cpu, outbox>>
    BY <1>7 DEF Discard, AckMail, Chip, Dispatch, cpuVars
  <2>3. QED
    BY <1>1, <2>1, <2>2 DEF LastTryInv, GivesUp
<1>8. CASE Quietly
  <2>1. /\ pc' # "poll"
        /\ pc' = "read" => tries' = 0
    BY <1>8 DEF Quietly, Open, DrainRead, SendInit, SendWords, LoopTop, NextChar, Refill,
                PollNothing, PollText, User, Type, TypeInterrupt, PollKey, Signal
  <2>2. QED
    BY <1>1, <2>1 DEF LastTryInv, GivesUp
<1>9. QED
  BY <1>2, <1>3, <1>4, <1>5, <1>6, <1>7, <1>8, ActionCases

(* So no transfer takes a word from the transmit side unnoticed.           *)
LEMMA AllOutStep ==
  ASSUME TypeOK, OutInv, AskInv, LastTryInv, AllOut, Next
  PROVE  AllOut'
<1>1. SUFFICES ASSUME opt.ahead = 0
               PROVE  AllOut'
  BY OptStep DEF AllOut
<1>2. ASSUME UNCHANGED <<outbox, opt, outs, logVars>>
      PROVE  AllOut'
  <2>1. UNCHANGED <<Waiting, shown, dropped>>
    BY <1>2 DEF Waiting, logVars
  <2>2. QED
    BY <1>2, <2>1 DEF AllOut
<1>3. CASE QuietTry
  <2>1. outbox = << >>
    <3>1. tries \in 0..Retries - 1 /\ Retries \in Nat /\ pc = "read" /\ ~Returns(tries)
      BY <1>3, LinkAssumption DEF TypeOK, QuietTry
    <3>2. QED
      BY <3>1 DEF LastTryInv, GivesUp, Returns
  <2>2. outbox' = << >> /\ UNCHANGED <<opt, cpu, outs, logVars>>
    BY <1>3, TryLink DEF QuietTry, cpuVars
  <2>3. QED
    BY <2>1, <2>2, TransferOut
<1>4. CASE SendChar
  <2>1. outbox = << >>
    BY <1>1, <1>4 DEF AskInv, SendChar
  <2>2. outbox' = << >> /\ UNCHANGED <<opt, cpu, outs, logVars>>
    BY <1>4 DEF SendChar, Send, Transfer, cpuVars
  <2>3. QED
    BY <2>1, <2>2, TransferOut
<1>5. CASE ReadWord
  BY <1>5, ReadWordOut
<1>6. CASE PutChar
  <2>1. /\ outbox = << >> /\ outbox' = <<outs + 1>> /\ outs' = outs + 1
        /\ UNCHANGED <<opt, shown, dropped>>
    BY <1>6 DEF PutChar, StoreWord, MayStore, logVars
  <2>2. Len(Waiting) = 0 /\ Len(Waiting') = 1
    BY <2>1, OutboxCases DEF Waiting, Request
  <2>3. QED
    BY <2>1, <2>2, OutboxCases DEF AllOut
<1>7. CASE Ask
  <2>1. /\ outbox = << >> /\ outbox' = <<Request>> /\ UNCHANGED <<opt, outs, shown, dropped>>
    BY <1>7 DEF Ask, StoreWord, MayStore, logVars
  <2>2. Waiting = << >> /\ Waiting' = << >>
    BY <2>1 DEF Waiting
  <2>3. QED
    BY <2>1, <2>2 DEF AllOut
<1>8. CASE SendStart \/ Begin \/ Discard \/ GetChar \/ Chip
  BY <1>2, <1>8 DEF SendStart, Begin, Discard, GetChar, Chip, AckMail, Dispatch, linkVars, cpuVars
<1>9. CASE Quietly
  BY <1>2, <1>9, QuietlyLeaves DEF linkVars
<1>10. QED
  BY <1>3, <1>4, <1>5, <1>6, <1>7, <1>8, <1>9, ActionCases

-----------------------------------------------------------------------------
LEMMA InitTypes == Init => TypeOK
<1> SUFFICES ASSUME Init PROVE TypeOK
  OBVIOUS
<1>1. opt.text \in Nat /\ opt.bytes \in Nat
  BY OptionTypes DEF Init
<1>2. NL \in Characters
  BY DEF Characters
<1>3. /\ MaxReads \in Nat /\ QuietGoal \in Nat /\ MaxOuts \in Nat /\ MaxIns \in Nat
      /\ MaxKeys \in Nat /\ Retries - 1 \in Nat /\ Depth \in Nat /\ LineMax \in Nat \ {0, 1}
  BY SizesAssumption, LinkAssumption
<1>4. Len(<< >>) = 0
  OBVIOUS
<1>5. /\ opt \in Sessions /\ pc = "open" /\ reads = 0 /\ quiet_reads = 0 /\ i = 0
      /\ image = << >> /\ tries = 0 /\ left = 0 /\ ch = NL
      /\ pos = 0 /\ line = << >> /\ eof = FALSE /\ eof_sent = FALSE /\ keys = << >>
      /\ meant = Text(<< >>, << >>)
      /\ cpu = "off" /\ outs = 0 /\ ins = 0 /\ received = << >>
      /\ shown = << >> /\ dropped = 0 /\ fifo = << >> /\ mail = << >> /\ outbox = << >>
  BY DEF Init, LinkInit
<1>6. /\ reads \in 0..MaxReads /\ quiet_reads \in 0..QuietGoal /\ i \in 0..opt.bytes
      /\ tries \in 0..Retries - 1 /\ left \in Nat /\ pos \in 0..opt.text
      /\ outs \in 0..MaxOuts /\ ins \in 0..MaxIns /\ dropped \in 0..MaxOuts
  BY <1>1, <1>3, <1>5
<1>7. /\ line \in Seq(Characters) /\ Len(line) < LineMax /\ image \in Seq(Nat)
      /\ fifo \in Seq({Nop, Echo} \cup {InChar(c) : c \in Characters}) /\ Len(fifo) <= Depth
      /\ keys \in Seq(Characters \cup {ETX, EOF}) /\ Len(keys) <= MaxKeys
      /\ shown \in Seq(1..MaxOuts) /\ received \in Seq(Characters)
      /\ meant \in [done : Seq(Characters), part : Seq(Characters)]
  BY <1>3, <1>4, <1>5 DEF Text
<1>8. QED
  BY <1>2, <1>5, <1>6, <1>7 DEF TypeOK

LEMMA InitInv == Init => LoadInv /\ OutInv /\ PollInv /\ AskInv /\ LastTryInv /\ AllOut
<1> SUFFICES ASSUME Init PROVE LoadInv /\ OutInv /\ PollInv /\ AskInv /\ LastTryInv /\ AllOut
  OBVIOUS
<1>1. /\ fifo = << >> /\ mail = << >> /\ outbox = << >> /\ shown = << >> /\ pc = "open"
      /\ i = 0 /\ cpu = "off" /\ outs = 0 /\ dropped = 0
  BY DEF Init, LinkInit
<1>2. Waiting = << >> /\ Len(<< >>) = 0 /\ << >> # <<Request>> /\ DOMAIN shown = {}
  BY <1>1 DEF Waiting
<1>3. LoadInv
  BY <1>1 DEF LoadInv
<1>4. OutInv
  BY <1>1, <1>2, SizesAssumption DEF OutInv
<1>5. AskInv
  BY <1>1, <1>2 DEF AskInv, NoInput, OneInput
<1>6. PollInv /\ LastTryInv /\ AllOut
  BY <1>1, <1>2 DEF PollInv, LastTryInv, AllOut
<1>7. QED
  BY <1>3, <1>4, <1>5, <1>6

LEMMA Stutter ==
  ASSUME UNCHANGED vars
  PROVE  /\ TypeOK' = TypeOK /\ LoadInv' = LoadInv /\ OutInv' = OutInv
         /\ PollInv' = PollInv /\ AskInv' = AskInv /\ LastTryInv' = LastTryInv /\ AllOut' = AllOut
<1>1. /\ UNCHANGED <<fifo, mail, outbox, opt, pc, reads, quiet_reads, i, image, tries, left>>
      /\ UNCHANGED <<ch, pos, line, eof, eof_sent, keys, meant, shown, dropped>>
      /\ UNCHANGED <<cpu, outs, ins, received>>
  BY DEF vars, linkVars, loadVars, srcVars, logVars, cpuVars
<1>2. UNCHANGED <<Characters, Waiting, NoInput, OneInput, Unasked>>
  BY <1>1 DEF Characters, Waiting, NoInput, OneInput, Unasked
<1>3. TypeOK' = TypeOK
  BY <1>1, <1>2 DEF TypeOK, Ends
<1>4. LoadInv' = LoadInv /\ OutInv' = OutInv
  BY <1>1, <1>2 DEF LoadInv, OutInv, Ends
<1>5. PollInv' = PollInv /\ AskInv' = AskInv /\ LastTryInv' = LastTryInv /\ AllOut' = AllOut
  BY <1>1, <1>2 DEF PollInv, AskInv, LastTryInv, AllOut, GivesUp
<1>6. QED
  BY <1>3, <1>4, <1>5

Correct == TypeOK /\ LoadInv /\ OutInv /\ PollInv
LEMMA CorrectAlways == Spec => []Correct
<1>1. Init => Correct
  BY InitTypes, InitInv DEF Correct
<1>2. Correct /\ [Next]_vars => Correct'
  <2>1. ASSUME Correct, Next PROVE Correct'
    <3>1. opt \in Sessions /\ i \in Nat
      BY <2>1, OptionTypes DEF Correct, TypeOK
    <3>2. QED
      BY <2>1, <3>1, TypeStep, LoadStep, OutStep, PollStep DEF Correct
  <2>2. ASSUME Correct, UNCHANGED vars PROVE Correct'
    BY <2>2, Stutter DEF Correct
  <2>3. QED
    BY <2>1, <2>2
<1>3. QED
  BY <1>1, <1>2, PTL DEF Spec

(* Every variable of a session keeps its type, with every fault: the line  *)
(* buffer, the packet queue and the loader's receive buffer stay within    *)
(* their arrays, and a packet's character is one that can be typed.        *)
THEOREM TypeCorrect == Spec => []TypeOK
<1>1. Correct => TypeOK
  BY DEF Correct
<1>2. QED
  BY <1>1, CorrectAlways, PTL

(* The CPU starts on the whole image, in order, for every image, batch and *)
(* number of reads before it: the last burst may be short and no word is   *)
(* left out or sent twice.                                                 *)
THEOREM LoadsImage == Spec => []StartsWithImage
<1>1. Correct => StartsWithImage
  BY DEF Correct, LoadInv, StartsWithImage, Words
<1>2. QED
  BY <1>1, CorrectAlways, PTL

(* What has been shown and what waits make an increasing sequence.         *)
LEMMA InOrder ==
  ASSUME TypeOK, OutInv
  PROVE  Increasing(shown \o Waiting)
<1>1. shown \in Seq(1..MaxOuts) /\ Len(shown) \in Nat /\ MaxOuts \in Nat
  BY OutboxCases
<1>2. \A m, n \in DOMAIN shown : m < n => shown[m] < shown[n]
  BY DEF OutInv
<1>3. CASE Waiting = << >>
  <2>1. shown \o Waiting = shown
    BY <1>1, <1>3
  <2>2. QED
    BY <1>2, <2>1 DEF Increasing
<1>4. CASE Waiting # << >>
  <2>1. outbox # << >> /\ Waiting = outbox /\ outbox = <<outbox[1]>> /\ outbox[1] \in Nat
    BY <1>4, OutboxCases DEF Waiting
  <2>2. outbox[1] = outs /\ \A n \in DOMAIN shown : shown[n] < outs
    BY <1>4 DEF OutInv
  <2> DEFINE len == Len(shown)
             s == shown \o <<outs>>
  <2>3. /\ DOMAIN s = 1..len + 1 /\ s[len + 1] = outs
        /\ \A n \in 1..len : s[n] = shown[n]
        /\ DOMAIN shown = 1..len /\ len \in Nat
    BY <1>1
  <2>4. \A n \in 1..len + 1 : n \in 1..len \/ n = len + 1
    BY <2>3
  <2> HIDE DEF s, len
  <2>5. \A m, n \in DOMAIN s : m < n => s[m] < s[n]
    BY <1>2, <2>2, <2>3, <2>4
  <2>6. shown \o Waiting = s
    BY <2>1, <2>2 DEF s
  <2>7. QED
    BY <2>5, <2>6 DEF Increasing
<1>5. QED
  BY <1>3, <1>4

(* OUT: whatever the options and however the program, the user and the     *)
(* transfers interleave, no character is shown twice or out of order, and  *)
(* where input does not come early none is lost except behind the loader's *)
(* full buffer -- as long as the program starts no call between the last   *)
(* two tries of a spi_read, whose reply the host does not look at.         *)
THEOREM OutputInOrderAlways ==
  ASSUME "last_try" \notin Faults
  PROVE  Spec => []OutputInOrder
<1> DEFINE Inv == Correct /\ AskInv /\ LastTryInv /\ AllOut
<1>1. Init => Inv
  BY InitTypes, InitInv DEF Correct
<1>2. Inv /\ [Next]_vars => Inv'
  <2>1. ASSUME Inv, Next PROVE Inv'
    <3>1. TypeOK /\ LoadInv /\ OutInv /\ PollInv /\ opt \in Sessions /\ i \in Nat
      BY <2>1, OptionTypes DEF Correct, TypeOK
    <3>2. Correct'
      BY <2>1, <3>1, TypeStep, LoadStep, OutStep, PollStep DEF Correct
    <3>3. AskInv' /\ LastTryInv' /\ AllOut'
      BY <2>1, <3>1, AskStep, LastTryStep, AllOutStep
    <3>4. QED
      BY <3>2, <3>3
  <2>2. ASSUME Inv, UNCHANGED vars PROVE Inv'
    BY <2>2, Stutter DEF Correct
  <2>3. QED
    BY <2>1, <2>2
<1>3. Inv => OutputInOrder
  <2>1. SUFFICES ASSUME Inv PROVE OutputInOrder
    OBVIOUS
  <2>2. Increasing(shown \o Waiting)
    BY <2>1, InOrder DEF Correct
  <2>3. QED
    BY <2>1, <2>2 DEF Correct, AllOut, OutInv, OutputInOrder
<1>4. QED
  BY <1>1, <1>2, <1>3, PTL DEF Spec

-----------------------------------------------------------------------------
(* The input.  Of the packets in the chip at most one carries a character  *)
(* where nothing comes early.                                              *)
None(m, f) == /\ \A n \in DOMAIN m : m[n].op # "IN"
              /\ \A n \in DOMAIN f : f[n].op # "IN"
InMail(m, f, c) == /\ m # << >> /\ m[1].op = "IN" /\ m[1].ch = c
                   /\ \A n \in DOMAIN f : f[n].op # "IN"
InFifo(m, f, c) == /\ \A n \in DOMAIN m : m[n].op # "IN"
                   /\ \E k \in DOMAIN f : /\ f[k].op = "IN" /\ f[k].ch = c
                                          /\ \A n \in DOMAIN f : f[n].op = "IN" => n = k
Carries(m, f, c) == InMail(m, f, c) \/ InFifo(m, f, c)

LEMMA NoInputs ==
  ASSUME NEW s, Inputs(s) = {}
  PROVE  Characterwise(s) = << >>
<1>1. Cardinality(Inputs(s)) = 0
  BY FS_EmptySet
<1>2. Characterwise(s) = [n \in 1..0 |-> s[Nth(Inputs(s), n)].ch]
  BY <1>1, Zenon DEF Characterwise
<1>3. 1..0 = {}
  OBVIOUS
<1>4. QED
  BY <1>2, <1>3

LEMMA OneOfInputs ==
  ASSUME NEW s, NEW k \in Int, Inputs(s) = {k}
  PROVE  Characterwise(s) = <<s[k].ch>>
<1>1. Cardinality({k}) = 1
  BY FS_Singleton
<1>2. Nth({k}, 1) = k
  <2>1. {m \in {k} : m <= k} = {k}
    OBVIOUS
  <2>2. \A j \in {k} : j = k
    OBVIOUS
  <2>3. QED
    BY <1>1, <2>1, <2>2 DEF Nth
<1>3. Characterwise(s) = [n \in 1..1 |-> s[Nth({k}, n)].ch]
  BY <1>1, Zenon DEF Characterwise
<1>4. \A n \in 1..1 : n = 1
  OBVIOUS
<1>5. [n \in 1..1 |-> s[Nth({k}, n)].ch] = [n \in 1..1 |-> s[k].ch]
  BY <1>2, <1>4, Zenon
<1>6. QED
  BY <1>3, <1>5

(* What the chip holds as characters.                                      *)
LEMMA CharsOf ==
  ASSUME NEW m, NEW f \in Seq(Packets), m = << >> \/ \E p \in Packets : m = <<p>>
  PROVE  /\ None(m, f) => Characterwise(m \o f) = << >>
         /\ \A c : Carries(m, f, c) => Characterwise(m \o f) = <<c>>
<1>1. DOMAIN f = 1..Len(f) /\ Len(f) \in Nat
  BY LenProperties
<1>2. CASE m = << >>
  <2>1. m \o f = f
    BY <1>2
  <2>2. Inputs(f) = {n \in DOMAIN f : f[n].op = "IN"} /\ DOMAIN m = {}
    BY <1>2 DEF Inputs
  <2>3. None(m, f) => Inputs(f) = {}
    BY <2>2 DEF None
  <2>4. ASSUME NEW c, Carries(m, f, c) PROVE Characterwise(f) = <<c>>
    <3>1. PICK k \in DOMAIN f : f[k].op = "IN" /\ f[k].ch = c
                                /\ \A n \in DOMAIN f : f[n].op = "IN" => n = k
      BY <1>2, <2>4 DEF Carries, InMail, InFifo
    <3>2. Inputs(f) = {k} /\ k \in Int
      BY <1>1, <2>2, <3>1
    <3>3. QED
      BY <3>1, <3>2, OneOfInputs
  <2>5. QED
    BY <2>1, <2>3, <2>4, NoInputs
<1>3. ASSUME NEW p \in Packets, m = <<p>>
      PROVE  /\ None(m, f) => Characterwise(m \o f) = << >>
             /\ \A c : Carries(m, f, c) => Characterwise(m \o f) = <<c>>
  <2> DEFINE s == m \o f
             len == Len(f)
  <2>0. len \in Nat /\ DOMAIN f = 1..len
    BY <1>1
  <2>1. /\ DOMAIN s = 1..len + 1 /\ s[1] = p /\ \A n \in 1..len : s[n + 1] = f[n]
        /\ 1 \in DOMAIN m /\ m[1] = p /\ m # << >>
    BY <1>1, <1>3
  <2> HIDE DEF s, len
  <2>2. \A n \in 1..len + 1 : n = 1 \/ (n - 1 \in 1..len /\ s[n] = f[n - 1])
    <3>1. \A n \in 1..len + 1 : n = 1 \/ (n - 1 \in 1..len /\ n = (n - 1) + 1)
      BY <2>0
    <3>2. QED
      BY <2>1, <3>1
  <2>3. Inputs(s) = {n \in 1..len + 1 : s[n].op = "IN"}
    BY <2>1 DEF Inputs
  <2>4. None(m, f) => Inputs(s) = {}
    <3>1. SUFFICES ASSUME None(m, f), NEW n \in 1..len + 1 PROVE s[n].op # "IN"
      BY <2>3
    <3>2. QED
      BY <2>0, <2>1, <2>2, <3>1 DEF None
  <2>5. ASSUME NEW c, Carries(m, f, c) PROVE Characterwise(s) = <<c>>
    <3>1. CASE InMail(m, f, c)
      <4>1. p.op = "IN" /\ p.ch = c /\ \A n \in 1..len : f[n].op # "IN"
        BY <2>0, <2>1, <3>1 DEF InMail
      <4>2. 1 \in 1..len + 1
        BY <2>0
      <4>3. Inputs(s) = {1}
        BY <2>1, <2>2, <2>3, <4>1, <4>2
      <4>4. QED
        <5>1. 1 \in Int
          OBVIOUS
        <5>2. Characterwise(s) = <<s[1].ch>>
          BY <4>3, <5>1, OneOfInputs, Zenon
        <5>3. QED
          BY <2>1, <4>1, <5>2
    <3>2. CASE InFifo(m, f, c)
      <4>1. p.op # "IN"
        BY <2>1, <3>2 DEF InFifo
      <4>2. PICK k \in 1..len : f[k].op = "IN" /\ f[k].ch = c
                                /\ \A n \in 1..len : f[n].op = "IN" => n = k
        BY <2>0, <3>2 DEF InFifo
      <4>3. k + 1 \in 1..len + 1 /\ s[k + 1] = f[k] /\ k + 1 \in Int
        BY <2>0, <2>1, <4>2
      <4>4. \A n \in 1..len + 1 : s[n].op = "IN" => n = k + 1
        <5>1. TAKE n \in 1..len + 1
        <5>2. HAVE s[n].op = "IN"
        <5>3. n - 1 \in 1..len /\ f[n - 1].op = "IN"
          BY <2>1, <2>2, <4>1, <5>2
        <5>4. n - 1 = k
          BY <4>2, <5>3
        <5>5. QED
          BY <2>0, <5>4
      <4>5. Inputs(s) = {k + 1}
        BY <2>3, <4>2, <4>3, <4>4
      <4>6. QED
        BY <4>2, <4>3, <4>5, OneOfInputs
    <3>3. QED
      BY <2>5, <3>1, <3>2 DEF Carries
  <2>6. QED
    BY <2>4, <2>5, NoInputs DEF s
<1>4. QED
  BY <1>2, <1>3

LEMMA CharsNow ==
  ASSUME TypeOK, OneInput
  PROVE  NoInput \/ \E c : Carries(mail, fifo, c)
<1>1. mail = << >> \/ \E p \in Packets : mail = <<p>>
  BY LinkTypesOf DEF LinkTypes
<1>2. mail = << >> => DOMAIN mail = {}
  OBVIOUS
<1>3. mail # << >> => DOMAIN mail = {1}
  BY <1>1
<1>4. CASE mail # << >> /\ mail[1].op = "IN"
  BY <1>4 DEF OneInput, Carries, InMail
<1>5. CASE ~(mail # << >> /\ mail[1].op = "IN")
  <2>1. \A n \in DOMAIN mail : mail[n].op # "IN"
    BY <1>2, <1>3, <1>5
  <2>2. CASE \E k \in DOMAIN fifo : fifo[k].op = "IN"
    <3>1. PICK k \in DOMAIN fifo : fifo[k].op = "IN"
      BY <2>2
    <3>2. \A n \in DOMAIN fifo : fifo[n].op = "IN" => n = k
      BY <3>1 DEF OneInput
    <3>3. InFifo(mail, fifo, fifo[k].ch)
      BY <2>1, <3>1, <3>2 DEF InFifo
    <3>4. QED
      BY <3>3 DEF Carries
  <2>3. CASE ~\E k \in DOMAIN fifo : fifo[k].op = "IN"
    BY <2>1, <2>3 DEF NoInput
  <2>4. QED
    BY <2>2, <2>3
<1>6. QED
  BY <1>4, <1>5

LEMMA CarriesKept ==
  ASSUME TypeOK, NEW c, Carries(mail, fifo, c),
         \/ \E p \in Packets : p.op # "IN" /\ Transfer(p)
         \/ Dispatch
         \/ mail # << >> /\ mail[1].op # "IN" /\ mail' = << >> /\ fifo' = fifo
         \/ mail' = mail /\ fifo' = fifo
  PROVE  Carries(mail', fifo', c)
<1>1. fifo \in Seq(Packets) /\ Len(fifo) \in Nat /\ DOMAIN fifo = 1..Len(fifo)
  BY LinkTypesOf, LenProperties DEF LinkTypes
<1>2. CASE \E p \in Packets : p.op # "IN" /\ Transfer(p)
  <2>1. PICK p \in Packets : p.op # "IN" /\ Transfer(p)
    BY <1>2
  <2>2. /\ fifo' \in Seq(Packets) /\ mail' = mail
        /\ \/ fifo' = fifo
           \/ /\ Len(fifo') = Len(fifo) + 1 /\ fifo'[Len(fifo) + 1] = p
              /\ \A n \in 1..Len(fifo) : fifo'[n] = fifo[n]
    BY <2>1, TransferLink
  <2>3. CASE fifo' # fifo
    <3>1. DOMAIN fifo' = 1..Len(fifo) + 1
      BY <2>2, <2>3, LenProperties
    <3>2. \A n \in DOMAIN fifo' :
            fifo'[n].op = "IN" => n \in DOMAIN fifo /\ fifo[n].op = "IN"
      BY <1>1, <2>1, <2>2, <2>3, <3>1
    <3>3. \A n \in DOMAIN fifo : n \in DOMAIN fifo' /\ fifo'[n] = fifo[n]
      BY <1>1, <2>2, <2>3, <3>1
    <3>4. InMail(mail, fifo, c) => InMail(mail', fifo', c)
      BY <2>2, <3>2 DEF InMail
    <3>5. InFifo(mail, fifo, c) => InFifo(mail', fifo', c)
      BY <2>2, <3>2, <3>3 DEF InFifo
    <3>6. QED
      BY <3>4, <3>5 DEF Carries
  <2>4. QED
    BY <2>2, <2>3
<1>3. CASE Dispatch
  <2>1. /\ fifo # << >> /\ fifo' \in Seq(Packets) /\ Len(fifo') = Len(fifo) - 1
        /\ \A n \in 1..Len(fifo) - 1 : fifo'[n] = fifo[n + 1]
    BY <1>3, DispatchLink
  <2>2. DOMAIN fifo' = 1..Len(fifo) - 1 /\ 1 \in DOMAIN fifo /\ mail = << >>
    BY <1>1, <1>3, <2>1, LenProperties, EmptySeq, DispatchLink
  <2>3. \A n \in DOMAIN fifo' : n + 1 \in DOMAIN fifo /\ n + 1 # 1 /\ fifo'[n] = fifo[n + 1]
    BY <1>1, <2>1, <2>2
  <2>4. InFifo(mail, fifo, c)
    BY <2>2 DEF Carries, InMail
  <2>5. PICK k \in DOMAIN fifo : /\ fifo[k].op = "IN" /\ fifo[k].ch = c
                                 /\ \A n \in DOMAIN fifo : fifo[n].op = "IN" => n = k
    BY <2>4 DEF InFifo
  <2>6. CASE k = 1
    <3>1. fifo[1] # Nop
      BY <2>5, <2>6 DEF Nop
    <3>2. Head(fifo) = fifo[1]
      BY <1>1, <2>1
    <3>3. mail' = <<fifo[1]>>
      BY <1>3, <3>1, <3>2 DEF Dispatch
    <3>4. \A n \in DOMAIN fifo' : fifo'[n].op # "IN"
      BY <2>3, <2>5, <2>6
    <3>5. InMail(mail', fifo', c)
      BY <2>5, <2>6, <3>3, <3>4 DEF InMail
    <3>6. QED
      BY <3>5 DEF Carries
  <2>7. CASE k # 1
    <3>1. fifo[1].op # "IN"
      BY <2>2, <2>5, <2>7
    <3>2. \A n \in DOMAIN mail' : mail'[n].op # "IN"
      <4>1. mail' = << >> \/ mail' = <<fifo[1]>>
        BY <1>3, DispatchLink
      <4>2. QED
        BY <3>1, <4>1
    <3>3. k - 1 \in DOMAIN fifo' /\ (k - 1) + 1 = k
      BY <1>1, <2>2, <2>7
    <3>4. fifo'[k - 1] = fifo[k]
      BY <2>3, <3>3
    <3>5. \A n \in DOMAIN fifo' : fifo'[n].op = "IN" => n = k - 1
      <4>1. TAKE n \in DOMAIN fifo'
      <4>2. HAVE fifo'[n].op = "IN"
      <4>3. n + 1 = k
        BY <2>3, <2>5, <4>2
      <4>4. n \in Int
        BY <2>2
      <4>5. QED
        BY <4>3, <4>4
    <3>6. InFifo(mail', fifo', c)
      BY <2>5, <3>2, <3>3, <3>4, <3>5 DEF InFifo
    <3>7. QED
      BY <3>6 DEF Carries
  <2>8. QED
    BY <2>6, <2>7
<1>4. CASE mail # << >> /\ mail[1].op # "IN" /\ mail' = << >> /\ fifo' = fifo
  BY <1>4 DEF Carries, InMail, InFifo
<1>5. CASE mail' = mail /\ fifo' = fifo
  BY <1>5
<1>6. QED
  BY <1>2, <1>3, <1>4, <1>5

Chars == Characterwise(mail \o fifo)
LEMMA CharsKept ==
  ASSUME TypeOK, LinkTypes', OneInput, Packets' = Packets,
         \/ \E p \in Packets : p.op # "IN" /\ Transfer(p)
         \/ Dispatch
         \/ mail # << >> /\ mail[1].op # "IN" /\ mail' = << >> /\ fifo' = fifo
         \/ mail' = mail /\ fifo' = fifo
  PROVE  Chars' = Chars
<1>1. /\ fifo \in Seq(Packets) /\ (mail = << >> \/ \E p \in Packets : mail = <<p>>)
      /\ fifo' \in Seq(Packets) /\ (mail' = << >> \/ \E p \in Packets : mail' = <<p>>)
  BY LinkTypesOf DEF LinkTypes
<1>2. /\ None(mail, fifo) => Chars = << >>
      /\ \A c : Carries(mail, fifo, c) => Chars = <<c>>
  BY <1>1, CharsOf DEF Chars
<1>3. /\ None(mail', fifo') => Chars' = << >>
      /\ \A c : Carries(mail', fifo', c) => Chars' = <<c>>
  BY <1>1, CharsOf DEF Chars
<1>4. CASE NoInput
  <2>1. NoInput'
    BY <1>4, NoInputKept
  <2>2. None(mail, fifo) /\ None(mail', fifo')
    BY <1>4, <2>1 DEF NoInput, None
  <2>3. QED
    BY <1>2, <1>3, <2>2
<1>5. CASE ~NoInput
  <2>1. PICK c : Carries(mail, fifo, c)
    BY <1>5, CharsNow
  <2>2. Carries(mail', fifo', c)
    BY <2>1, CarriesKept
  <2>3. QED
    BY <1>2, <1>3, <2>1, <2>2
<1>6. QED
  BY <1>4, <1>5

LEMMA CharsTypes ==
  ASSUME TypeOK, OneInput
  PROVE  Chars \in Seq(Characters)
<1>1. /\ fifo \in Seq(Packets) /\ (mail = << >> \/ \E p \in Packets : mail = <<p>>)
      /\ DOMAIN fifo = 1..Len(fifo)
  BY LinkTypesOf, LenProperties DEF LinkTypes
<1>2. CASE NoInput
  <2>1. Chars = << >>
    BY <1>1, <1>2, CharsOf DEF Chars, NoInput, None
  <2>2. QED
    BY <2>1
<1>3. CASE ~NoInput
  <2>1. PICK c : Carries(mail, fifo, c)
    BY <1>3, CharsNow
  <2>2. Chars = <<c>>
    BY <1>1, <2>1, CharsOf DEF Chars
  <2>3. c \in Characters
    <3>1. CASE InMail(mail, fifo, c)
      <4>1. mail[1] \in Packets
        BY <1>1, <3>1 DEF InMail
      <4>2. QED
        BY <3>1, <4>1, PacketOps DEF InMail
    <3>2. CASE InFifo(mail, fifo, c)
      <4>1. PICK k \in DOMAIN fifo : fifo[k].op = "IN" /\ fifo[k].ch = c
        BY <3>2 DEF InFifo
      <4>2. fifo[k] \in Packets
        BY <1>1, <4>1, ElementOfSeq
      <4>3. QED
        BY <4>1, <4>2, PacketOps
    <3>3. QED
      BY <2>1, <3>1, <3>2 DEF Carries
  <2>4. QED
    BY <2>2, <2>3
<1>4. QED
  BY <1>2, <1>3

(* A character is sent into an empty chip, and taken from the mailbox.     *)
LEMMA SendChars ==
  ASSUME TypeOK, AskInv, opt.ahead = 0, LinkTypes', SendChar
  PROVE  Chars = << >> /\ Chars' = <<ch>>
<1>1. cpu = "wait" /\ NoInput
  BY DEF SendChar, AskInv, Unasked
<1>2. mail = << >> /\ fifo = << >>
  BY <1>1 DEF SendChar, Prompt, Settled
<1>3. fifo' = <<InChar(ch)>> /\ mail' = << >>
  <2>1. Transfer(InChar(ch)) /\ Depth \in Nat \ {0}
    BY LinkAssumption DEF SendChar, Send
  <2>2. Len(fifo) < Depth
    BY <1>2, <2>1
  <2>3. QED
    BY <1>2, <2>1, <2>2 DEF Transfer
<1>4. Chars = << >>
  <2>1. None(mail, fifo)
    BY <1>1 DEF None, NoInput
  <2>2. fifo \in Seq(Packets)
    BY LinkTypesOf DEF LinkTypes
  <2>3. QED
    BY <1>2, <2>1, <2>2, CharsOf DEF Chars
<1>5. InFifo(mail', fifo', ch)
  <2>1. DOMAIN fifo' = {1} /\ fifo'[1] = InChar(ch) /\ DOMAIN mail' = {}
    BY <1>3
  <2>2. QED
    BY <2>1 DEF InFifo, InChar
<1>6. /\ fifo' \in Seq(Packets') /\ (mail' = << >> \/ \E p \in Packets : mail' = <<p>>)
  BY <1>3 DEF LinkTypes
<1>7. Packets' = Packets
  BY DEF SendChar, Packets, Characters
<1>8. QED
  BY <1>4, <1>5, <1>6, <1>7, CharsOf DEF Chars, Carries

LEMMA GetChars ==
  ASSUME TypeOK, OneInput, GetChar
  PROVE  Chars = <<mail[1].ch>> /\ Chars' = << >>
<1>1. /\ fifo \in Seq(Packets) /\ (mail = << >> \/ \E p \in Packets : mail = <<p>>)
  BY LinkTypesOf DEF LinkTypes
<1>2. mail # << >> /\ mail[1].op = "IN" /\ mail' = << >> /\ fifo' = fifo
  BY DEF GetChar, AckMail
<1>3. \A n \in DOMAIN fifo : fifo[n].op # "IN"
  BY <1>2 DEF OneInput
<1>4. InMail(mail, fifo, mail[1].ch)
  BY <1>2, <1>3 DEF InMail
<1>5. None(<< >>, fifo)
  BY <1>3 DEF None
<1>6. Chars = <<mail[1].ch>>
  BY <1>1, <1>4, CharsOf DEF Chars, Carries
<1>7. Characterwise(<< >> \o fifo) = << >>
  BY <1>1, <1>5, CharsOf
<1>8. QED
  BY <1>2, <1>6, <1>7 DEF Chars

LEMMA AloneInChip ==
  ASSUME TypeOK, AskInv, opt.ahead = 0, pc \in {"need", "line", "send"}
  PROVE  Chars = << >>
<1>1. NoInput
  BY DEF AskInv, Unasked
<1>2. fifo \in Seq(Packets) /\ (mail = << >> \/ \E p \in Packets : mail = <<p>>)
  BY LinkTypesOf DEF LinkTypes
<1>3. QED
  BY <1>1, <1>2, CharsOf DEF Chars, NoInput, None

(* What has left the source: what IN got and what is on its way.           *)
Given == received \o InFlight
LEMMA GivenNow ==
  ASSUME TypeOK, AskInv, opt.ahead = 0
  PROVE  /\ Given \in Seq(Characters) /\ received \in Seq(Characters) /\ ch \in Characters
         /\ pc # "send" => Given = received \o Chars
         /\ pc = "send" => Given = Append(received, ch)
         /\ pc \in {"need", "line"} => Given = received
<1>1. OneInput
  BY DEF AskInv
<1>2. Chars \in Seq(Characters) /\ received \in Seq(Characters) /\ ch \in Characters
  BY <1>1, CharsTypes DEF TypeOK
<1>3. pc \in {"need", "line", "send"} => Chars = << >>
  BY AloneInChip
<1>4. InFlight = Chars \o IF pc = "send" THEN <<ch>> ELSE << >>
  BY DEF InFlight, Chars
<1>5. pc # "send" => InFlight = Chars
  BY <1>2, <1>4
<1>6. pc = "send" => InFlight = <<ch>>
  BY <1>3, <1>4
<1>7. received \o << >> = received /\ received \o <<ch>> = Append(received, ch)
  BY <1>2
<1>8. (pc # "send" => Given = received \o Chars) /\ (pc = "send" => Given = Append(received, ch))
  BY <1>5, <1>6, <1>7 DEF Given
<1>9. pc \in {"need", "line"} => Given = received
  BY <1>3, <1>7, <1>8
<1>10. Given \in Seq(Characters)
  <2>1. Append(received, ch) \in Seq(Characters) /\ received \o Chars \in Seq(Characters)
    BY <1>2
  <2>2. QED
    BY <1>8, <2>1
<1>11. QED
  BY <1>2, <1>8, <1>9, <1>10

(* What a step does to it.  NextChar hands a character over, a signal may  *)
(* take it back; on its way nothing is lost.                               *)
LEMMA GivenStep ==
  ASSUME TypeOK, LoadInv, OutInv, AskInv, PollInv, opt.ahead = 0, Next
  PROVE  /\ ~NextChar /\ ~Signal => Given' = Given
         /\ NextChar => Given' = Append(Given, ch') /\ pc = "need" /\ pc' = "send"
         /\ Signal => \/ Given' = Given
                      \/ /\ Given' \in Seq(Characters)
                         /\ \E c \in Characters : Given = Append(Given', c)
<1>1. /\ LinkTypes' /\ OneInput /\ OneInput' /\ TypeOK' /\ AskInv' /\ opt'.ahead = 0
      /\ Packets' = Packets
  <2>1. opt' = opt
    BY OptStep
  <2>2. QED
    BY <2>1, LinkTypesStep, TypeStep, AskStep, OptStep DEF AskInv
<1>2. /\ Given \in Seq(Characters) /\ received \in Seq(Characters) /\ ch \in Characters
      /\ pc # "send" => Given = received \o Chars
      /\ pc = "send" => Given = Append(received, ch)
      /\ pc \in {"need", "line"} => Given = received
  BY GivenNow
<1>3. InFlight' = Chars' \o IF pc' = "send" THEN <<ch'>> ELSE << >>
  BY DEF InFlight, Chars
<1>4. ASSUME UNCHANGED <<received, ch>>, (pc' = "send") = (pc = "send"), Chars' = Chars
      PROVE  Given' = Given
  BY <1>3, <1>4 DEF Given, InFlight, Chars
<1>5. ~PollText /\ ~\E k \in Keys : Len(keys) < MaxKeys /\ PollKey(k)
  BY NothingEarly DEF SendsUnasked
<1>6. CASE QuietTry \/ ReadWord
  <2>1. Chars' = Chars
    BY <1>1, <1>6, TryLink, CharsKept
  <2>2. UNCHANGED <<received, ch>> /\ pc # "send" /\ pc' # "send" /\ pc = "read"
    BY <1>6 DEF QuietTry, ReadWord, cpuVars
  <2>3. QED
    BY <1>4, <2>1, <2>2 DEF NextChar, Signal
<1>7. CASE SendChar
  <2>1. Chars' = <<ch>>
    BY <1>1, <1>7, SendChars
  <2>2. UNCHANGED received /\ pc = "send" /\ pc' = "top"
    BY <1>7 DEF SendChar, cpuVars
  <2>3. InFlight' = <<ch>>
    BY <1>3, <2>1, <2>2
  <2>4. Given' = received \o <<ch>>
    BY <2>2, <2>3 DEF Given
  <2>5. Given' = Given
    <3>1. Given = Append(received, ch) /\ received \in Seq(Characters) /\ ch \in Characters
      BY <1>2, <2>2
    <3>2. received \o <<ch>> = Append(received, ch)
      BY <3>1
    <3>3. QED
      BY <2>4, <3>1, <3>2, Zenon
  <2>6. ~NextChar /\ ~Signal
    BY <2>2 DEF NextChar, Signal
  <2>7. QED
    BY <2>5, <2>6
<1>8. CASE GetChar
  <2>1. Chars = <<mail[1].ch>> /\ Chars' = << >>
    BY <1>1, <1>8, GetChars
  <2>2. UNCHANGED <<pc, ch>> /\ received' = Append(received, mail[1].ch)
    BY <1>8 DEF GetChar
  <2>3. pc \notin {"need", "line", "send"}
    <3>1. mail # << >> /\ mail[1].op = "IN"
      BY <1>8 DEF GetChar
    <3>2. 1 \in DOMAIN mail
      BY <3>1, LinkTypesOf DEF LinkTypes
    <3>3. ~NoInput
      BY <3>1, <3>2 DEF NoInput
    <3>4. QED
      BY <3>3 DEF AskInv, Unasked
  <2>4. InFlight' = << >>
    BY <1>3, <2>1, <2>2, <2>3
  <2>5. received' \in Seq(Characters')
    BY <1>1 DEF TypeOK
  <2>6. Given' = received'
    BY <2>4, <2>5 DEF Given
  <2>7. Given = received \o <<mail[1].ch>>
    BY <1>2, <2>1, <2>3
  <2>8. Given' = Given
    BY <1>2, <2>2, <2>6, <2>7
  <2>9. ~NextChar
    BY <2>3 DEF NextChar
  <2>10. QED
    BY <2>8, <2>9
<1>9. CASE Chip
  <2>1. Dispatch /\ UNCHANGED <<received, ch, pc>>
    BY <1>9 DEF Chip, cpuVars
  <2>2. Given' = Given
    BY <1>1, <1>4, <2>1, CharsKept
  <2>3. pc' = pc
    BY <2>1
  <2>4. ~NextChar
    BY <2>3 DEF NextChar
  <2>5. QED
    BY <2>2, <2>4
<1>10. CASE Discard
  <2>1. /\ mail # << >> /\ mail[1].op # "IN" /\ mail' = << >> /\ fifo' = fifo
        /\ UNCHANGED <<received, ch, pc>>
    BY <1>10 DEF Discard, AckMail, cpuVars
  <2>2. Given' = Given
    BY <1>1, <1>4, <2>1, CharsKept
  <2>3. ~NextChar
    BY <2>1 DEF NextChar
  <2>4. QED
    BY <2>2, <2>3
<1>11. CASE Begin \/ PutChar \/ Ask \/ SendStart
  <2>1. /\ mail' = mail /\ fifo' = fifo /\ UNCHANGED <<received, ch>>
        /\ pc' = pc \/ (pc = "load" /\ pc' = "top")
    BY <1>11 DEF Begin, PutChar, Ask, SendStart, StoreWord, linkVars
  <2>2. Given' = Given
    BY <1>1, <1>4, <2>1, CharsKept
  <2>3. ~NextChar
    BY <2>1 DEF NextChar
  <2>4. QED
    BY <2>2, <2>3
<1>12. CASE Quietly
  <2>1. mail' = mail /\ fifo' = fifo
    BY <1>12, QuietlyLeaves DEF linkVars
  <2>2. Chars' = Chars
    BY <2>1 DEF Chars
  <2>3. CASE NextChar
    <3>1. pc = "need" /\ pc' = "send" /\ UNCHANGED received
      BY <2>3 DEF NextChar, cpuVars
    <3>2. Chars = << >> /\ Given = received
      BY <1>2, <3>1, AloneInChip
    <3>3. InFlight' = <<ch'>>
      BY <1>3, <2>2, <3>1, <3>2
    <3>4. Given' = Append(received, ch')
      BY <1>2, <3>1, <3>3 DEF Given
    <3>5. QED
      BY <3>1, <3>2, <3>4, <2>3 DEF Signal
  <2>4. CASE Signal
    <3>1. pc' = "asked" /\ UNCHANGED <<received, ch>>
      BY <2>4 DEF Signal, cpuVars
    <3>2. CASE pc = "send"
      <4>1. Given = Append(received, ch)
        BY <1>2, <3>2
      <4>2. Chars' = << >>
        BY <2>2, <3>2, AloneInChip
      <4>3. Given' = received
        BY <1>2, <1>3, <3>1, <4>2 DEF Given
      <4>4. QED
        BY <1>2, <2>4, <3>2, <4>1, <4>3 DEF NextChar
    <3>3. CASE pc # "send"
      BY <1>4, <2>2, <2>4, <3>1, <3>3 DEF NextChar
    <3>4. QED
      BY <3>2, <3>3
  <2>5. CASE ~NextChar /\ ~Signal
    <3>1. \/ Open \/ DrainRead \/ SendInit \/ SendWords \/ LoopTop \/ Refill
          \/ PollNothing \/ TypeInterrupt \/ \E k \in Keys : Type(k)
      BY <1>5, <1>12, <2>5 DEF Quietly, User
    <3>2. UNCHANGED <<received, ch>> /\ pc # "send" /\ pc' # "send"
      BY <3>1 DEF Open, DrainRead, SendInit, SendWords, LoopTop, Refill, PollNothing,
                  TypeInterrupt, Type, cpuVars
    <3>3. QED
      BY <1>4, <2>2, <2>5, <3>2
  <2>6. QED
    BY <2>3, <2>4, <2>5
<1>13. QED
  BY <1>6, <1>7, <1>8, <1>9, <1>10, <1>11, <1>12, ActionCases

(* The printable characters of what the keys mean come in the order they   *)
(* were typed.                                                             *)
Sorted(s, top) == Increasing(s) /\ \A n \in DOMAIN s : s[n] <= top
MeantInv == Sorted(Meant, Cardinality(Printable))

LEMMA SortedPrefix ==
  ASSUME NEW s \in Seq(Int), NEW t \in Seq(Int), NEW top \in Int, Sorted(s, top),
         Len(t) <= Len(s), \A n \in 1..Len(t) : t[n] = s[n]
  PROVE  Sorted(t, top)
<1>1. /\ DOMAIN s = 1..Len(s) /\ DOMAIN t = 1..Len(t) /\ Len(s) \in Nat /\ Len(t) \in Nat
  BY LenProperties
<1>2. \A n \in DOMAIN t : n \in DOMAIN s /\ t[n] = s[n]
  BY <1>1
<1>3. QED
  BY <1>2 DEF Sorted, Increasing

LEMMA SortedAppend ==
  ASSUME NEW s \in Seq(Int), NEW top \in Nat, NEW new \in Nat, NEW x \in Int, Sorted(s, top),
         (x <= 0 /\ new = top) \/ (x = top + 1 /\ new = top + 1)
  PROVE  Sorted(Append(s, x), new)
<1> DEFINE t == Append(s, x)
           len == Len(s)
<1>1. /\ len \in Nat /\ DOMAIN s = 1..len /\ DOMAIN t = 1..len + 1 /\ t[len + 1] = x
      /\ \A n \in 1..len : t[n] = s[n] /\ s[n] \in Int
  BY LenProperties, AppendProperties
<1> HIDE DEF t, len
<1>2. \A n \in 1..len + 1 : n \in 1..len \/ n = len + 1
  BY <1>1
<1>3. /\ \A n \in 1..len : s[n] <= top
      /\ \A m, n \in 1..len : m < n /\ s[m] > 0 /\ s[n] > 0 => s[m] < s[n]
  BY <1>1 DEF Sorted, Increasing
<1>4. \A n \in DOMAIN t : t[n] <= new
  BY <1>1, <1>2, <1>3
<1>5. ASSUME NEW m \in DOMAIN t, NEW n \in DOMAIN t, m < n, t[m] > 0, t[n] > 0
      PROVE  t[m] < t[n]
  <2>1. m \in 1..len
    BY <1>1, <1>2, <1>5
  <2>2. CASE n \in 1..len
    BY <1>1, <1>3, <1>5, <2>1, <2>2
  <2>3. CASE n = len + 1
    <3>1. x > 0 /\ x = top + 1
      BY <1>1, <1>5, <2>3
    <3>2. QED
      BY <1>1, <1>3, <2>1, <2>3, <3>1
  <2>4. QED
    BY <1>1, <1>2, <2>2, <2>3
<1>6. QED
  BY <1>4, <1>5 DEF Sorted, Increasing, t

(* How many printable ones there are after another key.                    *)
LEMMA PrintableStep ==
  ASSUME TypeOK, NEW k \in Keys, keys' = Append(keys, k)
  PROVE  /\ Cardinality(Printable) \in Nat
         /\ Cardinality(Printable') = IF k > 0 THEN Cardinality(Printable) + 1
                                               ELSE Cardinality(Printable)
<1> DEFINE len == Len(keys)
<1>1. /\ keys \in Seq(Characters \cup {ETX, EOF}) /\ len \in Nat /\ DOMAIN keys = 1..len
      /\ DOMAIN keys' = 1..len + 1 /\ keys'[len + 1] = k
      /\ \A n \in 1..len : keys'[n] = keys[n]
  <2>1. keys \in Seq(Characters \cup {ETX, EOF})
    BY DEF TypeOK
  <2>2. QED
    BY <2>1, LenProperties, AppendProperties
<1>2. Printable \subseteq 1..len
  BY <1>1 DEF Printable
<1>3. IsFiniteSet(Printable) /\ Cardinality(Printable) \in Nat
  <2>1. IsFiniteSet(1..len)
    BY <1>1, FS_Interval
  <2>2. QED
    BY <1>2, <2>1, FS_Subset, FS_CardinalityType
<1> HIDE DEF len
<1>4. \A n \in 1..len + 1 : n \in 1..len \/ n = len + 1
  BY <1>1
<1>5. len + 1 \notin 1..len /\ len + 1 \in 1..len + 1 /\ 1..len \subseteq 1..len + 1
  BY <1>1
<1>6. Printable = {n \in 1..len : keys[n] > 0} /\ Printable' = {n \in 1..len + 1 : keys'[n] > 0}
  BY <1>1 DEF Printable
<1>7. CASE k > 0
  <2>1. Printable' = Printable \cup {len + 1}
    BY <1>1, <1>4, <1>5, <1>6, <1>7
  <2>2. QED
    BY <1>2, <1>3, <1>5, <1>7, <2>1, FS_AddElement
<1>8. CASE ~(k > 0)
  <2>1. Printable' = Printable
    BY <1>1, <1>4, <1>5, <1>6, <1>8
  <2>2. QED
    BY <1>3, <1>8, <2>1
<1>9. QED
  BY <1>7, <1>8

LEMMA ConcatAppend ==
  ASSUME NEW s \in Seq(Int), NEW t \in Seq(Int), NEW x \in Int
  PROVE  s \o Append(t, x) = Append(s \o t, x)
<1>1. /\ Append(t, x) \in Seq(Int) /\ Len(Append(t, x)) = Len(t) + 1
      /\ s \o t \in Seq(Int) /\ Len(s \o t) = Len(s) + Len(t)
      /\ Len(s) \in Nat /\ Len(t) \in Nat
  BY LenProperties, AppendProperties, ConcatProperties
<1>2. /\ s \o Append(t, x) \in Seq(Int) /\ Len(s \o Append(t, x)) = Len(s) + Len(t) + 1
      /\ Append(s \o t, x) \in Seq(Int) /\ Len(Append(s \o t, x)) = Len(s) + Len(t) + 1
  BY <1>1, AppendProperties, ConcatProperties
<1>3. \A n \in 1..Len(s) + Len(t) + 1 : (s \o Append(t, x))[n] = Append(s \o t, x)[n]
  BY <1>1
<1>4. QED
  BY <1>2, <1>3, SeqEqual

LEMMA ConcatOne ==
  ASSUME NEW s \in Seq(Int), NEW x \in Int
  PROVE  s \o <<x>> = Append(s, x) /\ s \o << >> = s
<1>1. <<x>> \in Seq(Int) /\ Append(s, x) \in Seq(Int) /\ Len(s) \in Nat
  BY LenProperties, AppendProperties
<1>2. s \o <<x>> \in Seq(Int) /\ Len(s \o <<x>>) = Len(s) + 1 /\ Len(Append(s, x)) = Len(s) + 1
  BY <1>1
<1>3. \A n \in 1..Len(s) + 1 : (s \o <<x>>)[n] = Append(s, x)[n]
  BY <1>1
<1>4. QED
  BY <1>1, <1>2, <1>3, SeqEqual

LEMMA ConcatTwo ==
  ASSUME NEW s \in Seq(Int), NEW x \in Int, NEW y \in Int
  PROVE  s \o <<x, y>> = Append(Append(s, x), y)
<1> DEFINE t == Append(Append(s, x), y)
<1>1. <<x, y>> \in Seq(Int) /\ Len(<<x, y>>) = 2 /\ Append(s, x) \in Seq(Int) /\ Len(s) \in Nat
      /\ t \in Seq(Int)
  BY LenProperties, AppendProperties
<1>2. s \o <<x, y>> \in Seq(Int) /\ Len(s \o <<x, y>>) = Len(s) + 2 /\ Len(t) = Len(s) + 2
  BY <1>1
<1>3. \A n \in 1..Len(s) + 2 : (s \o <<x, y>>)[n] = t[n]
  BY <1>1
<1>4. QED
  BY <1>1, <1>2, <1>3, SeqEqual

LEMMA FrontIs ==
  ASSUME NEW p \in Seq(Int), p # << >>
  PROVE  /\ Front(p) \in Seq(Int) /\ Len(Front(p)) = Len(p) - 1
         /\ \A n \in 1..Len(p) - 1 : Front(p)[n] = p[n]
<1>1. DOMAIN p = 1..Len(p) /\ Len(p) \in Nat
  BY LenProperties
<1>2. Len(p) >= 1
  BY <1>1, EmptySeq
<1>3. \A n \in 1..Len(p) - 1 : n \in 1..Len(p) /\ 1 + n - 1 = n
  BY <1>1
<1>4. \A n \in 1..Len(p) - 1 : p[n] \in Int
  BY <1>1, <1>3, ElementOfSeq
<1>5. /\ SubSeq(p, 1, Len(p) - 1) \in Seq(Int)
      /\ Len(SubSeq(p, 1, Len(p) - 1)) = IF 1 <= Len(p) - 1 THEN Len(p) - 1 - 1 + 1 ELSE 0
      /\ \A n \in 1..Len(p) - 1 - 1 + 1 : SubSeq(p, 1, Len(p) - 1)[n] = p[1 + n - 1]
  BY <1>1, <1>4, SubSeqProperties
<1> DEFINE len == Len(p)
           q == SubSeq(p, 1, len - 1)
<1>6. len \in Nat /\ len >= 1 /\ len - 1 - 1 + 1 = len - 1
  BY <1>1, <1>2
<1>7. Len(q) = len - 1
  <2>1. Len(q) = IF 1 <= len - 1 THEN len - 1 - 1 + 1 ELSE 0
    BY <1>5
  <2> HIDE DEF len, q
  <2>2. QED
    BY <1>6, <2>1
<1>8. \A n \in 1..len - 1 : q[n] = p[n]
  <2>1. \A n \in 1..len - 1 - 1 + 1 : q[n] = p[1 + n - 1]
    BY <1>5
  <2>2. \A n \in 1..len - 1 : 1 + n - 1 = n
    BY <1>3
  <2> HIDE DEF len, q
  <2>3. QED
    BY <1>6, <2>1, <2>2
<1>9. Front(p) = q
  BY DEF Front
<1> HIDE DEF q
<1>10. q \in Seq(Int)
  BY <1>5 DEF q
<1>11. QED
  BY <1>7, <1>8, <1>9, <1>10

(* A backspace shortens the text.                                          *)
LEMMA ConcatFront ==
  ASSUME NEW d \in Seq(Int), NEW p \in Seq(Int), p # << >>
  PROVE  /\ Front(p) \in Seq(Int) /\ d \o Front(p) \in Seq(Int)
         /\ Len(d \o Front(p)) <= Len(d \o p)
         /\ \A n \in 1..Len(d \o Front(p)) : (d \o Front(p))[n] = (d \o p)[n]
<1> DEFINE q == Front(p)
<1>1. /\ q \in Seq(Int) /\ Len(q) = Len(p) - 1 /\ Len(p) \in Nat /\ Len(d) \in Nat
      /\ \A n \in 1..Len(p) - 1 : q[n] = p[n]
  BY FrontIs, LenProperties
<1> HIDE DEF q
<1>2. /\ d \o q \in Seq(Int) /\ Len(d \o q) = Len(d) + Len(p) - 1
      /\ Len(d \o p) = Len(d) + Len(p)
  BY <1>1, ConcatProperties
<1>3. \A n \in 1..Len(d) + Len(p) - 1 : (d \o q)[n] = (d \o p)[n]
  <2>1. TAKE n \in 1..Len(d) + Len(p) - 1
  <2>2. CASE n <= Len(d)
    BY <1>1, <2>2
  <2>3. CASE n > Len(d)
    <3>1. n - Len(d) \in 1..Len(q)
      BY <1>1, <2>3
    <3>2. (d \o q)[n] = q[n - Len(d)] /\ (d \o p)[n] = p[n - Len(d)]
      BY <1>1, <1>2, <2>3, ConcatProperties
    <3>3. QED
      BY <1>1, <3>1, <3>2
  <2>4. QED
    BY <1>1, <2>2, <2>3
<1>4. Len(d \o q) <= Len(d \o p)
  BY <1>1, <1>2
<1>5. \A n \in 1..Len(d \o q) : (d \o q)[n] = (d \o p)[n]
  BY <1>2, <1>3
<1>6. QED
  BY <1>1, <1>2, <1>4, <1>5 DEF q

LEMMA KeySteps ==
  ASSUME Next
  PROVE  \/ UNCHANGED <<keys, meant>>
         \/ \E k \in Keys : Len(keys) < MaxKeys /\ Pressed(k)
<1>1. CASE User
  <2>1. CASE Signal
    BY <2>1 DEF Signal, srcVars
  <2>2. CASE TypeInterrupt /\ Len(keys) < MaxKeys
    BY <2>2 DEF TypeInterrupt
  <2>3. CASE \E k \in Keys : Len(keys) < MaxKeys /\ (Type(k) \/ PollKey(k))
    BY <2>3 DEF Type, PollKey
  <2>4. QED
    BY <1>1, <2>1, <2>2, <2>3 DEF User
<1>2. CASE ~User
  BY <1>2 DEF Next, Host, Chip, CpuCall, Open, DrainRead, SendInit, SendWords, SendStart, LoopTop,
              QuietTry, ReadWord, NextChar, Refill, SendChar, PollNothing, PollText,
              Begin, PutChar, Ask, Discard, GetChar, srcVars
<1>3. QED
  BY <1>1, <1>2

LEMMA CharactersAreInts == ASSUME opt \in Sessions PROVE Characters \subseteq Int
<1>1. opt.text \in Nat /\ MaxKeys \in Nat
  BY OptionTypes, SizesAssumption
<1>2. 1..opt.text \subseteq Int /\ 1..MaxKeys \subseteq Int
  BY <1>1
<1>3. EOT \in Int /\ NL \in Int /\ BS \in Int
  BY DEF EOT, NL, BS
<1>4. QED
  BY <1>2, <1>3 DEF Characters

LEMMA TextParts ==
  ASSUME TypeOK
  PROVE  /\ meant.done \in Seq(Int) /\ meant.part \in Seq(Int)
         /\ meant.done \in Seq(Characters) /\ meant.part \in Seq(Characters)
         /\ meant = Text(meant.done, meant.part)
         /\ Meant \in Seq(Int)
<1>1. Characters \subseteq Int
  BY CharactersAreInts DEF TypeOK
<1>2. /\ meant.done \in Seq(Characters) /\ meant.part \in Seq(Characters)
      /\ meant = Text(meant.done, meant.part)
  BY DEF TypeOK, Text
<1>3. \A s \in Seq(Characters) : s \in Seq(Int)
  BY <1>1, SeqMonotonic
<1>4. meant.done \in Seq(Int) /\ meant.part \in Seq(Int)
  BY <1>2, <1>3
<1>5. QED
  BY <1>2, <1>4, ConcatProperties DEF Meant

(* What a key does to the text.                                            *)
LEMMA MeantCases ==
  ASSUME TypeOK, NEW k \in Keys, Len(keys) < MaxKeys, meant' = Edit(meant, k)
  PROVE  LET d == meant.done  p == meant.part
         IN \/ k = ETX /\ meant' = meant
            \/ k = BS /\ meant' = Text(d, IF p = << >> THEN p ELSE Front(p))
            \/ k \in {EOT, EOF} /\ p = << >> /\ meant' = Text(Append(d, EOT), p)
            \/ k = EOF /\ p # << >> /\ meant' = Text(d \o p \o <<NL, EOT>>, << >>)
            \/ (k = NL \/ (k = EOT /\ p # << >>)) /\ meant' = Text(d \o p \o <<NL>>, << >>)
            \/ /\ k \in Characters /\ k \in Nat /\ k > 0 /\ k = Cardinality(Printable) + 1
               /\ meant' = Text(d, Append(p, k))
<1>1. meant = Text(meant.done, meant.part)
  BY TextParts
<1>2. k \in Characters \cup {ETX, EOF}
  BY KeyTypes
<1>3. k \in {ETX, BS, EOT, EOF, NL} \/ k = Cardinality(Printable) + 1
  BY DEF Keys
<1>4. k \in {ETX, BS, EOT, EOF, NL} \/ (k \in Nat /\ k > 0 /\ k \in Characters)
  BY <1>2, OptionTypes, SizesAssumption DEF Characters, EOT, NL, BS, ETX, EOF, TypeOK
<1>5. CASE k = ETX
  BY <1>1, <1>5, EditCases
<1>6. CASE k = BS
  BY <1>1, <1>6, EditCases
<1>7. CASE k = NL
  BY <1>1, <1>7, EditCases
<1>8. CASE k \in {EOT, EOF}
  <2>1. CASE meant.part = << >>
    BY <1>1, <1>8, <2>1, EditCases
  <2>2. CASE meant.part # << >> /\ k = EOT
    BY <1>1, <2>2, EditCases
  <2>3. CASE meant.part # << >> /\ k = EOF
    BY <1>1, <2>3, EditCases
  <2>4. QED
    BY <1>8, <2>1, <2>2, <2>3
<1>9. CASE k \notin {ETX, BS, EOT, EOF, NL}
  <2>1. k \in Nat /\ k > 0 /\ k \in Characters /\ k = Cardinality(Printable) + 1
    BY <1>3, <1>4, <1>9
  <2>2. Edit(meant, k) = Text(meant.done, Append(meant.part, k))
    BY <1>1, <2>1, EditCases
  <2>3. QED
    BY <2>1, <2>2
<1>10. QED
  BY <1>5, <1>6, <1>7, <1>8, <1>9

LEMMA MeantStep ==
  ASSUME TypeOK, MeantInv, Next
  PROVE  MeantInv'
<1>1. CASE UNCHANGED <<keys, meant>>
  BY <1>1 DEF MeantInv, Sorted, Increasing, Meant, Printable
<1>2. ASSUME NEW k \in Keys, Len(keys) < MaxKeys, Pressed(k) PROVE MeantInv'
  <2> DEFINE d == meant.done
             p == meant.part
             top == Cardinality(Printable)
             top1 == Cardinality(Printable')
  <2>1. /\ d \in Seq(Int) /\ p \in Seq(Int) /\ d \o p \in Seq(Int)
        /\ Sorted(d \o p, top) /\ top \in Nat
        /\ top1 = IF k > 0 THEN top + 1 ELSE top
    BY <1>2, TextParts, PrintableStep, ConcatProperties DEF MeantInv, Meant, Pressed
  <2>2. ASSUME NEW e, NEW q, meant' = Text(e, q), Sorted(e \o q, top1) PROVE MeantInv'
    <3>1. Meant' = e \o q
      BY <2>2 DEF Meant, Text
    <3>2. QED
      BY <2>2, <3>1 DEF MeantInv, Sorted, Increasing
  <2>3. meant' = Edit(meant, k)
    BY <1>2 DEF Pressed
  <2>4. NL \in Int /\ NL <= 0 /\ EOT \in Int /\ EOT <= 0 /\ ~(NL > 0)
    BY DEF NL, EOT
  <2>5. /\ Sorted(Append(d \o p, NL), top) /\ Sorted(Append(d \o p, EOT), top)
        /\ Append(d \o p, NL) \in Seq(Int) /\ Append(Append(d \o p, NL), EOT) \in Seq(Int)
    <3>1. Append(d \o p, NL) \in Seq(Int) /\ Append(Append(d \o p, NL), EOT) \in Seq(Int)
      BY <2>1, <2>4, AppendProperties
    <3>2. Sorted(Append(d \o p, NL), top)
      BY <2>1, <2>4, SortedAppend
    <3>3. Sorted(Append(d \o p, EOT), top)
      BY <2>1, <2>4, SortedAppend
    <3>4. QED
      BY <3>1, <3>2, <3>3
  <2>6. CASE k = ETX /\ meant' = meant
    <3>1. top1 = top
      BY <2>1, <2>6 DEF ETX
    <3>2. meant' = Text(d, p)
      BY <2>6, TextParts
    <3>3. QED
      BY <2>1, <2>2, <3>1, <3>2
  <2>7. CASE k = BS /\ meant' = Text(d, IF p = << >> THEN p ELSE Front(p))
    <3>1. top1 = top
      BY <2>1, <2>7 DEF BS
    <3>2. CASE p = << >>
      BY <2>1, <2>2, <2>7, <3>1, <3>2
    <3>3. CASE p # << >>
      <4> DEFINE q == Front(p)
      <4>1. /\ d \o q \in Seq(Int) /\ Len(d \o q) <= Len(d \o p)
            /\ \A n \in 1..Len(d \o q) : (d \o q)[n] = (d \o p)[n]
        BY <2>1, <3>3, ConcatFront
      <4> HIDE DEF q
      <4>2. Sorted(d \o q, top)
        <5>1. top \in Int
          BY <2>1
        <5>2. QED
          BY <2>1, <4>1, <5>1, SortedPrefix
      <4>3. QED
        BY <2>2, <2>7, <3>1, <3>3, <4>2 DEF q
    <3>4. QED
      BY <3>2, <3>3
  <2>8. CASE k \in {EOT, EOF} /\ p = << >> /\ meant' = Text(Append(d, EOT), p)
    <3>1. top1 = top
      BY <2>1, <2>8 DEF EOT, EOF
    <3>2. d \o p = d /\ Append(d, EOT) \o p = Append(d \o p, EOT)
      BY <2>1, <2>4, <2>8
    <3>3. QED
      BY <2>2, <2>5, <2>8, <3>1, <3>2
  <2>9. CASE k = EOF /\ p # << >> /\ meant' = Text(d \o p \o <<NL, EOT>>, << >>)
    <3>1. top1 = top
      BY <2>1, <2>9 DEF EOF
    <3>2. d \o p \o <<NL, EOT>> \o << >> = Append(Append(d \o p, NL), EOT)
      BY <2>1, <2>4, <2>5, ConcatTwo, ConcatOne
    <3>3. Sorted(Append(Append(d \o p, NL), EOT), top)
      BY <2>1, <2>4, <2>5, SortedAppend
    <3>4. QED
      BY <2>2, <2>9, <3>1, <3>2, <3>3
  <2>10. CASE (k = NL \/ (k = EOT /\ p # << >>)) /\ meant' = Text(d \o p \o <<NL>>, << >>)
    <3>1. top1 = top
      BY <2>1, <2>10 DEF NL, EOT
    <3>2. d \o p \o <<NL>> \o << >> = Append(d \o p, NL)
      BY <2>1, <2>4, <2>5, ConcatOne
    <3>3. QED
      BY <2>2, <2>5, <2>10, <3>1, <3>2
  <2>11. CASE k \in Nat /\ k > 0 /\ k = top + 1 /\ meant' = Text(d, Append(p, k))
    <3>1. top1 = top + 1 /\ k \in Int
      BY <2>1, <2>11
    <3>2. d \o Append(p, k) = Append(d \o p, k)
      BY <2>1, <3>1, ConcatAppend
    <3>3. Sorted(Append(d \o p, k), top1)
      BY <2>1, <2>11, <3>1, SortedAppend
    <3>4. QED
      BY <2>2, <2>11, <3>2, <3>3
  <2>12. QED
    BY <1>2, <2>3, <2>6, <2>7, <2>8, <2>9, <2>10, <2>11, MeantCases
<1>3. QED
  BY <1>1, <1>2, KeySteps

-----------------------------------------------------------------------------
(* What has left the source, where nothing comes early: of a text, its     *)
(* first characters and then line feeds.                                   *)
OfText(n) == IF n <= opt.text THEN n ELSE NL
TextInv ==
  opt.ahead = 0 /\ opt.source = "text" =>
    /\ line = << >> /\ pc # "line"
    /\ \A n \in DOMAIN Given : Given[n] = OfText(n)
    /\ pc # "asked" => pos = IF Len(Given) < opt.text THEN Len(Given) ELSE opt.text

(* Of what is typed, all but the line buffer, which holds the rest of the  *)
(* finished lines, or the one that is being edited.  After the end of      *)
(* stdin there is one Ctrl-D to send.                                      *)
EditInv ==
  opt.ahead = 0 /\ opt.source # "text" =>
    /\ pc = "line" => /\ Given = meant.done /\ line = meant.part
                      /\ Len(line) <= LineMax - 2 /\ ~eof
    /\ pc \notin {"line", "asked"} => Given \o line = meant.done /\ meant.part = << >>
    /\ pc # "asked" /\ eof /\ ~eof_sent => line = <<EOT>>
    /\ Increasing(Given)

InputInv == MeantInv /\ TextInv /\ EditInv

LEMMA GivenType ==
  ASSUME TypeOK, AskInv, opt.ahead = 0
  PROVE  /\ Given \in Seq(Characters) /\ Given \in Seq(Int)
         /\ line \in Seq(Characters) /\ line \in Seq(Int)
<1>1. Given \in Seq(Characters) /\ line \in Seq(Characters)
  BY GivenNow DEF TypeOK
<1>2. Characters \subseteq Int
  BY CharactersAreInts DEF TypeOK
<1>3. QED
  BY <1>1, <1>2, SeqMonotonic

LEMMA TextStep ==
  ASSUME TypeOK, LoadInv, OutInv, AskInv, PollInv, TextInv, Next
  PROVE  TextInv'
<1>1. opt' = opt
  BY OptStep
<1>2. SUFFICES ASSUME opt.ahead = 0, opt.source = "text"
               PROVE  /\ line' = << >> /\ pc' # "line"
                      /\ \A n \in DOMAIN Given' : Given'[n] = OfText(n)
                      /\ pc' # "asked" =>
                           pos' = IF Len(Given') < opt.text THEN Len(Given') ELSE opt.text
  BY <1>1 DEF TextInv, OfText
<1>3. /\ line = << >> /\ pc # "line"
      /\ \A n \in DOMAIN Given : Given[n] = OfText(n)
      /\ pc # "asked" => pos = IF Len(Given) < opt.text THEN Len(Given) ELSE opt.text
  BY <1>2 DEF TextInv
<1>4. /\ Given \in Seq(Characters) /\ Len(Given) \in Nat /\ DOMAIN Given = 1..Len(Given)
      /\ opt.text \in Nat
  BY <1>2, GivenType, LenProperties, OptionTypes DEF TypeOK
<1>5. ~PollText
  BY <1>2, NothingEarly DEF SendsUnasked
<1>6. CASE NextChar
  <2>1. Given' = Append(Given, ch') /\ pc = "need" /\ pc' = "send"
    BY <1>2, <1>6, GivenStep
  <2>2. /\ ch' = IF pos < opt.text THEN pos + 1 ELSE NL
        /\ pos' = IF pos < opt.text THEN pos + 1 ELSE pos
        /\ line' = line
    BY <1>2, <1>6 DEF NextChar
  <2>3. pos = IF Len(Given) < opt.text THEN Len(Given) ELSE opt.text
    BY <1>3, <2>1
  <2>4. ch' = OfText(Len(Given) + 1)
    BY <1>4, <2>2, <2>3 DEF OfText
  <2>5. /\ Len(Given') = Len(Given) + 1 /\ DOMAIN Given' = 1..Len(Given) + 1
        /\ Given'[Len(Given) + 1] = ch' /\ \A n \in 1..Len(Given) : Given'[n] = Given[n]
    <3>1. ch' \in Characters
      BY <1>1, InputTypes, OptStep
    <3>2. QED
      BY <1>4, <2>1, <3>1, AppendProperties, LenProperties
  <2>6. \A n \in 1..Len(Given) + 1 : n \in 1..Len(Given) \/ n = Len(Given) + 1
    BY <1>4
  <2>7. \A n \in DOMAIN Given' : Given'[n] = OfText(n)
    BY <1>3, <1>4, <2>4, <2>5, <2>6
  <2>8. pos' = IF Len(Given') < opt.text THEN Len(Given') ELSE opt.text
    BY <1>4, <2>2, <2>3, <2>5
  <2>9. QED
    BY <1>3, <2>1, <2>2, <2>7, <2>8
<1>7. CASE Signal
  <2>1. pc' = "asked" /\ line' = line
    BY <1>7 DEF Signal, srcVars
  <2>2. \/ Given' = Given
        \/ Given' \in Seq(Characters) /\ \E c \in Characters : Given = Append(Given', c)
    BY <1>2, <1>7, GivenStep
  <2>3. CASE Given' \in Seq(Characters) /\ \E c \in Characters : Given = Append(Given', c)
    <3>1. PICK c \in Characters : Given = Append(Given', c)
      BY <2>3
    <3>2. Given' \in Seq(Characters)
      BY <2>3
    <3>3. \A n \in DOMAIN Given' : n \in DOMAIN Given /\ Given'[n] = Given[n]
      BY <1>4, <3>1, <3>2, AppendProperties, LenProperties
    <3>4. QED
      BY <1>3, <2>1, <3>3
  <2>4. QED
    BY <1>3, <2>1, <2>2, <2>3
<1>8. CASE ~NextChar /\ ~Signal
  <2>1. Given' = Given
    BY <1>2, <1>8, GivenStep
  <2>2. line' = line /\ pc' # "line" /\ pos' = pos /\ (pc' = "asked" \/ pc # "asked")
    BY <1>2, <1>3, <1>5, <1>8
       DEF Next, Host, User, Chip, CpuCall, Open, DrainRead, SendInit, SendWords, SendStart,
           LoopTop, QuietTry, ReadWord, Refill, SendChar, PollNothing, Type, TypeInterrupt, PollKey,
           Begin, PutChar, Ask, Discard, GetChar, srcVars, Ends
  <2>3. QED
    BY <1>3, <2>1, <2>2
<1>9. QED
  BY <1>6, <1>7, <1>8

(* A prefix of a sorted text is in order.                                  *)
LEMMA SortedFirst ==
  ASSUME NEW s \in Seq(Int), NEW t \in Seq(Int), NEW top \in Int, Sorted(s \o t, top)
  PROVE  Increasing(s)
<1>1. /\ s \o t \in Seq(Int) /\ Len(s) <= Len(s \o t)
      /\ \A n \in 1..Len(s) : s[n] = (s \o t)[n]
  BY LenProperties, ConcatProperties
<1>2. Sorted(s, top)
  BY <1>1, SortedPrefix
<1>3. QED
  BY <1>2 DEF Sorted

LEMMA ConcatHead ==
  ASSUME NEW s \in Seq(Int), NEW t \in Seq(Int), t # << >>
  PROVE  Append(s, Head(t)) \o Tail(t) = s \o t
<1> DEFINE len == Len(s)
           u == Append(s, Head(t))
<1>1. /\ Head(t) \in Int /\ Head(t) = t[1] /\ Tail(t) \in Seq(Int) /\ Len(Tail(t)) = Len(t) - 1
      /\ \A n \in 1..Len(t) - 1 : Tail(t)[n] = t[n + 1]
      /\ Len(t) \in Nat \ {0} /\ len \in Nat
  BY HeadTailProperties, LenProperties, EmptySeq, ElementOfSeq
<1>2. /\ u \in Seq(Int) /\ Len(u) = len + 1 /\ u[len + 1] = t[1]
      /\ \A n \in 1..len : u[n] = s[n]
  BY <1>1, AppendProperties
<1> HIDE DEF u
<1>3. /\ u \o Tail(t) \in Seq(Int) /\ Len(u \o Tail(t)) = len + Len(t)
      /\ s \o t \in Seq(Int) /\ Len(s \o t) = len + Len(t)
  <2>1. len + 1 + (Len(t) - 1) = len + Len(t)
    BY <1>1
  <2>2. Len(u \o Tail(t)) = Len(u) + Len(Tail(t)) /\ u \o Tail(t) \in Seq(Int)
    BY <1>1, <1>2, ConcatProperties
  <2>3. Len(s \o t) = len + Len(t) /\ s \o t \in Seq(Int)
    BY ConcatProperties
  <2>4. QED
    BY <1>1, <1>2, <2>1, <2>2, <2>3
<1>4. ASSUME NEW n \in 1..len + Len(t) PROVE (u \o Tail(t))[n] = (s \o t)[n]
  <2>1. /\ n <= len + 1 => (u \o Tail(t))[n] = u[n]
        /\ n > len + 1 => (u \o Tail(t))[n] = Tail(t)[n - (len + 1)]
    BY <1>1, <1>2, <1>4, ConcatProperties
  <2>2. /\ n <= len => (s \o t)[n] = s[n]
        /\ n > len => (s \o t)[n] = t[n - len]
    BY <1>1, <1>4, ConcatProperties
  <2>3. CASE n <= len
    BY <1>1, <1>2, <2>1, <2>2, <2>3
  <2>4. CASE n = len + 1
    <3>1. n - len = 1 /\ n > len /\ n <= len + 1
      BY <1>1, <2>4
    <3>2. QED
      BY <1>2, <2>1, <2>2, <2>4, <3>1
  <2>5. CASE n > len + 1
    <3>1. n - (len + 1) \in 1..Len(t) - 1 /\ n - (len + 1) + 1 = n - len /\ n > len
      BY <1>1, <1>4, <2>5
    <3>2. QED
      BY <1>1, <2>1, <2>2, <2>5, <3>1
  <2>6. n <= len \/ n = len + 1 \/ n > len + 1
    <3>1. n \in Int /\ len \in Int
      BY <1>1, <1>4
    <3> HIDE DEF len
    <3>2. QED
      BY <3>1
  <2>7. QED
    BY <2>3, <2>4, <2>5, <2>6, Zenon
<1>5. QED
  BY <1>3, <1>4, SeqEqual DEF u

(* A key edits the line buffer as it edits the text.                       *)
LEMMA TypeEdits ==
  ASSUME TypeOK, EditInv, opt.ahead = 0, opt.source # "text",
         "open_end" \notin Faults, "long_line" \notin Faults,
         NEW k \in Keys, Len(keys) < MaxKeys, Type(k)
  PROVE  /\ pc' = "line" => /\ meant'.done = Given /\ line' = meant'.part
                            /\ Len(line') <= LineMax - 2 /\ ~eof'
         /\ pc' # "line" => Given \o line' = meant'.done /\ meant'.part = << >>
         /\ eof' => line' = <<EOT>>
         /\ pc' # "asked"
<1> DEFINE d == meant.done
           p == meant.part
<1>1. /\ pc = "line" /\ k # ETX /\ Handled(k) /\ line' = Typed(k) /\ eof' = (k = EOF)
      /\ pc' = IF k \in {NL, EOT, EOF} THEN "need" ELSE "line"
      /\ meant' = Edit(meant, k)
  BY DEF Type, Pressed
<1>2. Given = d /\ line = p /\ Len(p) <= LineMax - 2
  BY <1>1 DEF EditInv
<1>3. d \in Seq(Int) /\ p \in Seq(Int) /\ LineMax \in Nat \ {0, 1} /\ Len(p) \in Nat
  BY TextParts, SizesAssumption, LenProperties
<1>4. /\ Text(d, p).done = d /\ \A x, y : Text(x, y).done = x /\ Text(x, y).part = y
      /\ NL \in Int /\ EOT \in Int
  BY DEF Text, NL, EOT
<1> HIDE DEF d, p
<1>e. k # EOF => ~eof'
  BY <1>1, Zenon
<1>5. \A c : Len(p) < LineMax - 1 => Stored(c) = Append(p, c)
  BY <1>2 DEF Stored
<1>6. Len(p) < LineMax - 1
  BY <1>2, <1>3
<1>7. CASE k = BS /\ meant' = Text(d, IF p = << >> THEN p ELSE Front(p))
  <2>1. pc' = "line" /\ ~eof'
    BY <1>1, <1>e, <1>7 DEF BS, NL, EOT, EOF
  <2>2. line' = IF p = << >> THEN p ELSE Front(p)
    BY <1>1, <1>2, <1>7 DEF Typed, BS, EOT, EOF
  <2>3. p # << >> => Len(Front(p)) = Len(p) - 1
    BY <1>3, FrontIs
  <2>4. Len(line') <= LineMax - 2
    BY <1>2, <1>3, <2>2, <2>3
  <2>5. QED
    BY <1>2, <1>4, <1>7, <2>1, <2>2, <2>4
<1>8. CASE k \in {EOT, EOF} /\ p = << >> /\ meant' = Text(Append(d, EOT), p)
  <2>1. pc' = "need" /\ line' = <<EOT>>
    BY <1>1, <1>2, <1>8 DEF Typed
  <2>2. d \o <<EOT>> = Append(d, EOT)
    BY <1>3, <1>4, ConcatOne
  <2>3. QED
    BY <1>2, <1>4, <1>8, <2>1, <2>2
<1>9. CASE k = EOF /\ p # << >>
  BY <1>1, <1>2, <1>9 DEF Handled
<1>10. CASE (k = NL \/ (k = EOT /\ p # << >>)) /\ meant' = Text(d \o p \o <<NL>>, << >>)
  <2>1. pc' = "need" /\ ~eof'
    BY <1>1, <1>e, <1>10 DEF NL, EOT, EOF
  <2>2. line' = Append(p, NL)
    BY <1>1, <1>2, <1>5, <1>6, <1>10 DEF Typed, NL, EOT, EOF, BS
  <2>3. d \o p \in Seq(Int)
    BY <1>3, ConcatProperties
  <2>4. d \o p \o <<NL>> = Append(d \o p, NL)
    BY <1>4, <2>3, ConcatOne
  <2>5. d \o Append(p, NL) = Append(d \o p, NL)
    BY <1>3, <1>4, ConcatAppend
  <2>6. QED
    BY <1>2, <1>4, <1>10, <2>1, <2>2, <2>4, <2>5
<1>11. CASE k \in Nat /\ k > 0 /\ meant' = Text(d, Append(p, k))
  <2>1. pc' = "line" /\ ~eof'
    BY <1>1, <1>e, <1>11 DEF NL, EOT, EOF
  <2>2. line' = Append(p, k)
    BY <1>1, <1>2, <1>5, <1>6, <1>11 DEF Typed, EOT, EOF, BS
  <2>3. Len(p) < LineMax - 2
    BY <1>1, <1>2, <1>11 DEF Handled
  <2>4. Len(Append(p, k)) = Len(p) + 1
    BY <1>3, <1>11, AppendProperties
  <2>5. Len(line') <= LineMax - 2
    BY <1>3, <2>2, <2>3, <2>4
  <2>6. QED
    BY <1>2, <1>4, <1>11, <2>1, <2>2, <2>5
<1>12. QED
  <2>1. \/ k = BS /\ meant' = Text(d, IF p = << >> THEN p ELSE Front(p))
        \/ k \in {EOT, EOF} /\ p = << >> /\ meant' = Text(Append(d, EOT), p)
        \/ k = EOF /\ p # << >>
        \/ (k = NL \/ (k = EOT /\ p # << >>)) /\ meant' = Text(d \o p \o <<NL>>, << >>)
        \/ k \in Nat /\ k > 0 /\ meant' = Text(d, Append(p, k))
    BY <1>1, MeantCases DEF d, p
  <2>2. QED
    BY <1>7, <1>8, <1>9, <1>10, <1>11, <2>1

(* What the next state holds of the text.                                  *)
LEMMA NextTexts ==
  ASSUME TypeOK, LoadInv, OutInv, AskInv, PollInv, MeantInv, opt.ahead = 0, Next
  PROVE  /\ Given' \in Seq(Int) /\ line' \in Seq(Int)
         /\ meant'.done \in Seq(Int) /\ meant'.part \in Seq(Int)
         /\ \E top \in Int : Sorted(meant'.done \o meant'.part, top)
<1>1. opt \in Sessions /\ Characters' = Characters /\ TypeOK' /\ MeantInv'
  BY OptStep, TypeStep, MeantStep DEF TypeOK
<1>2. \A s \in Seq(Characters) : s \in Seq(Int)
  BY <1>1, CharactersAreInts, SeqMonotonic
<1>3. /\ line' \in Seq(Characters) /\ ch' \in Characters
      /\ meant'.done \in Seq(Characters) /\ meant'.part \in Seq(Characters)
  BY <1>1 DEF TypeOK
<1>4. Given' \in Seq(Characters)
  <2>1. Given \in Seq(Characters)
    BY GivenType
  <2>2. Append(Given, ch') \in Seq(Characters)
    BY <1>3, <2>1, AppendProperties
  <2>3. Given' = Given \/ Given' = Append(Given, ch') \/ Given' \in Seq(Characters)
    BY GivenStep
  <2>4. QED
    BY <2>1, <2>2, <2>3
<1>5. \E top \in Int : Sorted(meant'.done \o meant'.part, top)
  <2>1. Cardinality(Printable') \in Int
    <3>1. IsFiniteSet(Printable')
      <4>1. keys' \in Seq((Characters \cup {ETX, EOF})')
        BY InputTypes
      <4>2. DOMAIN keys' = 1..Len(keys') /\ Len(keys') \in Nat
        BY <4>1, LenProperties
      <4>3. Printable' \subseteq 1..Len(keys') /\ IsFiniteSet(1..Len(keys'))
        BY <4>2, FS_Interval DEF Printable
      <4>4. QED
        BY <4>3, FS_Subset
    <3>2. QED
      BY <3>1, FS_CardinalityType
  <2>2. Sorted(meant'.done \o meant'.part, Cardinality(Printable'))
    BY <1>1 DEF MeantInv, Meant, Sorted, Increasing
  <2>3. QED
    BY <2>1, <2>2
<1>6. QED
  BY <1>2, <1>3, <1>4, <1>5

LEMMA EditStep ==
  ASSUME TypeOK, LoadInv, OutInv, AskInv, PollInv, MeantInv, EditInv, Next,
         "open_end" \notin Faults, "long_line" \notin Faults
  PROVE  EditInv'
<1>1. opt' = opt
  BY OptStep
<1>2. SUFFICES ASSUME opt.ahead = 0, opt.source # "text"
      PROVE  /\ pc' = "line" => /\ Given' = meant'.done /\ line' = meant'.part
                                /\ Len(line') <= LineMax - 2 /\ ~eof'
             /\ pc' \notin {"line", "asked"} =>
                  Given' \o line' = meant'.done /\ meant'.part = << >>
             /\ pc' # "asked" /\ eof' /\ ~eof_sent' => line' = <<EOT>>
             /\ Increasing(Given')
  BY <1>1 DEF EditInv, Increasing
<1>3. /\ pc = "line" => /\ Given = meant.done /\ line = meant.part
                        /\ Len(line) <= LineMax - 2 /\ ~eof
      /\ pc \notin {"line", "asked"} => Given \o line = meant.done /\ meant.part = << >>
      /\ pc # "asked" /\ eof /\ ~eof_sent => line = <<EOT>>
      /\ Increasing(Given)
  BY <1>2 DEF EditInv
<1>4. /\ Given \in Seq(Int) /\ line \in Seq(Int)
      /\ Given' \in Seq(Int) /\ line' \in Seq(Int)
      /\ meant'.done \in Seq(Int) /\ meant'.part \in Seq(Int)
      /\ \E top \in Int : Sorted(meant'.done \o meant'.part, top)
  BY <1>2, GivenType, NextTexts
<1>5. /\ ~NextChar /\ ~Signal => Given' = Given
      /\ NextChar => Given' = Append(Given, ch') /\ pc = "need" /\ pc' = "send"
      /\ Signal => Given' = Given \/ \E c \in Characters : Given = Append(Given', c)
  BY <1>2, GivenStep
<1>6. ~PollText /\ ~\E k \in Keys : Len(keys) < MaxKeys /\ PollKey(k)
  BY <1>2, NothingEarly DEF SendsUnasked
<1>7. \/ Given' = meant'.done
      \/ Given' \o line' = meant'.done /\ meant'.part = << >>
      => Increasing(Given')
  <2>1. PICK top \in Int : Sorted(meant'.done \o meant'.part, top)
    BY <1>4
  <2>2. CASE Given' = meant'.done
    <3>1. Sorted(Given' \o meant'.part, top)
      BY <2>1, <2>2
    <3>2. QED
      BY <1>4, <3>1, SortedFirst
  <2>3. CASE Given' \o line' = meant'.done /\ meant'.part = << >>
    <3>1. Given' \o line' \in Seq(Int)
      BY <1>4, <2>3
    <3>2. (Given' \o line') \o << >> = Given' \o line'
      BY <3>1, ConcatEmptySeq
    <3>3. Sorted(Given' \o line', top)
      BY <2>1, <2>3, <3>2
    <3>4. QED
      BY <1>4, <3>3, SortedFirst
  <2>4. QED
    BY <2>2, <2>3
<1>8. CASE NextChar
  <2>1. /\ pc = "need" /\ pc' = "send" /\ line # << >> /\ ch' = Head(line) /\ line' = Tail(line)
        /\ eof_sent' = (eof_sent \/ Head(line) = EOT)
        /\ UNCHANGED <<eof, meant>>
    BY <1>2, <1>8 DEF NextChar
  <2>2. Given' \o line' = Given \o line
    BY <1>4, <1>5, <1>8, <2>1, ConcatHead
  <2>3. Given' \o line' = meant'.done /\ meant'.part = << >>
    BY <1>3, <2>1, <2>2
  <2>4. line = <<EOT>> => Head(line) = EOT
    OBVIOUS
  <2>5. ~(eof' /\ ~eof_sent')
    BY <1>3, <2>1, <2>4
  <2>6. QED
    BY <1>7, <2>1, <2>3, <2>5
<1>9. CASE Refill
  <2>1. /\ pc = "need" /\ line = << >> /\ UNCHANGED <<eof, eof_sent, meant>> /\ Given' = Given
        /\ pc' = IF ~eof THEN "line" ELSE IF eof_sent THEN "top" ELSE "need"
        /\ line' = IF eof /\ ~eof_sent THEN <<EOT>> ELSE << >>
    BY <1>2, <1>5, <1>9 DEF Refill, Exhausted, NextChar, Signal
  <2>2. ~(eof /\ ~eof_sent)
    <3>1. << >> # <<EOT>>
      OBVIOUS
    <3>2. QED
      BY <1>3, <2>1, <3>1
  <2>3. Given \o line = Given
    BY <1>4, <2>1, ConcatEmptySeq
  <2>4. Given' = meant'.done /\ meant'.part = << >> /\ line' = << >> /\ Given' \o line' = Given'
    BY <1>3, <2>1, <2>2, <2>3
  <2>5. Len(<< >>) <= LineMax - 2
    BY SizesAssumption
  <2>6. CASE ~eof
    BY <1>7, <2>1, <2>4, <2>5, <2>6
  <2>7. CASE eof
    BY <1>7, <2>1, <2>2, <2>4, <2>7
  <2>8. QED
    BY <2>6, <2>7
<1>10. CASE Signal \/ TypeInterrupt
  <2>1. pc' = "asked"
    BY <1>10 DEF Signal, TypeInterrupt
  <2>2. Increasing(Given')
    <3>1. CASE Given' = Given
      BY <1>3, <3>1 DEF Increasing
    <3>2. ASSUME NEW c \in Characters, Given = Append(Given', c) PROVE Increasing(Given')
      <4>1. /\ DOMAIN Given' = 1..Len(Given') /\ Len(Given') \in Nat
            /\ DOMAIN Given = 1..Len(Given') + 1
            /\ \A n \in 1..Len(Given') : Given[n] = Given'[n]
        <5>1. c \in Int
          BY <3>2, CharactersAreInts DEF TypeOK
        <5>2. QED
          BY <1>4, <3>2, <5>1, AppendProperties, LenProperties
      <4>2. \A n \in DOMAIN Given' : n \in DOMAIN Given /\ Given'[n] = Given[n]
        BY <4>1
      <4>3. QED
        BY <1>3, <4>2 DEF Increasing
    <3>3. Given' = Given \/ \E c \in Characters : Given = Append(Given', c)
      BY <1>5, <1>10 DEF NextChar, TypeInterrupt
    <3>4. QED
      BY <3>1, <3>2, <3>3
  <2>3. QED
    BY <2>1, <2>2
<1>11. ASSUME NEW k \in Keys, Len(keys) < MaxKeys, Type(k)
       PROVE  /\ pc' = "line" => /\ Given' = meant'.done /\ line' = meant'.part
                                 /\ Len(line') <= LineMax - 2 /\ ~eof'
              /\ pc' \notin {"line", "asked"} =>
                   Given' \o line' = meant'.done /\ meant'.part = << >>
              /\ pc' # "asked" /\ eof' /\ ~eof_sent' => line' = <<EOT>>
              /\ Increasing(Given')
  <2>1. /\ pc' = "line" => /\ meant'.done = Given /\ line' = meant'.part
                           /\ Len(line') <= LineMax - 2 /\ ~eof'
        /\ pc' # "line" => Given \o line' = meant'.done /\ meant'.part = << >>
        /\ eof' => line' = <<EOT>>
        /\ pc' # "asked"
    BY <1>2, <1>11, TypeEdits
  <2>2. Given' = Given
    <3>1. pc = "line" /\ pc' # "asked"
      BY <1>11 DEF Type
    <3>2. QED
      BY <1>5, <3>1 DEF NextChar, Signal
  <2>3. QED
    BY <1>7, <2>1, <2>2
<1>12. CASE ~NextChar /\ ~Refill /\ ~Signal /\ ~TypeInterrupt
            /\ ~\E k \in Keys : Len(keys) < MaxKeys /\ Type(k)
  <2>1. Given' = Given
    BY <1>5, <1>12
  <2>2. /\ UNCHANGED <<line, eof, eof_sent, meant>>
        /\ pc' = pc \/ (pc \notin {"line", "asked"} /\ pc' \notin {"line", "asked"})
    BY <1>6, <1>12
       DEF Next, Host, User, Chip, CpuCall, Open, DrainRead, SendInit, SendWords, SendStart,
           LoopTop, QuietTry, ReadWord, SendChar, PollNothing,
           Begin, PutChar, Ask, Discard, GetChar, srcVars, Ends
  <2>3. Increasing(Given')
    BY <1>3, <2>1 DEF Increasing
  <2>4. QED
    BY <1>3, <2>1, <2>2, <2>3
<1>13. QED
  BY <1>8, <1>9, <1>10, <1>11, <1>12

LEMMA InputInit == Init => InputInv
<1> SUFFICES ASSUME Init PROVE InputInv
  OBVIOUS
<1>1. /\ fifo = << >> /\ mail = << >> /\ received = << >> /\ keys = << >> /\ line = << >>
      /\ pc = "open" /\ pos = 0 /\ eof = FALSE /\ meant = Text(<< >>, << >>)
      /\ opt.text \in Nat
  BY OptionTypes DEF Init, LinkInit
<1>2. Characterwise(mail \o fifo) = << >>
  <2>1. << >> \o << >> = << >> /\ << >> \in Seq(Packets)
    OBVIOUS
  <2>2. None(<< >>, << >>)
    BY DEF None
  <2>3. QED
    BY <1>1, <2>1, <2>2, CharsOf
<1>3. Given = << >> /\ Len(<< >>) = 0 /\ DOMAIN << >> = {}
  <2>1. InFlight = << >> \o << >>
    BY <1>1, <1>2 DEF InFlight
  <2>2. << >> \o << >> = << >>
    OBVIOUS
  <2>3. QED
    BY <1>1, <2>1, <2>2 DEF Given
<1>4. Meant = << >>
  BY <1>1 DEF Meant, Text
<1>5. MeantInv
  BY <1>3, <1>4 DEF MeantInv, Sorted, Increasing
<1>6. TextInv
  BY <1>1, <1>3 DEF TextInv
<1>7. EditInv
  <2>1. meant.done = << >> /\ meant.part = << >> /\ << >> \o << >> = << >>
    BY <1>1 DEF Text
  <2>2. QED
    BY <1>1, <1>3, <2>1 DEF EditInv, Increasing
<1>8. QED
  BY <1>5, <1>6, <1>7 DEF InputInv

LEMMA InputStutter ==
  ASSUME UNCHANGED vars
  PROVE  InputInv' = InputInv
<1>1. UNCHANGED <<fifo, mail, opt, pc, ch, pos, line, eof, eof_sent, keys, meant, received>>
  BY DEF vars, linkVars, srcVars, cpuVars
<1>2. UNCHANGED <<Given, Meant, Printable>>
  BY <1>1 DEF Given, InFlight, Meant, Printable
<1>3. MeantInv' = MeantInv /\ TextInv' = TextInv
  BY <1>1, <1>2 DEF MeantInv, Sorted, Increasing, TextInv, OfText
<1>4. EditInv' = EditInv
  BY <1>1, <1>2 DEF EditInv, Increasing
<1>5. QED
  BY <1>3, <1>4 DEF InputInv

(* IN, where the program asks before the input is there: what it got, what *)
(* is on its way and what the line buffer still holds are the text, or     *)
(* what the keys mean with their editing, and nothing comes twice or out   *)
(* of order -- for every text, every way to type, to ask, to interrupt and *)
(* to interleave, even where a word of OUT is lost.  Left out are an end   *)
(* of stdin in the middle of a line and a line longer than the buffer.     *)
THEOREM InputInOrderAlways ==
  ASSUME "open_end" \notin Faults, "long_line" \notin Faults
  PROVE  Spec => [](opt.ahead = 0 => InputInOrder)
<1> DEFINE Inv == Correct /\ AskInv /\ InputInv
<1>1. Init => Inv
  BY InitTypes, InitInv, InputInit DEF Correct
<1>2. Inv /\ [Next]_vars => Inv'
  <2>1. ASSUME Inv, Next PROVE Inv'
    <3>1. TypeOK /\ LoadInv /\ OutInv /\ PollInv /\ opt \in Sessions /\ i \in Nat
      BY <2>1, OptionTypes DEF Correct, TypeOK
    <3>2. Correct'
      BY <2>1, <3>1, TypeStep, LoadStep, OutStep, PollStep DEF Correct
    <3>3. AskInv'
      BY <2>1, <3>1, AskStep
    <3>4. InputInv'
      BY <2>1, <3>1, MeantStep, TextStep, EditStep DEF InputInv
    <3>5. QED
      BY <3>2, <3>3, <3>4
  <2>2. ASSUME Inv, UNCHANGED vars PROVE Inv'
    BY <2>2, Stutter, InputStutter DEF Correct
  <2>3. QED
    BY <2>1, <2>2
<1>3. Inv => (opt.ahead = 0 => InputInOrder)
  <2>1. SUFFICES ASSUME Inv, opt.ahead = 0
                 PROVE  /\ Increasing(Given)
                        /\ pc # "asked" => Delivered(Given)
    BY DEF InputInOrder, Given
  <2>2. TypeOK /\ Given \in Seq(Int) /\ line \in Seq(Int) /\ opt.text \in Nat
    BY <2>1, GivenType, OptionTypes DEF Correct, TypeOK
  <2>3. CASE opt.source = "text"
    <3>1. \A n \in DOMAIN Given : Given[n] = OfText(n)
      BY <2>1, <2>3 DEF InputInv, TextInv
    <3>2. DOMAIN Given = 1..Len(Given) /\ Len(Given) \in Nat
      BY <2>2, LenProperties
    <3>3. Increasing(Given)
      BY <2>2, <3>1, <3>2 DEF Increasing, OfText, NL
    <3>4. Given = [n \in DOMAIN Given |-> IF n <= opt.text THEN n ELSE NL]
      <4>1. Given = [n \in DOMAIN Given |-> Given[n]]
        BY <2>2
      <4>2. [n \in DOMAIN Given |-> Given[n]] = [n \in DOMAIN Given |-> OfText(n)]
        BY <3>1, Zenon
      <4>3. QED
        BY <4>1, <4>2 DEF OfText
    <3>5. QED
      BY <2>3, <3>3, <3>4 DEF Delivered
  <2>4. CASE opt.source # "text"
    <3>1. /\ Increasing(Given)
          /\ pc = "line" => Given = meant.done /\ line = meant.part
          /\ pc \notin {"line", "asked"} => Given \o line = meant.done /\ meant.part = << >>
      BY <2>1, <2>4 DEF InputInv, EditInv
    <3>2. (Given \o line) \o << >> = Given \o line
      BY <2>2, ConcatProperties, ConcatEmptySeq
    <3>3. pc # "asked" => Given \o line = Meant
      BY <3>1, <3>2 DEF Meant
    <3>4. QED
      BY <2>4, <3>1, <3>3 DEF Delivered
  <2>5. QED
    BY <2>3, <2>4
<1>4. QED
  BY <1>1, <1>2, <1>3, PTL DEF Spec

-----------------------------------------------------------------------------
(* How the host leaves.  A step changes the characters in the chip only as *)
(* one is sent or taken; while there is one, the program waits for it.     *)
LEMMA CharsStep ==
  ASSUME TypeOK, LoadInv, OutInv, AskInv, PollInv, opt.ahead = 0, Next
  PROVE  /\ SendChar => Chars' = <<ch>>
         /\ GetChar => Chars = <<mail[1].ch>> /\ Chars' = << >>
         /\ ~SendChar /\ ~GetChar => Chars' = Chars
<1>1. /\ LinkTypes' /\ OneInput /\ Packets' = Packets
  BY LinkTypesStep, OptStep DEF AskInv
<1>2. CASE SendChar
  <2>1. ~GetChar
    BY <1>2 DEF SendChar, GetChar
  <2>2. QED
    BY <1>1, <1>2, <2>1, SendChars
<1>3. CASE GetChar
  <2>1. ~SendChar
    BY <1>3 DEF SendChar, GetChar
  <2>2. QED
    BY <1>1, <1>3, <2>1, GetChars
<1>4. CASE QuietTry \/ ReadWord
  BY <1>1, <1>2, <1>3, <1>4, TryLink, CharsKept
<1>5. CASE Chip
  <2>1. Dispatch
    BY <1>5 DEF Chip
  <2>2. QED
    BY <1>1, <1>2, <1>3, <2>1, CharsKept
<1>6. CASE Discard
  <2>1. mail # << >> /\ mail[1].op # "IN" /\ mail' = << >> /\ fifo' = fifo
    BY <1>6 DEF Discard, AckMail
  <2>2. QED
    BY <1>1, <1>2, <1>3, <2>1, CharsKept
<1>7. CASE Begin \/ PutChar \/ Ask \/ SendStart \/ Quietly
  <2>1. mail' = mail /\ fifo' = fifo
    BY <1>7, QuietlyLeaves DEF Begin, PutChar, Ask, SendStart, StoreWord, linkVars
  <2>2. QED
    BY <1>1, <1>2, <1>3, <2>1, CharsKept
<1>8. QED
  BY <1>2, <1>3, <1>4, <1>5, <1>6, <1>7, ActionCases

LEMMA CharsWanted ==
  ASSUME TypeOK, AskInv, opt.ahead = 0, Chars # << >>
  PROVE  /\ cpu = "wait" /\ outbox = << >> /\ pc \notin {"need", "line", "send"}
         /\ ~(mail = << >> /\ fifo = << >>)
<1>1. fifo \in Seq(Packets) /\ (mail = << >> \/ \E p \in Packets : mail = <<p>>)
  BY LinkTypesOf DEF LinkTypes
<1>2. ~NoInput
  <2>1. NoInput => None(mail, fifo)
    BY DEF NoInput, None
  <2>2. QED
    BY <1>1, <2>1, CharsOf DEF Chars
<1>3. ~Unasked
  BY <1>2 DEF AskInv
<1>4. mail = << >> /\ fifo = << >> => NoInput
  BY DEF NoInput
<1>5. QED
  BY <1>2, <1>3, <1>4 DEF Unasked

(* The line buffer.  The end of a line is its last character: while one is *)
(* left in the buffer, what has been taken from it ends no record.  After  *)
(* the end of stdin only the Ctrl-D is in it.                              *)
Enders == {NL, EOT}
Unending(s) == \A n \in DOMAIN s : s[n] \notin Enders
LineForm ==
  opt.ahead = 0 =>
    /\ opt.source = "text" => line = << >> /\ pc # "line"
    /\ \A n \in DOMAIN line : line[n] \in Enders => n = Len(line)
    /\ pc = "line" => Unending(line)
    /\ line # << >> => Unending(Chars) /\ (pc = "send" => ch \notin Enders)
    /\ line # << >> /\ eof => line = <<EOT>> /\ pc \in {"need", "asked"}

LEMMA LineFormStep ==
  ASSUME TypeOK, LoadInv, OutInv, AskInv, PollInv, LineForm, Next
  PROVE  LineForm'
<1>1. opt' = opt
  BY OptStep
<1>2. SUFFICES ASSUME opt.ahead = 0
      PROVE  /\ opt.source = "text" => line' = << >> /\ pc' # "line"
             /\ \A n \in DOMAIN line' : line'[n] \in Enders => n = Len(line')
             /\ pc' = "line" => Unending(line')
             /\ line' # << >> => Unending(Chars') /\ (pc' = "send" => ch' \notin Enders)
             /\ line' # << >> /\ eof' => line' = <<EOT>> /\ pc' \in {"need", "asked"}
  BY <1>1 DEF LineForm, Enders, Unending
<1>3. /\ opt.source = "text" => line = << >> /\ pc # "line"
      /\ \A n \in DOMAIN line : line[n] \in Enders => n = Len(line)
      /\ pc = "line" => Unending(line)
      /\ line # << >> => Unending(Chars) /\ (pc = "send" => ch \notin Enders)
      /\ line # << >> /\ eof => line = <<EOT>> /\ pc \in {"need", "asked"}
  BY <1>2 DEF LineForm
<1>4. /\ SendChar => Chars' = <<ch>>
      /\ GetChar => Chars = <<mail[1].ch>> /\ Chars' = << >>
      /\ ~SendChar /\ ~GetChar => Chars' = Chars
      /\ pc \in {"need", "line", "send"} => Chars = << >>
      /\ Unending(<< >>)
  BY <1>2, CharsStep, CharsWanted DEF Unending
<1>5. ~PollText /\ ~\E k \in Keys : Len(keys) < MaxKeys /\ PollKey(k)
  BY <1>2, NothingEarly DEF SendsUnasked
<1>6. line \in Seq(Int) /\ Len(line) \in Nat /\ DOMAIN line = 1..Len(line)
  BY <1>2, GivenType, LenProperties
<1>7. /\ \A n \in DOMAIN <<EOT>> : n = 1 /\ Len(<<EOT>>) = 1
      /\ \A n \in DOMAIN << >> : FALSE
  OBVIOUS
<1>8. CASE NextChar
  <2>1. pc = "need" /\ pc' = "send" /\ eof' = eof
    BY <1>8 DEF NextChar
  <2>2. CASE opt.source = "text"
    <3>1. line' = line /\ line = << >>
      BY <1>3, <1>8, <2>2 DEF NextChar
    <3>2. QED
      BY <1>7, <2>1, <3>1
  <2>3. CASE opt.source # "text"
    <3>1. line # << >> /\ ch' = Head(line) /\ line' = Tail(line)
      BY <1>8, <2>3 DEF NextChar
    <3>2. /\ line' \in Seq(Int) /\ Len(line') = Len(line) - 1 /\ DOMAIN line' = 1..Len(line) - 1
          /\ \A n \in 1..Len(line) - 1 : line'[n] = line[n + 1]
          /\ ch' = line[1] /\ Len(line) >= 1
      BY <1>6, <3>1, HeadTailProperties, EmptySeq, LenProperties
    <3>3. \A n \in DOMAIN line' : line'[n] \in Enders => n = Len(line')
      <4>1. TAKE n \in DOMAIN line'
      <4>2. HAVE line'[n] \in Enders
      <4>3. n \in 1..Len(line) - 1 /\ n + 1 \in DOMAIN line /\ line[n + 1] \in Enders
        <5>1. n \in 1..Len(line) - 1
          BY <3>2
        <5>2. n + 1 \in 1..Len(line)
          BY <1>6, <5>1
        <5>3. QED
          BY <1>6, <3>2, <4>2, <5>1, <5>2
      <4>4. n + 1 = Len(line)
        BY <1>3, <4>3
      <4>5. QED
        BY <1>6, <3>2, <4>3, <4>4
    <3>4. line' # << >> => Len(line) > 1
      BY <1>6, <3>2, EmptySeq
    <3>5. line' # << >> => ch' \notin Enders
      BY <1>3, <1>6, <3>2, <3>4
    <3>6. ~(line' # << >> /\ eof')
      <4>1. line = <<EOT>> => Len(line) = 1
        OBVIOUS
      <4>2. QED
        BY <1>3, <2>1, <3>1, <3>4, <4>1
    <3>7. Chars' = << >>
      BY <1>4, <1>8, <2>1 DEF SendChar, GetChar
    <3>8. QED
      BY <1>4, <2>1, <2>3, <3>3, <3>5, <3>6, <3>7
  <2>4. QED
    BY <2>2, <2>3
<1>9. CASE Refill
  <2>1. /\ pc = "need" /\ pc' # "send" /\ eof' = eof /\ opt.source # "text"
        /\ line' = << >> \/ (line' = <<EOT>> /\ pc' = "need")
    BY <1>9 DEF Refill
  <2>2. Chars' = << >>
    BY <1>4, <1>9, <2>1 DEF SendChar, GetChar
  <2>3. CASE line' = << >>
    BY <1>4, <1>7, <2>1, <2>3
  <2>4. CASE line' = <<EOT>> /\ pc' = "need"
    BY <1>4, <1>7, <2>1, <2>2, <2>4
  <2>5. QED
    BY <2>1, <2>3, <2>4
<1>10. ASSUME NEW k \in Keys, Len(keys) < MaxKeys, Type(k)
       PROVE  /\ opt.source = "text" => line' = << >> /\ pc' # "line"
              /\ \A n \in DOMAIN line' : line'[n] \in Enders => n = Len(line')
              /\ pc' = "line" => Unending(line')
              /\ line' # << >> => Unending(Chars') /\ (pc' = "send" => ch' \notin Enders)
              /\ line' # << >> /\ eof' => line' = <<EOT>> /\ pc' \in {"need", "asked"}
  <2>1. /\ pc = "line" /\ k # ETX /\ line' = Typed(k) /\ eof' = (k = EOF)
        /\ pc' = IF k \in {NL, EOT, EOF} THEN "need" ELSE "line"
    BY <1>10 DEF Type
  <2>2. Chars' = << >> /\ pc' # "send" /\ opt.source # "text"
    BY <1>3, <1>4, <1>10, <2>1 DEF SendChar, GetChar
  <2>3. Unending(line) /\ LineMax \in Nat /\ k \in Int
    <3>1. k \in Characters \cup {ETX, EOF}
      BY <1>10, KeyTypes
    <3>2. QED
      BY <1>3, <2>1, <3>1, SizesAssumption, CharactersAreInts DEF TypeOK, ETX, EOF
  <2>4. ASSUME NEW x \in Int
        PROVE  /\ \A n \in DOMAIN Stored(x) : Stored(x)[n] \in Enders => n = Len(Stored(x))
               /\ x \notin Enders => Unending(Stored(x))
    <3>1. CASE Stored(x) = line
      BY <2>3, <3>1 DEF Unending
    <3>2. CASE Stored(x) = Append(line, x)
      <4>1. /\ Len(Append(line, x)) = Len(line) + 1 /\ DOMAIN Append(line, x) = 1..Len(line) + 1
            /\ Append(line, x)[Len(line) + 1] = x
            /\ \A n \in 1..Len(line) : Append(line, x)[n] = line[n]
        BY <1>6, <2>4, AppendProperties, LenProperties
      <4>2. \A n \in 1..Len(line) + 1 : n \in 1..Len(line) \/ n = Len(line) + 1
        BY <1>6
      <4>3. QED
        BY <1>6, <2>3, <3>2, <4>1, <4>2 DEF Unending
    <3>3. QED
      BY <3>1, <3>2 DEF Stored
  <2>5. CASE k = EOF \/ (k = EOT /\ line = << >>)
    <3>1. line' = <<EOT>> /\ pc' = "need"
      BY <2>1, <2>5 DEF Typed
    <3>2. QED
      BY <1>4, <1>7, <2>2, <3>1
  <2>6. ~(k = EOF \/ (k = EOT /\ line = << >>)) => k # EOF /\ ~eof'
    BY <2>1, Zenon
  <2>7. CASE k = BS
    <3>1. line' = (IF line = << >> THEN line ELSE Front(line)) /\ ~eof'
      BY <2>1, <2>6, <2>7 DEF Typed, BS, EOF, EOT
    <3>2. Unending(line')
      <4>1. CASE line = << >>
        BY <2>3, <3>1, <4>1
      <4>2. CASE line # << >>
        <5>1. /\ Front(line) \in Seq(Int) /\ Len(Front(line)) = Len(line) - 1
              /\ \A n \in 1..Len(line) - 1 : Front(line)[n] = line[n]
          BY <1>6, <4>2, FrontIs
        <5>2. DOMAIN Front(line) = 1..Len(line) - 1
          BY <5>1, LenProperties
        <5>3. \A n \in DOMAIN Front(line) : n \in DOMAIN line /\ Front(line)[n] = line[n]
          BY <1>6, <5>1, <5>2
        <5>4. QED
          BY <2>3, <3>1, <4>2, <5>3 DEF Unending
      <4>3. QED
        BY <4>1, <4>2
    <3>3. QED
      BY <1>4, <2>2, <3>1, <3>2 DEF Unending
  <2>8. CASE k = EOT /\ line # << >>
    <3>1. line' = Stored(NL) /\ pc' = "need" /\ ~eof' /\ NL \in Int
      BY <2>1, <2>6, <2>8 DEF Typed, BS, EOF, EOT, NL
    <3>2. QED
      BY <1>4, <2>2, <2>4, <3>1
  <2>9. CASE k \notin {EOF, EOT, BS}
    <3>1. line' = Stored(k) /\ ~eof' /\ (pc' = "line" => k \notin Enders)
      BY <2>1, <2>6, <2>9 DEF Typed, Enders
    <3>2. QED
      BY <1>4, <2>2, <2>3, <2>4, <3>1
  <2>10. QED
    BY <2>5, <2>7, <2>8, <2>9
<1>11. CASE SendChar
  <2>1. pc = "send" /\ pc' = "top" /\ UNCHANGED <<line, eof, ch>>
    BY <1>11 DEF SendChar, srcVars
  <2>2. Chars' = <<ch>> /\ (ch \notin Enders => Unending(<<ch>>))
    BY <1>4, <1>11 DEF Unending
  <2>3. QED
    BY <1>3, <2>1, <2>2
<1>12. CASE Signal \/ TypeInterrupt
  <2>1. pc' = "asked" /\ UNCHANGED <<line, eof>>
    BY <1>12 DEF Signal, TypeInterrupt, srcVars
  <2>2. Chars' = Chars
    BY <1>4, <1>12, <2>1 DEF Signal, TypeInterrupt, SendChar, GetChar, Ended, Ends
  <2>3. QED
    BY <1>3, <2>1, <2>2
<1>13. CASE ~NextChar /\ ~Refill /\ ~Signal /\ ~TypeInterrupt /\ ~SendChar
            /\ ~\E k \in Keys : Len(keys) < MaxKeys /\ Type(k)
  <2>1. /\ UNCHANGED <<line, eof, ch>>
        /\ pc' = pc \/ (pc \notin {"need", "line", "asked", "send"} /\ pc' \notin {"line", "send"})
    BY <1>5, <1>13
       DEF Next, Host, User, Chip, CpuCall, Open, DrainRead, SendInit, SendWords, SendStart,
           LoopTop, QuietTry, ReadWord, PollNothing,
           Begin, PutChar, Ask, Discard, GetChar, srcVars, Ends
  <2>2. Chars' = Chars \/ Chars' = << >>
    BY <1>4, <1>13
  <2>3. QED
    BY <1>3, <1>4, <2>1, <2>2
<1>14. QED
  BY <1>8, <1>9, <1>10, <1>11, <1>12, <1>13

(* The deadline.  A host that listens with something left in the buffer    *)
(* has just sent a character or a word came: the next request is on its    *)
(* way and comes before the first try fails.  Without a request and with   *)
(* nothing sent, an IN waits only after the end of stdin.                  *)
Listening == pc \in {"top", "read", "poll", "idle"}
Asking    == Chars # << >> \/ cpu = "ask" \/ outbox = <<Request>>
LeavesInv ==
  opt.ahead = 0 =>
    /\ cpu = "off" => line = << >>
    /\ cpu = "wait" /\ outbox # << >> => outbox = <<Request>>
    /\ Listening /\ line # << >> =>
         pc \in {"top", "read"} /\ (pc = "read" => tries = 0) /\ left > 0 /\ Asking
    /\ pc \in {"need", "line", "send"} /\ opt.prog = "loader" => left > 0
    /\ Listening /\ cpu = "wait" /\ outbox = << >> /\ Chars = << >> => eof /\ eof_sent

LEMMA LimitBefore ==
  ASSUME TypeOK
  PROVE  /\ (~eof => Limit(eof) > 0) /\ left \in Nat
         /\ (opt.prog = "loader" => Limit(eof) > 0)
         /\ opt.prog \in {"loader", "run"}
<1>1. opt \in Sessions /\ left \in Nat
  BY DEF TypeOK
<1>2. opt.idle \in Nat \ {0} /\ opt.prog \in {"loader", "run"}
  BY <1>1, OptionTypes
<1>3. QED
  BY <1>1, <1>2 DEF Limit

LEMMA LeavesStep ==
  ASSUME TypeOK, LoadInv, OutInv, AskInv, PollInv, LastTryInv, LineForm, LeavesInv, Next,
         "slow_loader" \notin Faults
  PROVE  LeavesInv'
<1> DEFINE Goal == /\ cpu' = "off" => line' = << >>
                   /\ cpu' = "wait" /\ outbox' # << >> => outbox' = <<Request>>
                   /\ Listening' /\ line' # << >> =>
                        /\ pc' \in {"top", "read"} /\ (pc' = "read" => tries' = 0)
                        /\ left' > 0 /\ Asking'
                   /\ pc' \in {"need", "line", "send"} /\ opt.prog = "loader" => left' > 0
                   /\ Listening' /\ cpu' = "wait" /\ outbox' = << >> /\ Chars' = << >> =>
                        eof' /\ eof_sent'
<1>1. opt' = opt
  BY OptStep
<1>2. SUFFICES ASSUME opt.ahead = 0 PROVE Goal
  BY <1>1 DEF LeavesInv
<1>3. /\ cpu = "off" => line = << >>
      /\ cpu = "wait" /\ outbox # << >> => outbox = <<Request>>
      /\ Listening /\ line # << >> =>
           pc \in {"top", "read"} /\ (pc = "read" => tries = 0) /\ left > 0 /\ Asking
      /\ pc \in {"need", "line", "send"} /\ opt.prog = "loader" => left > 0
      /\ Listening /\ cpu = "wait" /\ outbox = << >> /\ Chars = << >> => eof /\ eof_sent
  BY <1>2 DEF LeavesInv
<1>4. /\ SendChar => Chars' = <<ch>>
      /\ GetChar => Chars = <<mail[1].ch>> /\ Chars' = << >>
      /\ ~SendChar /\ ~GetChar => Chars' = Chars
      /\ Chars # << >> => /\ cpu = "wait" /\ outbox = << >> /\ pc \notin {"need", "line", "send"}
                          /\ ~(mail = << >> /\ fifo = << >>)
  BY <1>2, CharsStep, CharsWanted
<1>5. /\ pc \in {"need", "line", "send"} => cpu = "wait" /\ outbox = << >>
      /\ outbox = <<Request>> => cpu = "wait"
  BY <1>2 DEF AskInv
<1>6. /\ (~eof => Limit(eof) > 0) /\ left \in Nat /\ (opt.prog = "loader" => Limit(eof) > 0)
      /\ opt.prog \in {"loader", "run"} /\ eof \in BOOLEAN
  <2>1. eof \in BOOLEAN
    BY DEF TypeOK
  <2>2. QED
    BY <2>1, LimitBefore
<1>7. << >> # <<Request>> /\ <<ch>> # << >>
  OBVIOUS
<1>8. line # << >> /\ eof => pc \in {"need", "asked"}
  BY <1>2 DEF LineForm
<1>9. ~PollText /\ ~\E k \in Keys : Len(keys) < MaxKeys /\ PollKey(k)
  BY <1>2, NothingEarly DEF SendsUnasked
<1>10. Asking => cpu \in {"wait", "ask"}
  BY <1>4, <1>5 DEF Asking
<1> HIDE DEF Goal
<1>11. CASE QuietTry
  <2>1. /\ pc = "read" /\ ~Prompt /\ ~Returns(tries) /\ pc' \in {"read", "poll", "top"}
        /\ UNCHANGED <<line, eof, eof_sent>>
    BY <1>11 DEF QuietTry, srcVars
  <2>2. outbox' = << >> /\ cpu' = cpu /\ Chars' = Chars
    BY <1>4, <1>11, <2>1, TryLink DEF SendChar, GetChar, QuietTry
  <2>3. outbox = << >>
    <3>1. tries \in 0..Retries - 1 /\ Retries \in Nat \ {0, 1}
      BY LinkAssumption DEF TypeOK
    <3>2. QED
      BY <2>1, <3>1 DEF Returns, LastTryInv, GivesUp
  <2>4. line = << >>
    <3>1. cpu # "ask"
      BY <2>1, <2>3 DEF Prompt, MayStore
    <3>2. Chars = << >>
      BY <1>4, <2>1 DEF Prompt, Settled
    <3>3. QED
      BY <1>3, <1>7, <2>1, <2>3, <3>1, <3>2 DEF Listening, Asking
  <2>5. QED
    BY <1>3, <2>1, <2>2, <2>3, <2>4 DEF Goal, Listening
<1>12. CASE ReadWord
  <2>1. /\ pc = "read" /\ outbox # << >> /\ left' = Limit(eof) /\ tries' = 0
        /\ IF outbox[1] = Request THEN pc' = "need" ELSE pc' = "top"
        /\ UNCHANGED <<line, eof, eof_sent>>
    BY <1>12 DEF ReadWord, Returns, srcVars
  <2>2. outbox' = << >> /\ cpu' = cpu /\ Chars' = Chars /\ Chars = << >>
    BY <1>4, <1>12, <2>1, TryLink DEF SendChar, GetChar, ReadWord
  <2>3. CASE outbox[1] = Request
    BY <1>3, <1>6, <2>1, <2>2, <2>3 DEF Goal, Listening
  <2>4. CASE outbox[1] # Request
    <3>1. outbox # <<Request>>
      BY <2>4
    <3>2. cpu # "wait" /\ pc' = "top"
      BY <1>3, <2>1, <2>4, <3>1
    <3>3. line # << >> => cpu = "ask" /\ left' > 0
      BY <1>3, <1>6, <1>8, <2>1, <2>2, <3>1 DEF Listening, Asking
    <3>4. QED
      BY <1>3, <2>1, <2>2, <3>2, <3>3 DEF Goal, Listening, Asking
  <2>5. QED
    BY <2>3, <2>4
<1>13. CASE LoopTop
  <2>1. /\ pc = "top" /\ left' = Deadline /\ pc' = (IF Deadline = 0 THEN "idle" ELSE "read")
        /\ tries' = 0 /\ UNCHANGED <<line, eof, eof_sent, cpu, outbox>>
    BY <1>13 DEF LoopTop, srcVars, cpuVars, linkVars
  <2>2. Chars' = Chars
    BY <1>4, <1>13, <2>1 DEF SendChar, GetChar, LoopTop
  <2>3. line # << >> => Deadline > 0
    <3>1. CASE Interactive /\ ~eof
      BY <1>6, <3>1 DEF Deadline
    <3>2. CASE ~(Interactive /\ ~eof)
      BY <1>3, <2>1, <3>2 DEF Deadline, Listening
    <3>3. QED
      BY <3>1, <3>2
  <2>4. CASE line = << >>
    BY <1>3, <2>1, <2>2, <2>4 DEF Goal, Listening
  <2>5. CASE line # << >>
    <3>1. Asking'
      BY <1>3, <2>1, <2>2, <2>5 DEF Listening, Asking
    <3>2. pc' = "read"
      BY <1>6, <2>1, <2>3, <2>5
    <3>3. QED
      BY <1>3, <2>1, <2>2, <2>3, <2>5, <3>1, <3>2 DEF Goal, Listening
  <2>6. QED
    BY <2>4, <2>5
<1>14. CASE NextChar
  <2>1. pc = "need" /\ pc' = "send" /\ UNCHANGED <<cpu, outbox, left>>
    BY <1>14 DEF NextChar, cpuVars, linkVars
  <2>2. QED
    BY <1>3, <1>5, <2>1 DEF Goal, Listening
<1>15. CASE Refill
  <2>1. /\ pc = "need" /\ UNCHANGED <<cpu, outbox, left, eof, eof_sent>>
        /\ pc' = IF ~eof THEN "line" ELSE IF eof_sent THEN "top" ELSE "need"
        /\ line' = IF eof /\ ~eof_sent THEN <<EOT>> ELSE << >>
    BY <1>15 DEF Refill, Exhausted, cpuVars, linkVars
  <2>2. CASE pc' = "top"
    BY <1>3, <1>5, <1>6, <2>1, <2>2 DEF Goal, Listening
  <2>3. CASE pc' # "top"
    BY <1>3, <1>5, <2>1, <2>3 DEF Goal, Listening
  <2>4. QED
    BY <2>2, <2>3
<1>16. CASE SendChar
  <2>1. /\ pc = "send" /\ pc' = "top" /\ left' = (IF opt.prog = "run" THEN Limit(eof) ELSE left)
        /\ outbox' = << >> /\ UNCHANGED <<cpu, line, eof>>
    BY <1>16 DEF SendChar, DeadlineAfter, Send, Transfer, srcVars, cpuVars
  <2>2. Chars' # << >>
    BY <1>4, <1>7, <1>16
  <2>3. line # << >> => left' > 0
    BY <1>3, <1>6, <1>8, <2>1
  <2>4. Asking'
    BY <2>2 DEF Asking
  <2>5. QED
    BY <1>3, <1>5, <2>1, <2>2, <2>3, <2>4 DEF Goal, Listening
<1>17. ASSUME NEW k \in Keys, Len(keys) < MaxKeys, Type(k) PROVE Goal
  <2>1. /\ pc = "line" /\ pc' \in {"need", "line"} /\ UNCHANGED <<cpu, outbox>>
        /\ opt.prog = "loader" => left' = left
    BY <1>17 DEF Type, cpuVars, linkVars
  <2>2. QED
    BY <1>3, <1>5, <2>1 DEF Goal, Listening
<1>18. CASE Signal \/ TypeInterrupt
  <2>1. pc' = "asked" /\ UNCHANGED <<cpu, outbox, line>>
    BY <1>18 DEF Signal, TypeInterrupt, srcVars, cpuVars, linkVars
  <2>2. QED
    BY <1>3, <2>1 DEF Goal, Listening
<1>19. CASE PollNothing
  <2>1. /\ pc = "poll" /\ pc' = "top" /\ UNCHANGED <<cpu, outbox, line, eof, eof_sent>>
    BY <1>19 DEF PollNothing, srcVars, cpuVars, linkVars
  <2>2. Chars' = Chars /\ line = << >>
    BY <1>3, <1>4, <1>19, <2>1 DEF SendChar, GetChar, PollNothing, Listening
  <2>3. QED
    BY <1>3, <2>1, <2>2 DEF Goal, Listening
<1>20. CASE Open \/ DrainRead \/ SendInit \/ SendWords
  <2>1. /\ pc \in {"open", "drain", "init", "load"} /\ UNCHANGED <<cpu, outbox, line>>
        /\ pc' \in {"open", "drain", "init", "load", "error"}
    BY <1>20 DEF Open, DrainRead, SendInit, SendWords, srcVars, cpuVars, linkVars
  <2>2. QED
    BY <1>3, <2>1 DEF Goal, Listening
<1>21. CASE SendStart
  <2>1. /\ pc = "load" /\ pc' = "top" /\ cpu' = "run" /\ UNCHANGED <<line>>
    BY <1>21 DEF SendStart, srcVars
  <2>2. line = << >>
    BY <1>3, <2>1 DEF LoadInv
  <2>3. QED
    BY <2>1, <2>2 DEF Goal, Listening
<1>22. CASE Begin \/ PutChar
  <2>1. /\ cpu \in {"run", "out"} /\ cpu' \in {"run", "out", "ask", "halt"}
        /\ UNCHANGED <<pc, left, line>>
    BY <1>22 DEF Begin, PutChar, srcVars
  <2>2. Listening => line = << >>
    BY <1>3, <1>10, <2>1
  <2>3. pc \notin {"need", "line", "send"}
    BY <1>5, <2>1
  <2>4. QED
    BY <2>1, <2>2, <2>3 DEF Goal, Listening
<1>23. CASE Ask
  <2>1. cpu = "ask" /\ cpu' = "wait" /\ outbox' = <<Request>> /\ UNCHANGED <<pc, tries, left, line>>
    BY <1>23 DEF Ask, StoreWord, srcVars
  <2>2. Asking'
    BY <2>1 DEF Asking
  <2>3. QED
    BY <1>3, <1>5, <1>7, <2>1, <2>2 DEF Goal, Listening
<1>24. CASE Chip \/ Discard
  <2>1. UNCHANGED <<pc, tries, left, line, eof, eof_sent, cpu, outbox>>
    BY <1>24 DEF Chip, Dispatch, Discard, AckMail, srcVars, cpuVars
  <2>2. ~SendChar
    BY <1>24 DEF Chip, Dispatch, Settled, Discard, AckMail, SendChar, Send, Transfer
  <2>3. Chars' = Chars
    BY <1>4, <1>24, <2>1, <2>2 DEF GetChar
  <2>4. QED
    BY <1>3, <2>1, <2>3 DEF Goal, Listening, Asking
<1>25. CASE GetChar
  <2>1. /\ cpu = "wait" /\ cpu' = (IF mail[1].ch \in {NL, EOT} THEN "run" ELSE "ask")
        /\ UNCHANGED <<pc, tries, left, line, outbox>>
    BY <1>25 DEF GetChar, AckMail, srcVars
  <2>2. Chars = <<mail[1].ch>> /\ Chars # << >>
    BY <1>4, <1>25
  <2>3. line # << >> => cpu' = "ask"
    <3>1. line # << >> => mail[1].ch \notin Enders
      <4>1. line # << >> => Unending(Chars)
        BY <1>2 DEF LineForm
      <4>2. QED
        BY <2>2, <4>1 DEF Unending
    <3>2. QED
      BY <2>1, <3>1 DEF Enders
  <2>4. pc \notin {"need", "line", "send"}
    BY <1>4, <2>2
  <2>5. QED
    BY <1>3, <2>1, <2>3, <2>4 DEF Goal, Listening, Asking
<1>26. QED
  BY <1>9, <1>11, <1>12, <1>13, <1>14, <1>15, <1>16, <1>17, <1>18, <1>19, <1>20, <1>21, <1>22,
     <1>23, <1>24, <1>25 DEF Next, Host, User, CpuCall

LEMMA LeavesInit == Init => LineForm /\ LeavesInv
<1> SUFFICES ASSUME Init PROVE LineForm /\ LeavesInv
  OBVIOUS
<1>1. line = << >> /\ pc = "open" /\ cpu = "off" /\ DOMAIN << >> = {}
  BY DEF Init
<1>2. QED
  BY <1>1 DEF LineForm, LeavesInv, Listening, Unending

LEMMA LeavesStutter ==
  ASSUME UNCHANGED vars
  PROVE  LineForm' = LineForm /\ LeavesInv' = LeavesInv
<1>1. UNCHANGED <<fifo, mail, outbox, opt, pc, tries, left, ch, line, eof, eof_sent, cpu>>
  BY DEF vars, linkVars, srcVars, cpuVars
<1>2. Chars' = Chars
  BY <1>1 DEF Chars
<1>3. QED
  BY <1>1, <1>2 DEF LineForm, LeavesInv, Listening, Asking, Unending, Enders

(* Where input does not come early, a host that leaves for lack of         *)
(* activity leaves nothing of a typed line behind and no IN unanswered     *)
(* before the end of stdin, for every deadline, in every interleaving --   *)
(* even for a line cut off by its buffer or by the end of stdin.  Left out *)
(* are a call between the last two tries of a spi_read, and a user of the  *)
(* loader slower than its deadline.                                        *)
THEOREM LeavesNothingAlways ==
  ASSUME "last_try" \notin Faults, "slow_loader" \notin Faults
  PROVE  Spec => [](opt.ahead = 0 => LeavesNothing)
<1> DEFINE Inv == Correct /\ AskInv /\ LastTryInv /\ LineForm /\ LeavesInv
<1>1. Init => Inv
  BY InitTypes, InitInv, LeavesInit DEF Correct
<1>2. Inv /\ [Next]_vars => Inv'
  <2>1. ASSUME Inv, Next PROVE Inv'
    <3>1. TypeOK /\ LoadInv /\ OutInv /\ PollInv /\ opt \in Sessions /\ i \in Nat
      BY <2>1, OptionTypes DEF Correct, TypeOK
    <3>2. Correct'
      BY <2>1, <3>1, TypeStep, LoadStep, OutStep, PollStep DEF Correct
    <3>3. AskInv' /\ LastTryInv'
      BY <2>1, <3>1, AskStep, LastTryStep
    <3>4. LineForm' /\ LeavesInv'
      BY <2>1, <3>1, LineFormStep, LeavesStep
    <3>5. QED
      BY <3>2, <3>3, <3>4
  <2>2. ASSUME Inv, UNCHANGED vars PROVE Inv'
    BY <2>2, Stutter, LeavesStutter DEF Correct
  <2>3. QED
    BY <2>1, <2>2
<1>3. Inv => (opt.ahead = 0 => LeavesNothing)
  <2>1. SUFFICES ASSUME Inv, opt.ahead = 0, pc = "idle"
                 PROVE  /\ line = << >>
                        /\ cpu = "wait" /\ outbox = << >> /\ InFlight = << >> => eof /\ eof_sent
    BY DEF LeavesNothing
  <2>2. line = << >>
    BY <2>1 DEF LeavesInv, Listening
  <2>3. Chars \in Seq(Characters)
    BY <2>1, CharsTypes DEF Correct, AskInv
  <2>4. InFlight = Chars
    <3>1. InFlight = Chars \o << >>
      BY <2>1 DEF InFlight, Chars
    <3>2. QED
      BY <2>3, <3>1, ConcatEmptySeq
  <2>5. QED
    BY <2>1, <2>2, <2>4 DEF LeavesInv, Listening
<1>4. QED
  BY <1>1, <1>2, <1>3, PTL DEF Spec
=============================================================================
