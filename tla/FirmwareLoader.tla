--------------------------- MODULE FirmwareLoader ---------------------------
(***************************************************************************)
(* What loading promises the host: the words of a session reach the memory *)
(* in the order sent, from address 0 on; the CPU is stopped before the     *)
(* first of them and runs after START, when the last is in place.          *)
(***************************************************************************)
EXTENDS Sequences, Naturals

VARIABLES
  sent,       \* the words the host sent in this session
  image,      \* the words at address 0, 1, ... up to the load address
  running,    \* the CPU is out of reset
  resetting,  \* an INIT is not carried out yet
  starting    \* a START is not carried out yet

loaderState == <<sent, image, running, resetting, starting>>

Init ==
  /\ sent = << >>
  /\ image = << >>
  /\ running = FALSE
  /\ resetting = FALSE
  /\ starting = FALSE

(* A running program may store anything over its own words.                *)
ProgramStores ==
  \/ image' = image
  \/ running /\ DOMAIN image' = DOMAIN image

NewSession ==
  /\ sent' = << >>
  /\ resetting' = TRUE
  /\ starting' = FALSE
  /\ ProgramStores
  /\ UNCHANGED running

Send ==
  /\ Len(sent') = Len(sent) + 1
  /\ SubSeq(sent', 1, Len(sent)) = sent
  /\ UNCHANGED <<image, running, resetting, starting>>

AskStart ==
  /\ starting' = TRUE
  /\ UNCHANGED <<sent, image, running, resetting>>

Reset ==
  /\ resetting
  /\ resetting' = FALSE
  /\ running' = FALSE
  /\ image' = << >>
  /\ UNCHANGED <<sent, starting>>

Load ==
  /\ ~resetting
  /\ ~running
  /\ Len(image) < Len(sent)
  /\ image' = Append(image, sent[Len(image) + 1])
  /\ UNCHANGED <<sent, running, resetting, starting>>

Start ==
  /\ starting
  /\ ~resetting
  /\ image = sent
  /\ starting' = FALSE
  /\ running' = TRUE
  /\ UNCHANGED <<sent, image, resetting>>

Execute ==
  /\ running
  /\ DOMAIN image' = DOMAIN image
  /\ UNCHANGED <<sent, running, resetting, starting>>

Next ==
  \/ NewSession \/ Send \/ AskStart
  \/ Reset \/ Load \/ Start \/ Execute

(* The host need not send anything; what it sent is carried out.           *)
Spec ==
  /\ Init /\ [][Next]_loaderState
  /\ WF_loaderState(Reset)
  /\ WF_loaderState(Load)
  /\ WF_loaderState(Start)
=============================================================================
