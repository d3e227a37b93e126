----------------------------- MODULE MCCometLink -----------------------------
(* The instances of CometLink that TLC checks: what the program on the CPU *)
(* does in them, and which packets the host sends.                         *)
EXTENDS CometLink

AllCalls    == {"IN", "OUT", "STORE"}
InputOnly   == {"IN"}

(* link_reload: the host stops two packets short of MaxPackets, unless the *)
(* last of these was an INIT: then a word and START may still follow it.   *)
Bounded ==
  packets' # packets /\ packets' > MaxPackets - 2 =>
    last_init >= MaxPackets - 2 /\ wire'.op \in {"FIRM", "START"}

BoundedSpec == Init /\ [][Next /\ Bounded]_vars /\ WF_hwVars(Next /\ Bounded)

(* link_stale: one load of three words, then one of an empty image, whose  *)
(* program is sent three characters.                                       *)
Reload == <<"INIT", "FIRM", "FIRM", "FIRM", "START",
            "INIT", "START", "CMD", "CMD", "CMD">>

SendsReload == packets' # packets => wire'.op = Reload[packets']

ReloadSpec == Init /\ [][Next /\ SendsReload]_vars
=============================================================================
