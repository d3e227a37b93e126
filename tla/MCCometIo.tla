------------------------------ MODULE MCCometIo ------------------------------
(* The sessions of CometIo that TLC checks.                                *)
EXTENDS CometIo

Base == [prog |-> "run", source |-> "raw", text |-> 0, ahead |-> 0, idle |-> 2,
         drain |-> 1, bytes |-> 2, burst |-> FALSE, safe |-> FALSE]
Of(prog, source, ahead, drain) ==
  [Base EXCEPT !.prog = prog, !.source = source, !.text = IF source = "text" THEN 2 ELSE 0,
               !.ahead = ahead, !.drain = drain]

(* Each program on each source.  The runner may find input before the      *)
(* program asks for it, and does so with -i; the loader never looks.       *)
Consoles ==
  {Of("loader", s, 0, 1) : s \in {"text", "raw", "pipe"}}
    \cup {Of("run", s, 0, d) : s \in {"raw", "pipe"}, d \in {0, 1}}
    \cup {Of("run", "raw", 2, 1), Of("run", "text", 2, 1)}

(* Images: empty, of one to five words, odd, too large, loaded either way  *)
(* after either drain.                                                     *)
Loads == {[Of("loader", "text", 0, 1) EXCEPT !.idle = 1, !.bytes = n, !.burst = b, !.safe = s] :
            n \in 0..12, b \in BOOLEAN, s \in BOOLEAN}

ConsolesAndLoads == Consoles \cup Loads
TextRunner  == {Of("run", "text", 2, 1)}

NoFaults    == {}
=============================================================================
