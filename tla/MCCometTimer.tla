---------------------------- MODULE MCCometTimer ----------------------------
(* The instances of CometTimer that TLC checks: the uses and the delays.   *)
EXTENDS CometTimer

OneWord     == {"low", "preset", "periodic"}
TwoWords    == {"both"}
SomeDelays  == {0, 1, 2, 3, 5, 9, 10, 13}
LongDelays  == {3, 18}
SomePresets == {0, 2, 5}
=============================================================================
