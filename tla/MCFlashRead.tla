---------------------------- MODULE MCFlashRead ----------------------------
(* The program file of the example, and its bits inverted.                 *)
EXTENDS FlashRead

SomeContents == {<<0, 1, 2, 3>>, <<255, 254, 253, 252>>, <<170, 85, 170, 85>>}
=============================================================================
