----------------------------- MODULE MCCometUart -----------------------------
(* The instances of CometUart that TLC checks: the calls of the program    *)
(* and the variants of the UART.                                           *)
EXTENDS CometUart

AllUart    == {"GETC", "PUTC", "CLEAR"}
ReaderOnly == {"GETC"}
BothUarts  == {FALSE, TRUE}
CometOnly  == {FALSE}
=============================================================================
