---------------------------- MODULE MCRiscvDemo ----------------------------
(* The instance of RiscvDemo for TLC.                                      *)
EXTENDS RiscvDemo

(* The hypothesis of ResultsMatchAlways in RiscvDemo_proofs: it says of    *)
(* fib and matrix_mult, by their definitions, what TLC computes.           *)
ASSUME AnswersAssumption == ComputesAnswers
=============================================================================
