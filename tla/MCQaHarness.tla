----------------------------- MODULE MCQaHarness -----------------------------
(* QaHarness with two coverage percentages: a drop, a rise and a draw. *)
EXTENDS QaHarness

MCCoverages == 1..2
=============================================================================
