---------------------------- MODULE MCCalculator ----------------------------
(***************************************************************************)
(* Precisions up to PREC_MAX and exponents of at most EMAX_DEFAULT in      *)
(* magnitude: enough for mantissas of one bit, operands shorter and longer *)
(* than the result, ties, carries into a new binade and cancellation.      *)
(***************************************************************************)
EXTENDS Calculator

=============================================================================
