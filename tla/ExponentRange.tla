--------------------------- MODULE ExponentRange ----------------------------
(***************************************************************************)
(* Overflow, underflow and check_range (src/ops): what a caller applies to *)
(* a result to bring it into the exponent range, with the ternary value    *)
(* the operation returned.  The arithmetic itself never does.              *)
(***************************************************************************)
EXTENDS Ordering

IsLikeRNDZ(rnd, sign) ==
    rnd = "RNDZ" \/ (rnd = "RNDU" /\ sign = -1) \/ (rnd = "RNDD" /\ sign = 1)

SetMax(q, e, sign) == Normal(sign, q, e, Pow2(q) - 1)
SetMin(q, e, sign) == Normal(sign, q, e, Pow2(q - 1))

Overflow(q, rnd, sign) ==
    IF IsLikeRNDZ(rnd, sign) THEN Result(SetMax(q, EMAX_DEFAULT, sign), -sign)
                             ELSE Result(Inf(sign, q), sign)

Underflow(q, rnd, sign) ==
    IF IsLikeRNDZ(rnd, sign) THEN Result(Zero(sign, q), -sign)
                             ELSE Result(SetMin(q, EMIN_DEFAULT, sign), sign)

PowerOf2Raw(x) == x.kind = "normal" /\ x.mant = Pow2(x.prec - 1)

\* Underflow rounds to nearest without looking at the ternary value.
CheckRangeTwice(x, t, rnd) ==                                        \* mutant
    CASE x.kind = "normal" /\ x.exp < EMIN_DEFAULT ->
            Underflow(x.prec, IF rnd = "RNDN" /\ (x.exp + 1 < EMIN_DEFAULT \/ PowerOf2Raw(x))
                              THEN "RNDZ" ELSE rnd, x.sign)
      [] x.kind = "normal" /\ x.exp > EMAX_DEFAULT -> Overflow(x.prec, rnd, x.sign)
      [] x.kind # "normal" \/ x.exp \in EMIN_DEFAULT..EMAX_DEFAULT -> Result(x, t)
CheckRange(x, t, rnd) ==
    LET belowHalf == \/ x.exp + 1 < EMIN_DEFAULT
                     \/ PowerOf2Raw(x) /\ (IF x.sign = -1 THEN t <= 0 ELSE t >= 0)
    IN  CASE x.kind = "normal" /\ x.exp < EMIN_DEFAULT ->
                Underflow(x.prec, IF rnd = "RNDN" /\ belowHalf THEN "RNDZ" ELSE rnd, x.sign)
          [] x.kind = "normal" /\ x.exp > EMAX_DEFAULT -> Overflow(x.prec, rnd, x.sign)
          [] x.kind # "normal" \/ x.exp \in EMIN_DEFAULT..EMAX_DEFAULT -> Result(x, t)
=============================================================================
