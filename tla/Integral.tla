------------------------------ MODULE Integral ------------------------------
(***************************************************************************)
(* Rounding to an integer: trunc, floor, ceil, rint, round, roundeven,     *)
(* rint_trunc, frac, modf and the predicates integer_p and odd_p           *)
(* (src/ops).  An integer that does not fit the output precision q is      *)
(* rounded to q bits in the same step.                                     *)
(***************************************************************************)
EXTENDS Ordering

-----------------------------------------------------------------------------
(* The split of a magnitude of at least 1.                                 *)

\* Down to the bit of 1, or to the last bit of the output above it.
KeptBits(x, q) == IF x.exp >= q THEN q ELSE x.exp

\* The kept bits as a mantissa of q bits, its unit, and what is dropped, of
\* which W would make one more unit.
IntegralPart(x, q) ==
    LET k == KeptBits(x, q)
        W == IF x.prec > k THEN Pow2(x.prec - k) ELSE 1
    IN  [mant |-> IF x.prec > k THEN (x.mant \div W) * Pow2(q - k) ELSE x.mant * Pow2(q - x.prec),
         ulp |-> Pow2(q - k), dropped |-> x.mant % W, W |-> W]

\* The last bit of the output is taken for the unit.
OneUlpAway(x, q, part) ==                                            \* mutant
    IF part.mant + 1 = Pow2(q) THEN Normal(x.sign, q, x.exp + 1, Pow2(q - 1))
                           ELSE Normal(x.sign, q, x.exp, part.mant + 1)
OneUnitAway(x, q, part) ==
    IF part.mant + part.ulp = Pow2(q) THEN Normal(x.sign, q, x.exp + 1, Pow2(q - 1))
                                  ELSE Normal(x.sign, q, x.exp, part.mant + part.ulp)

\* A magnitude below 1 goes to 1 or to 0, a larger one with a fraction to the
\* integer above or below.
ToIntegral(x, q, away) ==
    LET part == IntegralPart(x, q)
    IN  CASE x.kind = "nan" -> Exactly(NAN_VALUE)
          [] x.kind = "inf" -> Exactly(Inf(x.sign, q))
          [] x.kind = "zero" -> Exactly(Zero(x.sign, q))
          [] x.kind = "normal" /\ x.exp <= 0 ->
                IF away THEN Result(Normal(x.sign, q, 1, Pow2(q - 1)), x.sign)
                        ELSE Result(Zero(x.sign, q), -x.sign)
          [] x.kind = "normal" /\ x.exp > 0 ->
                IF part.dropped = 0 THEN Exactly(Normal(x.sign, q, x.exp, part.mant))
                ELSE IF away THEN Result(OneUnitAway(x, q, part), x.sign)
                ELSE Result(Normal(x.sign, q, x.exp, part.mant), -x.sign)

Trunc(x, q) == ToIntegral(x, q, FALSE)
Floor(x, q) == ToIntegral(x, q, x.sign = -1)
Ceil(x, q) == ToIntegral(x, q, x.sign = 1)

\* To nearest, ties to even (rint) and ties away from zero (round).
NearestEven(x, q) ==
    LET part == IntegralPart(x, q)
    IN  ToIntegral(x, q, IF x.exp <= 0 THEN x.exp = 0 /\ x.mant # Pow2(x.prec - 1)
                         ELSE \/ 2 * part.dropped > part.W
                              \/ 2 * part.dropped = part.W /\ (part.mant \div part.ulp) % 2 = 1)
Round(x, q) ==
    LET part == IntegralPart(x, q)
    IN  ToIntegral(x, q, IF x.exp <= 0 THEN x.exp = 0 ELSE 2 * part.dropped >= part.W)

Rint(u, q, rnd) ==
    CASE rnd = "RNDZ" -> Trunc(u, q)
      [] rnd = "RNDU" -> Ceil(u, q)
      [] rnd = "RNDD" -> Floor(u, q)
      [] rnd = "RNDA" -> IF u.sign = 1 THEN Ceil(u, q) ELSE Floor(u, q)
      [] rnd = "RNDN" -> NearestEven(u, q)
RoundEven(x, q) == Rint(x, q, "RNDN")

-----------------------------------------------------------------------------
(* Predicates and the two parts of a value.                                *)

IntegerP(x) ==
    \/ x.kind = "zero"
    \/ /\ x.kind = "normal" /\ x.exp > 0
       /\ x.exp < x.prec => x.mant % Pow2(x.prec - x.exp) = 0

OddP(x) ==
    /\ x.kind = "normal" /\ x.exp > 0 /\ x.exp <= x.prec
    /\ (x.mant \div Pow2(x.prec - x.exp)) % 2 = 1
    /\ x.mant % Pow2(x.prec - x.exp) = 0

RintTrunc(u, q, rnd) ==
    Set(IF u.kind # "normal" \/ IntegerP(u) THEN u ELSE Trunc(u, u.prec).value, q, rnd)

\* The integral part is taken at the precision of the result.
FracOfRounded(u, q, rnd) ==                                          \* mutant
    CASE u.kind = "nan" -> Exactly(NAN_VALUE)
      [] u.kind = "inf" \/ IntegerP(u) -> Exactly(Zero(u.sign, q))
      [] u.kind = "normal" /\ ~IntegerP(u) -> Sub(u, RoundEven(u, q).value, q, rnd)
Frac(u, q, rnd) ==
    CASE u.kind = "nan" -> Exactly(NAN_VALUE)
      [] u.kind = "inf" \/ IntegerP(u) -> Exactly(Zero(u.sign, q))
      [] u.kind = "normal" /\ ~IntegerP(u) ->
            IF u.exp <= 0 THEN Set(u, q, rnd)
                          ELSE Sub(u, Trunc(u, u.prec).value, q, rnd)

Modf(x, iprec, fprec, rnd) ==
    CASE x.kind = "nan" -> [iop |-> Exactly(NAN_VALUE), fop |-> Exactly(NAN_VALUE)]
      [] x.kind = "inf" -> [iop |-> Exactly(Inf(x.sign, iprec)), fop |-> Exactly(Zero(x.sign, fprec))]
      [] x.kind = "zero" -> [iop |-> Exactly(Zero(x.sign, iprec)), fop |-> Exactly(Zero(x.sign, fprec))]
      [] x.kind = "normal" /\ x.exp <= 0 ->
            [iop |-> Exactly(Zero(x.sign, iprec)), fop |-> Set(x, fprec, rnd)]
      [] x.kind = "normal" /\ x.exp > 0 /\ x.exp >= x.prec ->
            [iop |-> Set(x, iprec, rnd), fop |-> Exactly(Zero(x.sign, fprec))]
      [] x.kind = "normal" /\ x.exp > 0 /\ x.exp < x.prec ->
            [iop |-> RintTrunc(x, iprec, rnd), fop |-> Frac(x, fprec, rnd)]
=============================================================================
