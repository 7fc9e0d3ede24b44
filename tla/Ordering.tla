------------------------------ MODULE Ordering ------------------------------
(***************************************************************************)
(* The comparisons, the selections built on them (max, min) and the        *)
(* neighbours of a value (nextabove, nextbelow, nexttoward) (src/ops).     *)
(***************************************************************************)
EXTENDS Arith

-----------------------------------------------------------------------------
(* Predicates: false of a NaN operand, except unordered_p.                 *)

LessP(a, b) == Compare(a, b) = -1
LessEqualP(a, b) == Compare(a, b) \in {-1, 0}
EqualP(a, b) == Compare(a, b) = 0
GreaterP(a, b) == Compare(a, b) = 1
GreaterEqualP(a, b) == Compare(a, b) \in {0, 1}
LessGreaterP(a, b) == Compare(a, b) \in {-1, 1}
UnorderedP(a, b) == "nan" \in {a.kind, b.kind}

\* mpfr_cmpabs and mpfr_cmp3, of operands that are not NaN.
CmpAbs(b, c) ==
    CASE b.kind = "inf" -> IF c.kind = "inf" THEN 0 ELSE 1
      [] b.kind # "inf" /\ c.kind = "inf" -> -1
      [] b.kind # "inf" /\ c.kind = "zero" -> IF b.kind = "zero" THEN 0 ELSE 1
      [] b.kind = "zero" /\ c.kind = "normal" -> -1
      [] b.kind = "normal" /\ c.kind = "normal" -> CompareMagnitude(b, c)
Cmp3(b, c, s) == Compare(b, IF s < 0 THEN [c EXCEPT !.sign = -c.sign] ELSE c)

-----------------------------------------------------------------------------
(* mpfr_eq: do the leading n bits agree?  Zero bits stand for a limb.      *)

GMP_NUMB_BITS == 64
Eq(u, v, n) ==
    LET effective == IF n = 0 THEN GMP_NUMB_BITS ELSE n
        k == CHOOSE j \in {effective, u.prec, v.prec} :
                \A i \in {effective, u.prec, v.prec} : j <= i
    IN  CASE UnorderedP(u, v) -> FALSE
          [] {u.kind, v.kind} \in {{"inf", "zero"}, {"inf", "normal"}, {"zero", "normal"}} -> FALSE
          [] u.kind = "inf" /\ v.kind = "inf" -> u.sign = v.sign
          [] u.kind = "zero" /\ v.kind = "zero" -> TRUE
          [] u.kind = "normal" /\ v.kind = "normal" ->
                /\ u.sign = v.sign /\ u.exp = v.exp
                /\ u.mant \div Pow2(u.prec - k) = v.mant \div Pow2(v.prec - k)

-----------------------------------------------------------------------------
(* mpfr_max and mpfr_min: a NaN gives way to the other operand.            *)

RoundToPrec(x, q, rnd) == Set4(x, q, rnd, x.sign)

Max(a, b, q, rnd) ==
    CASE a.kind = "nan" -> RoundToPrec(b, q, rnd)
      [] a.kind # "nan" /\ b.kind = "nan" -> RoundToPrec(a, q, rnd)
      [] a.kind = "zero" /\ b.kind = "zero" ->
            Exactly(Zero(IF 1 \in {a.sign, b.sign} THEN 1 ELSE -1, q))
      [] ~UnorderedP(a, b) /\ {a.kind, b.kind} # {"zero"} ->
            RoundToPrec(IF LessEqualP(a, b) THEN b ELSE a, q, rnd)

Min(a, b, q, rnd) ==
    CASE a.kind = "nan" -> RoundToPrec(b, q, rnd)
      [] a.kind # "nan" /\ b.kind = "nan" -> RoundToPrec(a, q, rnd)
      [] a.kind = "zero" /\ b.kind = "zero" ->
            Exactly(Zero(IF -1 \in {a.sign, b.sign} THEN -1 ELSE 1, q))
      [] ~UnorderedP(a, b) /\ {a.kind, b.kind} # {"zero"} ->
            RoundToPrec(IF LessEqualP(a, b) THEN a ELSE b, q, rnd)

-----------------------------------------------------------------------------
(* The neighbours of a value at its own precision.                         *)

Smallest(s, p) == Normal(s, p, EMIN_DEFAULT, Pow2(p - 1))
Largest(s, p) == Normal(s, p, EMAX_DEFAULT, Pow2(p) - 1)

NextToInf(x) ==
    CASE x.kind = "nan" -> NAN_VALUE
      [] x.kind = "inf" -> x
      [] x.kind = "zero" -> Smallest(x.sign, x.prec)
      [] x.kind = "normal" /\ x.mant + 1 < Pow2(x.prec) -> [x EXCEPT !.mant = @ + 1]
      [] x.kind = "normal" /\ x.mant + 1 >= Pow2(x.prec) /\ x.exp = EMAX_DEFAULT -> Inf(x.sign, x.prec)
      [] x.kind = "normal" /\ x.mant + 1 >= Pow2(x.prec) /\ x.exp # EMAX_DEFAULT ->
            Normal(x.sign, x.prec, x.exp + 1, Pow2(x.prec - 1))

\* Crossing a power of two keeps the mantissa of the wider binade.
NextToZeroShort(x) ==                                                \* mutant
    CASE x.kind = "nan" -> NAN_VALUE
      [] x.kind = "inf" -> Largest(x.sign, x.prec)
      [] x.kind = "zero" -> Smallest(-x.sign, x.prec)
      [] x.kind = "normal" /\ x.mant - 1 >= Pow2(x.prec - 1) -> [x EXCEPT !.mant = @ - 1]
      [] x.kind = "normal" /\ x.mant - 1 < Pow2(x.prec - 1) /\ x.exp = EMIN_DEFAULT ->
            Zero(x.sign, x.prec)
      [] x.kind = "normal" /\ x.mant - 1 < Pow2(x.prec - 1) /\ x.exp # EMIN_DEFAULT ->
            Normal(x.sign, x.prec, x.exp - 1, Pow2(x.prec - 1))
NextToZero(x) ==
    CASE x.kind = "nan" -> NAN_VALUE
      [] x.kind = "inf" -> Largest(x.sign, x.prec)
      [] x.kind = "zero" -> Smallest(-x.sign, x.prec)
      [] x.kind = "normal" /\ x.mant - 1 >= Pow2(x.prec - 1) -> [x EXCEPT !.mant = @ - 1]
      [] x.kind = "normal" /\ x.mant - 1 < Pow2(x.prec - 1) /\ x.exp = EMIN_DEFAULT ->
            Zero(x.sign, x.prec)
      [] x.kind = "normal" /\ x.mant - 1 < Pow2(x.prec - 1) /\ x.exp # EMIN_DEFAULT ->
            Normal(x.sign, x.prec, x.exp - 1, Pow2(x.prec) - 1)

NextAbove(x) ==
    IF x.kind = "nan" THEN NAN_VALUE ELSE IF x.sign = -1 THEN NextToZero(x) ELSE NextToInf(x)
NextBelow(x) ==
    IF x.kind = "nan" THEN NAN_VALUE ELSE IF x.sign = -1 THEN NextToInf(x) ELSE NextToZero(x)

\* Steps away from y.
NextTowardReversed(x, y) ==                                          \* mutant
    CASE UnorderedP(x, y) -> NAN_VALUE
      [] EqualP(x, y) -> x
      [] LessP(x, y) -> NextToInf(x)
      [] GreaterP(x, y) -> NextToZero(x)
NextToward(x, y) ==
    CASE UnorderedP(x, y) -> NAN_VALUE
      [] EqualP(x, y) -> x
      [] LessP(x, y) -> NextAbove(x)
      [] GreaterP(x, y) -> NextBelow(x)
=============================================================================
