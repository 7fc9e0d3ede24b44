------------------------------- MODULE Mixed --------------------------------
(***************************************************************************)
(* The operations with an integer operand, the scalings by a power of two  *)
(* and dim (src/ops).  An unsigned or signed long has LONG_BITS bits; a    *)
(* _z operand is any integer.                                              *)
(***************************************************************************)
EXTENDS Ordering

CONSTANT LONG_BITS  \* 64 in the code

ASSUME LongAssumption == LONG_BITS \in Nat \ {0}

ULong == 0 .. Pow2(LONG_BITS) - 1
Long == -Pow2(LONG_BITS - 1) .. Pow2(LONG_BITS - 1) - 1

SetZ(n, q, rnd) ==
    LET absN == IF n < 0 THEN -n ELSE n
    IN  IF n = 0 THEN Exactly(Zero(1, q))
        ELSE PackNormal(IF n < 0 THEN -1 ELSE 1, BitLength[absN], absN, BitLength[absN], q, rnd)

SetUi(n, q, rnd) == IF n \in ULong THEN SetZ(n, q, rnd) ELSE EPREC
SetSi(n, q, rnd) == IF n \in Long THEN SetZ(n, q, rnd) ELSE EPREC

\* n as a value with all its bits, and no more.
ExactZ(n) == SetZ(n, IF n = 0 THEN 1 ELSE BitLength[IF n < 0 THEN -n ELSE n], "RNDN").value

\* Comparisons of an x that is not NaN.  An n out of range throws.
CmpSi(x, n) == IF n \in Long THEN Compare(x, ExactZ(n)) ELSE Unordered
CmpUi(x, n) == IF n \in ULong THEN Compare(x, ExactZ(n)) ELSE Unordered

-----------------------------------------------------------------------------
(* mul_2ui, mul_2si, div_2ui, div_2si: round, then move the exponent.      *)

Scaled(x, k, q, rnd) ==
    CASE x.kind = "nan" -> Exactly(NAN_VALUE)
      [] x.kind = "inf" -> Exactly(Inf(x.sign, q))
      [] x.kind = "zero" -> Exactly(Zero(x.sign, q))
      [] x.kind = "normal" ->
            LET r == PackNormal(x.sign, x.exp, x.mant, x.prec, q, rnd)
            IN  Result([r.value EXCEPT !.exp = @ + k], r.ternary)
Mul2si(x, e, q, rnd) == Scaled(x, e, q, rnd)
Div2si(x, e, q, rnd) == Scaled(x, -e, q, rnd)
Mul2ui(x, n, q, rnd) == IF n < 0 THEN EPREC ELSE Scaled(x, n, q, rnd)
Div2ui(x, n, q, rnd) == IF n \notin ULong THEN EPREC ELSE Scaled(x, -n, q, rnd)
Mul2exp(x, n, q, rnd) == Mul2ui(x, n, q, rnd)
Div2exp(x, n, q, rnd) == Div2ui(x, n, q, rnd)

-----------------------------------------------------------------------------
(* add_ui, add_si, add_z, sub_ui, sub_si, sub_z.                           *)

AddUi(b, c, q, rnd) ==
    CASE c \notin ULong -> EPREC
      [] c \in ULong /\ c = 0 -> Set(b, q, rnd)
      [] c \in ULong /\ c # 0 ->
            CASE b.kind = "nan" -> Exactly(NAN_VALUE)
              [] b.kind = "inf" -> Exactly(Inf(b.sign, q))
              [] b.kind = "zero" -> SetUi(c, q, rnd)
              [] b.kind = "normal" -> Add(b, ExactZ(c), q, rnd)
SubUi(b, c, q, rnd) ==
    CASE c \notin ULong -> EPREC
      [] c \in ULong /\ c = 0 -> Set(b, q, rnd)
      [] c \in ULong /\ c # 0 ->
            CASE b.kind = "nan" -> Exactly(NAN_VALUE)
              [] b.kind = "inf" -> Exactly(Inf(b.sign, q))
              [] b.kind \in {"zero", "normal"} -> Sub(b, ExactZ(c), q, rnd)

AddSi(b, c, q, rnd) ==
    IF c \notin Long THEN EPREC ELSE IF c >= 0 THEN AddUi(b, c, q, rnd) ELSE SubUi(b, -c, q, rnd)
SubSi(b, c, q, rnd) ==
    IF c \notin Long THEN EPREC ELSE IF c >= 0 THEN SubUi(b, c, q, rnd) ELSE AddUi(b, -c, q, rnd)

AddZ(x, z, q, rnd) ==
    IF z \in Long THEN AddSi(x, z, q, rnd) ELSE Add(x, ExactZ(z), q, rnd)
SubZ(x, z, q, rnd) ==
    IF z \in Long THEN SubSi(x, z, q, rnd) ELSE Sub(x, ExactZ(z), q, rnd)

-----------------------------------------------------------------------------
(* mul_ui, mul_si, mul_z.                                                  *)

IsPow2(c) == c > 1 /\ c = Pow2(BitLength[c] - 1)

MulUi(b, c, q, rnd) ==
    CASE c \notin ULong -> EPREC
      [] c \in ULong /\ b.kind = "nan" -> Exactly(NAN_VALUE)
      [] c \in ULong /\ b.kind = "inf" -> Exactly(IF c = 0 THEN NAN_VALUE ELSE Inf(b.sign, q))
      [] c \in ULong /\ b.kind = "zero" -> Exactly(Zero(b.sign, q))
      [] c \in ULong /\ b.kind = "normal" ->
            IF c = 0 THEN Exactly(Zero(b.sign, q))
            ELSE IF c = 1 THEN Set(b, q, rnd)
            ELSE IF IsPow2(c) THEN Mul2si(b, BitLength[c] - 1, q, rnd)
            ELSE Mul(b, ExactZ(c), q, rnd)

InvertRnd(rnd) == CASE rnd = "RNDU" -> "RNDD" [] rnd = "RNDD" -> "RNDU" [] OTHER -> rnd
ChangeSign(v) == IF v.kind = "nan" THEN v ELSE [v EXCEPT !.sign = -v.sign]

\* The magnitude is multiplied in the caller's mode.
MulSiNotInverted(b, c, q, rnd) ==                                    \* mutant
    IF c \notin Long THEN EPREC
    ELSE IF c >= 0 THEN MulUi(b, c, q, rnd)
    ELSE LET r == MulUi(b, -c, q, rnd) IN Result(ChangeSign(r.value), -r.ternary)
MulSi(b, c, q, rnd) ==
    IF c \notin Long THEN EPREC
    ELSE IF c >= 0 THEN MulUi(b, c, q, rnd)
    ELSE LET r == MulUi(b, -c, q, InvertRnd(rnd)) IN Result(ChangeSign(r.value), -r.ternary)

MulZ(x, z, q, rnd) ==
    IF z \in Long THEN MulSi(x, z, q, rnd) ELSE Mul(x, ExactZ(z), q, rnd)

-----------------------------------------------------------------------------
(* mpfr_dim: the positive difference.                                      *)

Dim(b, c, q, rnd) ==
    CASE UnorderedP(b, c) -> Exactly(NAN_VALUE)
      [] ~UnorderedP(b, c) /\ Compare(b, c) = 1 -> Sub(b, c, q, rnd)
      [] ~UnorderedP(b, c) /\ Compare(b, c) \in {-1, 0} -> Exactly(Zero(1, q))
=============================================================================
