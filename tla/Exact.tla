------------------------------- MODULE Exact --------------------------------
(***************************************************************************)
(* What correct rounding means, independently of how the library computes  *)
(* it: an exact result is known only by how the numbers n * 2^k compare    *)
(* with it.  Cmp(n, k) is the sign of n * 2^k - exact.                     *)
(***************************************************************************)
EXTENDS Mpfr

\* The sign of n * 2^k - m * 2^l.
CompareDyadic(n, k, m, l) ==
    IF k >= l THEN Sgn(n * Pow2(k - l) - m) ELSE Sgn(n - m * Pow2(l - k))

\* A finite value is Num(x) * 2^Scale(x).
Num(x) == x.sign * x.mant
Scale(x) == x.exp - x.prec

\* The result lies on the side of the exact value its mode asks for, no
\* value of its precision lies closer on that side, and the ternary value is
\* the sign of rounded - exact.
CorrectlyRounded(res, q, rnd, Cmp(_, _)) ==
    LET v == res.value
        m == v.mant
        k == Scale(v)
        at == Cmp(v.sign * m, k)
        outward == v.sign * Cmp(v.sign * (m + 1), k)
        inward == v.sign * (IF m = Pow2(v.prec - 1) THEN Cmp(v.sign * (2 * m - 1), k - 1)
                                                  ELSE Cmp(v.sign * (m - 1), k))
        midOut == v.sign * Cmp(v.sign * (2 * m + 1), k - 1)
        midIn == v.sign * (IF m = Pow2(v.prec - 1) THEN Cmp(v.sign * (4 * m - 1), k - 2)
                                                 ELSE Cmp(v.sign * (2 * m - 1), k - 1))
        below == v.sign * at <= 0 /\ outward > 0   \* magnitude rounded down
        above == v.sign * at >= 0 /\ inward < 0    \* magnitude rounded up
    IN  /\ Valid(v) /\ v.kind = "normal" /\ v.prec = q
        /\ Cmp(0, 0) = -v.sign
        /\ res.ternary = at
        /\ CASE rnd = "RNDZ" -> below
             [] rnd = "RNDA" -> above
             [] rnd = "RNDD" -> IF v.sign = 1 THEN below ELSE above
             [] rnd = "RNDU" -> IF v.sign = 1 THEN above ELSE below
             [] rnd = "RNDN" -> /\ midOut >= 0 /\ midIn <= 0
                                /\ midOut = 0 => m % 2 = 0
                                /\ midIn = 0 => m % 2 = 0 \/ m = Pow2(v.prec - 1)
=============================================================================
