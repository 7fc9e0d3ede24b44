---------------------------- MODULE GoldenArith -----------------------------
(***************************************************************************)
(* The golden drivers of the arithmetic functions, and the ports they      *)
(* grade.                                                                  *)
(***************************************************************************)
EXTENDS GoldenWire

-----------------------------------------------------------------------------
(* The last member of an operand tuple says how the result was come by:    *)
(* "<", "=", ">" as it compares with the exact value; "0" if normal        *)
(* operands gave a zero; "fits" if the precision was enough for a copy.    *)

Booleans == {"TRUE", "FALSE"}
Fits == {"fits"}
\* The three ends of a rounding.
Rounded(S) == <<S \X Less, S \X Same, S \X Greater>>
Rounded2(S, T) == <<S \X T \X Less, S \X T \X Same, S \X T \X Greater>>
Cancelled(S, T) == Append(Rounded2(S, T), S \X T \X {"0"})
SetTo(how) == Normal \X Nonzero \X how

AlikeInfs == {<<v, v>> : v \in Infs}
UnlikeInfs == (Infs \X Infs) \ AlikeInfs

\* mpfr_add: a NaN, two infinities, one infinity, two zeros, one zero.
addReturns ==
    <<Either(NaN, Summands), AlikeInfs, UnlikeInfs, Infs \X Finite, Finite \X Infs,
      Zero \X Zero, Zero \X Normal, Normal \X Zero>> \o Cancelled(Normal, Normal)
\* mpfr_sub negates and adds.
subReturns ==
    <<Either(NaN, Summands), UnlikeInfs, AlikeInfs, Infs \X Finite, Finite \X Infs,
      Zero \X Zero, Zero \X Normal, Normal \X Zero>> \o Cancelled(Normal, Normal)
mulReturns ==
    <<Either(NaN, Kinds), Inf \X Zero, Inf \X Kinds, Zero \X Inf, Kinds \X Inf,
      Either(Zero, Kinds)>> \o Rounded2(Normal, Normal)
divReturns ==
    <<Either(NaN, Kinds), Inf \X Inf, Inf \X Kinds, Kinds \X Inf, Zero \X Zero,
      Kinds \X Zero, Zero \X Kinds>> \o Rounded2(Normal, Normal)

-----------------------------------------------------------------------------
(* mpfr_add: src/ops/add.ts                                                *)

mpfr_add_emit_case == Asserts(Rounds2("a", "mpfr", "b"), {}, AnyPrec)
mpfr_add_happy == Happy(26, One({24, 53, 64, 100, 200}), {"RNDN"},
        (Normal \X Normal \X Ordered) \cup (Normal \X Finite \X Same)
        \cup (Finite \X Normal \X Same))
mpfr_add_edge == Edge(61, One({1, 4, 10, 53, 64, 100, 200}), Rnds,
        (SignedSummands \X {"+inf", "normal"} \X Same)
        \cup (Infs \X {"+inf", "-inf", "normal"} \X Same)
        \cup ({"nan", "normal"} \X {"nan", "normal"} \X Same)
        \cup (Normal \X Normal \X (Ordered \cup {"0"}))
        \cup (Finite \X Normal \X {"=", ">"})
        \cup (Zero \X {"+inf", "zero", "normal"} \X Same))
mpfr_add_adversarial == Adversarial(20, One({2, 53, 100}), Rnds,
        Normal \X Normal \X Ordered)
mpfr_add_fuzz == Fuzz(100, One(6..196), Rnds, Normal \X Normal \X Ordered)
mpfr_add_mined == Mined(5, One({53}), {"RNDN", "RNDU", "RNDD"}, Normal \X Normal \X Ordered)
mpfr_add_port ==
    Port(Mpfrs(<<"a", "b">>) \o RoundsTo, "Result", {},
         addReturns)

-----------------------------------------------------------------------------
(* mpfr_sub: src/ops/sub.ts                                                *)

mpfr_sub_emit_case == Asserts(Rounds2("a", "mpfr", "b"), {}, AnyPrec)
mpfr_sub_happy == Happy(25, One({24, 53, 64, 100, 200}), {"RNDN"},
        (Normal \X Normal \X (Ordered \cup {"0"})) \cup (Normal \X Finite \X Same)
        \cup (Finite \X Normal \X Same))
mpfr_sub_edge == Edge(60, One({1, 10, 53, 64, 100, 200}), Rnds,
        ({"+inf", "-inf", "normal"} \X {"+inf", "-inf", "normal"} \X Same)
        \cup ({"nan", "normal"} \X {"nan", "normal"} \X Same)
        \cup (Normal \X Normal \X {"0", "="}) \cup (Finite \X Finite \X Same)
        \cup (Zero \X Normal \X {"<", "="}))
mpfr_sub_adversarial == Adversarial(25, One({2, 10, 53, 200}), Rnds,
        (Normal \X Normal \X Ordered) \cup (Finite \X Normal \X Greater))
mpfr_sub_fuzz == Fuzz(100, One(1..199), Rnds, Normal \X Normal \X Ordered)
mpfr_sub_mined == Mined(6, One({24, 53}), {"RNDN", "RNDD"}, ({"+inf"} \X {"+inf"} \X Same)
        \cup (Normal \X Normal \X {"0", "=", ">"}) \cup (Finite \X Normal \X Same))
mpfr_sub_port ==
    Port(Mpfrs(<<"a", "b">>) \o RoundsTo, "Result", {},
         subReturns)

-----------------------------------------------------------------------------
(* mpfr_mul: src/ops/mul.ts                                                *)

mpfr_mul_emit_case == Asserts(Rounds2("a", "mpfr", "b"), {}, AnyPrec)
mpfr_mul_happy == Happy(26, One({24, 53, 64, 100, 200}), {"RNDN"},
        (Normal \X Normal \X Ordered) \cup (Normal \X Finite \X Same)
        \cup (Finite \X Normal \X Same))
mpfr_mul_edge == Edge(57, One({1, 53, 64, 80, 100, 200}), Rnds, (Numbers \X Numbers \X Same)
        \cup ({"nan", "normal"} \X {"nan", "normal"} \X Same)
        \cup (Normal \X Normal \X Ordered))
mpfr_mul_adversarial == Adversarial(20, One({2, 53}), Rnds, Normal \X Normal \X Ordered)
mpfr_mul_fuzz == Fuzz(100, One(1..200), Rnds, Normal \X Normal \X Ordered)
mpfr_mul_mined == Mined(7, One({53}), {"RNDN", "RNDZ", "RNDA"},
        (Normal \X Normal \X Unequal) \cup (Normal \X Zero \X Same)
        \cup (Zero \X Normal \X Same))
mpfr_mul_port ==
    Port(Mpfrs(<<"a", "b">>) \o RoundsTo, "Result", {},
         mulReturns)

-----------------------------------------------------------------------------
(* mpfr_div: src/ops/div.ts                                                *)

mpfr_div_emit_case == Asserts(Rounds2("a", "mpfr", "b"), {}, AnyPrec)
mpfr_div_happy == Happy(26, One({24, 53, 64, 100, 200}), {"RNDN"},
        Normal \X Normal \X Ordered)
mpfr_div_edge == Edge(60, One({1, 24, 53, 64, 100}), Rnds,
        ({"inf", "normal"} \X {"inf", "normal"} \X Same)
        \cup ({"nan", "normal"} \X {"nan", "normal"} \X Same)
        \cup (Normal \X Normal \X Ordered) \cup (Finite \X Finite \X Same))
mpfr_div_adversarial == Adversarial(20, One({2, 53}), Rnds, Normal \X Normal \X Ordered)
mpfr_div_fuzz == Fuzz(100, One(1..199), Rnds, Normal \X Normal \X Unequal)
mpfr_div_mined == Mined(7, One({53}), {"RNDN", "RNDZ", "RNDU"}, Normal \X Normal \X Ordered)
mpfr_div_port ==
    Port(Mpfrs(<<"a", "b">>) \o RoundsTo, "Result", {},
         divReturns)

-----------------------------------------------------------------------------
(* mpfr_sqrt: src/ops/sqrt.ts                                              *)

mpfr_sqrt_emit_case == Asserts(Rounds1("x"), {}, AnyPrec)
mpfr_sqrt_happy == Happy(25, One({24, 53, 64, 100, 200}), {"RNDN"}, {"+"} \X Ordered)
mpfr_sqrt_edge == Edge(39, One({1, 24, 53, 200}), Rnds, ({"+"} \X Ordered)
        \cup (Signed \X Same))
mpfr_sqrt_adversarial == Adversarial(15, One({2, 53}), Rnds, {"+"} \X Ordered)
mpfr_sqrt_fuzz == Fuzz(100, One(4..199), Rnds, {"+"} \X Unequal)
mpfr_sqrt_mined == Mined(6, One({53}), {"RNDN", "RNDU", "RNDD"}, {"+"} \X Unequal)
mpfr_sqrt_port ==
    Port(Mpfrs(<<"x">>) \o RoundsTo, "Result", {},
         <<One(NaN), One(Zeros), One({"-inf"}), One({"+inf"}), One({"-"})>> \o Rounded({"+"}))

-----------------------------------------------------------------------------
(* mpfr_abs: src/ops/abs.ts                                                *)

mpfr_abs_emit_case == Asserts(Rounds1("x"), {}, AnyPrec)
mpfr_abs_happy == Happy(25, One({24, 53, 64, 100, 200}), {"RNDN"}, Normal \X {"fits"})
mpfr_abs_edge == Edge(50, One({1, 2, 53, 100, 200}), Rnds, (Singular \X Same)
        \cup (Normal \X {"fits"}))
mpfr_abs_adversarial == Adversarial(34, One({2, 3}), Rnds, Normal \X Ordered)
mpfr_abs_fuzz == Fuzz(60, One({1, 2, 53, 64, 100, 200}), Rnds,
        Normal \X (Ordered \cup {"fits"}))
mpfr_abs_mined == Mined(5, One({4, 53}), {"RNDN"}, (Singular \X Same)
        \cup (Normal \X {"<", "fits"}))
mpfr_abs_port ==
    Port(Mpfrs(<<"x">>) \o RoundsTo, "Result", {},
         <<One(NaN), One(Inf), One(Zero), Normal \X Fits>> \o Rounded(Normal))

-----------------------------------------------------------------------------
(* mpfr_neg: src/ops/neg.ts                                                *)

mpfr_neg_emit_case == Asserts(Rounds1("x"), {}, AnyPrec)
mpfr_neg_happy == Happy(25, One({24, 53, 64, 100, 200}), {"RNDN"}, Normal \X {"fits"})
mpfr_neg_edge == Edge(50, One({1, 2, 53, 100, 200}), Rnds, (Singular \X Same)
        \cup (Normal \X {"fits"}))
mpfr_neg_adversarial == Adversarial(34, One({2, 3}), Rnds, Normal \X Ordered)
mpfr_neg_fuzz == Fuzz(60, One({1, 2, 53, 64, 100, 200}), Rnds,
        Normal \X (Ordered \cup {"fits"}))
mpfr_neg_mined == Mined(5, One({4, 53}), {"RNDN"}, (Singular \X Same)
        \cup (Normal \X {">", "fits"}))
mpfr_neg_port ==
    Port(Mpfrs(<<"x">>) \o RoundsTo, "Result", {},
         <<One(NaN), One(Inf), One(Zero), Normal \X Fits>> \o Rounded(Normal))

-----------------------------------------------------------------------------
(* mpfr_copysign: src/ops/copysign.ts                                      *)

mpfr_copysign_emit_case == Asserts(Rounds2("x", "mpfr", "y"), {}, AnyPrec)
mpfr_copysign_happy == Happy(25, One({24, 53, 64, 100, 200}), {"RNDN"},
        Normal \X Normal \X {"fits"})
mpfr_copysign_edge == Edge(44, One({1, 53, 100, 200}), Rnds, (Singular \X Normal \X Same)
        \cup (Normal \X {"inf", "normal"} \X {"fits"}) \cup (Zero \X Finite \X Same))
mpfr_copysign_adversarial == Adversarial(33, One({2, 3}), Rnds, Normal \X Normal \X Ordered)
mpfr_copysign_fuzz == Fuzz(60, One({1, 2, 53, 64, 100, 200}), Rnds,
        Normal \X Normal \X (Ordered \cup {"fits"}))
mpfr_copysign_mined == Mined(5, One({4, 53}), {"RNDN"}, (NaN \X NaN \X Same)
        \cup (Normal \X Normal \X {">", "fits"}))
mpfr_copysign_port ==
    Port(Mpfrs(<<"x", "y">>) \o RoundsTo, "Result", {},
         <<One(NaN), One(Inf), One(Zero), Normal \X Kinds \X Fits>>
         \o Rounded2(Normal, Kinds))

-----------------------------------------------------------------------------
(* mpfr_setsign: src/ops/setsign.ts                                        *)

mpfr_setsign_emit_case == Asserts(Rounds2("x", "bool", "sign"), {}, AnyPrec)
mpfr_setsign_happy == Happy(25, One({24, 53, 64, 100, 200}), {"RNDN"},
        Normal \X {"FALSE", "TRUE"} \X {"fits"})
mpfr_setsign_edge == Edge(48, One({1, 53, 200}), Rnds,
        (Singular \X {"FALSE", "TRUE"} \X Same)
        \cup (Normal \X {"FALSE", "TRUE"} \X {"fits"}))
mpfr_setsign_adversarial == Adversarial(34, One({2, 3}), Rnds,
        (Normal \X {"FALSE", "TRUE"} \X {"=", ">"}) \cup (Normal \X {"TRUE"} \X Ordered))
mpfr_setsign_fuzz == Fuzz(60, One({1, 2, 53, 64, 100, 200}), Rnds,
        Normal \X {"FALSE", "TRUE"} \X (Ordered \cup {"fits"}))
mpfr_setsign_mined == Mined(5, One({4, 53}), {"RNDN"}, (NaN \X {"TRUE"} \X Same)
        \cup (Normal \X {"FALSE", "TRUE"} \X {"fits"})
        \cup (Normal \X {"TRUE"} \X {">", "fits"}))
mpfr_setsign_port ==
    Port(<<Param("x", "MPFR"), Param("sign", "Boolean")>> \o RoundsTo, "Result", {},
         <<One(NaN), One(Inf), One(Zero), Normal \X Booleans \X Fits>>
         \o Rounded2(Normal, Booleans))

-----------------------------------------------------------------------------
(* mpfr_set4: src/ops/set4.ts                                              *)

mpfr_set4_emit_case ==
    Asserts(Emits(<<Kv(1, "mpfr", "b"), Kv(0, "i64", "prec"), Kv(0, "rnd", "rnd"), Kv(0,
            "int", "signb")>>, "result"), Kinds \X {"0"}, Precs(1, Nat \ {0}))
mpfr_set4_happy == Happy(22, One({24, 53}), Rnds, (Singular \X Nonzero \X Same)
        \cup (Normal \X Nonzero \X (Unequal \cup {"fits", "longer"})))
mpfr_set4_edge == Edge(30, One({1, 3, 4, 10, 53}), Rnds,
        Normal \X Nonzero \X (Ordered \cup {"fits"}))
mpfr_set4_adversarial == Adversarial(12, One({3, 4, 8, 24}), (Rnds \ {"RNDZ"}),
        (Singular \X {"-"} \X Same) \cup (Normal \X Nonzero \X Unequal)
        \cup (Normal \X {"+"} \X Ordered))
mpfr_set4_fuzz == Fuzz(60, One(2..200), Rnds, (Kinds \X Nonzero \X Same)
        \cup (Normal \X Nonzero \X {"=", ">", "longer"}))
mpfr_set4_mined == Mined(5, One({8, 53}), {"RNDN", "RNDU"}, (Normal \X Nonzero \X {"fits"})
        \cup (Normal \X {"-"} \X {">", "fits"}))
mpfr_set4_port ==
    Port(<<Param("b", "MPFR"), Param("prec", "Prec"), Param("rnd", "RoundingMode"),
            Param("signb", "Int")>>, "Result", Kinds \X {"0"},
         <<One(NaN),
           One(Inf),
           One(Zero),
           SetTo(Fits),
           SetTo({"longer"}),
           SetTo(Less),
           SetTo(Same),
           SetTo(Greater)>>)

-----------------------------------------------------------------------------
(* mpfr_set: src/ops/set.ts                                                *)

mpfr_set_emit_case ==
    Asserts(Emits(<<Kv(1, "mpfr", "b"), Kv(0, "i64", "prec"), Kv(0, "rnd", "rnd")>>,
            "result"), {}, Precs(1, Nat \ {0}))
mpfr_set_happy == Happy(22, One({24, 53, 80, 100, 113}), Rnds, (Singular \X Same)
        \cup (Normal \X (Unequal \cup {"fits", "longer"})))
mpfr_set_edge == Edge(33, One({1, 3, 4, 53, 100, 200, 1024}), Rnds, (Kinds \X Same)
        \cup (Normal \X (Ordered \cup {"fits"})))
mpfr_set_adversarial == Adversarial(10, One({3, 4, 8, 24}), (Rnds \ {"RNDZ"}),
        (Kinds \X Same) \cup (Normal \X Ordered))
mpfr_set_fuzz == Fuzz(55, One(2..200), Rnds, (Kinds \X Same)
        \cup (Normal \X (Ordered \cup {"longer"})))
mpfr_set_mined == Mined(5, One({24, 53, 113}), {"RNDN"}, ({"nan", "zero"} \X Same)
        \cup (Normal \X {">", "fits", "longer"}))
mpfr_set_port ==
    Port(Mpfrs(<<"b">>) \o RoundsTo, "Result", {},
         <<One(NaN), One(Inf), One(Zero), Normal \X Fits, Normal \X {"longer"}>>
         \o Rounded(Normal))

-----------------------------------------------------------------------------
(* mpfr_dim: src/ops/dim.ts                                                *)

mpfr_dim_emit_case == Asserts(Rounds2("b", "mpfr", "c"), {}, AnyPrec)
mpfr_dim_happy == Happy(22, One({24, 53}), {"RNDN"}, (Inf \X {"inf", "normal"} \X Greater)
        \cup ({"nan", "normal"} \X NaN \X Unordered)
        \cup (NaN \X {"nan", "normal"} \X Unordered)
        \cup (Normal \X {"inf", "normal"} \X Less) \cup (Normal \X Normal \X Ordered)
        \cup (Normal \X Finite \X Greater) \cup (Finite \X Normal \X Less))
mpfr_dim_edge == Edge(30, One({1, 3, 53, 63, 64, 65, 100}), Rnds, (Inf \X Inf \X Same)
        \cup ({"inf", "normal"} \X Normal \X Less) \cup (NaN \X Inf \X Unordered)
        \cup (Normal \X Normal \X Unequal) \cup (Zero \X Zero \X Same))
mpfr_dim_adversarial == Adversarial(10, One({1, 24, 53}), (Rnds \ {"RNDZ"}),
        (NaN \X NaN \X Unordered) \cup (Normal \X Normal \X Ordered)
        \cup (Zero \X Zero \X Same))
mpfr_dim_fuzz == Fuzz(55, One(1..198), Rnds, ({"inf", "normal"} \X Inf \X Greater)
        \cup (Numbers \X NaN \X Unordered) \cup (Numbers \X Normal \X Less)
        \cup (NaN \X Finite \X Unordered) \cup (Normal \X Finite \X Unequal)
        \cup (Finite \X Normal \X Unequal))
mpfr_dim_mined == Mined(5, One({53}), {"RNDN"}, (Inf \X Inf \X Greater)
        \cup (NaN \X Normal \X Unordered) \cup (Normal \X Normal \X Unequal)
        \cup (Zero \X Zero \X Same))
mpfr_dim_port ==
    Port(Mpfrs(<<"b", "c">>) \o RoundsTo, "Result", {},
         <<Either(NaN, Kinds),
           Numbers \X Numbers \X Greater,
           Numbers \X Numbers \X (Less \cup Same)>>)

-----------------------------------------------------------------------------
(* mpfr_swap: src/ops/swap.ts                                              *)

mpfr_swap_emit_case == Emits2("a", "b", "object")
mpfr_swap_happy == Happy(22, NoPrec, NoRnd, ({"nan", "inf"} \X Numbers)
        \cup (Kinds \X Normal) \cup (Singular \X Finite))
mpfr_swap_edge == Edge(30, NoPrec, NoRnd, ({"nan", "inf"} \X Singular)
        \cup (Normal \X Finite) \cup (Kinds \X Zero))
mpfr_swap_adversarial == Adversarial(10, NoPrec, NoRnd, ({"inf", "normal"} \X Inf)
        \cup (NaN \X NaN) \cup (Finite \X Normal) \cup (Zero \X Finite))
mpfr_swap_fuzz == Fuzz(55, NoPrec, NoRnd, (Kinds \X Normal)
        \cup ({"nan", "zero", "normal"} \X {"inf", "normal"}) \cup (Normal \X Kinds))
mpfr_swap_mined == Mined(5, NoPrec, NoRnd, ({"nan", "inf", "normal"} \X Normal)
        \cup (Normal \X Finite))
mpfr_swap_port ==
    Port(Mpfrs(<<"a", "b">>), "object", {},
         <<Kinds \X Kinds>>)

-----------------------------------------------------------------------------
(* The drivers of this family, as run_all.sh finds them.                   *)

ArithDrivers ==
    "mpfr_add" :> Driver(mpfr_add_emit_case,
        <<mpfr_add_happy, mpfr_add_edge, mpfr_add_adversarial, mpfr_add_fuzz,
        mpfr_add_mined>>, mpfr_add_port)
    @@ "mpfr_sub" :> Driver(mpfr_sub_emit_case,
        <<mpfr_sub_happy, mpfr_sub_edge, mpfr_sub_adversarial, mpfr_sub_fuzz,
        mpfr_sub_mined>>, mpfr_sub_port)
    @@ "mpfr_mul" :> Driver(mpfr_mul_emit_case,
        <<mpfr_mul_happy, mpfr_mul_edge, mpfr_mul_adversarial, mpfr_mul_fuzz,
        mpfr_mul_mined>>, mpfr_mul_port)
    @@ "mpfr_div" :> Driver(mpfr_div_emit_case,
        <<mpfr_div_happy, mpfr_div_edge, mpfr_div_adversarial, mpfr_div_fuzz,
        mpfr_div_mined>>, mpfr_div_port)
    @@ "mpfr_sqrt" :> Driver(mpfr_sqrt_emit_case,
        <<mpfr_sqrt_happy, mpfr_sqrt_edge, mpfr_sqrt_adversarial, mpfr_sqrt_fuzz,
        mpfr_sqrt_mined>>, mpfr_sqrt_port)
    @@ "mpfr_abs" :> Driver(mpfr_abs_emit_case,
        <<mpfr_abs_happy, mpfr_abs_edge, mpfr_abs_adversarial, mpfr_abs_fuzz,
        mpfr_abs_mined>>, mpfr_abs_port)
    @@ "mpfr_neg" :> Driver(mpfr_neg_emit_case,
        <<mpfr_neg_happy, mpfr_neg_edge, mpfr_neg_adversarial, mpfr_neg_fuzz,
        mpfr_neg_mined>>, mpfr_neg_port)
    @@ "mpfr_copysign" :> Driver(mpfr_copysign_emit_case,
        <<mpfr_copysign_happy, mpfr_copysign_edge, mpfr_copysign_adversarial,
        mpfr_copysign_fuzz, mpfr_copysign_mined>>, mpfr_copysign_port)
    @@ "mpfr_setsign" :> Driver(mpfr_setsign_emit_case,
        <<mpfr_setsign_happy, mpfr_setsign_edge, mpfr_setsign_adversarial,
        mpfr_setsign_fuzz, mpfr_setsign_mined>>, mpfr_setsign_port)
    @@ "mpfr_set4" :> Driver(mpfr_set4_emit_case,
        <<mpfr_set4_happy, mpfr_set4_edge, mpfr_set4_adversarial, mpfr_set4_fuzz,
        mpfr_set4_mined>>, mpfr_set4_port)
    @@ "mpfr_set" :> Driver(mpfr_set_emit_case,
        <<mpfr_set_happy, mpfr_set_edge, mpfr_set_adversarial, mpfr_set_fuzz,
        mpfr_set_mined>>, mpfr_set_port)
    @@ "mpfr_dim" :> Driver(mpfr_dim_emit_case,
        <<mpfr_dim_happy, mpfr_dim_edge, mpfr_dim_adversarial, mpfr_dim_fuzz,
        mpfr_dim_mined>>, mpfr_dim_port)
    @@ "mpfr_swap" :> Driver(mpfr_swap_emit_case,
        <<mpfr_swap_happy, mpfr_swap_edge, mpfr_swap_adversarial, mpfr_swap_fuzz,
        mpfr_swap_mined>>, mpfr_swap_port)

=============================================================================
