---------------------------- MODULE GoldenRound -----------------------------
(***************************************************************************)
(* The golden drivers of the functions that round to an integer, split a   *)
(* value, or step to a neighbour, and the ports they grade.                *)
(***************************************************************************)
EXTENDS GoldenWire

-----------------------------------------------------------------------------
(* The last member of an operand tuple says how the result compares with   *)
(* the exact one, as its ternary value tells; for a step to a neighbour,   *)
(* whether it stays within the binade, leaves it, or leaves the last one.  *)

Rounded(S) == <<S \X Less, S \X Same, S \X Greater>>
Small == {"+small", "-small"}
Halves == {"+half", "-half"}
Bigs == {"+big", "-big"}

\* mpfr_nexttozero and mpfr_nexttoinf: an infinity, a zero, a normal value.
stepReturns(S) ==
    <<One(Infs \cap S), One(Zeros \cap S), (Normals \cap S) \X {"within"},
      (Normals \cap S) \X {"last"}, (Normals \cap S) \X {"binade"}>>

-----------------------------------------------------------------------------
(* mpfr_rint: src/ops/rint.ts                                              *)

mpfr_rint_emit_case == Asserts(Rounds1("u"), {}, AnyPrec)
mpfr_rint_happy == Happy(25, One({24, 53, 64, 100, 113, 200}), Rnds, One(Large))
mpfr_rint_edge == Edge(52, One({1, 2, 3, 53, 200}), Rnds, One(SizedValues))
mpfr_rint_adversarial == Adversarial(21, One({1, 2, 53}), Rnds, One(Large))
mpfr_rint_fuzz == Fuzz(60, One({1, 2, 53, 64, 100, 200}), Rnds,
        One(Large \cup {"+small", "-small"}))
mpfr_rint_mined == Mined(8, One({29, 53}), {"RNDN", "RNDU"},
        One({"nan", "+inf", "-inf", "+0", "-0", "+int", "-int", "+small"}))
mpfr_rint_port ==
    Port(Mpfrs(<<"u">>) \o RoundsTo, "Result", {},
         <<One(NaN),
           One(Infs),
           One(Zeros),
           Sized \X {"RNDZ"},
           Sized \X {"RNDU"},
           Sized \X {"RNDD"},
           Positives \X {"RNDA"},
           Negatives \X {"RNDA"},
           Small \X {"RNDN"},
           Halves \X {"RNDN"},
           Bigs \X {"RNDN"},
           Sized \X {"RNDN"}>>)

-----------------------------------------------------------------------------
(* mpfr_rint_trunc: src/ops/rint_trunc.ts                                  *)

mpfr_rint_trunc_emit_case == Asserts(Rounds1("u"), {}, AnyPrec)
mpfr_rint_trunc_happy == Happy(25, One({24, 53, 64, 100, 113, 200}), Rnds, Large \X Same)
mpfr_rint_trunc_edge == Edge(46, One({1, 2, 3, 53, 200}), Rnds, (SizedValues \X Same)
        \cup (Tails \X Ordered))
mpfr_rint_trunc_adversarial == Adversarial(14, One({1, 2, 4}), Rnds,
        ({"+int", "+tail", "-tail"} \X Greater) \cup ({"-int", "+tail", "-tail"} \X Less))
mpfr_rint_trunc_fuzz == Fuzz(60, One({1, 2, 53, 64, 100, 200}), Rnds,
        ((Large \cup {"+small", "-small"}) \X Same)
        \cup ({"+int", "+tail", "-tail"} \X {"=", ">"})
        \cup ({"-int", "+tail", "-tail"} \X {"<", "="}))
mpfr_rint_trunc_mined == Mined(8, One({2, 4, 53}), {"RNDN", "RNDZ"},
        (Special \cup {"+int", "+tail"}) \X Same)
mpfr_rint_trunc_port ==
    Port(Mpfrs(<<"u">>) \o RoundsTo, "Result", {},
         <<One(Signed), Integers \X Less, Integers \X Same,
                 Integers \X Greater>> \o Rounded(Sized))

-----------------------------------------------------------------------------
(* mpfr_round: src/ops/round.ts                                            *)

mpfr_round_emit_case ==
    Asserts(Emits(<<Kv(1, "mpfr", "x"), Kv(0, "u64", "prec")>>, "result"), {}, AnyPrec)
mpfr_round_happy == Happy(25, One({24, 53, 64, 100, 200}), NoRnd,
        ({"+0", "+int", "-int"} \X Same) \cup (Tails \X Unequal))
mpfr_round_edge == Edge(42, One({1, 2, 3, 53, 100, 200}), NoRnd,
        ((Special \cup Integers) \X Same)
        \cup ({"+tail", "-tail", "+big", "+half", "-small"} \X Greater)
        \cup ({"+tail", "-tail", "-big", "-half", "+small"} \X Less))
mpfr_round_adversarial == Adversarial(16, One({1, 2, 3, 53}), NoRnd,
        ((Tails \cup {"+big", "+half"}) \X Greater) \cup ({"+int"} \X Same)
        \cup ((Tails \cup {"-half", "+small"}) \X Less))
mpfr_round_fuzz == Fuzz(60, One({1, 2, 53, 64, 100, 200}), NoRnd,
        ((Tails \cup {"+int", "+small"}) \X Less) \cup (Integers \X Same)
        \cup ({"+tail", "-tail", "-small"} \X Greater))
mpfr_round_mined == Mined(5, One({1, 2, 3, 53, 84}), NoRnd, {"+tail", "+big"} \X Greater)
mpfr_round_port ==
    Port(<<Param("x", "MPFR"), Param("prec", "Prec")>>, "Result", {},
         <<One(NaN), One(Infs), One(Zeros), Small \X Unequal, Fractions \X Unequal>>
         \o Rounded(Sized))

-----------------------------------------------------------------------------
(* mpfr_roundeven: src/ops/roundeven.ts                                    *)

mpfr_roundeven_emit_case ==
    Asserts(Emits(<<Kv(1, "mpfr", "x"), Kv(0, "u64", "prec")>>, "result"), {}, AnyPrec)
mpfr_roundeven_happy == Happy(25, One({24, 53, 64, 100, 113, 200}), NoRnd,
        (Integers \X Same) \cup (Tails \X Unequal))
mpfr_roundeven_edge == Edge(41, One({1, 2, 3, 53, 200}), NoRnd,
        ((Special \cup Integers) \X Same)
        \cup ({"+tail", "-tail", "+big", "-half", "-small"} \X Greater)
        \cup ({"+tail", "-tail", "-big", "+half", "+small"} \X Less))
mpfr_roundeven_adversarial == Adversarial(15, One({1, 2, 4, 53}), NoRnd,
        ({"+int", "+tail", "-tail"} \X Less) \cup ({"-int", "+tail", "-tail"} \X Greater))
mpfr_roundeven_fuzz == Fuzz(60, One({1, 2, 53, 64, 100, 200}), NoRnd,
        (Integers \X {"=", ">"}) \cup ({"+tail", "-tail", "+small"} \X Less)
        \cup ((Large \cup {"-small"}) \X Greater))
mpfr_roundeven_mined == Mined(8, One({2, 29, 53}), NoRnd, ((Special \cup {"+int"}) \X Same)
        \cup ({"-int"} \X Less) \cup ({"-tail"} \X Greater))
mpfr_roundeven_port ==
    Port(<<Param("x", "MPFR"), Param("prec", "Prec")>>, "Result", {},
         <<One(NaN), One(Infs), One(Zeros), Small \X Unequal, Halves \X Unequal,
           Bigs \X Unequal>> \o Rounded(Sized))

-----------------------------------------------------------------------------
(* mpfr_trunc: src/ops/trunc.ts                                            *)

mpfr_trunc_emit_case ==
    Asserts(Emits(<<Kv(1, "mpfr", "x"), Kv(0, "u64", "prec")>>, "result"), {}, AnyPrec)
mpfr_trunc_happy == Happy(25, One({24, 53, 64, 100, 200}), NoRnd,
        ({"+0", "+int", "-int"} \X Same) \cup ({"+tail"} \X Less)
        \cup ({"-tail"} \X Greater))
mpfr_trunc_edge == Edge(39, One({1, 2, 3, 53, 200}), NoRnd,
        ((Special \cup Integers) \X Same) \cup (Positives \X Less)
        \cup (Negatives \X Greater))
mpfr_trunc_adversarial == Adversarial(15, One({1, 2, 3, 53}), NoRnd,
        ({"+int", "+tail"} \X Less) \cup (Integers \X Same)
        \cup ((Negatives \ {"-half"}) \X Greater))
mpfr_trunc_fuzz == Fuzz(60, One({1, 2, 53, 64, 100, 200}), NoRnd,
        ({"+int", "+tail", "+small"} \X Less) \cup (Integers \X Same)
        \cup ({"-int", "-tail", "-small"} \X Greater))
mpfr_trunc_mined == Mined(5, One(2..4), NoRnd, ({"+tail", "+small"} \X Less)
        \cup ({"-tail", "-small"} \X Greater))
mpfr_trunc_port ==
    Port(<<Param("x", "MPFR"), Param("prec", "Prec")>>, "Result", {},
         <<One(NaN), One(Infs), One(Zeros), Fractions \X Unequal>> \o Rounded(Sized))

-----------------------------------------------------------------------------
(* mpfr_floor: src/ops/floor.ts                                            *)

mpfr_floor_emit_case ==
    Asserts(Emits(<<Kv(1, "mpfr", "x"), Kv(0, "u64", "prec")>>, "result"), {}, AnyPrec)
mpfr_floor_happy == Happy(25, One({24, 53, 64, 100}), NoRnd, (Integers \X Same)
        \cup (Tails \X Less))
mpfr_floor_edge == Edge(41, One({1, 2, 3, 53, 200}), NoRnd,
        ((Special \cup Integers) \X Same) \cup (Sized \X Less))
mpfr_floor_adversarial == Adversarial(15, One({1, 2, 3, 53, 200}), NoRnd,
        ({"+int", "-int", "-tail", "+half", "-half", "-small"} \X Less)
        \cup (Integers \X {"<", "="}))
mpfr_floor_fuzz == Fuzz(60, One({1, 2, 53, 64, 100, 200}), NoRnd,
        ((Large \cup {"+small", "-small"}) \X Less) \cup (Integers \X {"<", "="}))
mpfr_floor_mined == Mined(5, One(2..4), NoRnd, (Tails \cup {"+small", "-small"}) \X Less)
mpfr_floor_port ==
    Port(<<Param("x", "MPFR"), Param("prec", "Prec")>>, "Result", {},
         <<One(NaN), One(Infs), One(Zeros), (Fractions \cap Positives) \X Unequal,
           (Fractions \cap Negatives) \X Unequal, Sized \X Same, Sized \X Less>>)

-----------------------------------------------------------------------------
(* mpfr_ceil: src/ops/ceil.ts                                              *)

mpfr_ceil_emit_case ==
    Asserts(Emits(<<Kv(1, "mpfr", "x"), Kv(0, "u64", "prec")>>, "result"), {}, AnyPrec)
mpfr_ceil_happy == Happy(25, One({24, 53, 64, 100}), NoRnd, (Integers \X Same)
        \cup (Tails \X Greater))
mpfr_ceil_edge == Edge(41, One({1, 2, 3, 53, 200}), NoRnd, ((Special \cup Integers) \X Same)
        \cup (Sized \X Greater))
mpfr_ceil_adversarial == Adversarial(14, One({1, 2, 3, 53, 200}), NoRnd,
        ({"+int", "-int", "+tail", "+half", "-half", "+small"} \X Greater)
        \cup (Integers \X {"=", ">"}))
mpfr_ceil_fuzz == Fuzz(60, One({1, 2, 53, 64, 100, 200}), NoRnd, (Integers \X {"=", ">"})
        \cup ((Large \cup {"+small", "-small"}) \X Greater))
mpfr_ceil_mined == Mined(5, One(2..4), NoRnd, (Tails \cup {"+small", "-small"}) \X Greater)
mpfr_ceil_port ==
    Port(<<Param("x", "MPFR"), Param("prec", "Prec")>>, "Result", {},
         <<One(NaN), One(Infs), One(Zeros), (Fractions \cap Positives) \X Unequal,
           (Fractions \cap Negatives) \X Unequal, Sized \X Same, Sized \X Greater>>)

-----------------------------------------------------------------------------
(* mpfr_frac: src/ops/frac.ts                                              *)

mpfr_frac_emit_case == Asserts(Rounds1("u"), {}, AnyPrec)
mpfr_frac_happy == Happy(25, One({24, 53, 64, 100, 113, 200}), Rnds, Tails \X Same)
mpfr_frac_edge == Edge(44, One({1, 4, 8, 53, 200}), Rnds,
        ((SizedValues \ {"+big", "-big"}) \X Same) \cup ({"+tail", "+small"} \X {"=", ">"})
        \cup ({"+tail", "-tail", "-small"} \X {"<", "="}))
mpfr_frac_adversarial == Adversarial(14, One({3, 4}), Rnds,
        (Tails \cup {"+big", "-big"}) \X Unequal)
mpfr_frac_fuzz == Fuzz(60, One({1, 2, 53, 64, 100, 200}), Rnds,
        ((Large \cup {"+small", "-small"}) \X Same)
        \cup ({"+tail", "-tail", "+small"} \X Ordered)
        \cup ((Tails \cup {"+small", "-small"}) \X {"<", "="}))
mpfr_frac_mined == Mined(10, One({3, 13, 26, 53, 70}), Rnds,
        ({"nan", "+inf", "+int", "+tail"} \X Same) \cup ({"+tail"} \X Ordered))
mpfr_frac_port ==
    Port(Mpfrs(<<"u">>) \o RoundsTo, "Result", {},
         <<One(NaN), One(Infs \cup Zeros \cup Integers), Fractions \X Less, Fractions \X Same,
           Fractions \X Greater>> \o Rounded(Tails))

-----------------------------------------------------------------------------
(* mpfr_modf: src/ops/modf.ts                                              *)

mpfr_modf_emit_case ==
    Asserts(Emits(<<Kv(1, "mpfr", "x"), Kv(0, "u64", "iprec"), Kv(0, "u64", "fprec"), Kv(0,
            "rnd", "rnd")>>, "object"), {}, Precs(2, 1..PREC_MAX))
mpfr_modf_happy == Happy(20, Alike(2, {53}), Rnds, One(Sized \ {"-big", "-small"}))
mpfr_modf_edge == Edge(30, {1, 5, 10, 53, 100, 200} \X {1, 5, 10, 53, 100, 200},
        {"RNDN", "RNDZ", "RNDU"}, One(SizedValues \ {"+half", "-half"}))
mpfr_modf_adversarial == Adversarial(12, {<<1, 53>>, <<2, 2>>, <<53, 53>>}, Rnds,
        One(Tails))
mpfr_modf_fuzz == Fuzz(50, {1, 2, 24, 53, 64, 100} \X {1, 2, 24, 53, 64, 100}, Rnds,
        One({"nan", "+inf", "-inf", "+0", "-0", "-int", "+tail", "-tail"}))
mpfr_modf_mined == Mined(5, Alike(2, {24, 123}), {"RNDN"},
        One({"nan", "+inf", "-inf", "+tail", "-tail"}))
mpfr_modf_port ==
    Needs(Port(<<Param("x", "MPFR"), Param("iprec", "ULong"), Param("fprec", "ULong"),
            Param("rnd", "RoundingMode")>>, "object", {},
         <<One(NaN),
           One(Infs),
           One(Zeros),
           One(Fractions),
           One(Integers),
           One(Tails)>>),
          Precs(2, 1..PREC_MAX))

-----------------------------------------------------------------------------
(* mpfr_nexttozero: src/ops/nexttozero.ts                                  *)

\* NaN has an emitter of its own, which calls nothing and asserts nothing.
mpfr_nexttozero_emit_case == Emits1("x", "mpfr")
mpfr_nexttozero_happy == Happy(22, NoPrec, NoRnd, Normals \X {"binade", "within"})
mpfr_nexttozero_edge == Edge(35, NoPrec, NoRnd, (Normals \X {"binade", "last"})
        \cup ({"+"} \X {"binade", "last", "within"}) \cup (Special \X {"kind"}))
mpfr_nexttozero_adversarial == Adversarial(12, NoPrec, NoRnd,
        Normals \X {"binade", "within"})
mpfr_nexttozero_fuzz == Fuzz(55, NoPrec, NoRnd, Normals \X {"binade", "within"})
mpfr_nexttozero_mined == Mined(6, NoPrec, NoRnd, ({"+"} \X {"binade", "within"})
        \cup ({"nan", "+inf"} \X {"kind"}))
mpfr_nexttozero_port ==
    Port(Mpfrs(<<"x">>), "MPFR", {},
         <<One(NaN)>> \o stepReturns(SignedNumbers))

-----------------------------------------------------------------------------
(* mpfr_nexttoinf: src/ops/nexttoinf.ts                                    *)

mpfr_nexttoinf_emit_case == Emits1("x", "mpfr")
mpfr_nexttoinf_happy == Happy(22, NoPrec, NoRnd, Normals \X {"binade", "within"})
mpfr_nexttoinf_edge == Edge(36, NoPrec, NoRnd, (Normals \X {"binade", "last"})
        \cup ({"+"} \X {"binade", "last", "within"}) \cup (Special \X {"kind"}))
mpfr_nexttoinf_adversarial == Adversarial(12, NoPrec, NoRnd,
        ({"+"} \X {"binade", "last", "within"}) \cup (Normals \X {"binade"}))
mpfr_nexttoinf_fuzz == Fuzz(55, NoPrec, NoRnd, Normals \X {"binade", "within"})
mpfr_nexttoinf_mined == Mined(6, NoPrec, NoRnd, ({"+"} \X {"within"})
        \cup ({"nan", "+inf"} \X {"kind"}))
mpfr_nexttoinf_port ==
    Port(Mpfrs(<<"x">>), "MPFR", {},
         <<One(NaN)>> \o stepReturns(SignedNumbers))

-----------------------------------------------------------------------------
(* mpfr_nextabove: src/ops/nextabove.ts                                    *)

mpfr_nextabove_emit_case == Emits1("x", "mpfr")
mpfr_nextabove_happy == Happy(22, NoPrec, NoRnd, (Normals \X {"within"})
        \cup ({"-"} \X {"binade", "within"}))
mpfr_nextabove_edge == Edge(36, NoPrec, NoRnd, (Normals \X {"binade", "last", "within"})
        \cup (Special \X {"kind"}))
mpfr_nextabove_adversarial == Adversarial(12, NoPrec, NoRnd,
        Normals \X {"binade", "within"})
mpfr_nextabove_fuzz == Fuzz(55, NoPrec, NoRnd, Normals \X {"binade", "within"})
mpfr_nextabove_mined == Mined(6, NoPrec, NoRnd, ({"+"} \X {"within"})
        \cup ({"nan", "+inf", "-inf"} \X {"kind"}))
mpfr_nextabove_port ==
    Port(Mpfrs(<<"x">>), "MPFR", {},
         <<One(NaN)>> \o stepReturns(Negative) \o stepReturns(SignedNumbers))

-----------------------------------------------------------------------------
(* mpfr_nextbelow: src/ops/nextbelow.ts                                    *)

mpfr_nextbelow_emit_case == Emits1("x", "mpfr")
mpfr_nextbelow_happy == Happy(22, NoPrec, NoRnd, ({"+"} \X {"binade", "within"})
        \cup (Normals \X {"within"}))
mpfr_nextbelow_edge == Edge(36, NoPrec, NoRnd, (Normals \X {"binade", "last", "within"})
        \cup (Special \X {"kind"}))
mpfr_nextbelow_adversarial == Adversarial(12, NoPrec, NoRnd,
        Normals \X {"binade", "within"})
mpfr_nextbelow_fuzz == Fuzz(55, NoPrec, NoRnd, Normals \X {"binade", "within"})
mpfr_nextbelow_mined == Mined(6, NoPrec, NoRnd, ({"+"} \X {"binade", "within"})
        \cup ({"nan", "+inf", "-inf"} \X {"kind"}))
mpfr_nextbelow_port ==
    Port(Mpfrs(<<"x">>), "MPFR", {},
         <<One(NaN)>> \o stepReturns(Negative) \o stepReturns(SignedNumbers))

-----------------------------------------------------------------------------
(* mpfr_nexttoward: src/ops/nexttoward.ts                                  *)

mpfr_nexttoward_emit_case == Emits2("x", "y", "mpfr")
mpfr_nexttoward_happy == Happy(22, NoPrec, NoRnd, (Normal \X {"inf", "normal"} \X Unequal)
        \cup (Normal \X Normal \X Ordered) \cup (Normal \X Numbers \X Less)
        \cup (Finite \X Normal \X Greater))
mpfr_nexttoward_edge == Edge(34, NoPrec, NoRnd, (Numbers \X {"inf", "normal"} \X Less)
        \cup (Inf \X Inf \X {"<", "="}) \cup (Kinds \X NaN \X Unordered)
        \cup (Numbers \X Normal \X Unequal)
        \cup (NaN \X {"nan", "inf", "normal"} \X Unordered)
        \cup (Normal \X Finite \X Greater) \cup (Zero \X {"inf", "normal"} \X Unequal)
        \cup (Zero \X Zero \X Same))
mpfr_nexttoward_adversarial == Adversarial(12, NoPrec, NoRnd,
        ({"inf", "normal"} \X Inf \X Unequal) \cup (Normal \X Normal \X Ordered)
        \cup (Normal \X Numbers \X Greater))
mpfr_nexttoward_fuzz == Fuzz(55, NoPrec, NoRnd, Normal \X Normal \X Unequal)
mpfr_nexttoward_mined == Mined(6, NoPrec, NoRnd, (NaN \X Normal \X Unordered)
        \cup (Normal \X NaN \X Unordered) \cup (Normal \X Normal \X Ordered))
mpfr_nexttoward_port ==
    Port(Mpfrs(<<"x", "y">>), "MPFR", {},
         <<NaN \X Kinds,
           Kinds \X NaN,
           Kinds \X Kinds \X Same,
           Kinds \X Kinds \X Less,
           Kinds \X Kinds \X Greater>>)

-----------------------------------------------------------------------------
(* mpfr_setmax: src/ops/setmax.ts                                          *)

mpfr_setmax_emit_case ==
    Asserts(Emits(<<Kv(1, "u64", "prec"), Kv(0, "i64", "exp"), Kv(0, "int", "sign")>>,
            "mpfr"), (Exponents \X {"0"}) \cup ({"far"} \X Nonzero), Precs(1,
                    1..MAX_ALLOC_PREC))
mpfr_setmax_happy == Happy(25, One({24, 53, 64, 100, 113, 128, 256}), NoRnd,
        Integral \X Nonzero)
mpfr_setmax_edge == Edge(50,
        One({1, 50, 51, 52, 53, 54, 63, 64, 65, 127, 128, 129, 1024, 2048, 4096, 65535,
                65536}),
        NoRnd, Integral \X Nonzero)
mpfr_setmax_adversarial == Adversarial(15,
        One({1, 53, 63, 64, 65, 127, 256, 1009, 1024, 65521, 65536}), NoRnd,
        (Unsigned \X Nonzero) \cup (Integral \X {"-"}))
mpfr_setmax_fuzz == Fuzz(60, One(33..1927), NoRnd, Nonzero \X Nonzero)
mpfr_setmax_mined == Mined(5, One({8, 24, 53}), NoRnd, (Unsigned \X {"+"})
        \cup ({"+"} \X Nonzero))
mpfr_setmax_port ==
    Port(<<Param("prec", "Prec"), Param("exp", "Long"), Param("sign", "Int")>>, "MPFR",
            Exponents \X {"0"},
         <<Integral \X Nonzero>>)

-----------------------------------------------------------------------------
(* mpfr_setmin: src/ops/setmin.ts                                          *)

mpfr_setmin_emit_case ==
    Asserts(Emits(<<Kv(1, "u64", "prec"), Kv(0, "i64", "exp"), Kv(0, "int", "sign")>>,
            "mpfr"), (Exponents \X {"0"}) \cup ({"far"} \X Nonzero), Precs(1,
                    1..MAX_ALLOC_PREC))
mpfr_setmin_happy == Happy(25, One({24, 53, 64, 100, 113, 128, 256}), NoRnd,
        Integral \X Nonzero)
mpfr_setmin_edge == Edge(50,
        One({1, 50, 51, 52, 53, 54, 63, 64, 65, 127, 128, 129, 1024, 2048, 4096, 65535,
                65536}),
        NoRnd, Integral \X Nonzero)
mpfr_setmin_adversarial == Adversarial(15,
        One({1, 53, 63, 64, 65, 127, 256, 1009, 1024, 65521, 65536}), NoRnd,
        (Unsigned \X Nonzero) \cup (Integral \X {"-"}))
mpfr_setmin_fuzz == Fuzz(60, One(46..2033), NoRnd, Nonzero \X Nonzero)
mpfr_setmin_mined == Mined(5, One({8, 53}), NoRnd, (Integral \X {"+"})
        \cup ({"+"} \X Nonzero))
mpfr_setmin_port ==
    Port(<<Param("prec", "Prec"), Param("exp", "Long"), Param("sign", "Int")>>, "MPFR",
            Exponents \X {"0"},
         <<Integral \X Nonzero>>)

-----------------------------------------------------------------------------
(* The drivers of this family, as run_all.sh finds them.                   *)

RoundDrivers ==
    "mpfr_rint" :> Driver(mpfr_rint_emit_case,
        <<mpfr_rint_happy, mpfr_rint_edge, mpfr_rint_adversarial, mpfr_rint_fuzz,
        mpfr_rint_mined>>, mpfr_rint_port)
    @@ "mpfr_rint_trunc" :> Driver(mpfr_rint_trunc_emit_case,
        <<mpfr_rint_trunc_happy, mpfr_rint_trunc_edge, mpfr_rint_trunc_adversarial,
        mpfr_rint_trunc_fuzz, mpfr_rint_trunc_mined>>, mpfr_rint_trunc_port)
    @@ "mpfr_round" :> Driver(mpfr_round_emit_case,
        <<mpfr_round_happy, mpfr_round_edge, mpfr_round_adversarial, mpfr_round_fuzz,
        mpfr_round_mined>>, mpfr_round_port)
    @@ "mpfr_roundeven" :> Driver(mpfr_roundeven_emit_case,
        <<mpfr_roundeven_happy, mpfr_roundeven_edge, mpfr_roundeven_adversarial,
        mpfr_roundeven_fuzz, mpfr_roundeven_mined>>, mpfr_roundeven_port)
    @@ "mpfr_trunc" :> Driver(mpfr_trunc_emit_case,
        <<mpfr_trunc_happy, mpfr_trunc_edge, mpfr_trunc_adversarial, mpfr_trunc_fuzz,
        mpfr_trunc_mined>>, mpfr_trunc_port)
    @@ "mpfr_floor" :> Driver(mpfr_floor_emit_case,
        <<mpfr_floor_happy, mpfr_floor_edge, mpfr_floor_adversarial, mpfr_floor_fuzz,
        mpfr_floor_mined>>, mpfr_floor_port)
    @@ "mpfr_ceil" :> Driver(mpfr_ceil_emit_case,
        <<mpfr_ceil_happy, mpfr_ceil_edge, mpfr_ceil_adversarial, mpfr_ceil_fuzz,
        mpfr_ceil_mined>>, mpfr_ceil_port)
    @@ "mpfr_frac" :> Driver(mpfr_frac_emit_case,
        <<mpfr_frac_happy, mpfr_frac_edge, mpfr_frac_adversarial, mpfr_frac_fuzz,
        mpfr_frac_mined>>, mpfr_frac_port)
    @@ "mpfr_modf" :> Driver(mpfr_modf_emit_case,
        <<mpfr_modf_happy, mpfr_modf_edge, mpfr_modf_adversarial, mpfr_modf_fuzz,
        mpfr_modf_mined>>, mpfr_modf_port)
    @@ "mpfr_nexttozero" :> Driver(mpfr_nexttozero_emit_case,
        <<mpfr_nexttozero_happy, mpfr_nexttozero_edge, mpfr_nexttozero_adversarial,
        mpfr_nexttozero_fuzz, mpfr_nexttozero_mined>>, mpfr_nexttozero_port)
    @@ "mpfr_nexttoinf" :> Driver(mpfr_nexttoinf_emit_case,
        <<mpfr_nexttoinf_happy, mpfr_nexttoinf_edge, mpfr_nexttoinf_adversarial,
        mpfr_nexttoinf_fuzz, mpfr_nexttoinf_mined>>, mpfr_nexttoinf_port)
    @@ "mpfr_nextabove" :> Driver(mpfr_nextabove_emit_case,
        <<mpfr_nextabove_happy, mpfr_nextabove_edge, mpfr_nextabove_adversarial,
        mpfr_nextabove_fuzz, mpfr_nextabove_mined>>, mpfr_nextabove_port)
    @@ "mpfr_nextbelow" :> Driver(mpfr_nextbelow_emit_case,
        <<mpfr_nextbelow_happy, mpfr_nextbelow_edge, mpfr_nextbelow_adversarial,
        mpfr_nextbelow_fuzz, mpfr_nextbelow_mined>>, mpfr_nextbelow_port)
    @@ "mpfr_nexttoward" :> Driver(mpfr_nexttoward_emit_case,
        <<mpfr_nexttoward_happy, mpfr_nexttoward_edge, mpfr_nexttoward_adversarial,
        mpfr_nexttoward_fuzz, mpfr_nexttoward_mined>>, mpfr_nexttoward_port)
    @@ "mpfr_setmax" :> Driver(mpfr_setmax_emit_case,
        <<mpfr_setmax_happy, mpfr_setmax_edge, mpfr_setmax_adversarial,
        mpfr_setmax_fuzz, mpfr_setmax_mined>>, mpfr_setmax_port)
    @@ "mpfr_setmin" :> Driver(mpfr_setmin_emit_case,
        <<mpfr_setmin_happy, mpfr_setmin_edge, mpfr_setmin_adversarial,
        mpfr_setmin_fuzz, mpfr_setmin_mined>>, mpfr_setmin_port)

=============================================================================
