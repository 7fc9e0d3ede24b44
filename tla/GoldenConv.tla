----------------------------- MODULE GoldenConv -----------------------------
(***************************************************************************)
(* The golden drivers of the conversions and accessors, and the ports they *)
(* grade.                                                                  *)
(***************************************************************************)
EXTENDS GoldenWire

-----------------------------------------------------------------------------
(* The last member of an operand tuple says whether the precision holds    *)
(* the value, or how the rounded result compares with it; for a double,    *)
(* how it comes to its range; for an integer, which part of the value is   *)
(* one.                                                                    *)

Fits == {"fits"}
Rounded(S) == <<S \X Less, S \X Same, S \X Greater>>
How(S, ends) == [k \in DOMAIN ends |-> S \X {ends[k]}]

\* mpfr_get_d: past the range at either end; exact; rounded up past the range, or
\* from the denormals to the least normal double; a denormal; rounded.
getdEnds ==
    <<"over", "under", "fits", "carries over", "carries", "denormal", "rounds">>

\* roundToInteger: nothing behind the point; nothing before it, by the rounding
\* mode; both.
toInteger(S) ==
    <<S \X {"whole"}>>
    \o [k \in 1..5 |-> S \X {"below 1"} \X {<<"RNDZ", "RNDA", "RNDD", "RNDU", "RNDN">>[k]}]
    \o <<S \X {"mixed"}>>

-----------------------------------------------------------------------------
(* mpfr_set_d: src/ops/set_d.ts                                            *)

mpfr_set_d_emit_case ==
    Asserts(Emits(<<Kv(1, "double", "d")>> \o PrecRnd, "result"), {}, AnyPrec)
mpfr_set_d_happy == Happy(25, One({24, 53, 64, 100, 113, 200, 256}), {"RNDN"},
        ({"+"} \X {">", "fits"}) \cup (Normals \X {"fits"}))
mpfr_set_d_edge == Edge(56, One({1, 2, 3, 8, 52, 53, 54, 200, 256, 1024}), Rnds,
        (Normals \X {"<", ">", "fits"}) \cup ({"+"} \X (Ordered \cup {"fits"}))
        \cup (Signed \X {"fits"}))
mpfr_set_d_adversarial == Adversarial(18, One({1, 2, 10}), Rnds, Normals \X Unequal)
mpfr_set_d_fuzz == Fuzz(100, One(4..256), Rnds, Normals \X {"<", ">", "fits"})
mpfr_set_d_mined == Mined(5, One({2, 32, 53}), {"RNDN", "RNDU"}, ({"+"} \X Ordered)
        \cup ({"-"} \X {">", "fits"}))
mpfr_set_d_port ==
    Port(<<Param("d", "Double")>> \o RoundsTo, "Result", {},
         <<One(NaN), One({"+inf"}), One({"-inf"}), One({"-0"}), One({"+0"}),
           Normals \X Fits>> \o Rounded(Normals))

-----------------------------------------------------------------------------
(* mpfr_get_d: src/ops/get_d.ts                                            *)

mpfr_get_d_emit_case == Emits(<<Kv(1, "mpfr", "x"), Kv(0, "rnd", "rnd")>>, "double")
mpfr_get_d_happy == Happy(25, NoPrec, {"RNDN"}, Normals \X {"fits", "rounds"})
mpfr_get_d_edge == Edge(65, NoPrec, Rnds, (Normals \X {"denormal", "fits", "over", "under"})
        \cup ({"+"} \X {"denormal", "fits", "over", "rounds", "under"})
        \cup (Special \X {"kind"}))
mpfr_get_d_adversarial == Adversarial(12, NoPrec, Rnds, {"+"} \X {"carries over", "rounds"})
mpfr_get_d_fuzz == Fuzz(60, NoPrec, Rnds, Normals \X {"fits", "rounds"})
mpfr_get_d_mined == Mined(5, NoPrec, {"RNDZ", "RNDD", "RNDA"}, (Normals \X {"over"})
        \cup ({"+"} \X {"over", "under"}) \cup (Infs \X {"kind"}))
mpfr_get_d_port ==
    Port(<<Param("x", "MPFR"), Param("rnd", "RoundingMode")>>, "number", {},
         <<One(NaN), One(Infs), One(Zeros)>> \o How(Normals, getdEnds))

-----------------------------------------------------------------------------
(* mpfr_get_d1: src/ops/get_d1.ts                                          *)

\* At the default rounding mode.
mpfr_get_d1_emit_case == Emits1("x", "double")
mpfr_get_d1_happy == Happy(25, NoPrec, NoRnd, (Normals \X {"fits", "rounds"})
        \cup ({"+0"} \X {"kind"}))
mpfr_get_d1_edge == Edge(30, NoPrec, NoRnd, (Normals \X {"fits"})
        \cup ({"+"} \X {"fits", "rounds"}) \cup (Special \X {"kind"}))
mpfr_get_d1_adversarial == Adversarial(12, NoPrec, NoRnd, Normals \X {"fits", "rounds"})
mpfr_get_d1_fuzz == Fuzz(55, NoPrec, NoRnd, Normals \X {"fits", "rounds"})
mpfr_get_d1_mined == Mined(5, NoPrec, NoRnd, ({"+"} \X {"fits"})
        \cup ({"nan", "+inf", "+0"} \X {"kind"}))
mpfr_get_d1_port ==
    Port(Mpfrs(<<"x">>), "number", {},
         <<One(NaN), One(Infs), One(Zeros)>> \o How(Normals, getdEnds))

-----------------------------------------------------------------------------
(* mpfr_get_d_2exp: src/ops/get_d_2exp.ts                                  *)

mpfr_get_d_2exp_emit_case == Emits(<<Kv(1, "mpfr", "x"), Kv(0, "rnd", "rnd")>>, "object")
mpfr_get_d_2exp_happy == Happy(22, NoPrec, {"RNDN"}, Normals \X {"rounds"})
mpfr_get_d_2exp_edge == Edge(40, NoPrec, Rnds, (Normals \X {"rounds"})
        \cup (Special \X {"kind"}))
mpfr_get_d_2exp_adversarial == Adversarial(12, NoPrec, {"RNDN", "RNDU", "RNDD"},
        Normals \X {"rounds"})
mpfr_get_d_2exp_fuzz == Fuzz(60, NoPrec, Rnds, Normals \X {"rounds"})
mpfr_get_d_2exp_mined == Mined(5, NoPrec, {"RNDN"}, ({"+"} \X {"rounds"})
        \cup ({"nan", "+inf", "+0"} \X {"kind"}))
mpfr_get_d_2exp_port ==
    Port(<<Param("x", "MPFR"), Param("rnd", "RoundingMode")>>, "object", {},
         <<One(NaN), One(Infs), One(Zeros)>> \o How(Normals, <<"carries", "rounds">>))

-----------------------------------------------------------------------------
(* mpfr_set_z: src/ops/set_z.ts                                            *)

mpfr_set_z_emit_case == Asserts(Emits(<<Kv(1, "mpz", "z")>> \o PrecRnd, "result"), {},
        AnyPrec)
mpfr_set_z_happy == Happy(25, One({24, 53, 64, 100, 200}), {"RNDN"}, (Nonzero \X {"fits"})
        \cup ({"0"} \X Same))
mpfr_set_z_edge == Edge(50, One({1, 5, 53, 100, 160, 200, 1000}), Rnds,
        (Nonzero \X (Ordered \cup {"fits"})) \cup (Integral \X Same))
mpfr_set_z_adversarial == Adversarial(54, One({2, 3}), Rnds, Nonzero \X Ordered)
mpfr_set_z_fuzz == Fuzz(55, One({1, 2, 24, 53, 64, 100, 256}), Rnds,
        Nonzero \X {"<", ">", "fits"})
mpfr_set_z_mined == Mined(5, One({53, 160}), {"RNDN"}, ({"+"} \X {">", "fits"})
        \cup (Nonzero \X {"fits"}) \cup ({"0"} \X Same))
mpfr_set_z_port ==
    Port(<<Param("z", "BigInt")>> \o RoundsTo, "Result", {},
         <<One({"0"}), Nonzero \X Fits>> \o Rounded(Nonzero))

-----------------------------------------------------------------------------
(* mpfr_set_si: src/ops/set_si.ts                                          *)

mpfr_set_si_emit_case == Asserts(Emits(<<Kv(1, "i64", "n")>> \o PrecRnd, "result"), {},
        AnyPrec)
mpfr_set_si_happy == Happy(25, One({1, 24, 53, 64, 100, 200}), {"RNDN"},
        (Nonzero \X {"fits"}) \cup ({"0"} \X Same))
mpfr_set_si_edge == Edge(50, One({1, 5, 10, 20, 40, 53, 63, 64, 4096}), Rnds,
        (Nonzero \X (Ordered \cup {"fits"})) \cup (Integral \X Same))
mpfr_set_si_adversarial == Adversarial(54, One({2, 3}), Rnds, Nonzero \X Ordered)
mpfr_set_si_fuzz == Fuzz(55, One({1, 2, 53, 64, 100, 200}), Rnds,
        Nonzero \X {"<", ">", "fits"})
mpfr_set_si_mined == Mined(5, One({53}), {"RNDN"}, ({"+"} \X {">", "fits"})
        \cup ({"-"} \X {"=", "fits"}))
mpfr_set_si_port ==
    Port(<<Param("n", "Long")>> \o RoundsTo, "Result", {},
         <<One({"0"}), Nonzero \X Fits>> \o Rounded(Nonzero))

-----------------------------------------------------------------------------
(* mpfr_set_ui: src/ops/set_ui.ts                                          *)

mpfr_set_ui_emit_case == Asserts(Emits(<<Kv(1, "u64", "n")>> \o PrecRnd, "result"), {},
        AnyPrec)
mpfr_set_ui_happy == Happy(25, One({1, 24, 53, 64, 100, 200}), {"RNDN"}, ({"+"} \X {"fits"})
        \cup ({"0"} \X Same))
mpfr_set_ui_edge == Edge(50, One(1..4096), Rnds, ({"+"} \X (Ordered \cup {"fits"}))
        \cup (Unsigned \X Same))
mpfr_set_ui_adversarial == Adversarial(37, One({2, 3}), Rnds, {"+"} \X Ordered)
mpfr_set_ui_fuzz == Fuzz(55, One({1, 2, 53, 64, 100, 200}), Rnds,
        {"+"} \X {"<", ">", "fits"})
mpfr_set_ui_mined == Mined(5, One({53, 64}), {"RNDN"}, ({"+"} \X {">", "fits"})
        \cup ({"0"} \X Same))
mpfr_set_ui_port ==
    Port(<<Param("n", "ULong")>> \o RoundsTo, "Result", {},
         <<One({"0"}), {"+"} \X Fits>> \o Rounded({"+"}))

-----------------------------------------------------------------------------
(* mpfr_set_z_2exp: src/ops/set_z_2exp.ts                                  *)

mpfr_set_z_2exp_emit_case ==
    Asserts(Emits(<<Kv(1, "mpz", "z"), Kv(0, "i64", "e")>> \o PrecRnd, "result"), {}, AnyPrec)
mpfr_set_z_2exp_happy == Happy(25, One({24, 53, 64, 200}), {"RNDN"},
        (Nonzero \X Unsigned \X {"fits"}) \cup ({"+"} \X Integral \X {"fits"})
        \cup ({"0"} \X Unsigned \X Same))
mpfr_set_z_2exp_edge == Edge(50, One({1, 5, 53, 100, 200, 1000}), Rnds,
        ({"+"} \X Integral \X {"=", ">", "fits"})
        \cup (Nonzero \X {"0"} \X (Ordered \cup {"fits"}))
        \cup ({"-"} \X Unsigned \X {"<", "=", "fits"})
        \cup (Nonzero \X Integral \X {"fits"}) \cup (Unsigned \X Nonzero \X Same))
mpfr_set_z_2exp_adversarial == Adversarial(30, One({3}), Rnds, {"+"} \X Integral \X Unequal)
mpfr_set_z_2exp_fuzz == Fuzz(55, One({1, 2, 24, 53, 64, 100, 256}), Rnds,
        (Nonzero \X Nonzero \X Unequal) \cup (Nonzero \X {"-"} \X {"<", ">", "fits"})
        \cup ({"+"} \X Integral \X Greater) \cup ({"-"} \X Nonzero \X {"<", ">", "fits"}))
mpfr_set_z_2exp_mined == Mined(5, One({53, 64}), {"RNDN", "RNDZ"},
        (Nonzero \X {"+"} \X {"fits"}) \cup ({"+"} \X {"-"} \X Less)
        \cup ({"0"} \X Nonzero \X Same))
mpfr_set_z_2exp_port ==
    Port(<<Param("z", "BigInt"), Param("e", "Long")>> \o RoundsTo, "Result", {},
         <<One({"0"}), Nonzero \X Integral \X Fits, Nonzero \X Integral \X Less,
           Nonzero \X Integral \X Same, Nonzero \X Integral \X Greater>>)

-----------------------------------------------------------------------------
(* mpfr_get_z: src/ops/get_z.ts                                            *)

mpfr_get_z_emit_case == Emits(<<Kv(1, "mpfr", "x"), Kv(0, "rnd", "rnd")>>, "decimal")
mpfr_get_z_happy == Happy(25, NoPrec, {"RNDN"}, (Normals \X {"mixed"})
        \cup ({"+0"} \X {"kind"}))
mpfr_get_z_edge == Edge(54, NoPrec, Rnds, (Normals \X {"below 1", "mixed", "whole"})
        \cup (Zeros \X {"kind"}))
mpfr_get_z_adversarial == Adversarial(70, NoPrec, Rnds, Normals \X {"mixed"})
mpfr_get_z_fuzz == Fuzz(55, NoPrec, Rnds, Normals \X {"mixed", "whole"})
mpfr_get_z_mined == Mined(5, NoPrec, {"RNDN"}, (Normals \X {"mixed"})
        \cup ({"+"} \X {"mixed", "whole"}) \cup ({"+0"} \X {"kind"}))
mpfr_get_z_port ==
    Port(<<Param("x", "MPFR"), Param("rnd", "RoundingMode")>>, "bigint", One(NaN \cup Infs),
         <<One(Zeros)>> \o toInteger({"+"}) \o toInteger({"-"}))

-----------------------------------------------------------------------------
(* mpfr_get_si: src/ops/get_si.ts                                          *)

mpfr_get_si_emit_case == Emits(<<Kv(1, "mpfr", "x"), Kv(0, "rnd", "rnd")>>, "i64")
mpfr_get_si_happy == Happy(25, NoPrec, {"RNDN"}, (Normals \X {"mixed"})
        \cup ({"+0"} \X {"kind"}))
mpfr_get_si_edge == Edge(57, NoPrec, Rnds, (Normals \X {"below 1", "mixed"})
        \cup (Zeros \X {"kind"}) \cup ({"-"} \X {"below 1", "least", "mixed"}))
mpfr_get_si_adversarial == Adversarial(75, NoPrec, Rnds, (Normals \X {"mixed"})
        \cup ({"-"} \X {"least", "mixed"}))
mpfr_get_si_fuzz == Fuzz(55, NoPrec, Rnds, Normals \X {"mixed", "whole"})
mpfr_get_si_mined == Mined(5, NoPrec, {"RNDN"}, (Normals \X {"mixed"})
        \cup ({"+0"} \X {"kind"}) \cup ({"-"} \X {"least", "mixed"}))
mpfr_get_si_port ==
    Port(<<Param("x", "MPFR"), Param("rnd", "RoundingMode")>>, "bigint",
            One(NaN \cup Infs) \cup (Normals \X {"huge"}),
         <<One(Zeros)>> \o toInteger({"+"}) \o <<{"-"} \X {"least"}>> \o toInteger({"-"}))

-----------------------------------------------------------------------------
(* mpfr_get_ui: src/ops/get_ui.ts                                          *)

mpfr_get_ui_emit_case == Emits(<<Kv(1, "mpfr", "x"), Kv(0, "rnd", "rnd")>>, "u64")
mpfr_get_ui_happy == Happy(25, NoPrec, {"RNDN"}, ({"+"} \X {"mixed", "whole"})
        \cup ({"+0"} \X {"kind"}))
mpfr_get_ui_edge == Edge(50, NoPrec, Rnds, ({"+"} \X {"below 1", "mixed", "whole"})
        \cup (Zeros \X {"kind"}) \cup (Normals \X {"below 1"}))
mpfr_get_ui_adversarial == Adversarial(37, NoPrec, Rnds, ({"+"} \X {"mixed", "whole"})
        \cup ({"-"} \X {"below 1"}))
mpfr_get_ui_fuzz == Fuzz(55, NoPrec, Rnds, {"+"} \X {"mixed", "whole"})
mpfr_get_ui_mined == Mined(5, NoPrec, {"RNDN"}, ({"+"} \X {"mixed", "whole"})
        \cup ({"+0"} \X {"kind"}) \cup ({"-"} \X {"below 1"}))
mpfr_get_ui_port ==
    Port(<<Param("x", "MPFR"), Param("rnd", "RoundingMode")>>, "bigint",
            One(NaN \cup Infs) \cup (Normals \X {"huge"}),
         <<One(Zeros)>> \o toInteger({"+"}) \o <<{"-"} \X {"below 1"}>>)

-----------------------------------------------------------------------------
(* mpfr_get_z_2exp: src/ops/get_z_2exp.ts                                  *)

mpfr_get_z_2exp_emit_case == Emits1("x", "object")
mpfr_get_z_2exp_happy == Happy(25, NoPrec, NoRnd, One(Normals))
mpfr_get_z_2exp_edge == Edge(36, NoPrec, NoRnd, One(Normals))
mpfr_get_z_2exp_adversarial == Adversarial(25, NoPrec, NoRnd, One(Normals))
mpfr_get_z_2exp_fuzz == Fuzz(55, NoPrec, NoRnd, One(Normals))
mpfr_get_z_2exp_mined == Mined(5, NoPrec, NoRnd, One({"+"}))
mpfr_get_z_2exp_port ==
    Port(Mpfrs(<<"x">>), "object", One(NaN \cup Infs),
         <<One(Zeros),
           One({"-"}),
           One({"+"})>>)

-----------------------------------------------------------------------------
(* mpfr_get_prec: src/ops/get_prec.ts                                      *)

mpfr_get_prec_emit_case == Asserts(Emits1("x", "i64"), {}, Precs(1, 1..MAX_ALLOC_PREC))
mpfr_get_prec_happy == Happy(25, One(24..2048), NoRnd, One(Numbers))
mpfr_get_prec_edge == Edge(49, One(1..4096), NoRnd, One(Kinds))
mpfr_get_prec_adversarial == Adversarial(15,
        One({1, 53, 63, 64, 65, 127, 256, 1009, 1024, 65521}), NoRnd, One(Kinds))
mpfr_get_prec_fuzz == Fuzz(60, One(15..4075), NoRnd, One(Kinds))
mpfr_get_prec_mined == Mined(5, One({1, 53, 100, 113}), NoRnd, One(Normal))
mpfr_get_prec_port ==
    Port(Mpfrs(<<"x">>), "bigint", {},
         <<One(Kinds)>>)

-----------------------------------------------------------------------------
(* mpfr_get_exp: src/ops/get_exp.ts                                        *)

mpfr_get_exp_emit_case == Asserts(Emits1("x", "i64"), One(Singular), Seq(Nat))
mpfr_get_exp_happy == Happy(22, NoPrec, NoRnd, One(Normal))
mpfr_get_exp_edge == Edge(30, NoPrec, NoRnd, One(Normal))
mpfr_get_exp_adversarial == Adversarial(10, NoPrec, NoRnd, One(Normal))
mpfr_get_exp_fuzz == Fuzz(55, NoPrec, NoRnd, One(Normal))
mpfr_get_exp_mined == Mined(5, NoPrec, NoRnd, One(Normal))
mpfr_get_exp_port ==
    Port(Mpfrs(<<"x">>), "bigint", One(Singular),
         <<One(Normal)>>)

-----------------------------------------------------------------------------
(* mpfr_set_exp: src/ops/set_exp.ts                                        *)

mpfr_set_exp_emit_case ==
    Asserts(Emits(<<Kv(1, "mpfr", "x"), Kv(0, "i64", "e")>>, "mpfr"),
            One(Singular) \cup (Normal \X {"far"}), Seq(Nat))
mpfr_set_exp_happy == Happy(22, NoPrec, NoRnd, Normal \X Integral)
mpfr_set_exp_edge == Edge(30, NoPrec, NoRnd, Normal \X Integral)
mpfr_set_exp_adversarial == Adversarial(10, NoPrec, NoRnd, Normal \X Nonzero)
mpfr_set_exp_fuzz == Fuzz(55, NoPrec, NoRnd, Normal \X Nonzero)
mpfr_set_exp_mined == Mined(5, NoPrec, NoRnd, Normal \X Integral)
mpfr_set_exp_port ==
    Port(<<Param("x", "MPFR"), Param("e", "Long")>>, "MPFR", One(Singular),
         <<Normal \X Integral>>)

-----------------------------------------------------------------------------
(* mpfr_set_zero: src/ops/set_zero.ts                                      *)

mpfr_set_zero_emit_case ==
    Asserts(Emits(<<Kv(1, "u64", "prec"), Kv(0, "int", "sign")>>, "mpfr"), One({"0"}),
            AnyPrec)
mpfr_set_zero_happy == Happy(34, One(24..2048), NoRnd, One(Nonzero))
mpfr_set_zero_edge == Edge(62,
        One({1, 2, 3, 4, 8, 12, 16, 52, 53, 54, 63, 64, 65, 100, 127, 128, 129, 200, 300,
                1000, 1500, 4096, 8192, 65536, 131072, 1048576, 536870847, 1073741695,
                        2147483291, 2147483390, 2147483391}),
        NoRnd, One(Nonzero))
mpfr_set_zero_adversarial == Adversarial(20,
        One({1, 53, 63, 64, 65, 256, 1009, 1024, 65521, 2147483391}), NoRnd, One(Nonzero))
mpfr_set_zero_fuzz == Fuzz(60, One(23..2036), NoRnd, One(Nonzero))
mpfr_set_zero_mined == Mined(6, One({1, 53, 64}), NoRnd, One(Nonzero))
mpfr_set_zero_port ==
    Port(<<Param("prec", "Prec"), Param("sign", "Int")>>, "MPFR", One({"0"}),
         <<One({"+"}),
           One({"-"})>>)

-----------------------------------------------------------------------------
(* mpfr_set_inf: src/ops/set_inf.ts                                        *)

mpfr_set_inf_emit_case ==
    Asserts(Emits(<<Kv(1, "u64", "prec"), Kv(0, "int", "sign")>>, "mpfr"), One({"0"}),
            AnyPrec)
mpfr_set_inf_happy == Happy(34, One(24..2048), NoRnd, One(Nonzero))
mpfr_set_inf_edge == Edge(62,
        One({1, 2, 3, 4, 8, 12, 16, 52, 53, 54, 63, 64, 65, 100, 127, 128, 129, 200, 300,
                1000, 1500, 4096, 8192, 65536, 131072, 1048576, 536870847, 1073741695,
                        2147483291, 2147483390, 2147483391}),
        NoRnd, One(Nonzero))
mpfr_set_inf_adversarial == Adversarial(20,
        One({1, 53, 63, 64, 65, 256, 1009, 1024, 65521, 2147483391}), NoRnd, One(Nonzero))
mpfr_set_inf_fuzz == Fuzz(60, One(20..2034), NoRnd, One(Nonzero))
mpfr_set_inf_mined == Mined(6, One({1, 53, 64}), NoRnd, One(Nonzero))
mpfr_set_inf_port ==
    Port(<<Param("prec", "Prec"), Param("sign", "Int")>>, "MPFR", One({"0"}),
         <<One({"+"}),
           One({"-"})>>)

-----------------------------------------------------------------------------
(* mpfr_init2: src/ops/init2.ts                                            *)

mpfr_init2_emit_case == Asserts(Emits(<<Kv(1, "u64", "prec")>>, "mpfr"), {}, AnyPrec)
mpfr_init2_happy == Happy(35, One(24..2048), NoRnd, {<<>>})
mpfr_init2_edge == Edge(31,
        One({1, 2, 3, 4, 5, 6, 7, 8, 50, 51, 52, 53, 54, 63, 64, 65, 127, 128, 129, 4096,
                8192, 16384, 65536, 131072, 1048576, 536870847, 1073741695, 2147482391,
                        2147483291, 2147483390, 2147483391}),
        NoRnd, {<<>>})
mpfr_init2_adversarial == Adversarial(15,
        One({1, 2, 53, 63, 64, 65, 127, 128, 256, 512, 1009, 1024, 65521, 2147483390,
                2147483391}),
        NoRnd, {<<>>})
mpfr_init2_fuzz == Fuzz(75, One(6..2025), NoRnd, {<<>>})
mpfr_init2_port ==
    Port(<<Param("prec", "Prec")>>, "MPFR", {},
         <<{<<>>}>>)

-----------------------------------------------------------------------------
(* The drivers of this family, as run_all.sh finds them.                   *)

ConvDrivers ==
    "mpfr_set_d" :> Driver(mpfr_set_d_emit_case,
        <<mpfr_set_d_happy, mpfr_set_d_edge, mpfr_set_d_adversarial, mpfr_set_d_fuzz,
        mpfr_set_d_mined>>, mpfr_set_d_port)
    @@ "mpfr_get_d" :> Driver(mpfr_get_d_emit_case,
        <<mpfr_get_d_happy, mpfr_get_d_edge, mpfr_get_d_adversarial, mpfr_get_d_fuzz,
        mpfr_get_d_mined>>, mpfr_get_d_port)
    @@ "mpfr_get_d1" :> Driver(mpfr_get_d1_emit_case,
        <<mpfr_get_d1_happy, mpfr_get_d1_edge, mpfr_get_d1_adversarial,
        mpfr_get_d1_fuzz, mpfr_get_d1_mined>>, mpfr_get_d1_port)
    @@ "mpfr_get_d_2exp" :> Driver(mpfr_get_d_2exp_emit_case,
        <<mpfr_get_d_2exp_happy, mpfr_get_d_2exp_edge, mpfr_get_d_2exp_adversarial,
        mpfr_get_d_2exp_fuzz, mpfr_get_d_2exp_mined>>, mpfr_get_d_2exp_port)
    @@ "mpfr_set_z" :> Driver(mpfr_set_z_emit_case,
        <<mpfr_set_z_happy, mpfr_set_z_edge, mpfr_set_z_adversarial, mpfr_set_z_fuzz,
        mpfr_set_z_mined>>, mpfr_set_z_port)
    @@ "mpfr_set_si" :> Driver(mpfr_set_si_emit_case,
        <<mpfr_set_si_happy, mpfr_set_si_edge, mpfr_set_si_adversarial,
        mpfr_set_si_fuzz, mpfr_set_si_mined>>, mpfr_set_si_port)
    @@ "mpfr_set_ui" :> Driver(mpfr_set_ui_emit_case,
        <<mpfr_set_ui_happy, mpfr_set_ui_edge, mpfr_set_ui_adversarial,
        mpfr_set_ui_fuzz, mpfr_set_ui_mined>>, mpfr_set_ui_port)
    @@ "mpfr_set_z_2exp" :> Driver(mpfr_set_z_2exp_emit_case,
        <<mpfr_set_z_2exp_happy, mpfr_set_z_2exp_edge, mpfr_set_z_2exp_adversarial,
        mpfr_set_z_2exp_fuzz, mpfr_set_z_2exp_mined>>, mpfr_set_z_2exp_port)
    @@ "mpfr_get_z" :> Driver(mpfr_get_z_emit_case,
        <<mpfr_get_z_happy, mpfr_get_z_edge, mpfr_get_z_adversarial, mpfr_get_z_fuzz,
        mpfr_get_z_mined>>, mpfr_get_z_port)
    @@ "mpfr_get_si" :> Driver(mpfr_get_si_emit_case,
        <<mpfr_get_si_happy, mpfr_get_si_edge, mpfr_get_si_adversarial,
        mpfr_get_si_fuzz, mpfr_get_si_mined>>, mpfr_get_si_port)
    @@ "mpfr_get_ui" :> Driver(mpfr_get_ui_emit_case,
        <<mpfr_get_ui_happy, mpfr_get_ui_edge, mpfr_get_ui_adversarial,
        mpfr_get_ui_fuzz, mpfr_get_ui_mined>>, mpfr_get_ui_port)
    @@ "mpfr_get_z_2exp" :> Driver(mpfr_get_z_2exp_emit_case,
        <<mpfr_get_z_2exp_happy, mpfr_get_z_2exp_edge, mpfr_get_z_2exp_adversarial,
        mpfr_get_z_2exp_fuzz, mpfr_get_z_2exp_mined>>, mpfr_get_z_2exp_port)
    @@ "mpfr_get_prec" :> Driver(mpfr_get_prec_emit_case,
        <<mpfr_get_prec_happy, mpfr_get_prec_edge, mpfr_get_prec_adversarial,
        mpfr_get_prec_fuzz, mpfr_get_prec_mined>>, mpfr_get_prec_port)
    @@ "mpfr_get_exp" :> Driver(mpfr_get_exp_emit_case,
        <<mpfr_get_exp_happy, mpfr_get_exp_edge, mpfr_get_exp_adversarial,
        mpfr_get_exp_fuzz, mpfr_get_exp_mined>>, mpfr_get_exp_port)
    @@ "mpfr_set_exp" :> Driver(mpfr_set_exp_emit_case,
        <<mpfr_set_exp_happy, mpfr_set_exp_edge, mpfr_set_exp_adversarial,
        mpfr_set_exp_fuzz, mpfr_set_exp_mined>>, mpfr_set_exp_port)
    @@ "mpfr_set_zero" :> Driver(mpfr_set_zero_emit_case,
        <<mpfr_set_zero_happy, mpfr_set_zero_edge, mpfr_set_zero_adversarial,
        mpfr_set_zero_fuzz, mpfr_set_zero_mined>>, mpfr_set_zero_port)
    @@ "mpfr_set_inf" :> Driver(mpfr_set_inf_emit_case,
        <<mpfr_set_inf_happy, mpfr_set_inf_edge, mpfr_set_inf_adversarial,
        mpfr_set_inf_fuzz, mpfr_set_inf_mined>>, mpfr_set_inf_port)
    @@ "mpfr_init2" :> Driver(mpfr_init2_emit_case,
        <<mpfr_init2_happy, mpfr_init2_edge, mpfr_init2_adversarial, mpfr_init2_fuzz>>,
        mpfr_init2_port)

\* No golden rounds a denormal up to the least normal double; that of mpfr_get_d1
\* stays within the range; that of mpfr_get_d_2exp never rounds up to the next
\* power of two, and that of mpfr_get_z_2exp has no zero.
ConvGaps ==
    ({"mpfr_get_d"} \X {8}) \cup ({"mpfr_get_d1"} \X {4, 5, 7, 8, 9})
    \cup {<<"mpfr_get_d_2exp", 4>>, <<"mpfr_get_z_2exp", 1>>}

=============================================================================
