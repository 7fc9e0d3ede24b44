---------------------------- MODULE GoldenMixed -----------------------------
(***************************************************************************)
(* The golden drivers of the arithmetic functions with an integer or a     *)
(* double operand, and the ports they grade.                               *)
(***************************************************************************)
EXTENDS GoldenArith

-----------------------------------------------------------------------------
\* Five factors that are not 0.
Factors == <<"+", "+", "+", "+", "+">>

\* mpfr_mul_2si and its like: only the exponent changes if the mantissa fits.
scaleReturns(S) ==
    <<One(NaN), One(Inf), One(Zero), Normal \X S \X Fits>> \o Rounded2(Normal, S)

\* mpfr_add_ui: 0 is a mpfr_set, a zero a mpfr_set_ui.
addUlong(S) ==
    <<Kinds \X {"0"}, NaN \X S, Inf \X S, Zero \X S>> \o Cancelled(Normal, S)
subUlong(S) ==
    <<Kinds \X {"0"}, NaN \X S, Inf \X S, Zero \X S>> \o Cancelled(Normal, S)
\* mpfr_mul_ui: 1 is a mpfr_set, a power of two a mpfr_mul_2si.
mulUlong ==
    <<NaN \X Natural, Inf \X {"0"}, Inf \X Natural, Zero \X Natural,
      Normal \X {"0"}, Normal \X {"1"}, Normal \X {"2^k"}>> \o Rounded2(Normal, {"+"})

-----------------------------------------------------------------------------
(* mpfr_mul_2si: src/ops/mul_2si.ts                                        *)

mpfr_mul_2si_emit_case == Asserts(Rounds2("x", "i64", "e"), {}, AnyPrec)
mpfr_mul_2si_happy == Happy(25, One({24, 53, 100, 200}), {"RNDN"},
        Normal \X Integral \X {"fits"})
mpfr_mul_2si_edge == Edge(50, One({1, 3, 10, 53, 100}), Rnds,
        ({"inf", "zero"} \X Nonzero \X Same) \cup (Singular \X {"+"} \X Same)
        \cup (Normal \X Integral \X {"<", "fits"})
        \cup (Normal \X Unsigned \X {"<", ">", "fits"}))
mpfr_mul_2si_adversarial == Adversarial(30, One({2, 3, 52}), {"RNDN", "RNDA"},
        Normal \X Nonzero \X Ordered)
mpfr_mul_2si_fuzz == Fuzz(55, One({1, 2, 24, 53, 64, 100}), Rnds,
        Normal \X Nonzero \X (Ordered \cup {"fits"}))
mpfr_mul_2si_mined == Mined(5, One({8, 53}), {"RNDN", "RNDZ", "RNDU"},
        Normal \X Integral \X {"fits"})
mpfr_mul_2si_port ==
    Port(<<Param("x", "MPFR"), Param("e", "Long")>> \o RoundsTo, "Result", {},
         scaleReturns(Integral))

-----------------------------------------------------------------------------
(* mpfr_div_2si: src/ops/div_2si.ts                                        *)

mpfr_div_2si_emit_case == Asserts(Rounds2("x", "i64", "e"), {}, AnyPrec)
mpfr_div_2si_happy == Happy(25, One({24, 53, 100, 200}), {"RNDN"},
        Normal \X Integral \X {"fits"})
mpfr_div_2si_edge == Edge(50, One({1, 3, 10, 53, 100}), Rnds,
        ({"inf", "zero"} \X Nonzero \X Same) \cup (Singular \X {"+"} \X Same)
        \cup (Normal \X Integral \X {"<", "fits"})
        \cup (Normal \X Unsigned \X {"<", ">", "fits"}))
mpfr_div_2si_adversarial == Adversarial(30, One({2, 3, 52}), {"RNDN", "RNDA"},
        Normal \X Nonzero \X Ordered)
mpfr_div_2si_fuzz == Fuzz(55, One({1, 2, 24, 53, 64, 100}), Rnds,
        Normal \X Nonzero \X (Ordered \cup {"fits"}))
mpfr_div_2si_mined == Mined(5, One({8, 53}), {"RNDN", "RNDZ", "RNDU"},
        Normal \X Unsigned \X {"fits"})
mpfr_div_2si_port ==
    Port(<<Param("x", "MPFR"), Param("e", "Long")>> \o RoundsTo, "Result", {},
         scaleReturns(Integral))

-----------------------------------------------------------------------------
(* mpfr_mul_2ui: src/ops/mul_2ui.ts                                        *)

mpfr_mul_2ui_emit_case == Asserts(Rounds2("x", "u64", "n"), {}, AnyPrec)
mpfr_mul_2ui_happy == Happy(22, One({24, 53}), {"RNDN"}, (Singular \X {"+"} \X Same)
        \cup (Normal \X {"+"} \X {"<", ">", "fits"}) \cup (Normal \X Unsigned \X {"fits"}))
mpfr_mul_2ui_edge == Edge(30, One({1, 3, 24, 53, 64, 100, 1024}), Rnds,
        (Numbers \X {"+"} \X Same) \cup (NaN \X {"0"} \X Same)
        \cup (Normal \X {"+"} \X (Ordered \cup {"fits"}))
        \cup (Normal \X Unsigned \X {">", "fits"}))
mpfr_mul_2ui_adversarial == Adversarial(10, One({8, 24, 53}), (Rnds \ {"RNDZ"}),
        ({"inf", "zero"} \X {"+"} \X Same) \cup (Normal \X {"+"} \X {"<", ">", "fits"}))
mpfr_mul_2ui_fuzz == Fuzz(55, One(1..198), Rnds, (Kinds \X {"+"} \X Same)
        \cup (Normal \X {"+"} \X (Ordered \cup {"fits"})))
mpfr_mul_2ui_mined == Mined(5, One({53}), {"RNDN"}, (NaN \X {"+"} \X Same)
        \cup (Normal \X Unsigned \X {"fits"}))
mpfr_mul_2ui_port ==
    Port(<<Param("x", "MPFR"), Param("n", "ULong")>> \o RoundsTo, "Result", {},
         scaleReturns(Unsigned))

-----------------------------------------------------------------------------
(* mpfr_div_2ui: src/ops/div_2ui.ts                                        *)

mpfr_div_2ui_emit_case == Asserts(Rounds2("x", "u64", "n"), {}, AnyPrec)
mpfr_div_2ui_happy == Happy(22, One({24, 53}), {"RNDN"}, (Singular \X {"+"} \X Same)
        \cup (Normal \X {"+"} \X {"<", ">", "fits"}) \cup (Normal \X Unsigned \X {"fits"}))
mpfr_div_2ui_edge == Edge(30, One({1, 3, 24, 53, 64, 100, 1024}), Rnds,
        (Numbers \X {"+"} \X Same) \cup (NaN \X {"0"} \X Same)
        \cup (Normal \X {"+"} \X (Ordered \cup {"fits"}))
        \cup (Normal \X Unsigned \X {">", "fits"}))
mpfr_div_2ui_adversarial == Adversarial(10, One({8, 24, 53}), (Rnds \ {"RNDZ"}),
        ({"inf", "zero"} \X {"+"} \X Same) \cup (Normal \X {"+"} \X {"<", ">", "fits"}))
mpfr_div_2ui_fuzz == Fuzz(55, One(9..192), Rnds, (Kinds \X {"+"} \X Same)
        \cup (Normal \X {"+"} \X {"=", ">", "fits"}))
mpfr_div_2ui_mined == Mined(5, One({53}), {"RNDN"}, (NaN \X {"+"} \X Same)
        \cup (Normal \X Unsigned \X {"fits"}))
mpfr_div_2ui_port ==
    Port(<<Param("x", "MPFR"), Param("n", "ULong")>> \o RoundsTo, "Result", {},
         scaleReturns(Unsigned))

-----------------------------------------------------------------------------
(* mpfr_mul_2exp: src/ops/mul_2exp.ts                                      *)

mpfr_mul_2exp_emit_case == Rounds2("x", "u64", "n")
mpfr_mul_2exp_happy == Happy(22, One({24, 32, 53, 100, 200}), {"RNDN", "RNDD", "RNDA"},
        Normal \X Unsigned \X {">", "fits"})
mpfr_mul_2exp_edge == Edge(30, One({1, 3, 53, 4096}), Rnds, (Singular \X {"+"} \X Same)
        \cup (Normal \X {"+"} \X {"<", ">", "fits"}) \cup (Normal \X Unsigned \X {"fits"}))
mpfr_mul_2exp_adversarial == Adversarial(10, One({1, 2, 4, 24}), (Rnds \ {"RNDA"}),
        (Normal \X {"+"} \X Ordered) \cup (Normal \X {"0"} \X {"fits"}))
mpfr_mul_2exp_fuzz == Fuzz(55, One(3..248), Rnds,
        Normal \X {"+"} \X (Ordered \cup {"fits"}))
mpfr_mul_2exp_mined == Mined(5, One({24, 53}), {"RNDN", "RNDU"},
        (Normal \X {"+"} \X {">", "fits"}) \cup (Normal \X Unsigned \X {"fits"}))
mpfr_mul_2exp_port ==
    Port(<<Param("x", "MPFR"), Param("n", "ULong")>> \o RoundsTo, "Result", {},
         scaleReturns(Unsigned))

-----------------------------------------------------------------------------
(* mpfr_div_2exp: src/ops/div_2exp.ts                                      *)

mpfr_div_2exp_emit_case == Rounds2("x", "u64", "n")
mpfr_div_2exp_happy == Happy(22, One({24, 32, 53, 100, 200}), {"RNDN", "RNDD", "RNDA"},
        Normal \X Unsigned \X {">", "fits"})
mpfr_div_2exp_edge == Edge(30, One({1, 3, 53, 4096}), Rnds, (Singular \X {"+"} \X Same)
        \cup (Normal \X {"+"} \X {"<", ">", "fits"}) \cup (Normal \X Unsigned \X {"fits"}))
mpfr_div_2exp_adversarial == Adversarial(10, One({1, 2, 4, 24}), (Rnds \ {"RNDA"}),
        (Normal \X {"+"} \X Ordered) \cup (Normal \X {"0"} \X {"fits"}))
mpfr_div_2exp_fuzz == Fuzz(55, One(1..256), Rnds,
        Normal \X {"+"} \X (Ordered \cup {"fits"}))
mpfr_div_2exp_mined == Mined(5, One({24, 53}), {"RNDN", "RNDU"},
        (Normal \X {"+"} \X {">", "fits"}) \cup (Normal \X Unsigned \X {"fits"}))
mpfr_div_2exp_port ==
    Port(<<Param("x", "MPFR"), Param("n", "ULong")>> \o RoundsTo, "Result", {},
         scaleReturns(Unsigned))

-----------------------------------------------------------------------------
(* mpfr_add_d: src/ops/add_d.ts                                            *)

mpfr_add_d_emit_case == Rounds2("b", "double", "c")
mpfr_add_d_happy == Happy(22, One({24, 32, 53, 100, 200}), (Rnds \ {"RNDU"}),
        Normal \X Normal \X {"0", "<", "="})
mpfr_add_d_edge == Edge(33, One({1, 2, 24, 53, 200, 1000, 4096}), Rnds,
        ({"+inf", "normal"} \X {"-inf", "normal"} \X Same) \cup (Summands \X Normal \X Same)
        \cup (Normal \X Summands \X Same) \cup (Normal \X Normal \X Ordered)
        \cup (Finite \X Finite \X Same))
mpfr_add_d_adversarial == Adversarial(12, One({24, 53}), (Rnds \ {"RNDA"}),
        Normal \X Normal \X Ordered)
mpfr_add_d_fuzz == Fuzz(60, One(7..255), Rnds, Normal \X Normal \X Ordered)
mpfr_add_d_mined == Mined(5, One({53}), {"RNDN", "RNDZ", "RNDU"},
        (Normal \X Normal \X {"0", "="}) \cup (Zero \X Zero \X Same))
mpfr_add_d_port ==
    Port(<<Param("b", "MPFR"), Param("c", "Double")>> \o RoundsTo, "Result", {},
         addReturns)

-----------------------------------------------------------------------------
(* mpfr_sub_d: src/ops/sub_d.ts                                            *)

mpfr_sub_d_emit_case == Rounds2("b", "double", "c")
mpfr_sub_d_happy == Happy(22, One({24, 32, 53, 100, 200}), (Rnds \ {"RNDU"}),
        Normal \X Normal \X {"0", "<", "="})
mpfr_sub_d_edge == Edge(33, One({1, 2, 24, 53, 200, 1000, 4096}), Rnds,
        ({"+inf", "normal"} \X {"+inf", "normal"} \X Same) \cup (Summands \X Normal \X Same)
        \cup (Normal \X Summands \X Same) \cup (Normal \X Normal \X (Ordered \cup {"0"}))
        \cup (Finite \X Finite \X Same))
mpfr_sub_d_adversarial == Adversarial(12, One({24, 53}), (Rnds \ {"RNDA"}),
        Normal \X Normal \X {"=", ">"})
mpfr_sub_d_fuzz == Fuzz(60, One(1..253), Rnds, Normal \X Normal \X Ordered)
mpfr_sub_d_mined == Mined(5, One({53}), {"RNDN", "RNDZ", "RNDU"},
        (Normal \X Normal \X {"0", "="}) \cup (Zero \X Zero \X Same))
mpfr_sub_d_port ==
    Port(<<Param("b", "MPFR"), Param("c", "Double")>> \o RoundsTo, "Result", {},
         subReturns)

-----------------------------------------------------------------------------
(* mpfr_d_sub: src/ops/d_sub.ts                                            *)

mpfr_d_sub_emit_case == Emits(<<Kv(1, "double", "b"), Kv(0, "mpfr", "c")>> \o PrecRnd,
        "result")
mpfr_d_sub_happy == Happy(22, One({24, 32, 53, 100, 200}), (Rnds \ {"RNDU"}),
        Normal \X Normal \X {"0", "<", "="})
mpfr_d_sub_edge == Edge(32, One({1, 53, 200, 1000, 4096}), Rnds,
        ({"+inf", "normal"} \X {"+inf", "normal"} \X Same) \cup (Summands \X Normal \X Same)
        \cup (Normal \X Summands \X Same) \cup (Normal \X Normal \X {"0", "="})
        \cup (Finite \X Finite \X Same))
mpfr_d_sub_adversarial == Adversarial(12, One({53}), (Rnds \ {"RNDA"}),
        Normal \X Normal \X {"=", ">"})
mpfr_d_sub_fuzz == Fuzz(60, One(7..256), Rnds, Normal \X Normal \X Ordered)
mpfr_d_sub_mined == Mined(5, One({53}), {"RNDN", "RNDZ", "RNDU"},
        (Normal \X Normal \X {"0", "="}) \cup (Zero \X Zero \X Same))
mpfr_d_sub_port ==
    Port(<<Param("b", "Double"), Param("c", "MPFR")>> \o RoundsTo, "Result", {},
         subReturns)

-----------------------------------------------------------------------------
(* mpfr_mul_d: src/ops/mul_d.ts                                            *)

mpfr_mul_d_emit_case == Rounds2("b", "double", "c")
mpfr_mul_d_happy == Happy(22, One({24, 32, 53, 100, 200}), {"RNDN", "RNDD", "RNDA"},
        (Normal \X Normal \X Ordered) \cup (Normal \X Finite \X Same)
        \cup (Finite \X Normal \X Same))
mpfr_mul_d_edge == Edge(32, One({1, 2, 24, 53, 200, 1000, 4096}), Rnds,
        (Kinds \X Normal \X Same) \cup ({"inf", "zero"} \X Finite \X Same)
        \cup (Finite \X {"inf", "normal"} \X Same)
        \cup (Normal \X {"nan", "inf", "normal"} \X Same)
        \cup (Normal \X Normal \X Ordered))
mpfr_mul_d_adversarial == Adversarial(12, One({1, 53}), (Rnds \ {"RNDA"}),
        Normal \X Normal \X Ordered)
mpfr_mul_d_fuzz == Fuzz(60, One(1..255), Rnds, Normal \X Normal \X Ordered)
mpfr_mul_d_mined == Mined(5, One({24, 53}), {"RNDN", "RNDU"}, (Finite \X Normal \X Same)
        \cup (Normal \X Normal \X {"=", ">"}))
mpfr_mul_d_port ==
    Port(<<Param("b", "MPFR"), Param("c", "Double")>> \o RoundsTo, "Result", {},
         mulReturns)

-----------------------------------------------------------------------------
(* mpfr_div_d: src/ops/div_d.ts                                            *)

mpfr_div_d_emit_case == Rounds2("b", "double", "c")
mpfr_div_d_happy == Happy(22, One({24, 32, 53, 100, 200}), {"RNDN", "RNDD", "RNDA"},
        (Normal \X Normal \X Ordered) \cup (Finite \X Normal \X Same))
mpfr_div_d_edge == Edge(32, One({1, 2, 24, 53, 200, 1000, 4096}), Rnds,
        ({"inf", "normal"} \X {"inf", "normal"} \X Same) \cup (Kinds \X Normal \X Same)
        \cup (Normal \X Kinds \X Same) \cup (Normal \X Normal \X Ordered)
        \cup (Finite \X Finite \X Same))
mpfr_div_d_adversarial == Adversarial(12, One({1, 53}), (Rnds \ {"RNDA"}),
        Normal \X Normal \X Ordered)
mpfr_div_d_fuzz == Fuzz(60, One(2..255), Rnds, Normal \X Normal \X Unequal)
mpfr_div_d_mined == Mined(5, One({53}), {"RNDN", "RNDU"}, (Finite \X Normal \X Same)
        \cup (Normal \X Normal \X {"=", ">"}))
mpfr_div_d_port ==
    Port(<<Param("b", "MPFR"), Param("c", "Double")>> \o RoundsTo, "Result", {},
         divReturns)

-----------------------------------------------------------------------------
(* mpfr_d_div: src/ops/d_div.ts                                            *)

mpfr_d_div_emit_case == Emits(<<Kv(1, "double", "b"), Kv(0, "mpfr", "c")>> \o PrecRnd,
        "result")
mpfr_d_div_happy == Happy(22, One({24, 32, 53, 100, 200}), {"RNDN", "RNDD", "RNDA"},
        (Normal \X Normal \X Ordered) \cup (Finite \X Normal \X Same))
mpfr_d_div_edge == Edge(31, One({1, 53, 200, 1000, 4096}), Rnds,
        ({"inf", "normal"} \X {"inf", "normal"} \X Same) \cup (Kinds \X Normal \X Same)
        \cup (Normal \X Kinds \X Same) \cup (Normal \X Normal \X Ordered)
        \cup (Finite \X Finite \X Same))
mpfr_d_div_adversarial == Adversarial(12, One({1, 53}), (Rnds \ {"RNDA"}),
        Normal \X Normal \X Ordered)
mpfr_d_div_fuzz == Fuzz(60, One(2..251), Rnds, Normal \X Normal \X Unequal)
mpfr_d_div_mined == Mined(5, One({53}), {"RNDN", "RNDU"}, (Finite \X Normal \X Same)
        \cup (Normal \X Normal \X {"=", ">"}))
mpfr_d_div_port ==
    Port(<<Param("b", "Double"), Param("c", "MPFR")>> \o RoundsTo, "Result", {},
         divReturns)

-----------------------------------------------------------------------------
(* mpfr_add_ui: src/ops/add_ui.ts                                          *)

mpfr_add_ui_emit_case == Rounds2("b", "u64", "c")
mpfr_add_ui_happy == Happy(22, One({24, 53}), {"RNDN"}, (Kinds \X {"+"} \X Same)
        \cup ({"nan", "normal"} \X Unsigned \X Same)
        \cup (Normal \X {"+"} \X {"0", "=", ">"}) \cup (Normal \X {"0"} \X {"<", "="}))
mpfr_add_ui_edge == Edge(33, One({1, 3, 53, 64, 100, 1024}), Rnds,
        (Numbers \X {"+"} \X Same) \cup ({"nan", "normal"} \X {"0"} \X Same)
        \cup (Normal \X {"+"} \X Ordered))
mpfr_add_ui_adversarial == Adversarial(10, One({1, 24, 53}), (Rnds \ {"RNDZ"}),
        Normal \X {"+"} \X (Ordered \cup {"0"}))
mpfr_add_ui_fuzz == Fuzz(55, One(5..195), Rnds, (Kinds \X {"+"} \X Same)
        \cup (Finite \X {"+"} \X Ordered))
mpfr_add_ui_mined == Mined(5, One({53}), {"RNDN"},
        ({"nan", "zero", "normal"} \X {"+"} \X Same) \cup (Normal \X {"+"} \X {"=", ">"})
        \cup (Normal \X Unsigned \X Same))
mpfr_add_ui_port ==
    Port(<<Param("b", "MPFR"), Param("c", "ULong")>> \o RoundsTo, "Result", {},
         addUlong({"+"}))

-----------------------------------------------------------------------------
(* mpfr_sub_ui: src/ops/sub_ui.ts                                          *)

mpfr_sub_ui_emit_case == Rounds2("b", "u64", "c")
mpfr_sub_ui_happy == Happy(22, One({24, 53, 64}), {"RNDN"}, (Kinds \X {"+"} \X Same)
        \cup ({"nan", "normal"} \X Unsigned \X Same)
        \cup (Normal \X {"+"} \X {"0", "<", "="}) \cup (Normal \X Unsigned \X {"<", "="}))
mpfr_sub_ui_edge == Edge(32, One({1, 3, 53, 64, 100, 1024}), Rnds,
        ({"inf", "normal"} \X {"+"} \X Same) \cup ({"nan", "normal"} \X {"0"} \X Same)
        \cup (Normal \X {"+"} \X Ordered))
mpfr_sub_ui_adversarial == Adversarial(10, One({24, 53}), {"RNDN", "RNDU", "RNDD"},
        Normal \X {"+"} \X (Ordered \cup {"0"}))
mpfr_sub_ui_fuzz == Fuzz(55, One(1..198), Rnds, (Kinds \X {"+"} \X Same)
        \cup (Finite \X {"+"} \X Ordered))
mpfr_sub_ui_mined == Mined(5, One({53}), {"RNDN"},
        ({"nan", "zero", "normal"} \X {"+"} \X Same) \cup (Normal \X {"+"} \X {"0", "="})
        \cup (Normal \X Unsigned \X Same))
mpfr_sub_ui_port ==
    Port(<<Param("b", "MPFR"), Param("c", "ULong")>> \o RoundsTo, "Result", {},
         subUlong({"+"}))

-----------------------------------------------------------------------------
(* mpfr_add_si: src/ops/add_si.ts                                          *)

mpfr_add_si_emit_case == Rounds2("b", "i64", "c")
mpfr_add_si_happy == Happy(22, One({24, 53}), {"RNDN", "RNDD"}, (Numbers \X Nonzero \X Same)
        \cup (Kinds \X {"+"} \X Same) \cup (Normal \X Nonzero \X {"0", "="})
        \cup (Normal \X {"+"} \X {"0", "=", ">"}) \cup (Normal \X {"-"} \X {"0", "<", "="})
        \cup (Normal \X Integral \X Same))
mpfr_add_si_edge == Edge(30, One({1, 3, 53, 64}), Rnds, (Normal \X Nonzero \X Ordered)
        \cup (Normal \X Integral \X Same))
mpfr_add_si_adversarial == Adversarial(10, One({1, 24, 53, 64}), {"RNDN", "RNDU", "RNDD"},
        (Normal \X Nonzero \X Unequal) \cup (Normal \X {"-"} \X (Ordered \cup {"0"})))
mpfr_add_si_fuzz == Fuzz(55, One(11..198), Rnds, (Numbers \X Nonzero \X Same)
        \cup (Kinds \X {"-"} \X Same) \cup (Normal \X Nonzero \X Ordered)
        \cup (Finite \X {"-"} \X {"<", "="}))
mpfr_add_si_mined == Mined(5, One({53}), {"RNDN"}, (NaN \X {"+"} \X Same)
        \cup (Normal \X {"+"} \X Greater) \cup (Normal \X {"-"} \X {"0", "="})
        \cup (Finite \X {"-"} \X Same))
mpfr_add_si_port ==
    Port(<<Param("b", "MPFR"), Param("c", "Long")>> \o RoundsTo, "Result", {},
         addUlong({"+"}) \o Tail(subUlong({"-"})))

-----------------------------------------------------------------------------
(* mpfr_sub_si: src/ops/sub_si.ts                                          *)

mpfr_sub_si_emit_case == Rounds2("b", "i64", "c")
mpfr_sub_si_happy == Happy(22, One({24, 53}), {"RNDN"}, (Numbers \X Nonzero \X Same)
        \cup (Kinds \X {"+"} \X Same) \cup (Normal \X {"+"} \X {"0", "<", "="})
        \cup (Normal \X {"-"} \X {"=", ">"}) \cup (Normal \X Integral \X Same))
mpfr_sub_si_edge == Edge(30, One({1, 3, 53, 64}), Rnds, (Normal \X Nonzero \X Ordered)
        \cup (Normal \X Integral \X Same))
mpfr_sub_si_adversarial == Adversarial(10, One({1, 24, 53, 64}), {"RNDN", "RNDU", "RNDD"},
        (Normal \X {"+"} \X (Ordered \cup {"0"})) \cup (Normal \X Nonzero \X {"<", "="}))
mpfr_sub_si_fuzz == Fuzz(55, One(20..197), Rnds,
        ({"nan", "inf", "normal"} \X Nonzero \X Same) \cup (Normal \X Nonzero \X Ordered)
        \cup (Kinds \X {"-"} \X Same))
mpfr_sub_si_mined == Mined(5, One({53}), {"RNDN"}, ({"nan", "normal"} \X {"+"} \X Same)
        \cup (Normal \X {"+"} \X {"0", "="}) \cup (Finite \X {"-"} \X Same))
mpfr_sub_si_port ==
    Port(<<Param("b", "MPFR"), Param("c", "Long")>> \o RoundsTo, "Result", {},
         subUlong({"+"}) \o Tail(addUlong({"-"})))

-----------------------------------------------------------------------------
(* mpfr_mul_ui: src/ops/mul_ui.ts                                          *)

mpfr_mul_ui_emit_case == Rounds2("b", "u64", "c")
mpfr_mul_ui_happy == Happy(22, One({24, 53}), {"RNDN"}, (Kinds \X {"+"} \X Same)
        \cup ({"inf", "normal"} \X Unsigned \X Same) \cup (Normal \X {"+"} \X Ordered)
        \cup (Normal \X Natural \X Same))
mpfr_mul_ui_edge == Edge(33, One({1, 3, 53, 64, 100, 128, 1024}), Rnds,
        ({"inf", "normal"} \X {"+"} \X Same) \cup ({"nan", "normal"} \X {"0"} \X Same)
        \cup (Normal \X {"+"} \X Ordered) \cup (Normal \X Natural \X Same))
mpfr_mul_ui_adversarial == Adversarial(10, One({2, 24, 53}), {"RNDN", "RNDU", "RNDD"},
        (Normal \X {"+"} \X Ordered) \cup (Normal \X {"+", "2^k"} \X Same))
mpfr_mul_ui_fuzz == Fuzz(55, One(3..194), Rnds, (Kinds \X {"+"} \X Same)
        \cup (Normal \X {"+"} \X Ordered))
mpfr_mul_ui_mined == Mined(5, One({53}), {"RNDN"}, ({"inf", "normal"} \X {"0"} \X Same)
        \cup (Normal \X {"+"} \X Greater) \cup (Normal \X {"0", "2^k"} \X Same)
        \cup (Zero \X {"+"} \X Same))
mpfr_mul_ui_port ==
    Port(<<Param("b", "MPFR"), Param("c", "ULong")>> \o RoundsTo, "Result", {},
         mulUlong)

-----------------------------------------------------------------------------
(* mpfr_mul_si: src/ops/mul_si.ts                                          *)

mpfr_mul_si_emit_case == Rounds2("b", "i64", "c")
mpfr_mul_si_happy == Happy(22, One({24, 53}), {"RNDN"},
        ({"inf", "normal"} \X {"0", "-"} \X Same)
        \cup ({"nan", "zero", "normal"} \X {"+"} \X Same)
        \cup (Normal \X {"+"} \X {"=", ">"}) \cup (Normal \X {"-"} \X {"<", "="})
        \cup (Normal \X (Powers \cup Integral) \X Same) \cup (Numbers \X {"-"} \X Same))
mpfr_mul_si_edge == Edge(30, One({1, 3, 53, 64}), Rnds, (Normal \X Nonzero \X Ordered)
        \cup (Normal \X (Integral \cup {"1"}) \X Same))
mpfr_mul_si_adversarial == Adversarial(10, One({2, 24, 53, 64}), {"RNDN", "RNDU", "RNDD"},
        (Normal \X Nonzero \X Unequal) \cup (Normal \X {"-", "2^k"} \X Same))
mpfr_mul_si_fuzz == Fuzz(55, One(2..199), Rnds, (Numbers \X Nonzero \X Same)
        \cup (Kinds \X {"-"} \X Same) \cup (Normal \X Nonzero \X Ordered))
mpfr_mul_si_mined == Mined(5, One({53}), {"RNDN"}, (Inf \X {"0"} \X Same)
        \cup (Normal \X {"+"} \X Greater) \cup (Normal \X {"-"} \X Less)
        \cup (Zero \X {"-"} \X Same))
mpfr_mul_si_port ==
    Port(<<Param("b", "MPFR"), Param("c", "Long")>> \o RoundsTo, "Result", {},
         mulUlong
         \o <<NaN \X {"-"}, Inf \X {"-"}, Zero \X {"-"}>> \o Rounded2(Normal, {"-"}))

-----------------------------------------------------------------------------
(* mpfr_add_z: src/ops/add_z.ts                                            *)

mpfr_add_z_emit_case == Asserts(Rounds2("x", "mpz", "z"), {}, AnyPrec)
mpfr_add_z_happy == Happy(25, One({24, 53}), {"RNDN", "RNDD"}, (Numbers \X Nonzero \X Same)
        \cup (Kinds \X {"+"} \X Same) \cup (Normal \X Nonzero \X {"0", "="})
        \cup (Normal \X {"+"} \X {"0", "=", ">"}) \cup (Normal \X {"-"} \X {"0", "<", "="})
        \cup (Finite \X Integral \X Same))
mpfr_add_z_edge == Edge(32, One({1, 3, 53, 1024}), Rnds, ({"nan", "inf"} \X Nonzero \X Same)
        \cup ({"nan", "zero", "normal"} \X {"0"} \X Same) \cup (Normal \X {"+"} \X Greater)
        \cup (Normal \X {"0", "-", "huge"} \X Same) \cup (Normal \X {"huge"} \X {"<", "="}))
mpfr_add_z_adversarial == Adversarial(10, One({1, 24, 53}), {"RNDN", "RNDU", "RNDD"},
        (Normal \X {"+"} \X Ordered) \cup (Normal \X {"-"} \X {"0", "=", ">"}))
mpfr_add_z_fuzz == Fuzz(55, One({24, 53, 64, 100, 200}), Rnds,
        (Normal \X {"+", "-", "huge"} \X Unequal) \cup (Normal \X {"-", "huge"} \X Ordered))
mpfr_add_z_mined == Mined(5, One({32, 53}), {"RNDN", "RNDD"}, (Normal \X {"+"} \X Same)
        \cup (Zero \X {"0"} \X Same))
mpfr_add_z_port ==
    Port(<<Param("x", "MPFR"), Param("z", "BigInt")>> \o RoundsTo, "Result", {},
         <<Kinds \X Integral \X Less,
           Kinds \X Integral \X (Same \cup {"0"}),
           Kinds \X Integral \X Greater,
           Kinds \X {"huge"} \X Less,
           Kinds \X {"huge"} \X Same,
           Kinds \X {"huge"} \X Greater>>)

-----------------------------------------------------------------------------
(* mpfr_sub_z: src/ops/sub_z.ts                                            *)

mpfr_sub_z_emit_case == Asserts(Rounds2("x", "mpz", "z"), {}, AnyPrec)
mpfr_sub_z_happy == Happy(25, One({24, 53}), {"RNDN", "RNDD"}, (Kinds \X {"+"} \X Same)
        \cup (Normal \X Nonzero \X {"0", "=", ">"})
        \cup (Normal \X {"+"} \X (Ordered \cup {"0"})) \cup (Finite \X Integral \X Same))
mpfr_sub_z_edge == Edge(32, One({1, 3, 53, 1024}), Rnds, ({"nan", "inf"} \X Nonzero \X Same)
        \cup ({"nan", "zero", "normal"} \X {"0"} \X Same)
        \cup (Normal \X {"+"} \X {"0", "="}) \cup (Normal \X {"huge"} \X Ordered))
mpfr_sub_z_adversarial == Adversarial(10, One({1, 24, 53}), {"RNDN", "RNDU", "RNDD"},
        (Normal \X {"+"} \X {"0", "=", ">"}) \cup (Normal \X {"-"} \X Ordered))
mpfr_sub_z_fuzz == Fuzz(55, One({24, 53, 64, 100, 200}), Rnds,
        (Normal \X {"+", "-", "huge"} \X Greater) \cup (Normal \X {"-", "huge"} \X Ordered)
        \cup (Normal \X {"0", "-", "huge"} \X Same))
mpfr_sub_z_mined == Mined(5, One({32, 53}), {"RNDN", "RNDD"}, (Normal \X {"+"} \X Same)
        \cup (Zero \X {"0"} \X Same))
mpfr_sub_z_port ==
    Port(<<Param("x", "MPFR"), Param("z", "BigInt")>> \o RoundsTo, "Result", {},
         <<Kinds \X Integral \X Less,
           Kinds \X Integral \X (Same \cup {"0"}),
           Kinds \X Integral \X Greater,
           Kinds \X {"huge"} \X Less,
           Kinds \X {"huge"} \X Same,
           Kinds \X {"huge"} \X Greater>>)

-----------------------------------------------------------------------------
(* mpfr_mul_z: src/ops/mul_z.ts                                            *)

mpfr_mul_z_emit_case == Asserts(Rounds2("x", "mpz", "z"), {}, AnyPrec)
mpfr_mul_z_happy == Happy(25, One({24, 53}), {"RNDN"},
        ({"inf", "normal"} \X Integral \X Same) \cup (Kinds \X {"+"} \X Same)
        \cup (Normal \X Nonzero \X Ordered))
mpfr_mul_z_edge == Edge(32, One({1, 53}), Rnds,
        ({"nan", "inf", "normal"} \X Unsigned \X Same)
        \cup ({"nan", "inf"} \X Integral \X Same) \cup (Normal \X {"huge"} \X {"=", ">"})
        \cup (Kinds \X {"0"} \X Same))
mpfr_mul_z_adversarial == Adversarial(10, One({2, 3, 24, 53}), {"RNDN", "RNDU", "RNDD"},
        Normal \X {"+"} \X Ordered)
mpfr_mul_z_fuzz == Fuzz(55, One({24, 53, 64, 100, 200}), Rnds,
        (Normal \X {"+", "-", "huge"} \X Ordered)
        \cup (Normal \X (Integral \cup {"huge"}) \X Same))
mpfr_mul_z_mined == Mined(5, One({32, 53}), {"RNDN", "RNDD"}, (Normal \X Nonzero \X Same)
        \cup (Zero \X {"0"} \X Same))
mpfr_mul_z_port ==
    Port(<<Param("x", "MPFR"), Param("z", "BigInt")>> \o RoundsTo, "Result", {},
         <<Kinds \X Integral \X Less,
           Kinds \X Integral \X (Same \cup {"0"}),
           Kinds \X Integral \X Greater,
           Kinds \X {"huge"} \X Less,
           Kinds \X {"huge"} \X Same,
           Kinds \X {"huge"} \X Greater>>)

-----------------------------------------------------------------------------
(* mpfr_mul_ui5: src/ops/mul_ui5.ts                                        *)

mpfr_mul_ui5_emit_case ==
    Asserts(Emits(<<Kv(1, "mpfr", "x"), Kv(0, "u64", "v1"), Kv(0, "u64", "v2"), Kv(0, "u64",
            "v3"), Kv(0, "u64", "v4"), Kv(0, "u64", "v5")>>
              \o PrecRnd, "result"), {}, AnyPrec)
mpfr_mul_ui5_happy == Happy(20, One({24, 53, 64, 100, 200}), Rnds,
        Normal \X {"+"} \X {"+"} \X {"+"} \X {"+"} \X {"+"} \X {"fits"})
mpfr_mul_ui5_edge == Edge(31, One({1, 24, 53, 64, 128}), Rnds,
        (Kinds \X {"+"} \X {"+"} \X {"+"} \X {"+"} \X {"+"} \X {"fits"})
        \cup (Normal \X {"+"} \X {"+"} \X {"+"} \X {"+"} \X {"+"} \X {"fits", "flushes"}))
mpfr_mul_ui5_adversarial == Adversarial(12, One({2, 24, 53}), {"RNDN", "RNDU", "RNDD"},
        Normal \X {"+"} \X {"+"} \X {"+"} \X {"+"} \X {"+"} \X {"fits", "flushes"})
mpfr_mul_ui5_fuzz == Fuzz(50, One({24, 53, 64, 100, 200}), Rnds,
        Normal \X {"+"} \X {"+"} \X {"+"} \X {"+"} \X {"+"} \X {"fits", "flushes"})
mpfr_mul_ui5_mined == Mined(5, One({53, 100, 200}), {"RNDN"},
        Normal \X {"+"} \X {"+"} \X {"+"} \X {"+"} \X {"+"} \X {"fits"})
mpfr_mul_ui5_port ==
    Port(<<Param("x", "MPFR"), Param("v1", "ULong"), Param("v2", "ULong"), Param("v3",
            "ULong"), Param("v4", "ULong"), Param("v5", "ULong")>> \o RoundsTo, "Result",
                    {o \in Kinds \X Unsigned \X Unsigned \X Unsigned \X Unsigned \X Unsigned :
            \E i \in 2..6 : o[i] = "0"},
         [k \in 1..2 |-> {<<x>> \o Factors \o <<<<"fits", "flushes">>[k]>> : x \in Kinds}])

-----------------------------------------------------------------------------
(* The drivers of this family, as run_all.sh finds them.                   *)

MixedDrivers ==
    "mpfr_mul_2si" :> Driver(mpfr_mul_2si_emit_case,
        <<mpfr_mul_2si_happy, mpfr_mul_2si_edge, mpfr_mul_2si_adversarial,
        mpfr_mul_2si_fuzz, mpfr_mul_2si_mined>>, mpfr_mul_2si_port)
    @@ "mpfr_div_2si" :> Driver(mpfr_div_2si_emit_case,
        <<mpfr_div_2si_happy, mpfr_div_2si_edge, mpfr_div_2si_adversarial,
        mpfr_div_2si_fuzz, mpfr_div_2si_mined>>, mpfr_div_2si_port)
    @@ "mpfr_mul_2ui" :> Driver(mpfr_mul_2ui_emit_case,
        <<mpfr_mul_2ui_happy, mpfr_mul_2ui_edge, mpfr_mul_2ui_adversarial,
        mpfr_mul_2ui_fuzz, mpfr_mul_2ui_mined>>, mpfr_mul_2ui_port)
    @@ "mpfr_div_2ui" :> Driver(mpfr_div_2ui_emit_case,
        <<mpfr_div_2ui_happy, mpfr_div_2ui_edge, mpfr_div_2ui_adversarial,
        mpfr_div_2ui_fuzz, mpfr_div_2ui_mined>>, mpfr_div_2ui_port)
    @@ "mpfr_mul_2exp" :> Driver(mpfr_mul_2exp_emit_case,
        <<mpfr_mul_2exp_happy, mpfr_mul_2exp_edge, mpfr_mul_2exp_adversarial,
        mpfr_mul_2exp_fuzz, mpfr_mul_2exp_mined>>, mpfr_mul_2exp_port)
    @@ "mpfr_div_2exp" :> Driver(mpfr_div_2exp_emit_case,
        <<mpfr_div_2exp_happy, mpfr_div_2exp_edge, mpfr_div_2exp_adversarial,
        mpfr_div_2exp_fuzz, mpfr_div_2exp_mined>>, mpfr_div_2exp_port)
    @@ "mpfr_add_d" :> Driver(mpfr_add_d_emit_case,
        <<mpfr_add_d_happy, mpfr_add_d_edge, mpfr_add_d_adversarial, mpfr_add_d_fuzz,
        mpfr_add_d_mined>>, mpfr_add_d_port)
    @@ "mpfr_sub_d" :> Driver(mpfr_sub_d_emit_case,
        <<mpfr_sub_d_happy, mpfr_sub_d_edge, mpfr_sub_d_adversarial, mpfr_sub_d_fuzz,
        mpfr_sub_d_mined>>, mpfr_sub_d_port)
    @@ "mpfr_d_sub" :> Driver(mpfr_d_sub_emit_case,
        <<mpfr_d_sub_happy, mpfr_d_sub_edge, mpfr_d_sub_adversarial, mpfr_d_sub_fuzz,
        mpfr_d_sub_mined>>, mpfr_d_sub_port)
    @@ "mpfr_mul_d" :> Driver(mpfr_mul_d_emit_case,
        <<mpfr_mul_d_happy, mpfr_mul_d_edge, mpfr_mul_d_adversarial, mpfr_mul_d_fuzz,
        mpfr_mul_d_mined>>, mpfr_mul_d_port)
    @@ "mpfr_div_d" :> Driver(mpfr_div_d_emit_case,
        <<mpfr_div_d_happy, mpfr_div_d_edge, mpfr_div_d_adversarial, mpfr_div_d_fuzz,
        mpfr_div_d_mined>>, mpfr_div_d_port)
    @@ "mpfr_d_div" :> Driver(mpfr_d_div_emit_case,
        <<mpfr_d_div_happy, mpfr_d_div_edge, mpfr_d_div_adversarial, mpfr_d_div_fuzz,
        mpfr_d_div_mined>>, mpfr_d_div_port)
    @@ "mpfr_add_ui" :> Driver(mpfr_add_ui_emit_case,
        <<mpfr_add_ui_happy, mpfr_add_ui_edge, mpfr_add_ui_adversarial,
        mpfr_add_ui_fuzz, mpfr_add_ui_mined>>, mpfr_add_ui_port)
    @@ "mpfr_sub_ui" :> Driver(mpfr_sub_ui_emit_case,
        <<mpfr_sub_ui_happy, mpfr_sub_ui_edge, mpfr_sub_ui_adversarial,
        mpfr_sub_ui_fuzz, mpfr_sub_ui_mined>>, mpfr_sub_ui_port)
    @@ "mpfr_add_si" :> Driver(mpfr_add_si_emit_case,
        <<mpfr_add_si_happy, mpfr_add_si_edge, mpfr_add_si_adversarial,
        mpfr_add_si_fuzz, mpfr_add_si_mined>>, mpfr_add_si_port)
    @@ "mpfr_sub_si" :> Driver(mpfr_sub_si_emit_case,
        <<mpfr_sub_si_happy, mpfr_sub_si_edge, mpfr_sub_si_adversarial,
        mpfr_sub_si_fuzz, mpfr_sub_si_mined>>, mpfr_sub_si_port)
    @@ "mpfr_mul_ui" :> Driver(mpfr_mul_ui_emit_case,
        <<mpfr_mul_ui_happy, mpfr_mul_ui_edge, mpfr_mul_ui_adversarial,
        mpfr_mul_ui_fuzz, mpfr_mul_ui_mined>>, mpfr_mul_ui_port)
    @@ "mpfr_mul_si" :> Driver(mpfr_mul_si_emit_case,
        <<mpfr_mul_si_happy, mpfr_mul_si_edge, mpfr_mul_si_adversarial,
        mpfr_mul_si_fuzz, mpfr_mul_si_mined>>, mpfr_mul_si_port)
    @@ "mpfr_add_z" :> Driver(mpfr_add_z_emit_case,
        <<mpfr_add_z_happy, mpfr_add_z_edge, mpfr_add_z_adversarial, mpfr_add_z_fuzz,
        mpfr_add_z_mined>>, mpfr_add_z_port)
    @@ "mpfr_sub_z" :> Driver(mpfr_sub_z_emit_case,
        <<mpfr_sub_z_happy, mpfr_sub_z_edge, mpfr_sub_z_adversarial, mpfr_sub_z_fuzz,
        mpfr_sub_z_mined>>, mpfr_sub_z_port)
    @@ "mpfr_mul_z" :> Driver(mpfr_mul_z_emit_case,
        <<mpfr_mul_z_happy, mpfr_mul_z_edge, mpfr_mul_z_adversarial, mpfr_mul_z_fuzz,
        mpfr_mul_z_mined>>, mpfr_mul_z_port)
    @@ "mpfr_mul_ui5" :> Driver(mpfr_mul_ui5_emit_case,
        <<mpfr_mul_ui5_happy, mpfr_mul_ui5_edge, mpfr_mul_ui5_adversarial,
        mpfr_mul_ui5_fuzz, mpfr_mul_ui5_mined>>, mpfr_mul_ui5_port)

\* No golden adds a double infinity to one of the same sign (in mpfr_sub_d and
\* mpfr_d_sub: takes it from one of the other), and none takes a negative long
\* from its own value.
MixedGaps == ({"mpfr_add_d", "mpfr_sub_d", "mpfr_d_sub"} \X {2}) \cup {<<"mpfr_sub_si", 15>>}

=============================================================================
