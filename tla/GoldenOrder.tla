---------------------------- MODULE GoldenOrder -----------------------------
(***************************************************************************)
(* The golden drivers of the functions that compare, select and classify,  *)
(* and the ports they grade.                                               *)
(***************************************************************************)
EXTENDS GoldenWire

-----------------------------------------------------------------------------
(* Where a driver emits two operands to compare, the last member of the    *)
(* tuple says how they compare ("?": not at all), for two normal values    *)
(* also in what: sign, exponent or mantissa.                               *)

SameSign == {"exp >", "exp <", "mant >", "mant <", "="}
Ways == {"sign"} \cup SameSign

\* The returns of compareMPFR, in its order: a NaN, two zeros, two infinities, one
\* infinity, one zero, two normal values; without the NaN, at which mpfr_cmp and
\* its like throw before.
compareNormal(S) ==
    LET ways == <<"sign", "exp >", "exp <", "mant >", "mant <", "=">>
    IN  [k \in DOMAIN ways |-> {o \o <<ways[k]>> : o \in S}]
compareNumbers ==
    <<Zero \X Zero, Inf \X Inf \X Same, Inf \X Inf \X Unequal, Inf \X Kinds, Kinds \X Inf,
      Zero \X Kinds, Kinds \X Zero>> \o compareNormal(Normal \X Normal)
compareMPFR == <<Either(NaN, Kinds)>> \o compareNumbers
\* Against an integer: 0 becomes a zero, another one a normal value.
compareInteger ==
    <<Zero \X {"0"}, Inf \X Integral, Zero \X Integral, Kinds \X {"0"}>>
    \o compareNormal(Normal \X Integral)
compareSigned(s) ==
    <<Zero \X Zero \X {s}, Inf \X Inf \X {s} \X Same, Inf \X Inf \X {s} \X Unequal,
      Inf \X Kinds \X {s}, Kinds \X Inf \X {s}, Zero \X Kinds \X {s}, Kinds \X Zero \X {s}>>
    \o compareNormal(Normal \X Normal \X {s})

-----------------------------------------------------------------------------
(* mpfr_cmp: src/ops/cmp.ts                                                *)

\* The pairs with a NaN are not left out; the pair of zeros is.
mpfr_cmp_edge_with_nan ==                                            \* mutant
    Edge(51, NoPrec, NoRnd, (Kinds \X Kinds \X Unordered) \cup (Normal \X Normal \X Ways))
mpfr_cmp_edge_without_zeros ==                                       \* mutant
    Edge(49, NoPrec, NoRnd, (Inf \X Numbers \X Ordered) \cup (Normal \X Inf \X Unequal)
        \cup (Normal \X Zero \X Unequal) \cup (Zero \X Inf \X Unequal)
        \cup (Zero \X Normal \X Unequal) \cup (Normal \X Normal \X Ways))
mpfr_cmp_emit_case == Asserts(Emits2("a", "b", "int"), Either(NaN, Kinds), Seq(Nat))
mpfr_cmp_happy == Happy(25, NoPrec, NoRnd, Normal \X Normal \X Ways)
mpfr_cmp_edge == Edge(50, NoPrec, NoRnd, (Inf \X Numbers \X Unequal)
        \cup (Inf \X Inf \X Ordered) \cup (Numbers \X Inf \X Less)
        \cup (Normal \X Normal \X SameSign) \cup ({"inf", "normal"} \X Zero \X Unequal)
        \cup ({"inf", "zero"} \X Normal \X Unequal) \cup (Zero \X Zero \X Same))
mpfr_cmp_adversarial == Adversarial(234, NoPrec, NoRnd,
        Normal \X Normal \X (Ways \ {"exp >"}))
mpfr_cmp_fuzz == Fuzz(60, NoPrec, NoRnd, Normal \X Normal \X {"sign", "exp >", "exp <"})
mpfr_cmp_mined == Mined(5, NoPrec, NoRnd, (Inf \X Inf \X {"=", ">"})
        \cup (Normal \X Normal \X Same) \cup (Zero \X Normal \X Less))
mpfr_cmp_port ==
    Port(Mpfrs(<<"a", "b">>), "number", Either(NaN, Kinds),
         compareNumbers)

-----------------------------------------------------------------------------
(* mpfr_cmp_si: src/ops/cmp_si.ts                                          *)

mpfr_cmp_si_emit_case ==
    Asserts(Emits(<<Kv(1, "mpfr", "x"), Kv(0, "i64", "n")>>, "int"), One(NaN), Seq(Nat))
mpfr_cmp_si_happy == Happy(26, NoPrec, NoRnd, (Normal \X Nonzero \X (Ways \ {"mant <"}))
        \cup (Normal \X {"-"} \X Ways) \cup (Normal \X {"0"} \X Greater)
        \cup (Zero \X {"+"} \X Less) \cup (Zero \X {"0"} \X Same))
mpfr_cmp_si_edge == Edge(59, NoPrec, NoRnd, (Inf \X Integral \X Unequal)
        \cup (Normal \X Nonzero \X (Ways \ {"mant >", "mant <"}))
        \cup (Normal \X {"+"} \X Ways) \cup ({"inf", "normal"} \X {"0"} \X Unequal)
        \cup ({"inf", "zero"} \X {"+"} \X Less) \cup ({"inf", "zero"} \X {"-"} \X Greater)
        \cup (Zero \X {"0"} \X Same))
mpfr_cmp_si_adversarial == Adversarial(258, NoPrec, NoRnd,
        (Normal \X Nonzero \X {"sign", "="}) \cup (Normal \X {"-"} \X (Ways \ {"exp >"}))
        \cup (Zero \X {"-"} \X Greater))
mpfr_cmp_si_fuzz == Fuzz(60, NoPrec, NoRnd, Normal \X Nonzero \X {"sign", "exp >", "exp <"})
mpfr_cmp_si_mined == Mined(5, NoPrec, NoRnd, (Normal \X {"+"} \X {"sign", "="})
        \cup (Normal \X Nonzero \X {"sign"}) \cup (Zero \X {"0"} \X Same))
mpfr_cmp_si_port ==
    Port(<<Param("x", "MPFR"), Param("n", "Long")>>, "number", One(NaN),
         compareInteger)

-----------------------------------------------------------------------------
(* mpfr_cmp_ui: src/ops/cmp_ui.ts                                          *)

mpfr_cmp_ui_emit_case ==
    Asserts(Emits(<<Kv(1, "mpfr", "x"), Kv(0, "u64", "n")>>, "int"), One(NaN), Seq(Nat))
mpfr_cmp_ui_happy == Happy(25, NoPrec, NoRnd, (Normal \X {"+"} \X (Ways \ {"mant <"}))
        \cup (Normal \X {"0"} \X Unequal) \cup (Zero \X {"+"} \X Less)
        \cup (Zero \X {"0"} \X Same))
mpfr_cmp_ui_edge == Edge(48, NoPrec, NoRnd, (Inf \X Unsigned \X Unequal)
        \cup (Normal \X {"+"} \X Ways) \cup ({"inf", "normal"} \X {"0"} \X Unequal)
        \cup ({"inf", "zero"} \X {"+"} \X Less) \cup (Zero \X {"0"} \X Same))
mpfr_cmp_ui_adversarial == Adversarial(83, NoPrec, NoRnd,
        Normal \X {"+"} \X (SameSign \ {"exp >"}))
mpfr_cmp_ui_fuzz == Fuzz(60, NoPrec, NoRnd, Normal \X {"+"} \X {"sign", "exp >", "exp <"})
mpfr_cmp_ui_mined == Mined(5, NoPrec, NoRnd, (Normal \X {"+"} \X {"sign", "exp <", "="})
        \cup (Zero \X {"0"} \X Same))
mpfr_cmp_ui_port ==
    Port(<<Param("x", "MPFR"), Param("n", "ULong")>>, "number", One(NaN),
         compareInteger)

-----------------------------------------------------------------------------
(* mpfr_cmp_d: src/ops/cmp_d.ts                                            *)

mpfr_cmp_d_emit_case ==
    Asserts(Emits(<<Kv(1, "mpfr", "x"), Kv(0, "double", "d")>>, "int"), Either(NaN, Kinds),
            Seq(Nat))
mpfr_cmp_d_happy == Happy(26, NoPrec, NoRnd, Normal \X Normal \X Ways)
mpfr_cmp_d_edge == Edge(49, NoPrec, NoRnd, ({"inf", "normal"} \X {"inf", "zero"} \X Unequal)
        \cup (Inf \X Inf \X Ordered) \cup ({"inf", "zero"} \X Normal \X Unequal)
        \cup (Normal \X Normal \X (SameSign \ {"mant <"})) \cup (Zero \X Zero \X Same))
mpfr_cmp_d_adversarial == Adversarial(106, NoPrec, NoRnd, (Inf \X Normal \X Unequal)
        \cup (Normal \X Inf \X Unequal) \cup (Normal \X Normal \X SameSign))
mpfr_cmp_d_fuzz == Fuzz(60, NoPrec, NoRnd, Normal \X Normal \X {"sign", "exp >", "exp <"})
mpfr_cmp_d_mined == Mined(5, NoPrec, NoRnd, (Inf \X Zero \X Greater)
        \cup (Normal \X Normal \X {"mant >", "mant <", "="}) \cup (Zero \X Zero \X Same))
mpfr_cmp_d_port ==
    Port(<<Param("x", "MPFR"), Param("d", "Double")>>, "number", Either(NaN, Kinds),
         compareNumbers)

-----------------------------------------------------------------------------
(* mpfr_cmp3: src/ops/cmp3.ts                                              *)

mpfr_cmp3_emit_case ==
    Asserts(Emits(<<Kv(1, "mpfr", "b"), Kv(0, "mpfr", "c"), Kv(0, "int", "s")>>, "int"),
            Either(NaN, Kinds) \cup (Kinds \X Kinds \X {"0"}), Seq(Nat))
mpfr_cmp3_happy == Happy(22, NoPrec, NoRnd,
        (Normal \X Normal \X Nonzero \X (Ways \ {"exp <", "mant <"}))
        \cup (Zero \X Normal \X Nonzero \X Less) \cup (Zero \X Normal \X {"-"} \X Unequal))
mpfr_cmp3_edge == Edge(30, NoPrec, NoRnd, ({"inf", "normal"} \X Inf \X {"+"} \X Less)
        \cup (Inf \X Inf \X Nonzero \X Same)
        \cup ({"inf", "normal"} \X Inf \X {"-"} \X Greater)
        \cup ({"inf", "zero"} \X Normal \X {"+"} \X Greater)
        \cup ({"inf", "zero"} \X Normal \X {"-"} \X Less)
        \cup (Normal \X Normal \X Nonzero \X {"sign", "="})
        \cup (Normal \X Zero \X Nonzero \X Unequal)
        \cup (Zero \X Normal \X Nonzero \X Unequal) \cup (Zero \X Zero \X Nonzero \X Same))
mpfr_cmp3_adversarial == Adversarial(12, NoPrec, NoRnd, (Inf \X Inf \X {"+"} \X Greater)
        \cup (Inf \X Inf \X {"-"} \X Same) \cup (Normal \X Normal \X {"+"} \X {"mant <"})
        \cup (Normal \X Normal \X {"-"} \X {"sign", "="})
        \cup (Zero \X Zero \X Nonzero \X Same))
mpfr_cmp3_fuzz == Fuzz(60, NoPrec, NoRnd, Normal \X Normal \X Nonzero \X (Ways \ {"="}))
mpfr_cmp3_mined == Mined(5, NoPrec, NoRnd, (Inf \X Normal \X {"+"} \X Greater)
        \cup (Normal \X Normal \X Nonzero \X Same)
        \cup (Normal \X Normal \X {"+"} \X {"exp >", "="})
        \cup (Zero \X Zero \X {"+"} \X Same))
mpfr_cmp3_port ==
    Port(<<Param("b", "MPFR"), Param("c", "MPFR"), Param("s", "Int")>>, "number",
            Either(NaN, Kinds),
         compareSigned("-") \o compareSigned("+"))

-----------------------------------------------------------------------------
(* mpfr_cmpabs: src/ops/cmpabs.ts                                          *)

mpfr_cmpabs_emit_case == Asserts(Emits2("b", "c", "int"), Either(NaN, Kinds), Seq(Nat))
mpfr_cmpabs_happy == Happy(25, NoPrec, NoRnd, Normal \X Normal \X SameSign)
mpfr_cmpabs_edge == Edge(30, NoPrec, NoRnd, (Inf \X Inf \X Same)
        \cup (Inf \X Finite \X Greater) \cup (Finite \X Inf \X Less)
        \cup (Normal \X Normal \X (SameSign \ {"exp >"}))
        \cup ({"inf", "normal"} \X Zero \X Greater) \cup (Zero \X {"inf", "normal"} \X Less)
        \cup (Zero \X Zero \X Same))
mpfr_cmpabs_adversarial == Adversarial(12, NoPrec, NoRnd, Normal \X Normal \X Same)
mpfr_cmpabs_fuzz == Fuzz(60, NoPrec, NoRnd, Normal \X Normal \X (SameSign \ {"="}))
mpfr_cmpabs_mined == Mined(5, NoPrec, NoRnd, (Inf \X Normal \X Greater)
        \cup (Normal \X Normal \X {"exp >", "="}) \cup (Zero \X Normal \X Less))
mpfr_cmpabs_port ==
    Port(Mpfrs(<<"b", "c">>), "number", Either(NaN, Kinds),
         <<Inf \X Inf, Inf \X Kinds, Kinds \X Inf, Zero \X Zero, Kinds \X Zero,
                 Zero \X Kinds>>
         \o Tail(compareNormal(Normal \X Normal)))

-----------------------------------------------------------------------------
(* mpfr_cmpabs_ui: src/ops/cmpabs_ui.ts                                    *)

\* The sign is taken off b, the rest left to mpfr_cmp_ui.
mpfr_cmpabs_ui_emit_case ==
    Asserts(Emits(<<Kv(1, "mpfr", "b"), Kv(0, "u64", "c")>>, "int"), One(NaN), Seq(Nat))
mpfr_cmpabs_ui_happy == Happy(22, NoPrec, NoRnd, (Normal \X {"+"} \X SameSign)
        \cup (Normal \X {"0"} \X Greater) \cup (Zero \X {"+"} \X Less)
        \cup (Zero \X {"0"} \X Same))
mpfr_cmpabs_ui_edge == Edge(29, NoPrec, NoRnd, (Inf \X Unsigned \X Greater)
        \cup (Normal \X {"+"} \X SameSign) \cup ({"inf", "normal"} \X {"0"} \X Greater)
        \cup (Zero \X {"+"} \X Less) \cup (Zero \X {"0"} \X Same))
mpfr_cmpabs_ui_adversarial == Adversarial(10, NoPrec, NoRnd,
        (Normal \X {"+"} \X (SameSign \ {"exp >"})) \cup (Zero \X {"0"} \X Same))
mpfr_cmpabs_ui_fuzz == Fuzz(55, NoPrec, NoRnd, Normal \X {"+"} \X {"exp <"})
mpfr_cmpabs_ui_mined == Mined(5, NoPrec, NoRnd, (Inf \X {"+"} \X Greater)
        \cup (Normal \X {"+"} \X {"exp <", "="}) \cup (Zero \X {"0"} \X Same))
mpfr_cmpabs_ui_port ==
    Port(<<Param("b", "MPFR"), Param("c", "ULong")>>, "number", One(NaN),
         <<Zero \X {"0"}, Inf \X Unsigned, Zero \X Unsigned, Kinds \X {"0"}>>
         \o Tail(compareNormal(Normal \X Unsigned)))

-----------------------------------------------------------------------------
(* mpfr_equal_p: src/ops/equal_p.ts                                        *)

mpfr_equal_p_emit_case == Emits2("a", "b", "bool")
mpfr_equal_p_happy == Happy(25, NoPrec, NoRnd, (Normal \X Normal \X Ways)
        \cup (Zero \X Zero \X Same))
mpfr_equal_p_edge == Edge(55, NoPrec, NoRnd, (Inf \X Numbers \X Unequal)
        \cup (Inf \X Inf \X Ordered) \cup (NaN \X Kinds \X Unordered)
        \cup (Numbers \X Inf \X Less) \cup ({"nan", "zero", "normal"} \X NaN \X Unordered)
        \cup (Normal \X Normal \X SameSign) \cup ({"inf", "normal"} \X Zero \X Unequal)
        \cup ({"inf", "zero"} \X Normal \X Unequal) \cup (Zero \X Zero \X Same))
mpfr_equal_p_adversarial == Adversarial(80, NoPrec, NoRnd,
        Normal \X Normal \X (Ways \ {"exp >"}))
mpfr_equal_p_fuzz == Fuzz(60, NoPrec, NoRnd,
        Normal \X Normal \X (Ways \ {"mant >", "mant <"}))
mpfr_equal_p_mined == Mined(5, NoPrec, NoRnd, ({"nan", "normal"} \X NaN \X Unordered)
        \cup (NaN \X {"nan", "normal"} \X Unordered)
        \cup (Normal \X Normal \X {"sign", "="}))
mpfr_equal_p_port ==
    Port(Mpfrs(<<"a", "b">>), "boolean", {},
         compareMPFR)

-----------------------------------------------------------------------------
(* mpfr_greater_p: src/ops/greater_p.ts                                    *)

mpfr_greater_p_emit_case == Emits2("a", "b", "bool")
mpfr_greater_p_happy == Happy(25, NoPrec, NoRnd, (Normal \X Normal \X Ways)
        \cup (Zero \X Zero \X Same))
mpfr_greater_p_edge == Edge(55, NoPrec, NoRnd, (Inf \X Numbers \X Unequal)
        \cup (Inf \X Inf \X Ordered) \cup (NaN \X Kinds \X Unordered)
        \cup (Numbers \X Inf \X Less) \cup ({"nan", "zero", "normal"} \X NaN \X Unordered)
        \cup (Normal \X Normal \X SameSign) \cup ({"inf", "normal"} \X Zero \X Unequal)
        \cup ({"inf", "zero"} \X Normal \X Unequal) \cup (Zero \X Zero \X Same))
mpfr_greater_p_adversarial == Adversarial(80, NoPrec, NoRnd,
        Normal \X Normal \X (Ways \ {"exp >"}))
mpfr_greater_p_fuzz == Fuzz(60, NoPrec, NoRnd,
        Normal \X Normal \X (Ways \ {"mant >", "mant <"}))
mpfr_greater_p_mined == Mined(5, NoPrec, NoRnd, ({"nan", "normal"} \X NaN \X Unordered)
        \cup (NaN \X {"nan", "normal"} \X Unordered)
        \cup (Normal \X Normal \X {"sign", "="}))
mpfr_greater_p_port ==
    Port(Mpfrs(<<"a", "b">>), "boolean", {},
         compareMPFR)

-----------------------------------------------------------------------------
(* mpfr_greaterequal_p: src/ops/greaterequal_p.ts                          *)

mpfr_greaterequal_p_emit_case == Emits2("a", "b", "bool")
mpfr_greaterequal_p_happy == Happy(25, NoPrec, NoRnd, (Normal \X Normal \X Ways)
        \cup (Zero \X Zero \X Same))
mpfr_greaterequal_p_edge == Edge(55, NoPrec, NoRnd, (Inf \X Numbers \X Unequal)
        \cup (Inf \X Inf \X Ordered) \cup (NaN \X Kinds \X Unordered)
        \cup (Numbers \X Inf \X Less) \cup ({"nan", "zero", "normal"} \X NaN \X Unordered)
        \cup (Normal \X Normal \X SameSign) \cup ({"inf", "normal"} \X Zero \X Unequal)
        \cup ({"inf", "zero"} \X Normal \X Unequal) \cup (Zero \X Zero \X Same))
mpfr_greaterequal_p_adversarial == Adversarial(80, NoPrec, NoRnd,
        Normal \X Normal \X (Ways \ {"exp >"}))
mpfr_greaterequal_p_fuzz == Fuzz(60, NoPrec, NoRnd,
        Normal \X Normal \X (Ways \ {"mant >", "mant <"}))
mpfr_greaterequal_p_mined == Mined(5, NoPrec, NoRnd, ({"nan", "normal"} \X NaN \X Unordered)
        \cup (NaN \X {"nan", "normal"} \X Unordered)
        \cup (Normal \X Normal \X {"sign", "="}))
mpfr_greaterequal_p_port ==
    Port(Mpfrs(<<"a", "b">>), "boolean", {},
         compareMPFR)

-----------------------------------------------------------------------------
(* mpfr_less_p: src/ops/less_p.ts                                          *)

mpfr_less_p_emit_case == Emits2("a", "b", "bool")
mpfr_less_p_happy == Happy(25, NoPrec, NoRnd, (Normal \X Normal \X Ways)
        \cup (Zero \X Zero \X Same))
mpfr_less_p_edge == Edge(55, NoPrec, NoRnd, (Inf \X Numbers \X Unequal)
        \cup (Inf \X Inf \X Ordered) \cup (NaN \X Kinds \X Unordered)
        \cup (Numbers \X Inf \X Less) \cup ({"nan", "zero", "normal"} \X NaN \X Unordered)
        \cup (Normal \X Normal \X SameSign) \cup ({"inf", "normal"} \X Zero \X Unequal)
        \cup ({"inf", "zero"} \X Normal \X Unequal) \cup (Zero \X Zero \X Same))
mpfr_less_p_adversarial == Adversarial(80, NoPrec, NoRnd,
        Normal \X Normal \X (Ways \ {"exp >"}))
mpfr_less_p_fuzz == Fuzz(60, NoPrec, NoRnd,
        Normal \X Normal \X (Ways \ {"mant >", "mant <"}))
mpfr_less_p_mined == Mined(5, NoPrec, NoRnd, ({"nan", "normal"} \X NaN \X Unordered)
        \cup (NaN \X {"nan", "normal"} \X Unordered)
        \cup (Normal \X Normal \X {"sign", "="}))
mpfr_less_p_port ==
    Port(Mpfrs(<<"a", "b">>), "boolean", {},
         compareMPFR)

-----------------------------------------------------------------------------
(* mpfr_lessequal_p: src/ops/lessequal_p.ts                                *)

mpfr_lessequal_p_emit_case == Emits2("a", "b", "bool")
mpfr_lessequal_p_happy == Happy(25, NoPrec, NoRnd, (Normal \X Normal \X Ways)
        \cup (Zero \X Zero \X Same))
mpfr_lessequal_p_edge == Edge(55, NoPrec, NoRnd, (Inf \X Numbers \X Unequal)
        \cup (Inf \X Inf \X Ordered) \cup (NaN \X Kinds \X Unordered)
        \cup (Numbers \X Inf \X Less) \cup ({"nan", "zero", "normal"} \X NaN \X Unordered)
        \cup (Normal \X Normal \X SameSign) \cup ({"inf", "normal"} \X Zero \X Unequal)
        \cup ({"inf", "zero"} \X Normal \X Unequal) \cup (Zero \X Zero \X Same))
mpfr_lessequal_p_adversarial == Adversarial(80, NoPrec, NoRnd,
        Normal \X Normal \X (Ways \ {"exp >"}))
mpfr_lessequal_p_fuzz == Fuzz(60, NoPrec, NoRnd,
        Normal \X Normal \X (Ways \ {"mant >", "mant <"}))
mpfr_lessequal_p_mined == Mined(5, NoPrec, NoRnd, ({"nan", "normal"} \X NaN \X Unordered)
        \cup (NaN \X {"nan", "normal"} \X Unordered)
        \cup (Normal \X Normal \X {"sign", "="}))
mpfr_lessequal_p_port ==
    Port(Mpfrs(<<"a", "b">>), "boolean", {},
         compareMPFR)

-----------------------------------------------------------------------------
(* mpfr_lessgreater_p: src/ops/lessgreater_p.ts                            *)

mpfr_lessgreater_p_emit_case == Emits2("a", "b", "bool")
mpfr_lessgreater_p_happy == Happy(26, NoPrec, NoRnd, (Normal \X Normal \X Ways)
        \cup (Normal \X Zero \X Greater) \cup (Zero \X Normal \X Less))
mpfr_lessgreater_p_edge == Edge(50, NoPrec, NoRnd, (Inf \X Numbers \X Unequal)
        \cup (Inf \X Inf \X Ordered) \cup (NaN \X Kinds \X Unordered)
        \cup ({"inf", "normal"} \X {"inf", "zero"} \X Less)
        \cup ({"nan", "zero", "normal"} \X NaN \X Unordered) \cup (Normal \X Normal \X Ways)
        \cup ({"inf", "normal"} \X Zero \X Unequal)
        \cup ({"inf", "zero"} \X Normal \X Unequal) \cup (Zero \X Zero \X Same))
mpfr_lessgreater_p_adversarial == Adversarial(84, NoPrec, NoRnd, (Normal \X Normal \X Ways)
        \cup (Normal \X Zero \X Greater) \cup (Zero \X Normal \X Less))
mpfr_lessgreater_p_fuzz == Fuzz(60, NoPrec, NoRnd,
        Normal \X Normal \X (Ways \ {"mant >", "mant <"}))
mpfr_lessgreater_p_mined == Mined(5, NoPrec, NoRnd, (NaN \X Normal \X Unordered)
        \cup (Normal \X Normal \X {"sign", "exp >", "="}))
mpfr_lessgreater_p_port ==
    Port(Mpfrs(<<"a", "b">>), "boolean", {},
         compareMPFR)

-----------------------------------------------------------------------------
(* mpfr_unordered_p: src/ops/unordered_p.ts                                *)

mpfr_unordered_p_emit_case == Emits2("a", "b", "bool")
mpfr_unordered_p_happy == Happy(25, NoPrec, NoRnd, (Normal \X Normal) \cup (Zero \X Zero))
mpfr_unordered_p_edge == Edge(50, NoPrec, NoRnd, (Kinds \X {"nan", "inf", "normal"})
        \cup ({"nan", "zero"} \X Kinds))
mpfr_unordered_p_adversarial == Adversarial(140, NoPrec, NoRnd,
        ({"nan", "inf", "normal"} \X {"nan", "inf"})
        \cup ({"nan", "zero", "normal"} \X {"nan", "zero", "normal"}))
mpfr_unordered_p_fuzz == Fuzz(60, NoPrec, NoRnd, ({"nan", "normal"} \X Normal)
        \cup (Normal \X {"nan", "normal"}))
mpfr_unordered_p_mined == Mined(5, NoPrec, NoRnd, {"nan", "normal"} \X {"nan", "normal"})
mpfr_unordered_p_port ==
    Port(Mpfrs(<<"a", "b">>), "boolean", {},
         <<NaN \X Kinds,
           Kinds \X NaN,
           Kinds \X Kinds>>)

-----------------------------------------------------------------------------
(* mpfr_min: src/ops/min.ts                                                *)

mpfr_min_emit_case == Asserts(Rounds2("a", "mpfr", "b"), {}, AnyPrec)
mpfr_min_happy == Happy(25, One({24, 53, 64, 100, 200}), {"RNDN"},
        Normal \X Normal \X Ordered)
mpfr_min_edge == Edge(50, One({1, 4, 53, 100, 200}), Rnds,
        ({"inf", "normal"} \X {"inf", "normal"} \X Unequal) \cup (Inf \X Inf \X Ordered)
        \cup ({"nan", "zero"} \X NaN \X Unordered)
        \cup (NaN \X {"nan", "zero"} \X Unordered) \cup (Numbers \X Normal \X Unequal)
        \cup (Zero \X Zero \X Same))
mpfr_min_adversarial == Adversarial(29, One({2, 3, 53}), Rnds,
        Normal \X Normal \X {"<", "="})
mpfr_min_fuzz == Fuzz(60, One({1, 2, 53, 64, 100, 200}), Rnds, Normal \X Normal \X Unequal)
mpfr_min_mined == Mined(5, One({53}), {"RNDN"}, (Inf \X Normal \X Less)
        \cup (NaN \X {"nan", "zero"} \X Unordered) \cup (Normal \X Normal \X Greater)
        \cup (Zero \X Zero \X Same))
mpfr_min_port ==
    Port(Mpfrs(<<"a", "b">>) \o RoundsTo, "Result", {},
         <<NaN \X NaN,
           NaN \X Kinds,
           Kinds \X NaN,
           Zero \X Zero,
           Numbers \X Numbers \X (Less \cup Same),
           Numbers \X Numbers \X Greater>>)

-----------------------------------------------------------------------------
(* mpfr_max: src/ops/max.ts                                                *)

mpfr_max_emit_case == Asserts(Rounds2("a", "mpfr", "b"), {}, AnyPrec)
mpfr_max_happy == Happy(25, One({24, 53, 64, 100, 200}), {"RNDN"},
        Normal \X Normal \X Ordered)
mpfr_max_edge == Edge(48, One({1, 4, 53, 100, 200}), Rnds,
        ({"inf", "normal"} \X {"inf", "normal"} \X Unequal) \cup (Inf \X Inf \X Ordered)
        \cup ({"nan", "zero"} \X NaN \X Unordered)
        \cup (NaN \X {"nan", "zero"} \X Unordered) \cup (Numbers \X Normal \X Unequal)
        \cup (Zero \X Zero \X Same))
mpfr_max_adversarial == Adversarial(29, One({2, 3, 53}), Rnds,
        Normal \X Normal \X {"<", "="})
mpfr_max_fuzz == Fuzz(60, One({1, 2, 53, 64, 100, 200}), Rnds, Normal \X Normal \X Unequal)
mpfr_max_mined == Mined(5, One({53}), {"RNDN"}, (Inf \X Normal \X Greater)
        \cup (NaN \X {"nan", "zero"} \X Unordered) \cup (Normal \X Normal \X Less)
        \cup (Zero \X Zero \X Same))
mpfr_max_port ==
    Port(Mpfrs(<<"a", "b">>) \o RoundsTo, "Result", {},
         <<NaN \X NaN,
           NaN \X Kinds,
           Kinds \X NaN,
           Zero \X Zero,
           Numbers \X Numbers \X (Less \cup Same),
           Numbers \X Numbers \X Greater>>)

-----------------------------------------------------------------------------
(* mpfr_eq: src/ops/eq.ts                                                  *)

\* The last member says in what the two differ first, or that the bits compared agree.
mpfr_eq_emit_case ==
    Emits(<<Kv(1, "mpfr", "u"), Kv(0, "mpfr", "v"), Kv(0, "u64", "n_bits")>>, "bool")
mpfr_eq_happy == Happy(18, NoPrec, NoRnd,
        Normal \X Normal \X {"+"} \X {"sign", "agree", "differ", "exp"})
mpfr_eq_edge == Edge(29, NoPrec, NoRnd, (Inf \X {"inf", "normal"} \X {"+"} \X {"kind"})
        \cup ({"nan", "normal"} \X NaN \X {"+"} \X {"kind"})
        \cup (Singular \X Normal \X {"+"} \X {"kind"})
        \cup (Normal \X Normal \X Unsigned \X {"agree", "exp"})
        \cup (Normal \X Normal \X {"+"} \X {"agree", "differ", "exp"})
        \cup (Zero \X Finite \X {"+"} \X {"kind"}))
mpfr_eq_adversarial == Adversarial(9, NoPrec, NoRnd, (Inf \X Zero \X {"+"} \X {"kind"})
        \cup (NaN \X Inf \X {"+"} \X {"kind"})
        \cup (Normal \X Normal \X {"+"} \X {"agree", "differ", "exp"}))
mpfr_eq_fuzz == Fuzz(50, NoPrec, NoRnd,
        (Normal \X Normal \X {"+"} \X {"agree", "differ", "exp"})
        \cup (Normal \X Normal \X Unsigned \X {"differ"}))
mpfr_eq_mined == Mined(5, NoPrec, NoRnd, (NaN \X NaN \X {"+"} \X {"kind"})
        \cup (Normal \X Normal \X {"+"} \X {"agree", "exp"})
        \cup (Zero \X Normal \X {"+"} \X {"kind"}) \cup (Zero \X Zero \X {"0"} \X {"kind"}))
mpfr_eq_port ==
    Port(<<Param("u", "MPFR"), Param("v", "MPFR"), Param("n_bits", "ULong")>>, "boolean", {},
         <<NaN \X Kinds,
           Kinds \X NaN,
           Inf \X Inf,
           Either(Inf, Kinds),
           Zero \X Zero,
           Either(Zero, Kinds),
           Normal \X Normal \X Unsigned \X {"sign"},
           Normal \X Normal \X Unsigned \X {"exp"},
           Normal \X Normal \X Unsigned \X {"differ"},
           Normal \X Normal \X {"0"} \X {"agree"},
           Normal \X Normal \X {"+"} \X {"agree"}>>)

-----------------------------------------------------------------------------
(* mpfr_sgn: src/ops/sgn.ts                                                *)

mpfr_sgn_emit_case == Asserts(Emits1("x", "int"), One(NaN), Seq(Nat))
mpfr_sgn_happy == Happy(25, NoPrec, NoRnd, One(Normals))
mpfr_sgn_edge == Edge(50, NoPrec, NoRnd, One(SignedNumbers))
mpfr_sgn_adversarial == Adversarial(120, NoPrec, NoRnd, One(Zeros))
mpfr_sgn_fuzz == Fuzz(50, NoPrec, NoRnd, One(Normals))
mpfr_sgn_mined == Mined(5, NoPrec, NoRnd, One(SignedNumbers \ {"-inf"}))
mpfr_sgn_port ==
    Port(Mpfrs(<<"x">>), "number", One(NaN),
         <<One(Zeros),
           One({"+inf", "+"}),
           One({"-inf", "-"})>>)

-----------------------------------------------------------------------------
(* mpfr_signbit: src/ops/signbit.ts                                        *)

mpfr_signbit_emit_case == Emits1("x", "bool")
mpfr_signbit_happy == Happy(25, NoPrec, NoRnd, One(Signed))
mpfr_signbit_edge == Edge(35, NoPrec, NoRnd, One(Signed))
mpfr_signbit_adversarial == Adversarial(15, NoPrec, NoRnd, One(Signed))
mpfr_signbit_fuzz == Fuzz(60, NoPrec, NoRnd, One(Signed))
mpfr_signbit_mined == Mined(5, NoPrec, NoRnd, One(SignedNumbers \ {"+"}))
mpfr_signbit_port ==
    Port(Mpfrs(<<"x">>), "boolean", {},
         <<One(Negative),
           One(Signed)>>)

-----------------------------------------------------------------------------
(* mpfr_nan_p: src/ops/nan_p.ts                                            *)

mpfr_nan_p_emit_case == Emits1("x", "bool")
mpfr_nan_p_happy == Happy(25, NoPrec, NoRnd, One(Signed))
mpfr_nan_p_edge == Edge(35, NoPrec, NoRnd, One(Signed))
mpfr_nan_p_adversarial == Adversarial(16, NoPrec, NoRnd, One(Signed \ {"-"}))
mpfr_nan_p_fuzz == Fuzz(60, NoPrec, NoRnd, One(Signed))
mpfr_nan_p_mined == Mined(5, NoPrec, NoRnd, One(Signed \ {"-0", "-"}))
mpfr_nan_p_port ==
    Port(Mpfrs(<<"x">>), "boolean", {},
         <<One(NaN),
           One(Signed)>>)

-----------------------------------------------------------------------------
(* mpfr_inf_p: src/ops/inf_p.ts                                            *)

mpfr_inf_p_emit_case == Emits1("x", "bool")
mpfr_inf_p_happy == Happy(25, NoPrec, NoRnd, One(Signed))
mpfr_inf_p_edge == Edge(36, NoPrec, NoRnd, One(Signed))
mpfr_inf_p_adversarial == Adversarial(15, NoPrec, NoRnd, One(Signed \ {"-"}))
mpfr_inf_p_fuzz == Fuzz(60, NoPrec, NoRnd, One(Signed))
mpfr_inf_p_mined == Mined(5, NoPrec, NoRnd, One(Signed \ {"-0", "-"}))
mpfr_inf_p_port ==
    Port(Mpfrs(<<"x">>), "boolean", {},
         <<One(Infs),
           One(Signed)>>)

-----------------------------------------------------------------------------
(* mpfr_zero_p: src/ops/zero_p.ts                                          *)

mpfr_zero_p_emit_case == Emits1("x", "bool")
mpfr_zero_p_happy == Happy(24, NoPrec, NoRnd, One(Signed))
mpfr_zero_p_edge == Edge(34, NoPrec, NoRnd, One(Signed))
mpfr_zero_p_adversarial == Adversarial(15, NoPrec, NoRnd, One(NaN \cup SignedFinite))
mpfr_zero_p_fuzz == Fuzz(60, NoPrec, NoRnd, One(Signed))
mpfr_zero_p_mined == Mined(5, NoPrec, NoRnd, One(Signed \ {"-inf", "-"}))
mpfr_zero_p_port ==
    Port(Mpfrs(<<"x">>), "boolean", {},
         <<One(Zeros),
           One(Signed)>>)

-----------------------------------------------------------------------------
(* mpfr_number_p: src/ops/number_p.ts                                      *)

mpfr_number_p_emit_case == Emits1("x", "bool")
mpfr_number_p_happy == Happy(25, NoPrec, NoRnd, One(Signed))
mpfr_number_p_edge == Edge(35, NoPrec, NoRnd, One(Signed))
mpfr_number_p_adversarial == Adversarial(15, NoPrec, NoRnd, One(Signed))
mpfr_number_p_fuzz == Fuzz(60, NoPrec, NoRnd, One(Signed))
mpfr_number_p_mined == Mined(5, NoPrec, NoRnd, One(Signed \ {"-0", "-"}))
mpfr_number_p_port ==
    Port(Mpfrs(<<"x">>), "boolean", {},
         <<One(Normals),
           One(Zeros),
           One(Signed)>>)

-----------------------------------------------------------------------------
(* mpfr_integer_p: src/ops/integer_p.ts                                    *)

\* The last member says whether the last bit of the mantissa is before the point.
mpfr_integer_p_emit_case == Emits1("x", "bool")
mpfr_integer_p_happy == Happy(25, NoPrec, NoRnd,
        {"nan", "+inf", "-inf", "+0", "-0", "+int", "-int", "+tail", "+half", "+small",
                "-small"} \X {"part"})
mpfr_integer_p_edge == Edge(34, NoPrec, NoRnd,
        ({"nan", "+inf", "-inf", "+0", "-0", "+int", "-int", "+tail", "+big", "+half",
                "+small"} \X {"part"})
        \cup (Integers \X {"part", "whole"}))
mpfr_integer_p_adversarial == Adversarial(12, NoPrec, NoRnd, ({"+int", "+tail"} \X {"part"})
        \cup ({"+int"} \X {"part", "whole"}))
mpfr_integer_p_fuzz == Fuzz(60, NoPrec, NoRnd, ((Large \cup {"+inf", "+0"}) \X {"part"})
        \cup (Integers \X {"part", "whole"}))
mpfr_integer_p_mined == Mined(5, NoPrec, NoRnd,
        {"nan", "+inf", "+0", "+int", "+half"} \X {"part"})
mpfr_integer_p_port ==
    Port(Mpfrs(<<"x">>), "boolean", {},
         <<One(Zeros),
           One(NaN \cup Infs),
           One(Fractions),
           Integers \X {"whole"},
           Integers \X {"part"},
           One(Tails)>>)

-----------------------------------------------------------------------------
(* mpfr_regular_p: src/ops/regular_p.ts                                    *)

mpfr_regular_p_emit_case == Emits1("x", "bool")
mpfr_regular_p_happy == Happy(25, NoPrec, NoRnd, One(Signed))
mpfr_regular_p_edge == Edge(35, NoPrec, NoRnd, One(Signed))
mpfr_regular_p_adversarial == Adversarial(12, NoPrec, NoRnd, One(Signed))
mpfr_regular_p_fuzz == Fuzz(55, NoPrec, NoRnd, One(Signed \ {"-inf"}))
mpfr_regular_p_mined == Mined(5, NoPrec, NoRnd, One(Signed \ {"-inf", "-0"}))
mpfr_regular_p_port ==
    Port(Mpfrs(<<"x">>), "boolean", {},
         <<One(Normals),
           One(Signed)>>)

-----------------------------------------------------------------------------
(* The drivers of this family, as run_all.sh finds them.                   *)

OrderDrivers ==
    "mpfr_cmp" :> Driver(mpfr_cmp_emit_case,
        <<mpfr_cmp_happy, mpfr_cmp_edge, mpfr_cmp_adversarial, mpfr_cmp_fuzz,
        mpfr_cmp_mined>>, mpfr_cmp_port)
    @@ "mpfr_cmp_si" :> Driver(mpfr_cmp_si_emit_case,
        <<mpfr_cmp_si_happy, mpfr_cmp_si_edge, mpfr_cmp_si_adversarial,
        mpfr_cmp_si_fuzz, mpfr_cmp_si_mined>>, mpfr_cmp_si_port)
    @@ "mpfr_cmp_ui" :> Driver(mpfr_cmp_ui_emit_case,
        <<mpfr_cmp_ui_happy, mpfr_cmp_ui_edge, mpfr_cmp_ui_adversarial,
        mpfr_cmp_ui_fuzz, mpfr_cmp_ui_mined>>, mpfr_cmp_ui_port)
    @@ "mpfr_cmp_d" :> Driver(mpfr_cmp_d_emit_case,
        <<mpfr_cmp_d_happy, mpfr_cmp_d_edge, mpfr_cmp_d_adversarial, mpfr_cmp_d_fuzz,
        mpfr_cmp_d_mined>>, mpfr_cmp_d_port)
    @@ "mpfr_cmp3" :> Driver(mpfr_cmp3_emit_case,
        <<mpfr_cmp3_happy, mpfr_cmp3_edge, mpfr_cmp3_adversarial, mpfr_cmp3_fuzz,
        mpfr_cmp3_mined>>, mpfr_cmp3_port)
    @@ "mpfr_cmpabs" :> Driver(mpfr_cmpabs_emit_case,
        <<mpfr_cmpabs_happy, mpfr_cmpabs_edge, mpfr_cmpabs_adversarial,
        mpfr_cmpabs_fuzz, mpfr_cmpabs_mined>>, mpfr_cmpabs_port)
    @@ "mpfr_cmpabs_ui" :> Driver(mpfr_cmpabs_ui_emit_case,
        <<mpfr_cmpabs_ui_happy, mpfr_cmpabs_ui_edge, mpfr_cmpabs_ui_adversarial,
        mpfr_cmpabs_ui_fuzz, mpfr_cmpabs_ui_mined>>, mpfr_cmpabs_ui_port)
    @@ "mpfr_equal_p" :> Driver(mpfr_equal_p_emit_case,
        <<mpfr_equal_p_happy, mpfr_equal_p_edge, mpfr_equal_p_adversarial,
        mpfr_equal_p_fuzz, mpfr_equal_p_mined>>, mpfr_equal_p_port)
    @@ "mpfr_greater_p" :> Driver(mpfr_greater_p_emit_case,
        <<mpfr_greater_p_happy, mpfr_greater_p_edge, mpfr_greater_p_adversarial,
        mpfr_greater_p_fuzz, mpfr_greater_p_mined>>, mpfr_greater_p_port)
    @@ "mpfr_greaterequal_p" :> Driver(mpfr_greaterequal_p_emit_case,
        <<mpfr_greaterequal_p_happy, mpfr_greaterequal_p_edge,
        mpfr_greaterequal_p_adversarial, mpfr_greaterequal_p_fuzz,
        mpfr_greaterequal_p_mined>>, mpfr_greaterequal_p_port)
    @@ "mpfr_less_p" :> Driver(mpfr_less_p_emit_case,
        <<mpfr_less_p_happy, mpfr_less_p_edge, mpfr_less_p_adversarial,
        mpfr_less_p_fuzz, mpfr_less_p_mined>>, mpfr_less_p_port)
    @@ "mpfr_lessequal_p" :> Driver(mpfr_lessequal_p_emit_case,
        <<mpfr_lessequal_p_happy, mpfr_lessequal_p_edge, mpfr_lessequal_p_adversarial,
        mpfr_lessequal_p_fuzz, mpfr_lessequal_p_mined>>, mpfr_lessequal_p_port)
    @@ "mpfr_lessgreater_p" :> Driver(mpfr_lessgreater_p_emit_case,
        <<mpfr_lessgreater_p_happy, mpfr_lessgreater_p_edge,
        mpfr_lessgreater_p_adversarial, mpfr_lessgreater_p_fuzz,
        mpfr_lessgreater_p_mined>>, mpfr_lessgreater_p_port)
    @@ "mpfr_unordered_p" :> Driver(mpfr_unordered_p_emit_case,
        <<mpfr_unordered_p_happy, mpfr_unordered_p_edge, mpfr_unordered_p_adversarial,
        mpfr_unordered_p_fuzz, mpfr_unordered_p_mined>>, mpfr_unordered_p_port)
    @@ "mpfr_min" :> Driver(mpfr_min_emit_case,
        <<mpfr_min_happy, mpfr_min_edge, mpfr_min_adversarial, mpfr_min_fuzz,
        mpfr_min_mined>>, mpfr_min_port)
    @@ "mpfr_max" :> Driver(mpfr_max_emit_case,
        <<mpfr_max_happy, mpfr_max_edge, mpfr_max_adversarial, mpfr_max_fuzz,
        mpfr_max_mined>>, mpfr_max_port)
    @@ "mpfr_eq" :> Driver(mpfr_eq_emit_case,
        <<mpfr_eq_happy, mpfr_eq_edge, mpfr_eq_adversarial, mpfr_eq_fuzz,
        mpfr_eq_mined>>, mpfr_eq_port)
    @@ "mpfr_sgn" :> Driver(mpfr_sgn_emit_case,
        <<mpfr_sgn_happy, mpfr_sgn_edge, mpfr_sgn_adversarial, mpfr_sgn_fuzz,
        mpfr_sgn_mined>>, mpfr_sgn_port)
    @@ "mpfr_signbit" :> Driver(mpfr_signbit_emit_case,
        <<mpfr_signbit_happy, mpfr_signbit_edge, mpfr_signbit_adversarial,
        mpfr_signbit_fuzz, mpfr_signbit_mined>>, mpfr_signbit_port)
    @@ "mpfr_nan_p" :> Driver(mpfr_nan_p_emit_case,
        <<mpfr_nan_p_happy, mpfr_nan_p_edge, mpfr_nan_p_adversarial, mpfr_nan_p_fuzz,
        mpfr_nan_p_mined>>, mpfr_nan_p_port)
    @@ "mpfr_inf_p" :> Driver(mpfr_inf_p_emit_case,
        <<mpfr_inf_p_happy, mpfr_inf_p_edge, mpfr_inf_p_adversarial, mpfr_inf_p_fuzz,
        mpfr_inf_p_mined>>, mpfr_inf_p_port)
    @@ "mpfr_zero_p" :> Driver(mpfr_zero_p_emit_case,
        <<mpfr_zero_p_happy, mpfr_zero_p_edge, mpfr_zero_p_adversarial,
        mpfr_zero_p_fuzz, mpfr_zero_p_mined>>, mpfr_zero_p_port)
    @@ "mpfr_number_p" :> Driver(mpfr_number_p_emit_case,
        <<mpfr_number_p_happy, mpfr_number_p_edge, mpfr_number_p_adversarial,
        mpfr_number_p_fuzz, mpfr_number_p_mined>>, mpfr_number_p_port)
    @@ "mpfr_integer_p" :> Driver(mpfr_integer_p_emit_case,
        <<mpfr_integer_p_happy, mpfr_integer_p_edge, mpfr_integer_p_adversarial,
        mpfr_integer_p_fuzz, mpfr_integer_p_mined>>, mpfr_integer_p_port)
    @@ "mpfr_regular_p" :> Driver(mpfr_regular_p_emit_case,
        <<mpfr_regular_p_happy, mpfr_regular_p_edge, mpfr_regular_p_adversarial,
        mpfr_regular_p_fuzz, mpfr_regular_p_mined>>, mpfr_regular_p_port)

=============================================================================
