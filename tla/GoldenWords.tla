---------------------------- MODULE GoldenWords -----------------------------
(***************************************************************************)
(* The golden drivers of the routines for operands of one, two and three   *)
(* limbs, and the ports they grade.                                        *)
(***************************************************************************)
EXTENDS GoldenWire

-----------------------------------------------------------------------------
(* The operands are normal and of the precision of the result.  Behind     *)
(* them stand, for a sum or difference, how far their exponents differ (or *)
(* that their signs do), and how the result came about: exact, cut off,    *)
(* away from 0, carried up to the next power of two, by an overflow        *)
(* (before or in rounding) or underflow, by cancelling.  Returns that the  *)
(* code calls unreachable, and guards that only they need, are left out.   *)

Unlike == Kinds \X Kinds \X {"unlike"}
Differ == {"even", "near", "far", "past", "apart"}
Ends == <<"=", "cut", "away">>
Ended == {"=", "cut", "away"}
Inexactly == {"cut", "away"}
Lengths == {"w1", "w1n", "w2", "w2n", "w3", "long"}
\* What is added past the last bit is never exact.
Inexact == Tail(Ends)
\* Rounding to nearest has returns of its own.
NearestEnds == <<"=", "nearest cut", "nearest away", "cut", "away">>

Results(operands, ends) == [k \in DOMAIN ends |-> {o \o <<ends[k]>> : o \in operands}]
\* The exponents tell apart how the limbs are aligned, and each alignment comes
\* to these ends.
Ways(gaps, ends) == Results(Normal \X Normal \X gaps, ends)

-----------------------------------------------------------------------------
(* mpfr_add1sp1: src/ops/add1sp1.ts                                        *)

mpfr_add1sp1_emit_case ==
    Asserts(Emits(<<Kv(1, "mpfr", "b"), Kv(0, "mpfr", "c"), Kv(0, "rnd", "rnd")>>,
            "result"), Either(Singular, Kinds) \cup Unlike, Alike(2, 1..63))
mpfr_add1sp1_happy == Happy(21, Alike(2, {8, 24, 32, 53}), Rnds,
        (Normal \X Normal \X {"even", "far", "near"} \X Same)
        \cup (Normal \X Normal \X {"even"} \X {"=", "cut"})
        \cup (Normal \X Normal \X {"near"} \X {"=", "away"}))
mpfr_add1sp1_edge == Edge(27, Alike(2, {1, 2, 4, 10, 53, 63}), Rnds,
        (Normal \X Normal \X {"even", "near"} \X Same)
        \cup (Normal \X Normal \X {"far", "near", "past"} \X {"cut"})
        \cup (Normal \X Normal \X {"past"} \X Inexactly))
mpfr_add1sp1_adversarial == Adversarial(12, Alike(2, {3, 4, 5, 8, 16, 63}),
        (Rnds \ {"RNDZ"}), (Normal \X Normal \X {"even", "near"} \X Same)
        \cup (Normal \X Normal \X {"far", "near"} \X {"cut"})
        \cup (Normal \X Normal \X {"near"} \X Ended))
mpfr_add1sp1_fuzz == Fuzz(60, Alike(2, 1..63), Rnds,
        (Normal \X Normal \X {"even", "near"} \X Ended)
        \cup (Normal \X Normal \X {"even", "far", "near"} \X Same)
        \cup (Normal \X Normal \X {"near"} \X (Ended \cup {"carry"})))
mpfr_add1sp1_mined == Mined(5, Alike(2, {24, 32, 53}), {"RNDN", "RNDZ", "RNDU"},
        (Normal \X Normal \X {"even", "near"} \X Same)
        \cup (Normal \X Normal \X {"near"} \X {"=", "away"}))
mpfr_add1sp1_port ==
    Needs(Port(<<Param("b", "MPFR"), Param("c", "MPFR"), Param("rnd", "RoundingMode")>>,
            "Result", Either(Singular, Kinds) \cup Unlike,
         Ways(Differ, <<"over">>) \o Ways({"even"}, Ends) \o Ways({"near"}, Ends)
         \o Ways({"far"}, Ends) \o Ways({"past"}, Inexact)
         \o Ways(Differ, <<"carry", "carries over">>)),
          Alike(2, 1..63))

-----------------------------------------------------------------------------
(* mpfr_add1sp1n: src/ops/add1sp1n.ts                                      *)

mpfr_add1sp1n_emit_case ==
    Asserts(Emits(<<Kv(1, "mpfr", "b"), Kv(0, "mpfr", "c"), Kv(0, "rnd", "rnd")>>,
            "result"), Either(Singular, Kinds) \cup Unlike, Alike(2, {64}))
mpfr_add1sp1n_happy == Happy(20, Alike(2, {64}), Rnds,
        (Normal \X Normal \X {"even", "near"} \X Same)
        \cup (Normal \X Normal \X {"near"} \X {"=", "away"}))
mpfr_add1sp1n_edge == Edge(30, Alike(2, {64}), Rnds,
        (Normal \X Normal \X {"even", "near"} \X Same)
        \cup (Normal \X Normal \X {"near"} \X {"=", "away", "carry"})
        \cup (Normal \X Normal \X {"past"} \X {"cut"}))
mpfr_add1sp1n_adversarial == Adversarial(12, Alike(2, {64}), (Rnds \ {"RNDZ"}),
        (Normal \X Normal \X {"even", "near"} \X Same)
        \cup (Normal \X Normal \X {"past"} \X {"away", "carry", "cut"}))
mpfr_add1sp1n_fuzz == Fuzz(60, Alike(2, {64}), Rnds,
        Normal \X Normal \X {"even", "near"} \X Same)
mpfr_add1sp1n_mined == Mined(5, Alike(2, {64}), {"RNDN", "RNDU", "RNDD"},
        Normal \X Normal \X {"even", "near"} \X Same)
mpfr_add1sp1n_port ==
    Needs(Port(<<Param("b", "MPFR"), Param("c", "MPFR"), Param("rnd", "RoundingMode")>>,
            "Result", Either(Singular, Kinds) \cup Unlike,
         Ways(Differ, <<"over">>) \o Ways({"even"}, Ends) \o Ways({"near"}, Ends)
         \o Ways({"past"}, Inexact) \o Ways(Differ, <<"carry", "carries over">>)),
          Alike(2, {64}))

-----------------------------------------------------------------------------
(* mpfr_add1sp2: src/ops/add1sp2.ts                                        *)

mpfr_add1sp2_emit_case ==
    Asserts(Emits(<<Kv(1, "mpfr", "b"), Kv(0, "mpfr", "c"), Kv(0, "rnd", "rnd")>>,
            "result"), Either(Singular, Kinds) \cup Unlike, Alike(2, 65..127))
mpfr_add1sp2_happy == Happy(22, Alike(2, {65, 80, 96, 100, 113, 127}), Rnds,
        (Normal \X Normal \X {"even", "near"} \X Same)
        \cup (Normal \X Normal \X {"near"} \X {"=", "cut"}))
mpfr_add1sp2_edge == Edge(30, Alike(2, {65, 70, 80, 96, 100, 113, 125, 127}), Rnds,
        (Normal \X Normal \X {"even", "far", "near"} \X Same)
        \cup (Normal \X Normal \X {"past"} \X {"carry", "cut"}))
mpfr_add1sp2_adversarial == Adversarial(12, Alike(2, {80, 96, 100, 113}), (Rnds \ {"RNDZ"}),
        (Normal \X Normal \X {"even", "near"} \X Same)
        \cup (Normal \X Normal \X {"past"} \X {"away", "carry", "cut"}))
mpfr_add1sp2_fuzz == Fuzz(60, Alike(2, 66..127), Rnds,
        Normal \X Normal \X {"even", "near"} \X Same)
mpfr_add1sp2_mined == Mined(5, Alike(2, {80, 96, 100, 113}), {"RNDN", "RNDU", "RNDD"},
        Normal \X Normal \X {"even", "near"} \X Same)
mpfr_add1sp2_port ==
    Needs(Port(<<Param("b", "MPFR"), Param("c", "MPFR"), Param("rnd", "RoundingMode")>>,
            "Result", Either(Singular, Kinds) \cup Unlike,
         Ways(Differ, <<"over">>) \o Ways({"even"}, Ends) \o Ways({"near"}, Ends)
         \o Ways({"far"}, Ends) \o Ways({"past"}, Inexact)
         \o Ways(Differ, <<"carry", "carries over">>)),
          Alike(2, 65..127))

-----------------------------------------------------------------------------
(* mpfr_add1sp2n: src/ops/add1sp2n.ts                                      *)

mpfr_add1sp2n_emit_case ==
    Asserts(Emits(<<Kv(1, "mpfr", "b"), Kv(0, "mpfr", "c"), Kv(0, "rnd", "rnd")>>,
            "result"), Either(Singular, Kinds) \cup Unlike, Alike(2, {128}))
mpfr_add1sp2n_happy == Happy(20, Alike(2, {128}), Rnds,
        Normal \X Normal \X {"even", "near"} \X Same)
mpfr_add1sp2n_edge == Edge(32, Alike(2, {128}), Rnds,
        (Normal \X Normal \X {"even", "near"} \X Same)
        \cup (Normal \X Normal \X {"near", "past"} \X {"away"})
        \cup (Normal \X Normal \X {"past"} \X {"away", "carry", "cut"}))
mpfr_add1sp2n_adversarial == Adversarial(12, Alike(2, {128}), (Rnds \ {"RNDZ"}),
        (Normal \X Normal \X {"even", "near"} \X Same)
        \cup (Normal \X Normal \X {"near", "past"} \X {"carry"})
        \cup (Normal \X Normal \X {"past"} \X {"away", "carry", "cut"}))
mpfr_add1sp2n_fuzz == Fuzz(60, Alike(2, {128}), Rnds,
        Normal \X Normal \X {"even", "near"} \X Same)
mpfr_add1sp2n_mined == Mined(5, Alike(2, {128}), {"RNDN", "RNDU", "RNDD"},
        Normal \X Normal \X {"even", "near"} \X Same)
mpfr_add1sp2n_port ==
    Needs(Port(<<Param("b", "MPFR"), Param("c", "MPFR"), Param("rnd", "RoundingMode")>>,
            "Result", Either(Singular, Kinds) \cup Unlike,
         Ways({"even"}, Ends) \o Ways({"near"}, Ends) \o Ways({"past"}, Inexact)
         \o Ways(Differ, <<"carry", "carries over">>)),
          Alike(2, {128}))

-----------------------------------------------------------------------------
(* mpfr_add1sp3: src/ops/add1sp3.ts                                        *)

mpfr_add1sp3_emit_case ==
    Asserts(Emits(<<Kv(1, "mpfr", "b"), Kv(0, "mpfr", "c"), Kv(0, "rnd", "rnd")>>,
            "result"), Either(Singular, Kinds) \cup Unlike, Alike(2, 129..191))
mpfr_add1sp3_happy == Happy(22, Alike(2, {129, 144, 150, 160, 191}), Rnds,
        Normal \X Normal \X {"apart", "even"} \X Same)
mpfr_add1sp3_edge == Edge(30, Alike(2, {129, 144, 160, 191}), Rnds,
        (Normal \X Normal \X {"apart"} \X (Ended \cup {"carry"}))
        \cup (Normal \X Normal \X {"apart", "even"} \X Same))
mpfr_add1sp3_adversarial == Adversarial(12, Alike(2, {144, 160}), (Rnds \ {"RNDZ"}),
        (Normal \X Normal \X {"apart"} \X (Ended \cup {"carry"}))
        \cup (Normal \X Normal \X {"apart", "even"} \X Same))
mpfr_add1sp3_fuzz == Fuzz(60, Alike(2, 130..190), Rnds,
        Normal \X Normal \X {"apart", "even"} \X Same)
mpfr_add1sp3_mined == Mined(5, Alike(2, {144, 160}), {"RNDN", "RNDU", "RNDD"},
        Normal \X Normal \X {"apart", "even"} \X Same)
mpfr_add1sp3_port ==
    Needs(Port(<<Param("b", "MPFR"), Param("c", "MPFR"), Param("rnd", "RoundingMode")>>,
            "Result", Either(Singular, Kinds) \cup Unlike,
         Ways({"even"}, Ends) \o Ways({"apart"}, Ends)
         \o Ways(Differ, <<"carry", "carries over">>)),
          Alike(2, 129..191))

-----------------------------------------------------------------------------
(* mpfr_sub1sp1: src/ops/sub1sp1.ts                                        *)

mpfr_sub1sp1_emit_case ==
    Asserts(Emits(<<Kv(1, "mpfr", "b"), Kv(0, "mpfr", "c"), Kv(0, "rnd", "rnd")>>,
            "result"), Either(Singular, Kinds) \cup Unlike, Alike(2, 1..63))
mpfr_sub1sp1_happy == Happy(22, Alike(2, {24, 53}), Rnds,
        (Normal \X Normal \X {"even", "near"} \X Same)
        \cup (Normal \X Normal \X {"near"} \X {"=", "cut"}))
mpfr_sub1sp1_edge == Edge(30, Alike(2, {1, 24, 30, 53, 63}), Rnds,
        (Normal \X Normal \X {"even"} \X {"=", "cancels", "cancels down"})
        \cup (Normal \X Normal \X {"near"} \X Ended)
        \cup (Normal \X Normal \X {"past"} \X {"carry"}))
mpfr_sub1sp1_adversarial == Adversarial(12, Alike(2, {53}), (Rnds \ {"RNDZ"}),
        (Normal \X Normal \X {"even"} \X {"cancels", "cancels down"})
        \cup (Normal \X Normal \X {"near"} \X Same)
        \cup (Normal \X Normal \X {"past"} \X Inexactly))
mpfr_sub1sp1_fuzz == Fuzz(60, Alike(2, 3..63), Rnds,
        (Normal \X Normal \X {"even", "near"} \X Same)
        \cup (Normal \X Normal \X {"near"} \X {"=", "cut"}))
mpfr_sub1sp1_mined == Mined(5, Alike(2, {24, 53}), {"RNDN", "RNDU", "RNDD"},
        (Normal \X Normal \X {"even"} \X {"cancels", "cancels down"})
        \cup (Normal \X Normal \X {"near"} \X Same))
mpfr_sub1sp1_port ==
    Needs(Port(<<Param("b", "MPFR"), Param("c", "MPFR"), Param("rnd", "RoundingMode")>>,
            "Result", Either(Singular, Kinds) \cup Unlike,
         Ways({"even"}, <<"cancels down", "cancels", "=">>) \o Ways(Differ, <<"under">>)
         \o Ways({"near"}, Ends) \o Ways({"past"}, Inexact) \o Ways(Differ, <<"carry">>)),
          Alike(2, 1..63))

-----------------------------------------------------------------------------
(* mpfr_sub1sp1n: src/ops/sub1sp1n.ts                                      *)

mpfr_sub1sp1n_emit_case ==
    Asserts(Emits(<<Kv(1, "mpfr", "b"), Kv(0, "mpfr", "c"), Kv(0, "rnd", "rnd")>>,
            "result"), Either(Singular, Kinds) \cup Unlike, Alike(2, {64}))
mpfr_sub1sp1n_happy == Happy(22, Alike(2, {64}), Rnds,
        (Normal \X Normal \X {"even", "near"} \X Same)
        \cup (Normal \X Normal \X {"even"} \X {"=", "cancels"}))
mpfr_sub1sp1n_edge == Edge(31, Alike(2, {64}), Rnds,
        (Normal \X Normal \X {"even"} \X {"cancels", "cancels down"})
        \cup (Normal \X Normal \X {"near", "past"} \X {"=", "cut"})
        \cup (Normal \X Normal \X {"past"} \X (Ended \cup {"carry"})))
mpfr_sub1sp1n_adversarial == Adversarial(12, Alike(2, {64}), (Rnds \ {"RNDZ"}),
        (Normal \X Normal \X {"even"} \X {"cancels", "cancels down"})
        \cup (Normal \X Normal \X {"near", "past"} \X Same)
        \cup (Normal \X Normal \X {"past"} \X {"=", "carry"}))
mpfr_sub1sp1n_fuzz == Fuzz(60, Alike(2, {64}), Rnds,
        Normal \X Normal \X {"even", "near"} \X Same)
mpfr_sub1sp1n_mined == Mined(5, Alike(2, {64}), {"RNDN", "RNDD"},
        (Normal \X Normal \X {"even"} \X {"cancels", "cancels down"})
        \cup (Normal \X Normal \X {"near"} \X Same))
mpfr_sub1sp1n_port ==
    Needs(Port(<<Param("b", "MPFR"), Param("c", "MPFR"), Param("rnd", "RoundingMode")>>,
            "Result", Either(Singular, Kinds) \cup Unlike,
         Ways({"even"}, <<"cancels down", "cancels", "=">>) \o Ways(Differ, <<"under">>)
         \o Ways({"near"}, Ends) \o Ways({"past"}, Ends) \o Ways(Differ, <<"carry">>)),
          Alike(2, {64}))

-----------------------------------------------------------------------------
(* mpfr_sub1sp2: src/ops/sub1sp2.ts                                        *)

mpfr_sub1sp2_emit_case ==
    Asserts(Emits(<<Kv(1, "mpfr", "b"), Kv(0, "mpfr", "c"), Kv(0, "rnd", "rnd")>>,
            "result"), Either(Singular, Kinds) \cup Unlike, Alike(2, 65..127))
mpfr_sub1sp2_happy == Happy(22, Alike(2, {65, 80, 96, 100, 113, 127}), Rnds,
        (Normal \X Normal \X {"even", "near"} \X Same)
        \cup (Normal \X Normal \X {"even"} \X {"=", "cancels"})
        \cup (Normal \X Normal \X {"near"} \X {"=", "cut"}))
mpfr_sub1sp2_edge == Edge(30, Alike(2, {65, 70, 80, 96, 100, 113, 125, 127}), Rnds,
        (Normal \X Normal \X {"even", "far", "near"} \X Same)
        \cup (Normal \X Normal \X {"even"} \X {"=", "cancels", "cancels down"})
        \cup (Normal \X Normal \X {"past"} \X {"away", "carry"}))
mpfr_sub1sp2_adversarial == Adversarial(12, Alike(2, {80, 96, 100, 113}), Rnds,
        (Normal \X Normal \X {"even"} \X {"cancels", "cancels down"})
        \cup (Normal \X Normal \X {"near"} \X {"=", "away"})
        \cup (Normal \X Normal \X {"near", "past"} \X {"away"}))
mpfr_sub1sp2_fuzz == Fuzz(60, Alike(2, 65..127), Rnds,
        Normal \X Normal \X {"even", "near"} \X Same)
mpfr_sub1sp2_mined == Mined(5, Alike(2, {80, 96, 100, 113}), {"RNDN", "RNDU", "RNDD"},
        (Normal \X Normal \X {"even"} \X {"cancels", "cancels down"})
        \cup (Normal \X Normal \X {"near"} \X Same))
mpfr_sub1sp2_port ==
    Needs(Port(<<Param("b", "MPFR"), Param("c", "MPFR"), Param("rnd", "RoundingMode")>>,
            "Result", Either(Singular, Kinds) \cup Unlike,
         Ways({"even"}, <<"cancels down", "cancels", "=">>) \o Ways(Differ, <<"under">>)
         \o Ways({"near"}, Ends) \o Ways({"far"}, Ends) \o Ways({"past"}, Inexact)
         \o Ways(Differ, <<"carry">>)),
          Alike(2, 65..127))

-----------------------------------------------------------------------------
(* mpfr_sub1sp2n: src/ops/sub1sp2n.ts                                      *)

mpfr_sub1sp2n_emit_case ==
    Asserts(Emits(<<Kv(1, "mpfr", "b"), Kv(0, "mpfr", "c"), Kv(0, "rnd", "rnd")>>,
            "result"), Either(Singular, Kinds) \cup Unlike, Alike(2, {128}))
mpfr_sub1sp2n_happy == Happy(22, Alike(2, {128}), Rnds,
        Normal \X Normal \X {"apart", "even"} \X Same)
mpfr_sub1sp2n_edge == Edge(30, Alike(2, {128}), Rnds,
        (Normal \X Normal \X {"apart"} \X {"=", "away", "carry"})
        \cup (Normal \X Normal \X {"even"} \X {"=", "cancels", "cancels down"}))
mpfr_sub1sp2n_adversarial == Adversarial(12, Alike(2, {128}), (Rnds \ {"RNDZ"}),
        (Normal \X Normal \X {"apart"} \X Ended)
        \cup (Normal \X Normal \X {"even"} \X {"cancels", "cancels down"}))
mpfr_sub1sp2n_fuzz == Fuzz(60, Alike(2, {128}), Rnds,
        Normal \X Normal \X {"apart", "even"} \X Same)
mpfr_sub1sp2n_mined == Mined(5, Alike(2, {128}), {"RNDN", "RNDU", "RNDD"},
        (Normal \X Normal \X {"apart"} \X Same)
        \cup (Normal \X Normal \X {"even"} \X {"cancels", "cancels down"}))
mpfr_sub1sp2n_port ==
    Needs(Port(<<Param("b", "MPFR"), Param("c", "MPFR"), Param("rnd", "RoundingMode")>>,
            "Result", Either(Singular, Kinds) \cup Unlike,
         Ways({"even"}, <<"cancels down", "cancels", "=">>) \o Ways(Differ, <<"under">>)
         \o Ways({"apart"}, Ends) \o Ways(Differ, <<"carry">>)),
          Alike(2, {128}))

-----------------------------------------------------------------------------
(* mpfr_sub1sp3: src/ops/sub1sp3.ts                                        *)

mpfr_sub1sp3_emit_case ==
    Asserts(Emits(<<Kv(1, "mpfr", "b"), Kv(0, "mpfr", "c"), Kv(0, "rnd", "rnd")>>,
            "result"), Either(Singular, Kinds) \cup Unlike, Alike(2, 129..191))
mpfr_sub1sp3_happy == Happy(22, Alike(2, {129, 160, 191}), Rnds,
        Normal \X Normal \X {"apart", "even"} \X Same)
mpfr_sub1sp3_edge == Edge(30, Alike(2, {129, 160, 191}), Rnds,
        (Normal \X Normal \X {"apart"} \X {"=", "away", "carry"})
        \cup (Normal \X Normal \X {"even"} \X {"=", "cancels", "cancels down"}))
mpfr_sub1sp3_adversarial == Adversarial(12, Alike(2, {160}), (Rnds \ {"RNDZ"}),
        (Normal \X Normal \X {"apart"} \X Ended)
        \cup (Normal \X Normal \X {"even"} \X {"cancels", "cancels down"}))
mpfr_sub1sp3_fuzz == Fuzz(60, Alike(2, 129..191), Rnds,
        Normal \X Normal \X {"apart", "even"} \X Same)
mpfr_sub1sp3_mined == Mined(5, Alike(2, {160}), {"RNDN", "RNDU", "RNDD"},
        (Normal \X Normal \X {"apart"} \X Same)
        \cup (Normal \X Normal \X {"even"} \X {"cancels", "cancels down"}))
mpfr_sub1sp3_port ==
    Needs(Port(<<Param("b", "MPFR"), Param("c", "MPFR"), Param("rnd", "RoundingMode")>>,
            "Result", Either(Singular, Kinds) \cup Unlike,
         Ways({"even"}, <<"cancels down", "cancels", "=">>) \o Ways(Differ, <<"under">>)
         \o Ways({"apart"}, Ends) \o Ways(Differ, <<"carry">>)),
          Alike(2, 129..191))

-----------------------------------------------------------------------------
(* mpfr_sub1sp: src/ops/sub1sp.ts                                          *)

\* Which routine takes the precision.  All pairs but the mined come from
\* seed_random_mpfr, which has room for 8 limbs.
mpfr_sub1sp_emit_case == Asserts(Rounds2("b", "mpfr", "c"), {}, Alike(3, 1..512))
mpfr_sub1sp_happy == Happy(24, Alike(3, 24..384), Rnds, Normal \X Normal \X Lengths)
mpfr_sub1sp_edge == Edge(36, Alike(3, 1..500), Rnds, Normal \X Normal \X Lengths)
mpfr_sub1sp_adversarial == Adversarial(12, Alike(3, {53, 64, 100, 128, 192, 256}), Rnds,
        Normal \X Normal \X (Lengths \ {"w3"}))
mpfr_sub1sp_fuzz == Fuzz(60, Alike(3, 4..485), Rnds,
        Normal \X Normal \X (Lengths \ {"w1n", "w2n"}))
mpfr_sub1sp_mined == Mined(6, Alike(3, {24, 53, 100, 128, 200}), {"RNDN", "RNDU", "RNDD"},
        Normal \X Normal \X (Lengths \ {"w1n", "w3"}))
mpfr_sub1sp_port ==
    Needs(Port(Mpfrs(<<"b", "c">>) \o RoundsTo, "Result", Either(Singular, Kinds) \cup Unlike,
         Results(Normal \X Normal, <<"w1", "w1n", "w2", "w2n", "w3", "long">>)),
          {p \in Precs(3, 1..PREC_MAX) : p[1] = p[2] /\ p[2] = p[3]})

-----------------------------------------------------------------------------
(* mpfr_mul_1: src/ops/mul_1.ts                                            *)

mpfr_mul_1_emit_case ==
    Asserts(Rounds2("b", "mpfr", "c"), Either(Singular, Kinds), Alike(3, 1..63))
mpfr_mul_1_happy == Happy(22, Alike(3, {8, 24, 32, 53}), (Rnds \ {"RNDZ"}),
        Normal \X Normal \X Ended)
mpfr_mul_1_edge == Edge(31, Alike(3, {1, 2, 8, 16, 53, 60, 63}), Rnds,
        Normal \X Normal \X (Ended \cup {"carry"}))
mpfr_mul_1_adversarial == Adversarial(12, Alike(3, {1, 4, 8, 24, 53}),
        {"RNDN", "RNDU", "RNDD"}, Normal \X Normal \X Ended)
mpfr_mul_1_fuzz == Fuzz(60, Alike(3, 1..63), Rnds, Normal \X Normal \X Ended)
mpfr_mul_1_mined == Mined(5, Alike(3, {24, 53}), {"RNDN", "RNDU"},
        Normal \X Normal \X {"=", "away"})
mpfr_mul_1_port ==
    Needs(Port(Mpfrs(<<"b", "c">>) \o RoundsTo, "Result", Either(Singular, Kinds),
         Results(Normal \X Normal, <<"over">> \o Ends \o <<"carry", "carries over">>)),
          Alike(3, 1..63))

-----------------------------------------------------------------------------
(* mpfr_mul_1n: src/ops/mul_1n.ts                                          *)

mpfr_mul_1n_emit_case ==
    Asserts(Emits(<<Kv(1, "mpfr", "b"), Kv(0, "mpfr", "c"), Kv(0, "rnd", "rnd")>>,
            "result"), Either(Singular, Kinds), Alike(2, {64}))
mpfr_mul_1n_happy == Happy(22, Alike(2, {64}), (Rnds \ {"RNDZ"}), Normal \X Normal \X Ended)
mpfr_mul_1n_edge == Edge(31, Alike(2, {64}), Rnds, Normal \X Normal \X {"=", "cut"})
mpfr_mul_1n_adversarial == Adversarial(12, Alike(2, {64}), {"RNDN", "RNDU", "RNDD"},
        Normal \X Normal \X Ended)
mpfr_mul_1n_fuzz == Fuzz(55, Alike(2, {64}), Rnds, Normal \X Normal \X Ended)
mpfr_mul_1n_mined == Mined(5, Alike(2, {64}), {"RNDN", "RNDU"}, Normal \X Normal \X Same)
mpfr_mul_1n_port ==
    Needs(Port(<<Param("b", "MPFR"), Param("c", "MPFR"), Param("rnd", "RoundingMode")>>,
            "Result", Either(Singular, Kinds),
         Results(Normal \X Normal, <<"over", "under">> \o Ends \o <<"carry",
                 "carries over">>)),
          (1..64) \X (1..64))

-----------------------------------------------------------------------------
(* mpfr_mul_2: src/ops/mul_2.ts                                            *)

mpfr_mul_2_emit_case ==
    Asserts(Rounds2("b", "mpfr", "c"), Either(Singular, Kinds), Alike(3, 65..127))
mpfr_mul_2_happy == Happy(22, Alike(3, {80, 96, 100}), (Rnds \ {"RNDZ"}),
        Normal \X Normal \X Ended)
mpfr_mul_2_edge == Edge(31, Alike(3, {65, 80, 96, 100, 127}), Rnds,
        Normal \X Normal \X Ended)
mpfr_mul_2_adversarial == Adversarial(12, Alike(3, {65, 96, 100}), {"RNDN", "RNDU", "RNDD"},
        Normal \X Normal \X Ended)
mpfr_mul_2_fuzz == Fuzz(55, Alike(3, 68..127), Rnds, Normal \X Normal \X Ended)
mpfr_mul_2_mined == Mined(5, Alike(3, {100}), {"RNDN", "RNDU"}, Normal \X Normal \X Same)
mpfr_mul_2_port ==
    Needs(Port(Mpfrs(<<"b", "c">>) \o RoundsTo, "Result", Either(Singular, Kinds),
         Results(Normal \X Normal, <<"over">> \o Ends \o <<"carry", "carries over">>)),
          Alike(3, 65..127))

-----------------------------------------------------------------------------
(* mpfr_div_1: src/ops/div_1.ts                                            *)

mpfr_div_1_emit_case ==
    Asserts(Rounds2("u", "mpfr", "v"), Either(Singular, Kinds), Alike(3, 1..63))
mpfr_div_1_happy == Happy(22, Alike(3, {24, 32, 53}), (Rnds \ {"RNDZ"}),
        Normal \X Normal \X Ended)
mpfr_div_1_edge == Edge(31, Alike(3, {1, 8, 16, 24, 53, 60, 63}), Rnds,
        Normal \X Normal \X Ended)
mpfr_div_1_adversarial == Adversarial(12, Alike(3, {4, 8, 16, 24, 53}), (Rnds \ {"RNDZ"}),
        Normal \X Normal \X Inexactly)
mpfr_div_1_fuzz == Fuzz(60, Alike(3, 5..63), Rnds, Normal \X Normal \X Ended)
mpfr_div_1_mined == Mined(5, Alike(3, {24, 53}), {"RNDN", "RNDU"},
        Normal \X Normal \X Ended)
mpfr_div_1_port ==
    Needs(Port(Mpfrs(<<"u", "v">>) \o RoundsTo, "Result", {},
         Results(Normal \X Normal, <<"over", "under">> \o Ends)),
          Precs(3, 1..PREC_MAX))

-----------------------------------------------------------------------------
(* mpfr_div_1n: src/ops/div_1n.ts                                          *)

mpfr_div_1n_emit_case ==
    Asserts(Emits(<<Kv(1, "mpfr", "u"), Kv(0, "mpfr", "v"), Kv(0, "rnd", "rnd")>>,
            "result"), Either(Singular, Kinds), Alike(2, {64}))
mpfr_div_1n_happy == Happy(22, Alike(2, {64}), (Rnds \ {"RNDZ"}),
        Normal \X Normal \X {"=", "away", "nearest away", "nearest cut"})
mpfr_div_1n_edge == Edge(31, Alike(2, {64}), Rnds,
        Normal \X Normal \X (Ended \cup {"nearest away", "nearest cut"}))
mpfr_div_1n_adversarial == Adversarial(12, Alike(2, {64}), (Rnds \ {"RNDZ"}),
        Normal \X Normal \X (Inexactly \cup {"nearest away", "nearest cut"}))
mpfr_div_1n_fuzz == Fuzz(55, Alike(2, {64}), Rnds,
        Normal \X Normal \X (Inexactly \cup {"nearest away", "nearest cut"}))
mpfr_div_1n_mined == Mined(5, Alike(2, {64}), {"RNDN", "RNDU"},
        Normal \X Normal \X {"=", "away", "nearest away"})
mpfr_div_1n_port ==
    Needs(Port(<<Param("u", "MPFR"), Param("v", "MPFR"), Param("rnd", "RoundingMode")>>,
            "Result", {},
         <<Either(NaN, Kinds), Inf \X Inf, Inf \X Kinds, Kinds \X Inf, Zero \X Zero,
           Kinds \X Zero, Zero \X Kinds>>
         \o Results(Normal \X Normal, <<"over">> \o NearestEnds)),
          Seq(Nat))

-----------------------------------------------------------------------------
(* mpfr_div_2: src/ops/div_2.ts                                            *)

mpfr_div_2_emit_case ==
    Asserts(Rounds2("u", "mpfr", "v"), Either(Singular, Kinds), Alike(3, 65..127))
mpfr_div_2_happy == Happy(22, Alike(3, {65, 80, 96, 100, 113, 127}), (Rnds \ {"RNDZ"}),
        Normal \X Normal \X Ended)
mpfr_div_2_edge == Edge(30, Alike(3, {65, 80, 95, 96, 97, 100, 113, 127}), Rnds,
        Normal \X Normal \X Ended)
mpfr_div_2_adversarial == Adversarial(12, Alike(3, {65, 80, 96, 100, 113, 127}),
        (Rnds \ {"RNDZ"}), Normal \X Normal \X Inexactly)
mpfr_div_2_fuzz == Fuzz(60, Alike(3, 65..125), Rnds, Normal \X Normal \X Inexactly)
mpfr_div_2_mined == Mined(5, Alike(3, {80, 96, 100, 113, 127}), {"RNDN", "RNDU"},
        Normal \X Normal \X {"=", "away"})
mpfr_div_2_port ==
    Needs(Port(Mpfrs(<<"u", "v">>) \o RoundsTo, "Result", Either(Singular, Kinds),
         Results(Normal \X Normal, <<"over", "under">> \o Ends)),
          Precs(3, 1..PREC_MAX))

-----------------------------------------------------------------------------
(* mpfr_sqr_1: src/ops/sqr_1.ts                                            *)

mpfr_sqr_1_emit_case == Asserts(Rounds1("b"), One(Singular), Alike(2, 1..63))
mpfr_sqr_1_happy == Happy(22, Alike(2, {8, 24, 32, 53}), Rnds,
        Normal \X {"=", "away", "nearest away", "nearest cut"})
mpfr_sqr_1_edge == Edge(31, Alike(2, {1, 2, 8, 32, 60, 63}), Rnds,
        Normal \X (Ended \cup {"nearest away", "nearest cut"}))
mpfr_sqr_1_adversarial == Adversarial(12, Alike(2, {4, 8, 16, 53}),
        {"RNDN", "RNDU", "RNDD"},
        Normal \X {"=", "away", "carry", "cut", "nearest away", "nearest cut"})
mpfr_sqr_1_fuzz == Fuzz(60, Alike(2, 1..61), Rnds,
        Normal \X (Ended \cup {"nearest away", "nearest cut"}))
mpfr_sqr_1_mined == Mined(5, Alike(2, {8, 24, 53}), {"RNDN", "RNDU"},
        Normal \X {"=", "nearest cut"})
mpfr_sqr_1_port ==
    Needs(Port(Mpfrs(<<"b">>) \o RoundsTo, "Result", One(Singular),
         Results(One(Normal), <<"over", "under">> \o NearestEnds \o <<"carry",
                 "carries over">>)),
          Alike(2, 1..63))

-----------------------------------------------------------------------------
(* mpfr_sqr_1n: src/ops/sqr_1n.ts                                          *)

mpfr_sqr_1n_emit_case ==
    Asserts(Emits(<<Kv(1, "mpfr", "b"), Kv(0, "rnd", "rnd")>>, "result"), One(Singular),
            One({64}))
mpfr_sqr_1n_happy == Happy(22, One({64}), Rnds, Normal \X Ended)
mpfr_sqr_1n_edge == Edge(30, One({64}), Rnds, Normal \X Ended)
mpfr_sqr_1n_adversarial == Adversarial(12, One({64}), (Rnds \ {"RNDZ"}), Normal \X Ended)
mpfr_sqr_1n_fuzz == Fuzz(55, One({64}), Rnds, Normal \X Ended)
mpfr_sqr_1n_mined == Mined(5, One({64}), {"RNDN", "RNDU"}, Normal \X {"=", "away"})
mpfr_sqr_1n_port ==
    Needs(Port(<<Param("b", "MPFR"), Param("rnd", "RoundingMode")>>, "Result", One(Singular),
         Results(One(Normal), <<"over">> \o Ends \o <<"carry", "carries over">>)),
          One({64}))

-----------------------------------------------------------------------------
(* mpfr_sqr_2: src/ops/sqr_2.ts                                            *)

mpfr_sqr_2_emit_case == Asserts(Rounds1("b"), One(Singular), Alike(2, 65..127))
mpfr_sqr_2_happy == Happy(22, Alike(2, {80, 96, 100}), Rnds, Normal \X Ended)
mpfr_sqr_2_edge == Edge(31, Alike(2, {65, 100, 127}), Rnds, Normal \X Ended)
mpfr_sqr_2_adversarial == Adversarial(12, Alike(2, {65, 96, 100}), (Rnds \ {"RNDZ"}),
        Normal \X Ended)
mpfr_sqr_2_fuzz == Fuzz(55, Alike(2, 65..125), Rnds, Normal \X Ended)
mpfr_sqr_2_mined == Mined(5, Alike(2, {80, 96, 100}), {"RNDN", "RNDU"},
        Normal \X {"=", "cut"})
mpfr_sqr_2_port ==
    Needs(Port(Mpfrs(<<"b">>) \o RoundsTo, "Result", {},
         <<One(NaN), One(Inf), One(Zero)>> \o Results(One(Normal), <<"over",
                 "under">> \o Ends \o <<"carry", "carries over">>)),
          (65..127) \X (1..PREC_MAX))

-----------------------------------------------------------------------------
(* mpfr_sqrt1: src/ops/sqrt1.ts                                            *)

\* mpfr_sqrt of a positive value.
mpfr_sqrt1_emit_case == Asserts(Rounds1("u"), One(Signed \ {"+"}), Alike(2, 1..63))
mpfr_sqrt1_happy == Happy(22, Alike(2, {1, 24, 32, 53, 63}), {"RNDN", "RNDU", "RNDD"},
        {"+"} \X Ended)
mpfr_sqrt1_edge == Edge(32, Alike(2, {1, 2, 24, 53, 63}), Rnds, {"+"} \X Ended)
mpfr_sqrt1_adversarial == Adversarial(12, Alike(2, {8, 16, 53}), Rnds, {"+"} \X Ended)
mpfr_sqrt1_fuzz == Fuzz(60, Alike(2, 2..62), Rnds, {"+"} \X Ended)
mpfr_sqrt1_mined == Mined(6, Alike(2, {24, 53}), {"RNDN", "RNDU"}, {"+"} \X {"=", "away"})
mpfr_sqrt1_port ==
    Needs(Port(Mpfrs(<<"u">>) \o RoundsTo, "Result", {},
         Results(One({"+"}), Ends)),
          Alike(2, 1..63))

-----------------------------------------------------------------------------
(* mpfr_sqrt1n: src/ops/sqrt1n.ts                                          *)

mpfr_sqrt1n_emit_case == Asserts(Rounds1("u"), One(Signed \ {"+"}), {64} \X (1..64))
mpfr_sqrt1n_happy == Happy(22, {64} \X {24, 32, 53, 64}, {"RNDN", "RNDU", "RNDD"},
        {"+"} \X Ended)
mpfr_sqrt1n_edge == Edge(32, {64} \X {1, 7, 16, 32, 47, 48, 53, 64}, Rnds, {"+"} \X Ended)
mpfr_sqrt1n_adversarial == Adversarial(12, {64} \X {30, 64}, Rnds, {"+"} \X Ended)
mpfr_sqrt1n_fuzz == Fuzz(60, {64} \X (1..62), Rnds, {"+"} \X Ended)
mpfr_sqrt1n_mined == Mined(6, {64} \X {53, 64}, {"RNDN", "RNDU"}, {"+"} \X Ended)
mpfr_sqrt1n_port ==
    Needs(Port(Mpfrs(<<"u">>) \o RoundsTo, "Result", {},
         Results(One({"+"}), Ends)),
          {64} \X (1..64))

-----------------------------------------------------------------------------
(* The drivers of this family, as run_all.sh finds them.                   *)

WordsDrivers ==
    "mpfr_add1sp1" :> Driver(mpfr_add1sp1_emit_case,
        <<mpfr_add1sp1_happy, mpfr_add1sp1_edge, mpfr_add1sp1_adversarial,
        mpfr_add1sp1_fuzz, mpfr_add1sp1_mined>>, mpfr_add1sp1_port)
    @@ "mpfr_add1sp1n" :> Driver(mpfr_add1sp1n_emit_case,
        <<mpfr_add1sp1n_happy, mpfr_add1sp1n_edge, mpfr_add1sp1n_adversarial,
        mpfr_add1sp1n_fuzz, mpfr_add1sp1n_mined>>, mpfr_add1sp1n_port)
    @@ "mpfr_add1sp2" :> Driver(mpfr_add1sp2_emit_case,
        <<mpfr_add1sp2_happy, mpfr_add1sp2_edge, mpfr_add1sp2_adversarial,
        mpfr_add1sp2_fuzz, mpfr_add1sp2_mined>>, mpfr_add1sp2_port)
    @@ "mpfr_add1sp2n" :> Driver(mpfr_add1sp2n_emit_case,
        <<mpfr_add1sp2n_happy, mpfr_add1sp2n_edge, mpfr_add1sp2n_adversarial,
        mpfr_add1sp2n_fuzz, mpfr_add1sp2n_mined>>, mpfr_add1sp2n_port)
    @@ "mpfr_add1sp3" :> Driver(mpfr_add1sp3_emit_case,
        <<mpfr_add1sp3_happy, mpfr_add1sp3_edge, mpfr_add1sp3_adversarial,
        mpfr_add1sp3_fuzz, mpfr_add1sp3_mined>>, mpfr_add1sp3_port)
    @@ "mpfr_sub1sp1" :> Driver(mpfr_sub1sp1_emit_case,
        <<mpfr_sub1sp1_happy, mpfr_sub1sp1_edge, mpfr_sub1sp1_adversarial,
        mpfr_sub1sp1_fuzz, mpfr_sub1sp1_mined>>, mpfr_sub1sp1_port)
    @@ "mpfr_sub1sp1n" :> Driver(mpfr_sub1sp1n_emit_case,
        <<mpfr_sub1sp1n_happy, mpfr_sub1sp1n_edge, mpfr_sub1sp1n_adversarial,
        mpfr_sub1sp1n_fuzz, mpfr_sub1sp1n_mined>>, mpfr_sub1sp1n_port)
    @@ "mpfr_sub1sp2" :> Driver(mpfr_sub1sp2_emit_case,
        <<mpfr_sub1sp2_happy, mpfr_sub1sp2_edge, mpfr_sub1sp2_adversarial,
        mpfr_sub1sp2_fuzz, mpfr_sub1sp2_mined>>, mpfr_sub1sp2_port)
    @@ "mpfr_sub1sp2n" :> Driver(mpfr_sub1sp2n_emit_case,
        <<mpfr_sub1sp2n_happy, mpfr_sub1sp2n_edge, mpfr_sub1sp2n_adversarial,
        mpfr_sub1sp2n_fuzz, mpfr_sub1sp2n_mined>>, mpfr_sub1sp2n_port)
    @@ "mpfr_sub1sp3" :> Driver(mpfr_sub1sp3_emit_case,
        <<mpfr_sub1sp3_happy, mpfr_sub1sp3_edge, mpfr_sub1sp3_adversarial,
        mpfr_sub1sp3_fuzz, mpfr_sub1sp3_mined>>, mpfr_sub1sp3_port)
    @@ "mpfr_sub1sp" :> Driver(mpfr_sub1sp_emit_case,
        <<mpfr_sub1sp_happy, mpfr_sub1sp_edge, mpfr_sub1sp_adversarial,
        mpfr_sub1sp_fuzz, mpfr_sub1sp_mined>>, mpfr_sub1sp_port)
    @@ "mpfr_mul_1" :> Driver(mpfr_mul_1_emit_case,
        <<mpfr_mul_1_happy, mpfr_mul_1_edge, mpfr_mul_1_adversarial, mpfr_mul_1_fuzz,
        mpfr_mul_1_mined>>, mpfr_mul_1_port)
    @@ "mpfr_mul_1n" :> Driver(mpfr_mul_1n_emit_case,
        <<mpfr_mul_1n_happy, mpfr_mul_1n_edge, mpfr_mul_1n_adversarial,
        mpfr_mul_1n_fuzz, mpfr_mul_1n_mined>>, mpfr_mul_1n_port)
    @@ "mpfr_mul_2" :> Driver(mpfr_mul_2_emit_case,
        <<mpfr_mul_2_happy, mpfr_mul_2_edge, mpfr_mul_2_adversarial, mpfr_mul_2_fuzz,
        mpfr_mul_2_mined>>, mpfr_mul_2_port)
    @@ "mpfr_div_1" :> Driver(mpfr_div_1_emit_case,
        <<mpfr_div_1_happy, mpfr_div_1_edge, mpfr_div_1_adversarial, mpfr_div_1_fuzz,
        mpfr_div_1_mined>>, mpfr_div_1_port)
    @@ "mpfr_div_1n" :> Driver(mpfr_div_1n_emit_case,
        <<mpfr_div_1n_happy, mpfr_div_1n_edge, mpfr_div_1n_adversarial,
        mpfr_div_1n_fuzz, mpfr_div_1n_mined>>, mpfr_div_1n_port)
    @@ "mpfr_div_2" :> Driver(mpfr_div_2_emit_case,
        <<mpfr_div_2_happy, mpfr_div_2_edge, mpfr_div_2_adversarial, mpfr_div_2_fuzz,
        mpfr_div_2_mined>>, mpfr_div_2_port)
    @@ "mpfr_sqr_1" :> Driver(mpfr_sqr_1_emit_case,
        <<mpfr_sqr_1_happy, mpfr_sqr_1_edge, mpfr_sqr_1_adversarial, mpfr_sqr_1_fuzz,
        mpfr_sqr_1_mined>>, mpfr_sqr_1_port)
    @@ "mpfr_sqr_1n" :> Driver(mpfr_sqr_1n_emit_case,
        <<mpfr_sqr_1n_happy, mpfr_sqr_1n_edge, mpfr_sqr_1n_adversarial,
        mpfr_sqr_1n_fuzz, mpfr_sqr_1n_mined>>, mpfr_sqr_1n_port)
    @@ "mpfr_sqr_2" :> Driver(mpfr_sqr_2_emit_case,
        <<mpfr_sqr_2_happy, mpfr_sqr_2_edge, mpfr_sqr_2_adversarial, mpfr_sqr_2_fuzz,
        mpfr_sqr_2_mined>>, mpfr_sqr_2_port)
    @@ "mpfr_sqrt1" :> Driver(mpfr_sqrt1_emit_case,
        <<mpfr_sqrt1_happy, mpfr_sqrt1_edge, mpfr_sqrt1_adversarial, mpfr_sqrt1_fuzz,
        mpfr_sqrt1_mined>>, mpfr_sqrt1_port)
    @@ "mpfr_sqrt1n" :> Driver(mpfr_sqrt1n_emit_case,
        <<mpfr_sqrt1n_happy, mpfr_sqrt1n_edge, mpfr_sqrt1n_adversarial,
        mpfr_sqrt1n_fuzz, mpfr_sqrt1n_mined>>, mpfr_sqrt1n_port)

\* The returns that no case takes.  The drivers stay away from the ends of the
\* exponent range: over, under, carries over (the overflow that the driver of
\* mpfr_add1sp1n announces adds 1e10 to itself).  Their asserts bar the singular
\* operands that mpfr_div_1n and mpfr_sqr_2 take.  And some alignments never come
\* to a rounding up, or to any rounding.
WordsGaps ==
    LET returns(f, S) == {f} \X S
    IN  returns("mpfr_add1sp1", {1, 10, 14}) \cup returns("mpfr_add1sp1n", {1, 3, 4, 6, 11})
        \cup returns("mpfr_add1sp2", {1, 3, 4, 7, 9, 10, 14})
        \cup returns("mpfr_add1sp2n", {2, 3, 5, 10}) \cup returns("mpfr_add1sp3", {2, 3, 8})
        \cup returns("mpfr_sub1sp1", {4}) \cup returns("mpfr_sub1sp1n", {4, 7})
        \cup returns("mpfr_sub1sp2", {4, 9, 10, 11})
        \cup returns("mpfr_sub1sp2n", {4}) \cup returns("mpfr_sub1sp3", {4})
        \cup returns("mpfr_mul_1", {1, 6}) \cup returns("mpfr_mul_1n", {1, 2, 6, 7})
        \cup returns("mpfr_mul_2", {1, 5, 6})
        \cup returns("mpfr_div_1", {1, 2}) \cup returns("mpfr_div_1n", 1..8)
        \cup returns("mpfr_div_2", {1, 2})
        \cup returns("mpfr_sqr_1", {1, 2, 9}) \cup returns("mpfr_sqr_1n", {1, 5, 6})
        \cup returns("mpfr_sqr_2", {1, 2, 3, 4, 5, 9, 10})

=============================================================================
