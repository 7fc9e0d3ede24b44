---------------------------- MODULE MCGradePool ----------------------------
(***************************************************************************)
(* Instances of GradePool: golden files whose cases show every nature, a   *)
(* hanging case between two good ones, and an unreadable line last.        *)
(***************************************************************************)
EXTENDS GradePool

Hanging == {<<"right", "loops", "right">>}
Mixed == {<<"right", "loops", "right">>, <<"wrong", "right", "unreadable">>,
          <<"loops", "throws", "right">>, <<"unreadable", "right", "wrong">>}
=============================================================================
