---------------------------- MODULE MCRalphLoop ----------------------------
(***************************************************************************)
(* Instances of RalphLoop: b depends on a.                                *)
(***************************************************************************)
EXTENDS RalphLoop, TLC

CONSTANTS a, b

TwoRanks == (a :> 0) @@ (b :> 1)
TwoDeps == (a :> {}) @@ (b :> {a})
Fresh == [f \in Fns |-> "absent"]
Blocked == (a :> "absent") @@ (b :> "blocked")
Singles == {<<a>>, <<b>>}
Pairs == {<<a, b>>, <<b>>}
=============================================================================
