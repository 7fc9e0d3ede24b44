------------------------------ MODULE Grading ------------------------------
(***************************************************************************)
(* What a grading run promises to the caller of gradeCases, whatever the   *)
(* number of workers: either no case is judged and the run is given up, or *)
(* every case gets one final verdict before the run is closed; a case      *)
(* passes only if the port computes it correctly; cases may be written off *)
(* together when the port can no longer be started.                        *)
(***************************************************************************)
EXTENDS Naturals

CONSTANTS Cases, Goldens

VARIABLES golden, verdicts, status

gvars == <<golden, verdicts, status>>

Unjudged == {c \in Cases : verdicts[c] = "none"}

Init ==
    /\ golden \in Goldens
    /\ verdicts = [c \in Cases |-> "none"]
    /\ status = "open"

Judge(c, v) ==
    /\ status = "open" /\ c \in Unjudged
    /\ v = "pass" => golden[c] = "right"
    /\ verdicts' = [verdicts EXCEPT ![c] = v]
    /\ UNCHANGED <<golden, status>>

\* As throws, which is what gradeCases sets for them; the comment above it says
\* infloop.  Neither counts as a pass.
WriteOff(S) ==
    /\ status = "open" /\ S \subseteq Unjudged
    /\ verdicts' = [c \in Cases |-> IF c \in S THEN "throw" ELSE verdicts[c]]
    /\ UNCHANGED <<golden, status>>

Close ==
    /\ status = "open" /\ Unjudged = {}
    /\ status' = "closed"
    /\ UNCHANGED <<golden, verdicts>>

GiveUp ==
    /\ status = "open" /\ Unjudged = Cases
    /\ status' = "given up"
    /\ UNCHANGED <<golden, verdicts>>

Next ==
    \/ \E c \in Cases, v \in {"pass", "throw", "infloop"} : Judge(c, v)
    \/ \E S \in SUBSET Cases : WriteOff(S)
    \/ Close
    \/ GiveUp

Spec == Init /\ [][Next]_gvars
=============================================================================
