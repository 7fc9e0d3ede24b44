----------------------------- MODULE RalphLoop -----------------------------
(***************************************************************************)
(* The porting loop: eval/driver/ralph.py over eval/state.db (schema.sql), *)
(* the scratch ports under /tmp, the working tree and git.                 *)
(*                                                                         *)
(* Each invocation of ralph.py is a process.  Its steps are the points     *)
(* where it reads or writes something others can change: one SQLite        *)
(* transaction, one subprocess, one file copy.  An invocation can be       *)
(* killed between any two of them, several can run at a time, and the      *)
(* porting agents rewrite the scratch ports whenever they like.            *)
(***************************************************************************)
EXTENDS Naturals, Sequences, FiniteSets

CONSTANTS Fns,            \* functions of the call graph
          Rank,           \* position of each in the order (topo_rank, name)
          Deps,           \* callgraph.json: [Fns -> SUBSET Fns]
          Goldened,       \* functions with a golden.jsonl
          Findable,       \* those whose promoted file resolve_port_path looks at:
                          \* not mpfr_* substrate, promoted to src/internal/mpfr
          InitStatus,     \* state.db before the first invocation
          Procs,          \* concurrent invocations
          Scores,         \* composites told apart, 1..2 or more
          Modes,          \* modes the orchestrator uses
          Batches,        \* argument lists of --grade and --ship
          BatchSize,      \* --batch-size
          MaxInvocations  \* bound on the history explored

Statuses == {"absent", "pending", "in_flight", "done", "slow", "parked", "blocked"}

ASSUME RalphAssumption ==
    /\ Rank \in [Fns -> Nat] /\ Deps \in [Fns -> SUBSET Fns] /\ Goldened \subseteq Fns
    /\ Findable \subseteq Fns
    /\ InitStatus \in [Fns -> Statuses]
    /\ Scores \subseteq Nat \ {0}
    /\ Modes \subseteq {"next", "grade", "ship", "commit"}
    /\ Batches \subseteq Seq(Fns) /\ \A b \in Batches : Len(b) > 0
    /\ BatchSize \in Nat \ {0} /\ MaxInvocations \in Nat

\* A port is told apart by the composite the runner gives it: below the
\* threshold of 0.95 (1), above it, and higher still.
Threshold == 2
NoPort == 0
Ports == Scores \cup {NoPort}

VARIABLES
    status, runs, best,         \* functions and runs tables
    scratch,                    \* /tmp/eval_<fn>/port.ts of each function
    tree, index, head, remote,  \* its canonical file: working tree and git
    inv,                        \* each process: its program counter and locals
    invocations                 \* how many were started (bounded)

db == <<status, runs, best>>
git == <<index, head, remote>>
vars == <<status, runs, best, scratch, tree, index, head, remote, inv, invocations>>

\* pc, command-line mode and functions, loop position, whether a grade has
\* failed, the port path resolved for the current function, its grade; what
\* --next selected.
Idle == [pc |-> "idle", mode |-> "none", batch |-> << >>, k |-> 1,
         failed |-> FALSE, path |-> "none", seen |-> NoPort, chosen |-> {}]

Init ==
    /\ status = InitStatus
    /\ runs = [f \in Fns |-> {}]
    /\ best = [f \in Fns |-> NoPort]
    /\ scratch \in [Fns -> Ports]
    /\ tree = [f \in Fns |-> NoPort]
    /\ index = tree /\ head = tree /\ remote = tree
    /\ inv = [p \in Procs |-> Idle]
    /\ invocations = 0

-----------------------------------------------------------------------------

At(p, l) == inv[p].pc = l
Goto(p, l) == inv' = [inv EXCEPT ![p].pc = l]
Stop(p) == inv' = [inv EXCEPT ![p] = Idle]
Current(p) == inv[p].batch[inv[p].k]
More(p) == inv[p].k <= Len(inv[p].batch)

Start(p, m, b, l) ==
    /\ At(p, "idle") /\ m \in Modes /\ invocations < MaxInvocations
    /\ invocations' = invocations + 1
    /\ inv' = [inv EXCEPT ![p] = [Idle EXCEPT !.pc = l, !.mode = m, !.batch = b]]
    /\ UNCHANGED <<db, scratch, tree, git>>

(* --next: select from a read-only snapshot, then seed with a second       *)
(* connection.                                                             *)

EligibleAnyDep(f, pendingDeps) ==                                    \* mutant
    /\ status[f] \in {"absent", "pending"}
    /\ pendingDeps \/ Deps[f] = {} \/ \E d \in Deps[f] : status[d] # "absent"
Eligible(f, pendingDeps) ==
    /\ status[f] \in {"absent", "pending"}
    /\ pendingDeps \/ \A d \in Deps[f] : status[d] = "done"

\* The first BatchSize candidates in the order.
Select(p) ==
    \E pendingDeps \in BOOLEAN :
        LET candidates == {f \in Fns : Eligible(f, pendingDeps)}
            chosen == {f \in candidates :
                          Cardinality({g \in candidates : Rank[g] < Rank[f]}) < BatchSize}
        IN  /\ chosen # {}
            /\ At(p, "idle") /\ "next" \in Modes /\ invocations < MaxInvocations
            /\ invocations' = invocations + 1
            /\ inv' = [inv EXCEPT ![p] =
                          [Idle EXCEPT !.pc = IF pendingDeps THEN "seed any" ELSE "seed",
                                       !.mode = "next", !.chosen = chosen]]
            /\ UNCHANGED <<db, scratch, tree, git>>

\* INSERT OR IGNORE of a pending row for each selected function.
Seed(p) ==
    /\ At(p, "seed") \/ At(p, "seed any")
    /\ status' = [f \in Fns |-> IF f \in inv[p].chosen /\ status[f] = "absent"
                                THEN "pending" ELSE status[f]]
    /\ Stop(p)
    /\ UNCHANGED <<runs, best, scratch, tree, git, invocations>>

(* --grade and --ship: _grade_one for each function of the batch.          *)

StartGrade(p) == \E b \in Batches : Start(p, "grade", b, "resolve")

\* Every scratch port must exist, or nothing is graded.
StartShip(p) ==
    \E b \in Batches : /\ \A i \in DOMAIN b : scratch[b[i]] # NoPort
                       /\ Start(p, "ship", b, "resolve")

\* The loop goes on, after a grade that failed or one that passed.
Passed(p) == inv' = [inv EXCEPT ![p].pc = "resolve", ![p].k = @ + 1]
Failed(p) == inv' = [inv EXCEPT ![p].pc = "resolve", ![p].k = @ + 1, ![p].failed = TRUE]

\* resolve_port_path: the scratch port first, else the canonical file.
Resolve(p) ==
    /\ At(p, "resolve") /\ More(p)
    /\ LET f == Current(p)
       IN  IF /\ scratch[f] # NoPort \/ (tree[f] # NoPort /\ f \in Findable)
              /\ f \in Goldened
           THEN inv' = [inv EXCEPT ![p].pc = "run",
                          ![p].path = IF scratch[f] # NoPort THEN "scratch" ELSE "tree"]
           ELSE Failed(p)
    /\ UNCHANGED <<db, scratch, tree, git, invocations>>

\* The runner subprocess reads the port and grades it, or leaves no grade.
Graded(p) == IF inv[p].path = "scratch" THEN scratch[Current(p)] ELSE tree[Current(p)]
GetsGrade(p) ==
    /\ Graded(p) # NoPort
    /\ inv' = [inv EXCEPT ![p].pc = "record", ![p].seen = Graded(p)]

RunRetries(p) ==                                                     \* mutant
    /\ At(p, "run")
    /\ GetsGrade(p) \/ Goto(p, "resolve")
    /\ UNCHANGED <<db, scratch, tree, git, invocations>>
Run(p) ==
    /\ At(p, "run")
    /\ GetsGrade(p) \/ Failed(p)
    /\ UNCHANGED <<db, scratch, tree, git, invocations>>

\* One transaction: the runs row, and the functions row if it passed; a
\* function without a row gets a pending one.
RecordAs(p, unlessPassed) ==
    LET f == Current(p)
        grade == inv[p].seen
        passed == grade >= Threshold
    IN  /\ At(p, "record")
        /\ runs' = [runs EXCEPT ![f] = @ \cup {grade}]
        /\ status' = [status EXCEPT ![f] = IF passed THEN "done" ELSE unlessPassed]
        /\ best' = [best EXCEPT ![f] = IF passed THEN grade ELSE @]
        /\ IF passed THEN Passed(p) ELSE Failed(p)
        /\ UNCHANGED <<scratch, tree, git, invocations>>

RecordReopens(p) == RecordAs(p, "pending")                           \* mutant
RecordAlways(p) == RecordAs(p, "done")                               \* mutant
RecordFAILED(p) == RecordAs(p, "FAILED")                             \* mutant
Record(p) == RecordAs(p, IF status[Current(p)] = "absent" THEN "pending"
                         ELSE status[Current(p)])

\* --grade exits; --ship goes on to the promotions if nothing failed.
GradedAll(p, goOn) ==
    /\ At(p, "resolve") /\ ~More(p)
    /\ IF inv[p].mode = "ship" /\ goOn
       THEN inv' = [inv EXCEPT ![p].pc = "promote", ![p].k = 1]
       ELSE Stop(p)
    /\ UNCHANGED <<db, scratch, tree, git, invocations>>

EndGradingUnchecked(p) == GradedAll(p, TRUE)                         \* mutant
EndGrading(p) == GradedAll(p, ~inv[p].failed)

(* --ship: promotion, then the commit.                                     *)

\* Copy the scratch port, as it is now, into the tree; reading a file that
\* is gone raises and ends the invocation.
Promote(p) ==
    /\ At(p, "promote") /\ More(p)
    /\ IF scratch[Current(p)] # NoPort
       THEN /\ tree' = [tree EXCEPT ![Current(p)] = scratch[Current(p)]]
            /\ inv' = [inv EXCEPT ![p].k = @ + 1]
       ELSE Stop(p) /\ UNCHANGED tree
    /\ UNCHANGED <<db, scratch, git, invocations>>

EndPromote(p) ==
    /\ At(p, "promote") /\ ~More(p)
    /\ Goto(p, "export")
    /\ UNCHANGED <<db, scratch, tree, git, invocations>>

StartCommit(p) == Start(p, "commit", << >>, "export")

(* run_commit_batch: bd export, git add -A, git commit, git push; the      *)
(* first failure ends it.                                                  *)

Export(p) ==
    /\ At(p, "export")
    /\ Goto(p, "add") \/ Stop(p)
    /\ UNCHANGED <<db, scratch, tree, git, invocations>>

Add(p) ==
    /\ At(p, "add")
    /\ \/ index' = tree /\ Goto(p, "commit")
       \/ Stop(p) /\ UNCHANGED index
    /\ UNCHANGED <<db, scratch, tree, head, remote, invocations>>

\* A failure, and "nothing to commit", which exits 0, end the batch without
\* a push; the exported issues may be all there is to commit.
Commit(p) ==
    /\ At(p, "commit")
    /\ \/ head' = index /\ Goto(p, "push")
       \/ Stop(p) /\ UNCHANGED head
    /\ UNCHANGED <<db, scratch, tree, index, remote, invocations>>

Push(p) ==
    /\ At(p, "push")
    /\ remote' = head \/ UNCHANGED remote
    /\ Stop(p)
    /\ UNCHANGED <<db, scratch, tree, index, head, invocations>>

-----------------------------------------------------------------------------
(* The environment.                                                        *)

\* The invocation is killed; what it wrote stays.
Killed(p) ==
    /\ ~At(p, "idle")
    /\ Stop(p)
    /\ UNCHANGED <<db, scratch, tree, git, invocations>>

\* A porting agent writes or removes a scratch port.
AgentWrites(f) ==
    /\ \E v \in Ports : v # scratch[f] /\ scratch' = [scratch EXCEPT ![f] = v]
    /\ UNCHANGED <<db, tree, git, inv, invocations>>

GradeStep(p) == Resolve(p) \/ Run(p) \/ Record(p) \/ EndGrading(p)
ShipStep(p) == \/ Promote(p) \/ EndPromote(p) \/ Export(p) \/ Add(p)
               \/ Commit(p) \/ Push(p)

Next ==
    \/ \E p \in Procs : \/ Select(p) \/ StartGrade(p) \/ StartShip(p) \/ StartCommit(p)
                        \/ Seed(p) \/ GradeStep(p) \/ ShipStep(p) \/ Killed(p)
    \/ \E f \in Fns : AgentWrites(f)

Spec == Init /\ [][Next]_vars

\* Grading steps end: the runner has a timer on every wait.  Nothing is
\* assumed of bd and git, which ralph.py runs without a timeout.
FairSpec == Spec /\ \A p \in Procs : WF_vars(GradeStep(p))

-----------------------------------------------------------------------------
(* Properties.                                                             *)

Local == [pc : {"idle", "seed", "seed any", "resolve", "run", "record", "promote",
                "export", "add", "commit", "push"},
          mode : Modes \cup {"none"}, batch : Seq(Fns), k : Nat \ {0},
          failed : BOOLEAN, path : {"none", "scratch", "tree"}, seen : Ports,
          chosen : SUBSET Fns]

\* Every variable keeps its type, and the loops over a batch stay inside it.
TypeOK ==
    /\ status \in [Fns -> Statuses]
    /\ runs \in [Fns -> SUBSET Scores]
    /\ best \in [Fns -> Ports]
    /\ scratch \in [Fns -> Ports] /\ tree \in [Fns -> Ports]
    /\ index \in [Fns -> Ports] /\ head \in [Fns -> Ports] /\ remote \in [Fns -> Ports]
    /\ inv \in [Procs -> Local]
    /\ \A p \in Procs : /\ inv[p].pc \in {"run", "record"} => More(p)
                        /\ inv[p].pc = "record" => inv[p].seen # NoPort
    /\ invocations \in Nat

\* A function the loop called done has a recorded run above the threshold,
\* and best_correctness is the composite of one of its runs.
DoneHasPassingRun ==
    \A f \in Fns : status[f] = "done" /\ InitStatus[f] # "done" =>
        best[f] >= Threshold /\ best[f] \in runs[f]

\* What --ship put into the tree, what was staged, committed and pushed, is
\* of functions state.db calls done: the database is never behind git.
PublishedIsDone ==
    \A f \in Fns : \A m \in {tree, index, head, remote} :
        m[f] # NoPort => status[f] = "done"

\* An invocation that promotes has every function of its batch done: checked
\* before the first copy, and still true at the last whatever others grade.
PromotesDoneBatches ==
    \A p \in Procs : At(p, "promote") =>
        \A i \in DOMAIN inv[p].batch : status[inv[p].batch[i]] = "done"

\* --next selects on a snapshot and seeds later, while other invocations
\* grade: the dependencies of what it seeds are still done.
SeedsReady ==
    \A p \in Procs : At(p, "seed") =>
        \A f \in inv[p].chosen : \A d \in Deps[f] : status[d] = "done"

\* done is final, and a row never disappears: what was selected because its
\* dependencies were done is never orphaned.
DoneIsFinal ==
    [][\A f \in Fns : /\ status[f] = "done" => status'[f] = "done"
                      /\ status[f] # "absent" => status'[f] # "absent"]_vars

\* Grading a batch ends, however often ports vanish or fail.
GradingReturns ==
    \A p \in Procs : (inv[p].pc \in {"resolve", "run", "record"}) ~>
                          (inv[p].pc \notin {"resolve", "run", "record"})

-----------------------------------------------------------------------------
(* What the documentation says and the code does not do.                   *)

\* best_run_id is the "FK to the best (highest composite) run".
BestRunIsBest == \A f \in Fns : \A r \in runs[f] : r >= Threshold => best[f] >= r

\* What the "Atomic grade + promote + commit" puts into the tree is what it
\* graded.
PromotedPasses == \A f \in Fns : tree[f] # NoPort => tree[f] >= Threshold
=============================================================================
