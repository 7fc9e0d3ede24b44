-------------------------- MODULE RalphLoopProofs --------------------------
(***************************************************************************)
(* Machine-checked safety of RalphLoop for every call graph, every number  *)
(* of concurrent invocations and every content of state.db to start from.  *)
(*                                                                         *)
(* What an invocation knows is a fact about its locals r and the functions *)
(* table s alone (Knows).  A step changes the locals of one process, or    *)
(* the table, so the proof has one lemma for each: OneProcess says that    *)
(* what the others know is undisturbed, StatusGrows that a table in which  *)
(* done rows stay done keeps what everybody knows.                         *)
(***************************************************************************)
EXTENDS RalphLoop, TLAPS

-----------------------------------------------------------------------------

Grading == {"resolve", "run", "record"}

\* Unless a grade has failed, every function before the current one is done.
Knows(r, s) ==
    /\ r \in Local
    /\ r.pc \in {"run", "record"} => r.k <= Len(r.batch)
    /\ r.pc = "record" => r.seen # NoPort
    /\ r.pc \in Grading /\ ~r.failed =>
          \A i \in DOMAIN r.batch : i < r.k => s[r.batch[i]] = "done"
    /\ r.pc = "promote" => \A i \in DOMAIN r.batch : s[r.batch[i]] = "done"
    /\ r.pc = "seed" => \A f \in r.chosen : \A d \in Deps[f] : s[d] = "done"

Tables == /\ status \in [Fns -> Statuses]
          /\ runs \in [Fns -> SUBSET Scores]
          /\ best \in [Fns -> Ports]
          /\ invocations \in Nat

Files == /\ scratch \in [Fns -> Ports] /\ tree \in [Fns -> Ports]
         /\ index \in [Fns -> Ports] /\ head \in [Fns -> Ports] /\ remote \in [Fns -> Ports]

Processes == /\ inv \in [Procs -> Local]
             /\ \A p \in Procs : Knows(inv[p], status)

IInv == Tables /\ Files /\ Processes /\ DoneHasPassingRun /\ PublishedIsDone

-----------------------------------------------------------------------------
(* What a process knows.                                                   *)

LEMMA IdleKnows == ASSUME NEW s PROVE Knows(Idle, s)
BY DEF Knows, Idle, Local, Grading, Ports

\* The other processes know what they knew.
LEMMA OneProcess ==
    ASSUME Processes, NEW p \in Procs, NEW l, Knows(l, status),
           inv' = [inv EXCEPT ![p] = l], status' = status
    PROVE  Processes'
<1>1. l \in Local
  BY DEF Knows
<1>2. inv' \in [Procs -> Local]
  BY <1>1 DEF Processes
<1>3. ASSUME NEW q \in Procs PROVE Knows(inv'[q], status')
  <2>1. CASE q = p
    BY <2>1 DEF Processes
  <2>2. CASE q # p
    BY <2>2 DEF Processes
  <2> QED BY <2>1, <2>2
<1> QED BY <1>2, <1>3 DEF Processes

\* A table in which done rows stay done keeps what a process knows.
LEMMA StatusGrows ==
    ASSUME NEW r, NEW s \in [Fns -> Statuses], NEW t \in [Fns -> Statuses],
           Knows(r, s), \A f \in Fns : s[f] = "done" => t[f] = "done"
    PROVE  Knows(r, t)
<1>1. r \in Local /\ r.batch \in Seq(Fns) /\ r.chosen \subseteq Fns
  BY DEF Knows, Local
<1>2. \A i \in DOMAIN r.batch : r.batch[i] \in Fns
  BY <1>1
<1>3. \A f \in Fns : Deps[f] \subseteq Fns
  BY RalphAssumption
<1> QED BY <1>1, <1>2, <1>3 DEF Knows

\* The step's own process, then the table.
LEMMA OneProcessAndStatus ==
    ASSUME Processes, NEW p \in Procs, NEW l,
           status \in [Fns -> Statuses], status' \in [Fns -> Statuses],
           \A f \in Fns : status[f] = "done" => status'[f] = "done",
           Knows(l, status'), inv' = [inv EXCEPT ![p] = l]
    PROVE  Processes'
<1>1. l \in Local
  BY DEF Knows
<1>2. inv' \in [Procs -> Local]
  BY <1>1 DEF Processes
<1>3. ASSUME NEW q \in Procs PROVE Knows(inv'[q], status')
  <2>1. CASE q = p
    BY <2>1 DEF Processes
  <2>2. CASE q # p
    <3>1. Knows(inv[q], status) /\ inv'[q] = inv[q]
      BY <2>2 DEF Processes
    <3> QED BY <3>1, StatusGrows
  <2> QED BY <2>1, <2>2
<1> QED BY <1>2, <1>3 DEF Processes

LEMMA IdleLocal == Idle \in Local
BY DEF Idle, Local, Ports

LEMMA StartLocal ==
    ASSUME NEW r \in Local, NEW m \in Modes, NEW b \in Seq(Fns),
           NEW l \in {"resolve", "export"}
    PROVE  [r EXCEPT !.pc = l, !.mode = m, !.batch = b] \in Local
BY DEF Local

LEMMA SelectLocal ==
    ASSUME NEW r \in Local, NEW m \in Modes, NEW c \in SUBSET Fns,
           NEW l \in {"seed", "seed any"}
    PROVE  [r EXCEPT !.pc = l, !.mode = m, !.chosen = c] \in Local
BY DEF Local

LEMMA NextLocal ==
    ASSUME NEW r \in Local, NEW n \in Nat \ {0}
    PROVE  /\ [r EXCEPT !.pc = "resolve", !.k = n] \in Local
           /\ [r EXCEPT !.pc = "resolve", !.k = n, !.failed = TRUE] \in Local
           /\ [r EXCEPT !.k = n] \in Local
           /\ [r EXCEPT !.pc = "promote", !.k = n] \in Local
BY DEF Local

\* The loop goes on after a function that is now done,
LEMMA PassedKnows ==
    ASSUME NEW r, NEW s, Knows(r, s), r.pc \in Grading, NEW n, n = r.k + 1,
           r.k <= Len(r.batch), s[r.batch[r.k]] = "done"
    PROVE  Knows([r EXCEPT !.pc = "resolve", !.k = n], s)
<1> DEFINE l == [r EXCEPT !.pc = "resolve", !.k = n]
<1>1. r \in Local
  BY DEF Knows
<1>2. r.k \in Nat /\ n \in Nat \ {0} /\ r.batch \in Seq(Fns)
  <2>1. r.k \in Nat /\ r.batch \in Seq(Fns)
    BY <1>1 DEF Local
  <2> QED BY <2>1
<1>3. /\ l.pc = "resolve" /\ l.k = n
      /\ l.failed = r.failed /\ l.batch = r.batch
  BY <1>1 DEF Local
<1>6. l \in Local
  BY <1>1, <1>2, NextLocal
<1>4. ASSUME ~r.failed, NEW i \in DOMAIN r.batch, i < n
      PROVE  s[r.batch[i]] = "done"
  <2>1. i < r.k \/ i = r.k
    BY <1>2, <1>4
  <2> QED BY <2>1, <1>4 DEF Knows
<1> HIDE DEF l
<1>5. Knows(l, s)
  BY <1>3, <1>6, <1>4 DEF Knows, Grading
<1> QED BY <1>5 DEF l

\* or after one that failed, and then nothing is claimed any more.
LEMMA FailedKnows ==
    ASSUME NEW r, NEW s, Knows(r, s), NEW n, n = r.k + 1
    PROVE  Knows([r EXCEPT !.pc = "resolve", !.k = n, !.failed = TRUE], s)
<1> DEFINE l == [r EXCEPT !.pc = "resolve", !.k = n, !.failed = TRUE]
<1>1. r \in Local
  BY DEF Knows
<1>2. n \in Nat \ {0}
  <2>1. r.k \in Nat
    BY <1>1 DEF Local
  <2> QED BY <2>1
<1>3. l.pc = "resolve" /\ l.failed = TRUE
  BY <1>1 DEF Local
<1>5. l \in Local
  BY <1>1, <1>2, NextLocal
<1> HIDE DEF l
<1>4. Knows(l, s)
  BY <1>3, <1>5 DEF Knows, Grading
<1> QED BY <1>4 DEF l

\* Going on to the next copy changes nothing of what is known.
LEMMA PromotedKnows ==
    ASSUME NEW r, NEW s, Knows(r, s), r.pc = "promote", NEW n, n = r.k + 1
    PROVE  Knows([r EXCEPT !.k = n], s)
<1> DEFINE l == [r EXCEPT !.k = n]
<1>1. r \in Local
  BY DEF Knows
<1>2. n \in Nat \ {0}
  <2>1. r.k \in Nat
    BY <1>1 DEF Local
  <2> QED BY <2>1
<1>3. l.pc = "promote" /\ l.batch = r.batch
  BY <1>1 DEF Local
<1>4. l \in Local
  BY <1>1, <1>2, NextLocal
<1> HIDE DEF l
<1>5. Knows(l, s)
  BY <1>3, <1>4 DEF Knows, Grading
<1> QED BY <1>5 DEF l

-----------------------------------------------------------------------------
(* The initial state.                                                      *)

LEMMA InitIInv == Init => IInv
<1> SUFFICES ASSUME Init PROVE IInv
  OBVIOUS
<1>1. Tables /\ Files
  BY RalphAssumption DEF Init, Tables, Files, Ports
<1>2. Processes
  <2>1. Idle \in Local
    BY IdleKnows DEF Knows
  <2> QED BY <2>1, IdleKnows DEF Init, Processes
<1>3. DoneHasPassingRun /\ PublishedIsDone
  BY DEF Init, DoneHasPassingRun, PublishedIsDone
<1> QED BY <1>1, <1>2, <1>3 DEF IInv

-----------------------------------------------------------------------------
(* The steps.                                                              *)

LEMMA StopKeeps ==
    ASSUME Processes, NEW p \in Procs, Stop(p), status' = status
    PROVE  Processes'
BY IdleKnows, OneProcess DEF Stop

LEMMA GotoKeeps ==
    ASSUME Processes, NEW p \in Procs, NEW l \in {"export", "add", "commit", "push"},
           Goto(p, l), status' = status
    PROVE  Processes'
<1> DEFINE r == [inv[p] EXCEPT !.pc = l]
<1>1. inv[p] \in Local
  BY DEF Processes
<1>2. r \in Local /\ r.pc = l
  BY <1>1 DEF Local
<1>3. inv' = [inv EXCEPT ![p] = r]
  BY DEF Goto
<1> HIDE DEF r
<1>4. Knows(r, status)
  BY <1>2 DEF Knows, Grading
<1> QED BY <1>3, <1>4, OneProcess

\* The functions a process is about to handle exist.
LEMMA CurrentFn ==
    ASSUME NEW p \in Procs, inv[p] \in Local, More(p)
    PROVE  Current(p) \in Fns
<1>1. inv[p].batch \in Seq(Fns) /\ inv[p].k \in Nat \ {0}
  BY DEF Local
<1> QED BY <1>1 DEF Current, More

\* A step that leaves tables and files alone keeps the rest of IInv.
LEMMA OnlyProcesses ==
    ASSUME IInv, Processes', UNCHANGED <<db, scratch, tree, git>>, invocations' \in Nat
    PROVE  IInv'
BY DEF IInv, Tables, Files, DoneHasPassingRun, PublishedIsDone, db, git

LEMMA StartStep ==
    ASSUME IInv, NEW p \in Procs, NEW m \in Modes, NEW b \in Seq(Fns),
           NEW l \in {"resolve", "export"}, Start(p, m, b, l)
    PROVE  IInv'
<1> DEFINE r == [Idle EXCEPT !.pc = l, !.mode = m, !.batch = b]
<1>1. /\ r \in Local /\ r.pc \in {"resolve", "export"} /\ r.k = 1
      /\ r.batch \in Seq(Fns)
  <2>1. r \in Local
    BY IdleLocal, StartLocal
  <2>2. r.pc = l /\ r.k = 1 /\ r.batch = b
    BY DEF Idle
  <2> QED BY <2>1, <2>2
<1>2. inv' = [inv EXCEPT ![p] = r]
  BY DEF Start
<1> HIDE DEF r
<1>3. Knows(r, status)
  BY <1>1 DEF Knows, Grading
<1>4. Processes'
  BY <1>2, <1>3, OneProcess DEF Start, db, IInv
<1>5. invocations' \in Nat
  BY DEF Start, IInv, Tables
<1> QED BY <1>4, <1>5, OnlyProcesses DEF Start

LEMMA SelectStep ==
    ASSUME IInv, NEW p \in Procs, Select(p)
    PROVE  IInv'
<1>1. PICK pendingDeps \in BOOLEAN, chosen \in SUBSET Fns :
         /\ \A f \in chosen : Eligible(f, pendingDeps)
         /\ inv' = [inv EXCEPT ![p] =
                      [Idle EXCEPT !.pc = IF pendingDeps THEN "seed any" ELSE "seed",
                                   !.mode = "next", !.chosen = chosen]]
  BY DEF Select
<1>2. "next" \in Modes /\ invocations' = invocations + 1 /\ UNCHANGED <<db, scratch, tree, git>>
  BY DEF Select
<1> DEFINE r == [Idle EXCEPT !.pc = IF pendingDeps THEN "seed any" ELSE "seed",
                             !.mode = "next", !.chosen = chosen]
<1>3. r \in Local /\ r.pc \in {"seed", "seed any"} /\ r.chosen = chosen
  <2> DEFINE l == IF pendingDeps THEN "seed any" ELSE "seed"
  <2>1. l \in {"seed", "seed any"}
    OBVIOUS
  <2>2. r = [Idle EXCEPT !.pc = l, !.mode = "next", !.chosen = chosen]
    BY Zenon
  <2> HIDE DEF l
  <2>3. r \in Local
    BY <1>2, <2>1, <2>2, IdleLocal, SelectLocal
  <2>4. r.pc = l /\ r.chosen = chosen
    BY DEF Idle, l
  <2> QED BY <2>1, <2>3, <2>4
<1>4. r.pc = "seed" => ~pendingDeps
  <2>1. r.pc = IF pendingDeps THEN "seed any" ELSE "seed"
    BY DEF Idle
  <2> QED BY <2>1
<1> HIDE DEF r
<1>5. Knows(r, status)
  BY <1>1, <1>3, <1>4 DEF Knows, Grading, Eligible
<1>6. Processes'
  BY <1>1, <1>2, <1>5, OneProcess DEF r, db, IInv
<1> QED BY <1>2, <1>6, OnlyProcesses DEF IInv, Tables

LEMMA SeedStep ==
    ASSUME IInv, NEW p \in Procs, Seed(p)
    PROVE  IInv'
<1>1. status' \in [Fns -> Statuses]
  BY DEF Seed, IInv, Tables, Statuses
<1>2. \A f \in Fns : (status'[f] = "done") <=> (status[f] = "done")
  BY DEF Seed
<1>3. Processes'
  BY <1>1, <1>2, IdleKnows, OneProcessAndStatus DEF Seed, Stop, IInv, Tables
<1>4. Tables' /\ Files'
  BY <1>1 DEF Seed, IInv, Tables, Files, git
<1>5. DoneHasPassingRun' /\ PublishedIsDone'
  BY <1>2 DEF Seed, IInv, DoneHasPassingRun, PublishedIsDone, git
<1> QED BY <1>3, <1>4, <1>5 DEF IInv

\* A grade that failed moves the loop on.
LEMMA FailedKeeps ==
    ASSUME Processes, NEW p \in Procs, Failed(p), status' = status
    PROVE  Processes'
<1>1. Knows(inv[p], status)
  BY DEF Processes
<1>2. Knows([inv[p] EXCEPT !.pc = "resolve", !.k = inv[p].k + 1, !.failed = TRUE], status)
  BY <1>1, FailedKnows
<1>3. inv' = [inv EXCEPT ![p] = [inv[p] EXCEPT !.pc = "resolve", !.k = inv[p].k + 1,
                                               !.failed = TRUE]]
  BY DEF Failed
<1> QED BY <1>2, <1>3, OneProcess

LEMMA ResolveStep ==
    ASSUME IInv, NEW p \in Procs, Resolve(p)
    PROVE  IInv'
<1>1. inv[p] \in Local /\ Knows(inv[p], status) /\ inv[p].pc = "resolve" /\ More(p)
  BY DEF IInv, Processes, Resolve, At
<1>2. UNCHANGED <<db, scratch, tree, git, invocations>>
  BY DEF Resolve
<1> SUFFICES Processes'
  BY <1>2, OnlyProcesses DEF IInv, Tables
<1>3. ASSUME NEW path \in {"scratch", "tree"},
             inv' = [inv EXCEPT ![p] = [inv[p] EXCEPT !.pc = "run", !.path = path]]
      PROVE  Processes'
  <2> DEFINE r == [inv[p] EXCEPT !.pc = "run", !.path = path]
  <2>1. /\ r \in Local /\ r.pc = "run" /\ r.k = inv[p].k /\ r.batch = inv[p].batch
    BY <1>1 DEF Local
  <2>2. r.failed = inv[p].failed
    BY <1>1 DEF Local
  <2>3. inv' = [inv EXCEPT ![p] = r]
    BY <1>3
  <2> HIDE DEF r
  <2>4. Knows(r, status)
    BY <1>1, <2>1, <2>2 DEF Knows, Grading, More
  <2> QED BY <1>2, <2>3, <2>4, OneProcess DEF IInv, db
<1>4. CASE Failed(p)
  BY <1>2, <1>4, FailedKeeps DEF IInv, db
<1>5. CASE ~Failed(p)
  <2> DEFINE path == IF scratch[Current(p)] # NoPort THEN "scratch" ELSE "tree"
  <2>1. path \in {"scratch", "tree"}
    OBVIOUS
  <2>2. inv' = [inv EXCEPT ![p] = [inv[p] EXCEPT !.pc = "run", !.path = path]]
    BY <1>5 DEF Resolve
  <2> HIDE DEF path
  <2> QED BY <2>1, <2>2, <1>3
<1> QED BY <1>4, <1>5

LEMMA RunStep ==
    ASSUME IInv, NEW p \in Procs, Run(p)
    PROVE  IInv'
<1>1. inv[p] \in Local /\ Knows(inv[p], status) /\ inv[p].pc = "run"
  BY DEF IInv, Processes, Run, At
<1>2. UNCHANGED <<db, scratch, tree, git, invocations>>
  BY DEF Run
<1> SUFFICES Processes'
  BY <1>2, OnlyProcesses DEF IInv, Tables
<1>3. CASE GetsGrade(p)
  <2>1. Graded(p) \in Ports
    <3>1. Current(p) \in Fns
      BY <1>1, CurrentFn DEF Knows, More
    <3> QED BY <3>1 DEF Graded, IInv, Files
  <2> DEFINE grade == Graded(p)
             r == [inv[p] EXCEPT !.pc = "record", !.seen = grade]
  <2>2. inv' = [inv EXCEPT ![p] = r] /\ grade # NoPort
    BY <1>3 DEF GetsGrade
  <2>3. grade \in Ports
    BY <2>1
  <2> HIDE DEF grade
  <2>4. /\ r \in Local /\ r.pc = "record" /\ r.seen = grade /\ r.k = inv[p].k
        /\ r.batch = inv[p].batch
    BY <1>1, <2>3 DEF Local
  <2>5. r.failed = inv[p].failed
    BY <1>1 DEF Local
  <2> HIDE DEF r
  <2>6. Knows(r, status)
    BY <1>1, <2>2, <2>4, <2>5 DEF Knows, Grading
  <2> QED BY <1>2, <2>2, <2>6, OneProcess DEF IInv, db
<1>4. CASE Failed(p)
  BY <1>2, <1>4, FailedKeeps DEF IInv, db
<1> QED BY <1>3, <1>4 DEF Run

LEMMA RecordStep ==
    ASSUME IInv, NEW p \in Procs, Record(p)
    PROVE  IInv'
<1> DEFINE f == Current(p)
           grade == inv[p].seen
           r == inv[p]
<1>1. /\ r \in Local /\ Knows(r, status) /\ r.pc = "record"
      /\ r.k <= Len(r.batch)
  BY DEF IInv, Processes, Record, RecordAs, At, Knows
<1>2. f \in Fns /\ f = r.batch[r.k]
  BY <1>1, CurrentFn DEF More, Current
<1>3. grade \in Scores
  BY <1>1 DEF Knows, Local, Ports
<1>4. /\ status \in [Fns -> Statuses] /\ runs \in [Fns -> SUBSET Scores]
      /\ best \in [Fns -> Ports]
  BY DEF IInv, Tables
<1>5. /\ runs' = [runs EXCEPT ![f] = @ \cup {grade}]
      /\ best' = [best EXCEPT ![f] = IF grade >= Threshold THEN grade ELSE @]
      /\ UNCHANGED <<scratch, tree, git, invocations>>
  BY DEF Record, RecordAs
<1>6. status' = [status EXCEPT ![f] = IF grade >= Threshold THEN "done"
                     ELSE IF status[f] = "absent" THEN "pending" ELSE status[f]]
  BY DEF Record, RecordAs
<1>7. IF grade >= Threshold THEN Passed(p) ELSE Failed(p)
  BY DEF Record, RecordAs
<1> HIDE DEF f, grade
<1>8. /\ status' \in [Fns -> Statuses]
      /\ \A g \in Fns : status[g] = "done" => status'[g] = "done"
      /\ grade >= Threshold => status'[f] = "done"
      /\ \A g \in Fns : status'[g] = "done" =>
             status[g] = "done" \/ (g = f /\ grade >= Threshold)
  BY <1>2, <1>4, <1>6 DEF Statuses
<1>9. Knows(r, status')
  BY <1>1, <1>4, <1>8, StatusGrows
<1>10. Processes'
  <2>1. CASE grade >= Threshold
    <3>1. Knows([r EXCEPT !.pc = "resolve", !.k = r.k + 1], status')
      BY <1>1, <1>2, <1>8, <1>9, <2>1, PassedKnows DEF Grading
    <3>2. inv' = [inv EXCEPT ![p] = [r EXCEPT !.pc = "resolve", !.k = r.k + 1]]
      BY <1>7, <2>1 DEF Passed
    <3> QED BY <1>4, <1>8, <3>1, <3>2, OneProcessAndStatus DEF IInv
  <2>2. CASE ~(grade >= Threshold)
    <3>1. Knows([r EXCEPT !.pc = "resolve", !.k = r.k + 1, !.failed = TRUE], status')
      BY <1>9, FailedKnows
    <3>2. inv' = [inv EXCEPT ![p] = [r EXCEPT !.pc = "resolve", !.k = r.k + 1,
                                             !.failed = TRUE]]
      BY <1>7, <2>2 DEF Failed
    <3> QED BY <1>4, <1>8, <3>1, <3>2, OneProcessAndStatus DEF IInv
  <2> QED BY <2>1, <2>2
<1>11. Tables' /\ Files'
  <2>1. runs' \in [Fns -> SUBSET Scores]
    BY <1>2, <1>3, <1>4, <1>5
  <2>2. best' \in [Fns -> Ports]
    BY <1>2, <1>3, <1>4, <1>5 DEF Ports
  <2> QED BY <1>5, <1>8, <2>1, <2>2 DEF IInv, Tables, Files, git
<1>12. DoneHasPassingRun'
  <2> SUFFICES ASSUME NEW g \in Fns, status'[g] = "done", InitStatus[g] # "done"
               PROVE  best'[g] >= Threshold /\ best'[g] \in runs'[g]
    BY DEF DoneHasPassingRun
  <2>1. CASE g = f /\ grade >= Threshold
    BY <1>4, <1>5, <2>1
  <2>2. CASE g = f /\ ~(grade >= Threshold)
    BY <1>4, <1>5, <1>8, <2>2 DEF IInv, DoneHasPassingRun
  <2>3. CASE g # f
    BY <1>4, <1>5, <1>8, <2>3 DEF IInv, DoneHasPassingRun
  <2> QED BY <2>1, <2>2, <2>3
<1>13. PublishedIsDone'
  BY <1>5, <1>8 DEF IInv, PublishedIsDone, git
<1> QED BY <1>10, <1>11, <1>12, <1>13 DEF IInv

LEMMA EndGradingStep ==
    ASSUME IInv, NEW p \in Procs, EndGrading(p)
    PROVE  IInv'
<1>1. inv[p] \in Local /\ Knows(inv[p], status) /\ inv[p].pc = "resolve" /\ ~More(p)
  BY DEF IInv, Processes, EndGrading, GradedAll, At
<1>2. UNCHANGED <<db, scratch, tree, git, invocations>>
  BY DEF EndGrading, GradedAll
<1> SUFFICES Processes'
  BY <1>2, OnlyProcesses DEF IInv, Tables
<1>3. CASE Stop(p)
  BY <1>2, <1>3, StopKeeps DEF IInv, db
<1>4. CASE ~Stop(p)
  <2> DEFINE r == [inv[p] EXCEPT !.pc = "promote", !.k = 1]
  <2>1. inv' = [inv EXCEPT ![p] = r] /\ ~inv[p].failed
    BY <1>4 DEF EndGrading, GradedAll
  <2>2. r \in Local
    BY <1>1, 1 \in Nat \ {0}, NextLocal
  <2>5. r.pc = "promote" /\ r.batch = inv[p].batch
    BY <1>1 DEF Local
  <2>6. inv[p].batch \in Seq(Fns) /\ inv[p].k \in Nat
    BY <1>1 DEF Local
  <2>3. \A i \in DOMAIN inv[p].batch : i < inv[p].k
    BY <1>1, <2>6 DEF More
  <2> HIDE DEF r
  <2>4. Knows(r, status)
    BY <1>1, <2>1, <2>2, <2>3, <2>5 DEF Knows, Grading
  <2> QED BY <1>2, <2>1, <2>4, OneProcess DEF IInv, db
<1> QED BY <1>3, <1>4

LEMMA PromoteStep ==
    ASSUME IInv, NEW p \in Procs, Promote(p)
    PROVE  IInv'
<1>1. /\ inv[p] \in Local /\ Knows(inv[p], status) /\ inv[p].pc = "promote" /\ More(p)
      /\ UNCHANGED <<db, scratch, git, invocations>>
  BY DEF IInv, Processes, Promote, At
<1>2. Current(p) \in Fns /\ status[Current(p)] = "done"
  <2>1. Current(p) \in Fns
    BY <1>1, CurrentFn
  <2>2. inv[p].k \in DOMAIN inv[p].batch
    <3>1. inv[p].batch \in Seq(Fns) /\ inv[p].k \in Nat \ {0}
      BY <1>1 DEF Local
    <3> QED BY <1>1, <3>1 DEF More
  <2> QED BY <1>1, <2>1, <2>2 DEF Knows, Current
<1>3. CASE Stop(p) /\ UNCHANGED tree
  BY <1>1, <1>3, StopKeeps, OnlyProcesses DEF IInv, Tables, db
<1>4. CASE ~(Stop(p) /\ UNCHANGED tree)
  <2>1. /\ tree' = [tree EXCEPT ![Current(p)] = scratch[Current(p)]]
        /\ inv' = [inv EXCEPT ![p] = [inv[p] EXCEPT !.k = inv[p].k + 1]]
    BY <1>4 DEF Promote
  <2>2. Knows([inv[p] EXCEPT !.k = inv[p].k + 1], status)
    BY <1>1, PromotedKnows
  <2>3. Processes'
    BY <1>1, <2>1, <2>2, OneProcess DEF IInv, db
  <2>4. Tables' /\ Files' /\ DoneHasPassingRun'
    BY <1>1, <1>2, <2>1 DEF IInv, Tables, Files, DoneHasPassingRun, db, git
  <2>5. PublishedIsDone'
    BY <1>1, <1>2, <2>1 DEF IInv, Files, PublishedIsDone, db, git
  <2> QED BY <2>3, <2>4, <2>5 DEF IInv
<1> QED BY <1>3, <1>4

LEMMA CommitSteps ==
    ASSUME IInv, NEW p \in Procs,
           EndPromote(p) \/ Export(p) \/ Add(p) \/ Commit(p) \/ Push(p) \/ Killed(p)
    PROVE  IInv'
<1>1. /\ UNCHANGED <<db, scratch, tree, invocations>>
      /\ Stop(p) \/ \E l \in {"export", "add", "commit", "push"} : Goto(p, l)
  BY DEF EndPromote, Export, Add, Commit, Push, Killed, git
<1>2. /\ index' = index \/ index' = tree
      /\ head' = head \/ head' = index
      /\ remote' = remote \/ remote' = head
  BY DEF EndPromote, Export, Add, Commit, Push, Killed, git
<1>3. Processes'
  BY <1>1, StopKeeps, GotoKeeps DEF IInv, db
<1>4. Tables' /\ Files' /\ DoneHasPassingRun'
  BY <1>1, <1>2 DEF IInv, Tables, Files, DoneHasPassingRun, db
<1>5. PublishedIsDone'
  BY <1>1, <1>2 DEF IInv, PublishedIsDone, db
<1> QED BY <1>3, <1>4, <1>5 DEF IInv

LEMMA AgentStep ==
    ASSUME IInv, NEW f \in Fns, AgentWrites(f)
    PROVE  IInv'
<1>1. UNCHANGED <<db, tree, git, inv, invocations>> /\ scratch' \in [Fns -> Ports]
  BY DEF AgentWrites, IInv, Files
<1> QED BY <1>1 DEF IInv, Tables, Files, Processes, DoneHasPassingRun, PublishedIsDone,
                  Knows, db, git

-----------------------------------------------------------------------------
(* The theorems.                                                           *)

LEMMA NextIInv == IInv /\ [Next]_vars => IInv'
<1> SUFFICES ASSUME IInv, [Next]_vars PROVE IInv'
  OBVIOUS
<1>1. ASSUME NEW p \in Procs, Select(p) PROVE IInv'
  BY <1>1, SelectStep
<1>2. ASSUME NEW p \in Procs, StartGrade(p) PROVE IInv'
  BY <1>2, StartStep, RalphAssumption DEF StartGrade, Start
<1>3. ASSUME NEW p \in Procs, StartShip(p) PROVE IInv'
  BY <1>3, StartStep, RalphAssumption DEF StartShip, Start
<1>4. ASSUME NEW p \in Procs, StartCommit(p) PROVE IInv'
  <2>1. << >> \in Seq(Fns)
    OBVIOUS
  <2> QED BY <1>4, <2>1, StartStep DEF StartCommit, Start
<1>5. ASSUME NEW p \in Procs, Seed(p) PROVE IInv'
  BY <1>5, SeedStep
<1>6. ASSUME NEW p \in Procs, GradeStep(p) PROVE IInv'
  BY <1>6, ResolveStep, RunStep, RecordStep, EndGradingStep DEF GradeStep
<1>7. ASSUME NEW p \in Procs, ShipStep(p) PROVE IInv'
  BY <1>7, PromoteStep, CommitSteps DEF ShipStep
<1>8. ASSUME NEW p \in Procs, Killed(p) PROVE IInv'
  BY <1>8, CommitSteps
<1>9. ASSUME NEW f \in Fns, AgentWrites(f) PROVE IInv'
  BY <1>9, AgentStep
<1>10. CASE UNCHANGED vars
  BY <1>10 DEF vars, db, git, IInv, Tables, Files, Processes, DoneHasPassingRun,
               PublishedIsDone, Knows
<1> QED BY <1>1, <1>2, <1>3, <1>4, <1>5, <1>6, <1>7, <1>8, <1>9, <1>10 DEF Next

LEMMA Invariance == Spec => []IInv
BY InitIInv, NextIInv, PTL DEF Spec

\* Types, and the loops over a batch never run past its end.
THEOREM TypeCorrect == Spec => []TypeOK
<1>1. IInv => TypeOK
  BY DEF IInv, Tables, Files, Processes, Knows, TypeOK, More
<1> QED BY <1>1, Invariance, PTL

\* done is only ever written next to the recorded run that justifies it.
THEOREM DoneIsEarned == Spec => []DoneHasPassingRun
<1>1. IInv => DoneHasPassingRun
  BY DEF IInv
<1> QED BY <1>1, Invariance, PTL

\* Whatever ralph.py put into the tree, the index, HEAD or the remote is a
\* function state.db calls done.
THEOREM DatabaseAheadOfGit == Spec => []PublishedIsDone
<1>1. IInv => PublishedIsDone
  BY DEF IInv
<1> QED BY <1>1, Invariance, PTL

\* No promotion of a batch with a function that is not done.
THEOREM OnlyDonePromoted == Spec => []PromotesDoneBatches
<1>1. IInv => PromotesDoneBatches
  BY DEF IInv, Processes, Knows, PromotesDoneBatches, At
<1> QED BY <1>1, Invariance, PTL

\* What --next seeds, however late, has its dependencies done.
THEOREM SeedsAreReady == Spec => []SeedsReady
<1>1. IInv => SeedsReady
  BY DEF IInv, Processes, Knows, SeedsReady, At
<1> QED BY <1>1, Invariance, PTL

\* No step takes a function out of done, or a row out of the table.
THEOREM DoneStays == Spec => DoneIsFinal
<1>1. IInv /\ [Next]_vars =>
         [\A f \in Fns : /\ status[f] = "done" => status'[f] = "done"
                         /\ status[f] # "absent" => status'[f] # "absent"]_vars
  <2> SUFFICES ASSUME IInv, Next
               PROVE  \A f \in Fns : /\ status[f] = "done" => status'[f] = "done"
                                     /\ status[f] # "absent" => status'[f] # "absent"
    OBVIOUS
  <2>1. status \in [Fns -> Statuses]
    BY DEF IInv, Tables
  <2>2. ASSUME NEW p \in Procs, Record(p)
        PROVE  status' = [status EXCEPT ![Current(p)] =
                             IF inv[p].seen >= Threshold THEN "done"
                             ELSE IF status[Current(p)] = "absent" THEN "pending"
                             ELSE status[Current(p)]]
    BY <2>2 DEF Record, RecordAs
  <2>3. CASE \E p \in Procs : Record(p) \/ Seed(p)
    BY <2>1, <2>2, <2>3 DEF Seed
  <2>4. CASE UNCHANGED status
    BY <2>4
  <2> QED BY <2>3, <2>4
          DEF Next, Select, StartGrade, StartShip, StartCommit, Start, GradeStep, Resolve,
              Run, EndGrading, GradedAll, ShipStep, Promote, EndPromote, Export, Add,
              Commit, Push, Killed, AgentWrites, db
<1> QED BY <1>1, Invariance, PTL DEF Spec, DoneIsFinal
=============================================================================
