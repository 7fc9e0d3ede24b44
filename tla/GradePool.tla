----------------------------- MODULE GradePool -----------------------------
(***************************************************************************)
(* The worker pool of the grading harness: gradeCases, spawnWorker and     *)
(* dispatchCase of eval/harness/runner.ts together with the message        *)
(* handler of eval/harness/worker.ts.                                      *)
(*                                                                         *)
(* The parent is one event loop.  Between two awaits its code is atomic,   *)
(* so each action of a slot is the code from one await to the next; the    *)
(* loop head of drive (Claim) is a step of its own, which only adds        *)
(* interleavings.  A worker is a thread: it shares nothing with the parent *)
(* but the messages in mail, and the parent can kill it at any moment.     *)
(* The timers of the parent may fire at any moment they are armed.         *)
(***************************************************************************)
EXTENDS Naturals, FiniteSets

CONSTANTS N,         \* number of decoded golden cases
          P,         \* pool size: min(args.workers, cases.length)
          Goldens    \* the golden files considered, each with its port

ASSUME NAssumption == N \in Nat \ {0}
ASSUME PAssumption == P \in Nat \ {0} /\ P <= N

Cases == 1..N
Slots == 1..P
NoCase == 0
NoWorker == 0

\* What the port under grading does with a case, or "unreadable" when the
\* golden line decodes but its values do not (decodeExpected, buildInputArgs).
Natures == {"right", "wrong", "throws", "loops", "unreadable"}
ASSUME GoldensAssumption == Goldens \subseteq [Cases -> Natures]

\* CaseOutcome: passed / threw / timedOut are exclusive; cause stands for the
\* error text.
Outcome == [verdict : {"pass", "throw", "infloop"},
            cause : {"decode", "reply", "timeout", "crash", "respawn"}]
Graded(v, why) == [verdict |-> v, cause |-> why]
Ungraded == Graded("none", "none")     \* a hole of the array

Message == [from : Nat, kind : {"ready", "init_error", "error"}]
           \cup [from : Nat, kind : {"result"}, case : Cases]

VARIABLES
    nature,    \* [Cases -> Natures], fixed: the golden file and the port
    phase,     \* where gradeCases is
    pc,        \* where the promise chain of each slot is
    worker,    \* the Worker a slot's spawn or drive loop holds, or NoWorker
    mode,      \* what that worker's thread is doing
    alive,     \* worker threads started and not terminated
    spawned,   \* workers created so far; also the name of the last one
    claim,     \* idx of drive: the case a slot is waiting for
    nextCase,  \* the shared queue index (1-based here)
    outcomes,  \* the sparse outcomes array
    mail       \* messages on their way to the parent

vars == <<nature, phase, pc, worker, mode, alive, spawned, claim, nextCase,
          outcomes, mail>>

Init ==
    /\ nature \in Goldens
    /\ phase = "init"
    /\ pc = [s \in Slots |-> "spawn"]
    /\ worker = [s \in Slots |-> s]
    /\ mode = [s \in Slots |-> "starting"]
    /\ alive = Slots
    /\ spawned = P
    /\ claim = [s \in Slots |-> NoCase]
    /\ nextCase = 1
    /\ outcomes = [c \in Cases |-> Ungraded]
    /\ mail = {}

-----------------------------------------------------------------------------
(* The worker thread.  Nothing obliges it to take any of these steps.      *)

Running(s) == worker[s] \in alive

Post(s, m, next) ==
    /\ mail' = mail \cup {m}
    /\ mode' = [mode EXCEPT ![s] = next]
    /\ UNCHANGED <<nature, phase, pc, worker, alive, spawned, claim, nextCase,
                   outcomes>>

\* The import resolves and the export is a function, or it does not.
WorkerInit(s) ==
    /\ Running(s) /\ mode[s] = "starting"
    /\ \E k \in {"ready", "init_error"} :
          Post(s, [from |-> worker[s], kind |-> k],
               IF k = "ready" THEN "idle" ELSE "dead")

\* The port returned or threw synchronously (a Promise, or a value that
\* cannot be cloned, is a throw).
WorkerReply(s) ==
    /\ Running(s) /\ mode[s] = "running"
    /\ nature[claim[s]] \in {"right", "wrong", "throws"}
    /\ Post(s, [from |-> worker[s], kind |-> "result", case |-> claim[s]], "idle")

\* An uncaught error: while importing, in a callback an earlier case left
\* behind, or out of memory.  A synchronous endless loop runs no callback.
WorkerCrash(s) ==
    /\ Running(s) /\ mode[s] \in {"starting", "idle", "running"}
    /\ mode[s] = "running" => nature[claim[s]] # "loops"
    /\ Post(s, [from |-> worker[s], kind |-> "error"], "dead")

-----------------------------------------------------------------------------
(* spawnWorker, as awaited by the initial Promise.all.                     *)

Heard(s, kinds) == {m \in mail : m.from = worker[s] /\ m.kind \in kinds}

\* 'ready' wins: the promise resolves.  The last one resolves Promise.all,
\* and every drive starts.
SpawnReady(s) ==
    /\ pc[s] = "spawn"
    /\ \E m \in Heard(s, {"ready"}) : mail' = mail \ {m}
    /\ LET allReady == \A t \in Slots \ {s} : pc[t] = "ready"
       IN  /\ pc' = IF allReady THEN [t \in Slots |-> "loop"]
                                ELSE [pc EXCEPT ![s] = "ready"]
           /\ phase' = IF allReady THEN "driving" ELSE phase
    /\ UNCHANGED <<nature, worker, mode, alive, spawned, claim, nextCase,
                   outcomes>>

\* The init handshake fails: init_error, onerror or the init timer.
HandshakeFails(s) ==
    \/ \E m \in Heard(s, {"init_error", "error"}) : mail' = mail \ {m}
    \/ UNCHANGED mail

\* The worker is terminated and the promise rejects.  The first rejection
\* rejects Promise.all, and gradeCases returns initFailed.
SpawnReject(s) ==
    /\ pc[s] = "spawn"
    /\ HandshakeFails(s)
    /\ alive' = alive \ {worker[s]}
    /\ pc' = [pc EXCEPT ![s] = "rejected"]
    /\ phase' = "initFailed"
    /\ UNCHANGED <<nature, worker, mode, spawned, claim, nextCase, outcomes>>

-----------------------------------------------------------------------------
(* drive: one loop per slot.                                               *)

Record(c, o) == outcomes' = [outcomes EXCEPT ![c] = o]

\* The loop head: take the next index; leave, ending the workers in ended,
\* when the queue is exhausted.
ClaimEnding(s, ended) ==
    /\ pc[s] = "loop" /\ worker[s] # NoWorker
    /\ nextCase' = nextCase + 1
    /\ \/ /\ nextCase > N
          /\ alive' = alive \ ended
          /\ worker' = [worker EXCEPT ![s] = NoWorker]
          /\ pc' = [pc EXCEPT ![s] = "done"]
          /\ UNCHANGED <<mode, claim, outcomes>>
       \/ /\ nextCase <= N /\ nature[nextCase] = "unreadable"
          /\ Record(nextCase, Graded("throw", "decode"))
          /\ UNCHANGED <<pc, worker, mode, alive, claim>>
       \/ /\ nextCase <= N /\ nature[nextCase] # "unreadable"
          /\ claim' = [claim EXCEPT ![s] = nextCase]
          /\ pc' = [pc EXCEPT ![s] = "await"]
          /\ mode' = [mode EXCEPT ![s] = IF @ = "idle" THEN "running" ELSE @]
          /\ UNCHANGED <<worker, alive, outcomes>>
    /\ UNCHANGED <<nature, phase, spawned, mail>>

ClaimNoTerminate(s) == ClaimEnding(s, {})                       \* mutant
ClaimNoReturn(s) ==                                             \* mutant
    \/ nextCase <= N /\ ClaimEnding(s, {worker[s]})
    \/ /\ pc[s] = "loop" /\ worker[s] # NoWorker /\ nextCase > N
       /\ nextCase' = nextCase + 1
       /\ UNCHANGED <<nature, phase, pc, worker, mode, alive, spawned, claim,
                      outcomes, mail>>
Claim(s) == ClaimEnding(s, {worker[s]})

\* The guard at the loop head, which the source takes for unreachable: the last
\* case cost the worker, and nothing was left to respawn for.
LeaveWithoutWorker(s) ==
    /\ pc[s] = "loop" /\ worker[s] = NoWorker
    /\ pc' = [pc EXCEPT ![s] = "done"]
    /\ UNCHANGED <<nature, phase, worker, mode, alive, spawned, claim,
                   nextCase, outcomes, mail>>

\* compareOutput on a reply to the case the slot waits for.
ReplyPassing(s, good) ==
    /\ pc[s] = "await"
    /\ \E m \in Heard(s, {"result"}) :
          /\ m.case = claim[s]
          /\ mail' = mail \ {m}
          /\ Record(claim[s],
                    Graded(IF nature[m.case] \in good THEN "pass" ELSE "throw",
                           "reply"))
    /\ claim' = [claim EXCEPT ![s] = NoCase]
    /\ pc' = [pc EXCEPT ![s] = "loop"]
    /\ UNCHANGED <<nature, phase, worker, mode, alive, spawned, nextCase>>

ReplyUncompared(s) == ReplyPassing(s, {"right", "wrong"})       \* mutant
Reply(s) == ReplyPassing(s, {"right"})

\* After a timeout or a crash the worker is gone: a new one is spawned when
\* the queue is not exhausted, and the loop continues without one otherwise.
\* nextCase is read here, before the await of the spawn.
ReplaceEnding(s, ended) ==
    /\ claim' = [claim EXCEPT ![s] = NoCase]
    /\ IF nextCase <= N
       THEN /\ spawned' = spawned + 1
            /\ worker' = [worker EXCEPT ![s] = spawned + 1]
            /\ mode' = [mode EXCEPT ![s] = "starting"]
            /\ alive' = (alive \ ended) \cup {spawned + 1}
            /\ pc' = [pc EXCEPT ![s] = "respawn"]
       ELSE /\ alive' = alive \ ended
            /\ worker' = [worker EXCEPT ![s] = NoWorker]
            /\ pc' = [pc EXCEPT ![s] = "loop"]
            /\ UNCHANGED <<spawned, mode>>
    /\ UNCHANGED <<nature, phase, nextCase>>

ReplaceKeepsOld(s) == ReplaceEnding(s, {})                      \* mutant
Replace(s) == ReplaceEnding(s, {worker[s]})

\* The case timer fires first: terminate, no reply will be heard any more.
Timeout(s) ==
    /\ pc[s] = "await"
    /\ Record(claim[s], Graded("infloop", "timeout"))
    /\ Replace(s)
    /\ UNCHANGED mail

\* onerror of the worker while a case is out.
Crash(s) ==
    /\ pc[s] = "await"
    /\ \E m \in Heard(s, {"error"}) : mail' = mail \ {m}
    /\ Record(claim[s], Graded("throw", "crash"))
    /\ Replace(s)

RespawnReady(s) ==
    /\ pc[s] = "respawn"
    /\ \E m \in Heard(s, {"ready"}) : mail' = mail \ {m}
    /\ pc' = [pc EXCEPT ![s] = "loop"]
    /\ UNCHANGED <<nature, phase, worker, mode, alive, spawned, claim,
                   nextCase, outcomes>>

\* The respawn fails: this slot drains what is left of the shared queue,
\* cases other slots could still have run included, and leaves.  The drained
\* cases are recorded as throws, although the comment above the respawn
\* (runner.ts:851) announces them as infloop.
DrainFrom(s, drained) ==
    /\ pc[s] = "respawn"
    /\ HandshakeFails(s)
    /\ alive' = alive \ {worker[s]}
    /\ worker' = [worker EXCEPT ![s] = NoWorker]
    /\ outcomes' = [c \in Cases |-> IF c \in drained THEN Graded("throw", "respawn")
                                    ELSE outcomes[c]]
    /\ nextCase' = IF nextCase <= N THEN N + 1 ELSE nextCase
    /\ pc' = [pc EXCEPT ![s] = "done"]
    /\ UNCHANGED <<nature, phase, mode, spawned, claim>>

RespawnFailDrainsAll(s) ==                                      \* mutant
    DrainFrom(s, {c \in Cases : outcomes[c] = Ungraded})
RespawnFailNoDrain(s) == DrainFrom(s, {})                       \* mutant
RespawnFailRetries(s) ==                                        \* mutant
    /\ pc[s] = "respawn"
    /\ HandshakeFails(s)
    /\ Replace(s)
    /\ UNCHANGED outcomes
RespawnFail(s) == DrainFrom(s, {c \in Cases : c >= nextCase})

-----------------------------------------------------------------------------

\* A message no handler is set for, or one its handler ignores (a result
\* for another case), is lost.
Awaited(s, m) ==
    /\ m.from = worker[s]
    /\ \/ pc[s] \in {"spawn", "respawn"} /\ m.kind # "result"
       \/ pc[s] = "await" /\ m.kind = "error"
       \/ pc[s] = "await" /\ m.kind = "result" /\ m.case = claim[s]

Drop(m) ==
    /\ \A s \in Slots : ~Awaited(s, m)
    /\ mail' = mail \ {m}
    /\ UNCHANGED <<nature, phase, pc, worker, mode, alive, spawned, claim,
                   nextCase, outcomes>>

\* Promise.all over the drives resolves.
Finish ==
    /\ phase = "driving"
    /\ \A s \in Slots : pc[s] = "done"
    /\ phase' = "graded"
    /\ UNCHANGED <<nature, pc, worker, mode, alive, spawned, claim, nextCase,
                   outcomes, mail>>

WorkerStep(s) == WorkerInit(s) \/ WorkerReply(s) \/ WorkerCrash(s)
SpawnSettles(s) == SpawnReady(s) \/ SpawnReject(s)
RespawnSettles(s) == RespawnReady(s) \/ RespawnFail(s)
CaseSettlesNoTimer(s) == Reply(s) \/ Crash(s)                   \* mutant
CaseSettles(s) == Reply(s) \/ Timeout(s) \/ Crash(s)
DriveStep(s) == Claim(s) \/ LeaveWithoutWorker(s)

Next ==
    \/ \E s \in Slots : \/ WorkerStep(s) \/ SpawnSettles(s) \/ DriveStep(s)
                        \/ CaseSettles(s) \/ RespawnSettles(s)
    \/ \E m \in mail : Drop(m)
    \/ Finish

\* The parent's event loop runs and its timers fire; the workers may hang.
Fairness ==
    /\ \A s \in Slots : /\ WF_vars(SpawnSettles(s))
                        /\ WF_vars(DriveStep(s))
                        /\ WF_vars(CaseSettles(s))
                        /\ WF_vars(RespawnSettles(s))
    /\ WF_vars(Finish)

Spec == Init /\ [][Next]_vars
FairSpec == Spec /\ Fairness

-----------------------------------------------------------------------------
(* Properties.                                                             *)

\* Every variable keeps its type, and the queue index, which nothing resets,
\* overshoots by at most one per slot: a drive that has taken an index past the
\* end leaves and never comes back for another.
TypeOK ==
    /\ nature \in [Cases -> Natures]
    /\ phase \in {"init", "driving", "initFailed", "graded"}
    /\ pc \in [Slots -> {"spawn", "ready", "rejected", "loop", "await",
                         "respawn", "done"}]
    /\ worker \in [Slots -> Nat]
    /\ mode \in [Slots -> {"starting", "idle", "running", "dead"}]
    /\ alive \subseteq Nat
    /\ spawned \in Nat
    /\ claim \in [Slots -> Cases \cup {NoCase}]
    /\ nextCase \in 1..(N + 1 + P)
    /\ outcomes \in [Cases -> Outcome \cup {Ungraded}]
    /\ mail \subseteq Message

\* The queue loses no case and gives none out twice: a case below nextCase
\* is graded, or exactly one slot waits for it; one not yet taken is
\* ungraded.  (nextCase++ shared by the drives, and the drain loop.)
InFlight(c) == {s \in Slots : pc[s] = "await" /\ claim[s] = c}
QueueAccounted ==
    \A c \in Cases :
        IF c < nextCase
        THEN \/ outcomes[c] # Ungraded /\ InFlight(c) = {}
             \/ outcomes[c] = Ungraded /\ \E s \in Slots : InFlight(c) = {s}
        ELSE outcomes[c] = Ungraded /\ InFlight(c) = {}

\* When gradeCases returns outcomes the sparse array has no hole:
\* assembleGrade reads every element without a guard.
NoHoles == phase = "graded" => \A c \in Cases : outcomes[c] # Ungraded

\* A verdict taken from a reply is the verdict of the port on that very
\* case, and no case passes in any other way: no late, stale or foreign
\* reply is credited to a case.
OwnReply ==
    \A c \in Cases : outcomes[c] # Ungraded =>
        /\ outcomes[c].cause = "reply" => nature[c] # "loops"
        /\ outcomes[c].verdict = "pass" =>
              outcomes[c].cause = "reply" /\ nature[c] = "right"
        /\ nature[c] = "unreadable" => outcomes[c].cause \in {"decode", "respawn"}

\* A worker thread that runs belongs to exactly one slot, so the pool never
\* runs more than P threads and the parent can always terminate it.
Owned ==
    /\ \A w \in alive : \E s \in Slots : worker[s] = w /\ pc[s] # "done"
    /\ \A s, t \in Slots : worker[s] = worker[t] /\ s # t => worker[s] = NoWorker

\* When gradeCases returns outcomes it has terminated every worker.
AllTerminated == phase = "graded" => alive = {}

\* A verdict, once recorded, is never overwritten.
VerdictFinal ==
    [][\A c \in Cases : outcomes[c] # Ungraded => outcomes'[c] = outcomes[c]]_vars

\* Workers are created for the initial pool and after a case that cost one,
\* never more: no respawn loop on a port that no longer starts.
Lost == {c \in Cases : outcomes[c].cause \in {"timeout", "crash"}}
SpawnBudget == spawned <= P + Cardinality(Lost)

\* Grading ends whatever the port does: every wait has a timer.
GradingEnds == <>(phase \in {"graded", "initFailed"})

\* The pool implements the abstract grading run: a case handed to a worker
\* is still unjudged, and the run is open until gradeCases returns.  The cases
\* drained after a failed respawn are written off as throws there too: that is
\* what the code records (threw: true, timedOut: false at runner.ts:866), not
\* the infloop that its comment at runner.ts:851 speaks of.
Promise == INSTANCE Grading WITH
    golden <- nature,
    verdicts <- [c \in Cases |-> outcomes[c].verdict],
    status <- CASE phase \in {"init", "driving"} -> "open"
                [] phase = "initFailed" -> "given up"
                [] phase = "graded" -> "closed"
ImplementsGrading == Promise!Spec

-----------------------------------------------------------------------------
(* What a comment of the source says and the code does not do.             *)

\* "The caller owns the worker after resolve and must terminate it": the
\* caller, gradeCases, has returned and a resolved worker still runs.
CallerTerminates ==
    phase \in {"initFailed", "graded"} =>
        \A s \in Slots : pc[s] = "ready" => worker[s] \notin alive
=============================================================================
