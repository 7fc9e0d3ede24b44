-------------------------- MODULE GradePoolProofs --------------------------
(***************************************************************************)
(* Machine-checked safety of GradePool for every number of cases, every    *)
(* pool size and every golden file.                                        *)
(***************************************************************************)
EXTENDS GradePool, FiniteSetTheorems, TLAPS

-----------------------------------------------------------------------------
(* The inductive invariant.                                                *)

\* The types; how far the queue index gets takes an argument of its own.
Typed ==
    /\ nature \in [Cases -> Natures]
    /\ phase \in {"init", "driving", "initFailed", "graded"}
    /\ pc \in [Slots -> {"spawn", "ready", "rejected", "loop", "await",
                         "respawn", "done"}]
    /\ worker \in [Slots -> Nat]
    /\ mode \in [Slots -> {"starting", "idle", "running", "dead"}]
    /\ alive \subseteq Nat
    /\ spawned \in Nat
    /\ claim \in [Slots -> Cases \cup {NoCase}]
    /\ nextCase \in Nat
    /\ outcomes \in [Cases -> Outcome \cup {Ungraded}]
    /\ mail \subseteq Message

\* gradeCases drives only after every spawn of the initial pool resolved,
\* and has taken no case before.
PhaseInv ==
    /\ phase \in {"init", "initFailed"} =>
          /\ nextCase = 1
          /\ \A s \in Slots : pc[s] \in {"spawn", "ready", "rejected"}
    /\ phase = "init" => \A s \in Slots : pc[s] # "rejected"
    /\ phase \in {"driving", "graded"} =>
          \A s \in Slots : pc[s] \in {"loop", "await", "respawn", "done"}
    /\ phase = "graded" => \A s \in Slots : pc[s] = "done"

\* The shared queue: what is taken is graded or awaited by one slot.
QueueInv ==
    /\ nextCase >= 1
    /\ \A s \in Slots :
          /\ pc[s] = "await" => /\ claim[s] \in Cases
                                /\ claim[s] < nextCase
                                /\ outcomes[claim[s]] = Ungraded
          /\ pc[s] = "done" \/ (pc[s] = "loop" /\ worker[s] = NoWorker) =>
                nextCase > N
    /\ \A s, t \in Slots :
          s # t /\ pc[s] = "await" /\ pc[t] = "await" => claim[s] # claim[t]
    /\ \A c \in Cases :
          /\ c >= nextCase => outcomes[c] = Ungraded
          /\ c < nextCase => \/ outcomes[c] # Ungraded
                             \/ \E s \in Slots : pc[s] = "await" /\ claim[s] = c

\* Threads: each one alive is the worker of one slot that still needs it.
WorkerInv ==
    /\ \A s \in Slots : /\ worker[s] <= spawned
                        /\ pc[s] = "done" => worker[s] = NoWorker
                        /\ pc[s] \in {"spawn", "ready", "await", "respawn"} =>
                              worker[s] # NoWorker
    /\ \A s, t \in Slots : s # t /\ worker[s] = worker[t] => worker[s] = NoWorker
    /\ \A w \in alive : w # NoWorker /\ \E s \in Slots : worker[s] = w

\* A thread runs a case only while its slot waits for it, and the reply to
\* the case a slot waits for exists only once the thread is idle again.
ReplyInv ==
    /\ \A s \in Slots : worker[s] \in alive /\ mode[s] = "running" =>
          /\ pc[s] = "await"
          /\ \A m \in mail : m.kind = "result" => m.from # worker[s] \/ m.case # claim[s]
    /\ \A m \in mail :
          /\ m.from \in Nat /\ m.from <= spawned
          /\ m.kind = "result" =>
                /\ m.case \in Cases /\ m.case < nextCase
                /\ nature[m.case] \in {"right", "wrong", "throws"}
    /\ \A s \in Slots : pc[s] = "await" => nature[claim[s]] # "unreadable"

IInv == Typed /\ PhaseInv /\ QueueInv /\ WorkerInv /\ ReplyInv /\ OwnReply

USE DEF Cases, Slots, NoCase, NoWorker, Ungraded, Graded

LEMMA InitIInv == Init => IInv
BY NAssumption, PAssumption, GoldensAssumption
   DEF Init, IInv, Typed, PhaseInv, QueueInv, WorkerInv, ReplyInv, OwnReply,
       Outcome, Natures

LEMMA WorkerInitStep ==
    ASSUME IInv, NEW s \in Slots, WorkerInit(s)
    PROVE  IInv'
<1>1. Typed'
  BY NAssumption, PAssumption DEF IInv, Typed, PhaseInv, QueueInv, WorkerInv, ReplyInv, Outcome, Message, WorkerInit, Post, Running
<1>2. PhaseInv'
  BY NAssumption, PAssumption DEF IInv, Typed, PhaseInv, QueueInv, WorkerInit, Post, Running
<1>3. QueueInv'
  BY NAssumption, PAssumption DEF IInv, Typed, PhaseInv, QueueInv, WorkerInv, WorkerInit, Post, Running
<1>4. WorkerInv'
  BY NAssumption, PAssumption DEF IInv, Typed, PhaseInv, WorkerInv, WorkerInit, Post, Running
<1>5. ReplyInv'
  BY NAssumption, PAssumption DEF IInv, Typed, PhaseInv, QueueInv, WorkerInv, ReplyInv, Message, WorkerInit, Post, Running
<1>6. OwnReply'
  BY NAssumption, PAssumption DEF IInv, Typed, QueueInv, ReplyInv, OwnReply, WorkerInit, Post, Running
<1> QED BY <1>1, <1>2, <1>3, <1>4, <1>5, <1>6 DEF IInv

LEMMA WorkerReplyStep ==
    ASSUME IInv, NEW s \in Slots, WorkerReply(s)
    PROVE  IInv'
<1>1. Typed'
  BY NAssumption, PAssumption DEF IInv, Typed, PhaseInv, QueueInv, WorkerInv, ReplyInv, Outcome, Message, WorkerReply, Post, Running
<1>2. PhaseInv'
  BY NAssumption, PAssumption DEF IInv, Typed, PhaseInv, QueueInv, WorkerReply, Post, Running
<1>3. QueueInv'
  BY NAssumption, PAssumption DEF IInv, Typed, PhaseInv, QueueInv, WorkerInv, WorkerReply, Post, Running
<1>4. WorkerInv'
  BY NAssumption, PAssumption DEF IInv, Typed, PhaseInv, WorkerInv, WorkerReply, Post, Running
<1>5. ReplyInv'
  BY NAssumption, PAssumption DEF IInv, Typed, PhaseInv, QueueInv, WorkerInv, ReplyInv, Message, WorkerReply, Post, Running
<1>6. OwnReply'
  BY NAssumption, PAssumption DEF IInv, Typed, QueueInv, ReplyInv, OwnReply, WorkerReply, Post, Running
<1> QED BY <1>1, <1>2, <1>3, <1>4, <1>5, <1>6 DEF IInv

LEMMA WorkerCrashStep ==
    ASSUME IInv, NEW s \in Slots, WorkerCrash(s)
    PROVE  IInv'
<1>1. Typed'
  BY NAssumption, PAssumption DEF IInv, Typed, PhaseInv, QueueInv, WorkerInv, ReplyInv, Outcome, Message, WorkerCrash, Post, Running
<1>2. PhaseInv'
  BY NAssumption, PAssumption DEF IInv, Typed, PhaseInv, QueueInv, WorkerCrash, Post, Running
<1>3. QueueInv'
  BY NAssumption, PAssumption DEF IInv, Typed, PhaseInv, QueueInv, WorkerInv, WorkerCrash, Post, Running
<1>4. WorkerInv'
  BY NAssumption, PAssumption DEF IInv, Typed, PhaseInv, WorkerInv, WorkerCrash, Post, Running
<1>5. ReplyInv'
  BY NAssumption, PAssumption DEF IInv, Typed, PhaseInv, QueueInv, WorkerInv, ReplyInv, Message, WorkerCrash, Post, Running
<1>6. OwnReply'
  BY NAssumption, PAssumption DEF IInv, Typed, QueueInv, ReplyInv, OwnReply, WorkerCrash, Post, Running
<1> QED BY <1>1, <1>2, <1>3, <1>4, <1>5, <1>6 DEF IInv

LEMMA SpawnReadyStep ==
    ASSUME IInv, NEW s \in Slots, SpawnReady(s)
    PROVE  IInv'
<1>m. mail' \subseteq mail
  BY DEF SpawnReady, Heard
<1>0. /\ phase \in {"init", "initFailed"} /\ nextCase = 1 /\ pc[s] = "spawn"
      /\ UNCHANGED <<nature, worker, mode, alive, spawned, claim, nextCase, outcomes>>
      /\ \A t \in Slots : pc[t] \in {"spawn", "ready", "rejected"}
  BY DEF IInv, Typed, PhaseInv, SpawnReady
<1>a. \/ /\ \A t \in Slots : pc[t] # "rejected" /\ worker[t] # NoWorker
         /\ pc' = [t \in Slots |-> "loop"] /\ phase' = "driving"
      \/ pc' = [pc EXCEPT ![s] = "ready"] /\ phase' = phase
  BY DEF IInv, Typed, WorkerInv, SpawnReady
<1>b. \A t \in Slots : pc'[t] \in {"spawn", "ready", "rejected", "loop"}
  BY <1>0, <1>a DEF IInv, Typed
<1>1. Typed'
  BY <1>m, <1>0, <1>a DEF IInv, Typed
<1>2. PhaseInv'
  BY <1>0, <1>a DEF IInv, Typed, PhaseInv
<1>3. QueueInv'
  <2>1. \A t \in Slots : ~(pc'[t] = "loop" /\ worker'[t] = NoWorker)
    BY <1>0, <1>a DEF IInv, Typed
  <2> QED BY <1>0, <1>b, <2>1 DEF IInv, Typed, QueueInv
<1>4. WorkerInv'
  <2>1. \A t \in Slots : pc'[t] \in {"spawn", "ready"} => pc[t] \in {"spawn", "ready"}
    BY <1>0, <1>a DEF IInv, Typed
  <2> QED BY <1>0, <1>b, <2>1 DEF IInv, WorkerInv
<1>5. ReplyInv'
  BY <1>m, <1>0, <1>b DEF IInv, Typed, ReplyInv
<1>6. OwnReply'
  BY <1>0 DEF IInv, OwnReply
<1> QED BY <1>1, <1>2, <1>3, <1>4, <1>5, <1>6 DEF IInv

LEMMA SpawnRejectStep ==
    ASSUME IInv, NEW s \in Slots, SpawnReject(s)
    PROVE  IInv'
<1>1. Typed'
  BY NAssumption, PAssumption DEF IInv, Typed, PhaseInv, QueueInv, WorkerInv, ReplyInv, Outcome, SpawnReject, HandshakeFails, Heard
<1>2. PhaseInv'
  BY NAssumption, PAssumption DEF IInv, Typed, PhaseInv, QueueInv, SpawnReject, HandshakeFails, Heard
<1>3. QueueInv'
  BY NAssumption, PAssumption DEF IInv, Typed, PhaseInv, QueueInv, WorkerInv, SpawnReject, HandshakeFails, Heard
<1>4. WorkerInv'
  BY NAssumption, PAssumption DEF IInv, Typed, PhaseInv, WorkerInv, SpawnReject, HandshakeFails, Heard
<1>5. ReplyInv'
  BY NAssumption, PAssumption DEF IInv, Typed, PhaseInv, QueueInv, WorkerInv, ReplyInv, SpawnReject, HandshakeFails, Heard
<1>6. OwnReply'
  BY NAssumption, PAssumption DEF IInv, Typed, QueueInv, ReplyInv, OwnReply, SpawnReject, HandshakeFails, Heard
<1> QED BY <1>1, <1>2, <1>3, <1>4, <1>5, <1>6 DEF IInv

LEMMA ClaimStep ==
    ASSUME IInv, NEW s \in Slots, Claim(s)
    PROVE  IInv'
<1>0. /\ phase = "driving" /\ pc[s] = "loop" /\ worker[s] # NoWorker
      /\ nextCase \in Nat /\ nextCase' = nextCase + 1 /\ N \in Nat
      /\ UNCHANGED <<nature, phase, spawned, mail>>
  BY NAssumption DEF IInv, Typed, PhaseInv, Claim, ClaimEnding
<1>1. CASE nextCase > N
  <2>0. /\ alive' = alive \ {worker[s]}
        /\ worker' = [worker EXCEPT ![s] = NoWorker]
        /\ pc' = [pc EXCEPT ![s] = "done"]
        /\ UNCHANGED <<mode, claim, outcomes>>
    BY <1>0, <1>1 DEF Claim, ClaimEnding, Record
  <2>1. Typed'
    <3>2. /\ pc' \in [Slots -> {"spawn", "ready", "rejected", "loop", "await",
                               "respawn", "done"}]
          /\ mode' \in [Slots -> {"starting", "idle", "running", "dead"}]
      BY <1>0, <1>1, <2>0, NAssumption, PAssumption DEF IInv, Typed
    <3>3. /\ worker' \in [Slots -> Nat] /\ alive' \subseteq Nat
          /\ claim' \in [Slots -> Cases \cup {NoCase}]
      BY <1>0, <1>1, <2>0, NAssumption, PAssumption DEF IInv, Typed
    <3>4. outcomes' \in [Cases -> Outcome \cup {Ungraded}]
      BY <1>0, <1>1, <2>0, NAssumption, PAssumption DEF IInv, Typed
    <3>5. /\ nature' \in [Cases -> Natures] /\ spawned' \in Nat /\ nextCase' \in Nat
          /\ phase' \in {"init", "driving", "initFailed", "graded"} /\ mail' \subseteq Message
      BY <1>0, <1>1, <2>0, NAssumption, PAssumption DEF IInv, Typed
    <3> QED BY <3>2, <3>3, <3>4, <3>5 DEF Typed
  <2>2. PhaseInv'
    BY <1>0, <1>1, <2>0, NAssumption, PAssumption DEF IInv, Typed, PhaseInv, QueueInv
  <2>3. QueueInv'
    BY <1>0, <1>1, <2>0, NAssumption, PAssumption DEF IInv, Typed, PhaseInv, QueueInv, WorkerInv
  <2>4. WorkerInv'
    BY <1>0, <1>1, <2>0, NAssumption, PAssumption DEF IInv, Typed, PhaseInv, WorkerInv
  <2>5. ReplyInv'
    BY <1>0, <1>1, <2>0, NAssumption, PAssumption DEF IInv, Typed, PhaseInv, QueueInv, WorkerInv, ReplyInv
  <2>6. OwnReply'
    BY <1>0, <1>1, <2>0, NAssumption, PAssumption DEF IInv, Typed, QueueInv, ReplyInv, OwnReply
  <2> QED BY <2>1, <2>2, <2>3, <2>4, <2>5, <2>6 DEF IInv
<1>2. CASE nextCase <= N /\ nature[nextCase] = "unreadable"
  <2>0. /\ outcomes' = [outcomes EXCEPT ![nextCase] = [verdict |-> "throw", cause |-> "decode"]]
        /\ UNCHANGED <<pc, worker, mode, alive, claim>>
    BY <1>0, <1>2 DEF Claim, ClaimEnding, Record
  <2>1. Typed'
    <3>1. [verdict |-> "throw", cause |-> "decode"] \in Outcome
      BY DEF Outcome
    <3>2. /\ pc' \in [Slots -> {"spawn", "ready", "rejected", "loop", "await",
                               "respawn", "done"}]
          /\ mode' \in [Slots -> {"starting", "idle", "running", "dead"}]
      BY <1>0, <1>2, <2>0, <3>1, NAssumption, PAssumption DEF IInv, Typed
    <3>3. /\ worker' \in [Slots -> Nat] /\ alive' \subseteq Nat
          /\ claim' \in [Slots -> Cases \cup {NoCase}]
      BY <1>0, <1>2, <2>0, <3>1, NAssumption, PAssumption DEF IInv, Typed
    <3>4. outcomes' \in [Cases -> Outcome \cup {Ungraded}]
      BY <1>0, <1>2, <2>0, <3>1, NAssumption, PAssumption DEF IInv, Typed
    <3>5. /\ nature' \in [Cases -> Natures] /\ spawned' \in Nat /\ nextCase' \in Nat
          /\ phase' \in {"init", "driving", "initFailed", "graded"} /\ mail' \subseteq Message
      BY <1>0, <1>2, <2>0, <3>1, NAssumption, PAssumption DEF IInv, Typed
    <3> QED BY <3>2, <3>3, <3>4, <3>5 DEF Typed
  <2>2. PhaseInv'
    BY <1>0, <1>2, <2>0, NAssumption, PAssumption DEF IInv, Typed, PhaseInv, QueueInv
  <2>3. QueueInv'
    BY <1>0, <1>2, <2>0, NAssumption, PAssumption DEF IInv, Typed, PhaseInv, QueueInv, WorkerInv
  <2>4. WorkerInv'
    BY <1>0, <1>2, <2>0, NAssumption, PAssumption DEF IInv, Typed, PhaseInv, WorkerInv
  <2>5. ReplyInv'
    BY <1>0, <1>2, <2>0, NAssumption, PAssumption DEF IInv, Typed, PhaseInv, QueueInv, WorkerInv, ReplyInv
  <2>6. OwnReply'
    BY <1>0, <1>2, <2>0, NAssumption, PAssumption DEF IInv, Typed, QueueInv, ReplyInv, OwnReply
  <2> QED BY <2>1, <2>2, <2>3, <2>4, <2>5, <2>6 DEF IInv
<1>3. CASE nextCase <= N /\ nature[nextCase] # "unreadable"
  <2>0. /\ claim' = [claim EXCEPT ![s] = nextCase]
        /\ pc' = [pc EXCEPT ![s] = "await"]
        /\ mode' = [mode EXCEPT ![s] = IF @ = "idle" THEN "running" ELSE @]
        /\ UNCHANGED <<worker, alive, outcomes>>
    BY <1>0, <1>3 DEF Claim, ClaimEnding, Record
  <2>1. Typed'
    BY <1>0, <1>3, <2>0, NAssumption, PAssumption DEF IInv, Typed, WorkerInv, Outcome
  <2>2. PhaseInv'
    BY <1>0, <1>3, <2>0, NAssumption, PAssumption DEF IInv, Typed, PhaseInv, QueueInv
  <2>3. QueueInv'
    BY <1>0, <1>3, <2>0, NAssumption, PAssumption DEF IInv, Typed, PhaseInv, QueueInv, WorkerInv
  <2>4. WorkerInv'
    BY <1>0, <1>3, <2>0, NAssumption, PAssumption DEF IInv, Typed, PhaseInv, WorkerInv
  <2>5. ReplyInv'
    BY <1>0, <1>3, <2>0, NAssumption, PAssumption DEF IInv, Typed, PhaseInv, QueueInv, WorkerInv, ReplyInv
  <2>6. OwnReply'
    BY <1>0, <1>3, <2>0, NAssumption, PAssumption DEF IInv, Typed, QueueInv, ReplyInv, OwnReply
  <2> QED BY <2>1, <2>2, <2>3, <2>4, <2>5, <2>6 DEF IInv
<1> QED BY <1>0, <1>1, <1>2, <1>3

LEMMA LeaveWithoutWorkerStep ==
    ASSUME IInv, NEW s \in Slots, LeaveWithoutWorker(s)
    PROVE  IInv'
<1>1. Typed'
  BY NAssumption, PAssumption DEF IInv, Typed, PhaseInv, QueueInv, WorkerInv, ReplyInv, Outcome, LeaveWithoutWorker
<1>2. PhaseInv'
  BY NAssumption, PAssumption DEF IInv, Typed, PhaseInv, QueueInv, LeaveWithoutWorker
<1>3. QueueInv'
  BY NAssumption, PAssumption DEF IInv, Typed, PhaseInv, QueueInv, WorkerInv, LeaveWithoutWorker
<1>4. WorkerInv'
  BY NAssumption, PAssumption DEF IInv, Typed, PhaseInv, WorkerInv, LeaveWithoutWorker
<1>5. ReplyInv'
  BY NAssumption, PAssumption DEF IInv, Typed, PhaseInv, QueueInv, WorkerInv, ReplyInv, LeaveWithoutWorker
<1>6. OwnReply'
  BY NAssumption, PAssumption DEF IInv, Typed, QueueInv, ReplyInv, OwnReply, LeaveWithoutWorker
<1> QED BY <1>1, <1>2, <1>3, <1>4, <1>5, <1>6 DEF IInv

LEMMA ReplyStep ==
    ASSUME IInv, NEW s \in Slots, Reply(s)
    PROVE  IInv'
<1>1. Typed'
  BY NAssumption, PAssumption DEF IInv, Typed, PhaseInv, QueueInv, WorkerInv, ReplyInv, Outcome, Reply, ReplyPassing, Heard, Record
<1>2. PhaseInv'
  BY NAssumption, PAssumption DEF IInv, Typed, PhaseInv, QueueInv, Reply, ReplyPassing, Heard, Record
<1>3. QueueInv'
  BY NAssumption, PAssumption DEF IInv, Typed, PhaseInv, QueueInv, WorkerInv, Reply, ReplyPassing, Heard, Record
<1>4. WorkerInv'
  BY NAssumption, PAssumption DEF IInv, Typed, PhaseInv, WorkerInv, Reply, ReplyPassing, Heard, Record
<1>5. ReplyInv'
  BY NAssumption, PAssumption DEF IInv, Typed, PhaseInv, QueueInv, WorkerInv, ReplyInv, Reply, ReplyPassing, Heard, Record
<1>6. OwnReply'
  BY NAssumption, PAssumption DEF IInv, Typed, QueueInv, ReplyInv, OwnReply, Reply, ReplyPassing, Heard, Record
<1> QED BY <1>1, <1>2, <1>3, <1>4, <1>5, <1>6 DEF IInv

\* A timeout and a crash end the same way: the case is graded and the worker
\* replaced or given up.
LEMMA LoseWorker ==
    ASSUME IInv, NEW s \in Slots, pc[s] = "await",
           NEW o \in Outcome, Record(claim[s], o), o.verdict # "pass",
           o.cause \in {"timeout", "crash"},
           Replace(s), mail' \subseteq mail
    PROVE  IInv'
<1>0. /\ phase = "driving"
      /\ nextCase \in Nat /\ N \in Nat /\ spawned \in Nat
      /\ claim[s] \in Cases /\ outcomes[claim[s]] = Ungraded
      /\ claim' = [claim EXCEPT ![s] = NoCase]
      /\ outcomes' = [outcomes EXCEPT ![claim[s]] = o]
      /\ o # Ungraded
      /\ UNCHANGED <<nature, phase, nextCase>>
  BY NAssumption DEF IInv, Typed, PhaseInv, QueueInv, Replace, ReplaceEnding, Record, Outcome
<1>1. CASE nextCase <= N
  <2>0. /\ spawned' = spawned + 1
        /\ worker' = [worker EXCEPT ![s] = spawned + 1]
        /\ mode' = [mode EXCEPT ![s] = "starting"]
        /\ alive' = (alive \ {worker[s]}) \cup {spawned + 1}
        /\ pc' = [pc EXCEPT ![s] = "respawn"]
    BY <1>0, <1>1 DEF Replace, ReplaceEnding
  <2>1. Typed'
    <3>2. /\ pc' \in [Slots -> {"spawn", "ready", "rejected", "loop", "await",
                               "respawn", "done"}]
          /\ mode' \in [Slots -> {"starting", "idle", "running", "dead"}]
      BY <1>0, <1>1, <2>0, NAssumption, PAssumption DEF IInv, Typed
    <3>1. spawned + 1 \in Nat /\ worker \in [Slots -> Nat] /\ alive \subseteq Nat
      BY <1>0 DEF IInv, Typed
    <3>3. worker' \in [Slots -> Nat]
      BY <2>0, <3>1
    <3>6. alive' \subseteq Nat
      BY <2>0, <3>1
    <3>7. claim' \in [Slots -> Cases \cup {NoCase}]
      BY <1>0, <2>0 DEF IInv, Typed
    <3>4. outcomes' \in [Cases -> Outcome \cup {Ungraded}]
      BY <1>0 DEF IInv, Typed
    <3>5. /\ nature' \in [Cases -> Natures] /\ spawned' \in Nat /\ nextCase' \in Nat
          /\ phase' \in {"init", "driving", "initFailed", "graded"} /\ mail' \subseteq Message
      BY <1>0, <1>1, <2>0, NAssumption, PAssumption DEF IInv, Typed
    <3> QED BY <3>2, <3>3, <3>4, <3>5, <3>6, <3>7 DEF Typed
  <2>2. PhaseInv'
    BY <1>0, <1>1, <2>0, NAssumption, PAssumption DEF IInv, Typed, PhaseInv, QueueInv
  <2>3. QueueInv'
    BY <1>0, <1>1, <2>0, NAssumption, PAssumption DEF IInv, Typed, PhaseInv, QueueInv, WorkerInv
  <2>4. WorkerInv'
    BY <1>0, <1>1, <2>0, NAssumption, PAssumption DEF IInv, Typed, PhaseInv, WorkerInv
  <2>5. ReplyInv'
    BY <1>0, <1>1, <2>0, NAssumption, PAssumption DEF IInv, Typed, PhaseInv, QueueInv, WorkerInv, ReplyInv
  <2>6. OwnReply'
    BY <1>0, <1>1, <2>0, NAssumption, PAssumption DEF IInv, Typed, QueueInv, ReplyInv, OwnReply
  <2> QED BY <2>1, <2>2, <2>3, <2>4, <2>5, <2>6 DEF IInv
<1>2. CASE nextCase > N
  <2>0. /\ alive' = alive \ {worker[s]}
        /\ worker' = [worker EXCEPT ![s] = NoWorker]
        /\ pc' = [pc EXCEPT ![s] = "loop"]
        /\ UNCHANGED <<spawned, mode>>
    BY <1>0, <1>2 DEF Replace, ReplaceEnding
  <2>1. Typed'
    BY <1>0, <1>2, <2>0, NAssumption, PAssumption DEF IInv, Typed, WorkerInv, Outcome
  <2>2. PhaseInv'
    BY <1>0, <1>2, <2>0, NAssumption, PAssumption DEF IInv, Typed, PhaseInv, QueueInv
  <2>3. QueueInv'
    BY <1>0, <1>2, <2>0, NAssumption, PAssumption DEF IInv, Typed, PhaseInv, QueueInv, WorkerInv
  <2>4. WorkerInv'
    BY <1>0, <1>2, <2>0, NAssumption, PAssumption DEF IInv, Typed, PhaseInv, WorkerInv
  <2>5. ReplyInv'
    BY <1>0, <1>2, <2>0, NAssumption, PAssumption DEF IInv, Typed, PhaseInv, QueueInv, WorkerInv, ReplyInv
  <2>6. OwnReply'
    BY <1>0, <1>2, <2>0, NAssumption, PAssumption DEF IInv, Typed, QueueInv, ReplyInv, OwnReply
  <2> QED BY <2>1, <2>2, <2>3, <2>4, <2>5, <2>6 DEF IInv
<1> QED BY <1>0, <1>1, <1>2

LEMMA TimeoutStep ==
    ASSUME IInv, NEW s \in Slots, Timeout(s)
    PROVE  IInv'
BY LoseWorker DEF Timeout, Outcome

LEMMA CrashStep ==
    ASSUME IInv, NEW s \in Slots, Crash(s)
    PROVE  IInv'
<1>1. mail' \subseteq mail
  BY DEF Crash, Heard
<1> QED BY <1>1, LoseWorker DEF Crash, Outcome

LEMMA RespawnReadyStep ==
    ASSUME IInv, NEW s \in Slots, RespawnReady(s)
    PROVE  IInv'
<1>1. Typed'
  BY NAssumption, PAssumption DEF IInv, Typed, PhaseInv, QueueInv, WorkerInv, ReplyInv, Outcome, RespawnReady, Heard
<1>2. PhaseInv'
  BY NAssumption, PAssumption DEF IInv, Typed, PhaseInv, QueueInv, RespawnReady, Heard
<1>3. QueueInv'
  BY NAssumption, PAssumption DEF IInv, Typed, PhaseInv, QueueInv, WorkerInv, RespawnReady, Heard
<1>4. WorkerInv'
  BY NAssumption, PAssumption DEF IInv, Typed, PhaseInv, WorkerInv, RespawnReady, Heard
<1>5. ReplyInv'
  BY NAssumption, PAssumption DEF IInv, Typed, PhaseInv, QueueInv, WorkerInv, ReplyInv, RespawnReady, Heard
<1>6. OwnReply'
  BY NAssumption, PAssumption DEF IInv, Typed, QueueInv, ReplyInv, OwnReply, RespawnReady, Heard
<1> QED BY <1>1, <1>2, <1>3, <1>4, <1>5, <1>6 DEF IInv

LEMMA RespawnFailStep ==
    ASSUME IInv, NEW s \in Slots, RespawnFail(s)
    PROVE  IInv'
<1> DEFINE drained == [verdict |-> "throw", cause |-> "respawn"]
<1>0. /\ phase = "driving" /\ pc[s] = "respawn"
      /\ nextCase \in Nat /\ N \in Nat /\ spawned \in Nat
      /\ mail' \subseteq mail
      /\ alive' = alive \ {worker[s]}
      /\ worker' = [worker EXCEPT ![s] = NoWorker]
      /\ outcomes' = [c \in Cases |-> IF c >= nextCase THEN drained ELSE outcomes[c]]
      /\ nextCase' >= nextCase /\ nextCase' > N /\ nextCase' \in Nat
      /\ pc' = [pc EXCEPT ![s] = "done"]
      /\ UNCHANGED <<nature, phase, mode, spawned, claim>>
  <2>1. phase = "driving" /\ pc[s] = "respawn" /\ nextCase \in Nat /\ N \in Nat /\ spawned \in Nat
    BY NAssumption DEF IInv, Typed, PhaseInv, RespawnFail, DrainFrom
  <2>2. mail' \subseteq mail
    BY DEF RespawnFail, DrainFrom, HandshakeFails, Heard
  <2> QED BY <2>1, <2>2 DEF RespawnFail, DrainFrom
<1> HIDE DEF drained
<1>a. drained \in Outcome /\ drained # Ungraded /\ drained.verdict # "pass" /\ drained.cause = "respawn"
  BY DEF drained, Outcome
<1>1. Typed'
  BY <1>0, <1>a, NAssumption, PAssumption DEF IInv, Typed, WorkerInv, Outcome
<1>2. PhaseInv'
  BY <1>0, <1>a, NAssumption, PAssumption DEF IInv, Typed, PhaseInv, QueueInv
<1>3. QueueInv'
  BY <1>0, <1>a, NAssumption, PAssumption DEF IInv, Typed, PhaseInv, QueueInv, WorkerInv
<1>4. WorkerInv'
  BY <1>0, <1>a, NAssumption, PAssumption DEF IInv, Typed, PhaseInv, WorkerInv
<1>5. ReplyInv'
  BY <1>0, <1>a, NAssumption, PAssumption DEF IInv, Typed, PhaseInv, QueueInv, WorkerInv, ReplyInv
<1>6. OwnReply'
  BY <1>0, <1>a, NAssumption, PAssumption DEF IInv, Typed, QueueInv, ReplyInv, OwnReply
<1> QED BY <1>1, <1>2, <1>3, <1>4, <1>5, <1>6 DEF IInv

LEMMA DropStep ==
    ASSUME IInv, NEW m \in mail, Drop(m)
    PROVE  IInv'
<1>1. /\ mail' \subseteq mail
      /\ UNCHANGED <<nature, phase, pc, worker, mode, alive, spawned, claim,
                     nextCase, outcomes>>
  BY DEF Drop
<1> QED BY <1>1 DEF IInv, Typed, PhaseInv, QueueInv, WorkerInv, ReplyInv, OwnReply

LEMMA FinishStep ==
    ASSUME IInv, Finish
    PROVE  IInv'
BY DEF IInv, Typed, PhaseInv, QueueInv, WorkerInv, ReplyInv, OwnReply, Finish

LEMMA StepIInv == IInv /\ [Next]_vars => IInv'
<1> SUFFICES ASSUME IInv, [Next]_vars PROVE IInv'
  OBVIOUS
<1>1. ASSUME NEW s \in Slots, WorkerStep(s) PROVE IInv'
  BY <1>1, WorkerInitStep, WorkerReplyStep, WorkerCrashStep DEF WorkerStep
<1>2. ASSUME NEW s \in Slots, SpawnSettles(s) PROVE IInv'
  BY <1>2, SpawnReadyStep, SpawnRejectStep DEF SpawnSettles
<1>3. ASSUME NEW s \in Slots, DriveStep(s) PROVE IInv'
  BY <1>3, ClaimStep, LeaveWithoutWorkerStep DEF DriveStep
<1>4. ASSUME NEW s \in Slots, CaseSettles(s) PROVE IInv'
  BY <1>4, ReplyStep, TimeoutStep, CrashStep DEF CaseSettles
<1>5. ASSUME NEW s \in Slots, RespawnSettles(s) PROVE IInv'
  BY <1>5, RespawnReadyStep, RespawnFailStep DEF RespawnSettles
<1>6. CASE UNCHANGED vars
  BY <1>6 DEF vars, IInv, Typed, PhaseInv, QueueInv, WorkerInv, ReplyInv, OwnReply
<1> QED BY <1>1, <1>2, <1>3, <1>4, <1>5, <1>6, DropStep, FinishStep DEF Next

\* The inductive invariant holds in every reachable state.
THEOREM Invariance == Spec => []IInv
BY InitIInv, StepIInv, PTL DEF Spec

-----------------------------------------------------------------------------
(* What follows from it.                                                   *)

\* Past the end of the queue every further index belongs to a slot that has
\* left its drive: the count of these slots bounds the overshoot.
Left == {s \in Slots : pc[s] = "done"}
Overshoot == nextCase <= N + 1 + Cardinality(Left)

LEMMA LeftIsFinite ==
    /\ IsFiniteSet(Slots) /\ Cardinality(Slots) = P
    /\ IsFiniteSet(Left) /\ IsFiniteSet(Left')
    /\ Cardinality(Left) \in 0..P /\ Cardinality(Left') \in 0..P
<1>1. IsFiniteSet(Slots) /\ Cardinality(Slots) = P
  BY PAssumption, FS_Interval
<1>2. Left \in SUBSET Slots /\ Left' \in SUBSET Slots
  BY DEF Left
<1>3. IsFiniteSet(Left) /\ IsFiniteSet(Left')
  BY <1>1, <1>2, FS_Subset
<1>4. ASSUME NEW T, T \in SUBSET Slots PROVE Cardinality(T) <= P
  <2>1. Cardinality(T) <= Cardinality(Slots)
    BY <1>1, <1>4, FS_Subset
  <2> QED
    BY <1>1, <2>1
<1>5. Cardinality(Left) \in Nat /\ Cardinality(Left') \in Nat
  BY <1>3, FS_CardinalityType
<1>6. Cardinality(Left) <= P /\ Cardinality(Left') <= P
  BY <1>2, <1>4
<1> QED
  BY <1>1, <1>3, <1>5, <1>6, PAssumption

\* No slot comes back to its drive, and an index past the end is the last one
\* that a slot takes.
LEMMA OvershootStep == IInv /\ Overshoot /\ [Next]_vars => Overshoot'
<1> SUFFICES ASSUME IInv, Overshoot, [Next]_vars PROVE Overshoot'
  OBVIOUS
<1>0. /\ nextCase \in Nat /\ N \in Nat
      /\ pc \in [Slots -> {"spawn", "ready", "rejected", "loop", "await", "respawn", "done"}]
  BY NAssumption DEF IInv, Typed
<1>1. Cardinality(Left) \in Nat /\ Cardinality(Left') \in Nat
  BY LeftIsFinite
<1>2. ASSUME Left \subseteq Left', nextCase' = nextCase PROVE Overshoot'
  <2>1. Cardinality(Left) <= Cardinality(Left')
    BY <1>2, LeftIsFinite, FS_Subset
  <2> QED
    BY <1>0, <1>1, <1>2, <2>1 DEF Overshoot
<1>3. ASSUME nextCase' \in Nat, nextCase' <= N + 1 PROVE Overshoot'
  BY <1>0, <1>1, <1>3 DEF Overshoot
<1>4. ASSUME nextCase' = nextCase,
             \/ pc' = pc
             \/ \E s \in Slots : pc[s] # "done" /\ \E l : pc' = [pc EXCEPT ![s] = l]
      PROVE  Overshoot'
  <2>1. Left \subseteq Left'
    BY <1>0, <1>4 DEF Left
  <2> QED
    BY <1>2, <1>4, <2>1
<1>5. ASSUME NEW s \in Slots, WorkerStep(s) PROVE Overshoot'
  BY <1>4, <1>5 DEF WorkerStep, WorkerInit, WorkerReply, WorkerCrash, Post
<1>6. ASSUME NEW s \in Slots, SpawnSettles(s) PROVE Overshoot'
  <2>1. nextCase' = nextCase /\ pc[s] = "spawn"
    BY <1>6 DEF SpawnSettles, SpawnReady, SpawnReject
  <2>2. phase \in {"init", "initFailed"}
    BY <2>1 DEF IInv, Typed, PhaseInv
  <2>3. nextCase' = 1
    BY <2>1, <2>2 DEF IInv, PhaseInv
  <2> QED
    BY <1>0, <1>3, <2>3
<1>7. ASSUME NEW s \in Slots, Claim(s) PROVE Overshoot'
  <2>0. nextCase' = nextCase + 1 /\ pc[s] = "loop"
    BY <1>7 DEF Claim, ClaimEnding
  <2>1. CASE nextCase <= N
    BY <1>0, <1>3, <2>0, <2>1
  <2>2. CASE nextCase > N
    <3>1. pc' = [pc EXCEPT ![s] = "done"]
      BY <1>0, <1>7, <2>2 DEF Claim, ClaimEnding
    <3>2. Left' = Left \cup {s} /\ s \notin Left
      BY <1>0, <2>0, <3>1 DEF Left
    <3>3. Cardinality(Left') = Cardinality(Left) + 1
      BY <3>2, LeftIsFinite, FS_AddElement
    <3> QED
      BY <1>0, <1>1, <2>0, <3>3 DEF Overshoot
  <2> QED
    BY <1>0, <2>1, <2>2
<1>8. ASSUME NEW s \in Slots, LeaveWithoutWorker(s) PROVE Overshoot'
  BY <1>4, <1>8 DEF LeaveWithoutWorker
<1>9. ASSUME NEW s \in Slots, CaseSettles(s) PROVE Overshoot'
  BY <1>4, <1>9 DEF CaseSettles, Reply, ReplyPassing, Timeout, Crash, Replace, ReplaceEnding
<1>10. ASSUME NEW s \in Slots, RespawnReady(s) PROVE Overshoot'
  BY <1>4, <1>10 DEF RespawnReady
<1>11. ASSUME NEW s \in Slots, RespawnFail(s) PROVE Overshoot'
  <2>1. CASE nextCase <= N
    BY <1>0, <1>3, <1>11, <2>1 DEF RespawnFail, DrainFrom
  <2>2. CASE ~(nextCase <= N)
    BY <1>4, <1>11, <2>2 DEF RespawnFail, DrainFrom
  <2> QED
    BY <2>1, <2>2
<1>12. CASE Finish \/ (\E m \in mail : Drop(m)) \/ UNCHANGED vars
  BY <1>4, <1>12 DEF Finish, Drop, vars
<1> QED
  BY <1>5, <1>6, <1>7, <1>8, <1>9, <1>10, <1>11, <1>12 DEF Next, DriveStep, RespawnSettles

\* Type correctness of the pool, for any number of cases and workers, with the
\* queue index at most one past the end and one more per slot.
THEOREM TypeCorrect == Spec => []TypeOK
<1>1. Init => Overshoot
  BY LeftIsFinite, NAssumption DEF Init, Overshoot
<1>2. IInv /\ Overshoot => TypeOK
  <2> SUFFICES ASSUME IInv, Overshoot PROVE TypeOK
    OBVIOUS
  <2>1. nextCase \in 1..(N + 1 + P)
    BY LeftIsFinite, NAssumption, PAssumption DEF IInv, Typed, QueueInv, Overshoot
  <2> QED
    BY <2>1 DEF IInv, Typed, TypeOK
<1> QED BY <1>1, <1>2, OvershootStep, Invariance, PTL DEF Spec

\* The shared queue never loses a case and never gives one to two slots.
THEOREM QueueSafe == Spec => []QueueAccounted
<1>1. ASSUME IInv PROVE QueueAccounted
  <2> SUFFICES ASSUME NEW c \in Cases
               PROVE  IF c < nextCase
                      THEN \/ outcomes[c] # Ungraded /\ InFlight(c) = {}
                           \/ outcomes[c] = Ungraded /\ \E s \in Slots : InFlight(c) = {s}
                      ELSE outcomes[c] = Ungraded /\ InFlight(c) = {}
    BY DEF QueueAccounted
  <2>1. \A s \in Slots : s \in InFlight(c) => outcomes[c] = Ungraded /\ c < nextCase
    BY <1>1 DEF InFlight, IInv, QueueInv
  <2>2. \A s, t \in InFlight(c) : s = t
    BY <1>1 DEF InFlight, IInv, QueueInv
  <2>3. InFlight(c) \subseteq Slots
    BY DEF InFlight
  <2>4. CASE c < nextCase
    <3>1. outcomes[c] # Ungraded \/ \E s \in Slots : s \in InFlight(c)
      BY <1>1, <2>4 DEF InFlight, IInv, QueueInv
    <3> QED BY <2>1, <2>2, <2>3, <2>4, <3>1
  <2>5. CASE ~(c < nextCase)
    <3>1. outcomes[c] = Ungraded
      BY <1>1, <2>5, NAssumption DEF IInv, Typed, QueueInv
    <3> QED BY <2>1, <2>3, <2>5, <3>1
  <2> QED BY <2>4, <2>5
<1> QED BY <1>1, Invariance, PTL

\* A finished run has a verdict for every case.
THEOREM Complete == Spec => []NoHoles
<1>1. ASSUME IInv PROVE NoHoles
  <2> SUFFICES ASSUME phase = "graded", NEW c \in Cases PROVE outcomes[c] # Ungraded
    BY DEF NoHoles
  <2>1. 1 \in Slots
    BY PAssumption
  <2>2. \A s \in Slots : pc[s] = "done"
    BY <1>1 DEF IInv, PhaseInv
  <2>3. c < nextCase
    BY <1>1, <2>1, <2>2, NAssumption DEF IInv, Typed, QueueInv
  <2> QED BY <1>1, <2>2, <2>3 DEF IInv, QueueInv
<1> QED BY <1>1, Invariance, PTL

\* No case is credited with anything but the port's own reply to it.
THEOREM Honest == Spec => []OwnReply
<1>1. IInv => OwnReply
  BY DEF IInv
<1> QED BY <1>1, Invariance, PTL

\* Every running worker thread is held by exactly one slot of the pool.
THEOREM NoOrphan == Spec => []Owned
<1>1. IInv => Owned
  BY DEF IInv, WorkerInv, Owned
<1> QED BY <1>1, Invariance, PTL

\* A finished run leaves no worker thread behind.
THEOREM NoLeak == Spec => []AllTerminated
<1>1. IInv => AllTerminated
  BY DEF IInv, PhaseInv, WorkerInv, AllTerminated
<1> QED BY <1>1, Invariance, PTL

\* A recorded verdict is final: no step of any slot overwrites it.
THEOREM VerdictsAreFinal == Spec => VerdictFinal
<1>1. ASSUME IInv, [Next]_vars, NEW c \in Cases, outcomes[c] # Ungraded
      PROVE  outcomes'[c] = outcomes[c]
  <2>1. outcomes \in [Cases -> Outcome \cup {Ungraded}] /\ nextCase \in Nat /\ c < nextCase
    BY <1>1, NAssumption DEF IInv, Typed, QueueInv
  <2>2. ASSUME NEW s \in Slots, pc[s] = "await", NEW o, Record(claim[s], o)
        PROVE  outcomes'[c] = outcomes[c]
    BY <1>1, <2>1, <2>2 DEF IInv, QueueInv, Record
  <2>3. ASSUME NEW s \in Slots, WorkerStep(s) \/ SpawnSettles(s) \/ LeaveWithoutWorker(s)
                                 \/ RespawnReady(s)
        PROVE  outcomes'[c] = outcomes[c]
    BY <2>3 DEF WorkerStep, WorkerInit, WorkerReply, WorkerCrash, Post, SpawnSettles,
                SpawnReady, SpawnReject, LeaveWithoutWorker, RespawnReady
  <2>4. ASSUME NEW s \in Slots, Claim(s) PROVE outcomes'[c] = outcomes[c]
    BY <2>1, <2>4, NAssumption DEF Claim, ClaimEnding, Record
  <2>5. ASSUME NEW s \in Slots, CaseSettles(s) PROVE outcomes'[c] = outcomes[c]
    BY <2>2, <2>5 DEF CaseSettles, Reply, ReplyPassing, Timeout, Crash
  <2>6. ASSUME NEW s \in Slots, RespawnFail(s) PROVE outcomes'[c] = outcomes[c]
    BY <2>1, <2>6 DEF RespawnFail, DrainFrom
  <2>7. CASE Finish \/ (\E m \in mail : Drop(m)) \/ UNCHANGED vars
    BY <2>7 DEF Finish, Drop, vars
  <2> QED BY <1>1, <2>3, <2>4, <2>5, <2>6, <2>7 DEF Next, DriveStep, RespawnSettles
<1>2. IInv /\ [Next]_vars =>
        [\A c \in Cases : outcomes[c] # Ungraded => outcomes'[c] = outcomes[c]]_vars
  BY <1>1
<1> QED BY <1>2, Invariance, PTL DEF Spec, VerdictFinal

-----------------------------------------------------------------------------
(* The pool implements the abstract grading run, and spawns no more        *)
(* workers than its budget.  Both follow from IInv, which says of the case *)
(* a slot waits for that it has no outcome yet: a step that records an     *)
(* outcome judges an unjudged case, and one that loses a worker adds a     *)
(* case to those that cost one.                                            *)

\* An outcome is missing exactly when its verdict is.
LEMMA VerdictTells ==
    IInv => \A c \in Cases : outcomes[c].verdict = "none" <=> outcomes[c] = Ungraded
BY DEF IInv, Typed, Outcome

-----------------------------------------------------------------------------
(* What the steps do to the outcomes.                                      *)

Keeps == outcomes' = outcomes /\ nature' = nature

\* One case that had no outcome gets one.
Judges(c, o) ==
    /\ c \in Cases /\ outcomes[c] = Ungraded /\ o \in Outcome
    /\ o.verdict = "pass" => nature[c] = "right"
    /\ outcomes' = [outcomes EXCEPT ![c] = o]
    /\ UNCHANGED <<nature, phase>> /\ phase = "driving"

LEMMA ClaimJudges ==
    ASSUME IInv, NEW s \in Slots, Claim(s)
    PROVE  /\ spawned' = spawned
           /\ (Keeps /\ phase' = phase) \/ Judges(nextCase, Graded("throw", "decode"))
<1>1. /\ phase = "driving" /\ UNCHANGED <<nature, phase, spawned>>
      /\ nextCase \in Nat /\ nextCase >= 1 /\ N \in Nat
  BY NAssumption DEF IInv, Typed, PhaseInv, QueueInv, Claim, ClaimEnding
<1>2. CASE nextCase <= N /\ nature[nextCase] = "unreadable"
  <2>1. nextCase \in Cases /\ outcomes[nextCase] = Ungraded
    BY <1>1, <1>2 DEF IInv, QueueInv
  <2>2. Graded("throw", "decode") \in Outcome /\ Graded("throw", "decode").verdict # "pass"
    BY DEF Outcome
  <2>3. outcomes' = [outcomes EXCEPT ![nextCase] = Graded("throw", "decode")]
    BY <1>1, <1>2 DEF Claim, ClaimEnding, Record
  <2> QED
    BY <1>1, <2>1, <2>2, <2>3 DEF Judges
<1>3. CASE ~(nextCase <= N /\ nature[nextCase] = "unreadable")
  BY <1>1, <1>3 DEF Claim, ClaimEnding, Keeps
<1> QED
  BY <1>2, <1>3

LEMMA SettlingJudges ==
    ASSUME IInv, NEW s \in Slots, CaseSettles(s)
    PROVE  \E o \in Outcome :
               /\ Judges(claim[s], o)
               /\ o.cause = "reply" => spawned' = spawned
               /\ o.cause # "reply" => o.cause \in {"timeout", "crash"}
                                       /\ spawned' \in {spawned, spawned + 1}
<1>1. ASSUME pc[s] = "await"
      PROVE  phase = "driving" /\ claim[s] \in Cases /\ outcomes[claim[s]] = Ungraded
  BY <1>1 DEF IInv, Typed, PhaseInv, QueueInv
<1>2. CASE Reply(s)
  <2>1. PICK m \in Heard(s, {"result"}) :
           /\ m.case = claim[s]
           /\ Record(claim[s], Graded(IF nature[m.case] \in {"right"} THEN "pass" ELSE "throw", "reply"))
    BY <1>2 DEF Reply, ReplyPassing
  <2> DEFINE o == Graded(IF nature[claim[s]] = "right" THEN "pass" ELSE "throw", "reply")
  <2>2. o \in Outcome /\ o.cause = "reply" /\ (o.verdict = "pass" => nature[claim[s]] = "right")
    BY DEF Outcome
  <2>3. outcomes' = [outcomes EXCEPT ![claim[s]] = o]
    BY <2>1 DEF Record
  <2>4. pc[s] = "await" /\ UNCHANGED <<nature, phase, spawned>>
    BY <1>2 DEF Reply, ReplyPassing
  <2> HIDE DEF o
  <2> QED
    BY <1>1, <2>2, <2>3, <2>4 DEF Judges
<1>3. ASSUME NEW o \in Outcome, o.verdict # "pass", o.cause \in {"timeout", "crash"},
             pc[s] = "await", Record(claim[s], o), Replace(s)
      PROVE  /\ Judges(claim[s], o) /\ o.cause # "reply" /\ o.cause \in {"timeout", "crash"}
             /\ spawned' \in {spawned, spawned + 1}
  BY <1>1, <1>3 DEF Judges, Record, Replace, ReplaceEnding
<1>4. CASE Timeout(s)
  <2>1. Graded("infloop", "timeout") \in Outcome
    BY DEF Outcome
  <2> QED
    BY <1>3, <1>4, <2>1 DEF Timeout
<1>5. CASE Crash(s)
  <2>1. Graded("throw", "crash") \in Outcome
    BY DEF Outcome
  <2> QED
    BY <1>3, <1>5, <2>1 DEF Crash
<1> QED
  BY <1>2, <1>4, <1>5 DEF CaseSettles

LEMMA DrainWritesOff ==
    ASSUME IInv, NEW s \in Slots, RespawnFail(s)
    PROVE  /\ phase = "driving" /\ UNCHANGED <<nature, phase, spawned>>
           /\ \A c \in Cases : c >= nextCase => outcomes[c] = Ungraded
           /\ outcomes' = [c \in Cases |-> IF c >= nextCase THEN Graded("throw", "respawn")
                                           ELSE outcomes[c]]
<1>1. phase = "driving"
  BY DEF IInv, Typed, PhaseInv, RespawnFail, DrainFrom
<1>2. \A c \in Cases : c >= nextCase => outcomes[c] = Ungraded
  BY DEF IInv, QueueInv
<1> QED
  BY <1>1, <1>2 DEF RespawnFail, DrainFrom

\* The other steps leave the outcomes alone.
LEMMA QuietSteps ==
    ASSUME NEW s \in Slots,
           WorkerStep(s) \/ SpawnSettles(s) \/ LeaveWithoutWorker(s) \/ RespawnReady(s)
    PROVE  Keeps /\ spawned' = spawned
BY DEF WorkerStep, WorkerInit, WorkerReply, WorkerCrash, Post, SpawnSettles, SpawnReady,
       SpawnReject, LeaveWithoutWorker, RespawnReady, Keeps

-----------------------------------------------------------------------------
(* The budget.                                                             *)

LEMMA LostIsFinite == IsFiniteSet(Lost) /\ IsFiniteSet(Lost')
<1>1. IsFiniteSet(Cases)
  BY NAssumption, FS_Interval
<1>2. Lost \in SUBSET Cases /\ Lost' \in SUBSET Cases
  BY DEF Lost
<1> QED
  BY <1>1, <1>2, FS_Subset

\* The cases that cost a worker stay, and a worker more needs a case more.
LEMMA BudgetStep == IInv /\ SpawnBudget /\ [Next]_vars => SpawnBudget'
<1> SUFFICES ASSUME IInv, SpawnBudget, [Next]_vars PROVE SpawnBudget'
  OBVIOUS
<1>0. outcomes \in [Cases -> Outcome \cup {Ungraded}] /\ spawned \in Nat /\ P \in Nat
  BY PAssumption DEF IInv, Typed
<1>1. Cardinality(Lost) \in Nat /\ Cardinality(Lost') \in Nat
  BY LostIsFinite, FS_CardinalityType
<1>2. ASSUME Lost \subseteq Lost', spawned' = spawned PROVE SpawnBudget'
  <2>1. Cardinality(Lost) <= Cardinality(Lost')
    BY <1>2, LostIsFinite, FS_Subset
  <2> QED
    BY <1>0, <1>1, <1>2, <2>1 DEF SpawnBudget
<1>3. ASSUME NEW c \in Cases, NEW o, Judges(c, o)
      PROVE  /\ Lost \subseteq Lost' /\ c \notin Lost
             /\ o.cause \in {"timeout", "crash"} => c \in Lost'
  BY <1>0, <1>3 DEF Judges, Lost
<1>4. ASSUME NEW c \in Cases, NEW o, Judges(c, o), o.cause \in {"timeout", "crash"},
             spawned' \in {spawned, spawned + 1}
      PROVE  SpawnBudget'
  <2>1. Lost \cup {c} \subseteq Lost' /\ c \notin Lost
    BY <1>3, <1>4
  <2>2. Cardinality(Lost \cup {c}) = Cardinality(Lost) + 1
    BY <2>1, LostIsFinite, FS_AddElement
  <2>3. Cardinality(Lost \cup {c}) <= Cardinality(Lost')
    BY <2>1, LostIsFinite, FS_Subset
  <2> QED
    BY <1>0, <1>1, <1>4, <2>2, <2>3 DEF SpawnBudget
<1>5. ASSUME Keeps, spawned' = spawned PROVE SpawnBudget'
  BY <1>2, <1>5 DEF Keeps, Lost
<1>6. ASSUME NEW s \in Slots, Claim(s) PROVE SpawnBudget'
  <2>1. nextCase \in Cases \/ ~Judges(nextCase, Graded("throw", "decode"))
    BY DEF Judges
  <2> QED
    BY <1>2, <1>3, <1>5, <1>6, <2>1, ClaimJudges
<1>7. ASSUME NEW s \in Slots, CaseSettles(s) PROVE SpawnBudget'
  <2>1. PICK o \in Outcome :
           /\ Judges(claim[s], o)
           /\ o.cause = "reply" => spawned' = spawned
           /\ o.cause # "reply" => o.cause \in {"timeout", "crash"}
                                   /\ spawned' \in {spawned, spawned + 1}
    BY <1>7, SettlingJudges
  <2>2. claim[s] \in Cases
    BY <2>1 DEF Judges
  <2> QED
    BY <1>2, <1>3, <1>4, <2>1, <2>2
<1>8. ASSUME NEW s \in Slots, RespawnFail(s) PROVE SpawnBudget'
  <2>1. /\ spawned' = spawned
        /\ \A c \in Cases : c >= nextCase => outcomes[c] = Ungraded
        /\ \A c \in Cases : c >= nextCase \/ outcomes'[c] = outcomes[c]
    BY <1>8, DrainWritesOff
  <2>2. \A c \in Cases : outcomes[c].cause \in {"timeout", "crash"} => outcomes'[c] = outcomes[c]
    BY <2>1
  <2>3. Lost \subseteq Lost'
    BY <2>2 DEF Lost
  <2> QED
    BY <1>2, <2>1, <2>3
<1>9. CASE Finish \/ (\E m \in mail : Drop(m)) \/ UNCHANGED vars
  BY <1>5, <1>9 DEF Finish, Drop, vars, Keeps
<1> QED
  BY <1>5, <1>6, <1>7, <1>8, <1>9, QuietSteps DEF Next, DriveStep, RespawnSettles

\* The pool creates a worker per slot, and one more for each case that cost a
\* worker, whatever the port does when it is started again.
THEOREM SpawnsWithinBudget == Spec => []SpawnBudget
<1>1. Init => SpawnBudget
  <2> SUFFICES ASSUME Init PROVE SpawnBudget
    OBVIOUS
  <2>1. Cardinality(Lost) \in Nat
    BY LostIsFinite, FS_CardinalityType
  <2> QED
    BY <2>1, PAssumption DEF Init, SpawnBudget
<1> QED
  BY <1>1, BudgetStep, Invariance, PTL DEF Spec

-----------------------------------------------------------------------------
(* The refinement.                                                         *)

\* A run that is given up has a slot whose worker never came up, so no later
\* handshake can start the drives.
FailedInv == phase = "initFailed" => \E s \in Slots : pc[s] = "rejected"

LEMMA FailedStep == IInv /\ FailedInv /\ [Next]_vars => FailedInv'
<1> SUFFICES ASSUME IInv, FailedInv, [Next]_vars PROVE FailedInv'
  OBVIOUS
<1>0. pc \in [Slots -> {"spawn", "ready", "rejected", "loop", "await", "respawn", "done"}]
  BY DEF IInv, Typed
<1>1. ASSUME phase' = phase,
             \/ pc' = pc
             \/ \E s \in Slots : pc[s] # "rejected" /\ \E l : pc' = [pc EXCEPT ![s] = l]
      PROVE  FailedInv'
  BY <1>0, <1>1 DEF FailedInv
<1>2. ASSUME NEW s \in Slots, WorkerStep(s) PROVE FailedInv'
  BY <1>1, <1>2 DEF WorkerStep, WorkerInit, WorkerReply, WorkerCrash, Post
<1>3. ASSUME NEW s \in Slots, SpawnReady(s) PROVE FailedInv'
  <2>1. CASE \A t \in Slots \ {s} : pc[t] = "ready"
    BY <1>3, <2>1 DEF SpawnReady, FailedInv
  <2>2. CASE ~\A t \in Slots \ {s} : pc[t] = "ready"
    BY <1>1, <1>3, <2>2 DEF SpawnReady
  <2> QED
    BY <2>1, <2>2
<1>4. ASSUME NEW s \in Slots, SpawnReject(s) PROVE FailedInv'
  BY <1>0, <1>4 DEF SpawnReject, FailedInv
<1>5. ASSUME NEW s \in Slots, DriveStep(s) PROVE FailedInv'
  BY <1>1, <1>5 DEF DriveStep, Claim, ClaimEnding, LeaveWithoutWorker
<1>6. ASSUME NEW s \in Slots, CaseSettles(s) PROVE FailedInv'
  BY <1>1, <1>6 DEF CaseSettles, Reply, ReplyPassing, Timeout, Crash, Replace,
                    ReplaceEnding
<1>7. ASSUME NEW s \in Slots, RespawnSettles(s) PROVE FailedInv'
  BY <1>1, <1>7 DEF RespawnSettles, RespawnReady, RespawnFail, DrainFrom
<1>8. CASE Finish \/ (\E m \in mail : Drop(m)) \/ UNCHANGED vars
  BY <1>8 DEF Finish, Drop, vars, FailedInv
<1> QED
  BY <1>2, <1>3, <1>4, <1>5, <1>6, <1>7, <1>8 DEF Next, SpawnSettles

LEMMA KeepsStutters ==
    ASSUME Keeps, phase' = phase \/ (phase = "init" /\ phase' = "driving")
    PROVE  UNCHANGED Promise!gvars
BY DEF Keeps, Promise!gvars

LEMMA JudgesJudges ==
    ASSUME IInv, NEW c, NEW o, Judges(c, o)
    PROVE  Promise!Next
<1>1. Promise!Judge(c, o.verdict)
  BY VerdictTells DEF Judges, Promise!Judge, Promise!Unjudged, IInv, Typed
<1>2. c \in Cases /\ o.verdict \in {"pass", "throw", "infloop"}
  BY DEF Judges, Outcome
<1> QED
  BY <1>1, <1>2 DEF Promise!Next

LEMMA DrainStep ==
    ASSUME IInv, NEW s \in Slots, RespawnFail(s)
    PROVE  Promise!Next
<1>0. PICK S \in SUBSET Cases : S = {c \in Cases : c >= nextCase}
  OBVIOUS
<1>1. /\ phase = "driving" /\ UNCHANGED <<nature, phase>>
      /\ \A c \in Cases : c >= nextCase => outcomes[c].verdict = "none"
      /\ outcomes' = [c \in Cases |-> IF c >= nextCase THEN Graded("throw", "respawn")
                                      ELSE outcomes[c]]
  BY DrainWritesOff
<1>2. S \subseteq Promise!Unjudged
  BY <1>0, <1>1 DEF Promise!Unjudged
<1>3. [c \in Cases |-> outcomes'[c].verdict]
      = [c \in Cases |-> IF c \in S THEN "throw" ELSE outcomes[c].verdict]
  BY <1>0, <1>1
<1>4. [c \in Cases |-> outcomes[c].verdict]'
      = [c \in Cases |-> IF c \in S THEN "throw" ELSE [d \in Cases |-> outcomes[d].verdict][c]]
  BY <1>3
<1>5. Promise!WriteOff(S)
  BY <1>1, <1>2, <1>4 DEF Promise!WriteOff
<1> QED
  BY <1>5 DEF Promise!Next

LEMMA FinishCloses ==
    ASSUME IInv, Finish
    PROVE  Promise!Next
<1>1. \A c \in Cases : outcomes[c] # Ungraded
  <2>1. 1 \in Slots
    BY PAssumption
  <2>2. nextCase > N
    BY <2>1 DEF Finish, IInv, QueueInv
  <2> QED
    BY <2>2, NAssumption DEF Finish, IInv, Typed, QueueInv
<1>2. Promise!Close
  BY <1>1, VerdictTells DEF Finish, Promise!Close, Promise!Unjudged
<1> QED
  BY <1>2 DEF Promise!Next

LEMMA RejectGivesUp ==
    ASSUME IInv, NEW s \in Slots, SpawnReject(s)
    PROVE  Promise!Next \/ UNCHANGED Promise!gvars
<1>1. phase \in {"init", "initFailed"} /\ phase' = "initFailed" /\ Keeps
  BY DEF IInv, Typed, PhaseInv, SpawnReject, Keeps
<1>2. CASE phase = "initFailed"
  BY <1>1, <1>2, KeepsStutters
<1>3. CASE phase = "init"
  <2>1. \A c \in Cases : outcomes[c] = Ungraded
    BY <1>3, NAssumption DEF IInv, PhaseInv, QueueInv
  <2>2. Promise!GiveUp
    BY <1>1, <1>3, <2>1 DEF Keeps, Promise!GiveUp, Promise!Unjudged
  <2> QED
    BY <2>2 DEF Promise!Next
<1> QED
  BY <1>1, <1>2, <1>3

LEMMA RefinesStep == IInv /\ FailedInv /\ [Next]_vars => [Promise!Next]_(Promise!gvars)
<1> SUFFICES ASSUME IInv, FailedInv, [Next]_vars PROVE Promise!Next \/ UNCHANGED Promise!gvars
  OBVIOUS
<1>1. ASSUME NEW s \in Slots, WorkerStep(s) \/ LeaveWithoutWorker(s) \/ RespawnReady(s)
      PROVE  UNCHANGED Promise!gvars
  <2>1. phase' = phase
    BY <1>1 DEF WorkerStep, WorkerInit, WorkerReply, WorkerCrash, Post, LeaveWithoutWorker, RespawnReady
  <2> QED
    BY <1>1, <2>1, QuietSteps, KeepsStutters
<1>2. ASSUME NEW s \in Slots, SpawnReady(s) PROVE UNCHANGED Promise!gvars
  <2>1. phase' = phase \/ (phase = "init" /\ phase' = "driving")
    BY <1>2 DEF SpawnReady, IInv, Typed, PhaseInv, FailedInv
  <2> QED
    BY <1>2, <2>1, QuietSteps, KeepsStutters DEF SpawnSettles
<1>3. ASSUME NEW s \in Slots, Claim(s) PROVE Promise!Next \/ UNCHANGED Promise!gvars
  BY <1>3, ClaimJudges, KeepsStutters, JudgesJudges
<1>4. ASSUME NEW s \in Slots, CaseSettles(s) PROVE Promise!Next
  BY <1>4, SettlingJudges, JudgesJudges
<1>5. CASE (\E m \in mail : Drop(m)) \/ UNCHANGED vars
  BY <1>5, KeepsStutters DEF Drop, vars, Keeps
<1> QED
  BY <1>1, <1>2, <1>3, <1>4, <1>5, DrainStep, FinishCloses, RejectGivesUp
     DEF Next, DriveStep, SpawnSettles, RespawnSettles

\* Whatever the workers do, and however the slots interleave, the caller of
\* gradeCases sees an abstract grading run.
THEOREM PoolImplementsGrading == Spec => ImplementsGrading
<1>1. Init => Promise!Init
  BY DEF Init, Promise!Init
<1>2. Init => FailedInv
  BY DEF Init, FailedInv
<1> QED
  BY <1>1, <1>2, FailedStep, RefinesStep, Invariance, PTL DEF Spec, ImplementsGrading, Promise!Spec
=============================================================================
