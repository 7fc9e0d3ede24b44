---------------------------- MODULE GoldenMaster ----------------------------
(***************************************************************************)
(* How the golden file of one function comes about and is used.  Several   *)
(* invocations of run_all.sh (eval/golden_master), which know nothing of   *)
(* each other, run the function's driver with its output going to          *)
(* golden.jsonl; the driver's main writes its sections one after the       *)
(* other; the harness (eval/harness/runner.ts) grades a port against       *)
(* whatever the file holds.                                                *)
(*                                                                         *)
(* A file is known by the invocation that created it: another one may      *)
(* truncate it while it is written to, or remove it, and then a new file   *)
(* takes the name.  A port under the grade is right, or wrong in one of    *)
(* the cases that its code tells apart.                                    *)
(***************************************************************************)
EXTENDS GoldenWire

CONSTANTS
    Drivers,    \* per function its driver and port
    Gaps,       \* <<function, return>>: returns that no case of the golden takes
    Scripts,    \* the invocations of run_all.sh
    NoFile

ASSUME DriversAssumption ==
    \A f \in DOMAIN Drivers : Len(Drivers[f].sections) \in Nat
ASSUME NoFileAssumption == NoFile \notin Scripts

VARIABLES
    fn,         \* the function
    path,       \* the file that golden.jsonl names, or NoFile
    pc,         \* where each invocation is
    out,        \* the file that its driver writes to
    at,         \* how many sections that driver has emitted
    writer,     \* per file: who truncated it last
    spoilt,     \* per file, since then: a write was lost, or was another driver's
    torn,       \* per file, since then: the writer died and no script was left to see it
    aborted     \* an assert of a driver has failed

files == <<path, out, writer>>
vars == <<fn, path, pc, out, at, writer, spoilt, torn, aborted>>

N == Len(Drivers[fn].sections)

\* orphan: the driver goes on, the script is gone.
Places == {"start", "checked", "driver", "orphan", "failed", "ended"}

\* The types; no driver emits more sections than it has.
TypeOK ==
    /\ fn \in DOMAIN Drivers
    /\ path \in Scripts \cup {NoFile}
    /\ pc \in [Scripts -> Places]
    /\ out \in [Scripts -> Scripts \cup {NoFile}]
    /\ at \in [Scripts -> 0..N]
    /\ writer \in [Scripts -> Scripts]
    /\ spoilt \in [Scripts -> BOOLEAN] /\ torn \in [Scripts -> BOOLEAN]
    /\ aborted \in BOOLEAN

Init ==
    /\ fn \in DOMAIN Drivers
    /\ path = NoFile
    /\ pc = [s \in Scripts |-> "start"]
    /\ out = [s \in Scripts |-> NoFile]
    /\ at = [s \in Scripts |-> 0]
    /\ writer = [s \in Scripts |-> s]
    /\ spoilt = [s \in Scripts |-> FALSE] /\ torn = [s \in Scripts |-> FALSE]
    /\ aborted = FALSE

-----------------------------------------------------------------------------
(* What the sections do, per function and section.                         *)

\* The asserts of emit_case, and of what it calls, hold.
AssertsHold ==
    [f \in DOMAIN Drivers |->
        LET d == Drivers[f]
            holds(section) == /\ \A o \in section.operands : ~Among(o, d.emit.barred)
                              /\ section.precs \subseteq d.emit.precs
        IN  [i \in DOMAIN d.sections |-> holds(d.sections[i])]]
\* Every record is read as it was meant, and the port takes it.
Accepted ==
    [f \in DOMAIN Drivers |->
        LET d == Drivers[f]
            accepts(section) ==
                /\ section.precs \subseteq d.port.precs
                /\ \A c \in Calls(section) : /\ ReadAs(d.emit, d.port, Written(d.emit, c))
                                             /\ ~Among(c, d.port.throws)
        IN  [i \in DOMAIN d.sections |-> accepts(d.sections[i])]]
\* The returns that the calls take.
Taken ==
    [f \in DOMAIN Drivers |->
        LET d == Drivers[f]
            taken(section) ==
                {Return(d.port, c) : c \in {c \in Calls(section) : ~Among(c, d.port.throws)}}
        IN  [i \in DOMAIN d.sections |-> taken(d.sections[i])]]

-----------------------------------------------------------------------------
(* run_all.sh.  No step of it takes a lock.                                *)

Move(s, place) == pc' = [pc EXCEPT ![s] = place]

\* A golden that exists is left alone unless --force is given.
Check(s, force) ==
    /\ pc[s] = "start"
    /\ Move(s, IF path # NoFile /\ ~force THEN "ended" ELSE "checked")
    /\ UNCHANGED <<fn, files, at, spoilt, torn, aborted>>

\* The redirection, some time later: it creates the file, or empties the one that
\* is there by then, and the driver starts.
Open(s) ==
    LET f == IF path = NoFile THEN s ELSE path
    IN  /\ pc[s] = "checked"
        /\ path' = f
        /\ out' = [out EXCEPT ![s] = f]
        /\ writer' = [writer EXCEPT ![f] = s]
        /\ spoilt' = [spoilt EXCEPT ![f] = FALSE]
        /\ torn' = [torn EXCEPT ![f] = FALSE]
        /\ Move(s, "driver")
        /\ UNCHANGED <<fn, at, aborted>>
\* Or it fails, and the driver with it.
OpenFails(s) ==
    /\ pc[s] = "checked"
    /\ Move(s, "failed")
    /\ UNCHANGED <<fn, files, at, spoilt, torn, aborted>>

\* The driver has failed: whatever file there is goes.
KeepPartial(s) ==                                                    \* mutant
    /\ pc[s] = "failed"
    /\ Move(s, "ended")
    /\ UNCHANGED <<fn, files, at, spoilt, torn, aborted>>
RemovePartial(s) ==
    /\ pc[s] = "failed"
    /\ path' = NoFile
    /\ Move(s, "ended")
    /\ UNCHANGED <<fn, out, at, writer, spoilt, torn, aborted>>

Writing == {s \in Scripts : pc[s] \in {"driver", "orphan"}}
\* Nobody is left to remove what the driver of s has written, if it is the writer.
Abandon(s) ==
    torn' = [f \in Scripts |-> torn[f] \/ (f = out[s] /\ writer[f] = s)]

\* The script is killed: with its driver, without it, or before it has removed the
\* file.
Killed(s) ==
    /\ \/ pc[s] \in {"checked", "driver", "failed"} /\ Move(s, "ended") /\ Abandon(s)
       \/ pc[s] = "driver" /\ Move(s, "orphan") /\ UNCHANGED torn
    /\ UNCHANGED <<fn, files, at, spoilt, aborted>>

-----------------------------------------------------------------------------
(* The driver.  Its output is buffered: what it has emitted reaches the    *)
(* file by any later step of it.  It does not look whether it does.        *)

Writes(s, lost) ==
    spoilt' = [f \in Scripts |-> spoilt[f] \/ (f = out[s] /\ (lost \/ writer[f] # s))]

Dies(s) ==
    /\ Writes(s, FALSE)
    /\ IF pc[s] = "driver" THEN Move(s, "failed") /\ UNCHANGED torn
       ELSE Move(s, "ended") /\ Abandon(s)

\* A loop over the table that runs once too often.
EmitSectionPastEnd(s, lost) ==                                       \* mutant
    /\ s \in Writing /\ at[s] \in 0..N
    /\ at' = [at EXCEPT ![s] = @ + 1] /\ Writes(s, lost)
    /\ UNCHANGED <<fn, files, pc, torn, aborted>>
EmitSection(s, lost) ==
    /\ s \in Writing /\ at[s] < N
    /\ IF AssertsHold[fn][at[s] + 1]
       THEN at' = [at EXCEPT ![s] = @ + 1] /\ Writes(s, lost) /\ UNCHANGED <<pc, torn, aborted>>
       ELSE Dies(s) /\ aborted' = TRUE /\ UNCHANGED at
    /\ UNCHANGED <<fn, files>>

\* main returns 0, and that is all the script asks.
Generated(s, lost) ==
    /\ s \in Writing /\ at[s] = N
    /\ Writes(s, lost)
    /\ Move(s, "ended")
    /\ UNCHANGED <<fn, files, at, torn, aborted>>

\* It crashes, or runs into the timeout of 60 s.
DriverDies(s) ==
    /\ s \in Writing
    /\ Dies(s)
    /\ UNCHANGED <<fn, files, at, aborted>>

Next ==
    \E s \in Scripts :
        \/ \E force \in BOOLEAN : Check(s, force)
        \/ Open(s) \/ OpenFails(s) \/ RemovePartial(s) \/ Killed(s)
        \/ \E lost \in BOOLEAN : EmitSection(s, lost) \/ Generated(s, lost)
        \/ DriverDies(s)

Spec == Init /\ [][Next]_vars

-----------------------------------------------------------------------------
(* The harness reads the file in any state, whoever is writing to it.      *)

\* The composite is 1 for a port that is wrong in one return, or in none (0): a class
\* without a case counts as passed, a line that does not parse does not count.
Passes(wrong) ==
    \A i \in 1..at[writer[path]] : Accepted[fn][i] /\ wrong \notin Taken[fn][i]

\* There is a file that holds what its writer alone has written to it.
Legible == path # NoFile /\ ~spoilt[path]
\* And no driver writes to it any more, nor has its writer been abandoned.
Settled ==
    /\ Legible /\ ~torn[path]
    /\ \A s \in Scripts : out[s] = path => pc[s] = "ended"

-----------------------------------------------------------------------------
(* Properties                                                              *)

\* The golden file that nobody is at work on is whole, whatever drivers have
\* crashed and whoever has truncated or removed files meanwhile (run_all.sh
\* tests the exit code and removes).  Not so after a kill of the script, a
\* write that failed unseen, or a write of a second driver to the same file;
\* and what a driver that died has written can be graded until it is removed.
RestsWhole == Settled => at[writer[path]] = N

\* No assert of a driver fails, whatever operands and precisions its sections hold.
NoAssertFails == ~aborted

\* A right port passes every case it is given, in any part of the golden that is
\* legible, even when torn: the drivers write nothing that the decoder reads
\* differently, and nothing that the port refuses for its kind, sign or precision.
RightPortPasses == Legible => Passes(0)

\* On a settled golden a port that is wrong in one of its returns passes exactly
\* for the returns in Gaps: the cases reach every other return of every port, and
\* what is known as a gap is one.
WrongPortFails ==
    Settled => \A r \in DOMAIN Drivers[fn].port.returns : Passes(r) <=> <<fn, r>> \in Gaps

=============================================================================
