---------------------------- MODULE GoldenProofs ----------------------------
(***************************************************************************)
(* What GoldenMaster promises of the script, for every set of drivers and  *)
(* ports and every set of invocations, which take no lock.                 *)
(*                                                                         *)
(* A file that no driver of another invocation has written to, and whose   *)
(* writer was not abandoned, has a writer that is still at it, or whose    *)
(* script is about to remove it, or that has written everything: each way  *)
(* for a driver to end leads to one of these or is recorded against the    *)
(* file.  Whoever truncates the file becomes its writer.                   *)
(***************************************************************************)
EXTENDS GoldenMaster, TLAPS

\* The writer of the file is still at it, or has finished.
Attended(f) ==
    LET s == writer[f]
    IN  /\ out[s] = f
        /\ \/ pc[s] \in {"driver", "orphan", "failed"}
           \/ pc[s] = "ended" /\ at[s] = N
Sound(f) == path = f /\ ~spoilt[f] /\ ~torn[f]
FilesAttended == \A f \in Scripts : Sound(f) => Attended(f)

IInv == TypeOK /\ FilesAttended

-----------------------------------------------------------------------------
(* Types.                                                                  *)

LEMMA CountType == fn \in DOMAIN Drivers => N \in Nat
  BY DriversAssumption DEF N

LEMMA InitTyped == Init => TypeOK
<1> SUFFICES ASSUME Init PROVE TypeOK
  OBVIOUS
<1>1. N \in Nat
  BY CountType DEF Init
<1>2. 0 \in 0..N
  BY <1>1
<1> QED
  BY <1>2 DEF Init, TypeOK, Places

\* One place of a function changed.
LEMMA MoveTyped ==
    ASSUME TypeOK, NEW s \in Scripts, NEW place \in Places, Move(s, place)
    PROVE  pc' \in [Scripts -> Places]
  BY DEF TypeOK, Move

LEMMA WritesTyped ==
    ASSUME NEW s, NEW lost \in BOOLEAN, Writes(s, lost)
    PROVE  spoilt' \in [Scripts -> BOOLEAN]
  BY DEF Writes

LEMMA AbandonTyped ==
    ASSUME TypeOK, NEW s, Abandon(s)
    PROVE  torn' \in [Scripts -> BOOLEAN]
  BY DEF Abandon, TypeOK

LEMMA DiesTyped ==
    ASSUME TypeOK, NEW s \in Scripts, Dies(s)
    PROVE  /\ spoilt' \in [Scripts -> BOOLEAN]
           /\ pc' \in [Scripts -> Places]
           /\ torn' \in [Scripts -> BOOLEAN]
<1>1. spoilt' \in [Scripts -> BOOLEAN]
  BY WritesTyped DEF Dies
<1>2. CASE pc[s] = "driver"
  <2>1. Move(s, "failed") /\ torn' = torn
    BY <1>2 DEF Dies
  <2> QED
    BY <1>1, <2>1, MoveTyped DEF Places, TypeOK
<1>3. CASE pc[s] # "driver"
  <2>1. Move(s, "ended") /\ Abandon(s)
    BY <1>3 DEF Dies
  <2> QED
    BY <1>1, <2>1, MoveTyped, AbandonTyped DEF Places
<1> QED
  BY <1>2, <1>3

\* No invocation changes the function, and few steps touch the files.
LEMMA StepTyped == TypeOK /\ [Next]_vars => TypeOK'
<1> SUFFICES ASSUME TypeOK, [Next]_vars PROVE TypeOK'
  OBVIOUS
<1>1. N \in Nat
  BY CountType DEF TypeOK
<1>2. CASE UNCHANGED vars
  BY <1>2 DEF vars, files, TypeOK, N
<1>3. ASSUME NEW s \in Scripts, NEW force \in BOOLEAN, Check(s, force) PROVE TypeOK'
  <2>1. pc' \in [Scripts -> Places]
    BY <1>3, MoveTyped DEF Check, Places
  <2> QED
    BY <1>3, <2>1 DEF Check, files, TypeOK, N
<1>4. ASSUME NEW s \in Scripts, Open(s) PROVE TypeOK'
  <2> DEFINE f == IF path = NoFile THEN s ELSE path
  <2>1. f \in Scripts
    BY DEF TypeOK
  <2>2. pc' \in [Scripts -> Places]
    BY <1>4, MoveTyped DEF Open, Places
  <2>3. /\ path' = f /\ out' = [out EXCEPT ![s] = f]
        /\ writer' = [writer EXCEPT ![f] = s]
        /\ spoilt' = [spoilt EXCEPT ![f] = FALSE] /\ torn' = [torn EXCEPT ![f] = FALSE]
        /\ fn' = fn /\ at' = at /\ aborted' = aborted
    BY <1>4 DEF Open
  <2> HIDE DEF f
  <2> QED
    BY <2>1, <2>2, <2>3 DEF TypeOK, N
<1>5. ASSUME NEW s \in Scripts, OpenFails(s) PROVE TypeOK'
  <2>1. pc' \in [Scripts -> Places]
    BY <1>5, MoveTyped DEF OpenFails, Places
  <2> QED
    BY <1>5, <2>1 DEF OpenFails, files, TypeOK, N
<1>6. ASSUME NEW s \in Scripts, RemovePartial(s) PROVE TypeOK'
  <2>1. pc' \in [Scripts -> Places]
    BY <1>6, MoveTyped DEF RemovePartial, Places
  <2> QED
    BY <1>6, <2>1 DEF RemovePartial, TypeOK, N
<1>7. ASSUME NEW s \in Scripts, Killed(s) PROVE TypeOK'
  <2>1. pc' \in [Scripts -> Places]
    BY <1>7, MoveTyped DEF Killed, Places
  <2>2. torn' \in [Scripts -> BOOLEAN]
    BY <1>7, AbandonTyped DEF Killed, TypeOK
  <2> QED
    BY <1>7, <2>1, <2>2 DEF Killed, files, TypeOK, N
<1>8. ASSUME NEW s \in Scripts, NEW lost \in BOOLEAN, EmitSection(s, lost) PROVE TypeOK'
  <2>1. fn' = fn /\ UNCHANGED files
    BY <1>8 DEF EmitSection
  <2>2. CASE AssertsHold[fn][at[s] + 1]
    <3>1. /\ at' = [at EXCEPT ![s] = @ + 1] /\ Writes(s, lost) /\ at[s] < N
          /\ pc' = pc /\ torn' = torn /\ aborted' = aborted
      BY <1>8, <2>2 DEF EmitSection
    <3>2. at[s] \in 0..N /\ at[s] + 1 \in 0..N
      BY <1>1, <3>1 DEF TypeOK
    <3>3. spoilt' \in [Scripts -> BOOLEAN]
      BY <3>1, WritesTyped
    <3> QED
      BY <2>1, <3>1, <3>2, <3>3 DEF files, TypeOK, N
  <2>3. CASE ~AssertsHold[fn][at[s] + 1]
    <3>1. Dies(s) /\ aborted' = TRUE /\ at' = at
      BY <1>8, <2>3 DEF EmitSection
    <3> QED
      BY <2>1, <3>1, DiesTyped DEF files, TypeOK, N
  <2> QED
    BY <2>2, <2>3
<1>9. ASSUME NEW s \in Scripts, NEW lost \in BOOLEAN, Generated(s, lost) PROVE TypeOK'
  <2>1. pc' \in [Scripts -> Places] /\ spoilt' \in [Scripts -> BOOLEAN]
    BY <1>9, MoveTyped, WritesTyped DEF Generated, Places
  <2> QED
    BY <1>9, <2>1 DEF Generated, files, TypeOK, N
<1>10. ASSUME NEW s \in Scripts, DriverDies(s) PROVE TypeOK'
  <2>1. Dies(s) /\ UNCHANGED <<fn, files, at, aborted>>
    BY <1>10 DEF DriverDies
  <2> QED
    BY <2>1, DiesTyped DEF files, TypeOK, N
<1> QED
  BY <1>2, <1>3, <1>4, <1>5, <1>6, <1>7, <1>8, <1>9, <1>10 DEF Next

\* The type invariant holds for all drivers and any number of invocations, no
\* matter how they overlap (TypeOK): above all, no driver emits more sections than
\* it has.
THEOREM GoldenTypeCorrect == Spec => []TypeOK
  BY InitTyped, StepTyped, PTL DEF Spec

-----------------------------------------------------------------------------
(* A file at rest.                                                         *)

\* Once spoilt or torn, a file that is not truncated stays so.
LEMMA SpoiltStays ==
    ASSUME NEW s, NEW lost, Writes(s, lost), NEW f \in Scripts, ~spoilt'[f]
    PROVE  ~spoilt[f]
  BY DEF Writes

LEMMA TornStays ==
    ASSUME NEW s, Abandon(s), NEW f \in Scripts, ~torn'[f]
    PROVE  ~torn[f] /\ (out[s] = f => writer[f] # s)
  BY DEF Abandon

\* A step of one invocation disturbs no file of which another one is the writer,
\* unless it truncates or removes it.
LEMMA OthersStay ==
    ASSUME TypeOK, UNCHANGED <<fn, files>>,
           NEW f \in Scripts, Attended(f), NEW s \in Scripts, s # writer[f],
           pc' = pc \/ (\E place \in Places : Move(s, place)),
           at' = at \/ at' = [at EXCEPT ![s] = @ + 1]
    PROVE  Attended(f)'
<1> DEFINE w == writer[f]
<1>1. w \in Scripts /\ w # s
  BY DEF TypeOK
<1>2. pc'[w] = pc[w] /\ at'[w] = at[w]
  BY <1>1 DEF Move, TypeOK
<1> QED
  BY <1>2 DEF Attended, files, N

\* The end of a driver is seen by its script, or recorded.
LEMMA DiesAttended ==
    ASSUME TypeOK, UNCHANGED <<fn, files, at>>, NEW s \in Scripts, Dies(s),
           NEW f \in Scripts, Sound(f) => Attended(f), Sound(f)'
    PROVE  Attended(f)'
<1>1. CASE pc[s] = "driver"
  <2>1. Move(s, "failed") /\ torn' = torn /\ Writes(s, FALSE)
    BY <1>1 DEF Dies
  <2>2. Attended(f)
    BY <2>1, SpoiltStays DEF Sound, files
  <2>3. CASE s # writer[f]
    BY <2>1, <2>2, <2>3, OthersStay DEF Places
  <2>4. CASE s = writer[f]
    <3>1. pc'[s] = "failed"
      BY <2>1 DEF Move, TypeOK
    <3> QED
      BY <2>2, <2>4, <3>1 DEF Attended, files
  <2> QED
    BY <2>3, <2>4
<1>2. CASE pc[s] # "driver"
  <2>1. Move(s, "ended") /\ Abandon(s) /\ Writes(s, FALSE)
    BY <1>2 DEF Dies
  <2>2. Attended(f) /\ (out[s] = f => writer[f] # s)
    BY <2>1, SpoiltStays, TornStays DEF Sound, files
  <2>3. s # writer[f]
    BY <2>2 DEF Attended
  <2> QED
    BY <2>1, <2>2, <2>3, OthersStay DEF Places
<1> QED
  BY <1>1, <1>2

LEMMA InitAttended == Init => FilesAttended
  BY NoFileAssumption DEF Init, FilesAttended, Sound

LEMMA StepAttended == IInv /\ [Next]_vars => FilesAttended'
<1> SUFFICES ASSUME IInv, [Next]_vars, NEW f \in Scripts, Sound(f)' PROVE Attended(f)'
  BY DEF FilesAttended
<1>1. TypeOK /\ (Sound(f) => Attended(f))
  BY DEF IInv, FilesAttended
<1>2. CASE UNCHANGED vars
  BY <1>1, <1>2 DEF vars, files, Sound, Attended, N
<1>3. ASSUME NEW s \in Scripts, NEW force \in BOOLEAN, Check(s, force) PROVE Attended(f)'
  <2>1. /\ UNCHANGED <<fn, files, at, spoilt, torn>> /\ pc[s] = "start"
        /\ \E place \in Places : Move(s, place)
    BY <1>3 DEF Check, Places
  <2>2. Attended(f) /\ s # writer[f]
    BY <1>1, <2>1 DEF Sound, Attended, files
  <2> QED
    BY <1>1, <2>1, <2>2, OthersStay
<1>4. ASSUME NEW s \in Scripts, Open(s) PROVE Attended(f)'
  <2>1. path' = f
    BY DEF Sound
  <2>2. /\ writer' = [writer EXCEPT ![f] = s] /\ out' = [out EXCEPT ![s] = f]
        /\ Move(s, "driver")
    BY <1>4, <2>1 DEF Open
  <2>3. writer'[f] = s /\ out'[s] = f /\ pc'[s] = "driver"
    BY <1>1, <2>2 DEF TypeOK, Move
  <2> QED
    BY <2>3 DEF Attended
<1>5. ASSUME NEW s \in Scripts, OpenFails(s) PROVE Attended(f)'
  <2>1. /\ UNCHANGED <<fn, files, at, spoilt, torn>> /\ pc[s] = "checked"
        /\ \E place \in Places : Move(s, place)
    BY <1>5 DEF OpenFails, Places
  <2>2. Attended(f) /\ s # writer[f]
    BY <1>1, <2>1 DEF Sound, Attended, files
  <2> QED
    BY <1>1, <2>1, <2>2, OthersStay
<1>6. ASSUME NEW s \in Scripts, RemovePartial(s) PROVE Attended(f)'
  <2>1. path' = NoFile
    BY <1>6 DEF RemovePartial
  <2> QED
    BY <2>1, NoFileAssumption DEF Sound
<1>7. ASSUME NEW s \in Scripts, Killed(s) PROVE Attended(f)'
  <2>1. UNCHANGED <<fn, files, at, spoilt>>
    BY <1>7 DEF Killed
  <2>2. CASE Move(s, "ended") /\ Abandon(s)
    <3>1. Attended(f) /\ (out[s] = f => writer[f] # s)
      BY <1>1, <2>1, <2>2, TornStays DEF Sound, files
    <3>2. s # writer[f]
      BY <3>1 DEF Attended
    <3> QED
      BY <1>1, <2>1, <2>2, <3>1, <3>2, OthersStay DEF Places
  <2>3. CASE Move(s, "orphan") /\ torn' = torn
    <3>1. Attended(f)
      BY <1>1, <2>1, <2>3 DEF Sound, files
    <3>2. CASE s # writer[f]
      BY <1>1, <2>1, <2>3, <3>1, <3>2, OthersStay DEF Places
    <3>3. CASE s = writer[f]
      <4>1. pc'[s] = "orphan"
        BY <1>1, <2>3 DEF Move, TypeOK
      <4> QED
        BY <2>1, <3>1, <3>3, <4>1 DEF Attended, files
    <3> QED
      BY <3>2, <3>3
  <2> QED
    BY <1>7, <2>2, <2>3 DEF Killed
<1>8. ASSUME NEW s \in Scripts, NEW lost \in BOOLEAN, EmitSection(s, lost) PROVE Attended(f)'
  <2>1. UNCHANGED <<fn, files>> /\ s \in Writing
    BY <1>8 DEF EmitSection
  <2>2. CASE AssertsHold[fn][at[s] + 1]
    <3>1. /\ at' = [at EXCEPT ![s] = @ + 1] /\ Writes(s, lost) /\ UNCHANGED <<pc, torn>>
      BY <1>8, <2>2 DEF EmitSection
    <3>2. Attended(f)
      BY <1>1, <2>1, <3>1, SpoiltStays DEF Sound, files
    <3>3. CASE s # writer[f]
      BY <1>1, <2>1, <3>1, <3>2, <3>3, OthersStay
    <3>4. CASE s = writer[f]
      <4>1. pc'[s] \in {"driver", "orphan"}
        BY <2>1, <3>1 DEF Writing
      <4> QED
        BY <2>1, <3>2, <3>4, <4>1 DEF Attended, files
    <3> QED
      BY <3>3, <3>4
  <2>3. CASE ~AssertsHold[fn][at[s] + 1]
    <3>1. Dies(s) /\ at' = at
      BY <1>8, <2>3 DEF EmitSection
    <3> QED
      BY <1>1, <2>1, <3>1, DiesAttended
  <2> QED
    BY <2>2, <2>3
<1>9. ASSUME NEW s \in Scripts, NEW lost \in BOOLEAN, Generated(s, lost) PROVE Attended(f)'
  <2>1. /\ at[s] = N /\ Writes(s, lost) /\ Move(s, "ended")
        /\ UNCHANGED <<fn, files, at, torn>>
    BY <1>9 DEF Generated
  <2>2. Attended(f)
    BY <1>1, <2>1, SpoiltStays DEF Sound, files
  <2>3. CASE s # writer[f]
    BY <1>1, <2>1, <2>2, <2>3, OthersStay DEF Places
  <2>4. CASE s = writer[f]
    <3>1. pc'[s] = "ended" /\ at'[s] = N'
      BY <1>1, <2>1 DEF Move, TypeOK, N
    <3> QED
      BY <2>1, <2>2, <2>4, <3>1 DEF Attended, files
  <2> QED
    BY <2>3, <2>4
<1>10. ASSUME NEW s \in Scripts, DriverDies(s) PROVE Attended(f)'
  <2>1. Dies(s) /\ UNCHANGED <<fn, files, at>>
    BY <1>10 DEF DriverDies
  <2> QED
    BY <1>1, <2>1, DiesAttended
<1> QED
  BY <1>2, <1>3, <1>4, <1>5, <1>6, <1>7, <1>8, <1>9, <1>10 DEF Next

LEMMA AttendedAtRest == IInv => RestsWhole
<1> SUFFICES ASSUME IInv, Settled PROVE at[writer[path]] = N
  BY DEF RestsWhole
<1>1. path \in Scripts /\ Sound(path)
  BY DEF IInv, TypeOK, Settled, Legible, Sound
<1>2. Attended(path)
  BY <1>1 DEF IInv, FilesAttended
<1>3. writer[path] \in Scripts
  BY <1>1 DEF IInv, TypeOK
<1>4. pc[writer[path]] = "ended"
  BY <1>2, <1>3 DEF Attended, Settled
<1> QED
  BY <1>2, <1>4 DEF Attended

\* A golden that nobody is at work on is whole (RestsWhole), for all drivers and
\* any number of invocations of run_all.sh that truncate and remove one file under
\* each other's hands: unless a second driver wrote to it, a write failed unseen,
\* or its script was killed.
THEOREM GoldenRestsWhole == Spec => []RestsWhole
<1>1. Init => IInv
  BY InitTyped, InitAttended DEF IInv
<1>2. IInv /\ [Next]_vars => IInv'
  BY StepTyped, StepAttended DEF IInv
<1> QED
  BY <1>1, <1>2, AttendedAtRest, PTL DEF Spec

=============================================================================
