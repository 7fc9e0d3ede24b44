---------------------------- MODULE FlagRegister ----------------------------
(***************************************************************************)
(* The flags of MPFR as its C functions (exceptions.c) show them to a      *)
(* program: one register, which calls raise, lower, test and restore.      *)
(***************************************************************************)

CONSTANT Flags

VARIABLES reg,     \* the flags that are up
          call,    \* the last call and its arguments
          answer   \* what it found, if it was a test

vars == <<reg, call, answer>>

Calls == [op : {"begin", "raise", "lower", "test", "restore"},
          F : SUBSET Flags, mask : SUBSET Flags]

Init == reg \subseteq Flags /\ answer = {} /\ call = [op |-> "begin", F |-> reg, mask |-> Flags]

\* The program turns to something else, with flags of its own.
Begin == call'.op = "begin" /\ reg' = call'.F /\ answer' = {}
Raise == call'.op = "raise" /\ reg' = reg \cup call'.F /\ answer' = {}
Lower == call'.op = "lower" /\ reg' = reg \ call'.F /\ answer' = {}
Test == call'.op = "test" /\ reg' = reg /\ answer' = reg \cap call'.F
Restore ==
    /\ call'.op = "restore"
    /\ reg' = (reg \ call'.mask) \cup (call'.F \cap call'.mask)
    /\ answer' = {}

Next == call' \in Calls /\ (Begin \/ Raise \/ Lower \/ Test \/ Restore)

Spec == Init /\ [][Next]_vars
=============================================================================
