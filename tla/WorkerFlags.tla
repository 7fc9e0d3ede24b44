---------------------------- MODULE WorkerFlags -----------------------------
(***************************************************************************)
(* The flag operations of the library: ports of the C functions that take  *)
(* the register as an argument and return it.  Each loads its argument     *)
(* into a variable of module flags.ts, which outlives the call: a worker   *)
(* grades one case after another with the same modules loaded.  The        *)
(* program keeps the register in carried, a bigint, and hands over what    *)
(* the previous call returned.                                             *)
(***************************************************************************)
EXTENDS Integers

AllFlags == {"UNDERFLOW", "OVERFLOW", "NAN", "INEXACT", "ERANGE", "DIVBY0"}

\* A bigint as its bits: those of no flag stand in one element, and a
\* negative one has a sign.
Masks == SUBSET (AllFlags \cup {"beyond", "negative"})

CONSTANTS Arguments,    \* the masks that cases hand over (a bound)
          DefaultPrecs  \* the precisions they ask for, some not allowed (a bound)

ASSUME ArgumentsAssumption == Arguments \subseteq Masks /\ DefaultPrecs \subseteq Int

VARIABLES flags,        \* _flags of flags.ts
          defaultPrec,  \* _defaultPrec of get_default_prec.ts
          carried,      \* the register as the program knows it
          call,         \* the last call of the case, and the flags it names
          answer        \* the flags it found, if it only asks

vars == <<flags, defaultPrec, carried, call, answer>>

-----------------------------------------------------------------------------
(* flags.ts.                                                               *)

\* setFlags forgets to drop the bits that are no flags.
SetFlagsUnmasked(r, bits) == r \cup bits                             \* mutant
SetFlags(r, bits) == r \cup (bits \cap AllFlags)
ClearFlags(r, bits) == r \ (bits \cap AllFlags)

\* The prologue of an operation: clearFlags(); setFlags(mask).  Without the
\* first call, what an earlier case left behind shows through.
LoadStale(mask) == SetFlags(flags, mask)                             \* mutant
Load(mask) == SetFlags(ClearFlags(flags, AllFlags), mask)

-----------------------------------------------------------------------------
(* Operations.                                                             *)

Called(op, F, mask) == [op |-> op, F |-> F \cap AllFlags, mask |-> mask \cap AllFlags]

\* The operation leaves r in the register and returns it.
Return(r, op, F, mask) ==
    /\ flags' = r
    /\ carried' = r
    /\ call' = Called(op, F, mask)
    /\ answer' = {}
    /\ UNCHANGED defaultPrec

\* The operation answers a question about the register r.
Answer(r, F) ==
    /\ flags' = r
    /\ call' = Called("test", F, AllFlags)
    /\ answer' = r \cap F
    /\ UNCHANGED <<carried, defaultPrec>>

\* The operation touches no flag: it throws, or has nothing to do with them.
Otherwise ==
    /\ call' = Called("test", {}, AllFlags) /\ answer' = {}
    /\ UNCHANGED <<flags, carried>>

Set(F) == Return(SetFlags(Load(carried), F), "raise", F, AllFlags)
Clear(F) == Return(ClearFlags(Load(carried), F), "lower", F, AllFlags)

mpfr_set_nanflag == Set({"NAN"})
mpfr_set_divby0 == Set({"DIVBY0"})
mpfr_set_overflow == Set({"OVERFLOW"})
mpfr_set_underflow == Set({"UNDERFLOW"})
mpfr_set_inexflag == Set({"INEXACT"})
mpfr_set_erangeflag == Set({"ERANGE"})

mpfr_clear_nanflag == Clear({"NAN"})
mpfr_clear_divby0 == Clear({"DIVBY0"})
mpfr_clear_overflow == Clear({"OVERFLOW"})
mpfr_clear_underflow == Clear({"UNDERFLOW"})
mpfr_clear_inexflag == Clear({"INEXACT"})
mpfr_clear_erangeflag == Clear({"ERANGE"})

mpfr_nanflag_p == Answer(Load(carried), {"NAN"})
mpfr_divby0_p == Answer(Load(carried), {"DIVBY0"})
mpfr_overflow_p == Answer(Load(carried), {"OVERFLOW"})
mpfr_erangeflag_p == Answer(Load(carried), {"ERANGE"})
mpfr_underflow_p ==
    \/ "negative" \notin carried /\ Answer(Load(carried), {"UNDERFLOW"})
    \/ "negative" \in carried /\ Otherwise /\ UNCHANGED defaultPrec
\* The one predicate that leaves the register of flags.ts alone.
mpfr_inexflag_p ==
    /\ call' = Called("test", {"INEXACT"}, AllFlags)
    /\ answer' = carried \cap {"INEXACT"}
    /\ UNCHANGED <<flags, defaultPrec, carried>>

mpfr_clear_flags == Return(ClearFlags(flags, AllFlags), "lower", AllFlags, AllFlags)
mpfr_flags_save == Answer(Load(carried), AllFlags)
mpfr_flags_set == \E mask \in Arguments : Set(mask)
mpfr_flags_clear == \E mask \in Arguments : Clear(mask)
mpfr_flags_test == \E mask \in Arguments : Answer(Load(carried), mask)
mpfr_flags_restore ==
    \E saved, mask \in Arguments :
        LET inMask == mask \cap AllFlags
            restored == ((carried \cap AllFlags) \ inMask) \cup (saved \cap inMask)
        IN  Return(Load(restored), "restore", saved, mask)

\* mpfr_get_default_prec(prev_set), which sets before it gets.
mpfr_get_default_prec ==
    \E prev_set \in DefaultPrecs :
        /\ Otherwise
        /\ defaultPrec' = IF prev_set < 1 THEN defaultPrec ELSE prev_set

Begin == carried' \in Arguments /\ call' = Called("begin", carried', AllFlags) /\ answer' = {}

\* The next case comes to the same worker, with a register of its own.
NextCase == Begin /\ UNCHANGED <<flags, defaultPrec>>

\* The worker was terminated, and the next case finds the modules reloaded.
Respawn == Begin /\ flags' = {} /\ defaultPrec' = 53

-----------------------------------------------------------------------------

Init ==
    /\ flags = {} /\ defaultPrec = 53
    /\ carried \in Arguments
    /\ call = Called("begin", carried, AllFlags) /\ answer = {}

Call ==
    \/ mpfr_set_nanflag \/ mpfr_set_divby0 \/ mpfr_set_overflow
    \/ mpfr_set_underflow \/ mpfr_set_inexflag \/ mpfr_set_erangeflag
    \/ mpfr_clear_nanflag \/ mpfr_clear_divby0 \/ mpfr_clear_overflow
    \/ mpfr_clear_underflow \/ mpfr_clear_inexflag \/ mpfr_clear_erangeflag
    \/ mpfr_nanflag_p \/ mpfr_divby0_p \/ mpfr_overflow_p
    \/ mpfr_underflow_p \/ mpfr_inexflag_p \/ mpfr_erangeflag_p
    \/ mpfr_clear_flags \/ mpfr_flags_save \/ mpfr_flags_set
    \/ mpfr_flags_clear \/ mpfr_flags_test \/ mpfr_flags_restore
    \/ mpfr_get_default_prec

Next == Call \/ NextCase \/ Respawn

Spec == Init /\ [][Next]_vars

-----------------------------------------------------------------------------

Register == INSTANCE FlagRegister WITH Flags <- AllFlags, reg <- carried \cap AllFlags

TypeOK ==
    /\ flags \subseteq AllFlags
    /\ defaultPrec \in (DefaultPrecs \cup {53}) /\ defaultPrec >= 1
    /\ carried \in Masks
    /\ call \in Register!Calls
    /\ answer \subseteq AllFlags

\* Whatever an earlier case left in the register of the module, and whatever
\* bits beyond the flags the program hands over, the calls of a case change
\* and show the register the way the C functions do.
ImplementsRegister == Register!Spec
=============================================================================
