------------------------- MODULE WorkerFlagsProofs --------------------------
(***************************************************************************)
(* The flag operations implement the register of the C library, for every  *)
(* choice of the masks that a case hands over.  What the operations need   *)
(* of their own variable is that it never holds a bit of no flag: then the *)
(* prologue replaces whatever an earlier case left by the argument.        *)
(***************************************************************************)
EXTENDS WorkerFlags, TLAPS

\* The prologue forgets the register that it found.
LEMMA LoadIsTheArgument ==
    ASSUME flags \subseteq AllFlags, NEW mask
    PROVE  Load(mask) = mask \cap AllFlags
BY DEF Load, SetFlags, ClearFlags

\* The record that a call leaves is one of the register's calls.
LEMMA CalledIsACall ==
    ASSUME NEW op \in {"begin", "raise", "lower", "test", "restore"}, NEW F, NEW mask
    PROVE  Called(op, F, mask) \in Register!Calls
BY DEF Called, Register!Calls

\* An operation that raises flags keeps the types and raises them.
LEMMA SetRaises ==
    ASSUME TypeOK, NEW F, Set(F)
    PROVE  TypeOK' /\ Register!Next
<1>1. flags' = (carried \cap AllFlags) \cup (F \cap AllFlags)
    BY LoadIsTheArgument DEF TypeOK, Set, Return, SetFlags
<1>2. carried' = flags' /\ answer' = {} /\ defaultPrec' = defaultPrec
    BY DEF Set, Return
<1>3. call' = Called("raise", F, AllFlags)
    BY DEF Set, Return
<1>4. call' \in Register!Calls
    BY <1>3, CalledIsACall
<1>5. TypeOK'
    BY <1>1, <1>2, <1>4 DEF TypeOK, Masks
<1>6. Register!Raise
    BY <1>1, <1>2, <1>3 DEF Register!Raise, Called
<1>7. QED BY <1>4, <1>5, <1>6 DEF Register!Next

\* An operation that lowers flags keeps the types and lowers them.
LEMMA ClearLowers ==
    ASSUME TypeOK, NEW F, Clear(F)
    PROVE  TypeOK' /\ Register!Next
<1>1. flags' = (carried \cap AllFlags) \ (F \cap AllFlags)
    BY LoadIsTheArgument DEF TypeOK, Clear, Return, ClearFlags
<1>2. carried' = flags' /\ answer' = {} /\ defaultPrec' = defaultPrec
    BY DEF Clear, Return
<1>3. call' = Called("lower", F, AllFlags)
    BY DEF Clear, Return
<1>4. call' \in Register!Calls
    BY <1>3, CalledIsACall
<1>5. TypeOK'
    BY <1>1, <1>2, <1>4 DEF TypeOK, Masks
<1>6. Register!Lower
    BY <1>1, <1>2, <1>3 DEF Register!Lower, Called
<1>7. QED BY <1>4, <1>5, <1>6 DEF Register!Next

\* An operation that asks for flags keeps the types and finds those of the
\* register, which stays.
LEMMA AnswerTests ==
    ASSUME TypeOK, NEW F, Answer(Load(carried), F)
    PROVE  TypeOK' /\ Register!Next
<1>1. flags' = carried \cap AllFlags /\ answer' = (carried \cap AllFlags) \cap F
    BY LoadIsTheArgument DEF TypeOK, Answer
<1>2. carried' = carried /\ defaultPrec' = defaultPrec
    BY DEF Answer
<1>3. call' = Called("test", F, AllFlags)
    BY DEF Answer
<1>4. call' \in Register!Calls
    BY <1>3, CalledIsACall
<1>5. TypeOK'
    BY <1>1, <1>2, <1>4 DEF TypeOK, Masks
<1>6. Register!Test
    BY <1>1, <1>2, <1>3 DEF Register!Test, Called
<1>7. QED BY <1>4, <1>5, <1>6 DEF Register!Next

\* An operation that touches no flag tests nothing.
LEMMA OtherwiseTests ==
    ASSUME TypeOK, Otherwise
    PROVE  /\ Register!Next
           /\ carried' = carried /\ flags' = flags
           /\ call' \in Register!Calls /\ answer' = {}
<1>1. call' = Called("test", {}, AllFlags) /\ answer' = {} /\ UNCHANGED <<flags, carried>>
    BY DEF Otherwise
<1>2. call' \in Register!Calls
    BY <1>1, CalledIsACall
<1>3. Register!Test
    BY <1>1 DEF Register!Test, Called
<1>4. QED BY <1>1, <1>2, <1>3 DEF Register!Next

\* Restoring the flags of a mask takes these and keeps the others.
LEMMA RestoreRestores ==
    ASSUME TypeOK, mpfr_flags_restore
    PROVE  TypeOK' /\ Register!Next
<1>1. PICK saved, mask \in Arguments :
          LET inMask == mask \cap AllFlags
              restored == ((carried \cap AllFlags) \ inMask) \cup (saved \cap inMask)
          IN  Return(Load(restored), "restore", saved, mask)
    BY DEF mpfr_flags_restore
<1> DEFINE inMask == mask \cap AllFlags
           restored == ((carried \cap AllFlags) \ inMask) \cup (saved \cap inMask)
<1>2. flags' = restored \cap AllFlags
    BY <1>1, LoadIsTheArgument DEF TypeOK, Return
<1>3. carried' = flags' /\ answer' = {} /\ defaultPrec' = defaultPrec
    BY <1>1 DEF Return
<1>4. call' = Called("restore", saved, mask)
    BY <1>1 DEF Return
<1>5. call' \in Register!Calls
    BY <1>4, CalledIsACall
<1>6. TypeOK'
    BY <1>2, <1>3, <1>5 DEF TypeOK, Masks
<1>7. Register!Restore
    BY <1>2, <1>3, <1>4 DEF Register!Restore, Called
<1>8. QED BY <1>5, <1>6, <1>7 DEF Register!Next

\* A case that begins brings a register of its own.
LEMMA BeginBegins ==
    ASSUME TypeOK, Begin,
           \/ UNCHANGED <<flags, defaultPrec>>
           \/ flags' = {} /\ defaultPrec' = 53
    PROVE  TypeOK' /\ Register!Next
<1>1. carried' \in Arguments /\ call' = Called("begin", carried', AllFlags) /\ answer' = {}
    BY DEF Begin
<1>2. carried' \in Masks
    BY <1>1, ArgumentsAssumption
<1>3. call' \in Register!Calls
    BY <1>1, CalledIsACall
<1>4. TypeOK'
    BY <1>1, <1>2, <1>3 DEF TypeOK
<1>5. Register!Begin
    BY <1>1 DEF Register!Begin, Called
<1>6. QED BY <1>3, <1>4, <1>5 DEF Register!Next

\* Every call keeps the types, and is a call of the register.
LEMMA CallStep ==
    ASSUME TypeOK, Call
    PROVE  TypeOK' /\ Register!Next
<1>1. CASE \E F \in SUBSET AllFlags : Set(F)
    BY <1>1, SetRaises
<1>2. CASE \E F \in SUBSET AllFlags : Clear(F)
    BY <1>2, ClearLowers
<1>3. CASE \E F \in SUBSET AllFlags : Answer(Load(carried), F)
    BY <1>3, AnswerTests
<1>4. CASE mpfr_underflow_p
    <2>1. CASE Answer(Load(carried), {"UNDERFLOW"})
        BY <2>1, AnswerTests
    <2>2. CASE Otherwise /\ UNCHANGED defaultPrec
        BY <2>2, OtherwiseTests DEF TypeOK
    <2>3. QED BY <1>4, <2>1, <2>2 DEF mpfr_underflow_p
<1>5. CASE mpfr_inexflag_p
    <2>1. call' = Called("test", {"INEXACT"}, AllFlags)
        BY <1>5 DEF mpfr_inexflag_p
    <2>2. answer' = carried \cap {"INEXACT"} /\ UNCHANGED <<flags, defaultPrec, carried>>
        BY <1>5 DEF mpfr_inexflag_p
    <2>3. call' \in Register!Calls
        BY <2>1, CalledIsACall
    <2>4. TypeOK'
        BY <2>2, <2>3 DEF TypeOK, AllFlags
    <2>5. Register!Test
        BY <2>1, <2>2 DEF Register!Test, Called, AllFlags
    <2>6. QED BY <2>3, <2>4, <2>5 DEF Register!Next
<1>6. CASE mpfr_clear_flags
    <2>1. flags' = {} /\ carried' = {} /\ answer' = {} /\ defaultPrec' = defaultPrec
        BY <1>6 DEF mpfr_clear_flags, Return, ClearFlags, TypeOK
    <2>2. call' = Called("lower", AllFlags, AllFlags)
        BY <1>6 DEF mpfr_clear_flags, Return
    <2>3. call' \in Register!Calls
        BY <2>2, CalledIsACall
    <2>4. TypeOK'
        BY <2>1, <2>3 DEF TypeOK, Masks
    <2>5. Register!Lower
        BY <2>1, <2>2 DEF Register!Lower, Called
    <2>6. QED BY <2>3, <2>4, <2>5 DEF Register!Next
<1>7. CASE \E mask \in Arguments : Set(mask)
    BY <1>7, SetRaises
<1>8. CASE \E mask \in Arguments : Clear(mask)
    BY <1>8, ClearLowers
<1>9. CASE \E mask \in Arguments : Answer(Load(carried), mask)
    BY <1>9, AnswerTests
<1>10. CASE mpfr_flags_restore
    BY <1>10, RestoreRestores
<1>11. CASE mpfr_get_default_prec
    <2>1. PICK prev_set \in DefaultPrecs :
              Otherwise /\ defaultPrec' = IF prev_set < 1 THEN defaultPrec ELSE prev_set
        BY <1>11 DEF mpfr_get_default_prec
    <2>2. prev_set \in Int
        BY ArgumentsAssumption
    <2>3. defaultPrec' \in (DefaultPrecs \cup {53}) /\ defaultPrec' >= 1
        BY <2>1, <2>2 DEF TypeOK
    <2>4. QED BY <2>1, <2>3, OtherwiseTests DEF TypeOK
<1>12. QED
    <2>1. \/ \E F \in SUBSET AllFlags : Set(F) \/ Clear(F) \/ Answer(Load(carried), F)
          \/ mpfr_underflow_p \/ mpfr_inexflag_p \/ mpfr_clear_flags
          \/ mpfr_flags_set \/ mpfr_flags_clear \/ mpfr_flags_test
          \/ mpfr_flags_restore \/ mpfr_get_default_prec
        <3>1. \A f \in AllFlags : {f} \in SUBSET AllFlags
            OBVIOUS
        <3>2. AllFlags \in SUBSET AllFlags
            OBVIOUS
        <3>3. {"NAN", "DIVBY0", "OVERFLOW", "UNDERFLOW", "INEXACT", "ERANGE"} \subseteq AllFlags
            BY DEF AllFlags
        <3>4. CASE \/ mpfr_set_nanflag \/ mpfr_set_divby0 \/ mpfr_set_overflow
                   \/ mpfr_set_underflow \/ mpfr_set_inexflag \/ mpfr_set_erangeflag
            BY <3>1, <3>3, <3>4, Zenon
               DEF mpfr_set_nanflag, mpfr_set_divby0, mpfr_set_overflow,
                   mpfr_set_underflow, mpfr_set_inexflag, mpfr_set_erangeflag
        <3>5. CASE \/ mpfr_clear_nanflag \/ mpfr_clear_divby0 \/ mpfr_clear_overflow
                   \/ mpfr_clear_underflow \/ mpfr_clear_inexflag \/ mpfr_clear_erangeflag
            BY <3>1, <3>3, <3>5, Zenon
               DEF mpfr_clear_nanflag, mpfr_clear_divby0, mpfr_clear_overflow,
                   mpfr_clear_underflow, mpfr_clear_inexflag, mpfr_clear_erangeflag
        <3>6. CASE \/ mpfr_nanflag_p \/ mpfr_divby0_p \/ mpfr_overflow_p
                   \/ mpfr_erangeflag_p \/ mpfr_flags_save
            BY <3>1, <3>2, <3>3, <3>6, Zenon
               DEF mpfr_nanflag_p, mpfr_divby0_p, mpfr_overflow_p,
                   mpfr_erangeflag_p, mpfr_flags_save
        <3>7. QED BY <3>4, <3>5, <3>6 DEF Call
    <2>2. QED
        BY <2>1, <1>1, <1>2, <1>3, <1>4, <1>5, <1>6, <1>7, <1>8, <1>9, <1>10, <1>11
           DEF mpfr_flags_set, mpfr_flags_clear, mpfr_flags_test

\* Every step keeps the types and is a step of the register, or one that
\* the register does not see.
LEMMA Step ==
    ASSUME TypeOK, [Next]_vars
    PROVE  TypeOK' /\ [Register!Next]_(Register!vars)
<1>1. CASE Call
    BY <1>1, CallStep
<1>2. CASE NextCase
    BY <1>2, BeginBegins DEF NextCase
<1>3. CASE Respawn
    BY <1>3, BeginBegins DEF Respawn
<1>4. CASE UNCHANGED vars
    BY <1>4 DEF vars, TypeOK, Register!vars
<1>5. QED BY <1>1, <1>2, <1>3, <1>4 DEF Next

\* The initial states have the types, and are initial states of the register.
LEMMA InitStep == Init => TypeOK /\ Register!Init
<1> SUFFICES ASSUME Init PROVE TypeOK /\ Register!Init
    OBVIOUS
<1>1. carried \in Masks
    BY ArgumentsAssumption DEF Init
<1>2. call \in Register!Calls
    BY CalledIsACall DEF Init
<1>3. TypeOK
    BY <1>1, <1>2 DEF Init, TypeOK
<1>4. Register!Init
    BY DEF Init, Register!Init, Called
<1>5. QED BY <1>3, <1>4

\* The variables keep their types: above all, the register of flags.ts never
\* holds a bit of no flag, whatever the cases hand over.
THEOREM FlagsTypeCorrect == Spec => []TypeOK
<1>1. Init => TypeOK
    BY InitStep
<1>2. TypeOK /\ [Next]_vars => TypeOK'
    BY Step
<1>3. QED BY <1>1, <1>2, PTL DEF Spec

\* The operations implement the register of the C library, although the
\* register of flags.ts survives from one case into the next.
THEOREM FlagsImplementRegister == Spec => ImplementsRegister
<1>1. Init => Register!Init
    BY InitStep
<1>2. TypeOK /\ [Next]_vars => [Register!Next]_(Register!vars)
    BY Step
<1>3. QED BY <1>1, <1>2, FlagsTypeCorrect, PTL DEF Spec, ImplementsRegister, Register!Spec
=============================================================================
