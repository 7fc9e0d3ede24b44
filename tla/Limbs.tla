------------------------------- MODULE Limbs --------------------------------
(***************************************************************************)
(* The limb vectors of src/internal/mpn: numbers as arrays of words, least *)
(* significant first, and the loops that add, subtract, shift, compare and *)
(* divide them.  A behaviour is a sequence of calls; a step is one         *)
(* iteration of a loop.                                                    *)
(***************************************************************************)
EXTENDS Integers

CONSTANTS Base,       \* 2^LIMB_BITS
          Counts,     \* <<2^count, 2^(LIMB_BITS - count)>> for the counts of a shift
          MaxLimbs,   \* bound: the longest operand
          MaxPair     \* bound: the longest of two operands

ASSUME BaseAssumption == Base \in Nat /\ Base > 1
ASSUME BoundsAssumption == MaxLimbs \in Nat /\ MaxPair \in 0..MaxLimbs
ASSUME CountsAssumption ==
    \A c \in Counts : c \in Nat \X Nat /\ c[1] > 1 /\ c[2] > 1 /\ c[1] * c[2] = Base

Limb == 0..(Base - 1)
Vectors(n) == [0..(n - 1) -> Limb]
Empty == [k \in {} |-> 0]

\* What the first n limbs of s stand for.
Weight[k \in Nat] == IF k = 0 THEN 1 ELSE Weight[k - 1] * Base
Value(s, n) ==
    LET v[k \in 0..n] == IF k = 0 THEN 0 ELSE v[k - 1] + s[k - 1] * Weight[k - 1]
    IN  v[n]

VARIABLES
    pc,         \* where the call is
    call,       \* its routine and arguments
    i,          \* the loop index
    carry,      \* what an iteration hands to the next one: the carry, the borrow, the
                \* last limb read, what is left to unpack; in the end the scalar returned
    out,        \* the limbs written so far
    num, den,   \* the operands of a division, packed into numbers
    quot        \* its quotient, once it is unpacked

vars == <<pc, call, i, carry, out, num, den, quot>>

-----------------------------------------------------------------------------
(* Calls.                                                                  *)

\* The routine, the operands s1 and s2 with the limbs n and m to take of them,
\* the single limb x, the factors p and q of a shift, by how many limbs qxn a
\* dividend is extended.
NoCall == [fn |-> "none", s1 |-> Empty, s2 |-> Empty, n |-> 0, m |-> 0, x |-> 0,
           p |-> 1, q |-> Base, qxn |-> 0]

Adding == {"mpn_add_n", "mpn_add_1"}
Subtracting == {"mpn_sub_n", "mpn_sub_1"}
Paired == {"mpn_add_n", "mpn_sub_n", "mpn_cmp"}
LongDividing == {"mpn_divrem", "mpn_tdiv_qr"}
Dividing == LongDividing \cup {"mpn_divrem_1"}
Routines == Adding \cup Subtracting \cup {"mpn_lshift", "mpn_rshift", "mpn_cmp"} \cup Dividing

Init ==
    /\ pc = "idle" /\ call = NoCall
    /\ i = 0 /\ carry = 0 /\ out = Empty
    /\ num = 0 /\ den = 0 /\ quot = Empty

Enter(c, at, first, scalar) ==
    /\ pc' = at /\ call' = c /\ i' = first /\ carry' = scalar
    /\ UNCHANGED <<out, num, den, quot>>

Pair(fn, first(_)) ==
    pc = "idle" /\ \E n \in 0..MaxPair : \E s1 \in Vectors(n), s2 \in Vectors(n) :
        Enter([NoCall EXCEPT !.fn = fn, !.s1 = s1, !.s2 = s2, !.n = n, !.m = n],
              "loop", first(n), 0)
mpn_add_n == Pair("mpn_add_n", LAMBDA n : 0)
mpn_sub_n == Pair("mpn_sub_n", LAMBDA n : 0)
\* From the last limb down.
mpn_cmp == Pair("mpn_cmp", LAMBDA n : n)

\* The limb is what the first iteration is handed; where there is none, it is
\* lost, or becomes the borrow.
mpn_add_1 ==
    pc = "idle" /\ \E n \in 0..MaxLimbs, x \in Limb : \E s \in Vectors(n) :
        Enter([NoCall EXCEPT !.fn = "mpn_add_1", !.s1 = s, !.n = n, !.x = x],
              "loop", 0, IF n = 0 THEN 0 ELSE x)
mpn_sub_1 ==
    pc = "idle" /\ \E n \in 0..MaxLimbs, x \in Limb : \E s \in Vectors(n) :
        Enter([NoCall EXCEPT !.fn = "mpn_sub_1", !.s1 = s, !.n = n, !.x = x],
              "loop", 0, IF n = 0 /\ x > 0 THEN 1 ELSE x)

\* By a factor of p, with q what remains of a limb.
Shift(fn) ==
    pc = "idle" /\ \E n \in 1..MaxLimbs, c \in Counts : \E s \in Vectors(n) :
        Enter([NoCall EXCEPT !.fn = fn, !.s1 = s, !.n = n, !.p = c[1], !.q = c[2]],
              "loop", 0, 0)
mpn_lshift == Shift("mpn_lshift")
mpn_rshift == Shift("mpn_rshift")

mpn_divrem_1 ==
    pc = "idle" /\ \E n \in 0..MaxLimbs : \E qxn \in 0..(MaxLimbs - n), d0 \in Limb \ {0}, np \in Vectors(n) :
        Enter([NoCall EXCEPT !.fn = "mpn_divrem_1", !.s1 = np, !.n = n, !.x = d0, !.qxn = qxn],
              "pack_np", n, 0)
\* The divisor may be anything, 0 included.
Divide(fn) ==
    pc = "idle" /\ \E nn \in 1..MaxPair : \E dn \in 1..nn : \E np \in Vectors(nn), dp \in Vectors(dn) :
        Enter([NoCall EXCEPT !.fn = fn, !.s1 = np, !.s2 = dp, !.n = nn, !.m = dn],
              "pack_np", nn, 0)
mpn_divrem == Divide("mpn_divrem")
mpn_tdiv_qr == Divide("mpn_tdiv_qr")

-----------------------------------------------------------------------------
(* Carry loops: an iteration reads limb i and writes limb i.               *)

Looping(fns) == pc = "loop" /\ call.fn \in fns /\ i < call.n
Read == call.s1[i]
ReadPaired == IF call.fn \in Paired THEN call.s2[i] ELSE 0

Iterate(limb, scalar) ==
    /\ out' = [k \in 0..i |-> IF k = i THEN limb ELSE out[k]]
    /\ carry' = scalar /\ i' = i + 1
    /\ UNCHANGED <<pc, call, num, den, quot>>

Add ==
    /\ Looping(Adding)
    /\ LET sum == Read + ReadPaired + carry IN Iterate(sum % Base, sum \div Base)

Subtract ==
    /\ Looping(Subtracting)
    /\ LET diff == Read - ReadPaired - carry
       IN  Iterate(diff % Base, IF diff < 0 THEN 1 ELSE 0)

\* prev (the carry) is set before it is used.
ShiftLeftPrevFirst ==                                                \* mutant
    /\ Looping({"mpn_lshift"})
    /\ Iterate(((Read * call.p) % Base) + (Read \div call.q), Read)
\* The two parts of a limb have no bit in common: the bitwise or is a sum.
ShiftLeft ==
    /\ Looping({"mpn_lshift"})
    /\ Iterate(((Read * call.p) % Base) + (carry \div call.q), Read)

Following(k) == IF k + 1 < call.n THEN call.s1[k + 1] ELSE 0
ShiftRight ==
    /\ Looping({"mpn_rshift"})
    /\ Iterate((Read \div call.p) + ((Following(i) * call.q) % Base), 0)

\* From the first limb up.
CompareUp ==                                                         \* mutant
    /\ pc = "loop" /\ call.fn = "mpn_cmp" /\ i > 0
    /\ LET a == call.s1[call.n - i]  b == call.s2[call.n - i]
       IN  IF a = b THEN i' = i - 1 /\ UNCHANGED <<pc, carry>>
           ELSE /\ pc' = "returned" /\ carry' = (IF a > b THEN 1 ELSE -1)
                /\ UNCHANGED i
    /\ UNCHANGED <<call, out, num, den, quot>>
\* The limb that differs decides, and ends the loop.
Compare ==
    /\ pc = "loop" /\ call.fn = "mpn_cmp" /\ i > 0
    /\ LET a == call.s1[i - 1]  b == call.s2[i - 1]
       IN  IF a = b THEN i' = i - 1 /\ UNCHANGED <<pc, carry>>
           ELSE /\ pc' = "returned" /\ carry' = (IF a > b THEN 1 ELSE -1)
                /\ UNCHANGED i
    /\ UNCHANGED <<call, out, num, den, quot>>

Return ==
    /\ pc = "loop" /\ i = (IF call.fn = "mpn_cmp" THEN 0 ELSE call.n)
    /\ pc' = "returned"
    /\ carry' = CASE call.fn = "mpn_lshift" -> carry \div call.q
                  [] call.fn = "mpn_rshift" -> (call.s1[0] * call.q) % Base
                  [] OTHER -> carry
    /\ UNCHANGED <<call, i, out, num, den, quot>>

-----------------------------------------------------------------------------
(* Divisions: the operands are packed into numbers, most significant limb  *)
(* first, and quotient and remainder are unpacked.                         *)

PackNp ==
    /\ pc = "pack_np" /\ i > 0
    /\ num' = num * Base + call.s1[i - 1] /\ i' = i - 1
    /\ UNCHANGED <<pc, call, carry, out, den, quot>>

\* limbsToBigInt of dp is next, or the divisor is the single limb.
PackedNp ==
    /\ pc = "pack_np" /\ i = 0
    /\ num' = num * Weight[call.qxn]
    /\ IF call.fn = "mpn_divrem_1" THEN pc' = "divide" /\ den' = call.x /\ UNCHANGED i
       ELSE pc' = "pack_dp" /\ i' = call.m /\ UNCHANGED den
    /\ UNCHANGED <<call, carry, out, quot>>

PackDp ==
    /\ pc = "pack_dp" /\ i > 0
    /\ den' = den * Base + call.s2[i - 1] /\ i' = i - 1
    /\ UNCHANGED <<pc, call, carry, out, num, quot>>
PackedDp ==
    /\ pc = "pack_dp" /\ i = 0
    /\ pc' = "divide"
    /\ UNCHANGED <<call, i, carry, out, num, den, quot>>

\* A divisor of 0 throws.
DivideNumbers ==
    /\ pc = "divide"
    /\ IF den = 0 THEN pc' = "thrown" /\ UNCHANGED carry
       ELSE pc' = "unpack_q" /\ carry' = num \div den
    /\ UNCHANGED <<call, i, out, num, den, quot>>

\* Without the limbs the dividend was extended by.
QuotLimbsUnextended ==                                               \* mutant
    IF call.fn = "mpn_divrem_1" THEN call.n ELSE call.n - call.m + 1
QuotLimbs == IF call.fn = "mpn_divrem_1" THEN call.n + call.qxn ELSE call.n - call.m + 1

Unpack(limbs) == i < limbs /\ Iterate(carry % Base, carry \div Base)

UnpackQuotient == pc = "unpack_q" /\ Unpack(QuotLimbs)

\* What is left of the quotient is dropped.
UnpackedQuotient ==
    /\ pc = "unpack_q" /\ i = QuotLimbs
    /\ quot' = out /\ out' = Empty
    /\ i' = 0 /\ carry' = num % den
    /\ pc' = IF call.fn = "mpn_divrem_1" THEN "returned" ELSE "unpack_r"
    /\ UNCHANGED <<call, num, den>>

UnpackRemainder == pc = "unpack_r" /\ Unpack(call.m)

\* mpn_divrem returns the high limb of the quotient by itself.
ReturnQuotient ==
    /\ pc = "unpack_r" /\ i = call.m
    /\ pc' = "returned"
    /\ IF call.fn = "mpn_divrem"
       THEN /\ quot' = [k \in 0..(call.n - call.m - 1) |-> quot[k]]
            /\ carry' = quot[call.n - call.m]
       ELSE UNCHANGED <<quot, carry>>
    /\ UNCHANGED <<call, i, out, num, den>>

-----------------------------------------------------------------------------

\* The caller has its result.
NextCall ==
    /\ pc \in {"returned", "thrown"}
    /\ pc' = "idle" /\ call' = NoCall
    /\ i' = 0 /\ carry' = 0 /\ out' = Empty
    /\ num' = 0 /\ den' = 0 /\ quot' = Empty

Calling ==
    \/ mpn_add_n \/ mpn_sub_n \/ mpn_cmp \/ mpn_add_1 \/ mpn_sub_1
    \/ mpn_lshift \/ mpn_rshift \/ mpn_divrem_1 \/ mpn_divrem \/ mpn_tdiv_qr
Carrying == Add \/ Subtract \/ ShiftLeft \/ ShiftRight
Division ==
    \/ PackNp \/ PackedNp \/ PackDp \/ PackedDp \/ DivideNumbers
    \/ UnpackQuotient \/ UnpackedQuotient \/ UnpackRemainder \/ ReturnQuotient

Next == Calling \/ Carrying \/ Compare \/ Return \/ Division \/ NextCall

Spec == Init /\ [][Next]_vars

-----------------------------------------------------------------------------
(* Properties.                                                             *)

CallOK ==
    /\ call.fn \in Routines \cup {"none"}
    /\ call.n \in Nat /\ call.m \in Nat /\ call.m <= call.n /\ call.qxn \in Nat
    /\ call.s1 \in Vectors(call.n) /\ call.s2 \in Vectors(call.m)
    /\ call.x \in Limb
    /\ call.p \in Nat /\ call.q \in Nat /\ call.p > 0 /\ call.q > 0 /\ call.p * call.q = Base
    /\ call.fn \in Paired => call.m = call.n
    /\ call.fn \in {"mpn_lshift", "mpn_rshift"} => call.n > 0
    /\ call.fn \in LongDividing => call.m > 0 /\ call.qxn = 0
    /\ call.fn = "mpn_divrem_1" => call.x > 0

\* Every limb written is a limb.
TypeOK ==
    /\ pc \in {"idle", "loop", "pack_np", "pack_dp", "divide", "unpack_q", "unpack_r",
               "returned", "thrown"}
    /\ CallOK
    /\ i \in Nat /\ carry \in Int
    /\ num \in Nat /\ den \in Nat
    /\ quot \in [DOMAIN quot -> Limb] /\ out \in [DOMAIN out -> Limb]

\* The loops that add and subtract are exact after every iteration, for the
\* limbs they have passed, and so are the results; those of the shifts are with
\* the bits shifted out.  No carry or borrow is lost or counted twice, and none
\* but the single limb itself exceeds 1.
CarriesAreExact ==
    LET a == Value(call.s1, i)
        b == IF call.fn \in Paired THEN Value(call.s2, i) ELSE call.x
        r == Value(out, i)
    IN  /\ pc = "returned" /\ call.fn \notin Dividing \cup {"mpn_cmp"} => i = call.n
        /\ pc \in {"loop", "returned"} /\ (call.fn \in Paired \/ call.n > 0) =>
              /\ call.fn \in Adding => r + carry * Weight[i] = a + b
              /\ call.fn \in Subtracting => r - carry * Weight[i] = a - b
              /\ call.fn \in Adding \cup Subtracting /\ i > 0 => carry \in {0, 1}
        /\ pc = "returned" /\ call.fn = "mpn_lshift" =>
              a * call.p = r + carry * Weight[i] /\ carry \in 0..(call.p - 1)
        /\ pc = "returned" /\ call.fn = "mpn_rshift" =>
              a * call.q = r * Base + carry /\ carry \in Limb

\* mpn_cmp, which stops at the first limb that differs, returns the order of
\* the numbers.
ComparesNumbers ==
    pc = "returned" /\ call.fn = "mpn_cmp" =>
        LET a == Value(call.s1, call.n)  b == Value(call.s2, call.n)
        IN  carry = IF a > b THEN 1 ELSE IF a < b THEN -1 ELSE 0

\* What a division has been given and what it returns, as numbers.
N == Value(call.s1, call.n) * Weight[call.qxn]
D == IF call.fn = "mpn_divrem_1" THEN call.x ELSE Value(call.s2, call.m)
Q == IF call.fn = "mpn_divrem"
     THEN Value(quot, call.n - call.m) + carry * Weight[call.n - call.m]
     ELSE Value(quot, QuotLimbs)
R == IF call.fn = "mpn_divrem_1" THEN carry ELSE Value(out, call.m)

\* A quotient fits into the limbs there are for it when the divisor has no zero
\* limbs at its end, and then it and the remainder make the dividend again; the
\* high limb is at most 1 if the divisor is normalised.
QuotientsAreExact ==
    pc = "returned" /\ call.fn \in Dividing =>
        /\ R < D
        /\ (call.fn \in LongDividing => call.s2[call.m - 1] > 0)
           => Q * D + R = N
        /\ call.fn = "mpn_divrem" /\ 2 * call.s2[call.m - 1] >= Base => carry \in {0, 1}

=============================================================================
