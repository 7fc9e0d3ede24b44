----------------------------- MODULE GoldenWire -----------------------------
(***************************************************************************)
(* The wire between the C drivers that write golden files and the harness  *)
(* that reads them: the emitters of eval/golden_master/common.h, and the   *)
(* decoder of eval/harness/value_codec.ts with buildInputArgs of           *)
(* runner.ts.                                                              *)
(*                                                                         *)
(* A value is known by its class.  That of a floating-point value is its   *)
(* kind (as core.ts calls it), with its sign or size where somebody tells  *)
(* values apart by them; that of an integer is its sign.                   *)
(***************************************************************************)
EXTENDS Integers, Sequences, FiniteSets, TLC

-----------------------------------------------------------------------------
(* Classes of floating-point values.                                       *)

NaN == {"nan"}
Inf == {"inf"}
Zero == {"zero"}
Normal == {"normal"}
Kinds == NaN \cup Inf \cup Zero \cup Normal
Numbers == Kinds \ NaN
Finite == Zero \cup Normal
Singular == Kinds \ Normal

\* With signs.
Infs == {"+inf", "-inf"}
Zeros == {"+0", "-0"}
Normals == {"+", "-"}
SignedFinite == Zeros \cup Normals
SignedNumbers == Infs \cup SignedFinite
Signed == NaN \cup SignedNumbers

\* Normal values by size: below a half, a half, between a half and 1, 1 and
\* more with a fraction, an integer.
Positives == {"+small", "+half", "+big", "+tail", "+int"}
Negatives == {"-small", "-half", "-big", "-tail", "-int"}
Sized == Positives \cup Negatives
Integers == {"+int", "-int"}
Tails == {"+tail", "-tail"}
Large == Integers \cup Tails
Fractions == Sized \ Large
Special == NaN \cup Infs \cup Zeros
SizedNumbers == Infs \cup Zeros \cup Sized
SizedValues == NaN \cup SizedNumbers

Negative == {"-inf", "-0", "-"} \cup Negatives
Values == Kinds \cup Signed \cup Sized

KindOf(v) ==
    CASE v = "nan" -> "nan"
      [] v \in Infs \cup {"inf"} -> "inf"
      [] v \in Zeros \cup {"zero"} -> "zero"
      [] v \in Normals \cup Sized \cup {"normal"} -> "normal"
SignsOf(v) == CASE v = "nan" -> {1}
                [] v \in Kinds \ {"nan"} -> {1, -1}
                [] v \in Values \ Kinds -> {IF v \in Negative THEN -1 ELSE 1}
Float(kind, sign) == [kind |-> kind, sign |-> sign]
Floats(S) == UNION {{Float(KindOf(v), s) : s \in SignsOf(v)} : v \in S}

\* Infinities with signs, the others by kind.
SignedSummands == Infs \cup Finite
Summands == NaN \cup SignedSummands

\* Classes of integers: by sign, with powers of two or what a long does not
\* hold apart where somebody tells them apart.
Unsigned == {"0", "+"}
Nonzero == {"+", "-"}
Integral == Unsigned \cup Nonzero
Powers == {"1", "2^k"}
Natural == Unsigned \cup Powers

\* A sign is "+" for 1, "-" for -1, "0" for anything else; an exponent is "far"
\* within 1000 of the ends of the range or past them, where drivers keep away from.
Exponents == Integral \cup {"far"}

\* How two operands compare, or a rounded result with the exact one.
Less == {"<"}
Same == {"="}
Greater == {">"}
Unequal == Less \cup Greater
Ordered == Unequal \cup Same
Unordered == {"?"}

Rnds == {"RNDN", "RNDZ", "RNDU", "RNDD", "RNDA"}
PREC_MAX == 2147483647 - 256
\* What the drivers allocate at most, where they say so.
MAX_ALLOC_PREC == 65536

\* Tuples of k precisions; a single one in the range of both sides; all equal.
Precs(k, S) == [1..k -> S]
AnyPrec == Precs(1, 1..PREC_MAX)
Alike(k, S) == {[i \in 1..k |-> p] : p \in S}
NoPrec == {<<>>}

-----------------------------------------------------------------------------
(* A JSON value: a text in quotes by what it looks like to the decoder, a  *)
(* bare number or boolean, an array of texts, an MPFR record.              *)

Text(looks, v) == [json |-> "string", looks |-> looks, val |-> v]
Bare(type, v) == [json |-> type, looks |-> type, val |-> v]
Array(looks, v) == [json |-> "array", looks |-> looks, val |-> v]
\* prec, exp and mant of a record are 0 or not.
Object(kind, sign, prec, exp, mant) ==
    [json |-> "object", looks |-> kind,
     val |-> [sign |-> sign, prec |-> prec, exp |-> exp, mant |-> mant]]

jl_kv_u64(v) == Text("integer", v)
jl_kv_i64(v) == Text("integer", v)
jl_kv_int(v) == Bare("number", v)
jl_kv_bool(v) == Bare("boolean", v)
\* Every limb is a text of decimal digits.
jl_kv_limbs(v) == Array("integer", v)
jl_kv_str(v) == Text("word", v)
\* A helper that drivers with an mpz_t operand bring along.
jl_kv_mpz(v) == Text("integer", v)

\* %.17g prints some doubles without a point or an exponent.
Printed(x) == IF x.kind = "zero" THEN {"integer"} ELSE {"integer", "decimal"}
Sentinel(x) == CASE x.kind = "nan" -> "NaN"
                 [] x.kind = "inf" -> IF x.sign = 1 THEN "+Infinity" ELSE "-Infinity"
\* What was printed goes out as it is.
jl_kv_double_as_printed(v) ==                                        \* mutant
    UNION {IF x.kind \in {"nan", "inf"} THEN {Text(Sentinel(x), x)}
           ELSE {Text(form, x) : form \in Printed(x)} : x \in Floats({v})}
jl_kv_double(v) ==
    LET needs_decimal(form) == form = "integer"
    IN  UNION {IF x.kind \in {"nan", "inf"} THEN {Text(Sentinel(x), x)}
               ELSE {Text(IF needs_decimal(form) THEN "decimal" ELSE form, x) :
                        form \in Printed(x)} : x \in Floats({v})}

\* A rounding mode without a name ends the driver.
jl_kv_rnd(v) == IF v \in Rnds THEN {Text("mode", v)} ELSE {}

\* The precision of an infinity and of a zero is written, that of a NaN is not.
jl_kv_mpfr(v) ==
    {Object(x.kind, x.sign, IF x.kind = "nan" THEN "0" ELSE "+",
            IF x.kind = "normal" THEN "+" ELSE "0",
            IF x.kind = "normal" THEN "+" ELSE "0") : x \in Floats({v})}

\* What a jl_kv call of the type may write for a value of the class.
Jl(type, v) ==
    CASE type = "mpfr" -> jl_kv_mpfr(v)
      [] type = "double" -> jl_kv_double(v)
      [] type = "rnd" -> jl_kv_rnd(v)
      [] type = "u64" -> {jl_kv_u64(v)}
      [] type = "i64" -> {jl_kv_i64(v)}
      [] type = "int" -> {jl_kv_int(v)}
      [] type = "bool" -> {jl_kv_bool(v)}
      [] type = "limbs" -> {jl_kv_limbs(v)}
      [] type = "str" -> {jl_kv_str(v)}
      [] type = "mpz" -> {jl_kv_mpz(v)}

-----------------------------------------------------------------------------
(* An emit_case: the jl_kv calls between jl_begin and jl_end_inputs in     *)
(* their order, each with its flag `first', then the output call.          *)

Kv(first, type, key) == [first |-> first, type |-> type, key |-> key]
Emits(inputs, output) ==
    [inputs |-> inputs, output |-> output, barred |-> {}, precs |-> Seq(Nat)]
\* Its asserts, and those of the helpers that make its operands, fail for the
\* operands barred and outside the precisions.
Asserts(emit, barred, precs) == [emit EXCEPT !.barred = barred, !.precs = precs]
\* The inputs of an operation that rounds end with these two.
PrecRnd == <<Kv(0, "u64", "prec"), Kv(0, "rnd", "rnd")>>
Emits1(x, output) == Emits(<<Kv(1, "mpfr", x)>>, output)
Emits2(a, b, output) == Emits(<<Kv(1, "mpfr", a), Kv(0, "mpfr", b)>>, output)
Rounds1(x) == Emits(<<Kv(1, "mpfr", x)>> \o PrecRnd, "result")
Rounds2(a, type, b) == Emits(<<Kv(1, "mpfr", a), Kv(0, type, b)>> \o PrecRnd, "result")

\* A comma goes before every key but a first one: the object is well formed
\* when exactly the first call says it is the first.
jl__key(inputs) == \A i \in DOMAIN inputs : inputs[i].first = (IF i = 1 THEN 1 ELSE 0)

-----------------------------------------------------------------------------
(* The decoder.                                                            *)

Is(type, v) == [type |-> type, val |-> v]
Error == Is("error", Float("error", 1))

\* validate throws when the fields do not go with the kind.
decodeMpfr(w) ==
    LET f == w.val
        valid == /\ f.prec = "+"
                 /\ IF w.looks = "normal" THEN f.mant = "+" ELSE f.exp = "0" /\ f.mant = "0"
    IN  IF w.looks = "nan" THEN Is("MPFR", Float("nan", 1))
        ELSE IF valid THEN Is("MPFR", Float(w.looks, f.sign)) ELSE Error

decodeInputValue(raw) ==
    CASE raw.json \in {"number", "boolean"} -> Is(raw.json, raw.val)
      [] raw.json = "string" ->
            (CASE raw.looks = "mode" -> Is("RoundingMode", raw.val)
               [] raw.looks = "integer" -> Is("bigint", raw.val)
               [] raw.looks \in {"NaN", "+Infinity", "-Infinity", "decimal"} -> Is("number", raw.val)
               [] raw.looks = "word" -> Is("string", raw.val))
      [] raw.json = "array" -> Is("bigint[]", raw.val)
      [] raw.json = "object" -> decodeMpfr(raw)

\* The arguments by the names spec.json lists, in its order: what may reach the
\* port for a case; nothing for a name the record does not have.
buildInputArgs(inputs, case, params) ==
    [k \in DOMAIN params |->
        UNION {{decodeInputValue(raw) : raw \in Jl(inputs[i].type, case[i])} :
                  i \in {i \in DOMAIN inputs : inputs[i].key = params[k].key}}]

\* What the output call writes, after decodeExpectedOutput, against a result of
\* the port's type: a bigint may stand for an integral number.
compareOutput(output, result) ==
    CASE output = "result" -> result = "Result"
      [] output = "mpfr" -> result = "MPFR"
      [] output \in {"u64", "i64"} -> result \in {"bigint", "number"}
      [] output \in {"int", "double"} -> result = "number"
      [] output = "bool" -> result = "boolean"
      [] output = "str" -> result = "string"
      \* A text of decimal digits.
      [] output = "decimal" -> result = "bigint"
      [] output = "object" -> result = "object"

-----------------------------------------------------------------------------
(* A port: its parameters, its result, the operands for which it throws,   *)
(* the precisions outside which it does, and the guards of its returns in  *)
(* the order it tests them.                                                *)

Param(key, type) == [key |-> key, type |-> type]
\* validateArgs: a port with a target precision takes any in the range.
Port(params, result, throws, returns) ==
    [params |-> params, result |-> result, throws |-> throws, returns |-> returns,
     precs |-> IF \E k \in DOMAIN params : params[k].key = "prec" THEN AnyPrec ELSE Seq(Nat)]
\* One that says more of the precisions.
Needs(port, precs) == [port EXCEPT !.precs = precs]
RoundsTo == <<Param("prec", "Prec"), Param("rnd", "RoundingMode")>>
Mpfrs(keys) == [k \in DOMAIN keys |-> Param(keys[k], "MPFR")]

\* Sets of operands.
One(S) == {<<v>> : v \in S}
Either(S, T) == (S \X T) \cup (T \X S)

\* The runtime values that a parameter of the type takes.
Takes(type) ==
    CASE type = "MPFR" -> {Is("MPFR", x) : x \in Floats(Kinds)}
      [] type = "Double" -> {Is("number", x) : x \in Floats(Kinds)}
      [] type \in {"Prec", "ULong"} -> {Is("bigint", v) : v \in Natural}
      [] type = "Long" -> {Is("bigint", v) : v \in Natural \cup Exponents}
      [] type = "BigInt" -> {Is("bigint", v) : v \in Natural \cup Integral \cup {"huge"}}
      [] type = "Int" -> {Is("number", v) : v \in Integral}
      [] type = "Boolean" -> {Is("boolean", v) : v \in {"TRUE", "FALSE"}}
      [] type = "RoundingMode" -> {Is("RoundingMode", v) : v \in Rnds}
      [] type = "Limbs" -> {Is("bigint[]", v) : v \in {"n", "empty"}}
      [] type = "String" -> {Is("string", "word")}

-----------------------------------------------------------------------------
(* A section of a driver's main: how many cases it emits under one tag,    *)
(* the precisions that an assert or the port looks at (of the target, of   *)
(* the operands; the ones that occur, or the ranges they span), the        *)
(* rounding modes and the operands.                                        *)

Section(tag, n, precs, rnds, operands) ==
    [tag |-> tag, n |-> n, precs |-> precs, rnds |-> rnds, operands |-> operands]
Happy(n, precs, rnds, operands) == Section("happy", n, precs, rnds, operands)
Edge(n, precs, rnds, operands) == Section("edge", n, precs, rnds, operands)
Adversarial(n, precs, rnds, operands) == Section("adversarial", n, precs, rnds, operands)
Fuzz(n, precs, rnds, operands) == Section("fuzz", n, precs, rnds, operands)
Mined(n, precs, rnds, operands) == Section("mined", n, precs, rnds, operands)
\* Of a function that does not round.
NoRnd == {}

\* An operand tuple may go on after the operands, with what else is known of
\* the case.  What decides about a call: that tuple and the rounding mode.
Calls(section) ==
    {o \o r : o \in section.operands,
              r \in IF section.rnds = {} THEN {<<>>} ELSE One(section.rnds)}
\* What emit_case writes of a call, key by key: a precision, which is positive; the
\* mode; the next operand.
Written(emit, call) ==
    LET inputs == emit.inputs
        precs == {i \in DOMAIN inputs : inputs[i].key \in {"prec", "iprec", "fprec"}}
        modes == {i \in DOMAIN inputs : inputs[i].type = "rnd"}
    IN  [i \in DOMAIN inputs |->
            IF i \in precs THEN "+" ELSE IF i \in modes THEN call[Len(call)]
            ELSE call[Cardinality((1..i) \ (precs \cup modes))]]
\* The call begins with a tuple of S.
Among(call, S) == \E k \in 0..Len(call) : SubSeq(call, 1, k) \in S

\* What a class stands for when it arrives.
Meant(type, v) == IF type \in {"mpfr", "double"} THEN Floats({v}) ELSE {v}
\* The record of a case reaches the port as the arguments the driver meant, all
\* of types and in ranges that the port takes.
ReadAs(emit, port, case) ==
    LET inputs == emit.inputs
        args == buildInputArgs(inputs, case, port.params)
    IN  /\ jl__key(inputs)
        /\ \A k \in DOMAIN args :
              /\ args[k] # {}
              /\ args[k] \subseteq Takes(port.params[k].type)
              /\ \A i \in DOMAIN inputs :
                    inputs[i].key = port.params[k].key =>
                        {a.val : a \in args[k]} = Meant(inputs[i].type, case[i])
        /\ compareOutput(emit.output, port.result)

\* The return a port takes for a call: the first guard that admits it.
Return(port, call) ==
    CHOOSE i \in DOMAIN port.returns :
        /\ Among(call, port.returns[i])
        /\ \A j \in 1..(i - 1) : ~Among(call, port.returns[j])

\* A driver and the port it is for.
Driver(emit, sections, port) == [emit |-> emit, sections |-> sections, port |-> port]

=============================================================================
