# TLA+ verification of mpfr-ts

mpfr-ts is a TypeScript port of the MPFR library for multiple-precision
floating-point arithmetic, together with the machinery that produced it: a
harness that grades a port against golden files in worker threads, and a driver
that selects functions to port, has agents write them, records grades in a
database and ships what passes, and C drivers that make the golden files. This directory holds TLA+ models of the parts
whose correctness is hard to test, TLC configurations that check them on small
instances, and TLAPS proofs of what holds for every instance. Paths below are
those of the repository.

Contents: [the system](#the-system) · [what is hard](#what-is-hard) ·
[modules](#modules) · [runs](#runs) · [fairness](#fairness) ·
[proofs](#proofs) · [disagreements found](#disagreements-with-comments-and-docs) ·
[not modelled](#not-modelled) · [plan](#plan) · [how to run](#how-to-run)

## The system

| Component | Where | State | Operations | Correct means |
|---|---|---|---|---|
| Worker pool | `eval/harness/runner.ts` (`gradeCases`, `spawnWorker`, `dispatchCase`), `worker.ts` | `workers[]`, `nextCase`, sparse `outcomes[]`, timers, one Bun `Worker` thread per slot | spawn, dispatch, reply, timeout, crash, respawn, drain, return | one final verdict per case, from that case's own reply; no thread outlives the run; the run ends |
| Golden making | `eval/golden_master/{run_all.sh,common.h}`, `eval/functions/*/golden_driver.c` | one `golden.jsonl` per function | run, `--force`, crash, timeout, remove; emit a section | a file at rest is whole; no assert stops a driver; a right port takes every case; the cases reach every branch of the port |
| Scoring, golden parsing, value codec | `runner.ts` (`parseGolden`, `buildInputArgs`, `computeComposite`, `assembleGrade`), `value_codec.ts` | none | pure | a value is read as it was written; a right port passes, a wrong one does not |
| AST gate | `ast_check.ts` | none | pure | forbidden imports found |
| Porting loop | `eval/driver/ralph.py`, `schema.sql` | `state.db` (functions, runs), `/tmp/eval_<fn>/port.ts`, working tree, git | `--next`, `--grade`, `--ship`, `--commit-batch` | `done` is earned and final; nothing reaches git that the database does not call done |
| Call graph, prompts, specs | `callgraph.py`, `prompts.py`, `gen_spec.py`, `validate_specs.py` | JSON files | text extraction and generation | - |
| Agents | `opencode_runner.py`, `run_deepseek_port.py` | scratch ports | one subprocess, one answer | - |
| Mutation proving, calibration | `mutate.py`, `mutators.ts`, `calibrate.py` | reports | sequential grading of mutants | - |
| Value type, rounding | `src/core.ts`, `src/internal/mpfr/round_raw.ts`, `cmp_raw.ts` | none: values are immutable | construct, validate, round, compare | a normal value has a mantissa of exactly `prec` bits; rounding is correct |
| Arithmetic | `src/ops/{add,sub,mul,div,sqrt,set,set4,neg,abs,copysign}.ts` | none | pure | the exact result rounded once, with its ternary value |
| Order, selection, neighbours | `src/ops/{cmp*,*_p,eq,max,min,next*}.ts` | none | pure | one order, adjacent neighbours |
| Exponent range | `src/ops/{check_range,overflow,underflow,setmax,setmin}.ts` | none | pure | no double rounding |
| Flags, default precision | `src/internal/mpfr/{flags,get_default_prec}.ts`, 24 files of `src/ops` | module variables `_flags`, `_defaultPrec`, alive as long as the worker | set, clear, test, save, restore | like the C register |
| Integer operands, scaling, `dim` | `src/ops/{add,sub,mul}_{ui,si,z}.ts`, `{mul,div}_2*.ts`, ... | none | pure | like the operations on values |
| Rounding to an integer | `src/ops/{rint,round,trunc,floor,ceil,frac,modf,...}.ts` | none | pure | one rounding onto the integers; parts that make the value again |
| Double operands, conversions | `src/ops/*_d.ts`, `get_*.ts`, `set_*.ts` | none | pure | like the basic operations; round trips |
| One, two and three limb routines | `src/ops/{add1sp*,sub1sp*,mul_1*,...}.ts` | none | pure | agree with the unbounded arithmetic |
| Limb vectors | `src/internal/mpn` | arrays of words inside a call | carry and borrow loops, shifts, comparison, division | exact, whatever the length |
| File format, accessors, build options | `src/ops` | none | pure | - |
| Reference ports, acceptance data | `eval/` | data | - | - |

How they interact. `run_all.sh` builds a golden file per function by running its
driver, which calls the C library and prints one JSON line per case;
`ralph.py --grade` starts `runner.ts` as a subprocess with a
golden file and a port; the runner parses whatever the golden file holds at that
moment, decodes its values by what they look like, spawns a pool of workers,
each of which imports the port (and with it the library modules, whose module
variables it then keeps), and sends them cases as messages. The grade comes back
as JSON on stdout; `ralph.py` writes it to `state.db`. `--ship` grades a batch,
copies the scratch ports into `src/` and commits. `--next` reads `state.db` and
the call graph and seeds new rows. Several invocations and several agents may be
at work at once; they share the database, the scratch directories, the working
tree and the git index, and no lock but SQLite's.

## What is hard

`PROJECT.json` lists the hazards line by line. In short:

- drive loops share `nextCase` and `outcomes` across awaits, while workers
  hang, crash, answer late or fail to start; `nextCase < cases.length` is read
  before the await of the respawn and may be false after it;
- an invocation of the driver can be killed between a transaction, a copy and
  a git command, while another works on the same functions and an agent
  rewrites the port that was just graded;
- exact ties, carries into a new binade, the last bit of a quotient or root,
  the sign of an exact zero, double rounding at the ends of the exponent range;
- module variables that survive from one graded case to the next;
- a driver that crashes in the middle of its tables leaves part of a golden, and
  part of a golden grades like a whole one; so does a golden whose tables,
  written by hand, never take some branch;
- `run_all.sh` takes no lock: an invocation may truncate the golden another one is
  writing, or remove the one another has just reported as generated; and neither
  the script nor a driver looks whether what was printed has reached the file;
- a carry or borrow through all the limbs, a mask that is left out, a quotient
  with more limbs than there are for it.

## Modules

### Grading pool

`GradePool` models `gradeCases` with the slots' `drive` loops and their workers.
The parent is one event loop, so an action of a slot is the code between two
awaits; a worker shares nothing with it but the messages in `mail`.

| Model | Code |
|---|---|
| `pc[s]`: spawn, ready, rejected, loop, await, respawn, done | where slot `s`'s promise chain is: `spawnWorker`, loop head of `drive`, `dispatchCase`, `spawnWorker` again, returned |
| `worker`, `alive`, `mode`, `spawned` | the `Worker` a slot holds, the threads not terminated, what they do |
| `claim`, `nextCase`, `outcomes` | `idx`, the shared index (from 1 here), the sparse array |
| `nature` | what the port does with each case: right, wrong, throws, loops for ever; or the line's values cannot be decoded |
| `SpawnReady`, `SpawnReject` | the initial `Promise.all` |
| `Claim`, `LeaveWithoutWorker` | the loop head |
| `Reply`, `Timeout`, `Crash` | the outcomes of `dispatchCase`, with the `Replace` of a lost worker |
| `RespawnReady`, `RespawnFail` | the respawn, and the drain of the queue when it fails |
| `WorkerInit`, `WorkerReply`, `WorkerCrash` | the message handler of `worker.ts`, and the runtime |
| `Drop` | a message that finds no handler, or one that ignores it |

Messages of a terminated worker may still be in `mail`. Timers are not clocks:
an armed timer may fire at any moment, which covers every budget. A worker may
crash at any point at which it can run code at all.

`Grading` is the promise to the caller: either the run is given up with nothing
judged, or every case gets one final verdict, passing only if the port is right.
`GradePool` implements it (`ImplementsGrading`).

### Porting loop

`RalphLoop` models concurrent invocations as processes; a step is one
transaction, one subprocess, one file copy or one git command. `Killed` may come
between any two. A port is abstracted to the composite the runner would give it,
so `scratch`, `tree`, `index`, `head` and `remote` are functions from a function
name to a composite; whether a port passes is all the loop can tell.

| Model | Code |
|---|---|
| `status`, `runs`, `best` | tables `functions` and `runs` |
| `scratch`, `tree`, `index`, `head`, `remote` | `/tmp/eval_<fn>/port.ts`, the canonical file, and the stages of git |
| `inv[p]` | mode, arguments and locals of a process |
| `Select`, `Seed` | `run_next`: candidates from a snapshot, rows seeded by a second connection |
| `Resolve`, `Run`, `Record`, `EndGrading` | `_grade_one` and its loops |
| `Promote`, `EndPromote`, `Export`, `Add`, `Commit`, `Push` | `run_ship` steps 4 and 5, `run_commit_batch` |
| `AgentWrites`, `Killed` | agents and the operating system (external) |

### Golden files

`GoldenMaster` models the golden file of one function: several invocations of
`run_all.sh`, each with its driver, which may overlap in any way, and the harness
that grades a port against the file at any moment, whoever is writing to it. What
drivers and ports there are is the constant `Drivers`: a function's driver is the
sections of cases it emits, in their order, with what `emit_case` writes and
asserts; its port is the types of its parameters, what it throws for, and its
returns with the conditions under which the code comes to them. A port under the
grade is right, or wrong in one of its returns.

| Model | Code |
|---|---|
| `path` | the file that the name `golden.jsonl` stands for; a file is known by the invocation that created it, so one that was removed, and is still written to, and a new one of the same name are two files |
| `pc[s]`: start, checked, driver, orphan, failed, ended | where an invocation is: before the test for the file, before the redirection, with its driver running, killed while the driver goes on, before `rm`, done |
| `out[s]`, `at[s]` | the file its driver has open, and the sections it has emitted |
| `writer`, `spoilt`, `torn` | per file: who truncated it last; whether since then a write was lost or came from another driver; whether its writer died with no script left to see it |
| `aborted` | an assert has failed |
| `Check` | skip a golden that exists unless `--force` (`run_all.sh:53`) |
| `Open`, `OpenFails` | the redirection (`:61`), some time later: creates, or truncates what is there by then; or fails |
| `EmitSection`, `Generated`, `DriverDies` | `main` of a driver over `emit_case`: a section, or an assert that fails; exit code 0, which is all the script asks (`:64`); a crash or the timeout of 60 s |
| `RemovePartial` | `rm -f` (`:74`), which removes whatever has the name |
| `Killed` | the operating system: the script with its driver, or without it |
| `AssertsHold`, `Accepted`, `Taken` | what the records of a section do to the asserts, to the decoder and the port's refusals, and which returns they take |
| `Passes`, `Legible`, `Settled` | the composite of `runner.ts` over what the file holds; the file holds what its writer alone has written; nobody writes to it, and nobody was killed over it |

`GoldenWire` is the way of one value: the `jl_kv_*` emitters of `common.h` to a
JSON value, known by its form; `decodeInputValue` and `buildInputArgs` from that
to a runtime value; `compareOutput` on the way back. Values are classes: the kind
of a float with its sign, or its size, where a port or an assert tells values
apart by them. A driver that prints 1 for a double would be read as a `bigint`,
which is why the form matters.

`GoldenOrder`, `GoldenArith`, `GoldenMixed`, `GoldenRound`, `GoldenWords` and
`GoldenConv` hold the 116 drivers and their ports by family. A section says how
many cases it has, the tuples of precisions and the modes that occur, and the
classes of the operands in its tables. The sets are those of the records that the
driver emits, those of its loops over random operands included: the generators
start from fixed seeds, so the records are the same in every run.

- Asserts. `emit` bars operands by kind and sign and gives the precisions that
  pass, from the asserts of `emit_case` and of the helpers that build operands:
  that the precisions are equal, that they are those of one limb or of at most
  eight, that a word's precision is in 1..64. Asserts on something a helper has
  just computed from its own arguments (that what it built is regular, that a
  magnitude is positive) are not modelled.
- Refusals. `port` has the kinds and signs of operands, and the precisions, for which
  the code throws before it computes.
- Returns. The condition of a return is a set of tuples of classes. For `add`, `sub`,
  `mul` and `div` and what goes through them these are kinds and signs; the comparisons
  return by sign, by exponent and by mantissa in places of their own. For the limb
  routines the tuple ends with how the exponents are aligned and how the result
  comes about: exact, cut, away from zero, carried to the next power of two,
  overflow before rounding and in rounding, underflow, cancellation. Returns that the
  code itself calls unreachable are left out.

`MixedGaps`, `WordsGaps` and `ConvGaps` name the returns that no case takes.
`WrongPortFails` says "exactly for": a return that is reached must not be listed, one
that is not must be.

### Numeric library

`Mpfr` has the values (`kind`, `sign`, `prec`, `exp`, `mant`), `validate`,
`roundMantissa`, the comparison; `Arith`, `Ordering`, `ExponentRange`, `Integral`
(rounding to an integer) and `Mixed` (integer operands, scalings, `dim`) the
operations, one TLA+ function of values per TypeScript function. The
TypeScript computes on unbounded `bigint`, so TLA+ integers are exact, and the
maximal precision and the exponent bounds are parameters (`PREC_MAX`,
`EMAX_DEFAULT`), as is the width of a long (`LONG_BITS`, which decides which
routine `mpfr_add_z` and its like go through and which operands throw). `Exact` compares with the exact real result by cross
multiplication, without rounding anything, and is the reference for correct
rounding: it shares no definition with the code it judges.

`Calculator` is a program with two registers that applies any operation to them,
storing the result in the first (`modf` fills both; an integer operand is the
value of the second): its reachable states are the values that
sequences of calls can produce. Its invariants apply every operation under test
to the registers, at every output precision and in every rounding mode.
`WalkSpec` is a program that calls `nexttoward` over and over.

### Flags

`WorkerFlags` has the register of `flags.ts` and the default precision, which
live as long as the worker, and all 24 flag operations. Each is a port of a C
function on a global register that takes the register as an argument and returns
it. `carried` is the register as the calling case knows it; a case hands over
any bigint (`Arguments`): bits that are no flags and the sign are two elements of
a mask. `NextCase` brings a case to a worker that has run others, `Respawn` to a
new one. `FlagRegister` is the register of the C library, and the operations
implement it under `reg <- carried \cap AllFlags`, whatever is left in `_flags`.

### Limb vectors

`Limbs` has the loops of `src/internal/mpn` as a machine: a call sets the
operands, a step is one iteration, and the machine returns to idle. `Base` is
2^`LIMB_BITS`, and a shift by `count` bits multiplies by `p` where `p * q = Base`,
so `x & LIMB_MASK` is `x % Base` and `x >> LIMB_BITS` is `x \div Base`, also for
the negative differences of `sub_n.ts`.

| Model | Code |
|---|---|
| `call`, `i`, `out` | arguments, loop index, `result` as far as it is written |
| `carry` | `carry`, `borrow`, `prev`, `remaining`; in the end the scalar returned |
| `num`, `den`, `quot` | the bigints that `divrem_1.ts` and `divrem.ts` pack, the limbs of the quotient |
| `Add`, `Subtract`, `ShiftLeft`, `ShiftRight`, `Compare`, `Return` | loop bodies and ends of `add_n`, `add_1`, `sub_n`, `sub_1`, `lshift`, `rshift`, `cmp` |
| `PackNp` ... `ReturnQuotient` | `divrem_1.ts`; `limbsToBigInt`, division and `bigIntToLimbs` of `divrem.ts`; the return of `divrem.ts` and of `tdiv_qr.ts` |

The machine is its own record of what has been done: the value of the limbs read
and of the limbs written are functions of `call`, `i` and `out`.

## Runs

| Run | Instance | Shows |
|---|---|---|
| `pool` | 2 slots, 3 cases, 4 golden files | `QueueAccounted` no case lost or handed out twice; `NoHoles`; `OwnReply` no foreign or late reply credited; `Owned`, `AllTerminated`, `SpawnBudget` threads; `VerdictFinal`; `GradingEnds`; `ImplementsGrading`; in `TypeOK` that the queue index passes its end by at most one per slot |
| `ralph_safe` | 2 processes, 2 invocations, `b` depends on `a`, batches `<<a, b>>` and `<<b>>`, `b` not findable in the tree and `blocked` at first | `DoneHasPassingRun`, `PublishedIsDone` (git never ahead of the database), `PromotesDoneBatches` |
| `ralph_next` | 2 processes, 3 invocations of `--next` and `--grade` | `SeedsReady` although selection and seeding are apart; `DoneIsFinal`; `GradingReturns` |
| `arith` | precisions 1..3, exponents -2..2 | `TypeOK` (every stored value passes `validate`), `AddIsCorrect`, `MulIsCorrect`, `DivIsCorrect`, `CheckRangeIsCorrect`; `SpecialsAgree` (mirrored operands and modes; special operands of `div` and `mul`), `OrdersAgree` (comparisons, differences, `max` and `min`, neighbours), `MixedAgree` (integer operands and scalings against the operations on values) |
| `walking` | precisions 1..6, exponents -2..2, targets of at most 2 bits | `SqrtIsCorrect`, `IntegralIsCorrect`, `PartsRecombine`; `WalkArrives`, `WalkNeverPasses` |
| `flags` | masks with no, one, some and all flags, foreign bits and a sign | `TypeOK` (`_flags` holds flags only), `ImplementsRegister` |
| `golden` | 116 drivers, 2 overlapping invocations of `run_all.sh` | `TypeOK`; `RestsWhole` (a file nobody is at work on is whole unless another driver wrote to it, a write was lost or a script was killed); `NoAssertFails` (asserts on operands and precisions); `RightPortPasses` (every legible file, partial ones too); `WrongPortFails` (a port wrong in one return passes a settled file exactly for the gaps) |
| `limbs` | limbs of 3 bits, vectors of up to 3 limbs, pairs of up to 2, shifts by 1 and 2 | `CarriesAreExact` at every iteration, `ComparesNumbers`, `QuotientsAreExact` |
| `says_*` | small | four disagreements, below |

Why these bounds are enough to be of use:

- `N = 3`, `P = 2`: the cases at issue are one slot's failure while the other has
  a case in flight, with something still queued and with nothing queued; three
  cases over two slots give each, twice in a row for one slot. Three cases also
  let a slot claim past the end while the other respawns. The golden files
  put a hanging case between good ones, an unreadable line first and last, and a
  hanging and a throwing case together. The proofs drop these bounds.
- The loop with two invocations at a time: each property relates the database to
  what one invocation promoted while another grades or commits; with two
  composites a port passes or fails; three invocations let a selection race two
  gradings. `MaxInvocations` bounds the history. The proofs drop these bounds.
- Rounding depends on the bits below the last place (the first, and whether any
  other is set), the parity of the last place and whether the mantissa is all
  ones. Operands up to 3 bits and outputs from 1 bit have all combinations, and
  output shorter than, as long as, and longer than the operands. Exponents -2..2
  give disjoint, overlapping and equal alignments for these lengths, and results
  beyond both ends of the range. For roots the operand must be more than twice
  as long as the result, hence 6 bits in `walking`, where with exponents up to 2 there
  are integers that fit the output, that do not, and values with both a fraction
  and too many bits.
- A long of 2 bits (-2..1, unsigned 0..3) with the integers -3..3 that the
  registers of `arith` hold takes `add_z` and its like through the unsigned, the
  signed and the multiple-precision routine.
- `SLACK` is how far results may leave the exponent range, which the arithmetic
  itself does not enforce; it is 0, so that every pair of operands is in the state
  space once. What lies beyond is what `CheckRangeIsCorrect` computes.
- Two `Scripts`: what matters is what one does to the other's file, and two have all
  of it: truncation under a writer, removal of what the other has reported, a driver
  that writes on to a removed file, the skip of a torn one. The invocations are
  alike, so the run takes one of each pair of mirror images (`AlikeScripts`). The
  theorems drop the bound.
- Limbs of 3 bits have a top bit, a bottom bit and one between; a carry can pass
  a limb of ones and stop at the next of three; a dividend of two limbs has a
  divisor of one, of two, normalised or not, and one that ends in a zero limb.
  The proofs drop these bounds.
- The operations treat the six flags alike, so six masks tell apart what there is.

Each property of a passing run has a mutant in `PROJECT.json`: an operator,
marked `mutant` in its module, that changes the definition it stands beside as a
plausible slip would, and under which TLC finds the property violated.

Deadlock is checked except in the grading pool and in the making of goldens, which
really end.

## Fairness

- `GradePool!FairSpec` is weakly fair to the parent's own steps: the event loop
  runs, an armed timer fires, a settled promise continues its function. It
  asks nothing of the workers, which may hang for ever; a port that loops is
  one of the natures. `CaseSettles` as a whole is fair, not `Reply` or `Timeout`
  alone: either may win every race. `GradingEnds` follows from the timers alone.
- `RalphLoop!FairSpec` is fair to the grading steps only: they are the driver's
  own code and the runner subprocess, which ends by its own timers (that is
  `GradingEnds`). Nothing is assumed of bd and git, which have none. `Killed`
  may end an invocation instead.
- `WalkSpec` is fair to the walk: the program goes on calling.
- `GoldenMaster` and `Limbs` claim nothing that needs fairness: drivers may hang
  until the timeout, and a caller may stop between two iterations.

## Proofs

All are checked by TLAPS; none assumes more than the named assumptions on the
constants.

`GradePoolProofs` (for every `N`, `P <= N` and golden files): `TypeCorrect` (with the
bound of the queue index, from `QueueInv`: a slot claims past the end once),
`QueueSafe`, `Complete`, `Honest`, `NoOrphan`, `NoLeak`, `VerdictsAreFinal`. The
invariant `IInv` adds to the properties what they rest on: `PhaseInv` (nobody
drives before the whole pool is up), `QueueInv` (two slots never wait for the
same case, and a slot without a worker has seen the queue exhausted: this is
what makes the stale read before the respawn harmless), `WorkerInv` (a live
thread belongs to one slot) and `ReplyInv` (a thread runs a case only while its
slot waits for it, so a reply that matches the claim is from this worker and to
this case). One lemma per action.

In the same module, from the same invariant: `PoolImplementsGrading` and
`SpawnsWithinBudget`. A step either leaves the outcomes alone or records one of a
case that had none (`ClaimJudges`, `SettlingJudges`), or writes off the rest of
the queue (`DrainWritesOff`); the first is a stutter of `Grading`, the others are
`Judge` and `WriteOff`. That a given-up run is never driven later needs one more
invariant, `FailedInv`: the slot whose worker did not come up stays rejected. A
worker more is created only in a step that adds a case to `Lost`, which only grows.

`RalphLoopProofs` (any number of processes, functions, batches, any call graph):
`TypeCorrect`, `DoneIsEarned`, `DatabaseAheadOfGit`, `OnlyDonePromoted`,
`SeedsAreReady`, `DoneStays`. The invariant says of each process what it knows
from its program counter: the functions of its batch before its position are
done unless a grade has failed; in the promotion all are. That these remain true
while others write rests on `done` being final, which every action preserves.

`RoundingProofs` (every precision, exponent, sign and mode). `RoundingIsCorrect`:
the mantissa `roundMantissa` returns is representable, on the side the mode asks
for or nearest with ties to even, less than one unit in the last place away,
with the ternary value of the error, also when the increment carries into the
next binade. The rest says that each operation presents its exact result to that
rounding:

- `RoundedTo(res, sign, q, rnd, m, l, D)` says that `res` is `m * 2^l / D` rounded to
  `q` bits. `PackNormalRounds` gets it for what `packNormal` packs, whether it pads
  or shortens.
- Division has its own rounding, by the remainder: `FinishDivRounds` shows that
  it decides as `roundMantissa` would from the discarded bits, and
  `QuotientLength` that the scaled quotient has one or two bits more than asked.
- `Isqrt` is a recursive function, Newton's iteration. Its closed form (a number
  at or below the root stays, all others come to the root) is shown to satisfy the
  recursion, so the `CHOOSE` behind it has a witness (`NewtonDefined`), and
  `IsqrtIsRoot` follows by strong induction. The mantissa of the root is the
  root in half units, odd when inexact (`RootMantIsRoot`), and comparing with that
  is comparing squares (`HalfRootCompares`).
- `RoundedIsCorrect` goes from `RoundedTo` to `CorrectlyRounded`, the form the
  runs check: a comparison with the exact value at every power of two.
- `RoundingIsMonotone` and `RoundingIsUnique`: rounding keeps the order of two
  magnitudes, so a number has one rounding, ternary value included. Two pieces of
  code then agree as soon as both round the same number, however they compute it.

Powers of two are `2^n`, of which the provers know nothing. `Pow2Step`, that one bit
more doubles, comes from counting: `2^n` is the number of subsets of `n` elements
(`FiniteSetTheorems`), and an element more doubles them. Everything else
about lengths follows from it by induction over sets of numbers.

`CalculatorProofs` (every `PREC_MAX`, exponent range, set of integers and width of a
long): `RegistersAreValid`, `ProductsAreRounded`, `QuotientsAreRounded`, `SumsAreRounded`,
`RootsAreRounded`. `TypeOK` is inductive as it stands: one lemma per operation takes
values that `validate` accepts to such values. The lemmas are about `Operand`, which
allows any precision, since `add_z` and its like make of an integer a value of as
many bits as it needs, PREC_MAX or not. A sum is brought to
the scale of its lower operand (`AlignedLength`), and its four cases (same sign,
exact cancellation, either operand the larger) each pack what is left with its
true length (`AddNormalRounds`).

`AgreementProofs` (for the same parameters): how the operations fit together. The
theorems follow from `TypeOK`, or from `WalkInv` for the walks, and from lemmas
about all operands.

- `WalksNeverPass` and `OrdersAreOne`. `MagnitudesCompare` shows that the comparison by
  exponent and aligned mantissa is that of the exact magnitudes. A step away from
  zero or towards it passes no value of at most the precision (`OutwardStep`,
  `InwardStep`, over the binades, zero and the ends of the range) and does move
  (`StepGrows`); that nextbelow undoes nextabove follows from these, with no further
  look at mantissas (`NextIsNext`). The sign of a rounded difference is that of the exact
  one (`SumSignIsOrder`), and rounding keeps the order that max and min choose by.
- `RangeIsCheckedCorrectly`. `mpfr_check_range` only sees the rounded value and its
  ternary value. `RoundsInBinade` and `RoundsUpToPower` say what the two tell of the exact
  value at the ends of the range, among them whether it is above half of the
  smallest number, on which underflow to nearest turns.
- `SpecialsAreAlike`. A rounding of `-v` in the mirrored mode is the mirrored rounding
  of `v` (`RoundedToMirrored`); as roundings are unique, `mul` and `div` of a negated
  operand are the negated result. For `add` that leaves the zero of a cancellation
  (`CancelledSum`), the one exception. The special operands are a table each.
- `IntegersAreRounded`. The unit an integer of the precision comes in is a power of
  two of at least 1 (`UnitOf`). What the one cut drops, counted in halves of that
  unit, compares with the half as the exact fraction does (`RestCompares`), so the
  decision by the dropped bits is that of one rounding, below 1 too, where no bit
  is kept.
- `PartsAreRecombined`. The fraction of a value is its low bits, shifted up
  (`PartsOfValue`). Value, integer and fraction over a common scale add up as
  natural numbers, and a sum that is a value of the output's precision is given
  exactly, whatever the mode (`SumIsValue`, from the uniqueness of roundings).
- `IntegerOperandsAgree`. The integer routines meet the same number at another
  precision: `add_z` of 4 makes it a value of three bits where the register may hold
  it with more. No operation tells such operands apart (`AddOfEquals`, `MulOfEquals`,
  `CompareOfEquals`): both results are roundings of one number, of which there is one.
  The integer read from a register is equal to it in this sense (`IntegerEquals`).
  The modulus that `mul_si` multiplies by in the inverted mode is dealt with by
  `MulMirrored`, a scaling by moving a rounding along the exponents
  (`RoundedToShifted`).

`WorkerFlagsProofs`: `FlagsTypeCorrect`, `FlagsImplementRegister`, for every set
of masks. The one fact needed of `_flags` is that it holds flags only, so that
`clearFlags()` in the prologue empties it; then what an earlier case left
behind cannot show through (`LoadIsTheArgument`).

`GoldenProofs` (any drivers and ports, any number of overlapping invocations):
`GoldenTypeCorrect` and `GoldenRestsWhole`. The invariant is `FilesAttended`: a file that
has the name, is not spoilt and not torn, has a writer that still runs, or whose
script is about to remove the file, or that has ended with everything emitted.
`RestsWhole` by itself is not inductive: it says nothing of a file whose driver runs.
Nothing is assumed of `Generated` but the exit code; that a file without lost writes
is whole then follows from the loops of `main`. What is checked of the tables
(`NoAssertFails`, `RightPortPasses`, `WrongPortFails`) are facts of this repository's
116 drivers, and no theorem is stated about them.

`LimbsProofs` (every base, every length, every operand): `LimbsInvariant`,
`LimbsTypeCorrect`, `LoopsAreExact`, `ComparisonsAreExact`, `DivisionsAreExact`. The
invariant keeps one equation per loop between the limbs passed and the limbs
written: for addition `Value(out, i) + carry * Base^i = Value(s1, i) + Value(s2, i)`,
and the like for borrows, shifts, packing and unpacking; for the comparison, that
the limbs above `i` are equal. A quotient fits its limbs because a divisor with a
last limb of at least 1 is at least `Base^(m - 1)`. `Weight` and `Value` are recursive functions on the naturals;
their defining equations follow from `Recursion`, and facts about every length
(`WeightsMultiply`, `ValueRange`) from `Induction`, which is stated for sets of
numbers and derived from the least element of a nonempty set. `ShiftedLimb`
carries the shifts: the parts of two neighbouring limbs make one limb, without
overlap.

Only model-checked: the liveness properties, which no prover available here can
establish, and what the golden run says of the tables of the drivers.

## Disagreements with comments and docs

Each is a run whose single property states the text and is violated.

- `says_CallerTerminates`: `runner.ts:573` has the caller own a worker once its
  spawn resolves. When another spawn of the initial pool rejects, `Promise.all`
  rejects and `gradeCases` returns without terminating it.
- `says_BestRunIsBest`: `schema.sql:66` calls `best_run_id` the highest
  composite. A later, worse pass overwrites it.
- `says_PromotedPasses`: `ralph.py:1070` calls `--ship` an atomic grade, promote
  and commit. The port is read again when it is promoted, so what was graded need
  not be what is promoted.
- `says_EqComparesFirstBits`: `eval/functions/mpfr_eq/spec.json` says the first
  `n_bits` bits are compared. `eq.ts` compares no more than the shorter operand
  has, so 0.5 at precision 1 equals 0.75 at precision 2 to two bits.

Observed while modelling and left without a run:

- `runner.ts:851` says of the cases drained after a failed respawn "we mark subsequent
  cases as infloop with a synthetic error"; the code records them with `threw: true`,
  `timedOut: false` (`runner.ts:866`), which the grade counts as throws. The model
  (`RespawnFail`, and `WriteOff` of `Grading`) follows the code;
- `runner.ts:795` calls the return at `worker === null` "unreachable given the invariant
  above", that every branch that loses the worker returns or respawns. When the last
  case costs the worker and the queue is empty there is no respawn, and the loop comes to
  that return: it is `LeaveWithoutWorker`, which the run takes. It is harmless, since
  nothing is left to claim (`QueueInv`);
- `run_all.sh:10-13` says that a partial golden "is removed so the next run retries
  cleanly". This is kept for a driver that fails under a script that runs alone to its
  end, as `RestsWhole` states. It is not kept when a write fails (`common.h` and the
  drivers check neither `fprintf` nor the flush, so the exit code is 0), when the
  script is killed (the next one skips the torn file, since it exists), or when
  invocations overlap: one may truncate the file under another's driver (`:61`), or
  remove what another has reported as "generated" (`:74`);
- nothing writes the status `in_flight`, so two selections can hand out the same
  function; a retried `--commit-batch` after a failed push finds nothing to commit
  and exits 0;
- `flags.ts:34` says each test case sees a clean register, but a worker keeps it
  between cases. No operation is wrong for it: each loads its argument first,
  which `ImplementsRegister` shows;
- the gaps of the tables: no golden of `mpfr_add_d`, `mpfr_sub_d` or `mpfr_d_sub`
  adds infinities of one sign, that of `mpfr_sub_si` never cancels with a negative
  long, no golden of a one, two or three limb routine overflows or underflows, and several
  never come to an inexact result in some alignment of the exponents; that of `mpfr_div_1n`
  has no singular operands and that of `mpfr_sqr_2` neither, although their ports have
  returns for them. No case of `mpfr_get_d`, `mpfr_get_d1` or `mpfr_get_d_2exp`
  rounds up to the next power of two, `mpfr_get_d1` is given no double out of range and no
  subnormal one, and `mpfr_get_z_2exp` no zero. The exact lists are `MixedGaps`, `WordsGaps` and `ConvGaps`.
  `mpfr_add1sp1n/golden_driver.c:213` announces an overflow, but adds 1e10 to
  itself; `mpfr_get_d/golden_driver.c:325` announces a subnormal target, but the
  exponent is that of a normal double; `mpfr_get_d_2exp/golden_driver.c:109` says the
  exponent may be bumped, which no case does; the quotas in the headers of `mpfr_eq`
  and `mpfr_cmp` differ from their tables;
- `divrem.ts:107` promises `combine(q, qHigh) * D + combine(r) == N exactly` for every
  `D > 0` (line 101), and `tdiv_qr.ts:83` the like. With a zero limb at the end of the
  divisor the quotient has more limbs than are returned, and the rest is dropped;
  `QuotientsAreExact` states the equation under the condition that holds;
- `add_1.ts:85` and the line on its result say that the carry is `x` when there is
  no limb; the code and its header return 0.

## Not modelled

- Text: the call graph, prompts, spec generation, the AST gate, dumps, the digits
  of JSON values. Accessors and build options, which return a field or a constant.
- Agents appear only as writers of scratch ports. Times and budgets appear as
  nondeterministic timers; the composite as a value beside a threshold in the
  loop, and as 1 or less in `GoldenMaster` (the loop promotes from 0.95, so a port
  that fails few cases may pass it; the weights are not modelled).
- Golden drivers of 120 functions: limb vectors, flags, the file format, internals.
  Their operands are arrays, masks and bytes, which the classes of `GoldenWire` do
  not tell apart, and several print constants.
- The words of the one, two and three limb routines, and the values of
  conversions and of operations with a double operand. Their branches are in the
  ports of the golden families. `sum`, `scale2`, `round_p`, `set_flt`, `set_sj`,
  `set_uj` and their `_2exp`.
- Of the limb vectors, `copyd`, `copyi` and `zero`, and the checks of arguments.
- Mutation proving and calibration: scripts that grade one rewriting of a port
  after the other and keep nothing between two. Reference ports and acceptance
  data.

## Plan

Written, in this order: grading pool with its abstract specification and
proofs; porting loop with proofs; numeric core with the rounding theorem; flag
register with its refinement proof; rounding to an integer, integer operands and
scalings in the calculator; golden files with the drivers of six families and
proofs; limb vectors with proofs for every length.

What would add most next:

1. The words of the limb routines with the word size as a constant, checked to
   agree with `Arith` on operands that fit.
2. Conversions to and from integers and a scaled-down double, with their values.
3. The sums of several values (`sum`) and the operations with a double operand, with
   their values, as theorems beside those of `add` and `mul`.

## How to run

    tlc -config GradePool.cfg MCGradePool.tla      # and so on, see PROJECT.json
    tlapm GradePoolProofs.tla

Each TLC run takes from a second to two or three minutes with two workers; each
proof module from one minute to a dozen.
