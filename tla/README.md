# theft in TLA+

theft is a property-based testing library for C: it generates arguments,
calls a property function on them, and when the property fails it shrinks the
arguments to a smaller counterexample. This directory models its core in
TLA+. TLC checks every module on small instances. TLAPS proves every invariant and
every action property that a passing run checks, and the refinement of forked calls,
for all values of the constants; only liveness is left to TLC alone.

`PROJECT.json` is the machine-readable index: components, runs, mutants, the
map from definitions to source lines, findings, hazards and theorems. Paths
below are relative to the repository's root (`src/` in `PROJECT.json`).

## 1. Inventory

theft is one thread of one process, except that with forking each call of the
property runs in a child process. All state hangs off `struct theft`.

| component | state | operations | talks to |
|---|---|---|---|
| forked calls, `src/theft_call.c` | `workers[0]` (state, pid, wait status, pipe), the process table | `theft_call`, `parent_handle_child_call`, `wait_for_exit`, `step_waitpid` | called by trials and shrinking; children answer by one byte in a pipe, an exit status or a signal |
| shrinking, `src/theft_shrink.c` | `trial.args[]` (instance, bit pool), bloom filter, hook answers | `theft_shrink`, `attempt_to_shrink_arg`, three hooks | shrink callbacks or autoshrinking; calls the property |
| run loop and trials, `src/theft_run.c`, `src/theft_trial.c` | counters, seeds, the trial | `theft_run_trials`, `run_step`, `gen_all_args`, `theft_trial_run`, `report_on_failure`, `theft_trial_free_args`, six hooks | alloc callbacks, shrinking, calls |
| bloom filter, `src/theft_bloom.c` | per block a linked list of filters | mark, check, lazy allocation, growth | check-before-mark by trials and shrinking |
| autoshrinking, `src/theft_autoshrink.c` | per argument a bit pool (bits, requests, limit, consumed) and a model of weights | answering requests, dropping and mutating requests, truncation, updating weights | the alloc callback, through `theft_random_bits` |
| random bits, `src/theft_random.c` | a 64-bit buffer, an injected pool | set seed, bits, bulk bits, choice, double | generator, autoshrinking |
| generator, `src/theft_rng.c` | Mersenne Twister | seed, next | random bits |
| configuration, `src/theft_run.c`, `src/theft.c` | `struct theft` and what it owns | `theft_run`, `theft_generate`, `theft_run_init`, arity and callback checks, `theft_run_free` | run loop, alloc callbacks |
| hashing, `src/theft_hash.c` | an accumulator | FNV-1a | bloom filter |
| stock hooks, `src/theft_aux.c` | column and tally counters | printing | hooks |
| built-in types, `src/theft_aux_builtin.c` | the value or array being built | allocators of booleans, numbers, character arrays | random bits |

Hard behaviours and the properties that make each component correct:

- **Forked calls**: the child may answer, hang, crash, exit by itself, handle or
  ignore the signal, at any point of the parent's poll, kill and wait. Process
  ids are reused. Every system call may fail. Correct: the result follows from
  what *this* call's child did; signals go only to a child that was not reaped;
  no worker is left running; the call returns.
- **Shrinking**: a candidate, the current instance and their two bit pools are
  owned by locals, the argument array and the filter in turn, and a hook, the
  callback or the property may fail in between. Correct: no double free, no use
  after free, no leak; instance and pool stay together; the result fails and is
  a local minimum.
- **Runs**: any hook may halt or fail any step. Correct: nothing leaks, each
  trial is counted once, a failure is never lost, no tuple is tried twice, the
  run ends, the seeds the user asked for are used.
- **Bloom filter**: chunks of one hash address filters of growing size. Correct:
  no false negatives, no index out of bounds, and a filter that fills up grows.
- **Autoshrinking**: requests, granted bits, consumed bits, limits and truncation
  must agree, since an instance is identified by the hash of its consumed bits.
  Correct: an instance depends on nothing but the hashed bits; requests cover
  the consumed bits; mutations shrink; weights do not wrap.

- **Random bits**: bits are handed out from the middle of a buffered word, across
  words of the generator, of the caller's buffer and of an injected pool. Correct:
  requests get the seed's stream in order, without a gap and each bit once, and
  nothing is left of the previous seed.
- **Configuration**: each check and allocation may fail with others already made.
  Correct: what was set up is freed once, and a seed reproduces its instance.
- **Built-in types**: limits in the arithmetic of C, special values, arrays that
  grow. Correct: limits hold for every value, writes stay inside the array.

`PROJECT.json` lists the hazards one by one, each at the line where it bites.

## 2. Modules and their correspondence to the code

### TrialCall, ForkCall: the property call

`TrialCall` is what `theft_call` promises its callers: a call begins, the
property may say a verdict, the process may end, the deadline may pass, a system
call may fail, and the call returns a result that one of those facts justifies
(`Justified`): a FAIL without a verdict only if this call's process ended or its
deadline passed, an ERROR that the property did not say only if a system call
failed in this call.

`ForkCall` is `theft_call` with `fork.enable`. The parent's `pc` follows the
code: `ready`, `fork` (after `pipe`), `poll`, `kill`, `wait` (the top of
`wait_for_exit`'s loop), `sigkill`, `sleep`, `close`, `halted`. `worker` is
`workers[0]`; it is not reset between calls, as in the code. Each iteration of
`wait_for_exit` is three steps (`WaitCheck`, `SigKill`, `Sleep`), because the
child runs between its system calls. Per process id there are the life of the
process (`st`), the byte in its pipe, its exit status and its pending signals.
The children's actions are external: running the property, crashing, calling
`exit`, handling the signal. `Answer` is the child's write and exit; SIGPIPE
ends a child whose parent has gone. A reaped pid is `free`, and may be handed
out again.

An ERROR makes the callers of `theft_call` halt the run, with one exception: while
shrinking, `shrink_trial_post` is asked after an ERROR as after any result, and
may answer REPEAT (`theft_shrink.c` lines 143-160), so that `theft_call` runs
again. `AfterError` leaves both open. The history variable `lost` holds the process
ids of the workers whose call met a failing system call (`Lose`): nothing is done
about such a worker, and it may run on beside the next one.

`Abstract` in `ForkCall` is the refinement mapping: `said` is the byte in the
current child's pipe and `ended` its status, once it has ended.

### Shrink, Runner: trials and shrinking

`Shrink` is `theft_shrink` and `attempt_to_shrink_arg`, one action per region
between two answers of the environment (hooks, shrink callback, property). An
instance is a value, and the heap is a set of objects named by kind, argument
and value; `misuse` records a free or a use of something that is not there. The
property is a set of failing tuples chosen at the start, with other answers for
the others. `MarkCalled` may fail to remember a tuple when memory fails
(`MemFails`), as `theft_call_mark_called` ignores that `theft_bloom_mark` could not
allocate; the history variable `forgotten` holds the tuples whose last mark was
lost. `Candidates` leaves out a candidate equal to the current instance:
with a filter it is a duplicate by definition, and without one the two objects
would have one name.

`Runner` EXTENDS `Shrink` and composes it with `theft_run_trials`, `run_step`,
`gen_all_args`, `theft_trial_run`, `report_on_failure` and
`theft_trial_free_args` on the same arguments, heap and filter. Local variables
of C functions are TLA+ variables (`trial`, `limit`, `seed`, `step`); `used` and
`ran` are history variables. A call of the property is one step here: with
forking, `TrialCall` is what it may return.

The objects of theft_shrink are named in `Heap`; in `Runner` the heap also holds
the environments of the autoshrinking arguments.

### Bloom

A block's linked list is a sequence, oldest filter first; a filter is the set of
its set bits. `Spec` marks in any order, as the interface allows; `UseSpec` marks
only what was just not found, which is what every caller in theft does.

### Autoshrink

One argument with autoshrinking: `env->bit_pool` is `pool`, the copy being
shrunk is `work`, the instance is the sequence of bits the alloc callback was
handed. Each request brings a buffer: the word of `theft_random_bits`, which is
zero, or, for a bulk request of any size (`Bulk`), the callback's own (`Buffers`),
of which `Answer` leaves what the code does not clear. `FillWord` and `Request` are `theft_autoshrink_bit_pool_random`,
`Drop`, `MutateBegins`, `MutateTry`, `MutateEnds` the two kinds of shrinking,
`Truncate` the cut before the rebuild, `Rebuilt`, `Duplicate` and `Judge` what
`attempt_to_shrink_arg` does with the copy. The PRNG's choices are
nondeterministic, with exactly the values the code's expressions can give. Word,
byte and weight widths are constants, so that the edges (a request that crosses
a word, a pool that ends in mid-byte, a weight near zero) occur in small pools.

### Random, Builtins, Entry

`Random` is the PRNG's buffer and one request: `SetSeed`, `Ask`, and one action per
iteration of the loops of `theft_random_bits_bulk` (`Take`),
`lazily_fill_bit_pool` (`FillPool`) and `fill_buf` (`Copy`). A word is a function
from bit numbers to bits, and the generator is the constant `Stream`. The history
variable `start` remembers where in the stream the request began. `Choice` is
`theft_random_choice`, with the rounding of doubles that have a mantissa of
`Mantissa` bits. `Autoshrink`'s `Request` is the same code at the granularity of
whole requests, for pools that may be cut short; `Random` has the pools of newly
generated instances, which never are.

`Builtins` EXTENDS `Random` with the alloc callbacks of
`src/theft_aux_builtin.c` (`bool`, unsigned and signed integers with limits and
special values, character arrays), a callback that makes a choice, and one with a
bulk request in a buffer that may be dirty. A callback waits for each request in
`doing`. `Limit` computes as C does, with the unsigned operands of type `int`. A
signed limit of 1 makes the least value a remainder by -1, which C defines for
`int8_t` and `int16_t` (0, after promotion) and not for wider types, where a build
gives 0 or the process is ended by a trap. The model has the 0; a process that is
ended does no more than a behaviour that stops, which safety properties allow.

`Entry` EXTENDS `Builtins` with `theft_generate`, `theft_run`, `theft_run_init` and
`theft_run_free`. `heap` holds `struct theft`, the generator, the filter and the
stock hook's environment. Between them `theft_run_trials` appears with what the
random bits see of it: the trial's seed is set, the arguments are generated, with
a pool or without, and the next seed is drawn. What it does with the arguments is
`Runner`, whose `Allocs` are any value for any seed.

The `*Proofs` modules hold the theorems about the modules they are named after
(section 4). `Numbers` holds what several of them need of natural numbers.

`MCForkCall`, `MCShrink`, `MCRunner`, `MCAutoshrink` and `MCEntry` hold the definitions the
configurations give to constants that are operators.

## 3. Runs

| run | asks | instance |
|---|---|---|
| `fork_call` | signals, workers, verdicts, refinement of `TrialCall`, `CallReturns` | 2 pids, 2 calls, also after an ERROR, timeout 2 ticks, exit timeout 2 and kill time 1 iterations, 1 retry of fork, all faults, all signal handlers |
| `fork_call_hook_error` (violation) | `SaidErrorHalts` | no faults |
| `shrink` | memory, ownership, counterexample, local minimum | every property and failing starting tuple over 3 binary arguments (autoshrunk, with a callback, with neither), 2 tactics, every hook answer, marks that may be lost |
| `runner` | memory, leaks, counters, lost failures, no tuple twice, seeds, termination | 2 trials, 2 arguments (one autoshrinking), 1 tactic, 1 always seed, hooks that halt, fail or repeat the failure (not `gen_args_pre`, and no REPEAT while shrinking, which `shrink` has), failing `malloc`, circular tactics, a filter with false positives and lost marks |
| `runner_leak` (violation) | `NothingLeaks` | `gen_args_pre` may answer ERROR |
| `bloom` | false negatives, bounds, growth | 2 blocks, filters of 1 to 3 bits of index, 8 hashes, failing `malloc` |
| `bloom_full` (violation) | `ResizesWhenFull` | `UseSpec` with fairness |
| `autoshrink` | hash determines instance, requests, truncation, mutations, weights | words of 4 and bytes of 2 bits, a callback with 1- and 2-bit requests and one of 5 bits in bulk |
| `autoshrink_bulk` (violation) | `BufferZeroed` | a buffer that was not zeroed |
| `autoshrink_mask` (violation) | `MaskClearsABit` | one request of a whole word of ones |
| `entry` | bits of the stream, one instance per seed, limits, choices, arrays, freeing | every stream of period 7, words of 8 and integers of 4 bits, 7 kinds of types with and without limits, valid and invalid configurations, failing memory |
| `entry_int_limit` (violation) | `LimitOfInt` | an `int` of 4 bits with the limit 3 |

A violation run checks one claim that a comment, a header or the change log makes
and the code does not keep; `findings` quotes the line. In short: the ERROR of a
`fork_post` hook is lost when it races the timeout; the environments of the
arguments leak when `gen_args_pre` stops the run; a bloom filter used as theft
uses it never grows; a bulk request cut short by the end of a pool leaves part of
the buffer as it was (and so does one without a pool, below); the mask that must clear a bit may clear none; the limit of
the built-in type `int` is compared as an unsigned number, and most values outside
it are kept.

Other things to know about the code, which the passing runs state as exceptions:
a worker in whose call `poll`, `read`, `kill` or a sleep failed may run on beside the
next, if a shrinking hook has the call repeated (`EarlierWorkersDoomed`); a worker that has written its verdict may still be exiting when the next one is
forked, and is reaped by a later call (`EarlierWorkersDoomed`); a tuple whose
mark in the filter was lost because `malloc` failed may be called again, and circular
tactics then go on for as long as marks are lost (`NoTupleTwice`, `RunEnds`); without
a pool `theft_random_bits_bulk` ors the bits to what the caller's buffer held, although
`inc/theft.h` line 50 says that the buffer is zeroed first, so that bits which were set
beforehand are not the stream's (`BitsAreStream`); a
`shrink_post` hook's error after a tactic without a candidate frees NULL
(`MemorySafe`); `theft_run_init` leaves the generator, the filter and `struct theft`
allocated when there is no memory for the stock hook's environment
(`AllFreed`); the terminator of an array whose maximal length is one more than its
allocation is written behind it (`InsideArray`); a choice made of 64 bits so close
to 2^64 that a double rounds them up gives `ceil` itself (`ChoiceBelowCeil`).

Every property of a passing run has a mutant in `mutants`: a definition with a
plausible bug (named `(* A bug: ... *)` in the modules) under which TLC finds the
property violated.

### Bounds, and why they are enough

- `fork_call`: two process ids let an earlier worker live beside the current one
  and a reaped id be reused; a second call sees what the first one left behind. A
  timeout of 2 ticks leaves room for an interruption in between; with
  `ExitTimeout = 2` and `KillTime = 1` the loop runs before, at and after the
  escalation. `MaxCalls` bounds the model only.
- `shrink`: the property is any subset of the 8 tuples, so every shape of failure
  is there, and three arguments give the passes of `theft_shrink` an argument to
  come back to and one to skip. `MaxTactics = 2` has a tactic after one that fails;
  theft's own limit, `THEFT_MAX_TACTICS`, is a large number.
- `runner`: what one trial leaves behind is seen by a second; the first uses the
  always seed, the second the run seed. Any value of an argument leads to any
  other, so tactics can go in circles of every shape two values allow: with
  `MaxTactics = 1` an attempt that fails ends an argument's turn, and one that
  succeeds begins the next with the same tactic. One autoshrinking argument keeps
  away the leak of `theft_run.c` lines 416-419 (section 4, `RunLeavesNothing`).
- `bloom`: the hashes hit both blocks, and repeat chunks of 1, 2 and 3 bits, so that
  lists grow to the last size for which an 8-bit hash has bits enough.
- `autoshrink`: the bulk request is longer than a word, consumption ends in
  mid-byte and mid-word, pools are truncated. A weight begins one above its least
  value; two actions begin below their greatest and three at it, so that updates move
  weights both ways and are cut off at both ends, and in a width of 3 bits a step that
  is not cut off can wrap. One shrink step in a row (`MaxFailed = 1`) follows any number
  of successful ones. `Garbage = {0}` says that the callback zeroes the buffer of a
  bulk request; without that the instance may depend on what its hash does not
  cover, which is what `autoshrink_bulk` shows.
- `entry`: a word has 8 bits and requests have 1, 2, 3, 4, 8 and, for the bulk
  request, 11, so that requests end inside, at the end of and beyond a word, and
  the bulk buffer has two words. The streams of period 7 are all sequences of seven
  bits; 7 does not divide 8, so that no two words of a stream need be alike, and a
  bit taken twice or out of order shows. Two trials see what the first leaves in the
  PRNG's buffer. `Mantissa = 7` is less than a word, as 53 is less than 64, so that
  both roundings of a choice occur. `MemoryCeil = 8` lets an array grow twice.

### Fairness

- `ForkCall!FairSpec`: the parent process is scheduled, hence weak fairness of its
  own steps (`Call`, `Reclaim`) and of poll, whose clock runs (`Await`). Nothing is
  assumed of a child: a property may hang and may ignore the signal. Interruptions
  of poll are not excluded; each restarts the whole timeout, so `CallReturns` holds
  unless they never end.
- `Runner!FairSpec`: one thread, with callbacks and hooks that return. That it
  ends although tactics go round in circles is due to the bloom filter, and
  `RunEnds` excepts marks of tuples reached by shrinking that are lost without end.
- `Bloom!FairUseSpec`: each tuple keeps coming up, as it does in a long enough run;
  used for the claim that the filter resizes.
- `Entry` has no fairness and no liveness property: an array of characters goes on
  as long as the stream has no zero byte, until memory fails.
- Safety runs assume none. Deadlock is checked everywhere; a run that is over
  stutters in `Over`.

## 4. Proofs

`ForkCallProofs` proves, for every set of process ids, every timeout, retry limit,
set of signal handlers and set of faults, from the assumptions named in
`ForkCall` (`NoPid` is no pid; numbers are numbers; `ExitTimeout` and `KillTime`
are not 0):

- `TypeCorrect`, `SignalsAreSafe`, `EarlierWorkersAreDoomed`, `KilledIsNeverPass`:
  the invariants of `fork_call`. `EarlierWorkersAreDoomed` is about every state,
  those after an ERROR included, and every worker but the `lost` ones. None is inductive by itself. `Inv` adds that the
  child of the call is not reaped while it is waited for (`ChildUnreaped`, which
  needs that every reap that takes it also settles the result), that a running
  process has not written its byte (`NoByteYet`), where the loop index is
  (`LoopIndex`), and that past the escalation a child that still runs has SIGKILL
  pending (`ChildDoomed`).
- `ForkCallRefines`: `Spec => ImplementsTrialCall`. `RefInv` adds that the result
  in `close` is justified by facts that later steps of the child cannot undo.

`BloomProofs` proves, for every width of hash, block index and filter and every
set of hashes:

- `BloomTypeCorrect`, `MarkedIsFound`, `ChainsGrowByOne`, `AssertionNeverFails`,
  `OnlyTheFrontChanges`: the properties of `bloom`. Marking is shown to extend a
  block's list (`Extends`: no filter removed, shrunk or cleared), and extension
  keeps what is found. `PowersAssumption` states that powers of two are positive,
  since the provers know nothing of `^`.
- `FilterNeverGrows`: with the callers' check before mark no block ever gets a
  second filter, the general fact behind `bloom_full`.

`ShrinkProofs` proves, for any number of arguments, values, candidates, tactics,
hook answers and properties, from `ShrinkAssumption`:

- `ShrinkTypeCorrect`, `ShrinkIsMemorySafe`, `ShrinkLeavesTheArguments`,
  `PoolsFollowInstances`, `ShrinkingKeepsFailing`. The inductive invariant says who
  owns what at each `pc` (`HeapOwned`: the objects of the arguments, and of the
  candidate while a local or the argument array holds it), that a pool is the one its instance was built from
  while both change (`PoolFollows`), what the locals of `attempt_to_shrink_arg` are
  (`LocalsPoint`), and that the tuple without the candidate fails (`FailureKept`).
- The proof holds for a heap with other objects in it (`Mine` is the part that is
  shrinking's), and `AroundKept` shows that shrinking leaves those alone. That is
  what `RunnerProofs` needs.
- `ShrinkingEndsInALocalMinimum`: `LocalMinimum`, where `Reliable(size)` holds of some
  `size`. It says three things. The filter has no false positives. A tactic gives the
  same answer whenever it is tried on the same value, or an error: `doc/shrinking.md`
  lines 54-56 say that theft assumes this of shrink callbacks (the random mutations of
  autoshrinking do not do so, and for them a local minimum is not promised). And a
  shrink is smaller in some measure, as `inc/theft_types.h` line 125 has it
  ("a simpler instance"). Without the last, the search could go round in a circle to
  a value it had before and skip, as called before, the very tuple that fails.
  `SearchInv` says that the tactics tried on this argument, and all tactics of the
  arguments passed since the last progress, lead from the arguments last committed to
  (`Base`) to no failing tuple (`TacticsExhausted`, `ArgsExhausted`), and that a
  failing tuple met before is nowhere smaller than `Base` (`CalledBefore`). A candidate
  is smaller, so one that the filter knows, and that is skipped, does not fail.

`RunnerProofs` proves of whole runs, for any number of trials, any always seeds, and
any callbacks and hooks, from `RunnerAssumption`:

- `RunIsMemorySafe`, `ReportsAreFailures`, `RunTypeCorrect`: `RunMemory` says what is
  allocated at each point of `run_step` (`GeneratedSoFar`, `HeapParts`), and is
  `ShrinkProofs`' invariant for as long as `theft_shrink` runs.
- `RunLeavesNothing`: `NothingLeaks` under `NeverLeft`, which says that
  `gen_args_pre`, if it is set, lets every trial go on, and that memory for an
  environment fails only when there is at most one autoshrinking argument. The first
  is the leak `runner_leak` shows. Without the second an environment allocated
  before the failing one stays. The run `runner` has one such argument.
- `TrialsAreCounted` (`Counting`: the trial under way is not yet counted, or is),
  `FailuresAreReported` (`FailureSeen`: a tuple that was called and fails has set
  the trial's or the run's result), `TuplesAreCalledOnce` (`Marked`: with a filter
  what was called was marked before, or its last mark was lost), `SeedsAreTried` (`SeedsUsed`: which seeds
  earlier trials had).

`EntryProofs` proves, for every configuration, stream, type and width of a word, from
these assumptions:

- `RandomAssumption`: a word has a bit.
- `ChoiceAssumption`: a choice draws no more than a word, a mantissa is no wider than
  a word, and few bits times a small ceil are exact. In the code 16 bits times a ceil
  of at most 2^8 and 32 bits times one of at most 2^16 are less than 2^53.
- `PowersAssumption`: powers of two are positive and double, which the provers do not
  know of `^`.
- `BuiltinsAssumption`: nor does another draw take more than a word; an array is
  allocated with a size above 0; special values are numbers.
- `EntryAssumption`; an `env` is a `uint64_t` or a `size_t` (`ConfigOK`).

- `EverythingIsFreed`: `HeapAtPoint` says what is allocated at each point of
  `theft_run_init`.
- `BitsInOrder`: `BitsAreStream`, which relates a finished request to the stream but
  for the bits of a caller's buffer that were set beforehand, needs an invariant of the request under way. `RandomProofs` states it (`StreamInv`) and
  proves that each action of `Random` keeps it: the PRNG's buffer holds the last bits
  of the word it says (`BufferFollows`), the pool the words drawn since it was
  injected (`PoolFollows`), the next bit to be taken or copied is the next of the
  stream (`Taking`, `Copying`), and those that were are in place (`Served`).
  `EntryProofs` adds that every request asks for at most a word or brings a buffer
  with room for it (`CallbackKeeps`), and that the seed changes only between requests.
- `EntryTypeCorrect`: the types, of which `offset`, the index into the caller's buffer,
  is the one that needs the invariant.
- `WritesStayInside`: there is room for a byte whenever one is asked for
  (`RoomInArray`), and the test for the maximal length, which does not look at the
  size, writes at most one beyond it.
- `LimitsAreKept`: bits drawn are a number below two to their count (`NumberOfBits`),
  a special value is reduced like any other, and a terminator is written while there
  is still room below the maximal length (`LengthAtPoint`).
- `SeedIsInstance`: `InstanceOfSeed` compares what a seed gave with what the stream
  says. `SeedInv` follows the callback: at each of its points the next request begins
  at the bit of the stream (`Cursor`, `AtBit`) that lies where the bits asked for
  since the seed was set end (`InFirst`, `Asked`), whichever of the PRNG's buffer and
  a pool they come from. What a request is served is then decided by the stream alone.
- `ChoicesAreBelow`: a product of few bits and a small ceil is exact. A whole word is
  rounded to the nearest double (`RoundedIsNearest`): to 2^`WordBits`, which is the
  exception, or to no more than the double before it (`WholeWord`). Then the product
  with the ceil lies so far below `ceil` * 2^`WordBits` that a smaller double is nearer
  to it (`DoubleBelow`, `ProductBelow`), and it is not rounded up to that.

`AutoshrinkProofs` proves, for every width of words and bytes, pool size and limit,
alloc callback and sequence of random choices, from `PoolAssumption` (words are whole
bytes, pools whole words) and `WeightAssumption` (`BigStep` is no more than the least
weight, and the greatest weight and `BigStep` fit in the width: in the code 8, 8, 0xA0
and 8 bits):

- `RewardsAreRewards`: the action property `RewardsAreNotPenalties`: a weight goes up
  when an instance that the action changed fails, unless it is at its greatest, and
  never otherwise. `WeightsInv` says that weights are in their range whenever there is
  an action to reward.
- `AutoshrinkTypes` and `RequestsCovered`. `PoolInv` says that pools are `Sound` (the
  requests add up to what is consumed, which is inside the bits and the limit), that a
  pool that is being filled has whole words (`Filling`), that the copy under mutation
  has as many bits as the pool (`Changing`), and that a truncated copy's limit does not
  exceed its bits (`Rebuilding`).
- `MutantsAreSmaller`: `ChangesInv` says that the copy has become smaller, request by
  request, at the first where it differs, or is as it was; a shift, a mask, a
  subtraction and a swap each keep that true. Requests wider than a word are excepted,
  as in the property.
- `HashDetermines`: `HandedInv` says that what the callback has been handed are the
  consumed bits, then zeros beyond the limit.
- `UnchangedRebuild`: `AskedInv` says that an instance is cut into the requests the
  callback makes of it (`Boundaries`), and `UnchangedInv` that a copy in which nothing
  changed hands on the same bits (`SameBits`), so that the callback makes the same
  requests and the new instance is a part of the old one up to the last (`BeginsInst`).

All but the first assume `WantsAreNumbers`: a callback asks for a number of bits (a
`uint8_t` or a `size_t` in the code). `HashDetermines` and `UnchangedRebuild` also assume
`BuffersClear`: the callback makes no bulk request and none of more than a word, or
zeroes the buffers it asks to be filled. A bulk request of less than a word is no
exception: past the pool's end `theft_autoshrink.c` line 58 clears one byte of its
buffer. The run `autoshrink_bulk` shows what becomes of a buffer that is not zeroed.

`Numbers` proves what the provers lack: the least-number principle, from the library's
theorem that the natural numbers are well-founded, induction as a statement about a
*set* of numbers (`FromOn`, `UpTo`), and that a function defined by recursion on an
interval exists and is the only one (`IteratesExist`, `IteratesUnique`). With these the
recursive functions of `Random`, `Builtins` and `Autoshrink` (numbers made of bits, the
index of the requests, growth by doubling) can be reasoned about one step at a time.

Only model-checked: liveness (`CallReturns`, `RunEnds`). Fairness and ENABLED are out of
the provers' reach.

## 5. Not modelled

- File descriptors of the pipes, `THEFT_TRIAL_ERROR` returned as a `bool` by
  `step_waitpid` when waitpid fails otherwise than with ECHILD, children of the
  embedding program.
- Shrinking statistics handed to hooks, wording and layout of reports, tallies.
- `theft_bloom_free`: it walks the lists and frees them.
- In autoshrinking: printing, the growth of the request array, `malloc(0)`, and the
  settings only the tests use (`leave_trailing_zeroes`, `next_action`, a fake PRNG).
- The Mersenne Twister and FNV-1a: their results are nondeterministic.
- `theft_random_double` and the built-in `float` and `double`: they divide a word of
  bits, and their limits are the C library's `fmod`.
- In `theft_run_init`: the copies of the fork, hook and always-seed settings, which
  are constants of `ForkCall`, `Shrink` and `Runner`. A failing `theft_rng_init`
  frees what was allocated, as a failing first allocation does.
- The print callbacks of the built-in types and the stock hooks' output.
- A false positive of the filter that hides the last step to a local minimum:
  `LocalMinimum` is stated for one shrink with an exact filter. `CallReturns`,
  `RunEnds` say nothing of a property that is called in process and hangs.

## 6. State of the development

Components are modelled in the order of what their failure would cost: `ForkCall`
and `TrialCall`, `Shrink`, `Runner`, `Bloom`, `Autoshrink`, then `Random`,
`Builtins` and `Entry`, and then their proofs. What would come next:

1. `theft_call` without forking as a second implementation of `TrialCall`, and
   `Runner` over `TrialCall` instead of one step per call.
2. An abstract specification of a whole run (trials counted, failures reported, seeds
   used) with `Runner` shown to implement it.
3. Variants: that the measures which make `CallReturns` and `RunEnds` true decrease at
   each step is a safety property, and could be proved although liveness cannot.
