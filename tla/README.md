# A TLA+ verification of MaskForge

MaskForge compiles a JSON Schema (or a regular expression) to an executable, binds it to a
tokenizer's vocabulary, and then drives *sessions*: at each position of a generated text it writes
the bit mask of the tokens that may come next, and advances by the token that was chosen.  This
directory models the compilation, the concurrent caches and the runtimes, checks them with TLC on
small instances, and proves with TLAPS what is worth knowing for every instance.

## 1. The system

| Part (source) | State it keeps | Operations | Hard behaviour | What makes it correct |
| --- | --- | --- | --- | --- |
| Memory gates (`mem_gate.rs`) | permits, available bytes, peaks, behind a mutex; policy in a `OnceLock` | configure, `acquire` (blocks with a deadline), `try_acquire`, drop of a permit | timeouts racing releases, lost wake-ups, late configuration | counters equal the live permits; budget never exceeded; every acquire returns |
| Artifact cache (`runtime/artifact_cache.rs`) and trie cache (`index/cache.rs`) | ready entries, an LRU log, bytes, in-flight slots | lookup, join, build, publish, retire, clear | single flight, panicking builds, clear during a build, log compaction | one build per key, waiters always served, bytes exact and bounded |
| Executable cache (`runtime/executable_cache.rs`) | alias entries with weak references, IR entries, slots, a clear generation | the same, nested: an alias build looks up the IR build | waits across two slots, aliases that die, digest collisions | never the executable of another schema; nothing built before a clear is retained after it |
| Lazy mask rows (`runtime/mod.rs`, `index/build.rs`) | a `OnceLock` per engine state, one atomic byte counter | `get_or_compute` | racing initialisers, budget at its limit, a refusing gate | exact budget, the right mask |
| Session API (`api.rs`, `Matcher`) | position, lifecycle | `write_mask`, `advance`, `reset` | any call sequence; rejected calls; failing masks | the mask predicts `advance`; a stopped session is a word of the language |
| Vocabulary trie and index (`index/trie.rs`, `index/build.rs`) | CSR trie, packed rows | build, measure, fill | pruned walk with a wrapping memo and stack fuel | rows equal the token-by-token simulation |
| Byte DFA (`automaton/byte_dfa.rs`) | transition table | materialise, step, consume | dead-state folding | no mask offers a dead end |
| Structured runtime (`structured/state.rs`, `lexer.rs`, `validator.rs`, `canonical.rs`, `pattern.rs`) | frames, cursors, undo log, arenas, resource charges | tentative bytes, commit, roll back | a tree of validators in parallel, limits met half way through a token, arenas reclaimed at commit | exactly the documents of the schema are accepted; a call that fails leaves no trace |
| Structured matcher and slices (`structured/matcher.rs`, `index/slice.rs`) | a live state, the walk's stack, slice and proof caches | `advance`, mask | one live state shared by all candidates; whole slices set under a cached proof | the mask predicts `advance` |
| Reference backend (`structured/reference.rs`) | the text | `try_advance`, mask | cuts anywhere in a key, number or span | accepts the language; keeps every completable prefix |
| Frontend, IR, resources, routing, compilation, plan | the arena, the graph of resources, the plan's worklist and charges | translation | cycles, sharing, dynamic anchors, limits, digit bands | each stage keeps the meaning of the one before; only limits refuse |
| Python bindings, generator, tensor adapters, wire format, oracles | | | | not modelled, section 7 |

A `Compiler` owns one executable cache and one trie cache.  A schema is parsed, lowered into an
arena (`SchemaIR`), routed, and compiled to one automaton or to a structured plan.
`SchemaProgram::bind` asks the trie cache for the vocabulary's trie, whose build passes the trie
cache's own build gate, and makes a `CompiledArtifact`.  Sessions share that artifact by `Arc`; in the
lazy bind mode their mask requests meet in its `LazyRows`, whose walks pass the process-wide serving
gate.  A structured session owns its `IncrementalMatcher` and shares nothing but the plan.

## 2. Modules

| Module | Models | Used by |
| --- | --- | --- |
| `Weights` | the sum of a function over a finite set (counters of bytes) | `BuildGate`, caches |
| `BuildGate` | `BuildGate`, `PermitGuard`, the gate singletons | `TrieCache`, `LazyRows` (by `INSTANCE`) |
| `SingleFlightLru` | the single-flight LRU cache that `ArtifactCache` and `TrieCache` both are | `MCArtifactCache`, `TrieCache` |
| `TrieCache` | `TrieCache`: `SingleFlightLru` composed with a `BuildGate` | `MCTrieCache` |
| `ExecutableCache` | `ExecutableCache` | `MCExecutableCache` |
| `ByteEngine` | `RefEngine`: materialisation, step, live classes, `consume_token` | `VocabTrie`, `RegularSession` |
| `VocabTrie` | the trie build, the measured frontier, the joint walk | `MCVocabTrie` |
| `LazyRows` | `LazyRows::get_or_compute` and the walk under the serving gate | `MCLazyRows`, `RegularSession` (by `INSTANCE`) |
| `Decoder` | abstract: what a session promises its caller | `RegularSession` (refinement) |
| `RegularSession` | `Session` with the regular backend over shared `LazyRows` | `MCRegularSession` |
| `JsonLexer`, `JsonNumber`, `CanonicalItem` | the string decoder and number syntax; number constraints; the values of `uniqueItems` with their own journal | `StructuredState`, `ReferenceBackend` |
| `StructuredState` | the pushdown state: frames, cursors, scopes, undo log, arenas, and what one byte does | `TokenSlices` |
| `TokenSlices` | slices of the vocabulary, certificates and proofs | `StructuredMatcher` |
| `StructuredMatcher` | `IncrementalMatcher`: `advance` and the mask | `MCStructured`, `MCValidators` |
| `ReferenceBackend`, `ReferenceMatcher` | the recursive-descent oracle and its matcher | `MCReference` |
| `JsonDocument` | reference: which texts satisfy a schema, by sets of end positions over the whole text | both matchers (by `INSTANCE`) |
| `SchemaIr`, `SchemaLowering`, `SchemaResources` | the frontend: numbers with their widths, the arena, every keyword, the graph of resources | `SchemaMeaning` |
| `SchemaMeaning` | reference: what the drafts say of a value, and what an arena says of it | `SchemaCompile` |
| `SchemaRouting`, `SchemaCompile`, `SchemaPlan` | the route of each node, the language of a regular node, the structured plan | `SchemaPipeline` |
| `SchemaPipeline` | a schema on its way through all stages | `MCPipeline` |
| `*Proofs` | the theorems of section 5 | |
| `MC*` | instances for TLC | |

The definition `FX` of a definition `F` (`RouteNumberNext` of `RouteNumber`, `StartKeyPushed` of
`StartKey`) is the rest of `F` after the step it is named for; it stands for the same lines as `F`.  A
definition without an entry of its own in the map of `PROJECT.json` is a step of the mapped operator it serves.

### Correspondence

*Grain.*  One action is one critical section, one atomic operation, or one step between two of them.
A condition-variable wait is a program-counter value that only a notification, a spurious wake-up or
a time-out leaves; the passage of time is the action `Expire`.  Every lock-protected section is
complete in one action: the LRU touch, the compaction, the eviction and the insertion of one
critical section are one step, as in the code.

*Gates.*  `inner` is `GateInner`; `policy` is the content of the `OnceLock`, `Unset` before the first
use.  `charge` is the estimate of a blocked caller or the charge of a live `PermitGuard`.  Dropping a
guard is two actions, `Release` under the mutex and `NotifyAll` after it, because a waiter may look in
between.

*Single-flight caches.*  `store` is `CacheState` (entries, log, tick, bytes), `inFlight` the slot table,
`result` the content of the slots.  A builder publishes to its slot, and then retakes the state lock to
retire the key and retain the value; a panicking builder runs `SlotGuard::drop`, which does the same
two steps with an error.  `Size`, `Candidate` (which keys share a bucket) and `Budget` are constants.

*Executable cache.*  A thread has a stack of activations of `get_or_build_with_charge`, because the
closure of an alias calls `get_or_compile_ir`.  An executable is identified by its IR, the generation
it was claimed under and a copy number; it is alive while an entry, a slot, an activation or a client
holds it, and an alias entry, a weak reference, does not keep it alive.

*Trie and walk.*  One action is one iteration of `build_byte_csr`'s token loop, of
`compute_max_dfs_frontier` or of `walk_live_subtree`; CSR ranges are represented by the sequences they
delimit.  The `u32` memo generation is modulo `MemoWrap`.

*Rows and sessions.*  `rows` are the `OnceLock`s, `runner` the thread inside a slot's initialiser.  A
thread's session does nothing else while its mask query runs (`&mut self`).  `text`, `refused` and `reply`
are history variables.  `Rounds` is the backward closure of `materialize`, a round at a time, and `Trail`
the states `consume_token` goes through.

*Structured runtime.*  `state` is `StructuredState` as a record; each routine of `state.rs` is an operator
from state to state, and the field `res` carries `Ok(true)`, `Ok(false)` and `Err` through the sequence of
statements as `?` and early returns do.  Every `Undo` variant of a modelled mutation has its inverse in
`Revert`; variants that restore one field are the single entry `Field`.  A cursor is a slot of the state's
pool and holds an engine state or a whole state, so that combinators, negation, obligations,
`dependentSchemas`, `propertyNames`, `contains` and unevaluated locations make a state a tree of states;
released validators are kept for reuse as in the code, and the ledger counts the live ones.
`advance` is one action, because a matcher is used through `&mut self`; the mask walk is one action for each
event of its stack (`Visit`, `Restore`), so that the invariants also see the state in the middle of a
walk.  Bytes are one-character strings and keys are sequences of decoded scalars.  `text` is a history
variable.

*Slices.*  A slice is the set of tokens that stay inside a string.  Certificates, the proofs of each engine,
and the caches of masks and proofs with their bound are those of the code; a mask and a proof entry weigh
the same, every byte is one scalar (so the safe scalar count of a token is its length), the catalog's budget
is checked on its estimate only, and neutral bytes are those of the instance's alphabet.  Sizes of buffers
are left out.

*Reference recogniser.*  `JsonDocument` shares nothing with either matcher: it computes the set of values a
text can spell and evaluates the schema on them, so that agreement says something about both sides.

*Compilation.*  A function of the lowering is a record naming the function and its arguments; `Calls` are the
calls it makes and `Built` the node it makes of their answers, so that the arena is filled in the order of
the code.  `LowerSchema`, `Route`, `StartPlan`, `BuildNode` (one iteration of the planner's worklist) and
`FinishPlan` are the actions of `SchemaPipeline`.  `SchemaMeaning` defines the drafts' semantics keyword by
keyword and the arena's node by node, without the lowering.

## 3. Runs

| Run | Instance | Shows |
| --- | --- | --- |
| `gate` | 3 callers, estimates 1, 2, 4, policies with 2 permits and 3 bytes, one zero policy | `Conservation`, `WithinPolicy`, `NoLostWakeup`; every blocked acquire returns (`AcquireReturns`) although no holder ever has to drop |
| `artifact` | 2 callers, 3 keys of which two share a bucket and one is oversized, 6 touches, slack 0, so that the log is compacted | exact `Accounting` throughout; until the first compaction `ByteBounded` and a log through which every entry can be evicted (`LogCoversRetained`) |
| `trie` | 2 callers, 3 keys, slack 0, a gate that cannot hold both builds and refuses the third | `SingleFlight`, `WaiterIsServed`, `EveryCallReturns`; composed with the gate: `BuildsWithinGate` |
| `executable` | 2 callers, 2 inputs, 2 IRs, colliding digests, one clear, 3 touches | `RightExecutable`, `ClearFence`, `Accounting`; a wait ends at a call that does not wait (`WaitsEndAtBuilder`) |
| `vocab_trie` | 5 vocabularies of up to 4 tokens of up to 3 bytes, every automaton with 2 states and 2 bytes | `FuelSuffices`, `RowsMatchNaive`, `MaskIsCompletable` |
| `rows` | 3 queries of 3 rows, a budget of 2 rows, a gate of 2 walks | `RetainedExact` |
| `session` | 2 sessions, an automaton with a trap state, 3 tokens, a budget of one row, a gate of one walk | `ImplementsDecoder` (refinement), `EveryMaskReturns` |
| `structured` | 6 plans over objects, arrays, regular values and AnyJson, 2 sets of limits (in one of them every limit bites), 17 tokens that cut keys, escapes, numbers and literals, keys that collide when their lengths agree | `AcceptsLanguage`, `CompletableAdmitted` (against `JsonDocument`), `MaskPredictsAdvance`, `CallsAreAtomic`, `KeysLive`, `SlotsNotShared` |
| `validators` | 21 plans that run cursors or fold a value as it is read, each with its own vocabulary, six of them with slices; 2 sets of limits | the same against the keyword semantics; `CursorsOwned`, `ReuseIsFresh`, `LedgerBounded` |
| `reference` | 22 schemas, one for each part of the descent, 2 sets of limits | `OracleIsExact`, `OracleKeepsCompletable` |
| `compile` | some ten thousand schemas and sets of documents: pairs of keywords, integer ranges with multiples, recursion, literals, resources with crossing anchors, each with probe values; tight limits | `LoweringKeepsMeaning`, `PlanKeepsMeaning`, `RetainedMatchesPlan`, `RefusedOnlyByLimits` |
| `structured_keys` | one object plan, 8 tokens of which one closes an object and finishes its parent's next key | **violated**: a key of an open object is reclaimed (the finding below) |

### Finding

`apply_commit` cuts the key arena back to the lowest `arena_start` of the objects that the token closed.
A token such as `},"a":` also interns a key of the parent after the close; the cut removes it while the
parent's `seen_dynamic` still names it.  A comment in `state.rs` says that no live `KeyId` is
invalidated.  `KeysLive` holds in the run `structured`, whose vocabulary has no such token.

### Bounds and why they suffice

Two contenders for one key or row give a builder and a waiter, a third key gives eviction and the
gate an unrelated holder; every lock is held for one action, so a third thread adds only another
waiter of the same kind (the gate, where waiters compete for one release, has three).  The proofs of
section 5 remove these bounds for safety.  `MaxTick`, `MaxRejected`, `MaxGeneration` and `MaxText` stop new
calls, never a call that has begun, so no run ends in the middle of a call; the system may then stop, and
TLC checks for deadlock wherever the configuration does not say otherwise.  Sizes are chosen so that one
key fits with another, one only alone and one never.

In the structured runs, `MaxText`, `MaxString` and `MaxNesting` stop new tokens, not a token that has begun.
`MaxText` is per plan: long enough for the plan's decisions (two members of which one is nested, two equal
items of an array in different spellings, a key that triggers a dependency and the value it constrains, a
second round of a recursive reference), and the tight limits are all met within it.  In `compile` the
integer widths are scaled down (`I64Max` 999, `I128Max` 99999) so that overflow, saturation and the last
representable value are reached, and the probe integers cover every value around every band's ends.

## 4. Fairness

* `gate`: time passes, `wait_timeout` returns, a woken thread gets the mutex, a drop that has begun
  ends.  Nothing obliges a holder to drop or a caller to call.
* `artifact`, `trie`, `executable`: a thread inside a call takes its next step, a build ends (with success, an
  error or a panic: nothing says which), and a thread that keeps contending for the mutex gets it.
* `session`: a thread inside `write_mask` takes its next step.
* `structured`, `validators`, `reference`, `compile`: none, since they state no liveness: a matcher and the
  compiler are sequential, and each of their loops consumes an event of a finite trie or a call of a finite
  stack.

## 5. Proofs

Every theorem holds for any finite set of threads, sessions, keys or states and for any sizes; the bounds of
the runs play no part.

| Module | Theorems | Inductive invariant |
| --- | --- | --- |
| `BuildGateProofs` | `GateConservation`, `GateWithinPolicy`, `GateNoLostWakeup` | `GateInv` |
| `TrieCacheProofs` | of the single-flight cache: `CacheAccounting`, `CacheByteBounded`, `CacheLogCovers`, `CacheSingleFlight`, `CacheWaiterIsServed` | `CacheInv` |
| | of the trie cache: `TrieImplementsCache` (refinement), `TrieSingleFlight`, `TrieWaiterIsServed`, `TrieBuildsWithinGate` | `TrieInv` |
| `ExecutableCacheProofs` | `ExecutableAccounting`, `ExecutableIsRight`, `ExecutableClearFence`, `ExecutableWaitsEnd` | `CacheInv` |
| `LazyRowsProofs` | `RowsRetainedExact`, `RowsReplyRight`, `RowsDecidedOnce` (action property) | `RowsInv` |
| `RegularSessionProofs` | `ViableIsPrefix`, `SessionImplementsDecoder` (refinement) | `SessionInv` |
| `VocabTrieProofs` | `TrieFuelSuffices`, `TrieRowsMatchNaive`, `TrieMaskIsCompletable` | `VocabInv` |
| `StructuredValueProofs` | of the item builder: `BuilderUndo`, `PushByteEnds`, `SeenByValue`; of numbers: `ModularPowerIs`, `NumberConstraintsExact`, `BoundsExact` | `BuilderOK`; `Agrees`, `KeepsLeading` |
| `WeightsProofs` | lemmas only | |

*The gate.*  `Conservation` is inductive only with the type invariant and with `RequestsFit` (a blocked or
admitted request fits the whole budget and there is none before a policy exists), because `InstallDefault`
and `ConfigureSet` reset the counters and must find no permit alive.  `WithinPolicy` follows from it and the
monotonicity of the peaks.  `NoLostWakeup` needs `Conservation`: only `Release` makes a sleeping request fit,
and it leaves its thread in `notifying`.

*The single-flight cache.*  The invariant has two halves, `StoreInv(store)` and `CallersInv`, and the only
fact that the callers need about the store is which keys a critical section can make retained.  The
accounting holds always.  `ByteBounded` and `LogCoversRetained` hold under `Uncompacted`, the ticks at which
the log cannot have been compacted yet (`tick <= 4 + LogSlack`): compaction runs before the touched entry has
its new tick, so the newest entry may lose its record, and after that the two are false (section 7).

*The trie cache* implements the single-flight cache with the gate's two steps hidden in its build; the store
and the callers map to themselves, a wait for the gate is a stutter.  `SingleFlight` and `WaiterIsServed` are
inherited through the refinement.  `BuildsWithinGate` is inductive with `ClosureInv`: a caller deals with the
gate only while it builds, and is charged the estimate of its own vocabulary.

*The executable cache.*  `CacheInv == StateInv /\ Provenance /\ ControlInv`.  `Provenance` ties a retained or
carried executable to the input it was built from; `ControlInv` describes the stack of a call (an outer build
for the input, an inner one for the IR), that a slot has one builder, and that a slot which is waited for or
marked as building has a call that will settle it.  `WaitsEndAtBuilder` follows from the nesting: an inner
build never waits on an outer slot.

*Lazy rows.*  A charge is either that of a retained row or of a walk that has reserved it, a row is decided
once, and every answer is the row of the automaton's state; the sum of the charges is a `Weight`.

*Regular sessions* implement `Decoder`, the abstract decoder that knows only the set of texts: a mask holds
exactly the tokens that keep the text completable, an advance that is accepted appends its token, a session
is complete exactly at a member of the language.  The argument has four parts: the backward closure that
computes the viable states saturates in fewer rounds than there are states (a pigeonhole on growing sets), so
`viable` is "some word leads to acceptance" (`ViableIsPrefix`); the engine's run on byte classes is the raw
run folded; a query returns the row of its own state whichever thread decided it; and a pending mask's
position stays the session's until it is written.

*The vocabulary trie.*  The invariant gives every node a label, the bytes on the way to it from the root:
an edge appends its byte to the label of an older node, the insertion path spells the last record, and the
leaves are in the order of their nodes (this is where the sorted vocabulary is needed: `InsertedOK`,
`ScanComplete`).  *Fuel*: while the frontier is measured, every popped node is noted with its place in the
stack, and the frontier covers that place with all the children (`Covered`); a walk that prunes pushes a
subsequence of the children, so no node is ever higher in its stack than the place noted for it (`Lower`), and
the measured frontier is enough.  *Rows*: a node on the stack carries the state its label leads to, and what
lives below an emitted node is emitted or on the stack (`WalkOK`); when the stack is empty, the oldest living
node that was left out would have an older parent that was not.  The memo never answers for another node: after a bump
no class carries the current generation, the wrap included (`BumpForgets`).  *Completable*, in both directions:
a step that does not die ends in a state the backward closure reached in some round, and a round is a byte
(`RoundCompletes`); a token that dies is completed by no word, since the sink is never left and does not accept.

*Canonical items.*  The builder of `uniqueItems` values journals every change it makes to its frames.
`BuilderUndo` is about any run of fed bytes and finished items that commits nothing: undoing to a mark taken
anywhere in it gives back the builder the mark was taken of, equal in every field.  The invariant
(`BuilderOK`) says what the journal may hold on top of which stack; each record is shown to be the inverse of the
change it was written for, and reverting a suffix of the journal composes these inverses.  `PushByteEnds`:
`push_byte` loops because a byte that ends a number or literal is fed again to the container below, and a byte
that begins a value of a container is fed again to the frame opened for it; neither can follow itself, so three
turns always suffice, and a refused byte leaves the builder as it was.  `SeenByValue`: the set of items answers by value whatever fingerprints collide.

*Numbers.*  The accumulator never holds the number it reads: it keeps a residue, the first `LeadingDigits`
digits, and counts.  The theorems compare it with a reading of the same text as a decimal (`ReadByte`: the digits
before the exponent as one unbounded integer, the digits behind the point, the exponent), for texts of any length
without white space.  The invariant `Agrees` says that the mantissa read so far is `core * 10^pending_zeros`
with a `core` that does not end in zero and whose residue is `core_mod`; `KeepsLeading` adds that `core` has
`core_digits` digits, of which `leading` are the first.  A zero is held back, a flag touches neither, and a
non-zero digit makes the whole mantissa the new core, which is where the flush of the zeros and
the square-and-multiply loop (`ModularPowerIs`) are needed.  `NumberConstraintsExact`: `integer` and `multipleOf`
hold of the accumulator exactly when the decimal value is a whole multiple; one direction needs that `core` does not
end in zero, so that a negative power of ten is not whole.  `BoundsExact`: `minimum`, `maximum` and their exclusive
forms accept exactly the values in range.  The exponents of the first digits decide unless they are equal; then
the first differing digit does (`FirstDiffering`), and a number whose digits are used up without a difference but
which has more digits than are kept is greater, again because its last digit is not zero.  Hypotheses: the
exponent in the text is at most `ExponentCap` (10^9 in the code, where it saturates), and for `BoundsExact` the
coefficient of the bound has at most `LeadingDigits` digits.  The second is needed: beyond it the comparison is wrong
(section 7, observation 6).

*Weights and recursion.*  A sum over a set is the cardinality of a set of (element, unit) pairs, so that its laws follow from the library's theorems about finite sets.  The induction theorems of
the library take an operator as a parameter and cannot be instantiated here; `LeastNatural` and
`SetInduction` (induction as a statement about a set of numbers) and `Follows` with `RecursionExists` (a
recursive function exists and satisfies its equation) stand in for them.

*Assumptions*, all named in the modules that declare the constants and evaluated by TLC: the sets of threads,
keys and states are finite; sizes, estimates and budgets are natural numbers; the default policy is positive;
a null value is outside the set it stands beside; the raw automaton is total with a start state among its
states, and every byte class has a byte (`build_class_table` makes no other; for the trie it is enough that a
class without a byte has no edge); tokens are not empty; an id belongs to one byte string, and the ids of equal
byte strings are one record, as `PreparedVocabulary` groups them.

## 6. Only model-checked

* Liveness: `AcquireReturns`, `EveryCallReturns`, `EveryMaskReturns`, which rest on fairness.
* The invariants of `StructuredMatcher`, `ReferenceMatcher` and `SchemaPipeline`.  Their modules define
  validators, plans, schemas and texts by `RECURSIVE` operators (a state is a tree of states, a schema a tree of
  schemas), which the prover cannot use, and the properties are inductions over those data.  The parts of the
  structured runtime without that recursion, the builder of canonical items and the number accumulator, are
  proved in `StructuredValueProofs`; the runs `validators` and `reference` check the same operators inside the
  matchers.
* White space inside and after a number text (`finished`) and exponents beyond the cap, which the theorems about
  numbers leave out.

## 7. Not modelled, and observations

Statistics counters; hashing (a digest is a constant function, with collisions where the code compares keys
and injective where it does not); memory-allocation failure, except in the walk of a row; endianness and
packing of masks, which are sets of ids here; tokenizer parsing; the Python and tensor layers; the test-only
oracles.  A panic inside a lazy walk would leave its reservation charged; the walk has no panicking path, so
it is left out.

Of the structured runtime: byte accounting of buffers, the key lease, the pools of frames, UTF-8 sequences and
`\u` escapes, and the record-by-record writing of a mask.  Of the compilation: the JSON lexer, the text of
regular expressions and the construction of automata from it, the spelling of URIs and pointers, and the wire
format.

### Observations

Differences between the code and its documentation or its evident intent, met while modelling.  They have no run of
their own, and the passing runs stay away from these cases: the instances hold no schema or
token that meets them, so a passing run says nothing about them.

*Caches.*  (1) The trie and artifact caches compact the touch log before the touched entry has its new tick
(`index/cache.rs:184`, `artifact_cache.rs:201`, `:377`), so after a compaction an entry may lack a record and
the byte bound can be exceeded.  (2) The executable cache's log gets one record per hit and is never compacted
(`executable_cache.rs:481`).  (3) A refusal that held for one moment is kept in the row's `OnceLock`
(`runtime/mod.rs:153`).  (4) The regular backend answers an unknown token id with `IllegalToken`;
the error table of `docs/architecture.md` says `UnknownToken`.

*Structured runtime (`state.rs`, `plan.rs`).*  (5) White space before a number with a negative maximum is
rejected (`state.rs:11121`; the reference recogniser does the same at `reference.rs:1796`).  (6) Bounds of more
than 20 digits compare wrongly (`:11187`); all others compare exactly (`BoundsExact`).  (7) `[ ]` is rejected under `unevaluatedItems` (`:3277`, `:8784`).
(8) The closing byte of an unevaluated frame is not recorded (`:7709`).  (9) At the undo limit an unevaluated
cursor has been pushed before its entry is reserved (`:8895`, `:8925`, `:8975`), and an AnyJson slot has been
allocated before its entry is (`:10580`): the slot is lost, not shared.  (10) Two patterns with
`unevaluatedProperties: false` meet in `FiniteKeyTrie::permits` (`plan.rs:332`).  (11) An intersection of
nothing but negated strings becomes a string plan, and a negated pattern that is not the user's contributes
nothing (`fast_string_intersection`).  (12) A dynamic reference inside a cycle of one instance is rewritten to a
static one.

*Reference recogniser.*  (13) A union's verdict is its first successful branch; duplicate keys are not looked
for in a value of any type; evaluated keys are not collected through a dynamic reference; the witness search
for integers misses `-0` and `2E-0`.

*Frontend.*  (14) `const` and `enum` return before their sibling assertions, so
`{"enum":[1,2,3],"minimum":2}` accepts `1` (against `README.md:205`–`206` and
`docs/development/json-schema-support.md:3`–`5`).  (15) `additionalItems`, `$recursiveRef` and
`$recursiveAnchor` are documented as rejected; `UNSUPPORTED_KEYWORDS` is empty.  (16) A required name that is
not in `properties` becomes a known property of any value (pinned by tests, against `README.md:205`).
(17) An empty number range is malformed where an empty integer range is `never`; an integer range closed by exclusive bounds and a `maxLength` below `minLength` are malformed; so is one key in both
`dependencies` and its successors.  (18) Composite `const` and `enum` values are compared as canonical text.
(19) A resource root that collapses into a child with its own `$id` fails `validate_resources`.  (20) Digit
constraints require a signed exponent, so `1e5` is rejected; a `multipleOf` with a huge exponent loops that
often.  (21) Regular integers accept plain spelling only: neither `1.0` nor `-0`.  (22) Draft 6 and 7
resources read `id`, not `$id`; a legacy id with a fragment makes its URI an alias of the enclosing resource.
(23) Without the validation vocabulary only `type` and numeric bounds stop being asserted
(`json_schema.rs:876`, `:1119`, `:1420`): `required`, `const`, `enum`, `minLength` and its other keywords still are,
against `README.md:205`.  `Unasserted` drops the whole vocabulary, as the draft does, and the roots that `compile`
gives a custom metaschema have no keyword of it but types and numeric bounds.  The vocabularies of applicators are
not looked at: those keywords always apply, and the run's metaschemas list theirs.  (24) The canonical
hash does not reach nodes that only a dynamic anchor names, and its doc comment excludes the options that the
code hashes.  (25) A reference is lowered without its caller's unevaluated flags.

## 8. What would come next

1. *The undo log of `StructuredState`*: rollback exactness for the whole tree of validators, as `BuilderUndo` has
   it for the builder, and structured sessions shown to implement `Decoder`.  Both need the state's operators
   written without `RECURSIVE`, for a fixed nesting depth of validators.
2. *The wire decoder* against the schema IR it encodes.
3. *The Python generator* as a loop over several sessions.
