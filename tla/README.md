# Verification of Oncefold

Oncefold lets one program publish a *receipt* for work it did and another
program decide whether that receipt may stand in for doing the work again.
This directory holds TLA+ models of the code, TLC configurations that check
them on small instances, and TLAPS proofs about the parts where a mistake
would be hardest to find by testing: the stores, the reuse decision and the
evaluation that combines the two. A document is followed all the way: the text
as the JSON readers take it, the document as the four parsers read it, its
canonical form, the decision, and the exit status of the process that decides.

Paths below are relative to the repository; `protocol.py`, `identity.py`,
`mcp_shadow.py`, `wire.py` and `cli.py` are in `src/oncefold/`.

## 1. The system

| Part | State | Operations | Talks to |
|---|---|---|---|
| Identities and canonical JSON (`identity.py`) | none | normalize, hash, timestamps, dependencies | everyone |
| Documents (`protocol.py` 34-449) | frozen objects | `from_dict`, `__post_init__`, `as_dict`, digests | identities |
| `ReceiptTrustPolicy` (`protocol.py` 601-650) | frozen object | `admits` | verifier |
| `InMemoryReceiptStore` (`protocol.py` 482-507) | a dictionary, a set | `put`, `get`, `is_revoked`, `revoke` | verifier, adapter |
| `SQLiteReceiptStore` (`protocol.py` 510-594) | two tables of a database file, shared by processes | the same four; one connection per call | verifier, adapter |
| `ReceiptVerifier` (`protocol.py` 653-804) | none of its own | `evaluate_digest`, `evaluate` | store, policy, the caller's validator |
| `MCPShadowProxy` (`mcp_shadow.py`) | `_by_action`: action digest to receipt digest | `forward`, `observe_tools_call`, `evaluate_tools_call` | verifier, store, the forwarded tool |
| TypeScript, Go and .NET consumers (`implementations/`) | none | read JSON, canonicalize, parse an action, parse a receipt, evaluate | documents written by Python |
| Wire ingress (`wire.py`) | none | bounded JSON parse | CLI |
| Command line (`cli.py`) | one process: files read, status | `inspect`, `check`, `verify` | all of the above, two files |
| Producer and consumer examples (`examples/interop_*.py`) | a receipt file | write a receipt; evaluate it | CLI, through the file |
| `conformance/stdlib_check.py` | none | a second JSON reader and canonicalizer | the vectors |

What is hard about it, and what each part must guarantee:

- **Stores.** A `get` of the SQLite store is three SELECTs on two connections
  and `is_revoked` is two, each its own snapshot; `revoke` is two statements in
  one transaction. Other processes commit in between, a method may raise
  inside its transaction, a process may be killed, and a row may have been
  edited by something else. A revocation must never be lost, whatever is put,
  rolled back or restarted after it; a `get` must return what was asked for;
  the write lock must be given back.
- **Decision.** Sixteen conditions are tested one after another, several can
  hold at once, and `docs/PROTOCOL.md` section 6 fixes which wins. Optional
  texts admit the empty text, which is neither None nor a value.
- **Evaluation.** Two store calls and a validator that runs as long as
  it likes, with publications and revocations in between. Reuse must have all
  of its evidence; a revocation from before the call must decide it.
- **MCP adapter.** Store and index are written in two steps, by several
  threads, and only one of the two survives a restart. The adapter only
  watches: no decision may replace, repeat or suppress the call.
- **Four implementations.** They must read the same receipt from the same
  document and decide alike; None, nil, null, the empty text and what is checked
  before normalization are where they differ.
- **Canonical form.** One value has one digest, whoever computes it: keys that
  collide only in normal form, a text that normalization makes longer or
  shorter than the bound, the order of keys by UTF-8 bytes where JavaScript
  and C# would sort by UTF-16 units, the depth at which a value is too deep.
- **Five JSON readers.** Python and Go first scan the bytes to bound the
  nesting and only then parse; the scan knows quotes and brackets, the parser
  knows the grammar, and the two must count alike, or the recursive parser
  behind the scan is not bounded. TypeScript and .NET read once and check each
  thing elsewhere: duplicates at the key or at the end of the object, surrogates
  while reading or afterwards. All must accept the same texts.
- **Files.** A receipt file is written in place and not atomically, the
  producer may die in between, and a reader takes several reads. A gate must
  open on nothing but a whole receipt with all of its evidence.

## 2. Modules

| Module | What it is |
|---|---|
| `StoreContract` | what a store may answer: operators shared by the abstract store and by everything that calls a store |
| `ReceiptStore` | the abstract store: each call takes effect in one atomic step |
| `SQLiteReceiptStore` (+ `MC`) | the SQLite backend, one action per SQL statement; implements `ReceiptStore` |
| `InMemoryReceiptStore` | the in-memory backend; implements `ReceiptStore` |
| `ReuseDecision` | `evaluate` and `admits` as operators, and the documented precedence table as their reference |
| `DecisionCases` | the inputs the decision is enumerated over |
| `ReceiptVerifier` (+ `MC`) | consumers evaluating over a moving store; composes `ReuseDecision` with `StoreContract` |
| `MCPShadowProxy` (+ `MCMCPShadowProxy`) | forwards of several threads through one proxy; composes the same two |
| `IndependentConsumers` (+ `MC`) | the four implementations of `evaluate`, each translated from its own source; `MC` also holds the decision against its reference |
| `JsonDocuments` | JSON values as parsers see them |
| `PythonDocuments`, `GoDocuments`, `TypeScriptDocuments`, `DotNetDocuments` | the four readings of action and receipt documents |
| `Canonicalizers` | what each of the five canonicalizers makes of a text, and its order of texts |
| `CanonicalJson` | the canonicalization of a value, as functions recursive over its levels |
| `CanonicalValues` | a value before all five canonicalizers, and an equal value after it |
| `DocumentCases` | the base document and how one is signed anew |
| `DocumentParsers` | a document before the four parsers, written again by Python and read again |
| `MCDocuments` | the documents (with replaced fields) and the JSON values that `DocumentParsers` and `CanonicalValues` are checked with |
| `WireIngress` | the five JSON readers, fed one symbol at a time |
| `CommandLine` (+ `MC`) | producer and reader processes over files; composes `PythonDocuments` with `ReuseDecision` |
| `SQLiteReceiptStoreProofs` | proofs: the SQLite store's invariants; that it implements `ReceiptStore` |
| `InMemoryReceiptStoreProofs` | proofs: the same of the in-memory store |
| `ReuseDecisionProofs` | lemmas about the decision's operators; that its checks are the documented table |
| `ReceiptVerifierProofs` | proofs about evaluations over a moving store |
| `IndependentConsumersProofs` | proofs about the implementations: what `evaluate` decides, what the parsers read, what the canonicalizers make |
| `MCPShadowProxyProofs` | proofs about the adapter |
| `WireIngressProofs` | proofs about the JSON readers |
| `CommandLineProofs` | proofs about the gate and the files it reads |

### Correspondence with the code

`SQLiteReceiptStore`. `rows` and `markers` are the committed tables
`oncefold_receipts` and `oncefold_revocations`; `draft` is what the connection
that holds SQLite's write lock (`writer`) sees of both; `call` holds, for each
client, the method in progress and its local variables. `ReadRow`, `ReadFlag`
and `ReadMarker` are the SELECTs (552, 568, 571), `InsertRow` the upsert of
`put` (535-543), `InsertMarker` and `SetFlag` the two writes of `revoke`,
`Commit` the commit. `Raise` is an exception at any point of a method and the
rollback its `finally: db.close()` causes; a write may also raise when its
transaction has taken effect, out of the commit itself or the close; `Crash` is a kill, after which
`Open` finds the file again; `Alter` is an edit of a payload by something
else. SQLite's locking, snapshots and rollback are modelled from how the code
uses them.

`ReuseDecision`. `ScopeRefusal`, `SafetyRefusal`, `FreshnessRefusal` and
`ClassVerdict` are the four blocks of `evaluate` (705-715, 716-731, 732-750,
751-780), each a chain of early returns in the order of the code; `Evidence`
chains them, `UpToValidator` puts integrity and revocation before them, and
`Validated` is what the code makes of the validator's answer (781-799).
`ProtocolTable` is the documented table, row by row, written independently.

`ReceiptVerifier`. An evaluation is a record with a program counter: `Get`,
`Absent` and `Check` are the store calls, `Validate` the validator's answer,
`StoreRaises` an exception of any store call. The store is moved by `Publish`,
`Revoke` and `Damage`, and answers as `StoreContract` allows; that both
backends keep to it is what the refinements show. `known` and `present` are
history: revoked when the call began, and readable ever since.

`MCPShadowProxy`. `index` is `_by_action`. All three methods are there: a
call's `op` says which one it is, and they share their steps as the code shares
its calls. `Refuse` is a request no action can be made of; `LookUp` begins
`forward` and `evaluate_tools_call` with the one read of the index, `Observe`
begins `observe_tools_call` with the caller's result. `Get`/`Absent`/`Check` are
the evaluation, after which `evaluate_tools_call` returns; `Execute` is the
tool's call with every way it can end; `Compare` the second read of the prior
receipt; `Skip`, `Unhashable`, `Record` and `Index` the recording, the last two
being steps of their own. `Restart` is a new proxy object, with or without a
new process.

`IndependentConsumers` and the modules of one language's documents hold no state
of their own: one list of early returns, or one reading of a document, per
implementation.
`DocumentParsers` puts a document before all of them: `Read` is everyone's
`from_dict` or `ParseReceipt`, `Reissue` Python's `as_dict` and everyone's
reading of that.

`CanonicalJson`. `Normalize` is `_normalize` (66-105) and its counterparts, which
differ only in what `Canonicalizers` says of each: its reading of a text that is a
value (`ReadText`) or a key (`ReadKey`), its `Order`, and whether it is `Bounded`.
`Normalize[n]` is for values of at most `n` levels, since recursion over values is
written as a function on the naturals; `MaxNesting` is how many levels the values
may have and, unlike `MaxCanonicalDepth`, no bound of the code. In `CanonicalValues`,
`Canonicalize` takes the forms of a value and `Recanonicalize` those of an equal
one: `Respelled`, which is how another producer writes it, or one of the forms.

`WireIngress`. Each reader is a pair of the byte scan (`_check_depth`, `_depth`,
`validateJSONText`) and the parser behind it, whose `stack` has a frame for
each open container and whose `place` is where the recursive descent stands.
`Feed` gives one symbol to every reader, `Finish` ends the text and takes the
verdicts. What a language's parser refuses at once (`RefusesOpening`,
`RefusesKey`, `RefusesMember`, `RefusesClosing`, `RefusesCharacter`,
`RefusesString`) sits at the place of its code; what Python finds in the value
afterwards (`_check_unicode`) is remembered in `late` and asked at the end.

`CommandLine`. `Truncate`, `WriteHead`, `WriteTail` and `Kill` are the
producer's `write_text` and its death; `ReadHead`, `ReadTail` and `ReadAction`
the reader's files, parsed by `PythonDocuments`; `Decide`, `Fail` and
`Consume` the rest of `main` (87-120) and of the example consumer. `ExitStatus`
is the gate.

## 3. What TLC checks

| Run | Distinct states | What it shows |
|---|---|---|
| `sqlite_store` | 392 thousand | revocations are permanent and atomic, reads are sound, and the backend implements `ReceiptStore`, for all interleavings of statements, exceptions, kills and edits |
| `sqlite_lock` | 10 thousand | the write lock is always given back |
| `memory_store` | 22.6 thousand | the in-memory backend implements the same contract |
| `verifier` | 69 thousand | decisions under races with publish, revoke and damage |
| `mcp` | 509 thousand | the adapter's index, comparison and recording, two threads in any of its methods |
| `mcp_later`, `mcp_failures` | violations | two sentences of `docs/MCP_INTEROP.md` the code does not keep |
| `consumers` | 1,244,160 cases | Python's order of checks is the documented precedence, reuse exactly on full evidence; the four implementations agree wherever no text is empty |
| `consumers_agree` | violation | they do not agree where one is |
| `documents` | 43,610 documents, 9,205 values | the four parsers read the same receipts, alterations are detected; the five canonicalizers make the same forms |
| `wire` | 266 thousand | the byte scans count what the parsers nest; all readers accept the same texts |
| `command_line` | 173 thousand | a gate opens exactly on trusted exact evidence; no torn file is decided on |

(The enumerating runs `consumers` and `documents` have two or three states per
case.)

### Properties

* `FlagHasMarker`, `GetIsSound`, `IsRevokedIsCurrent`, `RevocationIsPermanent`:
  a row's flag is never evidence of its own; a receipt handed out was not
  revoked when the `get` began and is the one asked for; the answer of
  `is_revoked` was true at an instant of the call; nothing takes a revocation
  back. `AnswersMatchRevocation` is the in-memory counterpart.
* `ImplementsContract`: the backend refines `ReceiptStore`. The mapping lets a
  read take effect at the SELECT whose result settles its answer (`Settled`)
  and a write at its commit. SQLite hides revoked receipts from `get`, the
  dictionary does not (`HidesRevoked`): callers may rely on neither.
* `FollowsProtocolTable`, `ReusesExactlyOnEvidence`: the decision is the
  documented one, and `ReuseEvidence` is both necessary and sufficient.
* `ReuseIsJustified`, `RevocationIsHonoured`, `RevokedIsExplained`: the same
  over a moving store. `DecisionIsDocumented` says that each decision is the
  table's for the store as it was at one instant of the call.
* `IndexIsBacked`, `PriorIsAlwaysFound`, `WouldReuseIsJustified`,
  `ComparisonIsHonest`, `ReturnedMeansExecutedOnce`,
  `OnlyEligibleCallsAreRecorded`: the index never points at nothing or at
  another action's receipt; reports are honest; a returned forward executed
  the tool once, and the other methods never do; side effects and results that
  say by themselves that they failed leave no receipt.
* `AgreeWithoutEmptyTexts`, `TypeScriptIsStricter`, `RevocationIsUniversal`:
  the implementations decide alike without empty texts, and with them
  TypeScript only refuses more and a revocation still binds all four.
* `ParsersAgree`, `AlterationIsDetected`, `ReissueKeepsReceipt`: the parsers
  read one receipt from a document, or all reject it; a document that keeps its
  digests keeps its meaning or is rejected; what Python writes again has its
  old digest and is read as the same receipt. Two exceptions are stated
  exactly: TypeScript rejects the documents with an empty optional text
  (`CarriesEmptyText`), and Python those whose side effect class is one in
  normal form only (`CarriesRespelledClass`); nothing else parts the four.
* `CanonicalFormsAgree`, `SpellingIsImmaterial`: all canonicalizers make one
  form of a value, or none does, and another spelling or order, or a second
  pass, changes nothing. The exceptions are written into the properties and
  listed in section 5.
* `NestingIsGuarded`, `ReadersAgree`: at every prefix of every text the scan's
  depth is the parser's, in a string exactly when the parser is; and at its
  end all five readers accept the text or none does.
* `GateOpensExactlyOnEvidence`, `DecidesOnlyWrittenReceipts`: exit status 0 of
  `check` and `verify` is equivalent to an action given, well-formed flags and
  `ReuseEvidence` for an EXACT receipt; and whatever is decided is decided of
  a receipt that a producer wrote as a whole, never of two halves.

### Bounds

* SQLite: two clients and two digests, clients symmetric. Two clients are what
  it takes to commit between two SELECTs of the other; a digest is only ever
  compared with itself and with the altered payload, for which the second
  digest (another receipt) and `Garbage` (no receipt) are the two cases. The
  lock is one for all digests, so the liveness run takes one.
* In-memory: two clients, two digests.
* Decision: an action equal to the receipt's or different in one field; the
  receipt's own fields, the policy, the result and the validator deviate
  independently. Each check reads one field, or compares two, so one other
  value per field is enough; optional texts take None, empty and a value.
* Verifier: one consumer, two receipts (one per authoritative class), two
  actions, two policies, both backends. Consumers share only the store, which
  moves freely anyway, so one is enough; the proofs are for any number.
* MCP: two threads, three calls of a method in a behaviour (`MaxCalls`), two
  result values, one reading of the clock; a trusted producer forwards and
  evaluates, another one observes the same action, and a tool with side effects
  is forwarded. Three calls are one that records and two that race to use and
  replace it. The two violation runs need one thread; one of them a call
  that names a validator.
* Consumers: the decision's cases, with the outcomes all four can be given
  (the other three take a validator's Boolean result, not a callback).
* Documents: one field of the action or of the receipt replaced by one of 29
  values, or one of each by one of 13, digests kept or computed anew by a producer
  in Python, and for a single field of the action by one in Go too. Parsers
  treat fields separately, except for the digests and the order of checks, and
  the proofs are for every document.
* Canonical forms: a depth bound and a size bound of 2 (`MaxCanonicalDepth`,
  `MaxCollectionLength`; 16 and 256 in the code), values up to two levels past
  the depth and one member past the size, with a text of every kind that some
  implementation treats differently. `MaxNesting` is 6, so that all of them are
  values of the model (`SampleValuesAssumption`, which TLC evaluates).
* Wire: nesting and size bounds of 2 (`MaxDepth`, `MaxCollection`; 32 and 256
  in the code), keys of one symbol out of three spellings, one of which is
  another spelling of a plain letter (`KeySymbols`). Texts are not bounded: the
  state is what the readers remember, which these bounds keep finite. One
  level past the bound is refused where it opens, so deeper ones add nothing.
* Command line: six receipts, five states of the action file, three places
  where a write or a read may be cut, flags right and wrong in each way for
  `check`, and three of them for the other commands, which share all of `main`
  but the exit status. Two processes, one on each side: readers share nothing,
  and a second writer is the same one starting again.

Deadlock is checked in every run over a system that keeps running; the enumerating
runs decide one case and stop, and so does `wire` at the end of the text.

### Fairness

Only `sqlite_lock` assumes any: `FairSpec` has weak fairness, client by client,
of "the method takes its next step, or gives up at its busy timeout". A method
once called runs in its caller's thread until it returns or raises, and
`sqlite3.connect(..., timeout=...)` bounds the wait for the lock. No fairness of calls,
returns to the store, kills or restarts is assumed.

## 4. What is proved

TLAPS checks every proof to its last leaf, for all values of the constants.

**SQLite store** (`SQLiteReceiptStoreProofs`; assumption `DistinguishedValues`:
the markers for no row, no client and no receipt are none of the real ones).
The properties are not inductive: whether a commit keeps a revocation depends
on the draft, and whether an answer is sound depends on what the call read so
far. The inductive invariant is

    IInv == TypeOK /\ LockInv /\ DraftInv /\ ReadInv /\ FlagHasMarker

`LockInv`: the lock belongs to the client inside a transaction, and only to
it. `DraftInv`: without a writer the draft is the committed state; with one it
is that state plus the writer's statements so far, so commit publishes exactly
one put or one revocation. `ReadInv`: what each call has read already
determines which answers are still sound. Theorems: `TypeCorrect`,
`FlagsHaveMarkers`, `GetsAreSound`, `RevocationAnswersAreCurrent`, and, from
the lemma that committed revocations only grow, the action property
`RevocationsArePermanent`.

**SQLite implements `ReceiptStore`** (`SQLiteReceiptStoreProofs`, theorem
`Refinement`). The mapping places a read at the first SELECT that settles its
answer and a write at its commit; the proof has one lemma per action, which
shows it to be the abstract step or not seen at all. The invariant needs one
more part, `RInv == IInv /\ ReadsInv`: a flag has not been looked at before its
SELECT, and a row once read never disappears (no statement deletes one). An
exception after the commit of a write is where the mapping matters: the
effect is there and the call has failed all the same, which the abstract store
allows and the caller, who may write again, cannot tell from a rollback.

**In-memory store** (`InMemoryReceiptStoreProofs`; assumption `SomeDigest`:
there is a digest). `IInv` bounds each answer by the revocations it may have
seen. Theorems: `TypeCorrect`, `AnswersFollowRevocation`, and `Refinement` of
the same `ReceiptStore`. So both backends are proved to keep the contract that
verifier and adapter are modelled over.

**Decision** (`ReuseDecisionProofs`; assumption
`DistinctAbsences`: None is neither the empty nor a malformed text). For every
action, receipt, policy and result: `RefusalsRefuse` (the three refusals reuse
nothing and revoke nothing), `RefusalsEstablishEvidence` (what has passed
them), `ClassVerdictIsSound`, and together `ChecksAreSound`. `TableDecides`
reads the table from its first row to its last, and `ChecksFollowTheTable`
says that the code's chain of returns decides as it does.

**Verifier** (`ReceiptVerifierProofs`; assumptions `ReceiptsHaveClasses` and
`ReceiptsHaveDigests`: a receipt has one of the four reuse classes and a
digest of its result, as its constructor checks).

    IInv == TypeOK /\ \A p \in Consumers : EvaluationOK(eval[p], revoked)

where `EvaluationOK` says what an evaluation has established at each place:
while the validator runs, all evidence but its answer, as of the revocations
known when the call began. It is preserved because revocations only grow, so
a receipt known to be revoked at the start is still revoked at the check.
Theorems: `TypeCorrect`, `ReuseJustified`, `RevocationHonoured`,
`RevokedExplained`. `DecisionDocumented` needs `DInv`, which adds the instant
that each decision is the table's for: a receipt readable since the call began
is readable now, and if a `get` missed it all the same it has been revoked.

**The four implementations** (`IndependentConsumersProofs`; assumption
`DigestsAreTexts`: what stands for a digest in the cases is no empty and no
malformed text). `PythonFollowsTheTable`, `TypeScriptFollowsTheTable`,
`GoFollowsTheTable` and `DotNetFollowsTheTable` turn each list of early returns
into the table, for every well-formed case and not only for those that the run
enumerates; for Go and .NET where no text is empty, for TypeScript with its
refusal in front. From them, as theorems of the run's specification:
`TableFollowed`, `ReuseOnEvidence`, `Agreement`, `TypeScriptRefuses`,
`Revocation`.

**MCP adapter** (`MCPShadowProxyProofs`; assumptions `CallBound` and
`CallsHaveMethods`). The invariant is

    IInv == TypeOK /\ IndexIsBacked /\ StoredReads
              /\ \A t \in Threads : fwd[t].pc # "idle" => ForwardOK(fwd[t], stored, revoked)

`ForwardOK` says what a call has established at each place. Store and
revocations do not shrink while a call runs, so a prior receipt once found
stays found and a miss means a revocation; the put precedes the index entry,
so between the two nothing names what is not there; a restart, which may lose
the store, ends every call and empties the index. Theorems: `TypeCorrect`,
`IndexBacked`, `PriorFound`, `WouldReuseJustified`, `ComparisonHonest`,
`ExecutedOnce`, `EligibleRecorded`, for any number of threads.

**JSON readers** (`WireIngressProofs`; assumption `WireBounds`: the two bounds
are natural numbers). All theorems are for every bound, any depth up to it
and texts of any length; TLC's bounds of 2 are one instance. The invariant is

    IInv == ReadersTypeOK /\ ReadersOK /\ SameText /\ PastTheBound /\ ReadersAgree

`NestingGuarded` needs `ReadersOK`, which relates the scan and the parser of
one reader: the depth counted is the length of the stack, and one is in a
string or behind a backslash exactly when the other is. `AllReadersAgree` is
harder, because the readers do not refuse at the same symbol: Python looks for
lone surrogates and too many members in the finished value, Go counts members
when an object closes, TypeScript and .NET refuse at the key. They are compared
through the bare grammar, which no check interrupts (`Grammar`): readers that
have not refused have all made of the text what the grammar makes of it
(`SameText`). A symbol that only some refuse leaves the grammar's parser
`Doomed`, with a mark that no continuation removes and that the others refuse
sooner or later, Python in its walk at the end; what nobody can leave for later
(`Forbidden`) all refuse at once; and a reader that does not walk the value is
`Clean` as long as it has not refused. Text past the nesting bound was refused
by every scan (`PastTheBound`). TLC checks `IInv` on every state of the run's
instance. Theorems: `ReadersTyped`, `NestingGuarded`, `AllReadersAgree`.

**Command line** (`CommandLineProofs`; assumption `Sealed`: every document
of the constants has a receipt digest, and it is that of one which is accepted
as it is: what stands in a file is a producer's receipt or was altered after
one). Two halves of
documents make a receipt only if the digest in one of them is that of the
mixture's content; digests are collision free, so the mixture is then the
receipt which has that digest (`PartsOfReceipts`). Without `Sealed` the
theorem is false: two documents altered to fit each other would make up a
receipt nobody wrote. `EvidenceDecides` says that the checks of `evaluate`
without a validator reach REUSABLE_EXACT exactly with `ReuseEvidence` for an
EXACT receipt; the invariant carries both through the reads, the decision and
the exit status. Theorems: `GatesOpenOnEvidence`, `DecidedReceiptsAreWritten`.

**Documents** (`IndependentConsumersProofs`, second part; assumption
`DocumentsAreJson`: the documents are records of the protocol's fields, each of
them missing or a JSON value, with finite maps and arrays; any texts, numbers of
members and dependencies). The state is easy, `DocumentsInvariant`: what was
read is what the parsers make of the document. The work is in the operators.
One lemma per kind of field says that the four readings of it are equal
(`TextReaders`, `OptionalTextReaders`, `MapReaders`, `FieldReaders`,
`DependencyReaders`); they differ in what is checked before and what after
normalization, and in where defaults are put in. Duplicates are where the
programs differ most: Python compares numbers of keys and identities, Go looks
for two indices, TypeScript counts a set, .NET groups. `CountingImages` (as many
images as elements means that no two elements have the same) and `CountingMore`
bring all of them to the same condition (`Readable`, `Distinct`). Actions and
receipts then agree field by field (`GoAction`, `GoContent`, ...); TypeScript's
canonicalization refuses an object exactly when a field is the empty text, which
only the optional texts can be (`EmptyTexts`). The side effect class is what parts
Python from the rest: Go, .NET and TypeScript are proved to read `NormalReceipt`,
the receipt with the class looked up in normal form, and Python reads that or
nothing, the latter exactly when the class is respelled (`Classes`, `PythonAction`,
`PythonReceipt`). For `ReissueKeepsReceipt` each
field that was read is shown to be read as itself (`TextsAgain`, `MapsAgain`,
...); the dependencies are written in some order, each once, and read as the same
set (`Enumerated`, `DependenciesAgain`). Theorems: `ReadersOfDocumentsAgree`,
`AlteredDocumentsAreRefused`, `ReissuedReceiptsAreKept`.

**Canonical forms** (`IndependentConsumersProofs`, third part; assumption
`CanonicalJsonAssumption`: the bounds and `MaxNesting` are naturals; values of any
depth, arrays and objects of any length). Canonicalization is recursive over the
value. Induction needs no operator as parameter when what is shown is a set of
levels (`Induction`, from the well-foundedness of the naturals' order): that is how
the recursive functions are shown to meet their equations (`JsonUpToExists`,
`NormalizeExists`, `RespelledExists`, `PartsExists`), and how each statement about
values goes from the items of a value to the value.

* `AgreementOnValues`: one level is `AgreementStep`. .NET's readings are Python's;
  TypeScript's are where the empty text does not occur, and one refusal makes every
  value around it refused; Go's are where no text shrinks or grows; `stdlib_check.py`
  accepts what Python accepts.
* `OrderIsImmaterial`: finitely many keys can be numbered in their order
  (`KeysInOrder`), so members that do not collide can be sorted and none is lost
  (`Sorting`); what sorting makes of them depends on the set of them only.
* `Respelling`: the other spelling of a text reads as the text does (`OtherSpellings`)
  and the reversed members are the same members, so the forms are the same.
* `Rereading`: of the form that one canonicalizer made, each makes what it makes of
  the value itself. A text in normal form is read as the text was (`TextsReadAgain`,
  with Go's exception), sorting keeps the members, and the form is as deep and as
  large as the value.

`ValuesInvariant` says that the state holds the forms of a value and those of an
equal one. Theorems: `CanonicalFormsAreOne`, `SpellingsAreImmaterial`.

**Only model-checked:** the lock's liveness (`sqlite_lock`), since liveness and
ENABLED are beyond these provers. Every other property of the passing runs is a
theorem.

## 5. Where code and documentation part

* `mcp_later`: `forward` takes a validator identity for its own action but
  looks the prior receipt up through `evaluate_tools_call`, which has no such
  parameter. A second identical forward with a validator identity is decided
  "no prior receipt" (`docs/MCP_INTEROP.md:19`: "evaluate a later equivalent
  action against the stored receipt").
* `mcp_failures`: the adapter looks for `isError` in the mapping the tool
  returned (`mcp_shadow.py:96`), also when that is a JSON-RPC response with the
  failed result inside; an EXACT receipt is recorded of the failure
  (`docs/MCP_INTEROP.md:18`: "record a receipt only for an ordinary successful
  read-only result").
* `consumers_agree`: the implementations treat empty optional texts
  differently, and one reuses what another refuses (`docs/CONFORMANCE.md:40`:
  "until the vectors and all four implementations agree").

Seen while modelling, and visible in the modules, without a run of their own:

* The evaluation comes before the tool's call, so an exception of the store
  leaves `forward` without the call (`StoreRaises` in `MCPShadowProxy`), while
  `docs/MCP_INTEROP.md:34` says that every `forward` executes the tool.
* `ActionIdentity.from_dict` looks the side effect class up as it was written
  (`protocol.py:258-260`), the other three normalize it first (`verifier.go:611`,
  `verifier.ts:362`, `Oncefold.cs:490`). `UNKNOWN` with U+212A KELVIN SIGN for its K
  is `UNKNOWN` for them and an error for Python; no other name of an enumeration has
  a second spelling. `ParsersAgree` names the exception.
* In Go an available result digest of `""` is the only way to say that there is
  none (`verifier.go:786`); the others have None or null for that.
* Canonical forms part in three places, which `CanonicalFormsAgree` names:
  TypeScript refuses an empty text in a value, Go measures a text that is a value
  before normalizing it and a key afterwards, and `stdlib_check.py` has no
  bounds and admits control characters.

## 6. Abstractions

* Digests are collision free: a receipt or action and its SHA-256 digest are
  one value, and what a digest binds and no check reads (operation, version,
  input, environment, freshness) is the single field `facts`.
* Receipts and actions are frozen. One altered around that, or built from
  inconsistent data, is the condition "altered"; one altered so badly that its
  digest cannot be computed, which raises, and an altered *current action*, are
  not modelled.
* A store call is one atomic step for its callers. Revocation reasons are left
  out: no decision reads them. Policies are well formed.
* Texts are representatives: a normalized and an unnormalized spelling, the
  empty text, a prohibited one. Lengths and code points are not counted. All
  implementations are given one operator `NFC`. That is an assumption: the
  libraries may follow different versions of Unicode, and Go's `x/text` makes the
  stream-safe form, which inserts U+034F after thirty non-starters in a row, where
  the other three languages do not.
* Dependencies are kept sorted and free of duplicates by every constructor, so
  they are sets. Revalidation in the constructors is part of the documents.
* The MCP adapter is given requests its constructor calls accept, and its
  stored payloads are not edited (that is `SQLiteReceiptStore`'s `Alter`):
  `PriorIsAlwaysFound` holds under that condition. Its verifier gets no
  validator, as in the code. Time is one reading; two equal receipts are one.
* A validator's outcomes are true, false, an exception and anything else.
* A forwarded tool does not alter the request it was given in place.
* The byte encoding of a canonical form is injective: `CanonicalJson` stops at
  the sorted, normalized value. The order of two keys is that of a fixed list
  of texts.
* The wire alphabet has no invalid UTF-8 and no raw control character but the
  newline; numbers are one symbol, which every reader refuses. A reader's two
  passes see a symbol together, which does not change what is accepted, since
  what a pass makes of a prefix depends on nothing behind it.
* The action file of the command line is replaced as a whole and carries no
  digest of its own; the only revocation a fresh store can know is the
  receipt's own `revocation_ref`. A torn file is a head and a tail: a mixture of
  two receipts, each field from one of them, or a text that is no JSON.

## 7. Not modelled

* Package surface: re-exports and the entry point.
* `main` of `stdlib_check.py`, the conformance runners and the vectors: test
  drivers that compare decisions with fixed expectations; the cases they can
  express are among those `consumers` enumerates.
* JSON schemas: declarations that no program of the repository evaluates
  outside its tests.
* The basic example, tests, CI, packaging: callers of what is modelled.

## 8. Plan

The order was: stores (their contract, both backends), decision, verifier,
adapter, consumers, documents, wire, command line, canonical forms; proofs
after the models, in the same order. All of it is done: every safety property and
every action property of the runs is proved, and so are both refinements.
