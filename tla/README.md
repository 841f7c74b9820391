# GKOS Engine Lite: a TLA+ verification project

This directory holds a formal model of GKOS Engine Lite (the Rust retrieval
crate `src/rust/crates/gkos-retrieval` and the desktop shell `src/desktop`),
the TLC runs that check it on small instances, and theorems about it with
proofs that TLAPS checks.

## 1. The system

GKOS Engine Lite indexes notes into immutable SQLite *generations* in a private
state directory, publishes one of them through the *active pointer* file
`active-retrieval.json`, and searches the published one. It is a library plus a command
line; several processes may work on the same directory, and the sibling program
GKOS Full (not in this repository) may hold the same directory through its own
`ingest-*` files ("Phase-3 authority"). A tray application supervises a sidecar
process that serves the notes.

### Inventory

Paths without a directory are under `src/rust/crates/gkos-retrieval/src/`.

| Component | State | Operations | Hard behaviour | What makes it correct |
|---|---|---|---|---|
| Legacy writer lock, `writer_lock.rs` | lock file (process, lock id, prior and target pointer digests), its temporaries, the in-memory capability | acquire, assert capability, bind target, assert commit, release, finish, Drop | several processes; every step is a separate file operation; checks before the lock exists | at most one owner; residue is never orphaned; release only when the outcome is decided |
| Stale recovery, `writer_lock.rs:893-957` | recovery claim (a hard link to the lock) | recover a dead owner's lock, fresh or resumed | dies at any step; two operators; acquisition running next to it | removes only the lock it claimed; all or nothing; completes when repeated |
| Generation store, `sqlite_store.rs`, `candidate_store.rs` | generation files, database temporaries, quarantined files, active pointer | build, reuse, quarantine, insert, rename, activate, open | crash half-way; corrupt files; opens that fail for a moment; rivals building the same generation | what is published is complete; a generation is withdrawn only by the call that builds it; publication is a compare-and-swap |
| Indexing, `coordinator.rs:199-375`, `temporal_coordinator.rs:165-283` | an index request under way | acquire, embed (await), build, activate, finish | the future is dropped at the await; provider deadlines and batches | the lock is given back |
| Search, `coordinator.rs:398-615`, `temporal_coordinator.rs:305-690` | none beyond the call | open, lexical, embed, vector, fuse, rerank, select | sources change while a provider is awaited; policy filters before anything leaves | only authorized, live evidence is returned, in a deterministic order |
| Authorized temporal view, `authorized_view.rs` | - | which assertions are visible at an instant | policy, validity intervals, supersession | nothing unauthorized is visible |
| Candidates and selection: `candidate.rs`, `fusion.rs`, `parent.rs`, `confidence.rs`, `filters.rs` | - | RRF, MMR, parent expansion, budgets, filter evaluation | numeric edges, ties | deterministic, bounded |
| Provenance, `provenance.rs` | - | assemble and verify provenance of results | - | every result has verified evidence |
| Providers and redaction: `providers.rs`, `redaction.rs` | - | bounded HTTP requests, response validation, redaction | timeouts, partial answers | bounds respected, order kept, no secret in an error |
| Chunker, `chunker.rs` | - | split text | boundaries | chunks cover the text, are bounded and stable |
| Ingest envelopes, `ingest.rs` | - | validate ingest evidence | union of partial states | one decision per item |
| Configuration and paths: `config.rs`, `path_security.rs` | - | parse, normalise, contain | - | nothing outside the root |
| Contracts, digests, errors: `contract.rs`, `digest.rs`, `error.rs`, `lib.rs` | - | types, hashing | - | - |
| Desktop supervisor, `src/desktop/src-tauri/src/lib.rs` | settings, `Supervisor`, sidecar processes, supervision loops | set settings, start, stop, crash, restart with backoff, quit | main thread against tasks of the runtime; backoff sleeping across a stop | one sidecar, none when disabled, bounded restarts |
| Desktop frontend, `src/desktop/src/*.ts` | DOM | commands to the supervisor | - | - |
| Command line, `src/bin/*.mjs` | - | forward to the engine | - | exit codes |

Components interact through files (lock, claim, pointer, generations), through
function calls inside one process, and, for the desktop, through Tauri commands.

## 2. What is modelled

### Publication (`gkos-retrieval`)

| Module | Models | Source |
|---|---|---|
| `StateDirectory` | the files of one state directory, and the reads and checks made of them | `writer_lock.rs:424-632,959-1037` |
| `WriterGuard` | one call's use of the writer lock: acquire, bind, commit, release, Drop, crash | `writer_lock.rs:644-891,1039-1134` |
| `GenerationStore` | the build and activation that a call performs under the lock | `sqlite_store.rs:168-381,617-779`, `candidate_store.rs:480-649`, the `index` functions |
| `StaleRecovery` | `recover_stale_legacy_retrieval_writer`, step by step | `writer_lock.rs:893-957` |
| `RetrievalPublication` | the composition, its fairness, its properties | |
| `ExclusivePublisher` | the abstract specification the composition implements | |
| `PublicationInvariant` | the inductive invariant, in named parts | |
| `PublicationProof`, `ActionProof` | its proof; the action properties and the refinement | |
| `MCRetrievalPublication` | the symmetry set for TLC | |

**State.** `lock` and `claim` are the records the two files contain; a hard
link is two names for one record, so "claim and lock are the same inode" is
`claim = lock`. A record has the id of the call (`lock_id`), the pointer it
found (`prior`) and the pointer it is about to publish (`target`). `torn` is the
set of calls whose lock file exists and is not complete; `lockTemp` and `ptrTemp`
are the temporaries of the two atomic replacements (absent, torn or whole);
`dbTemp` the unfinished database of each call; `db` a generation that is absent,
`"bad"` (does not verify) or `"good"`; `pointer` the generation
`active-retrieval.json` names; `evidence` whether GKOS Full's ingest authority is
visible. Per call: `pc`, the in-memory capability `cap`, and the generation `gen` it
works on.

**Steps.** Each system call is an action of its own, and so is each read made for
a check. Consecutive reads with no write by the same call between them are one
action when nothing is compared across them. The three entry points start at
`StartBuild`, `StartIndex` (a build whose provider is awaited under the lock; it
does not activate) and `StartActivate`, and share the steps. An early return is a
transition to the release or to `"returned"`, exactly where the code has `?` or a
guard. A `Drop` that cannot release leaves the lock.
`Crash` ends the process of a call at any step.

A generation that is there may open, fail to open and be left, or fail to open and
be quarantined, and the last two may befall a complete one: SQLite reports a file
that cannot be opened just now as it reports a damaged one. After its rename a
generation is opened once more (`Reopen`) and discarded if it fails. A lock file may
fail to be created for another reason than that there is one (`CreateLockFails`); the
call then removes the file at the path, which need not be its own. The constant
`CreationFaults` says whether that happens.

### Desktop supervisor

| Module | Models | Source |
|---|---|---|
| `DesktopSupervisor` | settings, `Supervisor` record, sidecar processes, supervision loops, backoff tasks, main-thread commands, the handlers of the settings page | `src/desktop/src-tauri/src/lib.rs:98-417,660-748`, `src/desktop/src/main.ts:171-256` |
| `SupervisorProof` | its invariant for every value of the constants | |

Each section under the supervisor mutex is an action. Commands without `async`
run on the main thread, so `at[Main]` is one program counter; a supervision loop
and the backoff task it may become are `at[p]`, the counter of sidecar `p`.
`newborn` is the process between `spawn()` and the mutex. A page handler is
`await setSettings` followed by `await startSidecar` or `stopSidecar`: `handler`
holds the second half. Dropping a `CommandChild` does not end its process, so
replacing `sup.child` leaves the old process running.

### Configuration, providers and embedding

| Module | Models | Source |
|---|---|---|
| `TrustedConfig` | which `gkos.toml` a host takes its providers and secrets from, while such files are written and removed | `config.rs:521-895`, `path_security.rs:8-80` |
| `ConfiguredProviders` | the providers and secrets selected from it; requests to a reranker and what is made of the answers | `providers.rs:740-813,1017-1177,1308-1401`, `coordinator.rs:713-850` |
| `EmbeddingBatches` | the vectors of successive generations: cache, batches, answers of the provider, publication with vectors or without | `coordinator.rs:199-375`, `temporal_coordinator.rs:199-283`, `providers.rs:438-813`, `sqlite_store.rs:1186-1230` |
| `ProviderProof` | the invariants of the three, for every value of the constants | |
| `MCProviders` | discovery and reranking beside embedding, for TLC | |

A path is the sequence of its names, so `..` and containment are computed and not
assumed. `Inspect` and `ReadSelected` are two steps because `read_config_file`
inspects an entry and then opens its path again; `Change` may come between any two
steps. In a document only what decides validity, safety in a vault and routing is
left.

In `EmbeddingBatches` a *text* stands for all chunks with one content digest. The
actions are the steps of `embed_chunks`: `StartIndex` takes what the cache has,
`SendBatch` is one turn of the loop up to its await, `Receive`, `Refuse` and
`Timeout` are what becomes of the await, `PublishVectors` is the end of the loop.
`asked` keeps every request, so an answer may be to any of them; `rerankings` does
the same for the reranker. What an earlier generation may give to a later call
(readable, same vault, same policy, all of its eligible chunks) is the Boolean
`readable` of `StartIndex`; its embedding space is compared in `Cached`.

### Search

| Module | Models | Source |
|---|---|---|
| `RetrievalSearch` | `RetrievalCoordinator::search`: policy, verification of sources, candidates, reranking, assembly of the result | `coordinator.rs:398-829,1056-1166` |
| `AuthorizedView` | the pure part of a search at an instant: which declarations hold, what conflicts, intervals, eligibility, coverage | `authorized_view.rs:41-458`, `provenance.rs:361-533` |
| `TemporalSearch` | `GkxRetrievalCoordinator::search` over that view | `temporal_coordinator.rs:305-690,786-971,1273-1329` |
| `SearchProof`, `TemporalProof` | their invariants, for any corpus and limits | |
| `MCRetrievalSearch`, `MCTemporalSearch` | a corpus for each | |

Both searches have one action per stage and, in the assembly, one per candidate.
In `RetrievalSearch` `live` is the disk: `Edit` changes it at any time, `ReadSource`
looks at it once, and nothing after it does. The order in which ranking leaves the
candidates is arbitrary, so the properties of the assembly hold for any ranking.

`AuthorizedView` takes the records `S` the caller may see, the declarations `D` and
the instant `at` as parameters; `Known` are the records looked at at that instant,
`Heard` the declarations of those. A declaration names all records it could mean
(`Candidates`); which one it resolves to depends on what may be seen. The same
operators serve `TemporalSearch`, where policy decides `S`, and the comparison of a
view with the intervals stored in provenance (`ScopedValid`, `StoredValid`).

### Chunks and generation files

| Module | Models | Source |
|---|---|---|
| `Chunker` | `chunk_source` byte by byte: frontmatter, headings, sections, windows, overlap, parts, links, and the validation of the set | `chunker.rs:47-709` |
| `GenerationFile` | the tables of a generation of schema 2 and 3, as they are built and as they are verified when the file is opened | `sqlite_store.rs:30-92,394-459,791-1181,1357-1658`, `candidate_store.rs:42-559,651-968,1217-1364` |
| `IndexingProof` | the invariants of both, for any notes, options, generations and alterations | |
| `MCIndexing` | the notes and generations of the runs | |

A note is its bytes and, for each line, where it starts and of what kind it is. A
byte is the first byte of a character, a later one, a space or a line break: what
UTF-8 boundaries and the tokenizer tell apart. `ValidNote` says what every source
is by its type (UTF-8) and by the recognition of lines: they begin behind a line
break, and a heading has a depth and, if it begins with `#`, a byte that is not
blank. Numbers of the windows are `usize`: `NextToken` subtracts modulo `WordSize`.
`GenerationFile` keeps a table as a set of rows `[key, columns, content]` (those of
the full-text table, which has no key, with the number of the row); `Alter` changes rows after the file was built, by losing, doubling or
replacing them with rows of other generations.

### Ingest envelopes

| Module | Models | Source |
|---|---|---|
| `IngestProfile` | a normalized profile: fields, bounds, enumerations, severities, and what may be tightened | `ingest.rs:459-920` |
| `IngestEnvelopes` | each public verifier of `ingest.rs`, its rules, and the agreement of the envelopes with one another | `ingest.rs:57-271,928-3109` |
| `IngestProof` | their five properties, for any envelopes | |
| `MCIngestEnvelopes` | envelopes for the runs, the well-formed ones and those with one field bent | |

`verified` is the set of envelopes that were given a seal, `bundles` the sealed
combinations. A verifier that takes another envelope takes a sealed one, as its
Rust type demands. A digest is the kind and the content it is taken of, so two
envelopes have one digest exactly when they say the same.

## 3. Runs

All runs end quickly because calls are one-shot or counted. `CHECK_DEADLOCK
FALSE` everywhere: a call returns, a user has made his changes, the program has
exited, and then the system rightly stops.

| Run | Bounds | Asks |
|---|---|---|
| `publication` | 2 calls, 2 generations, 1 recoverer with 1 death, Full present, no `CreationFaults` | all safety, refinement of `ExclusivePublisher` |
| `contended_recovery` | 2 calls, 1 generation, recoveries that die up to 3 times when no other call competes, `CreationFaults` | does recovery complete, and is a lock given back? |
| `stranded_lock`, `rival_recoveries` | 2 calls, 2 recoverers | two statements of the code's comments and docs that do not hold (section 6) |
| `supervision` | 3 sidecars, 2 handlers, 2 changes, 1 restart, file faults | one sidecar while nobody interferes; is a serving child watched, its end answered, and does it come to rest? |
| `overlapping_restart` | 3 sidecars, 2 handlers, 2 changes | a statement that does not hold (section 6) |
| `providers` | 4 texts, one too large for any batch, batches of 2, 2 spaces, 2 calls; 4 places of a configuration file, 1 change meanwhile, 2 rerankings of 2 candidates | do vectors and scores reach their own texts, do calls end, and who chose the routes? |
| `search` | 4 chunks of 2 sources, 3 overlapping and one of them their parent, 3 hits, a budget of 6 | what may leave, what is shown, what is lost? |
| `temporal` | 4 records, 4 declarations and their subsets, 4 instants or none, 2 hits, a budget of 5 | is what leaves visible and valid, does anything leave too early, does the future change the past? |
| `ingest` | up to 2 envelopes or bundles verified one after the other, out of well-formed ones and ones with a field bent | do envelopes that are each valid agree? |
| `indexing` | notes of up to 4 lines of 9 kinds, windows of 5 words and 5 bytes, overlap 1; generations of up to 3 chunks with 2 altered rows | is a word lost, is what is cut accepted, is a damaged file opened? |
| `lost_words` | the same notes, overlap 4 | what the assertion of a test says and a permitted overlap breaks (section 6) |

*Why the bounds suffice.* The hazards of publication need two calls (one that
dies or is slow, one that is alive), two generations (one published, one
being published) and two recoveries; the proofs cover the rest for any number. A
fourth death of a recovery brings no new file state: the claim file and the lock
file are all it leaves. For the supervisor, three sidecars are the one that
crashed, the one its backoff starts and the one the user starts.
For `providers`, a second call is what a cache and late answers need, and four
texts give a batch closed by the count, one closed by the bytes and one over
them; the two lists of candidates share one at different places, and a second
search of the same query with the other list is where a late answer matters. For
`search`, the budget admits one to three hits with or without a parent; two match
positions are enough for a span shared by two chunks and one that is not. For
`temporal`, four records are a chain of three and one that competes with it;
instants lie before, at and after each of their starts. An envelope of `ingest`
contains those it was made of, so two verifications compare any two of them. Windows of five
words let a piece end at a paragraph before it is full, with an overlap; chunks of
five bytes cut inside words, whose characters have one to three bytes.
Two alterations of a file can cancel in a count, which one cannot.

`contended_recovery` leaves out one combination, and says so in `OneHazard`: a
recovery that dies while another call acquires. There recovery need not complete
(section 6).

*Mutants.* Each property of each passing run has a mutated definition (its name
has an underscore, its comment says "Mutant of") under which it fails.

*Fairness.* `WF` of each call's and each recovery's next step: both are
sequential programs whose system calls return and whose provider has a deadline;
an operator who keeps asking for recovery is the only assumption about people.
`Crash`, `RecoveryCrashes` and Full owe nothing. For the supervisor `WF` of the
runtime's tasks and of what the main thread has begun; users, crashes and output
owe nothing, and neither does the second half of a page handler. For
`providers`, `WF` of the loop of `embed_chunks` and of the answer or its deadline
(`bounded_provider_call` races the two). The other runs check safety only.

## 4. Properties

*Publication.* `MutualExclusion`, `TemporariesAreGuarded` (an orphan temporary would
block every acquisition for good), `BuilderKeepsTemporary`,
`PublicationIsCompareAndSwap` (only the lock keeps the pointer still between its
last comparison and the rename), `PublicationIsComplete` (what is published was
opened many steps before and is still there), `OnlyItsBuilderWithdraws` (a complete
generation may be quarantined, but only by the owner of the lock, who builds it, and
never under a call that has verified it), `RecoveryIsAllOrNothing`,
`RecoveryRemovesOnlyItsLock`, `RecoveryCompletes`, `OwnedLockIsReleased`,
`ImplementsExclusivePublisher`. That the pointer names a complete generation *at every
instant* is not among them: it does not hold (section 6).

*Supervisor.* `ServingIsWatched`, `CrashIsAnswered`, `OneSidecar`, `SettlesDown`
(which also says that restarts are bounded).

*Providers.* `VectorsAreOwn` (whatever was cached, reordered, late or of another
model), `NothingSkipped` (the two defensive errors for missing vectors never
happen), `OnlyNewIsSent`, `CallsEnd` (a text over the byte limit is sent alone and
no empty batch for ever), `ScoresAreOwn`, `RoutesAreChosen` (providers and secrets
come from one document, which is a note of the vault only if the operator named
it).

*Search.* `OnlyEligibleLeaves` (policy and verification cover the reranker, the
hits and their parents), `FreshIsComplete`, `EvidenceOnce`, `ClaimedIsShown`
(evidence is claimed only by a hit that was shown), `ResultFits`, `NothingLost`.

*Temporal search.* `OnlyVisibleLeaves`, `IOAfterCoverage` (no note is read and no
provider asked before the view is known to be covered), `SupersededIsHidden`,
`HistoryIsStable` (a later record leaves an earlier answer alone),
`PointInTimeAgrees` (lineage and stored intervals say the same).

*Ingest.* `EverySourceIsDecidedOnce`, `NothingIsDropped`, `PointerNamesOneBundle`,
`AuthorityIsOneActivation`, `OnlyNarrows` (what a verified profile accepts, the
built-in one accepts). All but the first compare envelopes that different verifiers
check; `EverySourceIsDecidedOnce` ties together three lists of one envelope that its
verifier checks one by one. `NothingIsDropped` compares the projection by its counts.

*Indexing.* `EveryWordIsChunked`, `ChunksAreAccepted` (what is cut passes the
validation of the set, except where a blank piece was skipped),
`OnlyWhatWasBuilt` (a file that opens holds what was built, whatever happened to
its rows, with the one exception of section 6).

The type invariants are no properties of the runs: that of the publication protocol
is a theorem, and the others are a conjunct of the inductive invariants proved in
section 5.

## 5. Proofs

TLAPS proves every safety invariant, every action property and the refinement that
the passing runs check, each for every value of the constants. What remains to TLC
is liveness, and is listed at the end of this section.

### Publication and the supervisor

For any sets of calls, generations and recoverers and any number of deaths, TLAPS
proves everything `publication` checks except what needs fairness. The
theorems assume `~ConcurrentRecovery`, recoveries are run one at a time, and
`~CreationFaults`, a lock file is created or found. Without the first they are false,
as `rival_recoveries` shows, and without the second because a call may remove the lock
of another one (section 6).

The properties are not inductive. `IInv` strengthens them in three layers:

* `OwnershipInv` (`PublicationProof`): a call past its creation of the lock
  is the one the lock names, its capability is its own, a recovery works on a
  record of a dead call, and once it has verified its claim the lock is that
  record. Every later check "the lock is still mine" follows from it, so the
  window between a check and the following write is harmless.
* `StoreInv` (`PublicationProof`): what a call learned stays true until it acts:
  a generation it verified is complete until it is activated, the prior is the
  pointer until the rename, and a database it wrote is there until it is renamed.
* `ResidueInv` (`PublicationProof`): a temporary exists only beside the lock of
  the call that wrote it, a releasing call has none, and a recovery that will
  remove a lock has seen a decided pointer.

`ActionProof` derives the action properties from a census of the few actions that
touch the lock, the pointer or a generation, and maps each action to
a step of `ExclusivePublisher` (a quarantine of a complete generation is `Withdraw`) or
to a stutter. `SupervisorProof` shows that of all
supervision loops exactly the child's has the current generation
(`CurrentLoopIsTheChilds`), which needs that a spawned process is in the hands of
one agent (`NewbornsAreFresh`). It also proves `OneSidecar`: while
the user changes nothing, one agent at a time watches a sidecar or starts one
(`OneAgent`), and the only sidecar that runs is its own.

### Providers

`EmbeddingInv` rests on one fact about a call under way, `GatheredIsOwn`: every
vector it has is its text's own in the configured space, and the texts to be sent
are exactly those without one. That an accepted answer keeps it needs that a
place in a request belongs to one text (`PositionIsInjective`).

`DiscoveryInv` gives `RoutesAreChosen`. Every candidate that is still to be looked at
may route (`CandidatesAreRecords`: the operator named it, or it is in no vault), so
what is selected may. The vault's own file is either one of them still (`HeadOfQueue`
keeps it when another is taken) or was judged and found safe, unless the disk changed
meanwhile (`VaultIsJudged`). Options and the vault do not change (`OptionsStay`). No
variable is asked for before the selection, and then only those the selected document
names.

`RerankInv` gives `ScoresAreOwn`: a ranking lists its candidates once (`PlacesAreOwn`),
an answer that is accepted has an item for each place (`EveryPlaceIsScored`), and the
order by score and place is total (`PrecedenceIsTotal`), so that each candidate has
a rank of its own and sorting loses none.

### Searches

`SearchInv` carries `WorksOnEligible` and `EverySourceIsAccounted` through the
stages; `EvidenceOnce` is inductive only with `ClaimedIsShown`. `ResultFits` follows
from `BytesAreCounted`: the running total is at least the size of everything shown,
because each hit adds at least what it shows (`ShownIsCounted`). `NothingLost` follows
from `LeftOutForCause`: a candidate that is no hit showed nothing new or did not fit,
and stays so because what is claimed and counted only grows. Assumed is that a
corpus has finitely many sources and that a chunk is a span of one byte or more in
one of them (`SearchAssumption`).

`TemporalProof` proves all five properties of the temporal search. Its invariant
(`TemporalInv`) says that before the stage `"read"` nothing was read or asked, and
that afterwards the view was checked and everything worked on belongs to it; each
action keeps it. The rest is about the operators of `AuthorizedView`. Without a
conflict a record has at most one successor (`OneSuccessor`), so it ends exactly
where that one begins, and a record whose successor has begun does not hold
(`SupersededHasEnded`). Records later than the instant are not looked at, and
declarations only break when more can be seen and not less
(`LaterRecordsBreakNothing`), so neither the conflicts nor the view change
(`HistoryLemma`). The assumptions are those of the two modules: finitely many
records and integer instants.

### Ingest envelopes

`IngestProof` proves all five properties of the verifiers. The invariant is short:
every envelope with a seal was verified and every bundle agrees in itself
(`IngestInv`); no verifier takes a seal back. The rest is what the rules of the
envelopes imply. A digest names one envelope of its kind (`DigestIdentifies`), so a
pointer names its owner generation, and that its journal (`BundleLemma`,
`PointerIdentifies`). The counts of a result add up because rejections and rejected
observations correspond one to one (`CountsAddUp`). A field that only narrows
admits less (`NarrowerAdmitsLess`), and so does the profile (`ValidAcceptsLess`).
Assumed is what parsing has established: envelopes are records, their lists finite
and their profiles typed (`EnvelopeAssumption`, `BaselineAssumption`).

### Chunks

A note is any byte string with lines that `ValidNote` admits, and the options are any
that `ChunkingOptions::validate` admits. The proof is in layers, each inductive with
those below it:

* `OutlineInv`: the sections, the open ones and the counts are typed, and every
  section begins at a line. Lines begin between characters (`OffsetsAreBorders`), so
  the text of a section is itself UTF-8 (`SectionsAreUtf8`).
* `CutInv`: what was cut from the current section holds every byte of every word
  before the next window, and each piece is within the byte limit and between
  characters. It rests on what a window includes (`WindowsEndWell`: at least half of
  `MaxTokens` and one word, or all that are left) and on `ByteCut` finding a border
  (`CutsAreBorders`).
* `ChunksInv`: the chunks of finished sections hold what was cut from them. A skipped
  piece is blank, so it holds no word (`PieceOfWord`).

With `Overlap <= MaxTokens \div 2 + 1` this is `EveryWordIsChunked`. The hypothesis is
exact: a window may end after `MaxTokens \div 2 + 1` words, and with a longer overlap
`included - overlap_tokens` (`chunker.rs:705`) wraps, which `lost_words` shows and
`ChunkingOptions::validate` does not exclude. Without the hypothesis the
same invariant still gives that every chunk is within the byte limit and between
characters (`ChunksAreBoundedHolds`), and that the first word of a section is in a
piece (`Due`).

`ChunksAreAccepted` needs no hypothesis. Three more layers:

* `TreeInv`: the parent of a section is the nearest one before it that is less deep
  (`Tree`), which the stack knows because what comes behind an open section is deeper
  (`Opened`, `ParentIsNearest`); no two sections have one position, because no position
  has a number above its count (`Named`); and the line of a heading is not blank
  (`Lined`).
* `OrderInv`: chunks are in the order of their sections and, in one, of their pieces.
* `LinkedInv`: a chunk's parent is the first chunk at its section's parent, and the
  chunks are refused just when they are no valid set.

A heading is a word, so its section has a chunk (`HeadingIsDue`, `FirstOfSection`) and
a child always finds its parent. The number of a chunk is then its rank
(`PartIsRank`) unless a blank piece was skipped before it, and that is the one way in
which validation can fail (`NoGapIsValid`).

### Generation files

`FileInv`: what is built was valid, the file has its tables, and it opens just when it
is verified. The theorem `OnlyWhatWasBuiltHolds` then needs that an unaltered file is
verified (`UnalteredOpens`) and that one which is verified holds the rows it was built
with (`VerifiedIsBuilt`). The manifest is the one the pointer holds, so chunks and
vectors are those that were built; the tables beside them hold rows of these chunks
only, and as many as were written (`AsManyTexts`, `AsManySources`, `AsManyVectors`), so
none is lost. It rests on no identity standing for two chunks, which
`ValidChunks` has from `validate_chunk_set_mode`, and on a row of the full-text table being
told from another by its number.

### Only model-checked

* Liveness, which the provers do not reach: `RecoveryCompletes`,
  `OwnedLockIsReleased`, `CrashIsAnswered`, `SettlesDown`, `CallsEnd`.
* Recoveries that overlap (`ConcurrentRecovery`), which the theorems exclude:
  `rival_recoveries` shows why.

`RECURSIVE` operators are not used.

## 6. Findings

1. `stranded_lock`: the prior pointer is read before the lock exists; a call that
   acquires after another one published keeps a lock neither its release nor a
   recovery can remove.
2. `rival_recoveries`: two operators resuming the same dead recovery; the slower
   removes the lock of a live call.
3. `overlapping_restart`: the backoff task looks at `enabled` and not at the
   generation; a change of the settings during a backoff starts two sidecars, one
   of which no stop can reach.
4. `lost_words`: the start of the next piece, `included - overlap_tokens`
   (`chunker.rs:705`), is below zero when the overlap is more than half the maximum
   and a piece ends at an early paragraph. A release build wraps and drops the rest
   of the section without an error; a debug build panics.

Behaviours that the models have and no run of their own is about:

* A build whose generation fails to open for a moment quarantines it, although it is
  complete and may be the active one (`sqlite_store.rs:213`, `candidate_store.rs:522`).
  If the build then ends early (a fault, a crash, Full's authority) the pointer names
  a generation that is not there. With the constants of `publication` TLC finds a state
  in which all calls have returned and the pointer dangles. A later build of the same
  generation puts it back.
* When the creation of the lock file fails with anything but `AlreadyExists`, the call
  removes whatever file is at the path (`writer_lock.rs:690`). With `CreationFaults` and
  two calls `TemporariesAreGuarded` fails, with three `MutualExclusion`: the second
  removes the lock of the first and the third takes it.
* The claim is looked for before the lock is created (`writer_lock.rs:664`), so a
  new lock can stand beside the claim of a recovery that died, and then no recovery
  completes: `RetrievalPublication` with `FairSpec`, two calls and one death
  violates `RecoveryCompletes`.
* A crash between the creation and the write of a temporary leaves a torn file,
  which every recovery refuses (`RecoveryCompletes` therefore speaks of orderly
  residue).
* Of two handlers of the settings page, the start of one may run after the stop of
  the other, since `start_sidecar` does not look at the settings.
* A blank piece of a section is skipped but its part is counted
  (`chunker.rs:188-196`); the validation of the set then refuses the whole source.
  `ChunksAreAccepted` names this as the only case.
* `verify_fts_projection` (`sqlite_store.rs:1460-1499`) counts the rows of the
  full-text table and looks up a chunk for each: in schema 2 one row may be lost and
  another doubled. Schema 3 compares them one by one. `OnlyWhatWasBuilt` says which.
* A rerank request is named by its query alone (`coordinator.rs:753`): a late
  answer to another list of candidates of the same query is accepted, as
  `ScoresAreOwn` allows.
* The check that every sensitivity of a domain can be written under the narrowed
  field (`ingest.rs:833-841`) ignores the bounds on its length.

## 7. What is left out

* The state directory itself is always there: its creation and its removal when
  empty (`writer_lock.rs:634,870`) are not modelled.
* Path, permission, ownership and link-count checks, except "claim and lock are
  two links of one file".
* Two temporaries of one process with the same name; SQLite's own side files;
  damage to a generation while the protocol runs (`GenerationFile` has what damage
  does to a file).
* Lock, claim, temporaries and pointer are always read: a check of them fails for what
  the files hold, not because a file cannot be read just now.
* Removals and syncs succeed, and so does the clean-up after one failed write.
* The tombstone form of the pointer and Full's ingest files are one Boolean,
  `evidence`.
* The verification after the pointer was replaced only decides the result of the
  call.
* For the supervisor: the notes folder (a spawn may fail at any time), the length
  of a backoff, windows, token and status files, a `kill` that fails. The end of a
  backoff looks at `enabled` and then at the supervisor, under one mutex after the
  other; `BackoffOver` is one step.
* For the embedding: dimensions and finiteness of a vector are one Boolean of an
  answer; an unnamed answer is assumed to come back on the exchange of its own
  request; the build's own faults are `Abandon`.
* For the configuration: the parser of the TOML subset (`config.rs:20-510`), the
  keys of Windows paths and the directory of the user; the vault root is its
  canonical path, and root markers do not move. Redaction is text, and the HTTP
  transport pure I/O.
* For the search: ranks, scores and confidence; how spans are matched and capped
  (each chunk has any set of matches); tokens and bytes of a chunk are one size;
  errors of the index; the redaction of a hit's metadata.
* For the temporal search: the texts of provenance; how a filter is evaluated (any
  set of records may be admitted); bytes of a canonical answer are the sum of those
  of its parts.
* For the chunker: inline Markdown; a line is a heading, an underline, a fence or
  text. The `---` of frontmatter and an underline of dashes are one kind, so every
  underline of dashes may end a frontmatter in the model. For the generation file: SQL and page damage, of which SQLite itself tells.
* For ingest: the shape of JSON and canonical bytes; texts are compared, ordered
  and measured, and otherwise opaque.
* The frontend's rendering, the command line, and the contract types, digests and
  error texts.

## 8. Plan

1. A reader that opens the active pointer while calls publish: `GenerationFile`
   composed with `RetrievalPublication`, and the theorem that what it opens was
   built.
2. `TemporalSearch` and `RetrievalSearch` as refinements of one specification of
   what a search may disclose.
3. Fusion, diversification and confidence as functions checked against reference
   definitions; evaluation of filters.
4. The parser of the TOML subset, against the documents it must refuse.
5. The publication theorems for recoveries that overlap but do not resume the same
   dead one.
