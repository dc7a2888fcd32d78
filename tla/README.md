# unidpp-trust: specification and proofs

TLA+ specifications of the trust registry in this repository, TLC runs that
check them on small instances, and proofs that TLAPS checks for every instance.
The core of the registry is a store that keeps a delegation graph, jurisdiction
trust lists, a witnessed master list, a revocation ledger and gated evidence in
memory, journals every mutation to a JSONL file, and rebuilds itself from that
file at start. Around it are the views that clients read, the fixtures a new
store is seeded with, the keys every answer is signed with, the arithmetic of
the instants, and a command line tool that makes declarations in the name of a
quorum. Sections 2 and 3 say how each is modelled and checked, section 4 what is
proved, section 5 what is left out and what could follow.

## 1. The system

| Part | State | Operations | Why it is correct |
|---|---|---|---|
| Store and journal, `src/store.rs` | graph, lists, master list, ledger, evidence, log in memory; the journal file | `open` (replay, then seed an empty log), nine typed mutations, `record`, `apply_op` | a restart gives back what was served; what an entry point lets through, `apply_op` applies; records are neither lost, doubled nor reordered |
| Quorum verdict, `src/quorum.rs` | none (computed from the graph) | `verdict`: group form or member form | a retroactive revocation is recorded only when quorate; its live verdict moves only for a stated cause |
| HTTP API, `src/api.rs` | `Arc<AppState>` with one `Mutex<Store>`, the keyring, the configuration | nine mutating handlers, nine read views, signing, cache headers | one lock from validation to the last record of a request; views agree with the state they name |
| Wire format, `src/wire.rs` | none | documents to and from JSON; `apply_entry`, `master_entry_quorate` | what is journaled reads back as what was recorded |
| Seed fixtures, `src/seed.rs` | none | `seed_ops`: eighteen ops | pre-validated, recorded at most once |
| Timestamps, `src/time.rs` | none | parse, display, civil calendar | what prints parses back |
| Keyring, `src/keyring.rs` | the two operator keys | development or environment seeds | the mode stated is the mode used, for both keys |
| Ceremony, `src/bin/quorum-ceremony.rs` | three files in a directory | sign with the group key, write the documents; an operator posts them | a group-signed declaration in the ledger was signed by as many members as it claims, and its key is pinned |
| `hex.rs`, `httpc.rs`, `lib.rs`, `main.rs`, `openapi.yaml` | none | codec, client, glue, generated description | not modelled: pure data or I/O |

**Interactions.** Handlers run on axum's worker threads and share the store
through one mutex. A mutating handler parses its body, takes the lock, calls a
typed entry point, and answers after the lock is released; `POST /trust-lists`
calls several entry points under one lock. `record` writes the journal line
*before* it applies the op and never fails: a write error is printed. `replay`
runs the same `apply_op` and pushes the record even when the op does not apply.
Quorum verdicts and master-list acceptance are not stored: they are recomputed
from the graph and the witness set at every read.

**What is hard here.** The process may die between any two effects (the pieces
of one `writeln!`, two records of one request, two seed ops, the write and the
answer). The file is opened for append whatever its last byte is. A line may be
cut anywhere, also inside a UTF-8 character. Replay validates each record
against what the *readable* earlier ones made, which need not be the state the
record was validated against. Live verdicts change when nodes are registered
again and when the witness set is replaced. `GET /revocations` reads the past
from a ledger that keeps growing and whose dates the clients state; it takes its
clock before the lock. Clients combine what they read at different times: pages
of a growing log, pinned keys of a process that has been replaced, a bundle whose
verdict they compute themselves. The ceremony's documents are written one after
the other over those of an earlier run. `PROJECT.json` lists each hazard at its
line, with the properties that would catch it.

## 2. Modules

| Module | What it is |
|---|---|
| `QuorumVerdict` | `quorum::verdict` as pure operators over a node map |
| `TrustState` | the `Store` as a record; for each of the nine ops what `apply_op` requires (`Applies`) and does (`Effect`), and, separately, what its typed entry point requires (`May...`); `master_entry_quorate` as `RootAccepted` |
| `TrustStore` | the process, the file and the handlers: the state machine |
| `AuditedStore` | what the store promises: an append-only history of admissible ops, the state they add up to, and a server that shows that state or is offline |
| `StoreRefinement` | the mapping under which `TrustStore` implements `AuditedStore` |
| `TrustStoreProofs`, `QuorumProofs`, `LogProofs` | theorems about the store; about what retroactive revocations rest on; about the order and the numbers of the log, what is lost of it, and what its records do to a root |
| `RefinementProofs` | theorems about checks that agree, about seeding, and that `TrustStore` implements `AuditedStore` |
| `RevocationView` | `GET /revocations` while declarations arrive: clock, lock, filters, cutoff, standing, cache rule |
| `RevocationViewProofs` | its theorems |
| `TrustViews` | the other `GET` handlers that render the store, as operators on a `Store` |
| `SeedFixtures` | `seed.rs` in both its forms: the state it builds, and the eighteen ops |
| `Keyring` | which keys the process signs with |
| `TrustApi` | composes `TrustStore`, `TrustViews`, `SeedFixtures` and `Keyring`: the service and three clients that outlive its processes |
| `TrustApiProofs` | its theorems |
| `Ceremony` | composes `TrustStore` with the ceremony tool and the operator who posts its documents |
| `CeremonyProofs` | its theorems |
| `Timestamps` | `time.rs` as operators: parsing, printing, the calendar's closed forms |
| `Calendar` | a reference calendar that is walked day by day, next to `Timestamps` |
| `CalendarProofs` | the theorems about both |
| `MCTrustStore`, `MCStoreRefinement`, `MCRevocationView`, `MCTrustApi`, `MCCeremony`, `MCCalendar` | the values of the constants in the TLC instances |

Each check in the code is written twice, in the entry point and in `apply_op`,
and the model keeps them as two operators, so that a difference between the two
copies shows (`NothingSkipped`). Operators whose comment begins with *Mutant*
are broken variants of the definition below them. No specification uses them:
substituted for that definition they must make a property fail.

### State and actions of TrustStore

| Model | Code |
|---|---|
| `mode` | where the process is: absent, in `replay`, in `seed_fixtures`, serving, or exited because `open` returned an error |
| `store` | the fields of `Store`; maps are total functions with `Absent` |
| `journal`, `open` | the file's lines, and whether the last one lacks its newline |
| `pos` | the line `replay` reads next |
| `todo` | ops the holder of the mutex has still to record; non-empty means the lock is held |
| `hist`, `issued`, `started`, `acked`, `torn`, `failed`, `tainted` | history, read by properties and bounds only |
| `Open`, `ReplayLine`, `ReplayRefused`, `ReplayDone` | `Store::open` and one iteration of `replay`; `ReplayRefused` is `line?` on bytes that are not UTF-8 |
| `SeedNext` | one iteration of `seed_fixtures` |
| `RegisterNode` ... `ReleaseEvidence` | the handler: entry point check, then `Record` |
| `RegisterTrustList`, `ListEntry`, `ListEntryRejected` | `POST /trust-lists`: list, entries, and the early return that leaves what was recorded |
| `Record` | `Store::record`, in four outcomes: whole write, failed write, write cut short by a crash, whole write and a crash before the answer |
| `Asked` | the mutex is taken, by an admin whose request the instance has |
| `Crash`, `Dead` | no code: the environment kills the process, between two records, or idle, or in replay (`Crash`), or in a `record` call (`Dead`) |

A refused request changes nothing and sends an error, so it has no action: the
action's guard is the condition under which the request succeeds. The mutex
makes the effects of one `record` call atomic for other requests; a crash is
the only thing that can come in between, and that is what the four outcomes of
`Record` are for. `Tears` are what a cut-short line can look like: a fragment
(`garbage`), a fragment cut inside a character (`badutf8`), and the whole text
without its newline (`whole`: `writeln!` to an unbuffered file issues the
newline as a write of its own). Text written after an unterminated line
continues that line (`Put`, `Glued`).

**Data that is abstracted.** Signatures are a flag on a slot, or the name of the
key that made them. Timestamps appear only where something depends on them: as
an entry's opaque `dates`, and as ops whose line does not read back
(`Unreadable`). Scope documents, subjects, evidence content and requesters are
opaque. A node's key ids are the keys themselves, because
`wire::node_from_value` rejects a key id that is not derived from its key.

**External code.** `TrustGraph::add_edge` and `RevocationLedger::declare` live in
the crate `unidpp-signatif`. The model takes from their use in `src/` that an
edge needs both endpoints and a key of its parent, and that the ledger refuses a
retroactive revocation without an attestation. `add_edge` also checks delegation
scopes; the model's requests are credentials whose scopes it accepts.

The bearer check (`require_admin`) and body parsing are early returns that
change no state; the model's requests are those that pass them. So are the checks
of `register_evidence` for an empty scope and an empty content: `Scope` and
`EvidenceId` stand for those that are not. `ListName` is what may name a list:
`validate_token` refuses a name with blanks in it.

### State and actions of RevocationView

| Model | Code |
|---|---|
| `now` | the clock, `Timestamp::now` |
| `ledger` | `store.ledger`, with the instant each declaration was recorded at, which the code does not keep |
| `reader` | a request of which the query is parsed and `as_of` is taken, waiting for the lock |
| `served` | history: the answers, read by properties and bounds only |
| `Declare` | `declare_revocation`; the client states `declared_at`. Which declarations are refused is `TrustState!MayDeclare` |
| `Arrive` | `revocations` up to the lock |
| `Answered` | the rest, under the lock: the loop over the ledger with its three filters (`Matches`), `known_at_cutoff` (`KnownAt`), `standing_at_as_of` (`StandingOf`), `seq`, and `cache_for` (`PointInTime`) |

Parameters that do not parse are answered with 400 and change nothing. A subject
filter is a prefix match on labels; the model's filter is the set of labels it
matches. `Revocation::voids` is external: from `seed.rs:439-451` and the
integration tests, a retroactive reason voids inside its window, both ends
included, and a prospective one from its effect on, which is taken to be where
its window starts, as in every declaration of the repository. The quorum view of
a row is left out: it is `QuorumVerdict`, and `VerdictStable` says when it turns.

### State and actions of TrustApi

| Model | Code |
|---|---|
| `keyring` | `AppState.keyring`, as long as the process lives |
| `pin`, `told`, `read` | no code: what three clients remember. One pinned the anchors of `GET /keyring`, one keeps the keys and edges it was told of, one has read the log up to here |
| `Boot` | `run`: `Keyring::from_env`, then `Store::open` |
| `Process` | a step of start-up, or the end of the process |
| `Ask` | an admin request of `TrustStore`, and what the answer of `POST /nodes` says |
| `Pin`, `ReadGraph`, `ReadLog` | `GET /keyring`, `GET /graph`, `GET /admin/log` with `limit` and `offset` |

The other views need no action of their own: each is a function of the store
under the lock, so a property compares them in every state in which the lock is
free. A key is the pair of its suite and the bytes it is derived from, which are
an operator's seed or a text made of the development seed; two processes with one
seed have the same keys. `OptQuery` is `opt_query`, which trims the parameters of
`/anchor-bundle` and `/trust-lists`; the segment of `/trust-lists/{jur}` is not
trimmed. `Trim` and `Upper` say what both conversions make of the texts that
requests spell, padded and blank ones among them.

The fixtures are the real ones: ten nodes, two edges, one list with one entry,
three witnesses with m = 2, one root, two declarations. `Fixtures` is what
`build_graph`, `build_trust_lists`, `build_master_list` and `build_ledger` make;
`SeedOps` is the list `seed_ops` returns. Their scopes are left out, their dates
reduced to the window's name.

### State and actions of Ceremony

| Model | Code |
|---|---|
| `tool` | a run of `declare` that has signed, and the document it writes next |
| `files` | `quorum-node.json` and `revocation.json` in the output directory |
| `signed` | history: the command lines whose signature was made |
| `RunDeclare` | `declare`: the checks of the command line (`Acceptable`), the signing rounds (external, `Aggregates`) |
| `WriteDocument` | one `write_json` |
| `Stop` | an I/O error or a kill; a document cut short cannot be posted |
| `PostNode`, `PostRevocation` | the operator posts a file, as often as they like and in any order |

The group key depends on the public specification of the quorum alone
(`QuorumSpec`), as in the tool, which derives it from that. Nothing in the code
cleans the directory, so a run that stops early leaves documents of two
ceremonies side by side; that is what `DeclarationsSigned` and `ThresholdMet` are
about. The tool itself only writes files; it sends no request.

### Timestamps and Calendar

`Timestamps` has the code's formulas, with the division of Rust (`Quot`
truncates towards zero), as the code uses it. An instant is the pair of day and
second of the day that `Display` takes apart. `Calendar` does not use them: it
goes from a day to the next, or from one New Year to another, and knows only how
long months and years are.

## 3. Runs

The instances of the store have three nodes (a quorum `q` and two members), three
keys (one per member and a group key; `ceremony` has a second group key), one
list under two spellings, one evidence document. Deadlock checking is off
because each instance ends at its bounds: `MaxRecords`, the view's clock, the
calendar's last year, `MaxAsks`.

| Run | Bounds | Checks | Shows |
|---|---|---|---|
| `handlers` | 5 records, 2 of them seeds; crashes anywhere | `TypeOK`, `NothingSkipped`, `SeqIsPlace`, `PostedInOrder`, `AcceptanceStable`, `ImplementsAuditedStore` | entry points and `apply_op` agree on every request, also in any later replay; numbers are places; a posted list is recorded in the order of its document, and up to its first bad entry; only a new witness set or the root's own entry ends acceptance; the store implements the audited state |
| `faults` | 4 records, 2 torn writes, 1 failed write, all tears, an unreadable op | `RestartExact`, `LogInOrder`, `LossBounded`, `EdgesAnchored`, `SeedOnce`, `Settles` | what a restart gives back and at most how much is missing; interrupted seeding never seeds twice; start-up ends |
| `ceremony` | 3 records, 1 torn; 2 of 8 command lines | `DeclarationsSigned`, `PinnedFirst`, `VerdictStable`, `ThresholdMet` | what a declaration in the ledger rests on, whatever mixture of documents was posted and whatever the journal has lost; only registering the quorum node again can turn a verdict |
| `calendar` | New Years of -403 to 10001; every day of -402..402, 1896..2005, 9996..10000; 4 clock times, 5 zones | `CivilAgrees`, `ReadsBackExactly` | the closed forms agree with the calendar; what prints reads back |
| `views` | 4 instants, 7 declarations, 13 queries; 2 recorded, 2 answered | `TypeOK`, `WindowSound`, `SeqNamesOne`, `CutoffReplays` | the window filter lets through only what overlaps; `seq` names one declaration in every answer; asking for an instant as known by k gives the standing that was seen at k |
| `api` | the 18 fixtures, 2 of 3 admin requests, 3 environments, pages of 12; crashes anywhere | `SeedFaithful`, `GraphGrows`, `LogPaged`, `AnchorsMeanMode`, `BundleDecides`, `PagesMeet` | the ops make what the fixtures build; what a client was told stays true across restarts; pages join to the log; pinned keys tell the mode; a bundle decides what the service shows, also when its query is padded; pages and graph agree |
| `torn_tail` | 3 records, 1 torn | `TornTolerated` fails | finding 1 |
| `failed_write` | 3 records, 1 failed | `ReleasesAudited` fails | finding 2 |
| `torn_character` | 3 records, 1 torn | `StartNeverRefused` fails | finding 3 |
| `witness_sets` | 2 records | `WitnessSetStructure` fails | finding 4 |
| `window_filter` | 7 declarations, at most 1 recorded, 1 answered | `WindowComplete` fails | finding 5 |
| `point_in_time` | 7 declarations, at most 2 recorded, 2 answered | `PointInTimeFixed` fails | finding 6 |

**Why the bounds are enough.** A loss needs three things: a record that is
written, one torn or failed write, and one record after it; two torn and one
failed write among four records give every overlap of two losses. A verdict
in group form needs the quorum node and the declaration, one in member form two
members and the declaration (the quorum node need not be registered): two and
three records, and the third registers the quorum or a member again with other
keys or another threshold. The lossy case needs the pinning record torn and the
declaration posted after it, by a process that is replaced: one tear. Mixing two ceremonies
takes two. A master-list acceptance needs a witness
set and an entry, and two more records to disturb them. The number of restarts
is not bounded in any run. The view's properties relate at most two answers and
two rows, and four instants give every order of the ends of two windows; the
windows declared are bounded, of one instant, and open-ended. In `api` a page
ends inside the seed and the next one after it, among the records of requests;
the requests register the root again without its key, rotate a witness, and
supersede the entry under a lower-case spelling; a jurisdiction is asked for in
either case, padded, blank, and where there is no list. The documents posted in
`handlers` have good, bad and duplicate entries. The calendar repeats every 400
years: a whole cycle on each side of the year 0 is walked day by day, and
the rest of the years that can be written from New Year to New Year.

`CutoffReplays` says under which conditions the evidentiary reading is one: the
declaration is dated when it is recorded, and not in the very instant of the
first answer. Nothing compares `declared_at` with the clock, and the run has
declarations dated back and ahead for which the reading is not claimed.

`ReadsBackExactly` has one exception, and it is exact: an instant that its zone
pushes before the year 0 or after 9999 prints as a text the parser refuses. That
is where the ops of `Unreadable` in run `faults` come from.

**Fairness.** Only `FairSpec` (run `faults`) has any: weak fairness of the
start-up steps and of the steps of a handler that holds the lock. The code
justifies it: the replay loop, the seed loop and the entries loop run straight
through on one thread and wait for nothing but file I/O. Nothing obliges anyone
to start the process, to send a request, to run the tool or to post its
documents, and crashes are not fair.

### Findings

1. A record appended after a torn line is glued to it and lost at the next
   start, after it was acknowledged (`store.rs:457`, against the comment at 487).
   Its sequence number is then given out again (`store.rs:637`).
2. An evidence release whose journal write fails is served and never audited
   (`store.rs:642`, against 112 and `api.rs:1155`).
3. A line cut inside a character makes every later start fail (`store.rs:468`,
   against 478 and 487).
4. A witness set that names a witness twice may have m greater than k
   (`store.rs:565`, against `tests/integration.rs:409`).
5. The window filter leaves out declarations whose window overlaps the one asked
   for: one inside it, and an open-ended one that started earlier
   (`api.rs:912-926`, against `api.rs:848` and `tests/integration.rs:714`).
   What it does let through overlaps (`WindowSound`, proved).
6. An answer to an explicit `at` is sent as immutable, and a later declaration
   changes it (`api.rs:363`, against `api.rs:55`).

`LossBounded` is the positive side of 1 and 2: a torn write costs at most one
acknowledged record, a failed one at most two.

Smaller disagreements were met on the way that no run is spent on. `GET /graph`,
`GET /anchor-bundle` and `GET /master-list` say that an `at` is the instant they are
rendered as of (`api.rs:510`, 552, 756); they put it into `as_of` and read the
store as it is now. The answer of `POST /nodes` prints the posted node, not the
stored one (`api.rs:1409`, against 1381). `GET /keyring` is sent as
immutable with an `as_of`, and its keys change when the process is started in
another environment. `verified_witnesses` counts attestations and not distinct
witnesses (`api.rs:782`), unlike `quorate` beside it. A jurisdiction written `" EU "` has an
anchor bundle and, under `/trust-lists/{jur}`, is not found (`api.rs:334` against
716). The ceremony tool panics when
it is started without arguments (`quorum-ceremony.rs:170`).

## 4. Proofs

`TrustStoreProofs` proves, for all nodes, keys, requests, batches, seeds,
unreadable ops, tears and bounds:

- `TypeCorrect`: `Spec => []TypeOK`;
- `RestartIsExact`: `Spec => []RestartExact`. While no write of the running
  process failed, was glued to a torn line, or does not read back, a restart
  gives exactly the memory the process has;
- `EdgesStayAnchored`: `Spec => []EdgesAnchored`. Whatever was lost, every edge
  has registered endpoints and its signing key on its parent.

`RestartExact` alone is not inductive: to know that replay ends in the memory
that was there before, one has to know where replay is. `StoreInv` adds that
`hist` is the replay of the file line by line (`HistIsReplay`), that replay
goes along it (`ReplayAlongHist`), that only a last line can be unterminated
(`OpenOnLine`), and that seeding records ops (`SeedingOps`). `PutKeepsHist` is
the heart: appending a line extends the replay by one step, and gluing to the
last line takes its step back. The rest is one lemma per kind of step:
`StartupKeepsInv`, `SurviveKeepsInv` and `DeadKeepsInv` for the two ways a
`record` call ends, `RecordKeepsInv` for its outcomes, and `NextKeepsInv`.
`EdgesStayAnchored` needs one fact more, `StoreSteps`: memory changes only by
being emptied and by absorbing a record; then it is enough that every `Effect`
keeps edges anchored (`EffectAnchored`).

`RevocationViewProofs` proves, for all instants, declarations, queries and
bounds, `WindowFilterSound`: `Spec => []WindowSound`. The invariant `ViewInv` is
`TypeOK` and `Filtered`, every answer holds only declarations that pass its own
filters, which says of the answers what `RowsMatch` says of one read. The
theorem follows because what `InWindow` lets through overlaps
(`InWindowOverlaps`), by cases on the three ways it does.

`SeqNamesOneAlways` and `CutoffReplaysAlways` prove `SeqNamesOne` and `CutoffReplays`
there. Their invariant `LedgerInv` says what each answer given so far tells of
the ledger as it is now: a row's number is the place of its declaration, its
standing is the one computed from that declaration and the answer's own query
(`RowTells`), nothing in it was recorded after the answer was given, and what was
recorded before and passes the filters is in it (`Complete`). It survives because
the ledger only grows, by entries recorded at the clock (`AnswerStays`). In
`CutoffReplays` both answers then have a row for the declaration or neither shows
it as void, and the cutoff cannot tell them apart.

`QuorumProofs` proves two facts about retroactive revocations, for all
requests, seeds, attestations and faults:

- `KeysArePinned`: `Spec => []PinnedFirst`. No retroactive revocation with a
  threshold is in the ledger without a signing key that the graph has;
- `VerdictsAreStable`: `Spec => VerdictStable`, an action property.

The invariant of the first is `LedgerRests`: every retroactive revocation in the
ledger either asks for no signature or is signed by a key of the graph. It
is inductive because a declaration enters the ledger only through
`verdict` (`quorum.rs`), live and in replay alike, and because keys are merged
and never taken away (`EffectOnNodes`). The second compares the two verdicts
around a step: in group form only the quorum node counts, in member form the
distinct member keys, which are a finite set that grows with the nodes; hence
`KeyAssumption` (`Key` is finite).

`LogProofs` proves, for all constants and faults:

- `LogIsInOrder`: `Spec => []LogInOrder`. The invariant `OrderInv` says it of every
  state of the replay and of memory, and that no id in them exceeds the last one
  issued. `PutExtends` is why a write keeps it: each state of the replay after it
  is one from before or the last one with the new line, also when the line was
  glued;
- `SeqsArePlaces`: `Spec => []SeqIsPlace`. While the file is intact a record gets
  its number from a memory that is the replay of the file (`RestartExact`); that
  needs to know that a tainted process has left a trace, which is the first half
  of `PlaceInv`, and that a file that is intact after a write was so before
  (`IntactBefore`);
- `PostedAsWritten`: `Spec => []PostedInOrder`. It is inductive: the first record of
  a document makes the log end with its list (`EndsWithFirst`), each further one
  moves one entry from what is left to the end of the log (`EndsWithNext`), a
  refused entry drops what is left, and a crash ends the process;
- `AcceptanceIsStable`: `Spec => AcceptanceStable`, because no other op touches
  what acceptance is computed from (`EffectOnRoot`);
- `LossIsBounded`: `Spec => []LossBounded`. A torn write costs at most one
  acknowledged record and a failed write at most two, under every tear, crash
  and restart. The count of missing records is not inductive: the whole text of
  a record without its newline is still in the file, and the next write takes it
  away without being torn itself. `LossInv` therefore counts as gone what is not
  on a line that nothing can be glued to any more (`Safe`), counts the records
  of the request in progress with the acknowledged ones (`Pending`), and adds
  one for an open line: that is a loss to come, for which the write that left it
  open has paid. `LossStep` goes through the outcomes of `record` and shows that
  each pays for what it costs (`Costs`).

`LogIsInOrder`, `SeqsArePlaces` and `LossIsBounded` share `RecordWrites`, what one
call of `record` does to file and memory in all its outcomes, and
`QuietOrRecording`, that all other steps leave the file alone.

`RefinementProofs` proves:

- `NothingIsSkipped`: `SeedsApply` implies `Spec => []NothingSkipped`. What an entry
  point lets through, `apply_op` applies, now and in every replay of an intact
  file. Each `May...` implies `Applies` in the store it was checked in; the
  invariants carry this to the store in which the op is recorded or replayed.
  Between the check of a posted list and the record of its last entry the lock
  is held, and only entries of it are left (`HeldEntries`); while seeding,
  memory is the stage that the first `k` seed ops make (`SeedingAt`), from the
  empty store because a store without records is one (`BlankInv`);
- `StoreImplementsAudited`: `FaultFree` and `SeedsApply` imply
  `Spec => ImplementsAuditedStore`. The mapping takes the replay of the whole file
  as the abstract state, the ops of its lines as the history, and memory, while
  serving, as what is served. A record is a commit whether or not the process
  survives it (`AdmittedCommits`), the end of start-up opens the abstract server,
  a crash closes it, all else stutters. `Clean` (no open line, nothing lost) is
  invariant without faults (`CleanStep`);
- `SeededOnce`: `SeedsApart` implies `Spec => []SeedOnce`. Here faults do happen:
  start-up seeds only if nothing in the file was readable, so a seed that was
  interrupted is either never resumed or begun again with every earlier record
  of it lost. In `OnceInv`, `SeedPoint(m)` says that seeding has got to op `m` and
  that neither memory nor any state of the replay holds a seed op more often
  than the first `m` do, and `LogGrows` that a log which replays to nothing held
  nothing at any point of it;
- `SeedsOfSourceApply`: if `Seeds` is the list of `seed.rs`, `SeedsApply` holds.
  `SeedState(k)` writes down what the first `k` ops make; `SeedSteps` shows that
  each op applies to the stage before and makes the next;
- `SeedsBuildFixtures`: the last stage is `Fixtures`, what the build functions of
  `seed.rs` make directly. This proves once and for all what the comment of
  `seed_ops` promises; `SeedFaithful` says it of the running service.

`TrustApiProofs` proves, of the service of `TrustApi`:

- `ApiIsStore`: `ASpec => Spec`. With the keyring and its clients the store
  behaves as `TrustStore` says, so all the theorems above hold of it;
- `SeedAlwaysFaithful`: `ASpec => []SeedFaithful`, whatever interrupted seeding;
- `AnchorsTellMode`: `ASpec => []AnchorsMeanMode`. `KeyringInv`: whoever pinned
  anchors pinned those of a keyring that some environment gives. Of such
  keyrings two that share one key are of one mode (`SharedKeyMeansMode`),
  because a process takes both keys from one source, and no operator's seed is
  what a development key is derived from. The code does not enforce the latter;
  `SeedAssumption` states it;
- `PagesAlwaysMeet`: `ASpec => []PagesMeet`. The graph and the pages of operators
  show the same edges, because edges are anchored even after losses;
- `BundleAlwaysDecides`: `ASpec => []BundleDecides`. What a verifier computes from
  the anchor bundle is what the list and the master list show, if it asks for them
  under the trimmed name; a padded path is a 404. Every list is kept under a name
  without blanks, in memory and in every replay (`Named`), because
  only its registration makes a list (`EffectNamed`);
- `GraphAlwaysGrows`, `LogAlwaysPaged`: `FaultFree` implies `ASpec => []GraphGrows` and
  `ASpec => []LogPaged`. `ClientInv` says that what a client was told is in the
  replay of the whole file, not only in memory: after a crash memory is empty,
  and the replay is where the next process will be. `Grows` is the order in
  which records only add (`EffectOnNodes`, `AbsorbLog`).

`CeremonyProofs` proves `CeremonyIsClient`: `CSpec => Spec`. With the tool and its
operator the store still behaves as `TrustStore` says, because the directory
never holds anything but documents of runs (`DirectoryInv`). So the theorems
about the store hold beside the tool; `CeremonyPinned` draws the two of
`QuorumProofs` over. Two more need to know who holds a group key:

- `DeclarationsAreSigned`: `KeysHeld` implies `CSpec => []DeclarationsSigned`;
- `ThresholdIsMet`: `KeysHeld` implies `CSpec => ThresholdMet`, an action property.

`SignedInv` follows a group signature from the command line that made it, through
the tool and the directory, into the ledger and every state of the replay:
whatever was torn and whatever mixture of documents was posted, it is one that a
ceremony made. That the ceremony had the members the declaration claims is the
tool's own check (`Signs`). For the second theorem, the one slot of a group
signature cannot count as two members, so a declaration that claims two or more
was accepted in group form, for which the quorum node in the graph must itself
state the claimed threshold.

`CalendarProofs` proves `CalendarCorrect`: `Spec => []CivilAgrees`, for all years,
without bounds, and so that the two closed forms are inverse to each other on
every day the walk reaches. The invariant `WalkInv` says that `date` is a date of
the calendar and `day` its number by `days_from_civil`; each of the three steps
keeps it because the formula goes up by one from a date to the one after
(`DayAfter`) and by the length of the year at New Year. That `civil_from_days`
gives the date back is arithmetic within one era of 146097 days.

`TextsReadBack`: `Spec => []ReadsBackExactly`, for every date, clock time and zone.
A zone pushes a clock time by at most a day (`ZoneShifts`), so the UTC date is the
one of the text, the one before or the one after, each of which has the day
number it should (`DayIn`), and only two dates have a neighbour in a year of other
than four digits (`YearIn`).

**Hypotheses.** Five theorems about the store and the service, and two about the
ceremony, hold under conditions that are stated in them and are not assumptions
of the modules:

| Hypothesis | Says | Why it is there, and where it holds |
|---|---|---|
| `FaultFree` | no torn write, no failed write, no unreadable op | a line that is cut short, missing or not read back takes from the store what was promised or shown: findings 1 to 3. Holds in runs `handlers` and `api` |
| `SeedsApply` | each seed op applies to what the earlier ones made | a seed in another order would be recorded and skipped. Holds of the seed of the source (`SeedsOfSourceApply`) and of the one in run `handlers` |
| `SeedsApart` | no request is one of the seed ops | `POST /nodes` takes a node of the fixtures again and logs it, as it should. Holds in run `faults` |
| `KeysHeld` | no other client and no seed signs under a group key of the ceremonies | whoever has the key can sign what no member saw; the tool cannot prevent it. Assumed by `MCCeremony`, so that TLC evaluates it |

Assumptions: `UpperAssumption` (names map to list keys), `TrimAssumption` (what is trimmed is a
text again, names of lists have no blanks, and upper case keeps them),
`SeedAssumption` (no operator's seed is one a development key is derived from),
`AbsentAssumption`
(`Absent` is no value), `KeyAssumption`, `RequestsAssumption` and
`BoundsAssumption` (the types of the constants, and that a batch of entries holds
entries), `ViewAssumption`, `ApiAssumption`, `DocumentAssumption`,
`CeremonyAssumption` and `CalendarAssumption` (the same for those modules), and
`FixturesAssumption` (the names, keys and dates that `seed.rs` uses are values of
the constants). TLC evaluates them in the runs of their module.

**Model-checked only.** `Settles`, because TLAPS has no liveness here, and the
six findings, which are counterexamples. Every other property of the runs is
stated by a theorem. What a recursive definition computes for all inputs is out
of the prover's reach, so no module uses recursion.

## 5. Not modelled, and what could follow

Not modelled, because no state depends on it or because it is pure data or I/O:
the bearer check; the signature over each response and its headers other than
the cache rule; the discovery, health and contract documents; the catalogue and
the body of an evidence document; a store without a state file, which is the
store without restarts; `hex.rs`, `httpc.rs`, `lib.rs`, `main.rs` and
`openapi.yaml`. Of `wire.rs` the documents are records, and whether a line reads
back is a property of the op (`Unreadable`): the JSON text, the length of a
signature and the derivation of a key id are checks on one document, which its
own unit tests reach. Delegation scopes are the external crate's. Of the ceremony
the rounds, partials and the aggregation are external, and so is who is sent
which share; `ceremony.json` is an audit trail that no program reads.

Proofs that could follow: that the findings are the only exceptions, by way of a
weaker abstract store that may forget what a torn or failed write touched, which
`TrustStore` would implement without `FaultFree`; and the graph and the log as
clients see them under faults, up to the records that `LossInv` counts.
