# RacerzLab in TLA+

RacerzLab imports iRacing telemetry, analyses it, and leads a driver through one
engineering question at a time: what is wrong, what would prove it, and whether a
setup change helped. The numbers are Python analysis; what can go wrong in ways a
test hardly reaches is the *protocol around* them: one case per run, published as a
hash chain of revisions, moved by requests that name the revision they were decided
on, over one SQLite file, from a pool of threads, with a React interface that may
lose a response and repeat its request. This project models that protocol, checks it
on small instances with TLC, and proves its central facts for all instances.

## 1. Inventory

| Component | State it keeps | Operations | Talks to |
|---|---|---|---|
| Engineering Case publication (`api/routes_engineering_case.py`, `storage/engineering_case_repository.py`) | `engineering_case_revisions`, `engineering_case_heads`, `engineering_driver_intents` | read the current case (and publish it), state a driver intent, state an intent and start a workflow | builds the case through crew chief and run intelligence; one write transaction per mutation |
| Controlled workflow mutations (`api/routes_engineering.py`, `services/controlled_workflow_service.py`, `storage/controlled_workflow_mutation_repository.py`) | `controlled_test_workflows`, `controlled_workflow_mutation_receipts` | start, record stage A / B / A2, abandon, score; replay from a receipt | the case log (each mutation publishes the successor), the learning ledger (score) |
| Run intelligence (`services/run_intelligence_service.py`, `services/smart_guidance_service.py`) | process-wide bundle cache, in-flight futures, bundles on disk | build, peek | reads every table; its bundle is the input of each case |
| Saved sessions (`services/session_service.py`) | `racelab_sessions` | create, add a run, remove a run, open, delete, rebind aliases | scope of cases and workflows |
| Import (`api/routes_imports.py`, `services/import_service.py`) | the uploaded copy, the artifacts of each run, `runs`, `segments`, the rows cache | upload, import, read rows | rebinding of session aliases |
| Crew chief (`api/routes_crew_chief.py`, `services/crew_chief_service.py`, `storage/crew_chief_repository.py`) | `crew_chief_investigations`, `crew_chief_events`, `crew_chief_mutation_receipts` | open, continue, advance, answer, select an objective, abandon, rebase | republishes the case; writes driver intents, P33 and P34 records |
| Investigation adaptation, P34 (`services/investigation_adaptation_service.py`) | pairs of decisions, activations, evaluations; what this process has audited | freeze a pair, capture an outcome, review, restore | read and written around each continuation of the crew chief |
| Engineering learning, P33 (`services/engineering_learning_service.py`) | hash-chained experience stream | append, audit, project | fed by scores and endings of investigations |
| Session intelligence, track maps | LRU caches | derive | read-only |
| Analysis, knowledge, telemetry I/O | none | pure functions | called by run intelligence |
| React interface (`ui/src`) | shown revision, request sequence, mutation identities | fetch, invalidate, select an objective, replace a revision | HTTP |
| Tauri shell (`ui/src-tauri`) | the backend process | start, stop, restart | the API's port |

What is hard here:

* **Reads are not transactions.** A GET builds its case from several connections and
  publishes it later; a candidate workflow and a score are computed before the
  transaction that writes them.
* **Requests are repeated.** The interface repeats a mutation whose response it did
  not get; the receipt must answer the second delivery, also while the first runs.
* **Rules meet late.** Guards in four services decide one lifecycle; whether they fit
  together shows only after start, A, B, A2 and score.
* **Failure inside a transaction** after some tables were changed, a lock timeout, and
  the death of the process before or after a commit.
* **One step feeds two stores**: the score and the learning stream must agree; the
  objective is kept by the investigation and by the driver's intents.
* **Files and rows change together**, without a transaction over both: an import moves
  four artifacts and then writes a row, while others read and import.
* **One request is several commits**: an advance of the crew chief, each part with a
  receipt, and a freeze of the pair in a transaction of its own around each.
* **Caches** keyed by truth that moves while the value is being built.

The list of hazards with their lines is in `PROJECT.json`.

## 2. Modules

| Module | Models |
|---|---|
| `ControlledWorkflow` | the row of one A/B/A2 test and the guards of `controlled_workflow_service`: operators only |
| `EngineeringCase` | the case, its revisions, the workflow table, receipts, the learning stream's acceptance, the session's membership and every request in flight |
| `CaseLog` | abstract: what publication promises (a log of revisions and decisions) |
| `ControlledTest` | abstract: what the session promises about its tests |
| `MCEngineeringCase` | recordings, legacy rows and symmetry for TLC |
| `EngineeringCase_proofs` | theorems about `EngineeringCase`: types, the revision log, `CaseLog` |
| `ControlledWorkflow_proofs` | theorems about `EngineeringCase`: the workflow table, receipts, `ControlledTest` |
| `SnapshotCache` | the shared intelligence snapshot: key, memory, single flight, disk |
| `SnapshotCache_proofs` | theorems about `SnapshotCache` |
| `ApiClient` | the interface's GET cache, in-flight requests and their generation |
| `CaseView` | the interface's provider of one case over `ApiClient`, and the mutations of its surfaces |
| `CaseView_proofs` | theorems about `CaseView` |
| `SessionMembership` | the saved sessions: edits as read-modify-write, deletion, rebinding of a list |
| `SessionMembership_proofs` | theorems about `SessionMembership`: what edits and a rebinding leave in a list of any length |
| `RecordingImport` | imports of one recording under several run ids, readers of its rows, failures and crashes |
| `RecordingImport_proofs` | theorems about `RecordingImport`; extends `SessionMembership_proofs` |
| `MCRecordingImport` | stored databases and symmetry for TLC |
| `Adaptation` | the P34 ledger as a continuation meets it |
| `CrewChief` | the investigations of one run in a session, their requests, and the cases they publish |
| `CrewChief_proofs` | theorems about `CrewChief` |
| `MCCrewChief` | stored investigations and symmetry for TLC |

`EngineeringCase` extends `ControlledWorkflow` and instantiates `CaseLog` and
`ControlledTest` under refinement mappings. `CaseView` extends `ApiClient`: its effect and
its mutations make the client's steps. `RecordingImport` extends `SessionMembership` and
`CrewChief` extends `Adaptation`: their actions make the other module's steps. `CrewChief`
publishes on the same log as `EngineeringCase`, with the projection the crew chief's
mutations change. `SnapshotCache` stands alone: what `EngineeringCase`
reads in one step is the bundle whose making `SnapshotCache` follows step by step.

### How the state and actions of `EngineeringCase` correspond to the code

A case's identity is the SHA-256 of its content, so a revision holds the projection
itself in place of the hash: two contents are equal exactly when their hashes are. The
projection keeps the fields that distinguish revisions (objective, intents, members,
evidence, the workflow rows, the named workflow, the learning head).

Each request is one client's record: `pc` is the line its handler stands at.

* `GetRead`, `GetMerge`, `GetWrite` are `get_current_engineering_case`: build the
  bundle; read the workflow it names, the intents and the learning head; publish in a
  transaction of its own without looking at what the head was.
* `IntentRead`, `IntentMerge` are `_persisted_current_workspace`, shared by both
  driver-intent routes; `IntentWrite` and `StartWrite` are their transactions;
  `StartMerge` builds the workflow candidate; `StartRecover` is
  `_recover_workflow_plan`, which both a first delivery and a replay go through.
* `Replay` is the receipt lookup, before the handler and again under the lock.
* `OpenTransaction`, `StageWrite`, `CancelWrite` record and abandon; `ScoreRead`,
  `ScorePrepare`, `ScoreWrite` score, with its two reads before the transaction.
* `Rollback` is any failing check inside a transaction; `LockTimeout` the five seconds
  of SQLite's busy timeout; `Crash` the death of the process; `Reply` delivers the
  response or loses it.

A transaction under `BEGIN IMMEDIATE` excludes every other writer, so its statements
are one action. A read outside it is separate steps. The bundle itself is taken as one
read: the code builds it from several connections behind a cache (`SnapshotCache`); the
properties stated here do not depend on that, since they concern what the transactions
do with whatever was read before.

### `SnapshotCache`

One run of one session. Four rows stand for what a build reads, by how the key covers
them: `session` (and its workflows) and `runs` enter the key with a time of change, a
number that grows with each write (the clock has microseconds, so no two writes of one
row share a time); `laps`, which also stands for events and setups, enters by content
only, as these tables have no time of change, but what rewrites them (an import, a new
lap eligibility) writes the run's row in the same transaction; `history` is read and
enters no part of the key: the lifecycles of other sessions, recorded measurement
attempts, graded predictions, and the driver's profile ("derived memory writes must not
bust the snapshot").

* `ReadKey` is `_semantic_repository_revision`, one read per table; `Lookup` is the first
  critical section of `build_run_intelligence`: answered, joined, or owner of a new future.
* `Load` and `LoadNothing` are `_load_persisted_snapshot`; `Build` reads the rows again, one
  after the other, and the history; `Fail` is the `except` branch; `Store` replaces the
  file, or fails silently; `Publish` is the last critical section, with its eviction. The
  loading between the registration of the future and the `try` (lines 2226-2234) catches
  its own errors; an error that escapes it, such as exhausted memory, is not modelled.
* `Edit`, `Import`, `Remember` are the writes of others to the three groups of rows.
* `Peek` is `peek_cached_run_intelligence`. `Crash` loses memory and futures, not files.

### `ApiClient` and `CaseView`

`Get`, `ReceiveGet`, `FailGet` are the branches of `requestJson`, `Forget` is
`invalidateApiCache`, `Expire` the passing of eight seconds. In `CaseView` a handler
changes the refs at once and queues `state`; `Render` makes it visible as `view`;
`Effect` is the `useEffect` of that render, which runs before the next one; `Settle` is
the `then`/`catch` of its fetch. A fetch whose effect was cleaned up settles without
effect, so only the newest is kept. `Retry`, `Invalidate`, `SelectObjective`, `Adopt`
(`replaceRevision` and what its caller does with the result) are the provider's
operations; no component of the interface calls `selectObjective` yet. The three
surfaces differ in when they still listen to an answer and in what they do when it
cannot be adopted: Dial-In's advice invalidates on any failure, its verified plan on
none, the Crew Chief's deck only when adoption fails. Answers the interface would
reject as malformed are failures.

### `RecordingImport` and `SessionMembership`

One recording, which the database may hold under its canonical run (`recording-<sha>`),
under runs named after files, or under several of them. `Upload` is
`_promote_content_addressed_upload`; `Decode` reads the copy, which another import may
have removed; `ChooseOwner` is `find_recording_owner_run_id` and the staging; `Backup`
and `Place` are one iteration each of the two loops of `promote`, since each move is a
system call that another thread can fall between; `Invalidate`, `Save`, `Aliases`,
`SeeSessions`, `Rebind`, `Segments` are the statements that follow. `Fail` is any
exception before the row is written; `Undo` is one move of `rollback` and `UndoFails` one
that raises, which the code logs and passes over; `Discard` is the handler's `except`,
whose removal of the copy may fail too. A result without a run (a file that is gone or
cannot be decoded) is answered as it is. `Upload` is the hard link; where links are not
supported the code copies instead, and where a stored source of that name holds other
content it answers 409: neither is modelled. A version of a file is the import that wrote it and how it was
decoded (vectorized or row by row): two imports of one file may differ in the second.
A reader is `read_telemetry_rows` for whole runs: manifest, hash, signature, the lookup
under the lock, the read, the admission. Each move gives the file a change time of its
own, as `ctime` does; a signature is the path and that time. The cached lap and column
projections use the same signature as their key and are left out. The history variable
`during` collects what was in place while a read ran, `disturbed` the runs on which two
imports overlapped, or one died or could not move a file back.

In `SessionMembership` `EditRead` and `EditWrite` are the two connections of
`add_run_to_session` and `remove_run_from_session`.

### `CrewChief` and `Adaptation`

A request names the case it was decided on, whole: up to hashing it is the authority,
the learning head, the length of the investigation's history, the objective and the
number of intents. `Begin` is a handler up to its transaction: receipt, workspace,
comparison, the checks of the route. The workspace is built from many reads, taken as
one; what matters is that the transaction is another step. What a client may name
(`Readings`) is the published case or any workspace it can have read: the route
`crew-chief-workspace` builds one, with another objective or of an older investigation,
and does not publish it. `Step` is one turn of the
loop of `advance_until_boundary`, whose parts are numbered by `unit`; `Look` and `Freeze`
are `_freeze_p34_pair_for_workspace`, before a continuation and after a commit that ends
nothing; either may fail at any time, which the code answers by going on without a
pair. `Commit` is `_commit_crew_case_mutation` with the events, the count, the refined
intent, the P33 and P34 records, the case and the receipt; `Fail` its rollback, `Replay`
its second look for the receipt, `Review` `_review_p34_terminal_capture`.
`Plan` is, for each authority, the inspections in the planner's order, `Integrity` those
that come before the driver's question, and `Enough` the sets of them with which
`_subgoal` has nothing more to ask for; in the code what the inspections found and the
last answer also reorder and cut the list, here it is one list per authority.
`NoContract` is the decision the code refuses because the evidence has no contract for it.
What an inspection finds
is data and left out, as are driver memory and the success contracts, which are written
and not read by these requests. The pair is keyed by the revision without the intents,
as `_p34_source_snapshot_sha256` is. The audit of the P34 ledger is `verified`: it is
keyed by a revision that every write to the audited tables raises, so each ends it.
The routes of the case are two steps here as in `EngineeringCase`. `GetRead` builds the
workspace and `GetWrite` finalizes its case in a later transaction, after whatever the
head is by then; `IntentRead` compares the case with the canonical sources before the
transaction, `IntentWrite` (both driver-intent routes, the second with a workflow, which
changes the authority) compares the head again in it, `IntentFails` is its rollback.
The warm cache of workspaces is taken as fresh: its key is compared with the same
revisions the request is.

Three consequences of the code show in the model and are asserted by no document, so
they are not findings: an investigation that is closed and then stale admits no new one,
since opening wants it closed and rebasing answers only the stale one; an advance some
other mutation interleaved with is refused at each retry, its first part's receipt naming
a case that is no longer current; and an activation restored by a mutation is in effect
for no continuation that writes before it looks.

## 3. Runs

Bounds common to the runs of `EngineeringCase`: a client sends at most `MaxSends`
requests in all; recordings are five (source, a changed setup, a restored baseline, a
second copy of the same file, an overlapping one); one plan instant, between source and
first changed recording.

| Run | Question |
|---|---|
| `Case_race` | Two clients on two runs of one session, each with its case, four requests with replays, lost replies, lock timeouts and crashes: do revisions stay one chain, are receipts successors of what they were decided on, is the slot of the active workflow taken once, is every request answered under fairness, and is every step a step of `CaseLog`? |
| `Case_lifecycle` | Do table, receipts and published case agree through start, A, B, A2 with all five recordings, evidence that becomes blocked, and six requests of one client? |
| `Case_legacy` | Do two clients scoring and abandoning a finished row from before the P32 receipts, with a run leaving and joining the session, decide once per revision and keep the table and the learning stream in agreement? Also that every step is a step of `ControlledTest`. |
| `Cache_calls` | Do bundles filed under the current key hold the rows it covers as they are now, are answers no older than their call, is there one build per key, is the overflow of the dict on disk, and does every call return, with builds that fail while others wait on them? |
| `View_case` | Does the view show its own scope, keep an adopted mutation and the selected objective against late and cached answers, and settle? |
| `Import_races` | Is a run that nobody disturbed whole wherever its imports failed, are rows of the time of their read and never cached under another file, do the sessions name the owner once, is the uploaded copy kept for whoever created it? |
| `Crew_requests` | Is each history one a single careful user could have made, are continuations counted once, are the parts of an advance one chain? And, unless a case was published over a later one, is at most one investigation open, and do the two ledgers of the objective agree? |
| `Case_repeat`, `Case_score`, `Cache_history`, `Crew_open`, `Crew_stale` | What a document, a comment or an assertion says and the code does not do; see findings. |

The bounds are enough for the cases the properties speak about: two requests suffice to
race on one revision, a third makes the repetition of the loser or winner, a fourth the
read that establishes the first revision. Six requests of one client are a read, a
start, three stages and a repetition or refused attempt. The races of more than two
clients add no new pair of steps: every transaction is one step and reads only what a
pair can disturb.

`Cache_calls` has three threads, so that two wait on one build; three calls; one content
per row, the hardest case, since rows then differ in their time only; a cache of one
bundle, so that two keys overflow it; and one write, which can fall between any two
reads. `View_case` has two runs, two objectives and three events; with three the shortest
histories that break each property exist (a fetch remembered, a mutation adopted, the
view invalidated). Without liveness the same instance was also explored with four.

`Import_races` has two importers and two readers, three runs that may hold the recording,
one session and one editor; two imports, and three events in all among imports, reads,
edits, failures (also of the rollback) and crashes, so that both imports leave one for a failure, a reader or an
edit, and one import leaves two. The stored databases are an empty one, one with a run
named after its file, and one with two, the older of them from before the manifests.

`Crew_requests` has two clients with one request each or one with a request and its
repetition, one reader, one event (a change of evidence, an intent, a record or damage of
P33, a crash), two authorities that order and end the three tools differently, one of the
tools of integrity, and an advance of two steps. Since two requests do not get far, the
database starts from no investigation, or one with its question pending, or one about to
decide; they count no continuations, as rows from before the column do
(`storage/db.py:937`). One reader is enough to publish a case late: every commit is one
step, and what a second reader could publish between two of them the first can too.
`Crew_open` makes only the kind of request its question is about.

`CHECK_DEADLOCK FALSE` because requests are bounded: when all are sent and nothing is in
flight the model rests, as the program does.

**Fairness.** `FairSpec` asks `WF` of `Handle(c)` for each client: FastAPI runs each
accepted request on a thread of its pool, and a handler that can take a step
eventually takes it or raises. Nothing is assumed of users, crashes or sending. In
`SnapshotCache` it is `WF` of each thread's own steps; a waiting thread has none and
depends on the owner of its future. In `CaseView` it is `WF` of rendering, of effects,
of settling promises, and of the end of each request, by an answer or by its timeout;
the server need not answer.

## 4. Findings

Five places where a document and the code disagree, each with a run that shows it
(`findings` in `PROJECT.json`):

* a case that returns to an earlier content cannot be published (`Case_repeat`);
* a workflow planned by the current routes cannot be scored because its rebuilt snapshot
  omits the P32 receipt (`Case_score`);
* a cached bundle stays current when the history of other sessions, the recorded attempts
  or the grades that it was built from change, as its key leaves them out
  (`Cache_history`);
* a read that built its case before an investigation was opened and publishes it after
  makes a second request to open pass, so that two are open (`Crew_open`);
* evidence that changes between the reading of the workspace and the commit lets an event
  reach an investigation that is stale by then, since under the lock only the stored case
  is compared (`Crew_stale`).

More shows in the same instances and has no run of its own. Each of these definitions is
violated when a cfg checks it in place of what it checks:

* `StartReplayAnswers` (`Case_repeat.cfg` with two clients and `MaxSends = 4`):
  the replay of a start is refused once a stage was recorded, where `schema.sql:1252-1253`
  keeps the response so that it "can be replayed".
* `P34CannotVeto` (`Crew_stale.cfg`): a continuation whose freeze fails is refused when the
  pair of its revision was frozen by another one, or by the refresh after the last commit,
  where `crew_chief_service.py:3956-3957` says that adaptation "cannot veto".
* `ObjectivesAgree` (`Crew_open.cfg` with `Kinds = {"open", "objective"}`,
  `Stored <- Intended`, one authority that is not blocking, `MaxSends = 3`,
  `MaxEvents = 2`): with two investigations open the objective is changed on the older
  one, and the two ledgers of objectives part, which
  `build_crew_chief_workspace` then refuses (`crew_chief_service.py:5288-5303`).
* `FailedImportRestores` (`Import_races.cfg`): a failed re-import whose rollback fails as
  well leaves the row without an artifact it had, where
  `docs/telemetry_cache_migration.md:18-19` says that it "leaves the previously promoted
  artifacts in place".
* `ReadyScoreIsAccepted` of a workflow of an older build (`Case_score.cfg` with
  `Legacy <- OldTest` and `MaxSends = 2`): it is refused its score too, while the rebuilt
  case still names it.

And a read may publish a projection older than the head it replaces, where
`ROADMAP.md:2867` has the endpoint finalize "the exact current projection"; `OneChain`
and `ImplementsCaseLog` say what holds nevertheless: the log only grows. `Crew_open` is
what such a late publication leads to where a request relies on the head.

Since a successful score is reachable only when the evidence becomes blocked between the
score's reads and its transaction, `Case_legacy` reaches `ScoreWrite` through a run that
leaves the session in that window. The properties about scores are therefore checked on
the only path the code has.

## 5. Proofs

`EngineeringCase_proofs` proves, for any sets of clients, runs, workflows, objectives
and any recordings:

* `TypeCorrect`: `Spec => []TypeOK`. Each handler's line has what it needs; the
  argument is one lemma per action over the record of the moving client.
* `LogCorrect`: `Spec => []LogInv`, with `LogInv` the conjunction of `OneChain`,
  `ReceiptIsSuccessor` and `OneMutationPerRevision`. None of the three is inductive
  alone: that a decision happens once per revision needs that receipts name successors
  (so the head has no receipt yet) and that the chain has no repetitions (so the head is
  not also an earlier revision). The proof uses only the *shape* of a step: nothing, or
  one append of an unpublished case with at most one new receipt whose expected
  revision is the head. `LogStepType` shows that every action has the shape, and the
  lemmas `AppendKeepsChain`, `RevisionsStay`, `OldReceiptsStay`, `HeadIsUndecided`
  carry it through.
* `ChainHolds`, `ReceiptsAreSuccessors`, `DecidedOnce`: its three parts.
* `CaseLogImplemented`: `Spec => ImplementsCaseLog`, the refinement, from the same
  invariant and shape.

Assumptions: those of the modules, which TLC evaluates in each run. `RunsAssumption` and
`CaseAssumption` type the constants. `RecordingAssumption` has recordings that do not end
before they start: `_recording_interval` gives none for another, and a recording without
interval is never attached. `LegacyAssumption` says what a row of an older build is: it has
a source, a status that fits its stages, no P32 identity and no captured experience.

`ControlledWorkflow_proofs` is about the workflow table. The handlers decide outside the
transaction and write inside it, so a step can only be described with what is known of the
requests in flight. `Knowledge`: `Spec => [](TypeOK /\ WInv)`, with `WInv` saying

* `DrawnIsFree`, `DrawnApart`: the identity a start has drawn is nobody's row and no other
  start's;
* `ReadInOrder`: the two rows a score has read, and the row the table holds now, are
  revisions of one workflow in this order. Rows only move forward (`Rank`, `Past`), so a
  row that equals the first reading at the commit equals the second one too
  (`PastBothWays`), and the score that was computed judges the row it replaces;
* `BuiltNamesLive`, `RevisionsNameLive`: no case names an abandoned workflow, which is why
  the row a cancellation finds through the head is open.

With it every step of the handlers is one of five (`TableStep`): the table rests, a plan
fills an empty row, or a stage, an abandonment or a score changes one row that exists and
is not closed; and a change comes with one receipt of a request that had none. From there
each property is one lemma over these cases:

* `ClosedStays`, `ScoreIsOfTheRow` (action properties), `StatusFollowsStages`: a row's
  status is the one its stages call for;
* `StagesHold`: only the last stage is compared with a new recording; that it follows all
  of them is transitivity, and needs that a recording does not end before it starts;
* `CaptureHolds`, `ReceiptsAccount`: the learning stream and the receipts against the table.
  The second needs that receipts name rows that exist, so that a plan starts from a count
  of zero, and that a change's receipt is new, so that counts grow by one (`Books`);
* `SourcesHold`, `OneIsOpen`, `ControlledTestImplemented` have a hypothesis,
  `SourcesAreKept`: the runs whose case is opened, and the sources of stored rows, are not
  among those the user removes from the session. Without it they are false: membership is
  edited by routes that do not look at workflows, and a workflow whose source left is no
  longer seen by the check of the slot (the hazard at `run_intelligence_service.py:508`).
  The runs that check these properties satisfy the hypothesis, with a removable run that is
  no source. `StagesHold` and `ControlledTestImplemented` also ask that stored rows are one
  test, and open;
* `MutationsAreShown`: each mutation publishes, in its own step, the projection of what it
  made. `ReplaysAreFaithful`: a repetition that finds a receipt stores nothing, and the
  case delivered with its answer is the result in that receipt, not the head. It needs
  that a client's view has a place for every run (`ViewsAreComplete`).

`SnapshotCache_proofs` proves, for any threads, contents, limit and numbers of calls and
writes, `CacheInvariant`: `Spec => []Inv` with

* `TypeOK`;
* `Fresh`: along a call the stamps go up in the order in which the rows are read, so
  what the key shows is at least as old as what the build shows, and both lie between
  the start of the call and now. The stamps of `runs` and `laps` move together, so a run's
  row that did not move vouches for laps that have no time of change;
* `Flight`: each future has one key and is held by the thread that builds it.

`CurrentIsExact` (`KeyedRowsAreExact`) follows from `Fresh`: if a key equals the present
rows, no stamp can have moved between key and build, so the bundle has the present rows
too, all but the history, for which `Cache_history` refutes it. It is not
inductive alone, because it says nothing of a bundle half built. `AnswersAreFresh` is
the other half of `Fresh`; `SingleFlight` and `WaitersAreServed` follow from `Flight`.
`OverflowIsBacked` has an invariant of its own, `Spill`: beside `OverflowIsOnDisk`, that a
key being built has no entry in memory yet. `Store` may replace a bundle's file, which
would take the backing from an entry beyond the limit, if one with that key could be in
memory; it cannot, as the build under way began because none was found.
Liveness (`EveryCallReturns`) is only model-checked.

`CaseView_proofs` proves, for any runs, objectives and number of events, `ViewInvariant`:
`Spec => []Inv` with

* `TypeOK`;
* `Kept`: what a path is answered with, remembered or in flight, is of that path, and a
  fetch is settled with answers of its own path only. It contains `ViewIsOfItsScope`;
* `Floor`: nothing remembered, or still to be remembered, or awaited by the fetch that may
  still be shown, is older than what was adopted; and when a mutation has been answered the
  client has forgotten all that is older than its answer, also before anything is adopted.
  `AdoptedIsNotUndone` alone is not inductive, because the older revision is not in the view
  but on its way to it;
* `Asked`: a fetch that was not retired asks for the objective selected for its scope.

`ViewIsScoped`, `AdoptedStays`, `SelectionStays` follow, one from each. `ViewAssumption`
asks for a run to open first and that the default is an objective.

`RecordingImport_proofs` proves, for any runs, sessions, decoders, importers, readers,
stored databases and bounds, five groups of theorems; the first three rest on invariants
independent of each other. They assume `ImportAssumption` (the canonical id is a run,
bounds are natural numbers) and `StoredAssumption`: what is stored at the start is typed,
each run's artifacts belong to its row, and a stored session lists different runs. The
last is justified: sessions are created empty, only the modelled operations write their
lists, and `_load_identity_list` refuses a list that repeats a run
(`session_service.py:38`).

* `EntriesAreExact` and `ReadsAreOfTheirTime`, from `CacheInv`. A change time only grows,
  and while it stands still a file can only go; so a signature that equals the one of the
  file in place was taken of that file, and the rows read after it are that file's
  (`Filed`). That two readers who carry one signature saw one file (`Shared`) is what makes
  an entry filed by one a legal answer for the other. Neither property is inductive alone:
  between signing and reading, a reader's rows are not in the entry yet.
* `CopyStaysForCreator`, from `Copy`: no step but `Discard` removes the copy, and it keeps
  a copy that the discarding import did not create.
* `QuietRunsAreWhole`, from `ImportInv`. The property speaks of runs no import is at work
  on, so the invariant has to say where each artifact is while one is: `Position` gives
  the place of every artifact at every step of the promotion and of its rollback, for an
  import that works alone on its run; `Restorable` says that what it has moved aside
  together with what it has not come to yet is the old set, and that this set belongs to
  the row that is still there; `Written` and `Recorded` take over when the row is written.
  `Alone` ties the importers together: on an undisturbed run there is one worker at most,
  and it is alone. Two lemmas carry the actions: `WorkerMoves` (one worker changes, and
  only its run's artifacts and row) and `IdleMoves` (no worker changes). `ChooseOwner`,
  which may take `alone` from others, a move back that fails and the death of the process
  have lemmas of their own.
* `MembersStayDistinct` and `RebindingConverges`, from `MembersInv` beside `ImportInv`. An
  edit writes a list it computed of one that was sound when it was read (`EditShape`); a
  rebinding has seen every session that is still there, since none is made anew, and its
  owner is not among its aliases (`Seen`). For the second, `ImporterPasses` shows which
  steps can leave the rebinding at all; only `Rebind` does so without an event. What both
  need of the lists is proved in `SessionMembership_proofs`.
* `TypesAreKept`: `TypeOK` follows from `ImportInv`, `CacheInv`, `MembersInv` and `Typed`
  (what readers hold and entries record), which are inductive together.

`SessionMembership_proofs` proves `ReboundIsResolved` and the lemmas `WithIsSound` and
`WithoutIsSound`, for lists of any length and with no assumption. A rebinding walks the list
once and carries what it has kept and what it has met; `ResolvedPass` states, after each
prefix, that the kept names are exactly those the prefix resolves to, each once, in the order
of their first mention (`InOrder`). The theorems of the library that do induction take an
operator as a parameter, which the provers cannot instantiate; `Upward` states
induction over the set of lengths that satisfy the statement instead, and follows from `Nat`
being well founded. That the fold's recursive function exists is proved the same way.

`CrewChief_proofs` proves, for any clients, readers, plans, objectives, authorities, stored
rows and bounds, `Invariant`: `Spec => []Inv`, and from it all six properties of `Crew_requests`:
`ShapesHold`, `OneHasNoEnding`, `EveryHistoryIsLegal`, `EachContinueCountsOnce`,
`AdvancesAreChains`, `LedgersAgree`. `Inv` is one half about what is stored and one about what
requests in flight know of it:

* `Histories`: each investigation's events are legal. An event that is appended follows the
  last one stored, compared in the transaction (`crew_chief_repository.py:356`), so this
  needs nothing of the published case.
* `InOrder => Orderly`. A read may publish its case over a later one, and then the head
  is not the latest (section 4): two investigations can be open, and the ledgers can part.
  `InOrder` says that it has not happened. As long as it has not, `Orderly` holds:
  all investigations but the latest have their ending (`Finished`), the head is of the
  latest investigation with all of its events (`HeadIsLatest`), and the ledgers agree. What
  the single comparison under the lock (`crew_chief_service.py:6611-6618`) buys is then
  exact: a request whose workspace is the head was decided on all that is stored.
  `OneOpenInOrder` follows, but is not inductive: it does not say which one may be open.
* `ReadersKnow`: what a reader holds is of the table, and before the first case is published
  it is all there is, since nothing commits without a published case. Once a case is
  published, `NotBefore` and `InOrder` say that a late case that keeps the order is of the
  latest investigation, with all of its events.
* `Informed`, for each request in flight: it was entitled to its kind by the history its
  workspace had (`Entitled`), the action it shows and the one its pair directs are among
  those the planner and memory allow there (`Chosen`, with `PairsFit` of the stored
  pairs), and the part of an advance in hand was decided on what an earlier part answered
  (`Linked`, `Follows`). A workspace names its events by their number, so what a request
  knows is a prefix of a history; since tables only grow (`Grown`), no step of another
  request disturbs it (`GrownHeard`, `GrownInformed`).
* `Remembered`, `Counted`, `Chained`: cases and receipts are of the table, and receipts
  count and link as the properties say.

Two lemmas carry the steps: `ClientStep` (one request changes, nothing is stored) and
`CommitKeepsInv`, which takes `EventLegal`, `TableAfter`, `CountsAfter`, `ChainAfter` and
`CaseAfter` together. The lists are handled without induction: the fold looks only for the
last event of a kind, the planner for the first inspection left, and a least or greatest
number exists because `Nat` is well founded (`MinExists`, `MaxFound`). Assumptions:
`PlanAssumption` (plans are sequences, and no inspection is called ask or decide), `NoneAssumption` (None is no
workspace) and `StoredAssumption` (what is stored at the start was written by these
requests: legal, its ledgers agreeing, nothing counted yet, all but the latest ended).

Every safety and action property that the passing runs check is a theorem. Liveness
(`EveryRequestEnds`, `EveryCallReturns`, `ViewSettles`) is only model-checked: it needs
`ENABLED` for its fairness, which the provers do not handle. No module that is proved about
declares a `RECURSIVE` operator.

## 6. Not modelled, and why

* Telemetry decoding and analysis, knowledge files, evidence tools, track maps: pure
  functions of stored evidence. Here they are the value of `evidence` or `authority`;
  what they compute is numbers a model of small sets cannot tell apart. They are most of
  the implementation's lines, and the reason why the map covers few of them.
* The P33 stream: its records are chained and audited by hashes; only the acceptance or
  refusal of a record, and damage, are seen by the callers that are modelled.
* The P34 statistics: an evaluation earns an activation or takes it back, either way.
* Deleting a run, previews, and track map caches: single statements or derived data.
* The shell's process management: three calls of the operating system with no state of
  its own that survives them.
