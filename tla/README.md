# TLA+ models of the Onsei organizer

The backend (Go, `src/backend/go/internal`) keeps an inventory of audio
libraries, plans conversions of selected folders and executes the frozen plans:
it encodes, renames and removes files of the user's collection. A web frontend
(`src/frontend/web`) drives it over HTTP. This directory models the parts where
processes, requests and failures interleave. Every definition is translated from
the source; a comment at a definition names the function it stands for.
Line numbers below are relative to `src/backend/go/internal` unless they say
otherwise.

## 1. Inventory

| component | state | operations | hard behaviour | what makes it correct |
|---|---|---|---|---|
| **Execution session** (`workset/execution_worker.go`, `execution_pool.go`) | the row of `plan_executions`, one result row per unit, the window of open units, the encode queue, staged files | claim, verify, prepare, encode, commit, record, stop, discard, finish, cancel | coordinator, N encode workers, the cancel watcher and a crash run concurrently | units change the disk one at a time in frozen order; nothing staged is lost; rows agree with the disk; a session ends |
| **Admission gate** (`admission/gate.go`) | two slots and a scan count under a mutex; session rows in the database | begin/release scan, file request, maintenance; enqueue | callers check the database outside the mutex | exclusive work is alone; no slot leaks |
| **Operation lifecycle** (`workset/generation.go`, `execution.go`, `draft.go`, `worker.go`; `adapters/sqlite/repo_{generation,execution,operation}.go`) | the operation row with its draft and version, the current plan, two session tables, two wake tokens | save draft, start/replay/cancel planning and execution, claim, promote, interrupt | requests read many times before one write; workers share a token; claims fail; retries | one plan; a plan is executed once; edits are not overwritten; retries do not plan twice; queued sessions are taken |
| **Component run** (`conversion/execute`, `conversion/{prepare,run}.go`) | files of one unit: sources, targets, staged, aside and recovery names | precheck, encode, commit, remove, discard | any file operation fails, a crash between two renames | audio is never lost; the report agrees with the disk |
| **Reconcile** (`conversion/reconcile`), **drafts and inheritance** (`conversion/{draftdoc,effective,policyslots,tags}.go`), **bitrate facts** (`conversion/bitrate.go`) | none (pure) | classify, group, decide, plan; effective settings | boundary cases of modes, overrides and bit-rate bands | a removal is always covered by an accepted output; planning again agrees with the frozen plan |
| **Scan** (`inventory`, `adapters/sqlite/scan_{staging,merge}.go`, `adapters/filesystem/walk.go`) | `scan_sessions`, staging rows, `entries` | walk, batch, merge, clean up | producer and consumer stop one another; merge in several transactions | a merge tells only what was on the disk; rows tell the cause; staging is removed; a scan ends |
| **Worksets** (`workset/{workset,revision,operation}.go`, `repo_workset.go`) | the processing record, its members, its creation key, revisions | create, replay, replace, rename, delete, read with staleness | lost answers and retries, keys that expire, replacement beside running sessions | a request creates once; a busy record is never replaced; no title is lost |
| **Event streams** (`workset/{subscribe,execution_subscribe}.go`, `httpapi/sse.go`) | a cursor per subscriber | snapshot, poll, emit | rows are written meanwhile and out of order | a subscriber sees every result and one terminal event |
| **File operations** (`fileops`) | the media tree | rename, move, soft delete | stop at the first failure, name races | nothing is overwritten; the answer says what happened |
| **Maintenance and retention** (`app/{maintenance,pass}.go`, `repo_{retention,maintenance}.go`) | pass progress, retention cut-offs | batches, yields, vacuum steps | holds the gate in slices | only terminal rows go; tasks are not starved |
| **Process lifecycle** (`app/app.go`, `watch_parent.go`) | the process | start, recover, drain, forced exit | writes lost at exit | stale rows are settled before workers start |
| **Library** (`library`, `adapters/sqlite/repo_library.go`) | library rows with their root and scan status, the listing under a root | create, patch, delete; a scan's outcome | requests read long before they write; a root moves beside creations and scans | a record keeps its library and its root |
| **Path normalisation** (`pathnorm`) | none (pure) | fold and compare paths | - | member paths stay inside their root |
| **HTTP API**, **settings**, **FFmpeg adapter**, **storage schema** | - | decode, encode, run a program, open the database | - | - |
| **Frontend stores** (`stores/*.ts`, `draft-intents.ts`), **pages and queries** | one followed stream, one edit session, cached queries | attach, supersede, open, edit, apply, rebase, synchronise | late answers, lost answers, pages entered over unapplied edits | an old stream never writes into a new one; caches show the end; a save changes what was edited and nothing else |

How they interact. HTTP handlers call the services. Starting a planning session
or an execution inserts a row *through* the gate (`Gate.Enqueue`) and pokes a
wake channel; the dispatcher's workers claim rows and write progress and a
terminal status; event streams poll the same rows. An execution session calls
the component run for each unit and syncs the inventory of the files it
changed. Scans, file requests and maintenance take slots of the gate.

## 2. Modules

| module | models | proofs |
|---|---|---|
| `ExecutionSession` | one execution from its claim to its terminal write, with its pool | `ExecutionSession_proofs` |
| `SequentialSession` | what a session promises, with no pool: the abstract specification `ExecutionSession` implements | `ExecutionSession_proofs` |
| `AdmissionGate` | the gate and the callers that hold its slots | `GatedFiles_proofs` |
| `OperationLifecycle` | the sessions of one operation, from the requests to the workers | `OperationLifecycle_proofs` |
| `ComponentRun` | one component against the disk: what `ExecutionSession` takes as the prepare, encode, commit and discard of a unit | `ComponentRun_proofs` |
| `ScanSession` | scans of one root: walk, staging, merge, terminal writes | `ScanSession_proofs` |
| `LibraryRecords` | libraries and their current records, from the requests to the transactions | `LibraryRecords_proofs` |
| `Reconcile` | the planner, and its plan while the components run | `ConversionPlanning_proofs` |
| `FileOps` | one file request beside another program | `GatedFiles_proofs` |
| `ExecutionStream` | the event stream of an execution, its connection and the store's view | `SessionStreams_proofs` |
| `SessionPage` | the pages, the store and the caches that follow sessions | `SessionStreams_proofs` |
| `DraftEditor` | the draft of an operation and the browsers that edit it | `ConversionPlanning_proofs` |
| `MC...` | instances for TLC | |

How they fit. `ExecutionSession` is one taken row of `OperationLifecycle`;
`ComponentRun` is one unit of it; `Reconcile` says what the components of a plan
are and what they do to an inventory when each runs whole. `AdmissionGate` says
which of scans, file requests and sessions may be under way together;
`ScanSession` and `FileOps` are what happens inside a slot. `ExecutionStream`
reads the rows `ExecutionSession` writes; `SessionPage` takes a stream as what
`ExecutionStream` shows of it; `DraftEditor` is the browser's side of the saves
`OperationLifecycle` guards. The records of `LibraryRecords` are what the
operations of `OperationLifecycle` belong to; of their sessions it keeps only that
there is one, and of the gate the one slot its requests ask for. They are composed by these abstractions and not in
one state space, except `SequentialSession`, which `ExecutionSession` is shown
to refine.

### ExecutionSession

The coordinator is the control flow of `executeRun` and `sessionRun`: `pc` names
the statement it is at, `cursor` the frozen position, `open` the prepared units.
`queue`, `phase`, `delivered`, `completed`, `failure`, `ended`, `stop` are the
pool's shared fields; one action is one critical section, one channel operation,
one database write or one call to the component run. In particular `SendTask`
and `CountTask` are two steps, because `deliver` sends before it counts, and a
worker may return the task in between. `EncodeFails` and `ReportFailure` are two
steps for the same reason. `disk` abstracts what a commit does to one unit to
"untouched", "partial" or "landed"; `CommitReturns` may end with any of them
under the conditions of `PreparedComponent.Commit`. `staged` holds the encode
tasks whose temporary file may be on disk.

`SequentialSession` has no pool, no window and no stops: units commit in turn,
each after the durable success of all earlier ones. `ImplementsSerial` is the
refinement (the rows and the disk are mapped as they are; the pool is hidden).

### AdmissionGate

`manual`, `maint` and `scans` are the fields of `Gate`. Each caller has a step:
a scan is checked, admitted, scanning; a start request is checked, and then its
row is queued or running. What a caller asks the database before it enters the
gate is an action of its own, because nothing holds the mutex meanwhile. The
model has one library root. `Restart` empties the gate and settles or leaves the
rows of the dead process, whose settlement may fail and is only logged.

### OperationLifecycle

One operation, with the draft at each of its versions (`history`), its plan, the
planning and execution tables, the workers and the requests. A request is a
sequence of reads and one write; every read is a step of its own unless the
guarded insert evaluates the same fact again (`CheckEligible` merges those).
Drafts are opaque values told apart by their hash. A session's number stands for
its creation order. `Refuse` covers the many refusals that depend on state
outside the model: scans, orphaned worksets, incomplete drafts, a busy gate.

### ComponentRun

A plan is the frozen component together with what the disk holds of it: for
each path whether the frozen file is there, changed or missing, whether an
unlisted file is in the way, and which recovery names are taken. The precheck is
one step that accepts or refuses it; a plan that is refused writes nothing.
`file`, `temp`, `aside` and `bin` are the disk: the member's paths, the staged
outputs, the copies of replaced files (hard mode) and the recovery folder (soft
mode). One file holds one content, named by where it came from. Every rename and
removal is a step that may fail; `Protect`, `LandReplacement`, `Restore` and
`DropAside` are the steps of `commitOutput` for a replacement. `Cancel` may come
at any moment and is read where the code reads its context. `committed`,
`removed` and `recovery` are the report; `Remaining` is what the two counts
leave. Recovery names are a function of path and attempt, and two paths may
share one (`a.1.flac` is the second name of `a.flac`). There is no crash
action: a crash leaves the disk of the state it meets, so `AudioSurvives` in
every state is what a crash needs.

### ScanSession

Each scan has three processes: the walk (`walk`: directories to read and being
read), the consumer (`pipe`: the channel and the batch in hand) and the caller
(`pc`: joining, recording, cleaning, merging). `stop` is the derived context
either side cancels, `asked` the caller's own. The walk of the root reads
several directories at once; the walk of a member is the same walk with one
worker. A send on a full channel waits, and a canceled context releases it.
Every write may fail once (`Fault`), also the writes that settle a failure.
`Merge` is one step because it is one transaction; its clean-up of stale rows
may fail inside it and is then ignored. Versions stand for size and time, which
is what a scan compares. Another program edits, adds and removes files while a
scan runs, and the planner's probe measures a file and writes its rate later, by
path. `log` is history: which faults hit a scan, which files changed or were
absent since it began.

### LibraryRecords

A transaction or a single statement is one step; a request is the sequence of
those its handler makes. `at` is the statement a request is at, `req` what it
asks and `got` what it has read so far, which may be stale by the time it
writes. `row` is how a record was created, `held` the key it answers for and
`aged` the records older than the replay window. The insert of a record looks
again at the record the caller expected, at its sessions and at the key
(`Persist`), and at nothing else of what the request read. The slot of direct
file management is not a variable: it is held exactly between the steps that
take and return it. Scans are modelled for what they do to a library's status
and listing, sessions for what they do to a record. "renamed" is the answer of
a rename whose guarded write was accepted. Left out: names, titles and the
reasons why a folder is skipped, overlapping roots, what else may hold the slot
(`AdmissionGate`), errors of the database.

### Reconcile

`Outcomes` is the planner as one operator: the classifier splits the inventory,
`BuildComponents` groups it, and the strict or the relaxed table decides for each
component; the tables are sets of operations over the files of a stem. `Plan`
freezes it and `Run` applies one component, with the precheck `PrecheckAccepts` the
executor repeats, and may lose the credential of an output
(`recordGenerations`). Rates are integers, and the bands use the code's integer
percentages. A path is a directory, a display name and an extension; `Key` folds
names that differ in case to one stem.

### FileOps

A request is planned (`planItems` skips repeated and covered items), and then
every item is resolved, its target looked for and renamed, each a step; on a
filesystem without `RENAME_NOREPLACE` the rename is a look and a rename. After
the items come the refresh scopes. Between any two steps another program may
create a file or remove one. A tree maps paths to files, folders and links.

### ExecutionStream, SessionPage

`ExecutionStream` has the worker's writes (one result row at a time, then the
terminal status), each subscription (snapshot, the listing that sets its cursor,
ticks that list from the cursor, the terminal event), the connection as a queue
of events, and the store's loop over it. Streams break and the client attaches
again. `unseen` is history: results recorded between a snapshot and the listing
that follows it. `SessionPage` has two operations, one store with its controller
guard, and the operation and detail queries a page reads: mounted queries are
refetched when they are invalidated, others are removed.

### DraftEditor

`server` is the operation's version and document. A browser has its cached
draft, a read on its way (in two steps, as `GetDraft` reads), one edit session,
a page and its saves. A document gives the common settings a value and each
member a value or `Inherit`. An intent overwrites the slots of the session's
target when it is applied. `Opened` is the rule of an edit page met by an edit
session of another target, `syncWithServer` what a new draft does to a session,
`SaveDraft` the guarded write, `AnswerSave` the later read whose version the
client takes, and `SaveFails` a refusal or a lost answer. `borrowed` marks the
version such an answer brought although a later save or publication had set it.

## 3. Runs

A run checks one model; where several conditions say one thing of it, they are
the named conjuncts of one property, and each keeps its own comment in the
module.

| run | what it asks | instance | states |
|---|---|---|---|
| `session` | do rows, disk, staged files and verdicts agree in every interleaving? does the session implement `SequentialSession`, and end? | five units with 1, 2, 1, 1 and 0 encode tasks, a window of three, `FairSpec` | 253,149 |
| `gate_exclusion` | is exclusive work alone, and does no slot leak? | two scans (one a refresh), two file requests, three sessions, the pass, restarts | 11,460 |
| `lifecycle_safety` | one plan, executed once; do cancels, edits and retries keep their meaning? | seven workloads of up to four concurrent requests, two workers, one death of the process | 2.7 million |
| `lifecycle_wake` | is every queued session taken? | two workloads of up to three requests, `FairSpec` | 58,113 |
| `component_run` | is audio ever lost, a recovery file overwritten, does the report agree with the disk? | components of up to two encodes and two removals, the empty one included, soft and hard, every file operation failing, a cancellation anywhere | 193,748 |
| `scan` | does a merge tell what was on the disk, a row the true cause? does a scan end? | a full scan beside a refresh, with an edit, a fault, a cancellation, a crash or a probe; a full scan of four entries through a channel of one; `FairSpec` | 220 thousand |
| `reconcile` | does the plan hold while its components run, and when planned again? is every removal covered? | both tables, four codecs, roots of up to three or four files in two directories, rates at the edges of the bands, one lost credential | 74 thousand |
| `file_ops` | is a file destroyed? is the report what happened? | two trees, fourteen requests, two steps of another program, one failing call | 77 thousand |
| `execution_stream` | is a client told everything once, and the end last? does a followed stream end? | three components, two connections, one fault, `FairSpec` | 82 thousand |
| `session_page` | does an old stream write into a new one? do the caches show the end? | two sessions, two connections, one break | 2.3 million |
| `draft_editor` | does a client's version tell its document, does a save change only what was edited? | two browsers, one member, two values; two of two saves, a publication and a fault | 494 thousand |
| `library_records` | is there one record per library, made once per request, never taken from under its sessions or its root? | two requests at a time at one library that moves between two roots, and two creations at two libraries with one key; two records, three versions, sessions, restarts | 2.6 million |

The composite properties: `RowsTellDisk` (frozen order, pending units untouched,
syncs disclosed, the position names the head, a real error is never masked by a
cancel), `StagingIsOwned` (a commit finds all of its unit's files encoded, bounded by the
window, none left behind, a failed encode leaves its unit open), `StepsAreAttributed` (a failure goes to its unit,
only returned files are cleaned); `TablesAgree`, `AnswersHold`, `SessionsKeepOrder`
(created as validated, executed once, ended for good) and `EverySessionIsTaken` of
the lifecycle; `SlotsAreKept` of the gate (exclusive work is alone, the fields say who
is inside); `RecordsAgree` (one record of a library, nothing left of one that is gone, a
chain of them), `AnswersAreTrue` and `RecordsAreProtected` of the records;
`EditorsKnowTheirDraft` of the editors; `RunIsReported` of a component;
`FailuresAreSettled` of a scan; `PlanHolds` of a plan; `BatchIsReported` of a
file request; `StreamTellsSession` of a stream.

Why the bounds are enough. In `session` three workers and five units let two
units beside the head fail while the head commits, a unit of several tasks fail
halfway, and a unit without tasks be last; with a window smaller than the
worklist the window refills. In `OperationLifecycle`, `MaxSessions` bounds the
planning sessions ever started (two: a plan and the one that replaces it),
`MaxCrashes` the deaths, and the workloads say which requests meet: each
property is about two concurrent writers and one row they race for, and each
workload has one such pair and a third request that moves the row. In
`component_run` one encode, two encodes of one source, two of one target and a
source that is a target meet up to two removals, three paths and every disk that
differs from the frozen one at most at one path; `MaxAttempts` is one, so that
both the second recovery name and the want of a third occur. In `scan` the
workloads bound every event at one: the properties speak of one scan and what
happened to it, and the pairs (edit and probe, edit and fault, fault and
cancellation, edit and crash) are each tried with the other scan beside. Four
entries, a channel of one and batches of two fill the channel while a batch is
written, so that the walk blocks. In `reconcile` a stem pairs across two
directories, two names differ in case, and three stems and four files are enough
for a source, an output, an obsolete file and a bystander. In `execution_stream`
three components put one result before, one in and one after the gap between
snapshot and cursor. In `draft_editor` one browser moves between the settings
page and a member's and the other stays on the settings page: two writers, an
edit session entered from another page and a publication; the constraints
`TheOtherStays`, `TheOtherIsLater` and `Within` only say which client is which
and that two of the five events happen. In `library_records` every property is about two requests that race for one
row, so two are in flight; two records are a record and its replacement, three
versions two renames, two roots the former and the new one, and one key is what two
libraries can contend for. Its constraints leave out what no property tells apart:
a record without a key does not age (`AgeMatters`), a failed scan leaves no status
anybody reads (`ScansSucceed`), a rename meets only what touches the record it renames
(`RenamesApart`), and as long as there are two libraries only creations meet
(`CreationsMeet`), each with the key, and no session, rename or deletion, since what else happens to
one library does not touch the other. The theorems below need none of these
bounds. Workers, sessions and values are declared symmetric only where no
liveness is checked. `CHECK_DEADLOCK FALSE` is set wherever the system comes to
rest: a session that ended, requests that were all answered. It is not
set for the gate and the records, which never rest.

The roots of `reconcile` satisfy `OneSpelling`: in the strict mode none holds an `.aac`
file where AAC is the target, because the plan does not hold there (section 5);
`AacScenes` of `MCReconcile` are those roots.

Fairness. `session`: the coordinator and the workers are goroutines that run
(weak fairness); an encoder child returns, since cancellation kills it; the
watcher keeps polling. No one is made to cancel or to crash. `lifecycle_wake`:
a handler that inserted a row goes on to wake its worker, the workers and the
execution loop run, sessions end, and a claim that keeps being possible is not
refused by the database for ever (strong fairness of the claims: `retryClaim`
repeats them after a pause). Requests need not arrive. `scan`: the walk, the
consumer and the caller are goroutines that run; a directory that cannot be read
answers with an error. `execution_stream`: the worker, the ticker of every
subscription and the reader of every open connection run; connections need not
be made or break.

## 4. Proofs

Theorems hold for every value of the constants under the named assumptions of
the modules: `SessionAssumption` (any worklist, any number of tasks per unit,
any window), `AdmissionAssumption` (any finite set of scans and any sets of
requests and sessions), `LifecycleAssumption` (any requests, workers, keys and
drafts, any number of sessions and deaths), `ComponentAssumption` (any components,
any scheme of recovery names, any disk), `ScanAssumption` (any set of scans, any tree,
any capacity of the channel and of a batch), `RecordsAssumption` (any libraries, roots,
folders and keys, any number of requests, records and versions), `StreamAssumption` and `PageAssumption` (any
worklist, any sessions, any numbers of connections and faults), `FilesAssumption` (any
trees and names, any requests whose items lie below the member, any scheme of recovery
names, any number of attempts), and for `DraftEditor` `MarkersAreNoValues`,
`CommonIsNoMember`, `BoundsAreNumbers`, `VisitsTargets` and `NoneIsNothing` (any
browsers, members and values, any number of saves, publications and faults), and
`PlannerAssumption` (any policies and tags, any display names and any way to fold them
to stems, any finite inventories with any rates and credentials). One theorem has a
hypothesis of its own, `OneSpelling`, for the reason given with it.

- `TypeCorrect` (`ExecutionSession_proofs`): `Spec => []TypeOK`. Type correctness
  is not inductive by itself: `cursor` and `Head(open)` must stay inside the
  worklist. The strengthening says that the open units are consecutive from the
  cursor to the next unit to prepare (`InLoop`, `AtBoundary`, `Outside`).
- `CommitsAreEncoded` (`ExecutionSession_proofs`):
  `Spec => []CommitsOnlyEncoded`. The tracker of a unit is a pair of counters, so
  the invariant is a count: `completed` is the number of tasks that returned,
  a task is queued at most once and only before it was seen, and a task that
  returned without an output left a failure. A sealed unit whose count reached
  its tasks then has none that could still fail (`Permit`).
- `RowsAgreeWithDisk` (`ExecutionSession_proofs`): `Spec => []RowsTellDisk`. The
  property speaks of rows and the disk at rest; what makes it inductive is where
  the coordinator is. `Settled` says that the units before the cursor have
  succeeded, those after it were not touched, and a head that touched the disk is
  on its way to its row, has it, or ended the session for want of it.
  `NothingBehind` says that no stop names a unit before the cursor, which needs
  `PastEncoded` (no worker is left that could report one) and in turn the counts
  of `CommitsAreEncoded`. `Decided` says that no stop is recorded once the workers
  were awaited, so the verdict cannot be overtaken by an error.
- `SessionIsSerial` (`ExecutionSession_proofs`): `Spec =>
  ImplementsSerial`. `Serially` is what the guards of `SequentialSession` ask and
  the session's own guards do not say: a row is written once and in its turn
  (`Unwritten`, `OpenFree`, `StopFree`), nothing succeeds after a failed row
  (`FailedStops`), a canceled session was asked to end (`Asked`: a worker canceled
  without a request was canceled by a recorded error, or by one about to be
  recorded), and a session succeeds with every row (`Verdicts`, from `Delivered`
  and `HeadWoken`). `SerialStep` then maps each action to a step of the contract or
  to a stutter.
- `StagingStaysOwned`, `BlameIsTrue` (`ExecutionSession_proofs`). `Staging` follows
  a staged file from the worker that writes it (`Written`) to the open unit it
  belongs to (`StagedOpen`; a queued task is one of an open unit, `QueuedOpen`) until
  the commit or the teardown removes it. A unit that is committed has no task left
  at work (`Permit`), and neither has any after the workers were awaited (`Decided`).
  The bound then is the length of the window, as a cardinality. `Blamed` says that a
  recorded stop names a unit whose own preparation or encode failed.
- `GateKeepsSlots` (`GateExclusion`, `GateAccounts`), `GateTypeCorrect` (`GatedFiles_proofs`): the
  exclusion is not inductive, because the gate reads its own fields and not its
  callers; the invariant adds that the fields say who is inside.
- `NothingIsOverwritten`, `BatchAlwaysReported`, `FilesTypeCorrect` (`GatedFiles_proofs`).
  First what `Renamed` does to any tree (`RenamedTo`, `RenamedTree`, `RenamedKeeps`): when
  the target is under no part of the source and no folder is there, the result is a tree,
  and a free target costs no file. Then `FileInv`. The report speaks of items that were
  moved; what makes it inductive is the items that were not yet: each is where it was
  unless another program touched it or an item above it went (`SourcesStay`), and the next
  one was carried by none (`NotCarried`, from `planItems`). Where an item landed, nothing
  of the batch comes again, since a batch fills the recovery directory and reads the
  member (`ItemsLanded`, `Shape`). A claimed step is for the next item and, if nobody
  else was there, can still be done (`StepFits`). `OutsideStays` and `InventoryFollows`
  say of every path what the scopes that were read owe the inventory.
- `TablesAlwaysAgree`, `AnswersAlwaysHold`, `SessionsAlwaysKeepOrder`
  (`SessionsAlwaysEndOnce`, `AlwaysCreatedAsValidated`), `LifecycleTypeCorrect` (`OperationLifecycle_proofs`). A
  request is right about what it read long before it writes, so the invariant says
  what of it still holds. `Answered` follows each request: the key of the session it
  will be answered with (`SharesKey`), the plan and the draft an execution was
  validated for (`CarriesPlan`), how far a cancellation got with its row (`Cancels`: not
  queued after the first update, flagged after the second if it runs). `Tables` adds
  what the insertions rest on: sessions are numbered without gaps (`Numbered`),
  whatever has a plan completed and a retired execution has none (`PlansCompleted`),
  one row holds a key (`KeyHeldOnce`). All of it survives the steps of others because
  rows only move forward (`PlanningForward`, `ExecutionForward`, `VersionForward`), which
  is proved once (`Forwards`) over the eleven steps that write a row (`StepKinds`) and
  used for every request that does not act (`Bystander`).
- `AudioAlwaysSurvives`, `RecoveryAlwaysKept`, `RunIsAlwaysReported`,
  `ComponentTypeCorrect` (`ComponentRun_proofs`). That a content is somewhere says
  nothing of where the next step must not put another, so `ComponentInv` says where
  everything is at each statement of `Commit`: which targets have landed, which one is
  being replaced and what holds its old content meanwhile (`TargetsFollow`,
  `AsideFollows`, `BinFollows`), which staged files are left (`StagedFollow`), and which
  entry of the report names each of them. `SoftKeeps` is what the recovery folder owes
  for every step committed. Tags tell contents and names apart, so no theorem depends on
  how a recovery name is formed, only on what two attempts may share.
- `MergeTellsDisk`, `FailuresSettle`, `ScanTypeCorrect` (`ScanSession_proofs`).
  `MergesWhatItSaw` is about one step, and rests on everything since the scan began.
  `Carried` is what the scan has read: in a worker's hands, in the channel, in the batch
  or staged. `Truthful` says that all of it lies in the scope and is still so on the
  disk unless the file changed since; `Whole` is the frontier of the walk: a directory
  that was found is listed, being listed or still to come, and an entry of a listing
  that is not left in it was found or was absent. `Goroutines` says why a walk or a
  consumer ended, which gives a merge a walk that returned and a channel and a batch
  that are empty. `WholeScopeFound` then needs no induction along the tree: the
  directories the scan did not come to would be a set that holds every directory above
  any missing path, and so its own scope. `RowFollows` and `StagingFollows` carry the
  causes from the pipeline to the terminal row. No step of another scan, of a probe or
  of a merge touches what a scan carries (`Bystander`).
- `RecordsAlwaysAgree`, `AnswersAlwaysTrue`, `RecordsStayProtected`,
  `LibraryTypeCorrect` (`LibraryRecords_proofs`). That no two records replaced the same
  one is not inductive: the insert looks only at the current record. `Chained` adds what
  a chain is: a record somebody expected is gone, and a library that ever had a record
  and is there has one now. `Fits` says, step by step, what of a request's reading
  still holds when it writes: rows are never rewritten, so the record a key found answers
  that very request whatever became of it (`Found`, `Asked`). A rename that was accepted
  left the version above the one it was based on, and versions only grow, so a second one
  cannot pass the guard. For the action properties `WhoWrites` condenses `Next`: which
  steps take a record away or write a root at all; each of them looks at the sessions or at the records in
  the same transaction.
- `EditorsAlwaysKnow` (`BasesTellDocument`, `MemberPagesEditTheirs`), `SavesTouchTheirTarget`,
  `DraftTypeCorrect` (`ConversionPlanning_proofs`). None of the three properties is
  inductive: each speaks of the moment two versions are equal, and the steps
  between only keep inequalities. `DraftInv` adds `Told`, which follows a version
  through everything that carries it (a read on its way, a cached draft, a
  session, a save that is sent, accepted or answered): it is one the operation
  has reached, and where it is the operation's own, the document goes with it,
  outside the target for a save on its way. A version that is behind can only
  meet the operation's by being read again. `SessionsFit` says which session a
  page can show: no page that offers inheritance shows the common session, so
  the common settings are never made to inherit, and a member's page shows its
  own. `SavesTouchTheirTarget` is then one step from `Told` at the guard of
  `SaveDraft`. The proofs are laid out by the actions of `Next`.
- `PlanAlwaysHolds`, `NothingRemovedUnreplaced`, `PlannerTypeCorrect`
  (`ConversionPlanning_proofs`). Three levels. A stem: what either table builds, removes
  and keeps of it adds up to its declared shape, with one encode for each output, from
  its own files to a place that nobody else holds (`StemPlan`, for the strict table in
  `StrictStem`, for the relaxed one in `RelaxedStem`). A component: the stems add up
  (`Assembled`), so an outcome is blocked and has no operations, or takes the files of the
  component to the projected ones (`PlannedFor`). The root: `PlannerInv` says that the
  inventory is, at every moment, the planned one with the components that ran replaced by
  what they projected (`Follows`). No run disturbs another, because nothing of one
  component is linked to anything of another, targets included (`AreasApart`). Then
  each part of `PlanHolds` follows: what is there is what was projected
  (`AppliedAndShaped`); no target is in the way when a component's turn comes
  (`NothingInTheWay`, `ExecutableHolds`); planning again gives the same row wherever
  nothing ran, since a row depends on its own files alone (`RowSame`), and nothing to do
  where something did, since a file a run wrote satisfies its target by its rate or its
  credential (`GeneratedSatisfies`, `SettledRow`): here the floors of the bands are
  compared with what the encoders write, at every bit rate. `PlanAlwaysHolds` assumes
  `OneSpelling`, since an `.aac` variant cannot be rebuilt in place (section 5);
  `NothingRemovedUnreplaced` and `PlannerTypeCorrect` do not. A component is defined as
  the least closed set around a file, so that no step needs an induction along links.
- `StreamAlwaysTells`, `StreamTypeCorrect` (`SessionStreams_proofs`). That a client
  which was told the end has everything says nothing of one that is still being told.
  The invariant speaks of what was sent and what was read together (`Told`): with the
  cursor, the results told are those below it and those of the snapshot
  (`CursorTellsAll`), the results on the wire ascend and are not in the view yet
  (`TellsOnce`, `ListedInOrder`), a snapshot comes before anything else
  (`SnapshotFirst`), nothing comes after the end (`EndLast`), and an end on the wire
  leaves nothing untold behind it (`EndTellsAll`), because a session that ended records
  nothing more (`EndStands`). One lemma says how each kind of step moves this (a worker
  that writes, events that are sent, an event that is read); a broken connection starts
  again at nothing. A result recorded between the snapshot and the cursor is the one
  that may be missing, and `unseen` names it.
- `OneStreamIsFollowed`, `CachesSayTheEnd`, `PageTypeCorrect` (`SessionStreams_proofs`).
  A loop that runs is the store's because attaching is refused while the store streams
  and only the end of the loop lets go of it. For the caches, `EndIsTold` says why the
  store says that a session ended: it did, and one stream told it. While that stream has
  not been synchronised (`ToldTheEnd`) nothing is owed; when it is, every cache
  of the session is dropped, says the end, or is mounted and asked again
  (`Calibrated`), and a late answer invalidates what it writes.

Every safety and action property a run checks is stated by a theorem. Only
model-checked: liveness (`SessionEnds`, `EverySessionIsTaken`, `ScanEnds`,
`StreamIsOver`), which the prover does not reach.

## 5. Disagreements met while modelling

The following promises are definitions at the end of their modules. None of them
is checked by a run; naming one as an INVARIANT (or PROPERTY, where it
speaks of steps) in a copy of the given configuration makes TLC show the behaviour.

| definition | configuration | what the code does, and what promises otherwise |
|---|---|---|
| `FirstErrorDecides` (`ExecutionSession`) | `ExecutionSession.cfg` | a result that cannot be written ends the session with its own code although a sibling's error was recorded first; `requestStop` promises that the first recorded error decides |
| `ScanNeverOverlapsExecution` (`AdmissionGate`) | `AdmissionGate.cfg` | a full scan and an execution check for each other before either is registered; `workset/execution_worker.go:38-40` says they never overlap |
| `PlanningWaitsForExecution` (`OperationLifecycle`) | `LifecycleSafety.cfg` with `Workloads <- PlanningsAndExecution`, `Requests = {1, 2, 3}` | a planning request looks for executions several statements before its insert, which asks nothing again, and enqueues beside one; `workset/generation.go:125-126`. The same gap lets two planning requests without a common key enqueue side by side |
| `DraftStillUnderSessions` (`OperationLifecycle`) | `LifecycleSafety.cfg` | a save looks for sessions before its write, which is guarded by a version that enqueueing does not move; `workset/draft.go:71-72` |
| `RetryObservesItsSession` (`OperationLifecycle`) | `LifecycleSafety.cfg` with `Workloads <- RetriedTwice` | several rows may bear one idempotency key once one of them ended without a plan, and the query returns any of them; `workset/generation.go:50-53` |
| `PatchAppliesFieldsPresent` (`LibraryRecords`) | `LibraryRecords.cfg` | a patch of the name only writes back the root it read, and undoes a change of the root made since, without the slot; `docs/api.md:99` says only the fields present are applied |
| `ScanStateIsOfThisRoot` (`LibraryRecords`) | `LibraryRecords.cfg` | a scan goes by the root it read before it was admitted and records its outcome by the library's id, so the scan of a former root marks the library as scanned; `docs/api.md:99` |
| `RecordIsAtItsLibrarysRoot` (`LibraryRecords`) | `LibraryRecords.cfg` | a creation reads the library's root long before its transaction, which does not look again, and may create the record at the former root; `repo_library.go:105` |
| `AmbiguityBlocks` (`Reconcile`) | `Reconcile.cfg` | a strict rebuild of a lossless lane encodes the first of several equivalent sources and removes the others; `docs/api.md:568` says ambiguity blocks in both modes |
| `EveryTargetHasSpec` (`Reconcile`) | `Reconcile.cfg` with `Scenes <- AacScenes`, and `MCReconcile` without its assumption | a strict rebuild replaces an `.aac` file in place, an extension no encoder spec has, and the precheck refuses the component the plan called OK; `component_precheck.go:184` |
| `LostCredentialRebuilds` (`Reconcile`) | `Reconcile.cfg` | a lost credential costs no rebuild where the measured rate satisfies the band, and an Opus output can be blocked instead; `conversion/prepare.go:145-147` |
| `CursorSkipsNothing` (`ExecutionStream`) | `ExecutionStream.cfg` | a result recorded between the snapshot and the listing that sets the cursor is never sent; `execution_subscribe.go:52-55` |
| `PanelShowsItsOwn` (`SessionPage`) | `SessionPage.cfg` | while the one store streams a session, the page of another operation shows that session's view; `use-operation-context.ts:78-80` |
| `CancelingWasAsked` (`SessionPage`) | `SessionPage.cfg` | `attach` leaves `cancelRequested` as the previous session set it; `workset-execution.ts:70-73` |
| `SavesReportConflicts` (`DraftEditor`) | `DraftEditor.cfg` with `MaxSaves = 3`, `Budget = 3` | a save is answered with the version a later read finds; an edit made before the draft is read again passes the guard and removes another client's change; `workset-editor.ts:124-125` |
| `PageEditsItsTarget` (`DraftEditor`) | `DraftEditor.cfg` | the settings page ignores a refused `open` and edits the session of a member, and the batch page goes on with a batch of other members; `workset-editor.ts:58-60` |

What the models show besides. The fallback rename of a filesystem without
`RENAME_NOREPLACE` may replace a file that appears between its look and its
rename (the stated exception of `NothingOverwritten`; `fileops/ops.go:88-91`
says no name is clobbered). A recycled file named like a directory of the member
blocks the recycling of that directory's children. A page whose `attach` is
refused because another session streams does not attach when that stream ends
(`ConversionPage.vue:323-331`). A save's answer clears the edits a browser made
while it was on its way, which the restore buttons of the settings page allow.

## 6. What could follow

What is modelled is proved, but for liveness. What follows is breadth: the reads of
section 7 against the writes that race them, the planning stream beside the
execution stream it resembles, and the extension tags that split a stem between the
partitions, for which `PlanHolds` says only that a planned target is free.

## 7. Not modelled

- Revisions and the lists of records and operations: reads, and single guarded inserts.
  The overview of a library and the browsing of directories: reads. Retention: which terminal rows the maintenance
  pass deletes, and its budgets; only its slot is modelled.
- The planning stream (`subscribe.go`), the scan and planning stores: each follows
  one row or one request, without a cursor.
- Normalisation of the single units of a draft, tags, catalogs, path
  normalisation, fingerprints: text and table algorithms without interleavings.
- Decoding and encoding of HTTP, settings, the external encoder (its outcomes are
  choices), database opening and pragmas, formatting and logging, routing and
  presentation in the frontend.
- The bounded shutdown: it is a crash at any step, which is wider.

`PROJECT.json` lists every component with its status and, under `hazards`, what
is hard to test in this code and which property covers it.
