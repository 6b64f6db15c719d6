# HOPE deduplication engine: TLA+ models and proofs

The engine receives batches of images (a *deduplication set*), computes a face
embedding for each, and reports pairs that look alike. It is a Django/DRF
application with Celery workers and a PostgreSQL database. This directory holds
TLA+ modules of its control, TLC configurations that check them on small
instances, and TLAPS proofs for instances of any size.

Paths below are relative to `src/src/hope_dedup_engine/apps/` unless they start
with `src/`.

## 1. Inventory

| Part | State it keeps | Operations | Hard behaviour | What makes it correct |
|---|---|---|---|---|
| Deduplication set (`api/models/deduplication.py`) | `state`, `error`, `log` of the row | `set_state` with its transition table; a partial unique index gives one set of a group the active slot | `set_state` checks the object in memory, not the row, and changes the object before the row | only listed transitions reach the row; one active set; final states are final |
| Group (same file) | `processing_locked`, `deleted`, `settings` | `acquire_processing_lock`, `release_processing_lock`, `update_settings`, `soft_delete` | the lock outlives requests, tasks and processes | the lock is set exactly while somebody will release it, or its run was lost with it |
| Set API (`api/views.py`) | none of its own | create, upload, `ready`, `process`, `approve`, `reject`, `clear` | every endpoint reads the set, checks, and writes later without a lock on the set | what was checked still holds when it is acted on |
| Group API (`api/views.py`) | none | `config`, soft delete, `status` | `config` holds the row of the group, not the rows of its sets | settings and embeddings fit each other; deletion never meets a run |
| Processing job (`api/deduplication/process.py`, `api/models/jobs.py`) | the `MainJob` row; in memory: job, set, log, group | `find_duplicates`: encode, compare, log, notify; cancellation; error handlers; `finally` | long; may be cancelled, fail, be killed or die anywhere; a write of a handler may fail; started again from the beginning only when the whole worker died | every run that is not lost ends its set's in-progress state, logs itself, releases the lock; what a lost one leaves is known |
| Broker (`src/src/hope_dedup_engine/config/fragments/celery.py`) | task messages | late acknowledgement, visibility timeout of 30 minutes | a message is delivered again when its worker died, or is only slow; one whose process was killed is acknowledged by the worker and gone | a redelivered run does no harm and finishes |
| Admin site (`api/admin/`) | none | forced states, jobs from any state, unlock, change forms, job termination and requeue | bypasses the transition table and partly the lock; a form saves what it showed | which of its operations break the lock, and that no other does |
| Face encoding (`faces/services/facial.py`, `quality.py`) | embeddings, status codes, quality scores, error findings | `encode_faces`, `process_encoding`, `encode_face` | one row at a time while uploads, clears and settings changes go on | each image ends with an embedding or one error finding, under the current settings |
| Duplicate search (`facial.py`) | findings | `load_encodings`, `find_duplicate_pairs`, `dedupe_all` | chunked loop over indices; count and iteration are two queries | exactly the pairs over the threshold, each once |
| Cleanup (`api/celery_tasks.py`) | none | batched deletion of old findings and rejected sets with their jobs | races forced state changes | reference data stays; a lock left behind is accounted for |
| Model files (`faces/managers/file_sync.py`, the `syncmodels` command) | files, lock files | look, lock, download, validate, unlock, remove the lock file | several containers share the directory and may die in it | one writer per file; a command that reports success leaves whole files |
| Migrations (`api/migrations/`, `security/migrations/`) | the schema, the rows they rewrite, `django_migrations` | schema changes and data functions | many releases of data; two applications that depend on each other; four migrations run outside a transaction | an upgrade ends with the schema of the models and keeps what the rows meant |
| Upgrade and deployment (`core/management/commands/upgrade.py`, `src/compose.yml`, `src/docker/bin/docker-entrypoint.sh`) | accounts, applied migrations | checks, models, static files, migrate, superuser, groups | several containers upgrade at once and are started again when they halt | whoever completes can serve; the rollout ends |
| Notifications (`api/utils/notification.py`) | none | one POST per state change, retried by the session | duplicates, order, exceptions that are not caught | a failed delivery never fails the run |
| Progress, settings, thread state, serializers, exports | little | pure helpers | none to speak of | the functions compute what they say |

**How they interact.** A request of the API reads a set, may take the lock of the
group, moves the set and puts a job in the queue (`process`). The broker hands the
message to a worker; `find_duplicates` loads the rows once, works on these copies,
writes states through `set_state`, and releases the lock in its `finally` block.
Everything shared is a row of the database or a message of the broker; PostgreSQL
runs at READ COMMITTED with one transaction per statement unless the code opens one.
Before any of this, each release brings the database and the model files up to date:
several containers run `upgrade` or `syncmodels` at the same time.

`PROJECT.json` lists the components with their status and every hazard at its line.

## 2. Modules

| Module | What it is |
|---|---|
| `DeduplicationSet` | vocabulary: states, `VALID_TRANSITIONS`, processable, blocking and cancelled states |
| `GroupLifecycle` | abstract specification: what a group promises, without lock, jobs or copies |
| `DedupEngine` | the engine: requests, broker and workers over the shared rows |
| `AdminEngine` | extends `DedupEngine` by the admin site and the cleanup |
| `ImageAnalysis` | one image: configuration, quality check, embedding |
| `PairSearch` | the chunked search for pairs, and the set of pairs it stands for |
| `GroupData` | composes the last two: images, embeddings, findings and settings of a group, and everything that writes them |
| `Database` | what schema operations do to tables, rows and constraints (external, from its use) |
| `Migrations` | the 86 migrations: dependencies, operations, data functions |
| `Schemas` | the schema alone: what an operation needs of it, makes of it and may be refused for; the tables of the models |
| `SchemaEvolution` | abstract specification: what `migrate` promises of the schema, with the rows left aside |
| `SchemaUpgrade` | `SchemaEvolution` of the 86 migrations, as a system of its own |
| `Upgrade` | `migrate` over the life of an installation: schema and rows |
| `FileSync` | `syncmodels`: files and lock files of several processes |
| `Deployment` | extends `FileSync`: several containers that run `upgrade`, restarted when they halt |
| `DedupEngineProofs`, `DedupLockProofs` | the engine's types; the lock as a token, the log, the owner of a set in progress |
| `LifecycleProofs` | the engine of a waiting client implements `GroupLifecycle` |
| `AdminEngineProofs` | the same with the admin site and the cleanup beside the engine |
| `GroupDataProofs` | the chunked search is complete; what an image is saved with, what a comparison reports, types, reference data |
| `GroupFindingsProofs` | embeddings, errors and pairs of undisturbed sets |
| `DeploymentProofs` | the file locks and the rollout |
| `UpgradeProofs` | the upgrade of any installation keeps its tables sound and implements `SchemaEvolution` |
| `MC…` | the TLC instances |

### How DedupEngine corresponds to the code

* `state[d]`, `log[d]` are the columns of set `d` (`None` while the row is absent;
  a log is its number of entries), `locked` and `deleted` those of the group,
  `job[j]` a row of `MainJob` (set, `encode_only`, whether termination was asked
  for), `msg[j]` where the broker has its message.
* `req[h]` is a request between its reads and its writes: `seen` is the state the
  request's object has. `Receive` is `get_object` and the check of the endpoint;
  `Upload`, `Ready`, `Approve`, `Reject`, `Clear` are the writes; `process` goes on
  with `Acquire` (one conditional UPDATE), `Start` (the transaction) and `Queue`.
  `ConfigRead`/`ConfigCommit` bracket the transaction of a settings change, which
  holds the row of the group: `RowFree` makes every other writer of that row wait.
  `processing_locked` is set and reset inside that transaction and never seen.
* `run[w]` is a task: `mem` is the state its object has, `log` the log it loaded.
  `Deliver` reads the rows; `Begin`, `Encode`, `SetEncoded`, `StartDedupe`,
  `Dedupe`, `SetDeduplicated`, `AppendLog` are the try block; `StopCancelled` and
  `Fail` the two handlers; `Release` the `finally` block; `Ack` the late
  acknowledgement. `Advance` is `set_state`: a transition the copy does not allow
  raises; a row the unique index refuses raises *after* the copy changed.
* What goes wrong in a run has an action for each place: `LoadFails` (the queries before
  the `try` block: no handler and no `finally` follows), `Raise` (a statement of the try
  block, or the notification or log of a handler), `WriteFails` (`save` of `set_state`:
  the object has moved and the row has not; in a handler only the `finally` block
  follows), `ReleaseFails` (`save` of `release_processing_lock`: nothing follows) and
  `Kill`. A task that raises is acknowledged like one that succeeds, so the message of a
  run that ended without releasing the lock is not done but `"lost"`.
* `stranded` is a history variable: sets whose last run gave them up in progress
  (`GiveUp`), because it was killed or could not write the failed state. The next job on
  the set takes it off. A lost job and a stranded set are the two things
  `LockMatchesWork` and `InProgressIsOwned` except, and what
  `src/docs/src/admin/operations.md:50` gives the operator a button for.
* `Fits` is the partial unique index. A request that runs into it answers with an
  error and leaves the row; a run that does goes to its handler.
* Notifications change nothing and are left out; one that raises is the fault
  `exception`. Images, embeddings and findings are in GroupData.

Faults are explicit and counted: `request` (the web process dies, or `job.queue()`
raises, with the lock taken), `crash` / `done_crash` (the whole worker dies before / after
its set is Deduplicated: its node goes, or it is stopped without mercy), `late_crash` (it
dies after the `finally` block, before the acknowledgement), `killed` (only the process of
the pool that executes the task is killed, for instance for its memory), `early` (the
visibility timeout ends while the task runs), `exception` (a statement other than the two
computations raises, the writes of the handlers and of the `finally` block included; the
computations may raise at any time without being counted). A configuration names the
faults it admits, so each run says under which conditions its properties hold.

A crash and a kill differ in who is left. `src/compose.yml:62` starts a worker with a pool
of processes, and tasks are acknowledged late without `task_reject_on_worker_lost`
(`src/src/hope_dedup_engine/config/fragments/celery.py`). When a process of the pool is
lost, its parent records `WorkerLostError` and acknowledges the message: nothing is
delivered again and no `finally` block runs. When the parent is lost too, nobody
acknowledges, and the broker delivers the message again after its visibility timeout:
`Redeliver`.

### How AdminEngine corresponds to the code

`adm[a]` is an admin request between its reads and its writes. `AdminAcquire`,
`AdminStart`, `AdminQueue` are `_make_job_action` (`api/admin/deduplicationset.py`): the
lock like `process` takes it, the state forced, the lock given back on an
`IntegrityError` only; `AdminLose` is its death, or a queue that raises. `AdminForce`
is Clear Embeddings and Remove findings. `OpenForm`/`SaveForm` and
`LoadSettings`/`SaveSettings` are the change forms of a set and of the group's settings,
which save what they loaded: the state of the set, the lock and the deletion mark of the
group. `Unlock` and `Requeue` are buttons. `Collect` and `Sweep` are the last part of
`cleanup_redundant_data`: the sets are collected, then deleted by their keys, job rows
with them. `DropMessage` and `StopGone` are what becomes of a message or a run whose job
row is gone: `MainJob.objects.get` is before the `try` block (`process.py:110`), so the
lock stays. `EngineStep` is any other step of `DedupEngine`, the faults of a run included.
`Unlock` also settles a lock that a dead request or a lost job had left: nobody holds it
any more (`"lost"` becomes `"done"`), and a later lock is accounted for anew. `Requeue`
queues a job that is over, a lost one too.

Four history variables say what a person did: `overridden` (the lock was released under a
run, taken back or bypassed by hand), `adrift` (a set whose state a form wrote back),
`stuck` and `gone`. The properties use them to name the exact exceptions, so that a
mistake anywhere else shows.

### How GroupData corresponds to the code

`row[d][k]` is a row of `Encoding` (filename, embedding, status, cached scores),
`finding` the table of findings, `settings` the group's. An embedding is named by the
image and the settings it was made from, so that a stale one can be told from a fresh
one. A request is as many steps as it has transactions or reads another request can come
between:

* an upload, `BeginUpload` (the state is checked) and `FinishUpload` (the rows are written);
* a clear (`api/views.py:258`), `ReadClear` (the set is read; an approved one is not
  found), `DeleteEncodings` and `WriteEmpty`, each committed by itself;
* a settings change (`api/models/deduplication.py:91`), `CheckSettings` (no approved set),
  `ReadActiveSet` and `CommitSettings`. This is one transaction, which holds the row of the
  group, so `Create`, `Process` and another change wait (`GroupIsFree`); `approve` and
  `reject` do not need that row and may come between any two of its steps;
* `ready`, `process`, `approve` and `reject` write once. `BeginLate` lets one of them be
  late: it has read its set, and its write (`Admitted`) comes after whatever others did to
  the set meanwhile. The others write what they read.

`RequestFails` ends any of them between two steps. A run goes row by row: `ReadImages`, `EncodeImage` (row and finding in one
transaction; `save(update_fields=...)` leaves the filename of the row alone),
`SetEncoded`, `StartDedupe`, `CountEmbeddings`, `Compare`, `SetDeduplicated`, `Raise`,
`Fail`, `Finish`, `Restart` (redelivery), `Killed` (also a handler whose write fails).
`Compare` has two outcomes when rows vanished
between the count and the iteration of `load_encodings`: an error, or pairs of what was
read. `Admin…` are the buttons with their effect on the data, `Cleanup…` the three parts
of the cleanup.

`disturbed` is a history variable: sets whose data was changed beside their own uploads
and runs, by something that neither the code nor the documentation says how to repair: a
late upload; a request that writes after its set has left the state it read (`Overtaken`);
a clear or an admin action under a run; a clear that writes Empty over a set that was used
again meanwhile; an approval while a settings change is under way (the approved set then
has embeddings of the old settings), or a late one; a settings form that ignores
embeddings; a failed set that kept the embeddings of older settings. A set that is cleared
and has nothing left is settled again. The properties are
about the other sets, and the action that disturbs a set says why. Each way to disturb is
a case the code leaves inconsistent; section 3 lists them. `ReferenceDataStays` does not
ask for a settled set. Its one exception is a clear that had read the set before it was
approved: that clear does take the embeddings of an approved set.

`ImageAnalysis` counts in integers: settings and scores between 0 and 1 are hundredths;
`from_deduplication_set` multiplies the duplicate and the quality thresholds by a hundred,
`as_dict` divides them again. What OFIQ and DeepFace say about an image is a constant.

### How Upgrade, Migrations and Database correspond to the code

A migration is its dependencies, whether it is atomic, and its operations in the order of
the file; data functions are functions of the tables, under the names they have in the
code. Several operations of the same kind on one model that follow each other are one. A
table has a key, columns (nullable, unique, reference), uniqueness constraints with their
condition, check constraints, indexes and rows. A database in use by `migrate` is
`[tables, pending, ok]`: the tables, those with deferred checks queued, and whether the
transaction still stands. `Perform` carries out one operation and refuses what PostgreSQL
refuses: a duplicate, a NULL, a value that does not fit, an existing or missing index or
constraint, a table with pending deferred checks. `DROP INDEX` is `IF EXISTS`, as Django
emits it. `Performed` is the database after each operation of a migration; `Migrate` is a
migration in a transaction; `Begin`, `CarryOut`, `Finish` and `Killed` are one of the four
without (0029, 0030, 0031, 0034). `KilledInside` is a kill inside
`CREATE INDEX CONCURRENTLY`, which is an operation of theirs and no transaction of its own:
the index stays behind, invalid, under the name the next attempt wants. A seed is a history of an installation: the releases it
ran, and the rows written meanwhile. Where a data function orders rows by a date
and leaves equal dates open (0035, 0059), the model keeps one of the newest, whichever it is.

`Schemas` leaves the rows aside. `Fits` and `Change` are `Possible` and `Outcome` on tables
without rows; `MayRefuse` says which operations rows can stop: those that ask more of a
column or add a constraint (`Tightens`), and the data functions. `SchemaEvolution` is
`migrate` over such schemas, with `Apply` and `Stop` for a migration in a transaction and
`Start`, `Step`, `StopInside`, `Complete`, `Die`, `DieInside` for the others. It takes the migrations and
the three operators as constants, so `SchemaUpgrade` can run it alone and `Upgrade` can
implement it (`EvolvesAsItsSchema`).

### How FileSync and Deployment correspond to the code

`Look`, `LookLock`, `Probe`, `Probed` are `_should_skip_download`; `Acquire`, `Fetch`,
`WriteChunk`, `Downloaded`, `DownloadFails` the download under its lock; `Cleanup` and
`CleanupFailed` are `_cleanup_lock`, which removes the lock file after the lock was
released, whoever holds it by then. A lock is on the file that was opened (an inode), not
on its path: that is why removing the file lets a second process in. `Die` releases the
locks of a process and leaves its files. `Deployment` runs these steps inside
`_run_syncmodels`, and the other parts of `upgrade` around them, in the order of
`handle`; `Halt` is a part that fails, `RestartContainer` is `restart: always`
(`src/compose.yml:20`). A container without `ADMIN_EMAIL` needs a superuser that is there
already (`core/management/commands/upgrade.py:92`); in `FindSuperuser` a missing setting is
one of the counted failures, and matters only while there is no superuser. `migrate` is
external: it takes no lock and plans when it starts.

## 3. Runs

| Run | Instance | Shows |
|---|---|---|
| `engine_lock` | 2 sets, 2 jobs, 2 requests, 2 workers; all endpoints but `clear` and cancellation; 1 fault of `crash`, `done_crash`, `killed`, `exception`, `request` | `OneRunPerGroup`, `LockMatchesWork`, `InProgressIsOwned`, `DeletedIsQuiet`, `LogAppendOnly` |
| `engine_serial` | 2 sets, 2 jobs, 1 request, 2 workers; all endpoints but `clear`, with cancellation; 2 faults of `crash`, `killed`, `exception`; a client that waits for a full run | `TypeOK`, `MemoryIsFresh`, `FinalIsFinal`, `ImplementsLifecycle` |
| `engine_recovery` | 1 set, 1 job, 1 request, 2 workers; with `clear`; 2 faults of `crash`, `done_crash`, `late_crash`, `killed`, `early`, `exception`; fair | `LockIsReleased`, `InProgressEnds` |
| `admin_engine` | 2 sets, 2 jobs, 1 request, 2 workers, 1 administrator with 2 operations of any kind; 1 fault of `request`, `killed` | `AdminTypeOK`, `OneRunUnlessOverridden`, `LockIsAccounted`, `InProgressIsAccounted`, `DeletedStaysQuiet`, `LogKeptUnlessOverridden` |
| `group_data` | 2 sets, 2 references, 3 pictures, 2 settings, chunks of 1, 8 scenarios | `TypeOK`, `EveryImageAccounted`, `FindingsAreComplete`, `EmbeddingsAreComparable`, `ReferenceDataStays` |
| `upgrade` | 58 histories of an installation, every order of the migrations, crashes between and inside the operations of the four | `UpgradeTypeOK`, `UpgradeStopsOnlyOn`, `ClearedWayIsOpen`, `SchemaIsTheModels`, `LiveSetsKeepTheirReference`, `NewestImageSurvives`, `TokensStayValid`, `EvolvesAsItsSchema` |
| `upgrade` (second part) | no rows and no bound: every order of the migrations, every stop rows may cause, every crash inside the four | `EveryOperationFits`, `TheWayIsClear`, `EvolvesToTheModels` |
| `deployment` | `backend` and `setup` upgrade, `pod` synchronizes by force; 1 file of 2 chunks, 2 migrations, 2 starts each, 1 fault; fair | `DeploymentTypeOK`, `OneWriterUnlessUnlinked`, `SyncedFilesAreWhole`, `ServesWhatItNeeds`, `RolloutEnds`, `SomeUpgradeCompletes` |
| `engine_stale_process` | no fault | `ProcessFromProcessable` is violated |
| `engine_final_race` | no fault, 2 requests | `FinalIsFinal` is violated |
| `engine_crash_terminal` | 1 `crash`, fair | `FullRunIsTerminal` is violated |
| `group_stale_errors` | the storage fails | `ErrorsAreCurrent` is violated |
| `migration_states` | the histories of `upgrade` | `StatesAreMapped` is violated |

*Bounds of the engine.* Two sets are needed for the unique slot, two jobs for a second
run after the first or against it, two requests and two workers for every race between a
pair; a third of a kind repeats the role of one of the two in every property here, each
of which names at most two. `MaxFaults` bounds faults, `Jobs` the runs ever started (a
`process` beyond that is answered like one that finds the group busy), and nothing else
grows: a log gets one entry per delivery. The lock properties are proved for any size
(section 4). In `admin_engine` the administrator acts twice (`MaxAdmin`): enough for each
operation to be followed, undone or met by another, with the one request between them; a
set, a lock and a job are touched by at most two hands in any of its properties. A change
form of a set is opened while the set is in progress (ENCODING_IN_PROGRESS) or waits for its
judgement (`FormsOfInterest`), and saved whenever the administrator likes: these are the
states whose return breaks something. The proofs have forms opened in any state.

*Bounds of the data.* Three pictures give every verdict: a good face, the same person too
blurred for the stricter settings, nobody. Two sets give a reference set and one that is
compared with it; two references with chunks of one put every pair on a chunk boundary.
The second set offers nothing under its second reference, because a pair inside a set is
already in the first. `Scenarios` lists which of the rarer actors take part together (all
of them at once do not fit); uploads, runs, failures and judgements are always there. A
behaviour is followed until both sets are disturbed, in three larger scenarios until one
is (`SomeSettled`): nothing is said of a disturbed set, but as long as one set is settled
its partner may be anything. The proofs have every actor at once and no such bound. The
search is proved for any sizes, so the run need not vary them.

*Bounds of the upgrade.* A history is a fresh installation, one used before systems and
groups existed (0020), one with groups (0058), or one of the last release before the
states were renumbered (0069), each with the few rows its data functions tell apart, in
every combination that matters: same or other reference and system, deleted or not, a
user with or without a system, every old state, an inline image or not, a key that is
taken or not. In the deployment one file of two chunks can be whole, partial or empty; two
migrations let one container be ahead of another's plan by one or by all.

*No bound of the schema.* The second part of `upgrade` is `SchemaUpgrade`, which
`MCSchemaUpgrade` puts beside the installations as a system of its own: while one is at
work the other rests in its initial state. It has no constant that could be larger: its
814 states (of the 30,346 of the run) are all there are, for the 86 migrations as they
stand. Its invariants are therefore established, not sampled, and the theorems of
section 4 carry them over to every installation.

*Where deadlock is not checked.* When nobody calls, the engine rests; an upgrade ends;
containers are started a bounded number of times.

*The waiting client* (`Patience`). With overlapping requests `FinalIsFinal`,
`MemoryIsFresh` and the refinement fail, as the violated runs show. `engine_serial`
shows that this is the only reason: with one request at a time, and a client that
polls as `src/docs/src/integration/notifications.md` describes and does not call
`process` again in the passing Encoded state of a full run, the engine implements
`GroupLifecycle`. A settings change or a deletion may still come at any time.

*The refinement.* `CurrentSet` maps the engine to the abstract run: the set of the
job that was created and whose lock is not released yet. Requests, broker and copies
disappear; a crash of the worker and the redelivery are stuttering steps, `Release` is
`EndRun`. A run that is killed, or whose handler cannot write the failed state, is a step
of the abstract system too (`GiveUp`): the set stays in progress and is stranded, and the
group stays busy until an operator releases it. So the refinement does not claim that runs
end; `InProgressEnds` says when they do.

*Fairness.* `FairSpec` has weak fairness of the steps of a received request (a web
server serves it to its end), of the steps of a task on a live worker, of `Deliver`
(an idle worker takes a waiting message) and of `Redeliver` (the broker's timeout).
None for clients: nobody has to call. None for a cancellation or any failure (`Raise`,
`LoadFails`, `WriteFails`, `ReleaseFails`, `Kill`, `Crash`). With a lost job nothing
releases the lock, so `LockIsReleased` ends in that case, and `InProgressEnds` in a
stranded set.
`DeploymentSpec` has weak fairness of each container's own steps, its restart included
(`restart: always`), and none of a kill or a failure.

### What the violated runs say

`PROJECT.json` "findings" quotes the line each run refutes. In short: `process` decides
by a copy it read before the lock (`api/views.py:113`); `approve` and `reject` are
unconditional writes (`api/views.py:147`, `165`); a worker that dies in the passing
Encoded state leaves a set no redelivery can move (`api/deduplication/process.py:129`); an
error finding outlives its error (`faces/services/facial.py:150`); migration 0070 moves
every set that was not inactive to Rejected.

### What else was met

Without a run of its own, because another run names it as an exception, or because it
follows from reading the code:

* `clear` brings a rejected set back to Empty (`api/views.py:261`), which
  `src/docs/src/concepts/lifecycle.md:60` calls final. It deletes the data before it
  writes the state: when the slot is taken, the set keeps its state without its images.
* A process of the pool that is killed leaves the lock set and its set in progress, and
  nothing in the system releases them: the message was acknowledged. A failed
  write of a handler (`api/deduplication/process.py:159`, `161`) leaves the set, a failed
  `release_processing_lock` (`process.py:167`) the lock, likewise a failed query before the
  `try` block. `src/docs/src/admin/operations.md:50` and `:57` describe the stuck lock and
  the button that releases it; the set has to be forced or processed again by hand.
* A clear that has read its set deletes the images also when the set was approved
  meanwhile (`api/views.py:258`): reference data is gone, and the set Empty again.
* An approval between the check for approved sets and the writes of a settings change
  (`api/models/deduplication.py:91`, `104`) is not seen. If it comes before the change reads
  the set it will clear, the approved set keeps embeddings of the old settings; if after,
  the set is put back to Ready.
* A task longer than the visibility timeout (30 minutes,
  `src/src/hope_dedup_engine/config/__init__.py:103`) is delivered to a second worker while
  the first goes on, and does not ask for the lock: with the fault `early`,
  `OneRunPerGroup` does not hold. `engine_recovery` shows that the lock is released and
  the state left even then.
* A worker that dies after Deduplicated makes the redelivered run repeat the comparison,
  also over an approval given in between; one that died in Deduplication in progress
  leads to Deduplication failed.
* A failed set keeps the embeddings of the settings it was encoded with when the settings
  change (`api/models/deduplication.py:126`), and compares them with new ones later.
* An upload under a known reference replaces the filename and keeps embedding and cached
  scores (`api/views.py:242`); the quality check then judges the new picture by the
  scores of the old one.
* The settings form of the admin site takes no lock and clears nothing; it refuses a change
  only while a set that is not in progress has embeddings
  (`api/admin/forms/group_settings.py:36`), so it goes through during a run.
  `src/docs/src/admin/settings.md:43` promises the rules of the API.
* The admin's single-image tool compares a percentage with the default threshold, which is
  between 0 and 1 (`api/admin/encoding/utils/process.py:35`, `57`;
  `faces/services/facial.py:53` scales it).
* Migration 0026 cannot be applied while a token belongs to a user without external
  system, 0039 while two systems use the same reference. A crash inside 0029, 0030, 0031
  or 0034 leaves an index or a constraint the next attempt trips over.
* The docstring of `FileDownloader.sync` (`faces/managers/file_sync.py:44`) calls it
  thread- and process-safe; after a lock file is removed under its holder two processes
  write the same file. They write the same bytes, so the file is whole unless one is cut
  short, and then it passes for synchronized until somebody forces it.
* `src/docs/src/integration/notifications.md:30` says delivery is not retried;
  `api/utils/notification.py` retries a request three times in its session.
* The Celery task `sync_dnn_files` cannot succeed (`faces/celery_tasks.py:29`).

## 4. Proofs

Each theorem holds for every value of the constants; the runs of section 3 check the same
formulas on small ones.

**The engine.** For any sets, jobs, requests and workers (the constants satisfy
`EngineAssumption`: `None` is none of the other values, endpoints and faults are
known ones):

| Theorem | Statement |
|---|---|
| `TypeCorrect` | `Spec => []TypeOK`, under every fault |
| `Invariance` | `Spec => []Inv`, no duplicated delivery |
| `OneRunPerGroupHolds` | `Spec => []OneRunPerGroup`, likewise |
| `LockMatchesWorkHolds` | `Spec => []LockMatchesWork`, likewise |
| `DeletedIsQuietHolds` | `Spec => []DeletedIsQuiet`, likewise |
| `LogAppendOnlyHolds` | `Spec => LogAppendOnly`, likewise |
| `InProgressIsOwnedHolds` | `Spec => []InProgressIsOwned`, likewise |

`TypeOK` is not inductive: `Deliver` reads the set of a job row and `SetState` the
set of a request. `Shape` adds the fields a program counter gives a meaning to, `Rows`
that rows named by a message or a queueing request exist; the two are inductive
together.

The lock is a token. `Delivery` says where the message of a job is: with the one
worker that executes it, or nowhere while the one request that created it is about to
queue it. `Exclusive` says who holds the token: one request (`Holds`) or one live job
(`Live`), exactly while `locked`. `Quiet` excludes deletion. `TokenOrFrame` splits the
steps into the ten that may move the token and those that cannot (`Frame`), and `Moves`
reduces all of them to five kinds (`Moved`): it stays, a request takes it, gives it back,
passes it to the job it queued, or a job releases it. `Exclusive` is kept by each kind,
whatever the action was. `NoDuplication` (no `early`, no `late_crash`) is necessary: with
`early` a second run of the same job begins while the first goes on (`OneRunPerGroup`
fails), and `late_crash` starts a run after its lock was released. All lock theorems
admit every endpoint, `clear` and cancellation included, and every other fault.
`LogFresh` (a run that has not logged itself holds the log the row has) gives
`LogAppendOnly`.

`InProgressIsOwned` needs more than the token: a run that gives the lock back must not
leave its set in progress. `Knowledge` says what a run knows: while the row is in
progress, the copy in memory agrees with it and the run has not come to its log. The
copy may run ahead of the row only when the unique index refused the row; then, by
`Slot` (one blocking set), the row is not in progress. `EntersProgress` and
`OwnedStays` do the rest: two actions put a set in progress, and an owner stays one
until the lock is released.

**The lifecycle.** For any number of sets, jobs and workers, and what `engine_serial`
checks on two of each:

| Theorem | Statement |
|---|---|
| `SerialInvariance` | `PatientSpec => []SerialInv` |
| `MemoryIsFreshHolds` | `PatientSpec => []MemoryIsFresh` |
| `ImplementsLifecycleHolds` | `PatientSpec => ImplementsLifecycle` |
| `FinalIsFinalHolds` | `PatientSpec => FinalIsFinal` |

`PatientSpec` is `Spec` with `Patience` a conjunct of every step; the run has it as its
action constraint. `Serial` is assumed of the constants: one request at a time, no
`clear`, and of the faults only exceptions and the death of a worker that has not brought
its set to Deduplicated. The hypotheses are those of the run and each is needed: with two
requests what one has read is stale when it writes (`engine_final_race`,
`engine_stale_process`); `clear` takes a rejected set back; a worker that dies with its
set Deduplicated comes back to a set that may have been judged since. With `clear` or any
other fault (`request`, `done_crash`, `late_crash`, `early`) added to its constants, TLC
finds a counterexample to the refinement or to `MemoryIsFresh` in `engine_serial`.

`SerialInv` adds to the engine's invariant that copies are current. `RequestsCurrent`:
what a request has read of its set is still so when it writes. `RunsCurrent`: a waiting
message names a set a run can take up, and what a run remembers of its set is the row, or
the row was judged after the run's last write. Neither is inductive alone, as a run moves
the set only of its own job and a request only one no full run has (`Patience`).

The refinement maps `CurrentSet`, a choice from `CurrentJobs`. `CurrentKept`,
`CurrentBeside` and `CurrentLocked` say when it stays, `CurrentOfLive` and
`CurrentOfNobody` what it is; `CurrentJobs` has at most one member by `Exclusive`. Then
`RequestImplements` and its counterparts for the run, the broker and the release map each
step to one of `GroupLifecycle` or to none. `FinalIsFinalHolds` is a consequence: no
abstract step moves a set that is approved or rejected.

**The admin site.** For any number of administrators and operations:

| Theorem | Statement |
|---|---|
| `AdminTypeCorrect` | `AdminSpec => []AdminTypeOK`, under every fault |
| `AdminInvariance` | `AdminSpec => []AdminInv`, no duplicated delivery |
| `OneRunUnlessOverriddenHolds` | `AdminSpec => []OneRunUnlessOverridden`, likewise |
| `LockIsAccountedHolds` | `AdminSpec => []LockIsAccounted`, likewise |
| `DeletedStaysQuietHolds` | `AdminSpec => []DeletedStaysQuiet`, likewise |
| `LogKeptUnlessOverriddenHolds` | `AdminSpec => LogKeptUnlessOverridden`, likewise |
| `InProgressIsAccountedHolds` | `AdminSpec => []InProgressIsAccounted`, likewise |

A step of the engine is a step of `AdminEngine` (`EngineStep`), so its lemmas are used
as they are. They are stated for rows that may be missing: `RowsBut(G)` and `Located(G)`
speak of the jobs outside `G`, which is empty for the engine and `gone` here. The token
has three more places: an administrator between the button and the queue, the request of
one whose process died, and `stuck`, a job whose row the cleanup deleted before its run
could release the lock. `OneToken` says it is in one of the five places exactly while
`locked`, and `Token` claims that until somebody overrides the lock. Types, `Delivery` and
`AdminDelivery` (a job about to be queued has no message, and one person queues it) do
not depend on it, so they hold whatever was overridden.

`InProgressIsAccounted` has no exception for an overridden lock, so its proof may not use
the token. `Mover(j)` is a job that will move its set on: it has its row and its lock, and
the run that executes it, if there is one, saw the set in progress and has not come to its
log. A run can stop being a mover only by moving the row, by losing its job row (and the
set with it), or by finding the slot taken, and then another set is in progress.

**The pair search.** For every number of images and every chunk size,
`SearchIsComplete` says that `find_duplicate_pairs` yields `AllPairs`, and
`ChunksAreDisjoint` that no pair is found twice. `RowHasChunk` finds the chunk of a row by
division, `ChunksApart` separates two starts, `PairsOfChunk` says what one chunk yields.

**The group's data.** For any finite set of sets and keys, any pictures, verdicts,
settings and scores (`GroupDataAssumption`: `None` is none of the other values, the keys
are numbers, in whose order `load_encodings` reads):

| Theorem | Statement |
|---|---|
| `GroupDataTypeCorrect` | `Spec => []TypeOK` |
| `ReferenceDataHolds` | `Spec => ReferenceDataStays` |
| `GroupInvariance` | `Spec => []GroupInv` |
| `EmbeddingsAreComparableHolds` | `Spec => []EmbeddingsAreComparable` |
| `EveryImageAccountedHolds` | `Spec => []EveryImageAccounted` |
| `FindingsAreCompleteHolds` | `Spec => []FindingsAreComplete` |

The first lemmas are about the functions. `BackToSettings`: the thresholds a run scales up
and writes down come back as they were. `Processed`: an image is saved with an embedding
or a status, never both, and a system error leaves what it had. `FoundAreMatches`: the
chunked search over the two sequences a run loads reports exactly the pairs over the
threshold between distinct images, whatever their order; it rests on
`SearchIsComplete` and on `LoadedLists` (the sequences list every embedded image once).

`TypeOK` is not inductive: the check constraint (an embedding or a status) needs that what
is left to encode has no embedding (`Left`), and the settings of a run need to be those
of a place in `find_duplicates` (`Pace`). `GroupShape` has both.

`GroupInv` says of every undisturbed set (`SettledSet`): its embeddings are those of its
files and the settings (`Current`); none while it takes uploads (`Fresh`); what its run has
read is what is there (`ReadCurrent`), its object and its row agree (`InStep`); the status
of an image is its one error finding (`Accounted`); after the encoding nothing is left
out (`Complete`); the count is right (`Counted`); the pairs reported are duplicates
(`PairsCurrent`) and, once compared, all of them (`PairsComplete`). There are over twenty
actions and nine conjuncts, so the steps are first reduced to what they do to one set:
`Turn` (its images and findings, ten ways), `Course` (its run, three ways) and `StateTurn`
(its state, four ways). Each conjunct is kept by each way.

What a set is compared with belongs to other sets, and the slot is why it stays:
`OneInSlot` (at most one set in a blocking state) and `DeduplicatedAlone` say that while a
set is compared or waits for its judgement, no other is approved or has a run, and
`NamesDisturbed` that no other set names its images in a finding. The set that is judged
is the one that held the slot.

**The file locks.** For any processes, files and chunks (`FileSyncAssumption`):
`SyncTypeCorrect`, `SyncLock` (`OneWriterUnlessUnlinked`) and `SyncWhole`
(`SyncedFilesAreWhole`). The inductive invariant `SyncInv` adds to the types
`HoldsItsFile` (a process holds the lock file its path names, unless that was removed),
`FilesSeen` (what a process has passed is on disk, and nothing removes a file) and
`LastWriter` (a file that is not whole has a writer that will finish it, or was cut
short). `FilesSeen` is needed for the first half of `SyncedFilesAreWhole`, `LastWriter`
for the second: a second writer empties the file, so the chunks the first has written say
nothing about its content, and the writer that emptied it last is the one to rely on.

**The rollout.** For any containers and any number of failures (`DeploymentAssumption`):
`DeploymentTypeCorrect`, `DeploymentServes` (`ServesWhatItNeeds`), `DeploymentLock` and
`DeploymentWhole`. `DeploymentInv` is `SyncInv`, the types, and `Progress(p)` for every
container: what it has passed is done (files once past the models, migrations once past
`migrate`, accounts once past their part). `SyncInv` is inherited: every step of a
container is a step of `FileSync`, its restart, or leaves the files alone; `Keeps` says
that the database is only ever extended, so another container's progress stands.

**The upgrade.** For any set of histories and any rows in them (`NoValueIsAValue`: `None` is
neither `Some` nor a number):

| Theorem | Statement |
|---|---|
| `UpgradeTypeCorrect` | `UpgradeSpec => []UpgradeTypeOK` |
| `UpgradeEvolves` | `UpgradeSpec => EvolvesAsItsSchema` |
| `EveryInstallationEndsWithTheModels` | if the schema alone ends with the models, `UpgradeSpec => []SchemaIsTheModels` |
| `ClearedWayStaysOpen` | if the schema alone is ready for what is due, `UpgradeSpec => []ClearedWayIsOpen` |

`UpgradeTypeOK` says that every table respects its columns, references and constraints. It is
not inductive: an operation checks the table it is about, so it must not break another
one, and a constraint must not speak of a column that is gone. `Good` adds what the store
has by construction: each table is a record of its six parts (`Tabular`), its key and the
fields of its constraints are columns of it and its references name tables that are there
(`WellFormed`), and every table is sound (`AllSound`). There is one lemma for each kind of
operation on what it leaves, and `RunKeeps` for the data functions, whose outcome the
store checks as a whole.

The refinement maps the tables to their schema. Three things are shown of an operation on good
tables: it fits the schema exactly when the tables allow it, rows apart
(`SamePossible`); it changes the schema as `Change` says (`SameOutcome`); and when rows
stop it, `MayRefuse` holds or a data function came before it in its transaction
(`Executed`). The operations of a migration are carried out one after the other by a
recursive function; that they stay good, and that the first one refused is one where
`MayStopAt` holds, is an induction over their number (`ReachedAll`), by the least
counterexample.

The last two theorems are implications from a statement about `SchemaEvolution` alone,
with the 86 migrations: it has no constants left and few states, and the run `upgrade`
checks those statements (`EvolvesToTheModels`; `EveryOperationFits` and `TheWayIsClear`)
completely. The proof says why rows make no difference. For
`ClearedWayStaysOpen` that is a fact about three data functions: 0035 leaves one image
for each set and reference, 0051 no finding, 0059 one set of a group that is not
inactive; and none of them leaves a check pending on the table that is altered next,
because nothing refers to the rows they delete and no reference is rewritten.

**Only model-checked.** Liveness (`LockIsReleased`, `InProgressEnds`, `RolloutEnds`,
`SomeUpgradeCompletes`), which needs fairness. Of the upgrade, `UpgradeStopsOnlyOn`,
`LiveSetsKeepTheirReference`, `NewestImageSurvives` and `TokensStayValid`: they compare the
rows at the end with those of a given history, across the 86 migrations between, and
speak of the releases by the names the histories of `MCUpgrade` give them.
`EveryOperationFits`, `TheWayIsClear` and `EvolvesToTheModels` need no proof beyond the run,
as said above.

## 5. What could follow

* `LiveSetsKeepTheirReference` and `NewestImageSurvives` for any rows: an invariant for each
  span of migrations that says where the rows of a set are by then.

## 6. Not modelled

* *Notifications*: no state of the engine depends on a delivery; `_notify` keeps the
  outcome to itself. A notification that raises is the fault `exception`.
* *Progress of a task, request state*: values of one task or one request nothing else
  reads.
* *Serializers, exports, image helpers, admin layout, authentication and permissions*:
  presentation, or delegated to the frameworks; no state of their own.
* *The Celery task `sync_dnn_files`*: it ends in an error before it touches a file.
* DeepFace, OFIQ, `filelock`, Django's schema editor and `migrate`, and the Celery broker
  are external: modelled from how the code uses them.
* In `DedupEngine` a job row is there when its message is delivered; `AdminEngine` has
  the rows that are deleted.
