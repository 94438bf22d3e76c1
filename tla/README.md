# VariantLab in TLA+

VariantLab turns one video campaign into many ad variants. It runs in the
browser first (`apps/web/src/variantlab`, Rust engines compiled to WASM) and can
be connected to a service (`rust/services/connected`: Axum, Postgres, Redis,
an object store, native render workers). This directory models the parts of it
whose correctness depends on order: who writes which row when, and what happens
when a page, a worker or a transaction ends at the wrong moment.

All paths below are relative to `src/`.

## Inventory

| Component | State | Operations | What is hard | What makes it correct |
|---|---|---|---|---|
| Connected render jobs (`worker.rs`, `dispatcher.rs`, `job_api.rs`, `native_executor.rs`, migrations) | Postgres rows `jobs`, `job_attempts`, `outbox_events`, `export_artifacts`; a Redis stream; objects; the claim a worker holds in memory | create a batch, cancel, retry; claim outbox rows, publish, mark; claim a job, heartbeat, render, upload, commit, fail; watchdog | leases that expire under a live worker, replicas that share an id, re-delivered entries, lost stream, crash between two writes | one execution per attempt, artifact of the last attempt, final ends, accepted cancels, every job ends |
| Browser media jobs (`media-jobs.ts`, `media-worker.ts`, `media-store.ts`, `job-contracts/src/lib.rs`) | jobs in memory and in IndexedDB, the active job, pause intents; the worker's cancellation set | import, cancel, pause, resume, retry, playback on and off; worker messages, worker crash, reload | async functions that overlap at every `await`, messages overtaken by commands, tab closed between two saves | no finished work without its record, one job at a time, rows agree with memory, finished jobs stay finished, jobs settle |
| Local campaign journal (`local-store.ts`, `studio.tsx`, `snapshot-worker.ts`) | snapshots and journal entries in IndexedDB; state, pending commit and flags of each page | command, save, retry, page hide, compaction, open and recover, reload | compaction overlapping saves, several tabs, a read between two transactions, crash before the receipt, damaged snapshot | acknowledged edits survive, recovery never mixes histories, journal stays short |
| Connected sync (`sync_api.rs`, `edit-engine/src/sync.rs`, `connected-client.ts`, `connected-sync-board.tsx`) | command outbox of each device; `campaigns`, `campaign_revisions`, request receipts, `recovered_branches`, writer lease | enable, sync, acknowledge, load, continue a branch, release the lease | lost responses, edits during a request, two devices, retried requests | no accepted command lost or applied twice, both sides of a divergence kept |
| Uploads (`upload_api.rs`, `upload_part_receipt.sql`, `job-contracts/src/cloud.rs`, `connected-cloud-board.tsx`) | `upload_sessions` with part receipts, `media_assets`, multipart uploads and objects | create or resume, upload a part, complete | requests that die between the object store and the row, pages that share a session, files that changed | only the original becomes an asset, no receipt is lost, a user who keeps asking gets it stored |
| Local render package (`render.rs`, `render-store.ts`, `export-worker.ts`, `render-package-board.tsx`) | rows and artifacts in IndexedDB, files in OPFS, the board's records, one execution and its worker | enqueue, cancel, retry, mark stale, recover | three stores, a record copied into the execution, clicks during a save, reload during a render | a stored success has its whole file, interrupted jobs are resumed and end |
| Sites backend (`apps/sites/*.mjs`, `db/schema.ts`, `script/sites-native-worker.py`) | D1 rows with generations, leases and tokens; uploads and objects in R2 | submit, claim and reap, heartbeat, upload, complete, fail, cancel, retry | no transaction over a read, the bucket and a write: requests overlap | the same lifecycle as the connected service, no earlier output stays |
| Edit engine (`edit-engine/src/lib.rs`) with the rules of the variant, creative and transcript engines | the campaign, one history and one redo list for all scopes | 25 kinds of command, undo and redo by scope | entries taken out of the middle of a shared history, snapshots of one scope | commands are reversible, an undo stays in its scope, undo and redo retrace a scene |
| Timeline engine (`timeline-engine/src/lib.rs`, `rough-cut-timeline.tsx`) | none of its own: a timeline and an edit to a timeline | insert, move, trim, split, delete; preview of a drag | two copies of the rules, snapping against clamping, ripple boundaries | preview and edit agree, ripples keep clips apart, snaps land |
| Review links (`review_api.rs`, `review-client.tsx`) | links bound to a revision and artifacts, decisions | create, open, decide, revoke | – (one locked transaction per request) | not modelled |
| Validation engine, `media-plan`, `time` | none | rules and tick arithmetic | numeric | not modelled |
| Render plan, native render, compositor, effects, masks, GPU | none that outlives a call | pixels and ffmpeg arguments | numeric | outside TLC's reach |
| Identity and BFF, file cache, WASM bridge, inherited editor pages, desktop shell | – | request parsing, generated glue, UI | – | not modelled |

How they interact. A command on the page is prepared by the edit engine (WASM)
and saved by the local store in one transaction with the sync outbox; connected
sync sends the outbox. A batch request names a synced revision and starts render
jobs. The API and the dispatcher never talk to each other: the API writes outbox
rows, the dispatcher moves them to Redis, workers read Redis and go back to
Postgres to claim. Workers and API share objects only by key. The media pipeline
shares the jobs store with nobody but its own worker's results. A cloud batch
first uploads its originals through `Uploads`' sessions; the render workers read
the object that `media_assets` names. The local package and the Sites backend are
two further ways to render, each with its own rows; the Sites backend keeps the
lifecycle of the connected service (`JobLifecycle` is the abstract specification
of both).

`PROJECT.json` lists, under `hazards`, what in this code is hard to test, at its
line, with the property that would catch it going wrong.

## Modules

| Module | Models | State and actions against the code |
|---|---|---|
| `JobLifecycle` | what the cloud API promises about a job | abstract: waiting, active, stopping, ended; one move per job and step |
| `RenderJobs` | connected render jobs | one action per Postgres transaction (handler, SQL function), Redis command or object-store call; `task[w]` is where `execute_job_files` stands |
| `MediaJobs` | the media pipeline | one action per stretch between two `await`s of an async function (`saves` is the queue of awaited transactions), one per message handled by the worker |
| `LocalJournal` | local journal | one action per IndexedDB transaction with its continuation, one per user command, React render, failure |
| `ConnectedSync` | connected sync | one action per IndexedDB transaction with its continuation on the device, one per request the server handles (the campaign's row is locked, so each is one transaction) |
| `Uploads` | uploads of an original | one action per stretch of a request between two awaits of the object store, one per page's decision, one per fault |
| `LocalRender` | local render package | one action per IndexedDB transaction with its continuation, one per message handled, step of the worker, click |
| `SitesRender` | Sites backend's jobs | a request is a record of the row it read: `Send` or `Retry` reads, `Touch` uses the bucket, `Write` swaps on the generation, `Refuse` fails |
| `CampaignEdits` | edit engine | one action per command of `CommandPayload` (families that differ only in data are one), `Undo`, `Redo` |
| `TimelineEdits` | timeline engine | an operator per function of `lib.rs`; one action per edit, taken from what the editor can ask for in the state |
| `MC...` | instances for TLC | constants and symmetry only |
| `RenderJobsProofs`, `MediaJobsProofs`, `LocalJournalProofs`, `ConnectedSyncProofs`, `UploadsProofs`, `SitesRenderProofs`, `LocalRenderProofs` | theorems of the module they are named after | an inductive invariant, a lemma per action, the theorems at the end |
| `EditsProofs` | theorems of `CampaignEdits`, and of `TimelineEdits` | the same, in two parts |

Definitions whose comment says "Mutant of ...", "a wrong choice" or names a slip
("one that forgets ...") are wrong variants of the operator they precede (a dropped fence, a wrong boundary). They are not used by
the specifications; `PROJECT.json` pairs each with the property it breaks, which
shows that the property depends on that line of code.

### RenderJobs

`state`, `attempt`, `owner`, `leased`, `failure` are columns of `jobs`;
`ledger[j]` holds the rows of `job_attempts` in attempt order and `outbox[j]`
those of `outbox_events`, which are never deleted (so the "insert if not found"
branch of the watchdog cannot be taken). A job stands for its idempotency key.

- The fence `Holds` is the `lease_owner = $n AND attempt = $m` of each worker
  statement. `docker-compose.variantlab.yml:143` gives every replica the same
  worker id, so all instances but the abstract one let ids coincide.
- Time is abstract. A lease is a Boolean that `LeaseExpires` turns off at any
  moment, which includes every real clock; expiry under a worker that is alive
  counts as a fault, expiry of a dead worker's lease does not.
- The stream is a count of entries per job, because an entry carries only the
  job's identity and workers read the row again. Counts saturate at `MaxUnread`.
  There is no consumer group: each worker has its own `unread`. The order of
  entries of different jobs is abstracted to any order.
- The watchdog's limit of 20 rows and the claim's limit of 50 exceed the
  instances. `SKIP LOCKED` only delays a row to the next pass.
- Left as the code has it, without a property against it: a job cancelled in the
  queue leaves its attempt row open; a job that lost a lease and then succeeded
  keeps the old failure text; requeues are unlimited; uploads of attempts that
  failed to commit stay in the object store; the states "pausing" and "paused"
  of the shared contract are never written by this service.

### MediaJobs

`memory` is `this.jobs`, `disk` the jobs store, `records` the stores of assets
and derivatives. A function that awaits `saveJob` holds the job object it read
before; the model keeps this object's state in the action that resumes it
(`Prepared` applies `start_running` to "preparing" whatever the job has become),
which is what the hazards of this file are about. Transactions of one store
complete in creation order, hence one queue. `handler` is the message being
handled; messages are serialised by `workerMessageChain`. A request to the worker
that is not yet read is lost in a crash.

A file can be imported again. `importFile` and `enqueueDerivatives` then put the
stored row's job into memory (`media-jobs.ts:196`, `:330`) in place of the object
that functions are still awaiting a save of, so the
page may show a state that row has left behind. `behind` is a history variable:
the jobs for which a lookup did that. `DiskIsCurrent` claims nothing of them until
the next reload.

Not modelled: progress messages; storage that fails (quota); a failure that is
not retryable (it is one nobody retries); `setLibraryRemoved`; a missing asset
row of an existing job; switching the campaign; `cancelIntent`, which is written
and never read; a second pipeline over the same stores. The last one is real:
choosing another scene remounts the workspace (`studio.tsx:778`), and `dispose`
ends the old pipeline's worker but not what it awaits, so a row it saves later is
one the new pipeline has not listed. In the model a reload ends both. Crash of the worker and its `error` event are one step.

### LocalJournal

A campaign state is the sequence of command ids that made it. Its revision is
the length; two states hash alike exactly when they are equal. So a wrong replay
order, a skipped entry or a fork shows in the value. `Replay` translates the loop
of `recoverCampaign` with its two ways to stop (the base does not fit, the hash
differs): from the snapshot on, the first entry of each revision in id order
(`EntriesAt`, `First`) is taken while it extends what was reached (`Replayed`).
It is written without recursion, as the longest such run, so that it can be
reasoned about. Undo and redo are commands like others here.

`queue[t]` is the order in which the page's transactions on the journal store
complete; `opening[t]` is `openCampaign` between its two reads; `compactions`
holds the snapshot writes that wait for the hashing worker, which may finish in
any order. `closure` and `shown` separate `setState` from the render that gives
`runCommand` the new state. `issued`, `written` and `acknowledged` are history
variables. An input that cannot change the state (a no-op command) does nothing.

Not modelled: other campaigns, deletion, import of an old project, a second
`openCampaign` while one is under way, pages restored from the back-forward
cache. The sync outbox of the same transaction is in `ConnectedSync`.

### ConnectedSync

A state is again the sequence of its commands. `stored[d]` is what recovery would
yield on a device, `row[d]` the revision of its campaign row, `outbox[d]` its
`ConnectedSyncOutbox`; `page[p]` is the shown state and where the board's `sync`
or `load` stands. `head`, `revisions`, `receipts` and `branches` are the server's
tables. `network` is the set of requests that were sent: it never shrinks, so a
request may reach the server late, again, or never; an answer reaches the page
that waits for it, or nobody. A request id is a number for a random UUID. The
server's decision is split into `Advance`, `Diverge`, `Redeliver` and `Refuse`,
whose guards follow the order of the checks in `sync_api.rs` and `sync.rs`.
Leases are timed by the server, so `LeaseExpires` may come at any moment;
`head.writer` is forgotten with the lease since nothing reads it afterwards.
`RenderBatch` is the one statement of `create_batch` that writes
`campaign_revisions`.

An edit made in a tab that shows something else than its device stores (another
tab installed a cloud revision, or the page has not yet opened it) is a fault
counted by `late`: the local journal drops it (see `LocalJournal`), and its
command can never be replayed. The properties about edits speak of runs without
one, and the hazard is listed.

Not modelled: continuing a branch and `localRecovery`, which make new campaigns
out of a state; the download of originals, which takes time between `Load` and
`Install`; the byte limit of a batch (the limit of commands stands for both); the
checks of receipts and envelopes that only a foreign server or client could fail.

### Uploads

`sessions` holds the rows of `upload_sessions` for one original in the order of
creation, `store[s]` the multipart upload and the object of a session, `asset`
the session whose object `media_assets` names, `device[d]` what a page's
`ensureUploaded` awaits. A receipt is a part's number and the content it was sent
with; a page holds the original, a file whose bytes changed, or one that was cut
off. `Merged` is what `upload_part_receipt.sql` computes: the receipts without the
part, with the new one at its place in the order. `complete_upload` is
three steps: the check of the receipts, the assembly by the object store, and the
verification with the rows it writes. `Lose` drops a request at any of its awaits.
A session's day passes at any moment (`Expire`); while the page that opened it is
still at work this counts as a fault, because an upload that takes a day is one.

Not modelled: that every batch uploads its originals again although the tenant
has them (a second asset is refused by the primary key and its object stays);
the limits on sizes and types.

### LocalRender

`disk`, `stored` and `file` are the rows, artifacts and OPFS files; `mem` is
`recordsRef`, `exec` is `executeRecord` with its own copy of the record and its
worker, `writes` the saves that were requested, in order. `queue` is the list
`executeQueue` still has to look at. `overlapped` is a history variable: the user
clicked while a row was being saved, or asked for an execution while one was
running. Liveness is stated for runs without: with them jobs are lost, as the
hazards of `render-package-board.tsx` say.

Not modelled: what is rendered; the zip package; storage that fails; failures
that cannot be retried.

### SitesRender

`row[j]` is a row of `vl_render_jobs`, `bucket[j][n]` the upload and object of
attempt `n`, `req[q]` a request the server is handling with the row it read and
whether that row is still `fresh`, which stands for the generation. Requests
whose only effect is their swap (claim, cancel, submit) are one step: the read is
confirmed by the swap. A lease that runs out under a worker at work is a stall,
as is a request whose answer is not heard; each is counted.

Not modelled: the batch's idempotency key and the 100-job quota, the upload of
originals, the parts of an output, workers of other registrations.

### CampaignEdits

`camp` is what commands can change, with as little content as tells them apart: a
scene has a name and a clip that is whole or trimmed, a slot is plain or styled, a
set maps slots to values. Entries of `history` and `redo` are a scope with a
forward and an inverse command, as in `ReversibleCommand`. `CommitSnapshot` is
the code's pattern: take the fields of the kind before and after. The campaign
starts empty or filled; the latter is one that was continued from a recovered
branch, whose history was cleared (`sync.rs`).

Not modelled: envelopes and hashes (`LocalJournal` and `ConnectedSync` have
them), labels, audit events, versions, limits on the number of things, text.

### TimelineEdits

`timeline` is the engine's map of placements; the order of a track's clips and
the duration follow from it. `Moved`, `ClipTrimmed`, `Split` and `Deleted` return a
set with one outcome or none, for an edit that is refused. `PreviewMove` and
`PreviewTrim` translate the second copy of the rules, from its own lines. The
edits (`Moves`, `Trims`, `Splits`, `Deletions`) are those the editor's pointer and
keys can produce. The properties quantify over all of them in every state.

Not modelled: patches, dirty ranges, the query for visible clips, the stress
timeline. A trim without room panics in `clamp`; here it yields nothing.

## Runs

| Run | Instance | Question |
|---|---|---|
| `render_fencing` | 1 job, 2 workers with one id, 1 dispatcher, 2 faults | can a worker that lost its attempt change anything; is history right; are ends final |
| `render_live` | 1 job, 1 worker, 2 dispatchers over one outbox, 1 fault | does every job end, along `JobLifecycle` |
| `media_safety` | 1 original, 2 derivatives, imported up to twice, 3 commands, 2 faults | do memory, rows and records stay consistent, do jobs settle when nobody interferes |
| `journal_tabs` | 2 tabs, 3 commands, interval 2, 1 fault of any kind | what recovery yields |
| `journal_reopen` | 1 tab, 3 commands, campaign reopened once | *violated*: are acknowledged edits recovered |
| `sync_devices` | 2 devices, 3 commands, an outbox of 2, 3 request ids | do edits survive, once each, without false conflicts |
| `uploads` | 2 pages, 2 parts, 2 faults | is the stored object the original, are receipts kept, does an upload finish |
| `local_render` | 2 jobs, 2 clicks, an edit, 2 faults | is a stored success whole, do interrupted jobs end |
| `sites` | 1 job, 2 workers, 2 requests at once, a stall, a retry | the lifecycle on D1; is everything an earlier attempt left discarded |
| `sites_object` | the same without a retry | *violated*: does a job that succeeded have its object |
| `edits` | 2 scenes, 1 set, 1 profile, 2 slots, a history of 2, 4 commands | do scopes keep apart, are commands reversible, does a scene's undo and redo retrace it |
| `timeline` | 2 tracks, 3 clips, 8 ticks, a frame of 2, 4 edits | do preview and edit agree, do ripples and snaps do what they say |

Why the bounds are enough. The races of `RenderJobs` are between an attempt and
its successor, on one job: two workers, two faults (one loses the lease, one
repeats the loss or crashes the second worker) reach a third attempt with a stale
worker of the first still running. Two jobs matter only where one transaction
touches several, the batch, which `Refinement` proves for any number of jobs. In `MediaJobs` three jobs give each kind and each
order of priority; three commands (a second import is one) are enough for a
cancel, a retry and a pause or playback to meet, or for an import to meet the save
of the same job. In `LocalJournal` the interval of 2 with 3 commands lets a compaction
overlap saves and another compaction, and `Large` lets one entry trigger one;
two tabs can fork at each revision. One fault there, because each kind by itself
reaches what the properties speak about; a single tab with three reloads and
failures was also checked, once, without a violation. In `ConnectedSync` three
request ids are one that enables sync and one per device, or a retry after an
acknowledgement; each may arrive any number of times. Three commands fill an
outbox of two, and leave one for the other device or for an edit under way.

In `Uploads` two parts are a first and a last one, the least for which their
order matters; two faults are a wrong file and a lost request, or a request lost
twice. Uploads are started only while the original is not stored, and then
`MaxSessions` is never the reason that a page waits (checked as an invariant). In
`LocalRender` two jobs are one that runs and one that waits; two faults a failure
and a reload. In `SitesRender` two requests at once are the read of one and the
swap of the other, and one stall with one retry gives three attempts. In
`CampaignEdits` a history of two makes trimming and the interplay of two scopes
happen within four steps, from a campaign that already has every kind of content.
In `TimelineEdits` a frame is two ticks and the tolerance one, so that a snap can
be shorter than a frame, a clip can be too short to trim, and two targets can be
equally near; four edits insert three clips and arrange them, or insert two and
arrange them twice, and the properties then look one edit further.

`CHECK_DEADLOCK FALSE` is set where a user may simply have nothing more to do
(every module but `RenderJobs`); the render service is checked for deadlock.

### Fairness

- `RenderJobs`: dispatchers and workers are loops that go on after errors, so
  their next step is weakly fair; a worker reads its stream in order and a render
  is bounded by 1800 seconds, so reading an entry and finishing a render are
  strongly fair (they are enabled again and again, not continuously). Leases and
  publication ages are clocks. Nothing is assumed of users, crashes, errors or of
  a slow step that loses a lease.
- `MediaJobs`: IndexedDB transactions complete, event loops turn and a request to
  the worker ends (in any way). Nothing of users, crashes or reloads.
- `LocalRender`: IndexedDB commits, the worker renders to its end, a reloaded page
  recovers. Nothing of clicks, edits, failures or reloads.
- `SitesRender`: the server answers or fails each request (weak). A worker's step
  is disabled and enabled by its heartbeats and a claim by other requests on the
  row, and both are tried again in a loop (`sites-native-worker.py`), so they are
  strongly fair. A lease nobody renews runs out. Nothing of users or stalls.
- `Uploads`: a request is served unless it is lost, and a session's day passes.
  Users are not assumed to do anything: `UploadsFinish` has their asking again and
  again as its premise.
- `LocalJournal`, `ConnectedSync`, `CampaignEdits` and `TimelineEdits` are checked
  for safety only.

### Violations

Two runs expect a counterexample, described under `findings` in `PROJECT.json`:
reopening the campaign while an edit is being saved makes the next edit a fork,
and recovery drops what follows (`journal_reopen`); a claim that reaps an expired
job deletes the object of the worker that renewed its lease and committed in
between (`sites_object`).

Others were met while modelling; they stay hazards, each with the statement TLC
refutes in its note. A stop that arrives after the worker's success leaves a media
job "pausing" or "cancelling" with the pipeline busy. A tab closed between two
saves leaves an original without its derivatives. A file imported again while its
job is being saved puts the page behind the row. A device that is behind and
syncs without edits gets a branch and cannot load the cloud's version. A revision
rendered in the cloud before the first sync blocks another device's edit of the
same number. Undoing a matrix change takes away a crop made since in a cell's own
scope. A local batch or retry asked for during a render stays queued; a cancel
during the save of a success overwrites it. A session whose object was assembled
by a request that died refuses everything for a day. Undo of a set's assignment
can bring back a replacement for a deleted slot.

## Proofs

The theorems hold for every value of the constants: any sets of jobs, workers,
devices, tabs, commands, slots, any number of parts, any limits and numbers of
faults. What is assumed of the constants are the named assumptions of the
modules: limits are natural numbers and positive where the code needs one (a
history, an interval), a value that stands for "none" is not one of the things it
is told from, `MediaJobs` and `LocalRender` have finite sets of jobs,
`ConnectedSync` one of commands and `TimelineEdits` one of clip ids. TLC evaluates all of them in the runs.

| Module | Theorems |
|---|---|
| `RenderJobsProofs` | `Invariance`; `TypeCorrect`, `ExecutionIsExclusive`, `ArtifactIsFenced`, `HistoryIsKept`; the action properties `TerminalStays`, `CancelStays`, `StaleStepsAreIdle`; `Refinement` of `JobLifecycle` |
| `MediaJobsProofs` | `MediaInvariance`; `MediaTypes`, `SuccessIsStored`, `RowsAreCurrent` |
| `LocalJournalProofs` | `JournalInvariance`; `JournalTypes`, `CommitsSurvive`, `RecoveryNeverMixes`, `JournalStaysShort` |
| `ConnectedSyncProofs` | `SyncInvariance`; `SyncTypes`, `NoEditIsLost`, `OutboxesLeadHome`, `BranchesAreConflicts` |
| `UploadsProofs` | `UploadInvariance`; `UploadTypes`, `ReceiptsSurvive`, `AcceptedIsWhole` |
| `SitesRenderProofs` | `SitesInvariance`; `SitesTypes`, `NothingIsLeftBehind`; `SitesRefinement` of `JobLifecycle` |
| `EditsProofs` | of `CampaignEdits`: `EditsInvariance`; `EditsTypes`, `HistoryRetraces`; the action properties `CommandsReverse`, `UndoLeavesTheRest` |
| | of `TimelineEdits`: `TimelineInvariance`; `ClipsArePlayable`, `PreviewIsEdit`, `RippleIsClear`, `SnapsAreEdges` |
| `LocalRenderProofs` | `RenderInvariance`; `RenderTypes`, `SuccessIsWhole` |

So every safety property that a passing run checks is also a theorem. Each proof
goes the same way: an inductive invariant, that the initial states satisfy it and
every step keeps it, with a lemma per action, and what follows from it. `EditsProofs`
extends both modules it is about, which is why the specification of `TimelineEdits` is
named `TimelineSpec` and its type invariant `TimelineTypeOK`.
What the invariants add to the properties is why the code is right:

**RenderJobs.** A job has one ledger row and one outbox row per attempt, a
dispatcher holds rows that exist, the current ledger row of a leased job is open,
an artifact exists exactly for a succeeded job from its last attempt, and a
worker's claim is for an attempt that was started, is no longer "queued" and whose
output is stored once it persists (`Claims`). The step that would break
exclusiveness is `ReadEntry`: it needs `state = "queued"`, and `Claims` says no
worker executes the current attempt of a queued job; `RecoverExpired` and
`Enqueue` queue a job again only under a new attempt number. The history of
attempts needs more (`History`), because `cancel_job` closes a ledger row without
the fence of the other statements: the row it closes is the right one since a
worker gets there only when the cancellation stands (`Ownership`), and after a
newer attempt nothing is left for it to change. That is also the one case of
`StaleStepsAreIdle` that does not follow from `Holds`. `Refinement` classifies every step of every
job as a move of `JobLifecycle` or none. `TypeOK` includes the two columns
of a lease (`LeaseColumns`): whichever statement ends an execution clears them.

**MediaJobs.** The row a job will have once every function has stopped waiting is
the state the page shows: the last row queued for it, or the stored one
(`LastRowIs`). It is kept through overlapping functions because each of them queues
the save in the step that sets memory, and the store completes saves in that order; a lookup
is the exception, and marks the job as `behind`. No success is queued for a
job whose record is not stored, and the only function that stores the record is
awaited by the one that queues the success.

**LocalJournal.** All that pages, transactions, compactions and the store hold
descends from commits that were written (`Descent`); a commit leaves the journal
only for a snapshot at its revision or above (`Kept`); fewer than
`SnapshotInterval` entries are without a survey or a compaction that will remove
them (`Short`). In a linear history every revision above the newest snapshot then
has exactly one entry, and each extends the one before, so the run of entries that
recovery replays reaches the longest commit. In a forked one the run still
consists of prefixes of commits, hence recovery yields some commit, never a mixture. `JournalStaysShort`
turned out to hold for forked histories too, and its statement no longer excludes
them.

**ConnectedSync.** A request that was not answered is the pending one of its
device, or carries nothing (`RequestOK`); commands of an outbox are in the head
only as the prefix of its pending request, when that one was synced (`BoxOK`);
the head only grows, and the bases of outboxes and requests are states it once
had. So a repeated request finds its receipt, an acknowledgement drops what the
head has, and a divergent request differs from the head right after its base,
which makes its branch a real conflict. While no edit was made in a tab behind its
device (`late = 0`), a page shows an earlier state of what the device stores and
that state only grows; this is what `NoEditIsLost` and `OutboxesLeadHome` rest on,
and what a late edit breaks.

**Uploads.** A page that waits for a receipt has a session and a part in hand; an
upload that somebody reads back, or that became the asset, is closed, so nothing is
assembled there again (`Sealed`). Receipts are kept because a session's receipts change
only by `Merged`, which replaces none but its own part, whatever pages overlap.

**SitesRender.** A request that is still `fresh` saw the row as it is, but for the
lease (`RequestOK`); one that is not can no longer write. Two workers are never at
work on one attempt (`Apart`). What an attempt left in the bucket is named by the
row or covered by the request that opened it, which will find the row changed and
abort the upload (`Covered`, `Discards`). The bound on attempts is part of the
argument, since attempts are numbered up to it: every attempt but the first is
paid for by a stall or a retry (`Paid`, `Owed`). With `SitesRefinement`, both ways to
render on a server are proved to implement `JobLifecycle`.

**CampaignEdits.** Every entry of the shared history and redo list is made of
snapshots of campaigns, or of one thing and its value, and stands under the scope
of what it changes (`EntryOK`). That entries are taken out of the middle, trimmed
and moved between the lists keeps this, and is all an undo relies on: whatever was
done in other scopes since, the command it applies names the thing of its own
scope (`Belongs`), and makes a campaign of a campaign. For `CommandsReverse` each of the
commands is shown to differ from the campaign before only in the fields its
snapshot takes. `SceneHistoryRetraces` is inductive on top of this: the entries
about one scene's name, or its clips, form a chain (`Linked`). A command extends the
chain of its own thing and empties its scope's redo entries. An undo or redo moves
the end of a chain to the end of the other list's, and is never from the middle of
one, since all entries of a thing share a scope. The limit takes a chain's
beginning away.

**LocalRender.** A row is held in four places: on disk, in memory, in saves under
way and in the execution's own copy; wherever it is, a success has its whole file
(`RowOK`). What threatens this is a second execution, which empties the file of a
job that succeeded before. So from its start until its own success no row in
memory shows the earlier success, and from the start of its worker, which comes
after its first save was stored, none on disk or in a save under way does
(`TakenBack`): saves are stored in the order they were asked for, the execution
has at most one of its own under way (`OwnWrites`), and the user's buttons write no
success. The attempts a row counts are paid for by faults, which bounds them.

**TimelineEdits.** An edit of a sound timeline yields one whose clips play a piece
of their source, and that is all an edit can rely on: the timeline's end is
checked afterwards (`Loose`, `DoKeeps`). For `SnapLands` the only hard case is a right edge that snaps while the
group stands near the beginning: it wins only if its target is as near as the
left edge's, and the beginning is a target of the left edge, so the group is never
pushed below zero and the clamp after the snap does nothing (`SnapGroupIs`). For
`RippleKeepsClear` the ticks of clips that do not overlap inject into the time they
lie in (`PackedDuration`): what is deleted between two clips lasts no longer than the
gap between them, so the later one, which moves up by that much more, stays behind
the other (`GapsKeepOrder`). For `PreviewShowsEdit` a move is shown as nothing exactly
when it goes nowhere (`MoveOfNothing`), and a trim that ripples by zero moves no
other clip.

The provers cannot instantiate a theorem over a predicate, but they can one over
a set, so arguments by induction are made about the least or greatest element of
a set of numbers (`LeastNatural`, `GreatestNatural`, which follow from the order
of the naturals being well-founded): the first entry that does not fit, the
latest entry of a scope, the last save of a row.

Only model-checked: liveness (`JobsSettle`, `UploadsFinish` and everything under
fairness) and what depends on ENABLED, which are out of the prover's reach. The
two expected violations are counterexamples of their runs.

## Plan

Next, in this order:

1. Continuing a recovered branch, and the composition of `LocalJournal` with
   `ConnectedSync` for an edit made during an installation.
2. The cache of media files (shared loads and a byte count).

## Not modelled

- Review links: each request is one transaction on a locked row; the two that
  meet are ordered by the database. What remains is that the newest decision is
  chosen by `created_at`, the start of its transaction, not its commit.
- Render plan, native render, compositor, effects, masks, GPU, validation and
  time arithmetic: functions of data whose correctness is numeric or a matter of
  pixels; TLC would repeat the computation.
- Identity, BFF, generated bindings, the desktop shell and the inherited editor:
  no shared state that two actors change, or not on VariantLab's path. They are
  the largest part of the repository, which is why the map's share of all lines is
  small.
- Wording, layout and logging everywhere.
