# TimeOnChrome: a TLA+ verification of how time is counted

TimeOnChrome is a browser extension (`extension/`) with a cloud service
(`workers/`) that measures how long a child uses which site, keeps that time in a
local ledger, uploads it, and derives quotas from it. This directory holds TLA+ models of
the path a second takes: how browser events become settled segments and in which
mode, how a settled second gets into the ledger, stays there, is uploaded, makes room
for later ones and stays apart from another child's when the device is bound to
someone else, how a device's account of a day reaches the cloud service, and how
the accounts of several devices are summed there. Paths in this file are relative
to the repository.

Contents: [inventory](#1-inventory) ·
[modules and the code](#2-the-modules-and-the-code-they-model) ·
[runs](#3-the-runs) · [bounds](#4-bounds-and-why-they-are-enough) ·
[fairness](#5-fairness) · [proofs](#6-proofs) ·
[abstractions](#7-what-is-abstracted) ·
[disagreements](#8-where-the-code-and-its-documents-disagree) ·
[not modelled](#9-what-is-not-modelled)

To check a module: `tlc -config ledger_pressure.cfg MCUsageLedger`; to check the
proofs: `tlapm LedgerProofs.tla`, and so for `LedgerCountProofs`, `BindingProofs`,
`BindingOwnerProofs`, `AccountProofs`, `DeviceAccountProofs`, `SessionProofs` and
`SessionBoundaryProofs`.

## 1. Inventory

### The parts, their state and their operations

| Part | Source | State | Operations that change it | Here |
|---|---|---|---|---|
| Usage ledger | `extension/core/usage-segments.js` | `usage_segments_v1`, daily/hourly/target aggregates, five outboxes (dirty keys with revisions), compacted facts, settlement journal, all in `chrome.storage.local` | settle, journal and drain, reconcile, acknowledge, mark failed, rebuild, prune, compact | `UsageLedger` |
| Storage coordinator | `extension/infra/storage-budget.js` | a queue of tasks with priorities, the measured bytes | run a task, refuse at the hard limit, run maintenance before or after a write | `UsageLedger` (the task, not the priorities) |
| Storage maintenance | `extension/infra/storage-maintenance.js` | none of its own | routine pruning, emergency compaction | `UsageLedger` |
| Date upload | `extension/infra/cloud-sync.js` | `syncState` in memory, the sync lock, the request under way | snapshot of a date, upload part by part, acknowledge, take over a stale lock, follow-up | `UsageLedger`, `LedgerBinding` |
| Worker, V1 statistics | `workers/src/routes/stats.ts` | `usage_segments_v1`, `stats_v1`, `target_stats_v1`, `hourly_*` in D1 | insert segments, upsert aggregates | both |
| Binding isolation | `extension/infra/ledger-binding.js` | scope mark, archives by scope, unattributed books, the chain of changes | check scope, upload, change | `LedgerBinding` |
| Session settlement | `extension/runtime/session.js`, `extension/runtime/time-boundary.js`, `extension/core/foreground-timing.js` | the open session (a durable copy and a volatile mirror), the commit queue, the cached mode | transition, close, popup flush, close at a binding boundary, split at a mode boundary | `SessionTiming`; its journal and lock in `UsageLedger`, `LedgerBinding` |
| Background wiring | `extension/background.js` | listeners, alarms | start-up reconciliation and replay, alarms | both (start-up only) |
| Session recovery, checkpoint | `extension/runtime/recovery.js`, `extension/core/checkpoint-scheduler.js` | none of its own | confirm, doubt or open a session at an alarm; close after a restart | `SessionTiming` |
| Media timing | `extension/runtime/media-session.js`, `extension/core/media-timing.js` | media sessions and their ledger | as the session's | not modelled |
| Device account V2 | `extension/core/device-account-v2.js`, `extension/infra/cloud-sync.js` | an entry per date: revision, hash, status | prepare, upload, mark | `DeviceAccount` |
| Profile accounts V2 | `workers/src/routes/deviceAccountsV2.ts`, `workers/src/services/profileAccountsV2.ts` | manifests, chunks, generations, heads in D1 | receive, commit, publish | `DeviceAccount` (the device's requests), `AccountPublication` (publication) |
| Account reconciliation | `extension/core/account-reconciliation-v2.js`, `extension/core/profile-account-shadow-v2.js` | reports | compare | not modelled |
| Modes, quotas, schedule | `extension/product/mode-service.js`, `extension/core/mode-boundary-intents.js`, `extension/core/timing-dispatcher.js`, `extension/product/quota.js`, `extension/core/time-windows.js` | the current mode, pending boundary intents | switch, queue a boundary, drain the boundaries | `SessionTiming` (not how a mode is chosen) |
| Forced use, shared access | `extension/core/forced-use-admission.js`, `extension/product/shared-access-runtime.js` | policies, cached permits | evaluate, expire | not modelled |
| Native host | `extension/infra/native-host-client.js` | a port to an external process | request, reply | not modelled |
| Activation, consent | `extension/core/activation-gate.js`, `extension/core/privacy-consent.js` | a gate before every handler | open, close | taken as open |
| Logs, incidents | `extension/infra/client-logs.js`, `extension/infra/cloud-failure-incident.js` | diagnostics | append, upload | not modelled |
| Other Worker routes | `workers/src/routes/device.ts`, `compositeSessions.ts`, `restore.ts`, ... | bindings, composite sessions, exports | bind, unbind, review, restore | the answers a client can get from binding |
| Read models, UI | `extension/stats/`, `extension/popup/`, `extension/admin/`, `extension/content.js`, `pages/` | caches | none on the ledger | not modelled |
| App runtime, native app control | `app-runtime-management/`, `native-app-control/` | their own databases | their own | another product |

### How the parts interact

- **Shared state.** Everything persistent is `chrome.storage.local`, a map of
  keys without transactions over several calls. A read-modify-write is safe only inside
  a task of the storage coordinator, and only as far as maintenance, which the
  coordinator runs in the middle of a task, leaves alone what the task has read.
- **Calls.** The session closes a segment: journal, settle, clear, three tasks. The
  replay of the journal (start of the worker or browser, installation, every sync) repeats the last two for what it
  finds. A sync reads one date, sends its segments and its aggregates part by
  part, and queues a task for every answer.
- **Messages.** Requests to the Worker may be lost, answered too late to be heard,
  or arrive after the client has given up and sent something newer.
- **Locks.** The storage queue, the session lock (`runSessionCommit`), the sync flag (`isSyncing`, with a stale
  limit), the chain of binding changes, whose readers are the syncs, and the queue of
  mode boundary intents. The parts take different ones: the replay of the journal takes neither
  session lock, sync flag nor chain at worker start, and a mode change takes none until it queues its boundary. On
  the Worker nothing is locked; the unique keys of a batch are.
- **Crashes.** A service worker is terminated at any await; memory is lost, and the next
  event starts it again with what storage holds.

### What makes it hard, and what should hold

| Component | Hard behaviour | What makes it correct |
|---|---|---|
| Ledger and storage | maintenance inside another task's read-modify-write; a refused write; a write that lands and throws | a fact is on disk, on the Worker, or compacted; what is not acknowledged is queued; nothing is counted twice |
| Journal | termination between its three steps, replay while the session is still in them | each settlement is entered exactly once, and eventually |
| Rebuild | reads outside the queue | what waits for upload stays marked |
| Date upload | part of a package acknowledged; settlement during the upload; a late arrival; a run overtaken by another | what is clean has been delivered as it is; the Worker never counts less; every queue empties |
| Retention | a clean aggregate is deleted, a later fact recreates it | an aggregate with facts that wait is never clean |
| Session | commits that stop between settling and saving; a mirror that wins ties; mode changes between their steps and each other's; openings dated back; boundaries that arrive late | time is settled once but for declared estimates and only after it passed; a fault costs at most an interval; a boundary splits the session in the old mode |
| Device account | overlapping runs with old captures; requests lost or handled late | a revision names one account; "published" is true on the Worker; the newest account ends up published |
| Profile accounts | concurrent publications of one week without a lock; unreadable sources | a complete total is the sum of what is published; nothing goes back |
| Binding | a switch with uploads under way, a recovery inside a sync, an unbinding answered to an old request, a crash in the middle | facts reach their own scope only; no book is destroyed or doubled; a change asked for is finished |

## 2. The modules and the code they model

```
UsageBook            what a ledger and its copies promise (abstract)
   ^ refinement mapping in LedgerProperties (run ledger_crash_loss, and proved)
UsageLedger          ledger + storage queue + maintenance + upload + Worker rows
   ^ LedgerProperties   type invariant, safety, action properties, liveness
        ^ MCUsageLedger     instances for TLC
        ^ LedgerProofs      proofs for every instance: no fact is lost
             ^ LedgerCountProofs   counted once, complete, delivered; the refinement

ScopedBooks          what the isolation of the books promises (abstract)
   ^ refinement mapping in BindingProperties (run binding_switches, and proved)
LedgerBinding        books of two bindings + syncNow + cloudBind + session + replay
   ^ BindingProperties
        ^ MCLedgerBinding   instances for TLC
        ^ BindingProofs     proofs for every instance: the books stay apart
             ^ BindingOwnerProofs   whose facts a book holds; the refinement

SessionTiming        session + checkpoint + recovery + mode change + boundary queue
   ^ SessionProperties  ^ MCSessionTiming, SessionProofs (^ SessionBoundaryProofs)

DeviceAccount        a date's account from the device to the Worker's head
   ^ DeviceAccountProperties  ^ MCDeviceAccount, DeviceAccountProofs

ProfileAccounts      what the published accounts promise (abstract)
   ^ refinement mapping in AccountProperties (run accounts_publication, and proved)
AccountPublication   publication of device accounts, query by query
   ^ AccountProperties  ^ MCAccountPublication, AccountProofs
```

The specifications meet where one component hands over to the next.
`SessionTiming` ends at the settled segment, with which `UsageLedger` begins (its
`CloseSegment` takes the segment as given, and what is one durable step there is journal,
settlement and clearing here). What `UsageLedger` describes in detail (facts,
acknowledgements, journal) `LedgerBinding` reduces to three sets and multiplies by the scopes.
`DeviceAccount` begins with the aggregates of a date and ends when the Worker's head
moves; that move is one step that may fail there, and the subject of `AccountPublication`,
whose proved `HeadsOnlyAdvance` is what `PutCommit` of `DeviceAccount` assumes.

### UsageLedger

A **segment** is a member of `Ids`, its duration is one unit. A statistic of an hour or a date is
a vector that says how often it counts each segment, so "counted twice", "lost"
and "overwritten by less" are visible whatever the durations are.

| Variable | Code |
|---|---|
| `disk` | the storage keys of the ledger: `segs`/`up` are the segments and those with `uploadedAt`, `pend` the segment outbox, `stats`/`made`/`sent` the aggregate tables, the keys that exist and those with `uploadedAt`, `comp` the compacted facts, `dirty`/`rev` the aggregate outboxes with their revisions, `journal`, `reconciled` the reconciliation version |
| `job` | the one task the storage queue is running: what it is, what it has read (`snap`), whether it has written, whether the emergency after its write failed (`hit`) |
| `closing`, `drain`, `repair`, `sync`, `locked` | the local variables of `settleCurrentSessionSegment`, `drainUsageSettlementJournal`, the two rebuild functions, each `syncNow`, and `syncState.isSyncing` |
| `srvSegs`, `srv`, `net` | the Worker's segment table, its aggregate rows, requests the client gave up on |
| `age`, `opened`, `settled`, `left` | the calendar, segments not closed yet, a history of settlements, the remaining faults |

| Actions | Code |
|---|---|
| `CloseSegment`, `SessionStep`, `SessionReturns` | `settleCurrentSessionSegment`: journal, settle, clear |
| `StartDrain`, `DrainStep`, `DrainReturns` | `drainUsageSettlementJournal`, one entry at a time |
| `WriteJournal`, `WriteSettlement`, `ClearJournal`, `WriteReconciliation` | the write of the respective task; the early returns are `NothingToDo` |
| `WriteSegmentAck`, `WriteSegmentFailure`, `WritePartAck`, `WritePartFailure` | `markUsageSegmentsUploadedByContentHash`, `markAggregateUploaded` with its revision test, and their failures |
| `RepairReadsSegments`, `RepairReadsFacts`, `RepairReadsTable`, `WriteRebuiltTable`, `WriteMark` | `rebuildDailyUsageStats`, `rebuildHourlyUsageStats`: three plain reads, then queued writes |
| `PressureInWrite`, `PressureElsewhere`, `ScheduledMaintenance` | `commitBudgetedWrite`'s maintenance before or after the write, another write's, the scheduled one |
| `Return`, `Throw` | the task's promise: fulfilled, refused before the write, or rejected after it |
| `StartSync`, `TakeSnapshot`, `SendSegments`, `SendPart`, `EndSync`, `SyncStep`, `SyncReturns` | `syncNow`, `buildUsageDateSyncSnapshot`, `uploadUsageDatePackageParts` |
| `LateArrival`, `Crash`, `Midnight` | the network, the browser, the calendar |

The write of a task is a separate step from its read, because maintenance can
come between them; which storage keys a task replaces, and from which of the two
states, is written out in each action.

### LedgerBinding

| Variable | Code |
|---|---|
| `binding`, `mark`, `book`, `archives`, `orphans` | the stored binding keys, `ledger_binding_scope_v1`, the active `LEDGER_BINDING_KEYS`, `ledger_binding_archives_v1` by scope and its `unattributed:n` entries |
| `owner` | the profile and device id a fact carries: a scope, `Nobody` (settled with no binding), or `Unborn` |
| `mem`, `syncing`, `followUp`, `runs` | `syncState` and the local variables of each `syncNow` |
| `changes`, `change`, `binder` | `changeTail` and the progress of the first change, `cloudBind` |
| `session`, `closing`, `drain`, `server` | the open session and its settlement, the replay, what the Worker stored under each scope |

| Actions | Code |
|---|---|
| `StartSync`, `Recover`, `Enter`, `CheckScope`, `Pack`, `Deliver`, `Reply`, `WriteAck`, `WriteClear`, `Finally` | `syncNow` from `hydrateCloudSyncStateFromStorage` over `tryRecoverCloudBindingIfMissing`, `ledgerBinding.upload`, the request, `assertBinding`, `clearCloudBindingState` to the awaited follow-up |
| `UserBinds`, `UserAdopts` | `cloudBind` |
| `ChangeBegins`, `ChangeBoundary`, `Commit`, `ChangeFails` | `ledgerBinding.change`: wait for the readers, close the session under the old scope, one storage commit of archive, book, mark and binding, or none of it |
| `OpenSession`, `CloseSession`, `WriteJournal`, `WriteSettlement`, `ClearJournal`, `SettlementRefused` | the timing session and its lock |
| `StartDrain`, `ReplaySettlement`, `ReplayClear`, `Prune`, `Crash` | the replay, retention, termination |

### SessionTiming

| Variable | Code |
|---|---|
| `disk`, `mirror` | `session_v1_persistent` in local storage, `session_v1` in session storage: state, start, last heartbeat, and whether the start is an estimate (`guess`) |
| `mode`, `cached` | the mode of `guardian_session`, `cachedEffectiveMode` in the worker's memory |
| `changes`, `intents`, `drain` | the mode changes under way (any number at once: no lock is held from the decision to the queueing), `mode_boundary_intents_v1` (a map by id, so a set), the running `drainModeBoundaryIntents` with the boundaries it has applied (`done`) |
| `commit` | the operation the commit queue is running: what it read, what it settles, what it saves, how far it is |
| `startup` | the browser has started and `recover()` has not run |
| `ledger`, `modeAt`, `contested`, `split`, `clock`, `faults` | the settled segments, and histories the properties speak of: the mode in effect at each instant, the boundaries of changes that overlapped another, those whose intent was removed |

| Actions | Code |
|---|---|
| `Transition`, `Close`, `PopupFlush` | `transitionStateAt`, `closeCurrentSession`, `flushOpenSessionToStats` |
| `CheckpointOpens`, `CheckpointConfirms`, `CheckpointDoubts` | the three outcomes of `runPeriodicCheckpoint` that change something |
| `Recover` | `recover()` |
| `Settle`, `Reject`, `Save`, `Mirror` | `settleCurrentSessionSegment` and its failure, the two writes of `saveSession` |
| `DecideMode`, `SaveMode`, `CacheMode`, `Enqueue` | a dispatched mode event: `executeModeDecision` reads the mode, `commitModeChange` saves the new one, caches it and queues the boundary, each a step of its own with other changes between them |
| `Route`, `RouteChangesMode`, `Routed` | `routeCheckpointRepairAccess` inside a checkpoint, and the mode change it may wait for |
| `StartDrain`, `ApplyBoundary`, `EndDrain` | `drainModeBoundaryIntents` with `applyModeEffectiveBoundary`; the boundaries are taken in the order of their times (`Foremost`), whatever the order of queueing |
| `StopWorker`, `RestartBrowser` | termination of the worker, of the browser |

### DeviceAccount

| Variable | Code |
|---|---|
| `day` | what a capture of the date would read: its aggregates as a counter of their changes, and how much of its raw facts is left |
| `entry` | `device_account_v2_state.byDate` |
| `manifests` | every manifest ever prepared; its position stands for its hash |
| `rows`, `whole`, `committed`, `head` | `device_account_manifests_v2`, the chunks, the committed status, `device_account_heads_v2` |
| `run`, `late` | the upload runs under way, requests given up by their run |

`Capture`, `Prepare`, `SendManifest`, `MarkUploading`, `SendChunks`, `SendCommit`, `Finish`
are the steps of `uploadDeviceAccountV2ForBinding`; `PutManifest`, `PutChunk`, `PutCommit` are the Worker's
handlers, reached directly or, by `Arrive`, late; `Lose` and `Stop` are the faults.

### AccountPublication

One action per query of `publishCommittedDeviceAccountV2`, with other publications between them:
`Commit` (from `handleCommit`), `StartWeek`, `ReadOwnHead`, `ReadSources`, `ReadDayHead`,
`ReadWeekDays`, `Batch`; `Fail` for any of them that throws. `heads`, `dayGens`, `weekGens`, `published` are the
tables of migration 024, `pub` the local variables of the running requests. An account's rows are represented by what
they were summed from: the revision of every device.

## 3. The runs

Each run asks its question of one instance; all but the last pass, and the last
finds the behaviour of section 8.4. Every property of a passing run was also
checked to fail when a definition is replaced by one of the variants marked
`\* bug:` in the modules (a dropped comparison, a missing clear, an acknowledgement
that clears too much, a switch that copies instead of moving).

| Run | Instance | What it shows |
|---|---|---|
| `ledger_crash_loss` | one hour, one crash, one lost answer | `CountedOnce`, `AggregatesComplete`: replays and repeated syncs enter a segment once everywhere. `CleanMeansDelivered`: the outboxes tell the truth. `BehavesLikeABook`: the ledger implements `UsageBook`, so that no upload replaces a row by a poorer one. |
| `ledger_pressure` | date only, one crash, one emergency at any point, inside any task too | `FactsPreserved`, `NeverDroppedSilently`: no fact is lost. `UnackedStaysQueued`: none is stranded. `UploadedIsOnServer`, `AcksAreTrue`: none is taken for uploaded. |
| `ledger_repair_late` | one hour, one rebuild, one refused write, one late arrival | `CountedOnce` survives a rebuild that races the settlements it rebuilds from. |
| `ledger_ageing` | one hour, a date that grows two retention steps old | Pruning of segments, hours and dates keeps `CleanMeansDelivered` and `PendingKeepsKeyDirty` (what waits for upload stays marked). |
| `ledger_progress` | date only, one crash | `JournalDrains`, `PendingIsUploaded`, `DirtyIsCleared`: the journal and the outboxes become empty again and again, although answers compare revisions and may be ignored. |
| `binding_switches` | two scopes, two facts, three changes, a lost answer, a refusal, a crash, a pruning, an older version's facts | `OwnFactsOnly`, `OneBook`; `SameScopeContinues`: a rotation of the token keeps the book. `ImplementsScopedBooks`: one active book with archives implements a separate book for every scope. |
| `binding_unbound` | two overlapping syncs, two changes, the Worker unbinds the device once | `NoForeignFacts`, `AcksStayHome`, although the binding is cleared outside any lock. |
| `binding_boot` | the replay at worker start, two overlapping syncs, two changes, a refusal, a crash | `NothingLost`, `ArchivesAreOwn`; `ChangesFinish`: a change asked for is carried out or refused. |
| `accounts_publication` | two devices, two dates, four manifests, two publications at a time, one manifest with a known loss, two faults | `CompleteDayIsCurrent`, `CompleteWeekIsCurrent`: a total that calls itself complete is the sum of what is published. `OnlyPublishedIsSummed`: fallbacks do not promote what was only received. `HeadsOnlyAdvance`, and `ImplementsProfileAccounts`: the publication implements the abstract one. |
| `account_upload` | one date, two overlapping runs, two changes, two faults | `OneAccountPerRevision`, `NeverBehindTheWorker`, `PublishedMarkIsTrue`, `PublishedOnlyAdvances`; `NewestIsPublished`: the device's last account is the one published in the end. |
| `session_timing` | two modes, five instants, two mode changes that may overlap, one fault of any kind | `OnlyElapsedTime`, `CountedOnceButForEstimates`, `FaultsCountAtMostAnInterval`: what is settled against what has passed. `BoundaryKeepsOldMode`, `ConsumedBoundarySplits`: what a boundary does to a session, the first for boundaries of changes that overlapped no other. `SettledBeforeReplaced`: the order of settling and saving. |
| `v_switch_waits` | two modes, two changes, no fault | `SwitchesEnd` fails. |

The passing runs range from 80 thousand to 3.1 million distinct states. Deadlock is
checked except in `binding_unbound`, where the very deadlock of section 8.3 is reachable and in
`session_timing` and `v_switch_waits`, where the bounded clock ends (and the deadlock of section 8.4
is reachable).

The type invariants, `ServerNeverShrinks` (which `BehavesLikeABook` implies) and the strengthenings the proofs need (`SnapshotCoversDisk`, `MarkFollowsBinding`,
`RequestsMatchTheBook`, `ActiveHasNoArchive`) are proved for every instance (section 6) and take no part in the runs.

The configurations `v_old_answer`, `v_replay_after_switch`, `v_follow_up_waits`, `v_mode_early`, `v_mode_overlap`,
`v_revision_restarts` and `v_rebuild_forgets` reproduce the other disagreements of section 8, and `accounts_live` checks
`EveryAccountIsPublished` on a smaller instance of the publication: whatever was received in full is published
in the end, although publications defeat each other's batch.

Some properties are stated in more than one environment, because what keeps them
true is different there; others hold in one environment only, and section 8 says
what breaks them elsewhere. No run claims, for instance, that `CountedOnce` holds
under storage pressure: it does not. What a run's environment must not do for a property to hold in *every*
instance is a hypothesis of its theorem (section 6); within these bounds `PendingKeepsKeyDirty` passes
with a rebuild too, and three hours show that it must not be claimed (8.7).

## 4. Bounds and why they are enough

- **Two segments in one row of one date, at most one hour.** Every race of the ledger
  is between what one task has read and what another one writes, so one fact
  that is there and one that arrives are what it takes; that they share date, hour and
  row makes every read-modify-write collide. A date and an hour are stored in different
  tables with different retention, which is why there is one of each; the runs
  without an hour are those whose property does not tell tables apart.
- **One view.** By domain and by target are updated, sent and acknowledged by the same
  code through two outboxes that never refer to each other.
- **One or two syncs.** Only a stale lock or a follow-up makes two meet, and a third would
  need a second one of those.
- **`Budget`: each fault once.** Faults are initiated by the environment and may come at any
  step; two different ones are combined where one prepares the other (a crash that
  leaves a journal entry and a lost answer, a rebuild and a refused write).
- **`MaxAge = 2`.** The code's retention (segments and hours at the end of the day,
  dates after seven) distinguishes three ages, and no more.
- **Two scopes, at most three changes.** There, back, and once more into a book that was
  restored; the third change is also the rotation in the restored scope. Events
  that would not end otherwise (`change`, `unbound`, `lost`, `refuse`, `crash`,
  `prune`) each have a bound in `Budget`.
- Facts and segments are finite, so settlements stop; the liveness
  properties are about what happens after that.
- **Session: five instants, a checkpoint of three of them, a repair and a stale interval of two.** What matters of the
  intervals is their order: a close can be capped by the checkpoint, cut by the repair interval or moved to the last
  heartbeat, and an estimated opening reaches back over something settled. In the code the repair interval is half a
  checkpoint; two thirds let a boundary fall, within these instants, between an estimated start and the end of what
  was settled before it.
- **Session: `MaxChanges = 2`, `MaxFaults = 1`.** Two is how many changes run or have their boundary waiting at a time (later ones
  follow): two can read the same mode, pass each other between saving and queueing, and wait in one drain; the theorems of section 6
  hold for any number. Six instants were run with two changes and no fault, and with one change
  and a fault; with both the instance is too large.
- **Accounts: two devices, two dates, two publications at a time.** Only publications of the same week share rows, a third
  one only defeats another in the same way, and a revision can only be equal, older or newer, so two
  revisions of one date suffice; the other manifests make a date and a device to be summed with. `Faults = 2` lets one
  source be missing in the day and one in the week, or one fail and be repeated.
- **Upload: one date, two runs, `Budget` of two changes and two faults.** Dates share nothing but the bound `MaxTracked` of the
  entries kept (sixteen in the code, section 8.6); two changes give three accounts of the date at most, so that one capture
  can be older and one newer than what is published.

None of these bounds is used by the proofs of section 6. Their hypotheses about constants say which events
do not happen at all (a budget of zero, no ageing, no takeover of a stale lock), never how often others do; two theorems about
the upload speak of at most `MaxTracked` dates.

## 5. Fairness

Ledger (`Fairness` in `LedgerProperties`): a task in the queue is finished (weak
fairness of `Queue`: the queue drains itself by `queueMicrotask`), every caller
gets its turn in it again and again (strong fairness of each caller's steps: others
may occupy the queue in between, but within a priority it is first in, first
out), and the sync alarm and every start of the worker begin syncs and replays
(strong fairness of their beginning, since the sync flag and a rebuild disable it
for a while). An assumption is that tasks of higher priority do not occupy the
queue for ever. Settlements, faults, maintenance, days have no fairness.

Binding: what is under way goes on (weak fairness of a settlement's steps, the
replay, a change, the adoption and each sync's steps). A request ends, because
requests are aborted after `CLOUD_CONFIG.REQUEST_TIMEOUT_MS`. No
sync, session, replay or change is ever required to begin.

Upload of accounts: a run goes on to its end (each request is answered or given up), and every date of the week is
captured again and again (strong fairness, since both runs may be busy): every sync uploads the dates of the week and
retries the ones not published (`uploadCurrentWeekDeviceAccountsV2`, `retryPendingDeviceAccountsV2Shadow`). Publication (`accounts_live`): a
request goes on to its end, and a device commits again while its manifest is not published. Since faults are bounded, a
request fails finitely often.

Session (`v_switch_waits` only): the steps of a commit and the end of a drain go on, and a drain begins while intents wait
(every checkpoint alarm starts one): weak fairness. A boundary gets its turn in the commit queue, and every mode
change in the queue of intents: strong fairness, since both are chains of promises, first in, first out, and others may
be served in between. A change is identified by its instant. No event, decision or fault is ever required.

## 6. Proofs

`LedgerProofs` proves of `UsageLedger`, for every set of segments, dates, hours,
rows, views and syncs, every kind of pressure, every budget of faults and
any age, from `LedgerAssumption` alone (the shape of the
constants):

| Theorem | States |
|---|---|
| `TypeCorrect` | `Spec => []TypeOK` |
| `NoFactIsLost` | `Spec => []FactsPreserved` |
| `NoFactIsStranded` | `Spec => []UnackedStaysQueued` |
| `UploadedIsTrue` | `Spec => []UploadedIsOnServer` |
| `SnapshotsCover` | `Spec => [](SnapshotCoversDisk /\ AcksAreTrue)` |
| `DropsAreAccounted` | `Spec => NeverDroppedSilently`, an action property |

The argument. None of the three fact invariants is inductive. A task may have
read the segments before an emergency compacted them, and then write what it had
read; so one needs to know what it had read. `SnapshotCoversDisk` says: at least
the segments that are on disk now, at least as unacknowledged as they
are now, and all of those queued. A task that sets `uploadedAt` must name segments the Worker stored,
from the moment the request was answered to the write, through the queue: `AcksAreTrue`. The
conjunction of these five and the type invariant, `FactInv`, is inductive.
Its proof rests on one relation, `Shrunk`, between a disk and what maintenance
makes of it: fewer segments, no new acknowledgement, no fewer compacted facts, and
every segment that is gone was acknowledged or is compacted. Each part of the maintenance
shrinks (`CompactOutboxesShrinks`, `PruneSegmentsShrinks`, `PruneAggregatesShrinks`,
`DropPendingShrinks`), shrinking is transitive, and whatever shrinks between read
and write keeps the snapshot a cover. `DropsAreAccounted` is the corresponding fact about
a single step, from the same invariant.

`BindingProofs` proves of `LedgerBinding`, for every set of scopes, facts, older
facts and syncs, with and without the replay at worker start and for every budget of
events, from `BindingAssumption` alone:

| Theorem | States |
|---|---|
| `BindingTypeCorrect` | `Spec => []TypeOK` |
| `MarkFollows` | `Spec => []MarkFollowsBinding` |
| `RequestsMatch` | `Spec => []RequestsMatchTheBook` |
| `ArchivesHoldTheirOwn` | `Spec => []ArchivesAreOwn` |
| `ArchivePlaceIsFree` | `Spec => []ActiveHasNoArchive` |
| `AcksAreHome` | `Spec => []AcksStayHome` |
| `NoBookIsLost` | `Spec => []NothingLost` |

The argument. A switch moves books only in `Commit`, and what makes that safe is
that a change is alone. `ChangeAlone`: from its first read to its commit no sync is a reader and the
mark is still what the change read (only `CheckScope` and another commit write it);
`Readers`: a sync between its gate and its return is a reader. Hence `Requests`: what a
sync carries was packed from the book that is still active, and what it is
about to acknowledge is with that scope's Worker. `CutClosed` and `SettlementFresh`: no settlement is half
way into a book that is put away, because the boundary closed the session, and an identity
is given only to a fact that has none. `Unmarked`: as long as no book is
marked nothing is archived or acknowledged, so a first switch
finds its place free; afterwards `ActiveHasNoArchive` says so. `BooksUsed`: a book
with facts is recognised as one, so a switch never skips it. `BindInv`, the conjunction
of these, the type invariant and the properties above, is inductive; the
commit itself is `SwitchedBooks`.

What this argument does not need is as telling: it holds with the binding
cleared behind the back of `change()`, and with the replay of section 8.2. Those break
whose facts are in the *active* book, not the separation of the books. `BindingOwnerProofs` is about that:

| Theorem | States | Where |
|---|---|---|
| `ForeignFactsStayOut` | `[]NoForeignFacts` | `BootDrain => []ReplayAlone` |
| `EveryFactOneBook` | `[]OneBook` | `BootDrain => []ReplayAlone` |
| `FactsAreOwn` | `[]OwnFactsOnly` | the same, and `Budget["unbound"] = 0` |
| `SameScopeGoesOn` | `SameScopeContinues`, an action property | the same, and `Budget["unbound"] = 0` |
| `BindingKeepsScopedBooks` | `ImplementsScopedBooks`, the refinement of `ScopedBooks` | the same, and `Budget["unbound"] = 0` |

`ReplayAlone` says that no change is in progress while the journal is being replayed. A sync's own replay
has it by itself (the sync is a reader); for the replay at worker start it is exactly what section 8.2 lacks.
`Budget["unbound"] = 0` says that the Worker never answers that the device is not bound; the last three rows of the first table in
section 8 are what happens when it does.

The argument. The first four properties are read off one invariant, `OwnerInv`, in which a fact is a scope's own when it was settled
for that scope or, where the Worker may unbind the device, for nobody (`Strays`). `SyncInv` follows a sync: its own replay
lies inside it, and what it packs comes from a marked book. `CloseInv` follows a settlement and a replay: the identity read is that of the scope the book
is, or will be, marked with (`Claimant`), and what is in hand for a book without a mark is in that book, so that a first switch
sees it. `FactInv` is about the books: every fact of the active one is its scope's own, the Worker's too, and a book
that was put away without a scope shares nothing with the others. `RequestsOwn` carries it to the requests under way.

The refinement maps the book of a scope to the active one when the mark names it and to its archive otherwise, and the copies of
`ScopedBooks` to the Worker's rows. A settlement or its replay is `Enter` of one fact into the marked scope's book; when an unmarked book
is claimed, by `checkScope` or by the change that leaves it, all of it enters at once (`ClaimIsEntry`); a pruning is `Forget`, because what
is acknowledged is on the Worker (`AcksStayHome`); a delivery is `CatchUp`, because what a request carries is still in the book or already there
(`InFlight`, which the proof adds: a pruning may overtake a request). Every other step stutters. Why a switch does (`CommitKeepsBooks`) is
the point of it: the book it puts away can be attributed, its place is free, and the one it takes out was put there for that scope.

`AccountProofs` proves of `AccountPublication`, for every set of devices, dates, revisions, uploads, lossy manifests, any number of
concurrent publications and of faults, from the assumptions of that module:

| Theorem | States |
|---|---|
| `AccountsTyped` | `Spec => []TypeOK` |
| `DaysAreCurrent` | `Spec => []CompleteDayIsCurrent` |
| `WeeksAreCurrent` | `Spec => []CompleteWeekIsCurrent` |
| `SumsArePublished` | `Spec => []OnlyPublishedIsSummed` |
| `HeadsAdvance` | `Spec => HeadsOnlyAdvance` |
| `PublicationImplementsAccounts` | `Spec => ImplementsProfileAccounts` |

The argument. The number of the week's generation is an optimistic lock, and it has to be read first. `AccountInv` says of
each running publication: *if the week's generation is still the one it read*, then everything it has read since (its own
head, the heads of the date, the day's generation, the day accounts) is still what it is now. Any batch that succeeds adds a generation
to the week, so it makes this premise false for every other publication; a batch whose premise is false finds its row taken and changes
nothing. The day's key alone would not do: a publication of another date of the week changes what the week account
sums. The refinement maps the last generation to the abstract account, a batch that succeeds to `Publish` and every other step to
a stutter.

`DeviceAccountProofs` proves of `DeviceAccount`, for every set of dates, runs and every budget:

| Theorem | States |
|---|---|
| `UploadTyped` | `Spec => []TypeOK` |
| `MarksAreTrue` | `Spec => []PublishedMarkIsTrue` |
| `RevisionsAdvance` | `Spec => PublishedOnlyAdvances` |
| `RevisionsNameAccounts` | `Spec => [](AllTracked => OneAccountPerRevision)` |
| `DeviceIsAhead` | `Spec => [](AllTracked => NeverBehindTheWorker)` |

The argument. `UploadInv`: a run at a given stage has a manifest the Worker has got as far as that stage says, a row is never
replaced, a committed manifest stays committed and a head only moves up; so a mark that is written for
exactly the manifest the run prepared (`Mark` compares it) is true whatever the other runs did. `NewestInv` needs the entry of a date to
be the newest manifest ever prepared of it, which holds as long as `Trim` drops nothing: hence `AllTracked`,
that there are at most `MaxTracked` dates. Beyond it both properties are false (section 8.6).

`SessionProofs` proves of `SessionTiming`, for every set of modes, every checkpoint, repair and stale interval with
`Repair < Checkpoint`, and every number of changes and faults:

| Theorem | States |
|---|---|
| `SessionTyped` | `Spec => []TypeOK` |
| `OnlyElapsedTimeIsSettled` | `Spec => []OnlyElapsedTime` |
| `TimeIsCountedOnce` | `Spec => []CountedOnceButForEstimates` |
| `SettlementComesFirst` | `Spec => SettledBeforeReplaced` |
| `FaultsCostAnIntervalEach` | `Spec => []FaultsCountAtMostAnInterval` |

The argument. `SessionInv` relates three views of the open session: the durable copy, the mirror and what the running commit has read.
`Kept`: as long as no mirror write was lost and the worker was not stopped, a commit has read the durable session, and that stays until
the commit has settled it. `Once`: without faults, all settled time that is no estimate's lies before the start of the
session to come, wherever that session is at the moment (on disk, in the commit's list of sessions to save); a session
whose start is an estimate reaches back by no more than `Repair`, and a boundary inside that overlap keeps it an estimate.
`Elapsed`: nothing of a commit lies after the clock.

With faults there is an account to keep. What is counted is the set of pairs of a segment and an instant it covers, what was
there to count is the set of instants covered. `Paid` says of every copy of the session that can still be read (the durable one, the
mirror, what a commit has read and what it is about to save) that what was counted exceeds what was covered before that
copy's time goes on (`Base`) by at most `Happened * Checkpoint` (`Owes`). Settling a copy pays for itself, because the
session that follows starts where the settled time ends (`Settled`, `OwesSame`). Until that session is saved,
the copies it replaces are one interval further behind (`Owes(disk, Happened + 1)`): a fault that leaves one of them to be read
again is one more in `Happened`, and pays (`FaultAdds`). So the invariant speaks of the copies where the property speaks of the ledger.

`SessionBoundaryProofs` adds, without any hypothesis:

| Theorem | States |
|---|---|
| `BoundariesKeepOldMode` | `Spec => []BoundaryKeepsOldMode` |
| `ConsumedBoundariesSplit` | `Spec => []ConsumedBoundarySplits` |

The argument. Two facts about different things meet in the segment a boundary settles. `SplitInv` is about the session: neither
copy of it, nor the one a commit carries, reaches back across a boundary that is dealt with (consumed, or applied by
the running drain), except by an estimate. The mirror may, when it was read before the boundary; so the invariant must say
that such a mirror is older than the durable copy and will not be read (`CopiesSplit`, `Behind => Newer`), which is why the property asks that no mirror write
was lost. `ModesFollow` is about the history, in four parts. `CurrentMode`: after all boundaries (consumed or waiting) and saved changes the mode
in effect is the present one. `ChangeMode`: a change under way that overlaps no other is the only one, and from the last
boundary to its own instant the mode is the one it comes from. `IntentMode`: the same of an uncontested intent, from the boundary before
it. `Ahead`: a change under way lies after every uncontested boundary. What breaks these is a change decided while another
is on its way, or one that is dated before a boundary that is queued already; `Decide` records exactly those as `contested`. A segment settled for a boundary ends
there (`SegmentsEnd`) and, since the drain takes the least boundary first (`BoundaryCommit`, from `Foremost`) and `SplitInv` holds, starts no earlier
than the boundaries before it: if the boundary is uncontested the segment lies in one mode. No premise says that changes take turns.

`LedgerCountProofs` is about what `UsageLedger` counts. Each theorem names what must not happen, because each is false
when it does (section 8); `Calm` stands for: storage is not short, no table is rebuilt, and no sync takes a stale lock over
(`Budget["press"] = 0`, `Budget["repair"] = 0`, `~StaleLock`).

| Theorem | States | Where |
|---|---|---|
| `SettledTimeCountsOnce` | `[]CountedOnce` | `[]AllOnDisk`: what was settled is still on disk |
| `CountedOnceWithoutAgeing` | `[]CountedOnce` | no pressure, `MaxAge = 0` |
| `PendingFactsKeepAggregatesDirty` | `[]PendingKeepsKeyDirty` | `Calm` |
| `AggregatesKeepTheirFacts` | `[]AggregatesComplete` | `Calm` |
| `CleanOutboxesAreDelivered` | `[]CleanMeansDelivered` | `Calm`, no late arrival |
| `UploadsNeverShrinkRows` | `ServerNeverShrinks` | `Calm`, no late arrival, `MaxAge = 0` |
| `LedgerIsABook` | `BehavesLikeABook`, the refinement of `UsageBook` | `Calm`, no late arrival, `MaxAge = 0` |
| `TodaysAggregatesStay` | `TodayKept` | no pressure, no rebuild |

Any number of crashes, refused writes and lost answers is allowed throughout, and days pass where no `MaxAge` is named. The
first two hold for overlapping syncs, rebuilds and late requests too, the third and fourth for late requests, the last for
overlapping syncs and late requests. They use, besides `LedgerAssumption`, `SyncAssumption`: a sync
is not one of the other callers of the queue, there is at least one view, and the upload of a date names each part once (as
`uploadUsageDatePackageParts` does).

The argument, in the order of the parts of the module:

1. *Counted once.* A settlement adds 1 only if its segment is not on disk, and the table it adds to counts segments that were settled
   (`CountsOnce`); so while the settled ones are on disk it adds to 0. The same has to be said of every copy that will be
   written back: what the running task has read, and what a rebuild has read and assembled. `OneSegment` says that a settlement names one segment.
2. *Complete and waiting.* `CalmInv`. With one task at a time and no maintenance inside it, a task writes what it read
   from the disk it replaces (`ReadIsCurrent`), and the sync that a task serves is the one waiting for it (`TasksMatch`).
   On disk every segment is counted and waits in all of its outboxes until acknowledged (`Covered`), and a revision above zero
   belongs to a dirty outbox of an aggregate that exists (`RevisionsCount`): so nothing is forgotten that
   a package may hold. A package is never ahead of the disk, and where the disk is no further, every unacknowledged segment of
   that aggregate is one it carries (`Ahead`): so its answer clears an outbox only when nothing else waits there.
3. *Delivered.* Where the disk is no further than a package, the package holds the disk's counts (`SameCounts`), and what a run is
   about to acknowledge is on the Worker (`Arrived`).
4. *Never less.* What the Worker counts, the disk counts (`CopiesLag`), and a package lies between the two (`Between`): so replacing a
   row by the package's never loses a segment. The refinement maps `WriteSettlement` to `Enter`, under all the keys of the segment at once,
   `SendPart` to `CatchUp` of one copy or a stutter, and every other step to a stutter.

Every safety invariant and every action property of a passing run is stated by one of these theorems. Only model-checked are
liveness and deadlock, which need fairness and `ENABLED`: both are out of the prover's reach.

## 7. What is abstracted

Ledger and upload
- Seconds and hashes: a segment is a unit and its content is its id. Splitting of a segment at hours and
  midnight is given by `HoursOf`, `DateOf`; a segment with no seconds in a key is in `Zero`.
- A sync run handles one date (`syncNow` iterates over dates, each as modelled), and
  `Order` gives the order of its parts. What else a sync does (configuration,
  quotas, logs, media, V2 accounts) touches none of these keys.
- The segments of a request are accepted together or not at all. In the code the Worker answers for each one
  (`extension/infra/cloud-sync.js:292`): those it accepts are acknowledged, the others marked failed, and a failure ends the
  upload of the date as it does here. A segment that the Worker rejects for good fails on every sync and keeps the date's packages
  from being sent (line 3819); `PendingIsUploaded` and `DirtyIsCleared` therefore assume that it rejects none for good.
- Left out of a sync are the batch of segments from the outbox that precedes the packages (`uploadUsageSegmentsV1`, the same
  request and acknowledgement as `SendSegments`, of the segments of all dates) and the repair that sends all segments of a historical date
  (line 3735). No snapshot is taken while a rebuild runs.
- Bytes: pressure may strike any budgeted write. An emergency may stop at any
  oldest-first prefix of what it may drop, which stands for every amount of room it
  needs. Maintenance is one step; it runs as nested code of one task.
- The queue's priorities: any waiting task may be next.
- A replay processes its entries smallest id first.
- Compacted facts are counted per segment; their later rollup from
  hours to days is left out. Retention by local or Beijing date is `age`.
- Left out: browser-bridge outbox, media ledger, `markSuspectUsageSegments`, history
  watermark and integrity records, the V2 account in the same tables. The rebuild runs one at
  a time.

Binding
- A token is not told apart from its scope, so a rotation is a change to the same
  scope. The API base is one.
- A book is its facts, the acknowledged ones, the journal, and whether it was ever
  used (`hasBook`). Unattributed books are a set.
- Media sessions and the skipping of queued events after a cut
  (`recordBindingCutover`) are part of the session lock. The fallbacks of the identity to the
  configuration and the guardian session are left out.
- `hydrateCloudSyncStateFromStorage` is one step, so is every storage write. One
  replay at a time, no stale sync lock (`UsageLedger` has it).
- `change()` waits for the readers it finds (`allSettled`); since a pending change
  turns new readers away this is "no reader".

Session
- The page of a session is left out: its domain and target decide which row a second
  goes to, never whether and in which mode it counts. With it go the quota targets, the diagnostic
  (uncounted) segments of a doubted interval and whether a mode permits the page.
- Two events do not happen at the same instant, except that a boundary may share its
  instant with anything. A clock that jumps back is left out.
- The time of a commit is read when the commit begins. The code reads it some awaits earlier (`extension/core/foreground-timing.js:613`,
  `extension/core/checkpoint-scheduler.js:419`), so that a commit may carry a time some milliseconds before the one that
  ran before it; such inversions are below the grain of the model's instants.
- A mode change takes its time and reads the mode in one step (`Decide`); in the code the decision carries the time and
  `executeModeDecision` reads the mode a little later. For a change that overlaps no other this makes no difference.
- A settlement is one durable step: its journal entry is written first, and what
  happens from there to the ledger is `UsageLedger`.
- How a mode is chosen (schedule, override, quota) is a free choice of the other mode.
  The skip of events queued before a binding cut is in `LedgerBinding`'s session lock.

Device account
- The aggregates of a date are a counter of their changes, a capture is its value, a
  manifest's hash is its position in `manifests`. The chunks of a manifest are one.
- `handleManifest` and `handleChunk` are one step each; `handleCommit` moves the head or
  fails before it does. Retries by age and the report of reconciliation change no entry's revision or status.

Publication
- An account's rows and the hash of a source set are the revisions they come from.
- A source that cannot be read falls back to some earlier accepted revision; the code's search for it
  is bounded by the number of revisions and events it keeps, which is left out.
- One profile and one week: rows of different weeks or profiles are never in one batch.

## 8. Where the code and its documents disagree

### 8.1 An acknowledged revision starts again (`v_old_answer`)

`docs/STATS_STORAGE_FOUNDATION.md:866` asks for a monotonic revision, so that an old answer
causes at most a repeated upload. `markAggregateUploaded`
(`extension/core/usage-segments.js:1471`) deletes the revision it acknowledges, and
the next change starts again at 1. A run that took its snapshot at revision 1 and is overtaken
after the stale limit comes back with its answer when the aggregate is at
a different revision 1, and clears a change that no request has carried. `CleanMeansDelivered` fails.

### 8.2 The replay at worker start ignores the switch (`v_replay_after_switch`)

`docs/DESIGN.md:33`: old data without a trusted original scope must not be
labelled with the new binding. `drainUsageSettlementJournal` reads all entries, then settles one after the
other. At worker start it is neither in the session lock nor a reader of the
binding. A switch that commits between two entries makes the rest of the old
scope's entries facts of the new scope's book, and the next sync sends them.

### 8.3 A follow-up waits for itself (`v_follow_up_waits`)

`docs/DESIGN.md:33` lets the uploads under way complete or fail before the books are switched. The
follow-up sync (`extension/infra/cloud-sync.js:2172`) is awaited inside the sync that
ends, whose reader is still registered. If the Worker unbound the device in between, the follow-up recovers a
binding, which calls `change()`, which waits for that reader. Neither
ends, and every later upload finds a change pending.

### 8.4 A checkpoint and a mode boundary wait for each other (`v_switch_waits`)

`docs/MODE_QUOTA_ROUTING_MATRIX_V0.md:379` and `docs/STATS_STORAGE_FOUNDATION.md:302`: a mode
switch waits only for its boundary intent to be durably queued. The queue of intents
(`extension/core/mode-boundary-intents.js:67`) is the one its drain runs in, and the drain
closes the session, for which it waits for the commit queue. A checkpoint that repairs a session routes the page
while it is inside that commit queue (`extension/runtime/session.js:439`, the route passed in by
`extension/background.js:1446`); if the route changes the mode, it enqueues an intent,
behind the drain that waits for the checkpoint. Neither ends until the worker is
terminated, and no session is settled meanwhile.

### 8.5 Time of the old mode settled in the new one (`v_mode_early`)

`docs/MODE_QUOTA_ROUTING_MATRIX_V0.md:382` lets the old segment keep its mode, and
`docs/STATS_STORAGE_FOUNDATION.md:1232` (T10) asks that each segment carry its own. `commitModeChange`
saves and caches the new mode (`extension/product/mode-service.js:255`) before its boundary is
queued and applied. A transition or checkpoint that commits in between settles the session's time so far
under the cached, new mode; the boundary that follows finds nothing left to split.
`SegmentsKeepTheirMode` fails. `BoundaryKeepsOldMode`, which speaks of what a boundary itself settles, is not affected.

### 8.6 A dropped date begins its revisions again (`v_revision_restarts`)

`docs/DESIGN.md:2029` gives a date the next monotonic revision when its account
changes. `trimState` (`extension/core/device-account-v2.js:242`) keeps the entries of the newest sixteen dates; an older date that
is prepared again has no previous entry and starts at revision 1 (line 285), which the Worker has as another
account and refuses. `OneAccountPerRevision` fails. `docs/STATS_STORAGE_FOUNDATION.md:897` wants the mark kept until
the same or a higher revision is seen published.

### 8.7 A rebuilt table forgets an hour (`v_rebuild_forgets`)

`docs/DESIGN.md:1965` wants a rebuild serialised with the settlements. `rebuildHourlyUsageStats`
(`extension/core/usage-segments.js:917`) reads the table outside the storage queue and writes it whole: an hour
settled in between is gone, although its outbox is dirty. `compactUsageSyncOutboxes` (line 1539) drops the outbox of an
hour that does not exist, and its revision with it; the next settlement of that hour starts at revision 1, and the answer
to a package that was packed before the compaction, with an earlier revision 1, clears it. `PendingKeepsKeyDirty` fails: the hour is
clean while a fact of it was never sent. This is 8.1 without any overtaking, and why the theorems of
the counts take `Budget["repair"] = 0`.

### 8.8 Two mode changes that overlap (`v_mode_overlap`)

The same two lines as in 8.5. `executeModeDecision` reads the mode a change comes from (`extension/product/mode-effects.js:157`), and
`commitModeChange` (`extension/product/mode-service.js:209`) saves the mode and queues the boundary with no lock from the one
to the other, while navigation, activation and checkpoints dispatch independently
(`extension/background.js:1126`, `1145`, `1167`, `1446`). A change that is decided while an earlier one is still on its way reads the
same mode, or is queued and drained first, and its boundary closes the session in a mode that was not in effect:
no fault is needed. `BoundaryAlwaysKeepsOldMode` fails. `BoundaryKeepsOldMode`, which leaves out the
boundaries of changes that overlapped, holds and is proved: what the race costs is confined to the changes that take part in it.

8.4 is a run of its own. The configurations of the others are kept beside it and
find their counterexamples in the same way.

### Others met on the way

Found with the same modules, by the settings of `MCUsageLedger`/`MCLedgerBinding` the table names or by
reading the code beside the model, and not kept as runs of their own:

| Property | Fails with | Because |
|---|---|---|
| `CountedOnce` | `Pressure <- Everywhere`, `Budget <- OnePressure`, no hour | maintenance inside a write (`extension/infra/storage-budget.js:148`) compacts a segment the task then writes back: it is a raw and a compacted fact. `docs/STATS_STORAGE_FOUNDATION.md:254` wants the complete read-modify-write covered. |
| `CountedOnce` | `Pressure <- Elsewhere`, `Budget <- PressAndRefuse`, no hour | a journal entry outlives the compaction of its segment and is settled again (`extension/core/usage-segments.js:2731`). The same with `MaxAge = 1` and no fault: retention takes the segment while a replay holds its entry. |
| `AggregatesComplete` | `Budget <- OneRepair`, `Zero <- FirstIsZero`, one hour | a rebuild (`extension/core/usage-segments.js:917`) writes its table over a settlement that came in between. `docs/DESIGN.md:1965` wants it serialised. |
| `PendingKeepsKeyDirty` | `Budget <- OneRepair`, `MaxAge = 2`, `Zero <- FirstIsZero`, one hour | as in 8.7: with ageing one hour is enough, because a rebuild after its segments were pruned finds no facts and removes it. |
| `TodayKept` | `Pressure <- Elsewhere`, `Budget <- OnePressure` | an emergency prunes clean aggregates with retention zero (`extension/infra/storage-maintenance.js:310`). `docs/DESIGN.md:1964` keeps the day's. |
| `ServerNeverShrinks` | `MaxAge = 1`, one hour | a late settlement of a pruned hour starts at nothing (`extension/core/usage-segments.js:2788`) and its upload replaces the Worker's fuller row. |
| `SameScopeContinues` | `Facts <- TwoFacts`, `Legacy <- OneFact`, `Budget <- Unbound` | a segment settled while the binding is cleared has no identity, and binding the same device again is refused from then on (`extension/infra/ledger-binding.js:87`), against `docs/DESIGN.md:33`. |
| `OwnFactsOnly` | as above | a settlement reads the cleared binding (`extension/runtime/session.js:1170`), the same device is bound again by a commit that takes no session lock, and the fact without identity is sent under it. |
| `ImplementsScopedBooks` | as above | one fact without identity makes the whole book unattributable: a switch puts it away as `unattributed:n` (`extension/infra/ledger-binding.js:100`), and the facts that do name the scope are no longer in that scope's book when it is bound again. Nothing is lost (`NothingLost`), but nothing brings it back. |

While `SessionTiming`, `DeviceAccount` and `AccountPublication` were written, these were met. The model contains
the behaviour, and the properties are stated so that they say what is true with it:

| Behaviour | Where | Document or comment |
|---|---|---|
| A mirror write that failed leaves the older session in the mirror; the reader prefers the mirror when both have the same start and heartbeat, although their states differ. | `extension/runtime/session.js:224` | the comment in `saveSession`: the durable copy is authoritative |
| A worker that stops between settling and saving settles the same interval again. `FaultsCountAtMostAnInterval` bounds what that costs. | `extension/runtime/session.js` | `docs/STATS_STORAGE_FOUNDATION.md:1224` (T2): one closing makes one segment |
| A checkpoint that finds no session opens one with an estimated start, up to the repair interval back, over time that was settled already. A boundary inside that interval reopens it as exact. | `extension/core/checkpoint-scheduler.js` | `docs/TEST-SPEC.md:457`: no time is counted in parallel |
| A run that captured a date early and prepares it late publishes the older account under the newer revision, until the date is uploaded again. | `extension/infra/cloud-sync.js:2727` | none; `NewestIsPublished` holds because uploads of the date go on |
| After the worker restarts, no mode is cached until the next opening; what is settled before is settled under no mode. | `extension/runtime/session.js` | T10, as in 8.5 |

## 9. What is not modelled

- **Media timing** (`extension/runtime/media-session.js`): one session per media element of a tab, with its own
  ledger, and events that arrive from several frames. What it adds to `SessionTiming` is a
  map of sessions, events with an identity that may arrive twice, and a lease; its
  settlement goes through the journal modelled in `UsageLedger`. A model of it would be a second specification of
  the size of `SessionTiming`, not an instance of it.
- **Account reconciliation and the shadow comparison**: they read both ledgers and write
  reports. They change neither.
- **Priorities of the storage queue**: any waiting task may be next in `UsageLedger`, so its safety properties hold for every
  order. That a low-priority task is served at all is assumed (section 5), and endless
  foreground writes would refute it.
- **How a mode is chosen, quotas, schedules, composite sessions**: decisions over
  one moment's data, made of calendar and configuration. The state they share with
  the modelled part is the mode and its boundaries.
- **Forced use, shared access, native host, activation and consent, logs, incidents, exports and
  restoring**: admission and diagnostics around the path of a second. An inactive extension counts nothing.
- **User interface and read models**: they read. `extension/background-old.js` is not loaded by the manifest.
- **App runtime and native app control**: other products with databases of their own.

Not proved, and checked by TLC only: everything under fairness, and the absence of deadlock. Section 6 says why.
