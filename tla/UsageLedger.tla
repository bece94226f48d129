---------------------------- MODULE UsageLedger ----------------------------
(***************************************************************************)
(* The local usage ledger of the extension (core/usage-segments.js), the   *)
(* storage coordinator it writes through (infra/storage-budget.js), the    *)
(* maintenance that makes room in it (infra/storage-maintenance.js) and    *)
(* the date upload of infra/cloud-sync.js with the V1 routes of the Worker *)
(* (workers/src/routes/stats.ts).                                          *)
(*                                                                         *)
(* A segment is a member of Ids; its seconds are one unit, and a statistic *)
(* of an hour or a date is the number of times it counts each segment: the *)
(* sums of the code are these vectors weighted by the segments' durations. *)
(* Everything chrome.storage holds is the record disk.  A queued storage   *)
(* task reads disk when it starts (job.snap) and writes later; maintenance *)
(* that the write itself triggers runs between the two.                    *)
(***************************************************************************)
EXTENDS Integers, Sequences, FiniteSets

CONSTANTS
    Ids,        \* segment ids, numbered in the order the segments end
    Dates,      \* local dates
    Hours,      \* hour keys
    DateOf,     \* [Ids -> Dates]
    DateOfHour, \* [Hours -> Dates]
    HoursOf,    \* [Ids -> SUBSET Hours], the hours a segment touches
    Zero,       \* pairs <<i, k>>: segment i has zero seconds in key k
    RowOf,      \* [Ids -> Row], the (domain, channel, mode) row it adds to
    Views,      \* the outboxes of one aggregate: by domain, by target
    Order,      \* [Dates -> Seq(Views \X Keys)], the order a date is sent in
    Syncs,      \* concurrent runs of syncNow
    StaleLock,  \* a run may outlive SYNC_STALE_LOCK_MS and be overtaken
    Pressure,   \* writes under storage pressure: "other", "ledger"
    MaxAge,     \* bound: how many days pass
    Budget      \* bound: how often each fault happens

Keys     == Dates \cup Hours
Parts    == Views \X Keys
Faults   == {"crash", "lost", "late", "press", "refuse", "repair"}
KeysOf(i)  == {DateOf[i]} \cup HoursOf[i]
DayOf(k)   == IF k \in Dates THEN k ELSE DateOfHour[k]
KeysOn(d)  == {k \in Keys : DayOf(k) = d}
IdsOn(d)   == {i \in Ids : DateOf[i] = d}

ASSUME LedgerAssumption ==
    /\ Ids \subseteq Nat
    /\ Dates # {} /\ Dates \cap Hours = {}
    /\ DateOf \in [Ids -> Dates]
    /\ DateOfHour \in [Hours -> Dates]
    /\ HoursOf \in [Ids -> SUBSET Hours]
    /\ \A i \in Ids : \A h \in HoursOf[i] : DateOfHour[h] = DateOf[i]
    /\ Order \in [Dates -> Seq(Parts)]
    /\ StaleLock \in BOOLEAN
    /\ Pressure \subseteq {"other", "ledger"}
    /\ MaxAge \in Nat
    /\ Budget \in [Faults -> Nat]

\* A sync is no other caller of the queue, and a date's package names each
\* outbox once (uploadUsageDatePackageParts).
ASSUME SyncAssumption ==
    /\ Syncs \cap {"nobody", "session", "drain", "repair", "startup"} = {}
    /\ Views # {}
    /\ \A d \in Dates : \A m, n \in DOMAIN Order[d] : Order[d][m] = Order[d][n] => m = n

VARIABLES
    disk,     \* chrome.storage.local
    job,      \* the task the storage queue is running
    closing,  \* the session's settlement in progress (runtime/session.js)
    drain,    \* drainUsageSettlementJournal in progress
    repair,   \* rebuildDailyUsageStats / rebuildHourlyUsageStats in progress
    sync,     \* each syncNow run
    locked,   \* syncState.isSyncing
    srvSegs,  \* usage_segments_v1 of the Worker's database
    srv,      \* stats_v1, target_stats_v1, hourly_..., as counts
    net,      \* aggregate uploads the client gave up on, still under way
    age,      \* days since each date began to lie in the past
    opened,   \* segments not settled yet
    settled,  \* every segment whose settlement was ever written
    left      \* what is left of Budget

vars == <<disk, job, closing, drain, repair, sync, locked, srvSegs, srv, net,
          age, opened, settled, left>>
procs  == <<closing, drain, repair, sync, locked>>
server == <<srvSegs, srv, net>>
world  == <<age, opened, left>>

Counts == [Ids -> Nat]
None   == [i \in Ids |-> 0]
\* An aggregate counts its domain rows and its compacted facts apart.
Stat      == [dom : Counts, cmp : Counts]
EmptyStat == [dom |-> None, cmp |-> None]

Disk == [segs : SUBSET Ids, up : SUBSET Ids, pend : SUBSET Ids,
         stats : [Keys -> Stat], made : SUBSET Keys, sent : SUBSET Keys,
         comp : Counts, dirty : SUBSET Parts, rev : [Parts -> Nat],
         journal : SUBSET Ids, reconciled : BOOLEAN]
NewDisk == [segs |-> {}, up |-> {}, pend |-> {},
            stats |-> [k \in Keys |-> EmptyStat], made |-> {}, sent |-> {},
            comp |-> None, dirty |-> {}, rev |-> [p \in Parts |-> 0],
            journal |-> {}, reconciled |-> FALSE]

(***************************************************************************)
(* What each operation does to a stored record s.                          *)
(***************************************************************************)
MarkDirty(s, parts) ==
    [s EXCEPT !.dirty = @ \cup parts,
              !.rev = [p \in Parts |-> IF p \in parts THEN @[p] + 1 ELSE @[p]]]

\* settleUsageDuration: the segment, its aggregates and all five outboxes.
AddTo(stat, i) == [stat EXCEPT !.dom[i] = @ + 1]
AddSegmentFreshShell(s, i) == \* bug: an uploaded aggregate starts afresh
    MarkDirty([s EXCEPT !.segs = @ \cup {i}, !.pend = @ \cup {i},
                        !.made = @ \cup KeysOf(i),
                        !.stats = [k \in Keys |-> IF k \in KeysOf(i)
                                     THEN AddTo(IF k \in s.sent THEN EmptyStat ELSE @[k], i)
                                     ELSE @[k]]],
              Views \X KeysOf(i))
AddSegmentUnmarked(s, i) == \* bug: an outbox that is dirty already is not bumped
    [s EXCEPT !.segs = @ \cup {i}, !.pend = @ \cup {i}, !.made = @ \cup KeysOf(i),
              !.stats = [k \in Keys |-> IF k \in KeysOf(i) THEN AddTo(@[k], i) ELSE @[k]],
              !.dirty = @ \cup (Views \X KeysOf(i))]
AddSegment(s, i) ==
    MarkDirty([s EXCEPT !.segs = @ \cup {i}, !.pend = @ \cup {i},
                        !.made = @ \cup KeysOf(i),
                        !.stats = [k \in Keys |-> IF k \in KeysOf(i)
                                     THEN AddTo(@[k], i) ELSE @[k]]],
              Views \X KeysOf(i))

\* markUsageSegmentsUploadedByContentHash: only ids still on disk.
AckSegmentsAll(s, ids) == \* bug: an answer clears the whole outbox
    [s EXCEPT !.up = @ \cup (ids \cap s.segs), !.pend = {}]
AckSegmentsUnasked(s, ids) == \* bug: an answer marks everything on disk
    [s EXCEPT !.up = s.segs, !.pend = @ \ s.segs]
AckSegmentsQueued(s, ids) == \* bug: the outbox is not cleared
    [s EXCEPT !.up = @ \cup (ids \cap s.segs)]
AckSegments(s, ids) ==
    [s EXCEPT !.up = @ \cup (ids \cap s.segs), !.pend = @ \ (ids \cap s.segs)]

\* markAggregateUploaded for one key whose revision was checked.
AckPart(s, p) ==
    [s EXCEPT !.dirty = @ \ {p}, !.rev[p] = 0,
              !.sent = @ \cup ({p[2]} \cap s.made)]

\* What the raw facts still on disk say of key k.
FromFacts(segs, comp, k) ==
    [dom |-> [i \in Ids |-> IF i \in segs /\ k \in KeysOf(i) THEN 1 ELSE 0],
     cmp |-> [i \in Ids |-> IF k \in KeysOf(i) THEN comp[i] ELSE 0]]
HasFacts(segs, comp, k) ==
    \E i \in Ids : k \in KeysOf(i) /\ (i \in segs \/ comp[i] > 0)

\* reconcileUsageLedger: aggregates that are missing are filled in.
Reconciled(s) ==
    LET seen == {k \in Keys : HasFacts(s.segs, s.comp, k)}
    IN  MarkDirty([s EXCEPT !.made = @ \cup seen,
                            !.stats = [k \in Keys |-> IF k \in seen \ s.made
                                         THEN FromFacts(s.segs, s.comp, k)
                                         ELSE @[k]],
                            !.pend = (@ \cap (s.segs \ s.up)) \cup (s.segs \ s.up),
                            !.reconciled = TRUE],
                  Views \X seen)

\* compactUsageSyncOutboxes
CompactOutboxes(s) ==
    LET kept == {p \in s.dirty : p[2] \in s.made}
    IN  [s EXCEPT !.pend = @ \cap s.segs, !.dirty = kept,
                  !.rev = [p \in Parts |-> IF p \in kept THEN @[p] ELSE 0]]

\* pruneUploadedUsageSegments; everything is past a retention of zero days.
PruneSegmentsUnsent(s, everything) == \* bug: uploadedAt is not looked at
    LET old == {i \in s.segs : everything \/ age[DateOf[i]] >= 1}
    IN  [s EXCEPT !.segs = @ \ old, !.up = @ \ old]
PruneSegments(s, everything) ==
    LET old == {i \in s.up \ s.pend : everything \/ age[DateOf[i]] >= 1}
    IN  [s EXCEPT !.segs = @ \ old, !.up = @ \ old]

\* pruneUploadedUsageAggregates: hours after a day, dates after a week (age 2).
RetentionAge(k) == IF k \in Hours THEN 1 ELSE 2
PruneAggregates(s, everything) ==
    LET old == {k \in s.made \cap s.sent :
                  /\ \A v \in Views : <<v, k>> \notin s.dirty
                  /\ everything \/ age[DayOf(k)] >= RetentionAge(k)}
    IN  [s EXCEPT !.made = @ \ old, !.sent = @ \ old,
                  !.stats = [k \in Keys |-> IF k \in old THEN EmptyStat ELSE @[k]]]

\* dropOldestPendingUsageSegments: raw facts become compacted facts.
Droppable(s) == {i \in s.segs \cap s.pend : KeysOf(i) \subseteq s.made}
OldestFirst(s, D) == \A i \in D, j \in Droppable(s) \ D : i < j
DropPendingSilently(s, D) == \* bug: no compacted facts
    MarkDirty([s EXCEPT !.segs = @ \ D, !.up = @ \ D, !.pend = (@ \ D) \cap s.segs],
              Views \X UNION {KeysOf(i) : i \in D})
DropPending(s, D) ==
    MarkDirty([s EXCEPT !.segs = @ \ D, !.up = @ \ D, !.pend = (@ \ D) \cap s.segs,
                        !.comp = [i \in Ids |-> IF i \in D THEN @[i] + 1 ELSE @[i]]],
              Views \X UNION {KeysOf(i) : i \in D})

\* performStorageMaintenance: the routine part, and what an emergency adds.
Routine(s) == PruneAggregates(PruneSegments(CompactOutboxes(s), FALSE), FALSE)
Cleared(s) == PruneAggregates(PruneSegments(Routine(s), TRUE), TRUE)
Maintained(s) ==
    {Routine(s)}
      \cup {DropPending(Cleared(s), D) :
              D \in {E \in SUBSET Droppable(Cleared(s)) : OldestFirst(Cleared(s), E)}}

(***************************************************************************)
(* The storage queue: one task at a time.                                  *)
(***************************************************************************)
Callers == {"nobody", "session", "drain", "repair", "startup"} \cup Syncs
Ops == {"free", "journal", "settle", "clear", "reconcile", "table", "mark",
        "ackSegs", "failSegs", "ackPart", "failPart"}
Task == [op : Ops, who : Callers, ids : SUBSET Ids, parts : SUBSET Parts, rev : Nat]
Job  == [task : Task, at : {"free", "read", "written"}, hit : BOOLEAN, snap : Disk]
Free == [task |-> [op |-> "free", who |-> "nobody", ids |-> {}, parts |-> {}, rev |-> 0],
         at |-> "free", hit |-> FALSE, snap |-> NewDisk]

\* The queue takes a task up, and the task reads what it is going to change.
Begin(op, who, ids, parts, rev) ==
    /\ job.at = "free"
    /\ job' = [task |-> [op |-> op, who |-> who, ids |-> ids, parts |-> parts, rev |-> rev],
               at |-> "read", hit |-> FALSE, snap |-> disk]
    /\ UNCHANGED <<disk, procs, server, settled, world>>

Spend(fault) ==
    /\ left[fault] > 0
    /\ left' = [left EXCEPT ![fault] = @ - 1]

\* The tasks that find nothing to do and leave without writing.
SettlesAgain == \* bug: a segment that is on disk is settled again
    LET t == job.task  s == job.snap IN
    \/ t.op = "clear"     /\ t.ids \cap s.journal = {}
    \/ t.op = "reconcile" /\ s.reconciled
    \/ t.op = "ackSegs"   /\ t.ids \cap s.segs = {}
    \/ t.op = "ackPart"   /\ \A p \in t.parts : s.rev[p] # t.rev
AcksAnyRevision == \* bug: the revision is not compared
    LET t == job.task  s == job.snap IN
    \/ t.op = "settle"    /\ t.ids \subseteq s.segs
    \/ t.op = "clear"     /\ t.ids \cap s.journal = {}
    \/ t.op = "reconcile" /\ s.reconciled
    \/ t.op = "ackSegs"   /\ t.ids \cap s.segs = {}
AcksNewerRevision == \* bug: compared the wrong way round
    LET t == job.task  s == job.snap IN
    \/ t.op = "settle"    /\ t.ids \subseteq s.segs
    \/ t.op = "clear"     /\ t.ids \cap s.journal = {}
    \/ t.op = "reconcile" /\ s.reconciled
    \/ t.op = "ackSegs"   /\ t.ids \cap s.segs = {}
    \/ t.op = "ackPart"   /\ \A p \in t.parts : s.rev[p] = t.rev
NothingToDo ==
    LET t == job.task  s == job.snap IN
    \/ t.op = "settle"    /\ t.ids \subseteq s.segs
    \/ t.op = "clear"     /\ t.ids \cap s.journal = {}
    \/ t.op = "reconcile" /\ s.reconciled
    \/ t.op = "ackSegs"   /\ t.ids \cap s.segs = {}
    \/ t.op = "ackPart"   /\ \A p \in t.parts : s.rev[p] # t.rev

Writing(op) ==
    /\ job.at = "read" /\ job.task.op = op /\ ~NothingToDo
    /\ job' = [job EXCEPT !.at = "written", !.snap = NewDisk]
    /\ UNCHANGED <<procs, server, world>>

WriteJournal ==
    /\ Writing("journal")
    /\ disk' = [disk EXCEPT !.journal = job.snap.journal \cup job.task.ids]
    /\ UNCHANGED settled

WriteSettlement ==
    /\ Writing("settle")
    /\ \E i \in job.task.ids :
         LET s == AddSegment(job.snap, i) IN
         /\ disk' = [disk EXCEPT !.segs = s.segs, !.pend = s.pend, !.up = job.snap.up,
                                 !.stats = s.stats, !.made = s.made, !.sent = s.sent,
                                 !.dirty = s.dirty, !.rev = s.rev]
         /\ settled' = settled \cup {i}

ClearJournal ==
    /\ Writing("clear")
    /\ disk' = [disk EXCEPT !.journal = job.snap.journal \ job.task.ids]
    /\ UNCHANGED settled

WriteReconciliation ==
    /\ Writing("reconcile")
    /\ disk' = [Reconciled(job.snap) EXCEPT !.comp = disk.comp, !.journal = disk.journal]
    /\ UNCHANGED settled

WriteSegmentAck ==
    /\ Writing("ackSegs")
    /\ LET s == AckSegments(job.snap, job.task.ids) IN
       disk' = [disk EXCEPT !.segs = s.segs, !.up = s.up, !.pend = s.pend]
    /\ UNCHANGED settled

WriteSegmentFailure ==
    /\ Writing("failSegs")
    /\ disk' = [disk EXCEPT !.pend = job.snap.pend \cup job.task.ids]
    /\ UNCHANGED settled

\* The table of k's kind (daily or hourly) is one storage key, and so is the
\* outbox of one view of one kind.
SameKind(k) == IF k \in Dates THEN Dates ELSE Hours
WriteTable(K, made, stats, sent) ==
    [disk EXCEPT !.made = (@ \ K) \cup (made \cap K),
                 !.sent = (@ \ K) \cup (sent \cap K),
                 !.stats = [k \in Keys |-> IF k \in K THEN stats[k] ELSE @[k]]]
WriteOutbox(d, P, dirty, rev) ==
    [d EXCEPT !.dirty = (@ \ P) \cup (dirty \cap P),
              !.rev = [p \in Parts |-> IF p \in P THEN rev[p] ELSE @[p]]]

WritePartAck ==
    /\ Writing("ackPart")
    /\ \E p \in job.task.parts :
         LET s == AckPart(job.snap, p)
             K == SameKind(p[2])
         IN  disk' = WriteOutbox(WriteTable(K, s.made, s.stats, s.sent),
                                 {p[1]} \X K, s.dirty, s.rev)
    /\ UNCHANGED settled

WritePartFailure ==
    /\ Writing("failPart")
    /\ \E p \in job.task.parts :
         disk' = WriteOutbox(disk, {p[1]} \X SameKind(p[2]),
                             job.snap.dirty \cup {p}, job.snap.rev)
    /\ UNCHANGED settled

WriteMark ==
    /\ Writing("mark")
    /\ \E p \in job.task.parts :
         LET s == MarkDirty(job.snap, {p}) IN
         disk' = WriteOutbox(disk, {p[1]} \X SameKind(p[2]), s.dirty, s.rev)
    /\ UNCHANGED settled

\* The rebuild's write is queued with the table it assembled beforehand.
WriteRebuiltTable ==
    /\ Writing("table")
    /\ disk' = WriteTable(SameKind(repair.key), repair.made, repair.stats, repair.sent)
    /\ UNCHANGED settled

\* commitBudgetedWrite asks for maintenance before the write (pressure or
\* hard limit) or after it (over the limit); the task keeps what it has read.
PressureInWrite ==
    /\ "ledger" \in Pressure /\ Spend("press")
    /\ job.at \in {"read", "written"}
    /\ job.at = "read" => ~NothingToDo
    /\ disk' \in Maintained(disk)
    /\ job' = [job EXCEPT !.hit = (job.at = "written")]
    /\ UNCHANGED <<procs, server, settled, age, opened>>

\* Any other budgeted write of the extension under pressure.
PressureElsewhere ==
    /\ "other" \in Pressure /\ Spend("press")
    /\ job.at = "free"
    /\ disk' \in Maintained(disk)
    /\ UNCHANGED <<job, procs, server, settled, age, opened>>

\* onStartup, onInstalled and the preflight of a sync; no emergency.
ScheduledMaintenance ==
    /\ job.at = "free"
    /\ disk' = Routine(disk)
    /\ UNCHANGED <<job, procs, server, settled, world>>

(***************************************************************************)
(* Who calls, and what the caller does when its task returns or throws.    *)
(***************************************************************************)
SettleAt == {"idle", "journal", "settle", "clear"}
Closing  == [at : SettleAt, ids : SUBSET Ids]
Draining == [at : SettleAt, ids : SUBSET Ids, cur : SUBSET Ids]
Idle     == [at |-> "idle", ids |-> {}]
NoDrain  == [at |-> "idle", ids |-> {}, cur |-> {}]
Repairing == [at : {"idle", "facts", "read", "table", "mark"}, key : Keys,
              segs : SUBSET Ids, comp : Counts, made : SUBSET Keys,
              stats : [Keys -> Stat], sent : SUBSET Keys, marks : SUBSET Parts]
NoRepair == [at |-> "idle", key |-> CHOOSE k \in Keys : TRUE, segs |-> {}, comp |-> None,
             made |-> {}, stats |-> [k \in Keys |-> EmptyStat], sent |-> {}, marks |-> {}]
Package  == [at : {"idle", "prepare", "segments", "ackSegs", "failSegs",
                   "part", "ackPart", "failPart"},
             date : Dates, ids : SUBSET Ids, val : [Keys -> Counts],
             keys : SUBSET Keys, bad : SUBSET {"daily", "hourly"},
             rev : [Parts -> Nat], n : Nat \ {0}]
NoSync   == [at |-> "idle", date |-> CHOOSE d \in Dates : TRUE, ids |-> {},
             val |-> [k \in Keys |-> None], keys |-> {}, bad |-> {},
             rev |-> [p \in Parts |-> 0], n |-> 1]

\* settleCurrentSessionSegment: journal, settle, clear; a throw ends it.
CloseSegment(i) ==
    /\ closing.at = "idle" /\ i \in opened
    /\ closing' = [at |-> "journal", ids |-> {i}]
    /\ opened' = opened \ {i}
    /\ UNCHANGED <<disk, job, drain, repair, sync, locked, server, age, settled, left>>

SessionStep ==
    /\ closing.at # "idle"
    /\ Begin(closing.at, "session", closing.ids, {}, 0)

SessionReturns(ok) ==
    /\ closing' = IF ~ok \/ closing.at = "clear" THEN Idle
                  ELSE [closing EXCEPT !.at = IF @ = "journal" THEN "settle" ELSE "clear"]
    /\ UNCHANGED <<drain, repair, sync, locked>>

\* drainUsageSettlementJournal reads the entries before it queues anything.
StartDrain ==
    /\ drain.at = "idle" /\ disk.journal # {}
    /\ drain' = [at |-> "settle", ids |-> disk.journal,
                 cur |-> {i \in disk.journal : \A j \in disk.journal : i <= j}]
    /\ UNCHANGED <<disk, job, closing, repair, sync, locked, server, settled, world>>

DrainStep ==
    /\ drain.at # "idle"
    /\ Begin(drain.at, "drain", drain.cur, {}, 0)

DrainReturnsEarly(ok) == \* bug: a replayed entry is not cleared
    /\ drain' = NoDrain
    /\ UNCHANGED <<closing, repair, sync, locked>>
DrainReturns(ok) ==
    LET rest == drain.ids \ drain.cur IN
    /\ drain' = CASE ok /\ drain.at = "settle" -> [drain EXCEPT !.at = "clear"]
                  [] ok /\ drain.at = "clear" /\ rest # {} ->
                       [at |-> "settle", ids |-> rest,
                        cur |-> {i \in rest : \A j \in rest : i <= j}]
                  [] OTHER -> NoDrain
    /\ UNCHANGED <<closing, repair, sync, locked>>

StartReconcile ==
    /\ ~disk.reconciled
    /\ Begin("reconcile", "startup", {}, {}, 0)

\* rebuildHourlyUsageStats(hour) from a sync that finds the hour without
\* seconds; rebuildDailyUsageStats(date) from a reader that finds none.
Counted(stat, k) == {i \in Ids : stat.dom[i] > 0 /\ <<i, k>> \notin Zero}
WantsRepair(k) ==
    IF k \in Hours
    THEN /\ \E u \in Syncs : sync[u].at = "prepare"
         /\ k \in disk.made \/ \E v \in Views : <<v, k>> \in disk.dirty
         /\ Counted(disk.stats[k], k) = {}
    ELSE k \notin disk.made /\ IdsOn(k) \cap disk.segs # {}

RepairReadsSegments(k) ==
    /\ repair.at = "idle" /\ WantsRepair(k) /\ Spend("repair")
    /\ repair' = [NoRepair EXCEPT !.at = "facts", !.key = k, !.segs = disk.segs]
    /\ UNCHANGED <<disk, job, closing, drain, sync, locked, server, age, opened, settled>>

RepairReadsFacts ==
    /\ repair.at = "facts"
    /\ repair' = [repair EXCEPT !.at = "read", !.comp = disk.comp]
    /\ UNCHANGED <<disk, job, closing, drain, sync, locked, server, settled, world>>

RepairReadsTable ==
    LET k == repair.key
        found == HasFacts(repair.segs, repair.comp, k)
    IN
    /\ repair.at = "read"
    /\ repair' = [repair EXCEPT !.at = "table",
                    !.made = IF found THEN disk.made \cup {k} ELSE disk.made \ {k},
                    !.sent = disk.sent \ {k},
                    !.stats = [disk.stats EXCEPT ![k] =
                                 FromFacts(repair.segs, repair.comp, k)],
                    !.marks = IF found THEN Views \X {k} ELSE {}]
    /\ UNCHANGED <<disk, job, closing, drain, sync, locked, server, settled, world>>

RepairStep ==
    \/ repair.at = "table" /\ Begin("table", "repair", {}, {}, 0)
    \/ repair.at = "mark" /\ \E p \in repair.marks : Begin("mark", "repair", {}, {p}, 0)

RepairReturns(ok) ==
    LET rest == repair.marks \ job.task.parts IN
    /\ repair' = IF ok /\ rest # {} THEN [repair EXCEPT !.at = "mark", !.marks = rest]
                 ELSE NoRepair
    /\ UNCHANGED <<closing, drain, sync, locked>>

(***************************************************************************)
(* The upload of one date: syncNow, buildUsageDateSyncSnapshot and         *)
(* uploadUsageDatePackageParts.                                            *)
(***************************************************************************)
StartSync(u) ==
    /\ sync[u].at = "idle"
    /\ ~locked \/ StaleLock
    /\ locked' = TRUE
    /\ sync' = [sync EXCEPT ![u].at = "prepare"]
    /\ UNCHANGED <<disk, job, closing, drain, repair, server, settled, world>>

\* The finally block clears the flag whoever set it last.
Finished(u) ==
    /\ sync' = [sync EXCEPT ![u] = NoSync]
    /\ locked' = FALSE

KindName(k) == IF k \in Dates THEN "daily" ELSE "hourly"
PackedPending(at, d, ids, keys, bad) == \* bug: aggregates of the pending facts only
    [at |-> at, date |-> d, ids |-> ids,
     val |-> [k \in Keys |-> IF k \in keys THEN FromFacts(ids, None, k).dom ELSE None],
     keys |-> keys, bad |-> bad, rev |-> disk.rev, n |-> 1]
Packed(at, d, ids, keys, bad) ==
    [at |-> at, date |-> d, ids |-> ids,
     val |-> [k \in Keys |-> IF k \in keys THEN disk.stats[k].dom ELSE None],
     keys |-> keys, bad |-> bad, rev |-> disk.rev, n |-> 1]
TakeSnapshot(u, d) ==
    LET keys == {k \in KeysOn(d) : \/ k \in Dates \cup disk.made
                                   \/ \E v \in Views : <<v, k>> \in disk.dirty}
        ids   == IdsOn(d) \cap disk.segs \cap disk.pend
        filled == {KindName(k) : k \in {j \in keys : Counted(disk.stats[j], j) # {}}}
        facts == \E i \in IdsOn(d) \cap disk.segs : <<i, d>> \notin Zero
    IN
    /\ sync[u].at = "prepare" /\ repair.at = "idle"
    /\ IF ids = {} /\ filled = {} /\ ~facts
       THEN Finished(u)
       ELSE /\ sync' = [sync EXCEPT ![u] =
                  Packed(IF ids = {} THEN "part" ELSE "segments", d, ids, keys,
                         IF facts THEN {"daily", "hourly"} \ filled ELSE {})]
            /\ UNCHANGED locked
    /\ UNCHANGED <<disk, job, closing, drain, repair, server, settled, world>>

SendSegmentsUnheard(u) == \* bug: acknowledged before the Worker has stored them
    /\ sync[u].at = "segments"
    /\ sync' = [sync EXCEPT ![u].at = "ackSegs"]
    /\ UNCHANGED <<disk, job, closing, drain, repair, locked, server, age, opened, settled, left>>
SendSegments(u) ==
    /\ sync[u].at = "segments"
    /\ \/ /\ srvSegs' = srvSegs \cup sync[u].ids
          /\ sync' = [sync EXCEPT ![u].at = "ackSegs"]
          /\ UNCHANGED left
       \/ /\ Spend("lost")
          /\ srvSegs' \in {srvSegs, srvSegs \cup sync[u].ids}
          /\ sync' = [sync EXCEPT ![u].at = "failSegs"]
    /\ UNCHANGED <<disk, job, closing, drain, repair, locked, srv, net, age, opened, settled>>

\* The Worker overwrites the rows an upload names and keeps the others.
Upsert(old, val, k) ==
    LET rows == {RowOf[i] : i \in {j \in Ids : val[j] > 0 /\ <<j, k>> \notin Zero}}
    IN  [i \in Ids |-> IF RowOf[i] \in rows THEN val[i] ELSE old[i]]

ThisPart(u) == Order[sync[u].date][sync[u].n]
ThisVal(u)  == sync[u].val[ThisPart(u)[2]]
ThisCounted(u) ==
    {i \in Ids : ThisVal(u)[i] > 0 /\ <<i, ThisPart(u)[2]>> \notin Zero}

SendPart(u) ==
    /\ sync[u].at = "part" /\ sync[u].n <= Len(Order[sync[u].date])
    /\ LET p == ThisPart(u)
           stored == [srv EXCEPT ![p] = Upsert(@, ThisVal(u), p[2])]
           go(at) == sync' = [sync EXCEPT ![u].at = at]
       IN  \/ /\ KindName(p[2]) \in sync[u].bad        \* marked inconsistent
              /\ go("failPart") /\ UNCHANGED <<srv, net, left>>
           \/ /\ KindName(p[2]) \notin sync[u].bad
              /\ ThisCounted(u) = {}                   \* empty: cleared unsent
              /\ IF p[2] \in sync[u].keys THEN go("ackPart")
                 ELSE sync' = [sync EXCEPT ![u].n = @ + 1]
              /\ UNCHANGED <<srv, net, left>>
           \/ /\ KindName(p[2]) \notin sync[u].bad /\ ThisCounted(u) # {}
              /\ \/ srv' = stored /\ go("ackPart") /\ UNCHANGED <<net, left>>
                 \/ /\ Spend("lost") /\ srv' \in {srv, stored}
                    /\ go("failPart") /\ UNCHANGED net
                 \/ /\ Spend("late") /\ net' = net \cup {[part |-> p, val |-> ThisVal(u)]}
                    /\ go("failPart") /\ UNCHANGED srv
    /\ UNCHANGED <<disk, job, closing, drain, repair, locked, srvSegs, age, opened, settled>>

LateArrival ==
    /\ \E m \in net :
         /\ srv' = [srv EXCEPT ![m.part] = Upsert(@, m.val, m.part[2])]
         /\ net' = net \ {m}
    /\ UNCHANGED <<disk, job, procs, srvSegs, settled, world>>

SyncStep(u) ==
    \/ /\ sync[u].at \in {"ackSegs", "failSegs"}
       /\ Begin(sync[u].at, u, sync[u].ids, {}, 0)
    \/ /\ sync[u].at \in {"ackPart", "failPart"}
       /\ Begin(sync[u].at, u, {}, {ThisPart(u)}, sync[u].rev[ThisPart(u)])

EndSync(u) ==
    /\ sync[u].at = "part" /\ sync[u].n > Len(Order[sync[u].date])
    /\ Finished(u)
    /\ UNCHANGED <<disk, job, closing, drain, repair, server, settled, world>>

SyncReturns(u, ok) ==
    /\ CASE sync[u].at = "ackSegs" ->
              /\ sync' = IF ok THEN [sync EXCEPT ![u].at = "part", ![u].ids = {}]
                         ELSE [sync EXCEPT ![u].at = "failSegs"]
              /\ UNCHANGED locked
         [] sync[u].at = "failSegs" -> Finished(u)
         [] sync[u].at = "ackPart" /\ ~ok ->
              sync' = [sync EXCEPT ![u].at = "failPart"] /\ UNCHANGED locked
         [] sync[u].at = "failPart" /\ ~ok -> Finished(u)
         [] OTHER ->
              /\ sync' = [sync EXCEPT ![u].at = "part", ![u].n = @ + 1]
              /\ UNCHANGED locked
    /\ UNCHANGED <<closing, drain, repair>>

\* The caller's promise settles.
Reply(ok) ==
    /\ job' = Free
    /\ \/ job.task.who = "session" /\ SessionReturns(ok)
       \/ job.task.who = "drain"   /\ DrainReturns(ok)
       \/ job.task.who = "repair"  /\ RepairReturns(ok)
       \/ job.task.who = "startup" /\ UNCHANGED procs
       \/ \E u \in Syncs : job.task.who = u /\ SyncReturns(u, ok)
    /\ UNCHANGED <<disk, server, settled, age, opened>>

Return ==
    /\ job.at = "written" \/ (job.at = "read" /\ NothingToDo)
    /\ Reply(TRUE) /\ UNCHANGED left

\* storage_hard_limit before the write, usage_settlement_journal_full, or
\* storage_hard_limit_unresolved after a write that emergency could not absorb.
Throw ==
    \/ job.at = "read" /\ ~NothingToDo /\ Spend("refuse") /\ Reply(FALSE)
    \/ job.at = "written" /\ job.hit /\ Reply(FALSE) /\ UNCHANGED left

\* The service worker is terminated; memory is lost, storage is kept.
Crash ==
    /\ Spend("crash")
    /\ job' = Free /\ closing' = Idle /\ drain' = NoDrain /\ repair' = NoRepair
    /\ sync' = [u \in Syncs |-> NoSync] /\ locked' = FALSE
    /\ UNCHANGED <<disk, server, age, opened, settled>>

Midnight(d) ==
    /\ age[d] < MaxAge
    /\ age' = [age EXCEPT ![d] = @ + 1]
    /\ UNCHANGED <<disk, job, procs, server, settled, opened, left>>

Init ==
    /\ disk = NewDisk /\ job = Free
    /\ closing = Idle /\ drain = NoDrain /\ repair = NoRepair
    /\ sync = [u \in Syncs |-> NoSync] /\ locked = FALSE
    /\ srvSegs = {} /\ srv = [p \in Parts |-> None] /\ net = {}
    /\ age = [d \in Dates |-> 0]
    /\ opened = Ids /\ settled = {} /\ left = Budget

Queue == \/ WriteJournal \/ WriteSettlement \/ ClearJournal \/ WriteReconciliation
         \/ WriteSegmentAck \/ WriteSegmentFailure
         \/ WritePartAck \/ WritePartFailure \/ WriteMark \/ WriteRebuiltTable
         \/ Return
Steps == \/ SessionStep \/ DrainStep \/ RepairStep \/ StartReconcile
         \/ RepairReadsFacts \/ RepairReadsTable
         \/ \E u \in Syncs : SyncStep(u)
Sync(u) == StartSync(u) \/ (\E d \in Dates : TakeSnapshot(u, d))
             \/ SendSegments(u) \/ SendPart(u) \/ EndSync(u)

Next == \/ Queue \/ Steps \/ StartDrain
        \/ \E i \in Ids : CloseSegment(i)
        \/ \E u \in Syncs : Sync(u)
        \/ \E k \in Keys : RepairReadsSegments(k)
        \/ ScheduledMaintenance \/ PressureInWrite \/ PressureElsewhere
        \/ Throw \/ Crash \/ LateArrival
        \/ \E d \in Dates : Midnight(d)

Spec == Init /\ [][Next]_vars
=============================================================================
