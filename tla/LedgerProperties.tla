-------------------------- MODULE LedgerProperties --------------------------
(***************************************************************************)
(* What the usage ledger promises.  The MC modules check these;            *)
(* LedgerProofs proves the ones that hold whatever the pressure, the       *)
(* crashes, the repairs and the overlapping uploads, and LedgerCountProofs *)
(* the others under the hypotheses they need.                              *)
(***************************************************************************)
EXTENDS UsageLedger

\* Every variable has the shape the code gives it: the stored record, the
\* queue with one task, the callers' progress, the Worker's rows.
TypeOK ==
    /\ disk \in Disk
    /\ job \in Job
    /\ closing \in Closing
    /\ drain \in Draining
    /\ repair \in Repairing
    /\ sync \in [Syncs -> Package]
    /\ \A u \in Syncs : sync[u].at \in {"ackPart", "failPart"} =>
          sync[u].n \in DOMAIN Order[sync[u].date]
    /\ locked \in BOOLEAN
    /\ srvSegs \subseteq Ids
    /\ srv \in [Parts -> Counts]
    /\ net \subseteq [part : Parts, val : Counts]
    /\ age \in [Dates -> Nat]
    /\ opened \subseteq Ids
    /\ settled \subseteq Ids
    /\ left \in [Faults -> Nat]

\* A settlement that was written once is never lost: the segment is on disk,
\* in the Worker's database, or counted in the compacted facts, whatever
\* pruning, emergency compaction, crashes and late acknowledgements do.
FactsPreserved ==
    \A i \in settled : i \in disk.segs \/ i \in srvSegs \/ disk.comp[i] > 0

\* A segment on disk that the Worker has not acknowledged is queued for
\* upload, so no sequence of acknowledgements, failures and compactions of
\* the outbox strands a fact that will never be sent.
UnackedStaysQueued == disk.segs \ disk.up \subseteq disk.pend

\* What carries uploadedAt, and so may be pruned, is on the Worker.
UploadedIsOnServer == disk.up \subseteq srvSegs

\* Maintenance may change the disk under a task that has read it.  What the
\* task read still covers the disk: every segment, at least as unacknowledged
\* as it is now, and queued if so.  This is why a stale write of the whole
\* segments key cannot lose a fact.
SnapshotCoversDisk ==
    job.at = "read" =>
        /\ disk.segs \subseteq job.snap.segs
        /\ disk.segs \cap job.snap.up \subseteq disk.up
        /\ job.snap.up \subseteq srvSegs
        /\ job.snap.segs \ job.snap.up \subseteq job.snap.pend

\* An acknowledgement, in the uploader's hands or queued, names only segments
\* the Worker has.
AcksAreTrue ==
    /\ \A u \in Syncs : sync[u].at = "ackSegs" => sync[u].ids \subseteq srvSegs
    /\ job.task.op = "ackSegs" => job.task.ids \subseteq srvSegs

\* Each segment's time is counted once: an aggregate never holds a segment's
\* contribution twice, neither as domain rows nor as compacted facts, and a
\* segment is not both a raw fact and a compacted one (a rebuild would add
\* the two).  This is what a replay of the journal must not break.
CountedOnce ==
    \A i \in Ids :
        /\ \A k \in Keys : disk.stats[k].dom[i] + disk.stats[k].cmp[i] <= 1
        /\ disk.comp[i] <= 1
        /\ i \in disk.segs => disk.comp[i] = 0

\* A raw fact on disk is in the materialised aggregates of its date and hours
\* while those exist: no concurrent read-modify-write overwrites them.
AggregatesComplete ==
    \A i \in disk.segs : \A k \in KeysOf(i) \cap disk.made :
        disk.stats[k].dom[i] + disk.stats[k].cmp[i] >= 1

\* The outbox tells the truth: an aggregate that is not dirty has been
\* received by the Worker with everything it counts.  An answer to an older
\* snapshot never clears a newer change.
CleanMeansDelivered ==
    \A p \in Parts :
        p[2] \in disk.made /\ p \notin disk.dirty =>
            \A i \in Counted(disk.stats[p[2]], p[2]) : srv[p][i] > 0

\* An aggregate with raw facts waiting for upload is itself waiting, so the
\* pruning of clean aggregates never takes one whose facts are unsent.
PendingKeepsKeyDirty ==
    \A i \in disk.segs \ disk.up : \A k \in KeysOf(i) \cap disk.made :
        \A v \in Views : <<v, k>> \in disk.dirty

\* What the Worker has counted it keeps counting: an upload of an aggregate
\* rebuilt from fewer facts never overwrites a fuller one.
ServerNeverShrinks ==
    [][\A p \in Parts, i \in Ids : srv[p][i] > 0 => srv'[p][i] > 0]_vars

\* The materialised aggregates of the current day stay on disk (the retention
\* table of docs/STATS_STORAGE_FOUNDATION.md keeps them a day or a week).
TodayKept ==
    [][\A k \in disk.made : age[DayOf(k)] = 0 => k \in disk'.made]_vars

\* A segment leaves the disk only after the Worker has it or as part of an
\* emergency that records it in the compacted facts.
NeverDroppedSilently ==
    [][\A i \in disk.segs \ disk'.segs :
          i \in srvSegs \/ disk'.comp[i] > disk.comp[i]]_vars

\* The aggregates and the Worker's rows behave like a book and its copies.
KeyOfPart(p) == p[2]
Book == INSTANCE UsageBook WITH
    Facts <- Ids, Copies <- Parts, KeyOf <- KeyOfPart,
    book <- [k \in Keys |-> {i \in Ids : disk.stats[k].dom[i] > 0}],
    copy <- [p \in Parts |-> {i \in Ids : srv[p][i] > 0}]
BehavesLikeABook == Book!Spec

(***************************************************************************)
(* Liveness.                                                               *)
(***************************************************************************)
\* The queue drains by itself (queueMicrotask) and is first in, first out
\* within a priority, so every caller's task gets its turn; the sync alarm
\* and every start of the worker begin syncs and drains again and
\* again.  Faults, settlements and maintenance have no fairness.
Fairness ==
    /\ WF_vars(Queue)
    /\ SF_vars(SessionStep) /\ SF_vars(DrainStep) /\ SF_vars(StartDrain)
    /\ \A u \in Syncs : /\ WF_vars(SendSegments(u) \/ SendPart(u) \/ EndSync(u))
                        /\ SF_vars(SyncStep(u))
                        /\ SF_vars(StartSync(u) \/ \E d \in Dates : TakeSnapshot(u, d))

FairSpec == Spec /\ Fairness

\* Settlements are finitely many here, so each of the three queues must empty
\* again and again; not only does every entry leave at some time, the last of
\* them leaves too.

\* The journal: every journalled settlement is replayed and its entry removed.
JournalDrains == []<>(disk.journal = {})

\* The facts queued for upload: all are acknowledged or compacted.
PendingIsUploaded == []<>(disk.segs \cap disk.pend = {})

\* The aggregate outboxes: retries, revision mismatches and overlapping runs do
\* not keep an aggregate dirty for ever.
DirtyIsCleared == []<>(disk.dirty = {})
=============================================================================
