---------------------------- MODULE LedgerProofs ----------------------------
EXTENDS LedgerProperties, TLAPS

(***************************************************************************)
(* Proofs about the usage ledger, for every set of segments, hours, views  *)
(* and syncs, every budget of faults and every kind of storage pressure.   *)
(*                                                                         *)
(* First the type invariant, action by action.  Then the facts: FactInv    *)
(* says that a fact is on disk, on the Worker or compacted, that what the  *)
(* Worker lacks is queued, and that what a running task has read covers    *)
(* the disk.  The last part is what makes it inductive: maintenance may    *)
(* change the disk between a task's read and its write, but it only        *)
(* shrinks the facts (Shrunk), so the stale write puts back no less.       *)
(***************************************************************************)

\* Marking outboxes dirty keeps the stored record well formed.
LEMMA MarkDirtyType ==
    ASSUME NEW s \in Disk, NEW parts \in SUBSET Parts
    PROVE  MarkDirty(s, parts) \in Disk
<1> DEFINE rev == [p \in Parts |-> IF p \in parts THEN s.rev[p] + 1 ELSE s.rev[p]]
<1>1. rev \in [Parts -> Nat]
  BY DEF Disk
<1>2. s.dirty \cup parts \in SUBSET Parts
  BY DEF Disk
<1> HIDE DEF rev
<1>3. [s EXCEPT !.dirty = s.dirty \cup parts, !.rev = rev] \in Disk
  BY <1>1, <1>2 DEF Disk
<1> QED  BY <1>3 DEF MarkDirty, rev

\* Settling a segment keeps the stored record well formed.
LEMMA AddSegmentType ==
    ASSUME NEW s \in Disk, NEW i \in Ids
    PROVE  AddSegment(s, i) \in Disk
<1> DEFINE stats == [k \in Keys |-> IF k \in KeysOf(i)
                       THEN AddTo(s.stats[k], i) ELSE s.stats[k]]
           t == [s EXCEPT !.segs = s.segs \cup {i}, !.pend = s.pend \cup {i},
                          !.made = s.made \cup KeysOf(i), !.stats = stats]
<1>1. KeysOf(i) \in SUBSET Keys
  BY LedgerAssumption DEF KeysOf, Keys
<1>2. ASSUME NEW st \in Stat
      PROVE  AddTo(st, i) \in Stat
  BY DEF AddTo, Stat, Counts
<1>3. stats \in [Keys -> Stat]
  BY <1>2 DEF Disk
<1> HIDE DEF stats
<1>4. t \in Disk
  BY <1>1, <1>3 DEF Disk
<1> HIDE DEF t
<1>5. MarkDirty(t, Views \X KeysOf(i)) \in Disk
  BY <1>1, <1>4, MarkDirtyType DEF Parts
<1> QED  BY <1>5 DEF AddSegment, t, stats

\* Compacting the outboxes keeps the stored record well formed.
LEMMA CompactOutboxesType ==
    ASSUME NEW s \in Disk PROVE CompactOutboxes(s) \in Disk
  BY DEF CompactOutboxes, Disk

\* Pruning segments and aggregates keeps the stored record well formed.
LEMMA PruneType ==
    ASSUME NEW s \in Disk, NEW everything \in BOOLEAN
    PROVE  PruneSegments(s, everything) \in Disk /\ PruneAggregates(s, everything) \in Disk
  BY DEF PruneSegments, PruneAggregates, Disk, EmptyStat, None, Stat, Counts

\* So does an emergency, which turns pending segments into compacted facts.
LEMMA DropPendingType ==
    ASSUME NEW s \in Disk, NEW D \in SUBSET Ids
    PROVE  DropPending(s, D) \in Disk
<1> DEFINE comp == [i \in Ids |-> IF i \in D THEN s.comp[i] + 1 ELSE s.comp[i]]
           t == [s EXCEPT !.segs = s.segs \ D, !.up = s.up \ D,
                          !.pend = (s.pend \ D) \cap s.segs, !.comp = comp]
<1>1. comp \in Counts
  BY DEF Disk, Counts
<1> HIDE DEF comp
<1>2. t \in Disk
  BY <1>1 DEF Disk
<1>3. UNION {KeysOf(i) : i \in D} \in SUBSET Keys
  BY LedgerAssumption DEF KeysOf, Keys
<1> HIDE DEF t
<1>4. MarkDirty(t, Views \X UNION {KeysOf(i) : i \in D}) \in Disk
  BY <1>2, <1>3, MarkDirtyType DEF Parts
<1> QED  BY <1>4 DEF DropPending, t, comp

\* So does filling in the aggregates that are missing.
LEMMA ReconciledType ==
    ASSUME NEW s \in Disk PROVE Reconciled(s) \in Disk
<1> DEFINE seen == {k \in Keys : HasFacts(s.segs, s.comp, k)}
           stats == [k \in Keys |-> IF k \in seen \ s.made
                                    THEN FromFacts(s.segs, s.comp, k) ELSE s.stats[k]]
           t == [s EXCEPT !.made = s.made \cup seen, !.stats = stats,
                          !.pend = (s.pend \cap (s.segs \ s.up)) \cup (s.segs \ s.up),
                          !.reconciled = TRUE]
<1>1. seen \in SUBSET Keys
  OBVIOUS
<1>2. ASSUME NEW k \in Keys PROVE FromFacts(s.segs, s.comp, k) \in Stat
  BY DEF FromFacts, Stat, Counts, Disk
<1>3. stats \in [Keys -> Stat]
  BY <1>2 DEF Disk
<1> HIDE DEF seen, stats
<1>4. t \in Disk
  BY <1>1, <1>3 DEF Disk
<1> HIDE DEF t
<1>5. MarkDirty(t, Views \X seen) \in Disk
  BY <1>1, <1>4, MarkDirtyType DEF Parts
<1> QED  BY <1>5 DEF Reconciled, t, stats, seen

\* Whatever maintenance does, the stored record stays well formed.
LEMMA MaintainedType ==
    ASSUME NEW s \in Disk
    PROVE  /\ Routine(s) \in Disk
           /\ Cleared(s) \in Disk
           /\ Maintained(s) \subseteq Disk
<1>1. Routine(s) \in Disk
  BY CompactOutboxesType, PruneType DEF Routine
<1>2. Cleared(s) \in Disk
  BY <1>1, PruneType DEF Cleared
<1>3. Droppable(Cleared(s)) \subseteq Ids
  BY <1>2 DEF Droppable, Disk
<1>4. Maintained(s) \subseteq Disk
  BY <1>1, <1>2, <1>3, DropPendingType DEF Maintained
<1> QED  BY <1>1, <1>2, <1>4

\* The resting values of every caller are of the shape the type invariant asks.
LEMMA InitialValues ==
    /\ NewDisk \in Disk
    /\ Free \in Job
    /\ Idle \in Closing
    /\ NoDrain \in Draining
    /\ NoRepair \in Repairing
    /\ NoSync \in Package
<1>1. NewDisk \in Disk
  BY DEF NewDisk, Disk, EmptyStat, None, Stat, Counts
<1>2. Free \in Job
  BY <1>1 DEF Free, Job, Task, Ops, Callers
<1>3. Keys # {} /\ (CHOOSE k \in Keys : TRUE) \in Keys /\ (CHOOSE d \in Dates : TRUE) \in Dates
  BY LedgerAssumption DEF Keys
<1>4. NoRepair \in Repairing
  BY <1>3 DEF NoRepair, Repairing, EmptyStat, None, Stat, Counts
<1>5. NoSync \in Package
  BY <1>3 DEF NoSync, Package, None, Counts
<1> QED  BY <1>1, <1>2, <1>4, <1>5 DEF Idle, Closing, NoDrain, Draining, SettleAt

\* The fresh installation satisfies the type invariant.
LEMMA InitType == Init => TypeOK
<1> SUFFICES ASSUME Init PROVE TypeOK
  OBVIOUS
<1>1. srv \in [Parts -> Counts]
  BY DEF Init, None, Counts
<1>2. \A u \in Syncs : sync[u] = NoSync
  BY DEF Init
<1> QED
  BY <1>1, <1>2, InitialValues, LedgerAssumption DEF Init, TypeOK, NoSync

\* A queued task is well formed when its caller names members of Ids and Parts.
LEMMA BeginType ==
    ASSUME TypeOK, NEW op \in Ops, NEW who \in Callers, NEW ids \in SUBSET Ids,
           NEW parts \in SUBSET Parts, NEW rev \in Nat, Begin(op, who, ids, parts, rev)
    PROVE  TypeOK'
<1>1. job' \in Job
  BY DEF Begin, TypeOK, Job, Task
<1> QED  BY <1>1 DEF Begin, TypeOK, procs, server, world

\* Writing leaves the queue and everything but storage well formed.
LEMMA WritingType ==
    ASSUME TypeOK, NEW op, Writing(op), disk' \in Disk, settled' \subseteq Ids
    PROVE  TypeOK'
<1>1. job' \in Job
  BY InitialValues DEF Writing, TypeOK, Job
<1> QED  BY <1>1 DEF Writing, TypeOK, procs, server, world

\* Spending a fault keeps the budget a function to the naturals.
LEMMA SpendType ==
    ASSUME TypeOK, NEW f \in Faults, Spend(f)
    PROVE  left' \in [Faults -> Nat]
  BY DEF Spend, TypeOK

\* Replacing the rows of one kind of aggregate keeps the disk well formed.
LEMMA WriteTableType ==
    ASSUME disk \in Disk, NEW K, NEW made \in SUBSET Keys,
           NEW stats \in [Keys -> Stat], NEW sent \in SUBSET Keys
    PROVE  WriteTable(K, made, stats, sent) \in Disk
<1> DEFINE table == [k \in Keys |-> IF k \in K THEN stats[k] ELSE disk.stats[k]]
<1>1. table \in [Keys -> Stat]
  BY DEF Disk
<1> HIDE DEF table
<1>2. [disk EXCEPT !.made = (disk.made \ K) \cup (made \cap K),
                   !.sent = (disk.sent \ K) \cup (sent \cap K),
                   !.stats = table] \in Disk
  BY <1>1 DEF Disk
<1> QED  BY <1>2 DEF WriteTable, table

\* Replacing one outbox keeps the disk well formed.
LEMMA WriteOutboxType ==
    ASSUME NEW d \in Disk, NEW P, NEW dirty \in SUBSET Parts, NEW rev \in [Parts -> Nat]
    PROVE  WriteOutbox(d, P, dirty, rev) \in Disk
<1> DEFINE revs == [p \in Parts |-> IF p \in P THEN rev[p] ELSE d.rev[p]]
<1>1. revs \in [Parts -> Nat]
  BY DEF Disk
<1> HIDE DEF revs
<1>2. [d EXCEPT !.dirty = (d.dirty \ P) \cup (dirty \cap P), !.rev = revs] \in Disk
  BY <1>1 DEF Disk
<1> QED  BY <1>2 DEF WriteOutbox, revs

\* Acknowledging an aggregate keeps the stored record well formed.
LEMMA AckPartType ==
    ASSUME NEW s \in Disk, NEW p \in Parts PROVE AckPart(s, p) \in Disk
  BY DEF AckPart, Disk

\* Every write of the queue stores a well-formed disk.
LEMMA QueueType ==
    ASSUME TypeOK,
           \/ WriteJournal \/ WriteSettlement \/ ClearJournal \/ WriteReconciliation
           \/ WriteSegmentAck \/ WriteSegmentFailure \/ WritePartAck
           \/ WritePartFailure \/ WriteMark \/ WriteRebuiltTable
    PROVE  TypeOK'
<1> USE DEF TypeOK
<1>1. job.snap \in Disk /\ job.task.ids \subseteq Ids /\ job.task.parts \subseteq Parts
  BY DEF Job, Task
<1>2. CASE WriteJournal
  <2>1. disk' \in Disk
    BY <1>1, <1>2 DEF WriteJournal, Disk
  <2> QED  BY <1>2, <2>1, WritingType DEF WriteJournal
<1>3. CASE WriteSettlement
  <2>1. PICK i \in job.task.ids :
          LET s == AddSegment(job.snap, i) IN
          /\ disk' = [disk EXCEPT !.segs = s.segs, !.pend = s.pend, !.up = job.snap.up,
                                  !.stats = s.stats, !.made = s.made, !.sent = s.sent,
                                  !.dirty = s.dirty, !.rev = s.rev]
          /\ settled' = settled \cup {i}
    BY <1>3 DEF WriteSettlement
  <2>2. AddSegment(job.snap, i) \in Disk
    BY <1>1, AddSegmentType
  <2>3. disk' \in Disk
    BY <1>1, <2>1, <2>2 DEF Disk
  <2> QED  BY <1>1, <1>3, <2>1, <2>3, WritingType DEF WriteSettlement
<1>4. CASE ClearJournal
  <2>1. disk' \in Disk
    BY <1>1, <1>4 DEF ClearJournal, Disk
  <2> QED  BY <1>4, <2>1, WritingType DEF ClearJournal
<1>5. CASE WriteReconciliation
  <2>1. Reconciled(job.snap) \in Disk
    BY <1>1, ReconciledType
  <2>2. disk' \in Disk
    BY <1>5, <2>1 DEF WriteReconciliation, Disk
  <2> QED  BY <1>5, <2>2, WritingType DEF WriteReconciliation
<1>6. CASE WriteSegmentAck
  <2>1. AckSegments(job.snap, job.task.ids) \in Disk
    BY <1>1 DEF AckSegments, Disk
  <2>2. disk' \in Disk
    BY <1>6, <2>1 DEF WriteSegmentAck, Disk
  <2> QED  BY <1>6, <2>2, WritingType DEF WriteSegmentAck
<1>7. CASE WriteSegmentFailure
  <2>1. disk' \in Disk
    BY <1>1, <1>7 DEF WriteSegmentFailure, Disk
  <2> QED  BY <1>7, <2>1, WritingType DEF WriteSegmentFailure
<1>8. CASE WritePartAck
  <2>1. PICK p \in job.task.parts :
          LET s == AckPart(job.snap, p)
              K == SameKind(p[2])
          IN  disk' = WriteOutbox(WriteTable(K, s.made, s.stats, s.sent),
                                  {p[1]} \X K, s.dirty, s.rev)
    BY <1>8 DEF WritePartAck
  <2> DEFINE s == AckPart(job.snap, p)
  <2>2. s \in Disk
    BY <1>1, AckPartType
  <2> HIDE DEF s
  <2>3. WriteTable(SameKind(p[2]), s.made, s.stats, s.sent) \in Disk
    BY <2>2, WriteTableType DEF Disk
  <2>4. disk' \in Disk
    BY <2>1, <2>2, <2>3, WriteOutboxType DEF Disk, s
  <2> QED  BY <1>8, <2>4, WritingType DEF WritePartAck
<1>9. CASE WritePartFailure
  <2>1. PICK p \in job.task.parts :
          disk' = WriteOutbox(disk, {p[1]} \X SameKind(p[2]),
                              job.snap.dirty \cup {p}, job.snap.rev)
    BY <1>9 DEF WritePartFailure
  <2>2. job.snap.dirty \cup {p} \in SUBSET Parts /\ job.snap.rev \in [Parts -> Nat]
    BY <1>1 DEF Disk
  <2>3. disk' \in Disk
    BY <2>1, <2>2, WriteOutboxType
  <2> QED  BY <1>9, <2>3, WritingType DEF WritePartFailure
<1>10. CASE WriteMark
  <2>1. PICK p \in job.task.parts :
          LET s == MarkDirty(job.snap, {p}) IN
          disk' = WriteOutbox(disk, {p[1]} \X SameKind(p[2]), s.dirty, s.rev)
    BY <1>10 DEF WriteMark
  <2> DEFINE s == MarkDirty(job.snap, {p})
  <2>2. s \in Disk
    BY <1>1, MarkDirtyType
  <2> HIDE DEF s
  <2>3. disk' \in Disk
    BY <2>1, <2>2, WriteOutboxType DEF Disk, s
  <2> QED  BY <1>10, <2>3, WritingType DEF WriteMark
<1>11. CASE WriteRebuiltTable
  <2>1. repair.made \in SUBSET Keys /\ repair.stats \in [Keys -> Stat]
          /\ repair.sent \in SUBSET Keys
    BY DEF Repairing
  <2>2. disk' \in Disk
    BY <1>11, <2>1, WriteTableType DEF WriteRebuiltTable
  <2> QED  BY <1>11, <2>2, WritingType DEF WriteRebuiltTable
<1> QED
  BY <1>2, <1>3, <1>4, <1>5, <1>6, <1>7, <1>8, <1>9, <1>10, <1>11

\* A run that has not sent everything is at a part of its date.
LEMMA ThisPartType ==
    ASSUME TypeOK, NEW u \in Syncs, sync[u].n \in DOMAIN Order[sync[u].date]
    PROVE  ThisPart(u) \in Parts
<1>1. sync[u].date \in Dates
  BY DEF TypeOK, Package
<1>2. Order[sync[u].date] \in Seq(Parts)
  BY <1>1, LedgerAssumption
<1> QED  BY <1>2 DEF ThisPart

\* The callers' progress stays well formed when their task returns or throws.
LEMMA ReplyType ==
    ASSUME TypeOK, NEW ok \in BOOLEAN, Reply(ok), left' \in [Faults -> Nat]
    PROVE  TypeOK'
<1>1. job' \in Job
  BY InitialValues DEF Reply
<1>2. CASE SessionReturns(ok)
  <2>1. closing' \in Closing
    BY <1>2, InitialValues DEF SessionReturns, TypeOK, Closing, SettleAt
  <2> QED  BY <1>1, <1>2, <2>1 DEF TypeOK, Reply, SessionReturns, server
<1>3. CASE DrainReturns(ok)
  <2>1. drain' \in Draining
    BY <1>3, InitialValues DEF DrainReturns, TypeOK, Draining, SettleAt
  <2> QED  BY <1>1, <1>3, <2>1 DEF TypeOK, Reply, DrainReturns, server
<1>4. CASE RepairReturns(ok)
  <2>1. repair' \in Repairing
    BY <1>4, InitialValues DEF RepairReturns, TypeOK, Repairing
  <2> QED  BY <1>1, <1>4, <2>1 DEF TypeOK, Reply, RepairReturns, server
<1>5. CASE UNCHANGED procs
  BY <1>1, <1>5 DEF TypeOK, Reply, procs, server
<1>6. ASSUME NEW u \in Syncs, SyncReturns(u, ok) PROVE TypeOK'
  <2>1. sync[u] \in Package
    BY DEF TypeOK
  <2>2. PICK q \in Package :
          /\ sync' = [sync EXCEPT ![u] = q]
          /\ q.at \in {"ackPart", "failPart"} => q.n = sync[u].n /\ q.date = sync[u].date
                                                  /\ sync[u].at = "ackPart"
    <3>1. CASE sync' = [sync EXCEPT ![u] = NoSync]
      BY <3>1, InitialValues DEF NoSync
    <3>2. CASE sync' = [sync EXCEPT ![u].at = "part", ![u].ids = {}]
      <4> DEFINE q == [sync[u] EXCEPT !.at = "part", !.ids = {}]
      <4>1. q \in Package /\ q.at = "part"
        BY <2>1 DEF Package
      <4> QED  BY <3>2, <4>1 DEF TypeOK
    <3>3. CASE sync' = [sync EXCEPT ![u].at = "failSegs"]
      <4> DEFINE q == [sync[u] EXCEPT !.at = "failSegs"]
      <4>1. q \in Package /\ q.at = "failSegs"
        BY <2>1 DEF Package
      <4> QED  BY <3>3, <4>1 DEF TypeOK
    <3>4. CASE sync[u].at = "ackPart" /\ sync' = [sync EXCEPT ![u].at = "failPart"]
      <4> DEFINE q == [sync[u] EXCEPT !.at = "failPart"]
      <4>1. q \in Package /\ q.n = sync[u].n /\ q.date = sync[u].date
        BY <2>1 DEF Package
      <4> QED  BY <3>4, <4>1 DEF TypeOK
    <3>5. CASE sync' = [sync EXCEPT ![u].at = "part", ![u].n = sync[u].n + 1]
      <4> DEFINE m == sync[u].n + 1
                 q == [sync[u] EXCEPT !.at = "part", !.n = m]
      <4>1. m \in Nat \ {0}
        BY <2>1 DEF Package
      <4> HIDE DEF m
      <4>2. q \in Package /\ q.at = "part"
        BY <2>1, <4>1 DEF Package
      <4>3. sync' = [sync EXCEPT ![u] = q]
        BY <3>5 DEF TypeOK, m
      <4> QED  BY <4>2, <4>3
    <3> QED  BY <1>6, <3>1, <3>2, <3>3, <3>4, <3>5 DEF SyncReturns, Finished
  <2>3. sync' \in [Syncs -> Package]
    BY <2>2 DEF TypeOK
  <2>4. \A v \in Syncs : sync'[v].at \in {"ackPart", "failPart"} =>
          sync'[v].n \in DOMAIN Order[sync'[v].date]
    BY <2>2 DEF TypeOK
  <2>5. locked' \in BOOLEAN
    BY <1>6 DEF SyncReturns, Finished, TypeOK
  <2> QED  BY <1>1, <1>6, <2>3, <2>4, <2>5 DEF TypeOK, Reply, SyncReturns, server
<1> QED
  BY <1>2, <1>3, <1>4, <1>5, <1>6 DEF Reply

\* A run of syncNow may move to any package that is well formed.
LEMMA MoveType ==
    ASSUME TypeOK, NEW u \in Syncs, NEW q \in Package,
           sync' = [sync EXCEPT ![u] = q],
           q.at \in {"ackPart", "failPart"} => q.n \in DOMAIN Order[q.date],
           UNCHANGED <<disk, job, closing, drain, repair, srvSegs, age, opened, settled>>,
           locked' \in BOOLEAN, srv' \in [Parts -> Counts],
           net' \subseteq [part : Parts, val : Counts], left' \in [Faults -> Nat]
    PROVE  TypeOK'
  BY DEF TypeOK

\* The rows the Worker holds after an upload are counts.
LEMMA UpsertType ==
    ASSUME NEW old \in Counts, NEW val \in Counts, NEW k
    PROVE  Upsert(old, val, k) \in Counts
  BY DEF Upsert, Counts

\* A snapshot either finds nothing to send or leaves a package at its first step.
LEMMA SnapshotMoves ==
    ASSUME NEW u \in Syncs, NEW d \in Dates, TakeSnapshot(u, d)
    PROVE  \/ Finished(u)
           \/ \E at \in {"part", "segments"}, ids \in SUBSET Ids, keys \in SUBSET Keys,
                 bad \in SUBSET {"daily", "hourly"} :
                sync' = [sync EXCEPT ![u] = Packed(at, d, ids, keys, bad)]
                  /\ UNCHANGED locked
<1> DEFINE keys == {k \in KeysOn(d) : \/ k \in Dates \cup disk.made
                                     \/ \E v \in Views : <<v, k>> \in disk.dirty}
           ids  == IdsOn(d) \cap disk.segs \cap disk.pend
           filled == {KindName(k) : k \in {j \in keys : Counted(disk.stats[j], j) # {}}}
           facts == \E i \in IdsOn(d) \cap disk.segs : <<i, d>> \notin Zero
           bad == IF facts THEN {"daily", "hourly"} \ filled ELSE {}
           at  == IF ids = {} THEN "part" ELSE "segments"
<1>1. ids \in SUBSET Ids /\ keys \in SUBSET Keys /\ bad \in SUBSET {"daily", "hourly"}
        /\ at \in {"part", "segments"}
  BY DEF IdsOn, KeysOn
<1>2. \/ Finished(u)
      \/ sync' = [sync EXCEPT ![u] = Packed(at, d, ids, keys, bad)] /\ UNCHANGED locked
  BY DEF TakeSnapshot
<1> HIDE DEF keys, ids, filled, facts, bad, at
<1> QED  BY <1>1, <1>2

\* A snapshot of a date is a well-formed package.
LEMMA PackedType ==
    ASSUME TypeOK, NEW at \in {"part", "segments"}, NEW d \in Dates, NEW ids \in SUBSET Ids,
           NEW keys \in SUBSET Keys, NEW bad \in SUBSET {"daily", "hourly"}
    PROVE  Packed(at, d, ids, keys, bad) \in Package /\ Packed(at, d, ids, keys, bad).at = at
<1> DEFINE val == [k \in Keys |-> IF k \in keys THEN disk.stats[k].dom ELSE None]
<1>1. val \in [Keys -> Counts]
  BY DEF TypeOK, Disk, Stat, None, Counts
<1> HIDE DEF val
<1>2. [at |-> at, date |-> d, ids |-> ids, val |-> val, keys |-> keys, bad |-> bad,
       rev |-> disk.rev, n |-> 1] \in Package
  BY <1>1 DEF Package, TypeOK, Disk
<1> QED  BY <1>2 DEF Packed, val

\* Taking a snapshot keeps the type invariant.
LEMMA TakeSnapshotType ==
    ASSUME TypeOK, NEW u \in Syncs, NEW d \in Dates, TakeSnapshot(u, d)
    PROVE  TypeOK'
<1>1. UNCHANGED <<disk, job, closing, drain, repair, server, settled, world>>
  BY DEF TakeSnapshot
<1>2. CASE Finished(u)
  BY <1>1, <1>2, InitialValues, MoveType DEF Finished, TypeOK, NoSync, server, world
<1>3. CASE ~Finished(u)
  <2>1. PICK at \in {"part", "segments"}, ids \in SUBSET Ids, keys \in SUBSET Keys,
             bad \in SUBSET {"daily", "hourly"} :
          sync' = [sync EXCEPT ![u] = Packed(at, d, ids, keys, bad)] /\ UNCHANGED locked
    BY <1>3, SnapshotMoves
  <2>2. /\ Packed(at, d, ids, keys, bad) \in Package
        /\ Packed(at, d, ids, keys, bad).at \notin {"ackPart", "failPart"}
    BY PackedType
  <2> QED  BY <1>1, <2>1, <2>2, MoveType DEF TypeOK, server, world
<1> QED  BY <1>2, <1>3

\* Sending a part, heard or unheard, keeps the type invariant.
LEMMA SendPartType ==
    ASSUME TypeOK, NEW u \in Syncs, SendPart(u)
    PROVE  TypeOK'
<1> DEFINE q(at) == [sync[u] EXCEPT !.at = at]
<1>1. sync[u] \in Package /\ sync[u].n \in DOMAIN Order[sync[u].date]
  <2>1. sync[u] \in Package /\ sync[u].date \in Dates /\ sync[u].n \in Nat \ {0}
    BY DEF TypeOK, Package
  <2>2. Order[sync[u].date] \in Seq(Parts)
    BY <2>1, LedgerAssumption
  <2> QED  BY <2>1, <2>2 DEF SendPart
<1>2. ThisPart(u) \in Parts /\ ThisVal(u) \in Counts
  BY <1>1, ThisPartType DEF ThisVal, Package, Parts
<1>3. [srv EXCEPT ![ThisPart(u)] = Upsert(@, ThisVal(u), ThisPart(u)[2])] \in [Parts -> Counts]
  BY <1>2, UpsertType DEF TypeOK
<1>4. srv' \in [Parts -> Counts]
  BY <1>3 DEF SendPart, TypeOK
<1>5. net' \subseteq [part : Parts, val : Counts]
  <2>1. net' = net \/ net' = net \cup {[part |-> ThisPart(u), val |-> ThisVal(u)]}
    BY DEF SendPart
  <2> QED  BY <1>2, <2>1 DEF TypeOK
<1>6. left' \in [Faults -> Nat]
  BY SpendType DEF SendPart, TypeOK, Faults
<1>7. UNCHANGED <<disk, job, closing, drain, repair, srvSegs, age, opened, settled>>
        /\ locked' \in BOOLEAN
  BY DEF SendPart, TypeOK
<1>8. CASE sync' = [sync EXCEPT ![u].at = "failPart"]
  <2>1. q("failPart") \in Package /\ q("failPart").n = sync[u].n
          /\ q("failPart").date = sync[u].date
    BY <1>1 DEF Package
  <2>2. sync' = [sync EXCEPT ![u] = q("failPart")]
    BY <1>8 DEF TypeOK
  <2> QED  BY <1>1, <1>4, <1>5, <1>6, <1>7, <2>1, <2>2, MoveType
<1>9. CASE sync' = [sync EXCEPT ![u].at = "ackPart"]
  <2>1. q("ackPart") \in Package /\ q("ackPart").n = sync[u].n
          /\ q("ackPart").date = sync[u].date
    BY <1>1 DEF Package
  <2>2. sync' = [sync EXCEPT ![u] = q("ackPart")]
    BY <1>9 DEF TypeOK
  <2> QED  BY <1>1, <1>4, <1>5, <1>6, <1>7, <2>1, <2>2, MoveType
<1>10. CASE sync' = [sync EXCEPT ![u].n = sync[u].n + 1]
  <2> DEFINE m == sync[u].n + 1
             r == [sync[u] EXCEPT !.n = m]
  <2>1. m \in Nat \ {0}
    BY <1>1 DEF Package
  <2>2. sync' = [sync EXCEPT ![u] = r]
    BY <1>10 DEF TypeOK
  <2>3. sync[u].at = "part"
    BY DEF SendPart
  <2> HIDE DEF m
  <2>4. r \in Package /\ r.at = "part"
    BY <1>1, <2>1, <2>3 DEF Package
  <2> HIDE DEF r
  <2> QED  BY <1>4, <1>5, <1>6, <1>7, <2>2, <2>4, MoveType
<1> QED
  BY <1>8, <1>9, <1>10 DEF SendPart

\* The steps by which the callers queue their tasks keep the type invariant.
LEMMA StepsType ==
    ASSUME TypeOK, Steps
    PROVE  TypeOK'
<1>1. CASE SessionStep
  <2>1. closing.at \in Ops /\ closing.ids \in SUBSET Ids
    BY <1>1 DEF SessionStep, TypeOK, Closing, SettleAt, Ops
  <2> QED  BY <1>1, <2>1, BeginType DEF SessionStep, Callers
<1>2. CASE DrainStep
  <2>1. drain.at \in Ops /\ drain.cur \in SUBSET Ids
    BY <1>2 DEF DrainStep, TypeOK, Draining, SettleAt, Ops
  <2> QED  BY <1>2, <2>1, BeginType DEF DrainStep, Callers
<1>3. CASE RepairStep
  <2>1. \A p \in repair.marks : p \in Parts
    BY DEF TypeOK, Repairing
  <2> QED  BY <1>3, <2>1, BeginType DEF RepairStep, Callers, Ops
<1>4. CASE StartReconcile
  BY <1>4, BeginType DEF StartReconcile, Callers, Ops
<1>5. CASE RepairReadsFacts
  <2>1. repair' \in Repairing
    BY <1>5 DEF RepairReadsFacts, TypeOK, Repairing, Disk
  <2> QED  BY <1>5, <2>1 DEF RepairReadsFacts, TypeOK, server, world
<1>6. CASE RepairReadsTable
  <2> DEFINE k == repair.key
             new == FromFacts(repair.segs, repair.comp, k)
  <2>1. k \in Keys /\ new \in Stat
    BY DEF TypeOK, Repairing, FromFacts, Stat, Counts
  <2>2. [disk.stats EXCEPT ![k] = new] \in [Keys -> Stat]
    BY <2>1 DEF TypeOK, Disk
  <2>3. disk.made \cup {k} \in SUBSET Keys /\ disk.made \ {k} \in SUBSET Keys
          /\ disk.sent \ {k} \in SUBSET Keys /\ Views \X {k} \in SUBSET Parts
    BY <2>1 DEF TypeOK, Disk, Parts
  <2>4. repair' \in Repairing
    BY <1>6, <2>2, <2>3 DEF RepairReadsTable, TypeOK, Repairing
  <2> QED  BY <1>6, <2>4 DEF RepairReadsTable, TypeOK, server, world
<1>7. ASSUME NEW u \in Syncs, SyncStep(u) PROVE TypeOK'
  <2>1. sync[u].ids \in SUBSET Ids /\ u \in Callers
    BY DEF TypeOK, Package, Callers
  <2>2. CASE sync[u].at \in {"ackSegs", "failSegs"} /\ Begin(sync[u].at, u, sync[u].ids, {}, 0)
    BY <2>1, <2>2, BeginType DEF Ops
  <2>3. CASE /\ sync[u].at \in {"ackPart", "failPart"}
             /\ Begin(sync[u].at, u, {}, {ThisPart(u)}, sync[u].rev[ThisPart(u)])
    <3>1. ThisPart(u) \in Parts
      BY <2>3, ThisPartType DEF TypeOK
    <3>2. sync[u].rev[ThisPart(u)] \in Nat
      BY <3>1 DEF TypeOK, Package
    <3>3. {ThisPart(u)} \in SUBSET Parts /\ sync[u].at \in Ops /\ {} \in SUBSET Ids
      BY <2>3, <3>1 DEF Ops
    <3> QED  BY <2>1, <2>3, <3>2, <3>3, BeginType
  <2> QED  BY <1>7, <2>2, <2>3 DEF SyncStep
<1> QED
  BY <1>1, <1>2, <1>3, <1>4, <1>5, <1>6, <1>7 DEF Steps

\* Every other step of a sync keeps the type invariant.
LEMMA SyncType ==
    ASSUME TypeOK, NEW u \in Syncs, Sync(u)
    PROVE  TypeOK'
<1>1. sync[u] \in Package
  BY DEF TypeOK
<1>2. CASE StartSync(u)
  <2> DEFINE q == [sync[u] EXCEPT !.at = "prepare"]
  <2>1. q \in Package /\ q.at = "prepare"
    BY <1>1 DEF Package
  <2>2. sync' = [sync EXCEPT ![u] = q]
    BY <1>2 DEF StartSync, TypeOK
  <2> QED  BY <1>2, <2>1, <2>2, MoveType DEF StartSync, TypeOK, server, world
<1>3. CASE \E d \in Dates : TakeSnapshot(u, d)
  BY <1>3, TakeSnapshotType
<1>4. CASE SendSegments(u)
  <2>1. PICK at \in {"ackSegs", "failSegs"} : sync' = [sync EXCEPT ![u].at = at]
    BY <1>4 DEF SendSegments
  <2> DEFINE q == [sync[u] EXCEPT !.at = at]
  <2>2. q \in Package /\ q.at \notin {"ackPart", "failPart"}
    BY <1>1 DEF Package
  <2>3. sync' = [sync EXCEPT ![u] = q]
    BY <2>1 DEF TypeOK
  <2> HIDE DEF q
  <2>4. sync' \in [Syncs -> Package] /\ \A v \in Syncs : sync'[v].at \in {"ackPart", "failPart"} =>
          sync'[v].n \in DOMAIN Order[sync'[v].date]
    BY <2>2, <2>3 DEF TypeOK
  <2>5. srvSegs' \subseteq Ids
    BY <1>1, <1>4 DEF SendSegments, TypeOK, Package
  <2>6. left' \in [Faults -> Nat]
    BY <1>4, SpendType DEF SendSegments, TypeOK, Faults
  <2> QED  BY <1>4, <2>4, <2>5, <2>6 DEF SendSegments, TypeOK
<1>5. CASE SendPart(u)
  BY <1>5, SendPartType
<1>6. CASE EndSync(u)
  BY <1>6, InitialValues, MoveType DEF EndSync, Finished, TypeOK, NoSync, server, world
<1> QED
  BY <1>2, <1>3, <1>4, <1>5, <1>6 DEF Sync

\* Every step keeps the type invariant.
LEMMA NextType ==
    ASSUME TypeOK, [Next]_vars
    PROVE  TypeOK'
<1>1. CASE Queue
  <2>1. CASE Return
    BY <2>1, ReplyType DEF Return, TypeOK
  <2> QED  BY <1>1, <2>1, QueueType DEF Queue
<1>2. CASE Steps
  BY <1>2, StepsType
<1>3. CASE StartDrain
  <2>1. drain' \in Draining
    BY <1>3 DEF StartDrain, TypeOK, Draining, SettleAt, Disk
  <2> QED  BY <1>3, <2>1 DEF StartDrain, TypeOK, server, world
<1>4. ASSUME NEW i \in Ids, CloseSegment(i) PROVE TypeOK'
  <2>1. closing' \in Closing /\ opened' \subseteq Ids
    BY <1>4 DEF CloseSegment, TypeOK, Closing, SettleAt
  <2> QED  BY <1>4, <2>1 DEF CloseSegment, TypeOK, server
<1>5. ASSUME NEW u \in Syncs, Sync(u) PROVE TypeOK'
  BY <1>5, SyncType
<1>6. ASSUME NEW k \in Keys, RepairReadsSegments(k) PROVE TypeOK'
  <2>1. repair' \in Repairing
    BY <1>6, InitialValues DEF RepairReadsSegments, TypeOK, Repairing, Disk
  <2>2. left' \in [Faults -> Nat]
    BY <1>6, SpendType DEF RepairReadsSegments, Faults
  <2> QED  BY <1>6, <2>1, <2>2 DEF RepairReadsSegments, TypeOK, server
<1>7. CASE ScheduledMaintenance
  <2>1. disk' \in Disk
    BY <1>7, MaintainedType DEF ScheduledMaintenance, TypeOK
  <2> QED  BY <1>7, <2>1 DEF ScheduledMaintenance, TypeOK, procs, server, world
<1>8. CASE PressureInWrite
  <2>1. disk' \in Disk
    BY <1>8, MaintainedType DEF PressureInWrite, TypeOK
  <2>2. job' \in Job
    BY <1>8 DEF PressureInWrite, TypeOK, Job
  <2>3. left' \in [Faults -> Nat]
    BY <1>8, SpendType DEF PressureInWrite, Faults
  <2> QED  BY <1>8, <2>1, <2>2, <2>3 DEF PressureInWrite, TypeOK, procs, server
<1>9. CASE PressureElsewhere
  <2>1. disk' \in Disk
    BY <1>9, MaintainedType DEF PressureElsewhere, TypeOK
  <2>2. left' \in [Faults -> Nat]
    BY <1>9, SpendType DEF PressureElsewhere, Faults
  <2> QED  BY <1>9, <2>1, <2>2 DEF PressureElsewhere, TypeOK, procs, server
<1>10. CASE Throw
  <2>1. left' \in [Faults -> Nat]
    BY <1>10, SpendType DEF Throw, Faults, TypeOK
  <2> QED  BY <1>10, <2>1, ReplyType DEF Throw
<1>11. CASE Crash
  <2>1. left' \in [Faults -> Nat]
    BY <1>11, SpendType DEF Crash, Faults
  <2>2. \A u \in Syncs : sync'[u] = NoSync
    BY <1>11 DEF Crash
  <2> QED  BY <1>11, <2>1, <2>2, InitialValues DEF Crash, TypeOK, server, NoSync
<1>12. CASE LateArrival
  <2>1. PICK m \in net : srv' = [srv EXCEPT ![m.part] = Upsert(@, m.val, m.part[2])]
                           /\ net' = net \ {m}
    BY <1>12 DEF LateArrival
  <2>2. m.part \in Parts /\ m.val \in Counts
    BY DEF TypeOK
  <2>3. srv' \in [Parts -> Counts] /\ net' \subseteq [part : Parts, val : Counts]
    BY <2>1, <2>2, UpsertType DEF TypeOK
  <2> QED  BY <1>12, <2>3 DEF LateArrival, TypeOK, procs, world
<1>13. ASSUME NEW d \in Dates, Midnight(d) PROVE TypeOK'
  BY <1>13, LedgerAssumption DEF Midnight, TypeOK, procs, server
<1>14. CASE UNCHANGED vars
  BY <1>14 DEF TypeOK, vars
<1> QED
  BY <1>1, <1>2, <1>3, <1>4, <1>5, <1>6, <1>7, <1>8, <1>9, <1>10, <1>11, <1>12,
     <1>13, <1>14 DEF Next

\* Every variable keeps its shape, for every set of segments, hours, syncs and faults.
THEOREM TypeCorrect == Spec => []TypeOK
<1>1. Init => TypeOK
  BY InitType
<1>2. TypeOK /\ [Next]_vars => TypeOK'
  BY NextType
<1> QED
  BY <1>1, <1>2, PTL DEF Spec

(***************************************************************************)
(* Facts are never lost.  The three invariants about facts are inductive   *)
(* together with what a queued task has read (SnapshotCoversDisk) and what *)
(* an acknowledgement carries (AcksAreTrue): without the first, a write of *)
(* the whole segments key could drop a segment, without the second one     *)
(* could mark a segment that the Worker never stored.                      *)
(***************************************************************************)
FactInv ==
    /\ TypeOK
    /\ FactsPreserved /\ UnackedStaysQueued /\ UploadedIsOnServer
    /\ SnapshotCoversDisk /\ AcksAreTrue

\* What maintenance may do to the facts of a stored record s to give e.
Shrunk(s, e) ==
    /\ e.segs \subseteq s.segs /\ e.up \subseteq s.up /\ e.segs \cap s.up \subseteq e.up
    /\ e.segs \ e.up \subseteq e.pend
    /\ \A i \in Ids : e.comp[i] >= s.comp[i]
    /\ \A i \in s.segs \ e.segs : i \in s.up \/ e.comp[i] > s.comp[i]

\* Shrinking twice is shrinking.
LEMMA ShrunkTransitive ==
    ASSUME NEW r \in Disk, NEW s \in Disk, NEW e \in Disk, Shrunk(r, s), Shrunk(s, e)
    PROVE  Shrunk(r, e)
<1>1. \A i \in Ids : r.comp[i] \in Nat /\ s.comp[i] \in Nat /\ e.comp[i] \in Nat
  BY DEF Disk, Counts
<1>2. \A i \in Ids : e.comp[i] >= r.comp[i]
  BY <1>1 DEF Shrunk
<1>3. ASSUME NEW i \in r.segs \ e.segs
      PROVE  i \in r.up \/ e.comp[i] > r.comp[i]
  <2>1. i \in Ids
    BY DEF Disk
  <2>2. CASE i \in s.segs
    <3>1. i \in s.up \/ e.comp[i] > s.comp[i]
      BY <2>2 DEF Shrunk
    <3>2. s.comp[i] >= r.comp[i] /\ s.up \subseteq r.up
      BY <2>1 DEF Shrunk
    <3> QED  BY <1>1, <2>1, <3>1, <3>2
  <2>3. CASE i \notin s.segs
    <3>1. i \in r.up \/ s.comp[i] > r.comp[i]
      BY <2>3 DEF Shrunk
    <3>2. e.comp[i] >= s.comp[i]
      BY <2>1 DEF Shrunk
    <3> QED  BY <1>1, <2>1, <3>1, <3>2
  <2> QED  BY <2>2, <2>3
<1>4. /\ e.segs \subseteq r.segs /\ e.up \subseteq r.up /\ e.segs \cap r.up \subseteq e.up
      /\ e.segs \ e.up \subseteq e.pend
  BY DEF Shrunk
<1> QED  BY <1>2, <1>3, <1>4 DEF Shrunk

\* The compacted facts of a well-formed disk are counts.
LEMMA CompShape ==
    ASSUME NEW s \in Disk
    PROVE  \A i \in Ids : s.comp[i] \in Nat
  BY DEF Disk, Counts

\* Compacting the outboxes drops no pending segment: it only forgets ids that are gone.
LEMMA CompactOutboxesShrinks ==
    ASSUME NEW s \in Disk, s.segs \ s.up \subseteq s.pend
    PROVE  Shrunk(s, CompactOutboxes(s))
<1>1. /\ CompactOutboxes(s).segs = s.segs /\ CompactOutboxes(s).up = s.up
      /\ CompactOutboxes(s).pend = s.pend \cap s.segs
      /\ CompactOutboxes(s).comp = s.comp
  BY DEF CompactOutboxes, Disk
<1> QED  BY <1>1, CompShape DEF Shrunk

\* Retention takes only segments with uploadedAt.
LEMMA PruneSegmentsShrinks ==
    ASSUME NEW s \in Disk, s.segs \ s.up \subseteq s.pend, NEW everything \in BOOLEAN
    PROVE  Shrunk(s, PruneSegments(s, everything))
<1>1. PICK old \in SUBSET s.up :
         PruneSegments(s, everything) = [s EXCEPT !.segs = s.segs \ old, !.up = s.up \ old]
  BY DEF PruneSegments
<1>2. /\ PruneSegments(s, everything).segs = s.segs \ old
      /\ PruneSegments(s, everything).up = s.up \ old
      /\ PruneSegments(s, everything).pend = s.pend
      /\ PruneSegments(s, everything).comp = s.comp
  BY <1>1 DEF Disk
<1> QED  BY <1>2, CompShape DEF Shrunk

\* Pruning aggregates touches no segment, no acknowledgement and no compacted fact.
LEMMA PruneAggregatesShrinks ==
    ASSUME NEW s \in Disk, s.segs \ s.up \subseteq s.pend, NEW everything \in BOOLEAN
    PROVE  Shrunk(s, PruneAggregates(s, everything))
<1>1. /\ PruneAggregates(s, everything).segs = s.segs
      /\ PruneAggregates(s, everything).up = s.up
      /\ PruneAggregates(s, everything).pend = s.pend
      /\ PruneAggregates(s, everything).comp = s.comp
  BY DEF PruneAggregates, Disk
<1> QED  BY <1>1, CompShape DEF Shrunk

\* Marking outboxes dirty touches no fact.
LEMMA MarkDirtyKeepsFacts ==
    ASSUME NEW s \in Disk, NEW parts
    PROVE  /\ MarkDirty(s, parts).segs = s.segs /\ MarkDirty(s, parts).up = s.up
           /\ MarkDirty(s, parts).pend = s.pend /\ MarkDirty(s, parts).comp = s.comp
  BY DEF MarkDirty, Disk

\* What an emergency drops without an acknowledgement it has counted as compacted.
LEMMA DropPendingShrinks ==
    ASSUME NEW s \in Disk, s.segs \ s.up \subseteq s.pend, NEW D \in SUBSET Ids
    PROVE  Shrunk(s, DropPending(s, D))
<1> DEFINE comp == [i \in Ids |-> IF i \in D THEN s.comp[i] + 1 ELSE s.comp[i]]
           t == [s EXCEPT !.segs = s.segs \ D, !.up = s.up \ D,
                          !.pend = (s.pend \ D) \cap s.segs, !.comp = comp]
<1>1. /\ comp \in Counts
      /\ \A i \in Ids : comp[i] >= s.comp[i]
      /\ \A i \in D : comp[i] > s.comp[i]
  BY DEF Disk, Counts
<1> HIDE DEF comp
<1>2. t \in Disk /\ t.segs = s.segs \ D /\ t.up = s.up \ D
        /\ t.pend = (s.pend \ D) \cap s.segs /\ t.comp = comp
  BY <1>1 DEF Disk
<1>3. DropPending(s, D) = MarkDirty(t, Views \X UNION {KeysOf(i) : i \in D})
  BY DEF DropPending, comp
<1> HIDE DEF t
<1>4. /\ DropPending(s, D).segs = t.segs /\ DropPending(s, D).up = t.up
      /\ DropPending(s, D).pend = t.pend /\ DropPending(s, D).comp = t.comp
  BY <1>2, <1>3, MarkDirtyKeepsFacts
<1> QED  BY <1>1, <1>2, <1>4 DEF Shrunk

\* Maintenance, routine or emergency, removes a fact only if it carries
\* uploadedAt or moves into the compacted facts, and keeps the rest queued.
LEMMA MaintenanceShrinks ==
    ASSUME NEW s \in Disk, s.segs \ s.up \subseteq s.pend
    PROVE  \A e \in Maintained(s) : Shrunk(s, e)
<1> DEFINE a == CompactOutboxes(s)
           b == PruneSegments(a, FALSE)
           c == PruneSegments(Routine(s), TRUE)
<1>1. a \in Disk /\ Shrunk(s, a)
  BY CompactOutboxesType, CompactOutboxesShrinks
<1>2. b \in Disk /\ Shrunk(s, b)
  <2>1. b \in Disk /\ Shrunk(a, b)
    BY <1>1, PruneType, PruneSegmentsShrinks DEF Shrunk
  <2> QED  BY <1>1, <2>1, ShrunkTransitive
<1>3. Routine(s) \in Disk /\ Shrunk(s, Routine(s))
  <2>1. Routine(s) \in Disk /\ Shrunk(b, Routine(s))
    BY <1>2, PruneType, PruneAggregatesShrinks DEF Shrunk, Routine
  <2> QED  BY <1>2, <2>1, ShrunkTransitive
<1>4. c \in Disk /\ Shrunk(s, c)
  <2>1. c \in Disk /\ Shrunk(Routine(s), c)
    BY <1>3, PruneType, PruneSegmentsShrinks DEF Shrunk
  <2> QED  BY <1>3, <2>1, ShrunkTransitive
<1>5. Cleared(s) \in Disk /\ Shrunk(s, Cleared(s))
  <2>1. Cleared(s) \in Disk /\ Shrunk(c, Cleared(s))
    BY <1>4, PruneType, PruneAggregatesShrinks DEF Shrunk, Cleared
  <2> QED  BY <1>4, <2>1, ShrunkTransitive
<1>6. ASSUME NEW D \in SUBSET Ids
      PROVE  Shrunk(s, DropPending(Cleared(s), D))
  <2>1. DropPending(Cleared(s), D) \in Disk /\ Shrunk(Cleared(s), DropPending(Cleared(s), D))
    BY <1>5, DropPendingType, DropPendingShrinks DEF Shrunk
  <2> QED  BY <1>5, <2>1, ShrunkTransitive
<1>7. Droppable(Cleared(s)) \subseteq Ids
  BY <1>5 DEF Droppable, Disk
<1> QED
  BY <1>3, <1>6, <1>7 DEF Maintained

\* A caller at rest holds no acknowledgement.
LEMMA IdleValues ==
    NoSync.at = "idle" /\ Free.at = "free" /\ Free.task.op = "free"
  BY DEF NoSync, Free

\* The inductive invariant holds of a fresh installation.
LEMMA FactInit == Init => FactInv
<1> SUFFICES ASSUME Init PROVE FactInv
  OBVIOUS
<1>1. TypeOK
  BY InitType
<1>2. disk = NewDisk /\ job = Free /\ settled = {} /\ \A u \in Syncs : sync[u] = NoSync
  BY DEF Init
<1>3. FactsPreserved /\ UnackedStaysQueued /\ UploadedIsOnServer
  BY <1>2 DEF FactsPreserved, UnackedStaysQueued, UploadedIsOnServer, NewDisk
<1>4. SnapshotCoversDisk /\ AcksAreTrue
  <2>1. job.at = "free" /\ job.task.op = "free"
    BY <1>2 DEF Free
  <2>2. \A u \in Syncs : sync[u].at = "idle"
    BY <1>2, IdleValues
  <2> QED  BY <2>1, <2>2 DEF SnapshotCoversDisk, AcksAreTrue
<1> QED  BY <1>1, <1>3, <1>4 DEF FactInv

\* A step that touches neither the stored facts nor what was read of them.
LEMMA FactsUntouched ==
    ASSUME FactInv, TypeOK', UNCHANGED <<disk, settled>>,
           srvSegs \subseteq srvSegs',
           job' = job \/ job'.at # "read",
           AcksAreTrue'
    PROVE  FactInv'
<1>1. FactsPreserved' /\ UnackedStaysQueued' /\ UploadedIsOnServer'
  BY DEF FactInv, FactsPreserved, UnackedStaysQueued, UploadedIsOnServer
<1>2. SnapshotCoversDisk'
  BY DEF FactInv, SnapshotCoversDisk
<1> QED  BY <1>1, <1>2 DEF FactInv

\* A task starts with what the disk holds.
LEMMA BeginFacts ==
    ASSUME FactInv, TypeOK', NEW op, NEW who, NEW ids, NEW parts, NEW rev,
           Begin(op, who, ids, parts, rev), op = "ackSegs" => ids \subseteq srvSegs
    PROVE  FactInv'
<1>1. UNCHANGED <<disk, sync, srvSegs, settled>>
  BY DEF Begin, procs, server
<1>2. job'.snap = disk /\ job'.task.op = op /\ job'.task.ids = ids
  BY DEF Begin
<1>3. SnapshotCoversDisk'
  BY <1>1, <1>2 DEF FactInv, SnapshotCoversDisk, UploadedIsOnServer, UnackedStaysQueued
<1>4. AcksAreTrue'
  BY <1>1, <1>2 DEF FactInv, AcksAreTrue
<1>5. FactsPreserved' /\ UnackedStaysQueued' /\ UploadedIsOnServer'
  BY <1>1 DEF FactInv, FactsPreserved, UnackedStaysQueued, UploadedIsOnServer
<1> QED  BY <1>3, <1>4, <1>5 DEF FactInv

\* A write of the queue keeps the facts if it stores at least what is there.
LEMMA WritingFacts ==
    ASSUME FactInv, TypeOK', NEW op, Writing(op),
           disk.segs \subseteq disk'.segs, disk'.comp = disk.comp,
           settled' \subseteq settled \cup disk'.segs,
           disk'.up \subseteq srvSegs, disk'.segs \ disk'.up \subseteq disk'.pend
    PROVE  FactInv' /\ disk.segs \subseteq disk'.segs
<1>1. UNCHANGED <<sync, srvSegs>> /\ job'.at = "written" /\ job'.task = job.task
  BY DEF Writing, procs, server, FactInv, TypeOK, Job
<1>2. FactsPreserved' /\ UnackedStaysQueued' /\ UploadedIsOnServer'
  BY <1>1 DEF FactInv, FactsPreserved, UnackedStaysQueued, UploadedIsOnServer
<1>3. SnapshotCoversDisk' /\ AcksAreTrue'
  BY <1>1 DEF FactInv, SnapshotCoversDisk, AcksAreTrue
<1> QED  BY <1>2, <1>3 DEF FactInv

\* A write of the aggregate tables touches no fact.
LEMMA WriteTableKeepsFacts ==
    ASSUME disk \in Disk, NEW K, NEW made, NEW stats, NEW sent
    PROVE  LET t == WriteTable(K, made, stats, sent) IN
           /\ t.segs = disk.segs /\ t.up = disk.up /\ t.pend = disk.pend /\ t.comp = disk.comp
  BY DEF WriteTable, Disk

\* A write of an aggregate outbox touches no fact.
LEMMA WriteOutboxKeepsFacts ==
    ASSUME NEW d \in Disk, NEW P, NEW dirty, NEW rev
    PROVE  LET t == WriteOutbox(d, P, dirty, rev) IN
           /\ t.segs = d.segs /\ t.up = d.up /\ t.pend = d.pend /\ t.comp = d.comp
  BY DEF WriteOutbox, Disk

\* Every write of the queue keeps the inductive invariant: the write of a stale read too.
LEMMA QueueFacts ==
    ASSUME FactInv, TypeOK',
           \/ WriteJournal \/ WriteSettlement \/ ClearJournal \/ WriteReconciliation
           \/ WriteSegmentAck \/ WriteSegmentFailure \/ WritePartAck
           \/ WritePartFailure \/ WriteMark \/ WriteRebuiltTable
    PROVE  FactInv' /\ disk.segs \subseteq disk'.segs
<1>1. /\ disk \in Disk /\ job.snap \in Disk
      /\ job.task.ids \subseteq Ids /\ job.task.parts \subseteq Parts
  BY DEF FactInv, TypeOK, Job, Task
<1>2. disk.up \subseteq srvSegs /\ disk.segs \ disk.up \subseteq disk.pend
  BY DEF FactInv, UploadedIsOnServer, UnackedStaysQueued
<1>3. job.at = "read" =>
        /\ disk.segs \subseteq job.snap.segs
        /\ disk.segs \cap job.snap.up \subseteq disk.up
        /\ job.snap.up \subseteq srvSegs
        /\ job.snap.segs \ job.snap.up \subseteq job.snap.pend
  BY DEF FactInv, SnapshotCoversDisk
\* The writes that leave the facts as they are on disk.
<1>4. ASSUME NEW op, Writing(op), UNCHANGED settled,
             disk'.segs = disk.segs, disk'.up = disk.up,
             disk'.pend = disk.pend, disk'.comp = disk.comp
      PROVE  FactInv' /\ disk.segs \subseteq disk'.segs
  BY <1>2, <1>4, WritingFacts
<1>5. CASE WriteJournal
  BY <1>1, <1>4, <1>5 DEF WriteJournal, Disk
<1>6. CASE WriteSettlement
  <2>1. PICK i \in job.task.ids :
          LET s == AddSegment(job.snap, i) IN
          /\ disk' = [disk EXCEPT !.segs = s.segs, !.pend = s.pend, !.up = job.snap.up,
                                  !.stats = s.stats, !.made = s.made, !.sent = s.sent,
                                  !.dirty = s.dirty, !.rev = s.rev]
          /\ settled' = settled \cup {i}
    BY <1>6 DEF WriteSettlement
  <2>2. AddSegment(job.snap, i).segs = job.snap.segs \cup {i}
          /\ AddSegment(job.snap, i).pend = job.snap.pend \cup {i}
    <3> DEFINE t == [job.snap EXCEPT !.segs = job.snap.segs \cup {i},
                        !.pend = job.snap.pend \cup {i},
                        !.made = job.snap.made \cup KeysOf(i),
                        !.stats = [k \in Keys |-> IF k \in KeysOf(i)
                                     THEN AddTo(job.snap.stats[k], i) ELSE job.snap.stats[k]]]
    <3>1. /\ t.segs = job.snap.segs \cup {i}
          /\ t.pend = job.snap.pend \cup {i}
      BY <1>1 DEF Disk
    <3>2. AddSegment(job.snap, i) = MarkDirty(t, Views \X KeysOf(i))
      BY DEF AddSegment
    <3>3. MarkDirty(t, Views \X KeysOf(i)).segs = t.segs
            /\ MarkDirty(t, Views \X KeysOf(i)).pend = t.pend
      BY <1>1 DEF MarkDirty, Disk
    <3> QED  BY <3>1, <3>2, <3>3
  <2>3. /\ disk'.segs = job.snap.segs \cup {i} /\ disk'.pend = job.snap.pend \cup {i}
        /\ disk'.up = job.snap.up /\ disk'.comp = disk.comp
    BY <1>1, <2>1, <2>2 DEF Disk
  <2>4. Writing("settle")
    BY <1>6 DEF WriteSettlement
  <2> QED  BY <1>3, <2>1, <2>3, <2>4, WritingFacts DEF Writing
<1>7. CASE ClearJournal
  BY <1>1, <1>4, <1>7 DEF ClearJournal, Disk
<1>8. CASE WriteReconciliation
  <2> DEFINE r == Reconciled(job.snap)
  <2>1. /\ r \in Disk /\ r.segs = job.snap.segs /\ r.up = job.snap.up
        /\ job.snap.segs \ job.snap.up \subseteq r.pend
    <3>1. PICK t \in Disk, P \in SUBSET Parts :
            /\ r = MarkDirty(t, P) /\ t.segs = job.snap.segs /\ t.up = job.snap.up
            /\ t.pend = (job.snap.pend \cap (job.snap.segs \ job.snap.up))
                           \cup (job.snap.segs \ job.snap.up)
      <4> DEFINE s == job.snap
                 seen == {k \in Keys : HasFacts(s.segs, s.comp, k)}
                 stats == [k \in Keys |-> IF k \in seen \ s.made
                                          THEN FromFacts(s.segs, s.comp, k) ELSE s.stats[k]]
                 t == [s EXCEPT !.made = s.made \cup seen, !.stats = stats,
                                !.pend = (s.pend \cap (s.segs \ s.up)) \cup (s.segs \ s.up),
                                !.reconciled = TRUE]
      <4>1. ASSUME NEW k \in Keys PROVE FromFacts(s.segs, s.comp, k) \in Stat
        BY <1>1 DEF FromFacts, Stat, Counts, Disk
      <4>2. stats \in [Keys -> Stat]
        BY <1>1, <4>1 DEF Disk
      <4>3. seen \in SUBSET Keys
        OBVIOUS
      <4>4. r = MarkDirty(t, Views \X seen)
        BY DEF Reconciled
      <4> HIDE DEF seen, stats
      <4>5. /\ t \in Disk /\ t.segs = s.segs /\ t.up = s.up
            /\ t.pend = (s.pend \cap (s.segs \ s.up)) \cup (s.segs \ s.up)
        BY <1>1, <4>2, <4>3 DEF Disk
      <4> HIDE DEF t, r
      <4>6. Views \X seen \in SUBSET Parts
        BY <4>3 DEF Parts
      <4> QED  BY <4>4, <4>5, <4>6
    <3>2. r \in Disk
      BY <1>1, ReconciledType
    <3> HIDE DEF r
    <3> QED  BY <3>1, <3>2, MarkDirtyKeepsFacts
  <2> HIDE DEF r
  <2>2. /\ disk'.segs = job.snap.segs /\ disk'.up = job.snap.up
        /\ disk'.pend = r.pend /\ disk'.comp = disk.comp
    BY <1>1, <1>8, <2>1 DEF WriteReconciliation, Disk, r
  <2>3. Writing("reconcile") /\ job.at = "read" /\ UNCHANGED settled
    BY <1>8 DEF WriteReconciliation, Writing
  <2> QED  BY <1>3, <2>1, <2>2, <2>3, WritingFacts
<1>9. CASE WriteSegmentAck
  <2> DEFINE ids == job.task.ids
  <2>1. /\ disk'.segs = job.snap.segs
        /\ disk'.up = job.snap.up \cup (ids \cap job.snap.segs)
        /\ disk'.pend = job.snap.pend \ (ids \cap job.snap.segs)
        /\ disk'.comp = disk.comp
    BY <1>1, <1>9 DEF WriteSegmentAck, AckSegments, Disk
  <2>2. Writing("ackSegs") /\ job.at = "read" /\ UNCHANGED settled /\ ids \subseteq srvSegs
    BY <1>9 DEF WriteSegmentAck, Writing, FactInv, AcksAreTrue
  <2> QED  BY <1>3, <2>1, <2>2, WritingFacts
<1>10. CASE WriteSegmentFailure
  <2>1. /\ disk'.segs = disk.segs /\ disk'.up = disk.up /\ disk'.comp = disk.comp
        /\ disk'.pend = job.snap.pend \cup job.task.ids
    BY <1>1, <1>10 DEF WriteSegmentFailure, Disk
  <2>2. Writing("failSegs") /\ job.at = "read" /\ UNCHANGED settled
    BY <1>10 DEF WriteSegmentFailure, Writing
  <2> QED  BY <1>2, <1>3, <2>1, <2>2, WritingFacts
<1>11. CASE WritePartAck
  <2>1. PICK p \in job.task.parts :
          LET s == AckPart(job.snap, p)
              K == SameKind(p[2])
          IN  disk' = WriteOutbox(WriteTable(K, s.made, s.stats, s.sent),
                                  {p[1]} \X K, s.dirty, s.rev)
    BY <1>11 DEF WritePartAck
  <2> DEFINE s == AckPart(job.snap, p)
             t == WriteTable(SameKind(p[2]), s.made, s.stats, s.sent)
  <2>2. s \in Disk
    BY <1>1, AckPartType
  <2> HIDE DEF s
  <2>3. t \in Disk
    BY <1>1, <2>2, WriteTableType DEF Disk
  <2>4. /\ t.segs = disk.segs /\ t.up = disk.up /\ t.pend = disk.pend /\ t.comp = disk.comp
    BY <1>1, WriteTableKeepsFacts
  <2>5. disk' = WriteOutbox(t, {p[1]} \X SameKind(p[2]), s.dirty, s.rev)
    BY <2>1 DEF s
  <2> HIDE DEF t
  <2>6. /\ disk'.segs = disk.segs /\ disk'.up = disk.up
        /\ disk'.pend = disk.pend /\ disk'.comp = disk.comp
    BY <2>3, <2>4, <2>5, WriteOutboxKeepsFacts
  <2> QED  BY <1>4, <1>11, <2>6 DEF WritePartAck
<1>12. CASE WritePartFailure
  <2>1. /\ disk'.segs = disk.segs /\ disk'.up = disk.up
        /\ disk'.pend = disk.pend /\ disk'.comp = disk.comp
    BY <1>1, <1>12, WriteOutboxKeepsFacts DEF WritePartFailure
  <2> QED  BY <1>4, <1>12, <2>1 DEF WritePartFailure
<1>13. CASE WriteMark
  <2>1. /\ disk'.segs = disk.segs /\ disk'.up = disk.up
        /\ disk'.pend = disk.pend /\ disk'.comp = disk.comp
    BY <1>1, <1>13, WriteOutboxKeepsFacts DEF WriteMark
  <2> QED  BY <1>4, <1>13, <2>1 DEF WriteMark
<1>14. CASE WriteRebuiltTable
  <2>1. /\ disk'.segs = disk.segs /\ disk'.up = disk.up
        /\ disk'.pend = disk.pend /\ disk'.comp = disk.comp
    BY <1>1, <1>14, WriteTableKeepsFacts DEF WriteRebuiltTable
  <2> QED  BY <1>4, <1>14, <2>1 DEF WriteRebuiltTable
<1> QED
  BY <1>5, <1>6, <1>7, <1>8, <1>9, <1>10, <1>11, <1>12, <1>13, <1>14

\* What the callers do next neither touches the facts nor invents an acknowledgement.
LEMMA ReplyFacts ==
    ASSUME FactInv, TypeOK', NEW ok \in BOOLEAN, Reply(ok)
    PROVE  FactInv'
<1>1. UNCHANGED <<disk, settled, srvSegs>> /\ job' = Free
  BY DEF Reply, server
<1>2. \A u \in Syncs : sync'[u].at = "ackSegs" => sync'[u] = sync[u]
  <2>1. CASE UNCHANGED sync
    BY <2>1
  <2>2. ASSUME NEW u \in Syncs, SyncReturns(u, ok)
        PROVE  \A v \in Syncs : sync'[v].at = "ackSegs" => sync'[v] = sync[v]
    <3>1. /\ sync'[u].at # "ackSegs"
          /\ \A v \in Syncs \ {u} : sync'[v] = sync[v]
      <4>1. sync \in [Syncs -> Package]
        BY DEF FactInv, TypeOK
      <4>2. \A v \in Syncs \ {u} : sync'[v] = sync[v]
        BY <2>2, <4>1 DEF SyncReturns, Finished
      <4>3. CASE sync' = [sync EXCEPT ![u] = NoSync]
        BY <4>1, <4>3 DEF NoSync
      <4>4. CASE sync' = [sync EXCEPT ![u].at = "part", ![u].ids = {}]
        BY <4>1, <4>4 DEF Package
      <4>5. CASE sync' = [sync EXCEPT ![u].at = "failSegs"]
        BY <4>1, <4>5 DEF Package
      <4>6. CASE sync' = [sync EXCEPT ![u].at = "failPart"]
        BY <4>1, <4>6 DEF Package
      <4>7. CASE sync' = [sync EXCEPT ![u].at = "part", ![u].n = sync[u].n + 1]
        BY <4>1, <4>7 DEF Package
      <4> QED  BY <2>2, <4>2, <4>3, <4>4, <4>5, <4>6, <4>7 DEF SyncReturns, Finished
    <3> QED  BY <3>1
  <2> QED
    BY <2>1, <2>2 DEF Reply, SessionReturns, DrainReturns, RepairReturns, procs
<1>3. AcksAreTrue'
  BY <1>1, <1>2 DEF FactInv, AcksAreTrue, Free
<1> QED  BY <1>1, <1>3, FactsUntouched DEF Free

\* A task that begins reads what is on disk, so its snapshot covers it.
LEMMA StepsFacts ==
    ASSUME FactInv, TypeOK', Steps
    PROVE  FactInv'
<1>1. CASE SessionStep
  BY <1>1, BeginFacts DEF SessionStep, FactInv, TypeOK, Closing, SettleAt
<1>2. CASE DrainStep
  BY <1>2, BeginFacts DEF DrainStep, FactInv, TypeOK, Draining, SettleAt
<1>3. CASE RepairStep
  BY <1>3, BeginFacts DEF RepairStep
<1>4. CASE StartReconcile
  BY <1>4, BeginFacts DEF StartReconcile
<1>5. CASE RepairReadsFacts \/ RepairReadsTable
  <2>1. UNCHANGED <<disk, job, sync, srvSegs, settled>>
    BY <1>5 DEF RepairReadsFacts, RepairReadsTable, server
  <2>2. AcksAreTrue'
    BY <2>1 DEF FactInv, AcksAreTrue
  <2> QED  BY <2>1, <2>2, FactsUntouched
<1>6. ASSUME NEW u \in Syncs, SyncStep(u) PROVE FactInv'
  <2>1. sync[u].at = "ackSegs" => sync[u].ids \subseteq srvSegs
    BY DEF FactInv, AcksAreTrue
  <2> QED  BY <1>6, <2>1, BeginFacts DEF SyncStep
<1> QED
  BY <1>1, <1>2, <1>3, <1>4, <1>5, <1>6 DEF Steps

\* Only an upload the Worker stored moves a run to "ackSegs".
LEMMA SyncFacts ==
    ASSUME FactInv, TypeOK', NEW u \in Syncs, Sync(u)
    PROVE  FactInv'
<1>1. UNCHANGED <<disk, job, settled>> /\ srvSegs \subseteq srvSegs'
  BY DEF Sync, StartSync, TakeSnapshot, SendSegments, SendPart, EndSync, server
<1>2. sync \in [Syncs -> Package]
  BY DEF FactInv, TypeOK
<1>3. \A v \in Syncs \ {u} : sync'[v] = sync[v]
  BY <1>2 DEF Sync, StartSync, TakeSnapshot, SendSegments, SendPart, EndSync, Finished
<1>4. sync'[u].at = "ackSegs" => sync'[u].ids \subseteq srvSegs'
  <2>1. CASE StartSync(u)
    BY <1>2, <2>1 DEF StartSync, Package
  <2>2. CASE \E d \in Dates : TakeSnapshot(u, d)
    <3>1. CASE Finished(u)
      BY <1>2, <3>1, IdleValues DEF Finished
    <3>2. CASE ~Finished(u)
      <4>1. PICK d \in Dates : TakeSnapshot(u, d)
        BY <2>2
      <4>2. PICK at \in {"part", "segments"}, ids \in SUBSET Ids, keys \in SUBSET Keys,
                 bad \in SUBSET {"daily", "hourly"} :
              sync' = [sync EXCEPT ![u] = Packed(at, d, ids, keys, bad)] /\ UNCHANGED locked
        BY <3>2, <4>1, SnapshotMoves
      <4>3. Packed(at, d, ids, keys, bad).at = at
        BY DEF Packed
      <4> QED  BY <1>2, <4>2, <4>3
    <3> QED  BY <3>1, <3>2
  <2>3. CASE SendSegments(u)
    <3>1. CASE /\ srvSegs' = srvSegs \cup sync[u].ids
               /\ sync' = [sync EXCEPT ![u].at = "ackSegs"]
      BY <1>2, <3>1 DEF Package
    <3>2. CASE sync' = [sync EXCEPT ![u].at = "failSegs"]
      BY <1>2, <3>2 DEF Package
    <3> QED  BY <2>3, <3>1, <3>2 DEF SendSegments
  <2>4. CASE SendPart(u)
    <3>1. sync[u].at = "part"
      BY <2>4 DEF SendPart
    <3>2. CASE sync' = [sync EXCEPT ![u].at = "failPart"]
      BY <1>2, <3>2 DEF Package
    <3>3. CASE sync' = [sync EXCEPT ![u].at = "ackPart"]
      BY <1>2, <3>3 DEF Package
    <3>4. CASE sync' = [sync EXCEPT ![u].n = sync[u].n + 1]
      BY <1>2, <3>1, <3>4 DEF Package
    <3> QED  BY <2>4, <3>2, <3>3, <3>4 DEF SendPart
  <2>5. CASE EndSync(u)
    BY <1>2, <2>5 DEF EndSync, Finished, NoSync
  <2> QED  BY <2>1, <2>2, <2>3, <2>4, <2>5 DEF Sync
<1>5. AcksAreTrue'
  BY <1>1, <1>3, <1>4 DEF FactInv, AcksAreTrue
<1> QED  BY <1>1, <1>5, FactsUntouched

\* Maintenance, even between the read and the write of a task, keeps FactInv.
LEMMA MaintenanceFacts ==
    ASSUME FactInv, TypeOK', disk' \in Maintained(disk),
           UNCHANGED <<sync, srvSegs, settled>>,
           job'.at = job.at, job'.snap = job.snap, job'.task = job.task
    PROVE  FactInv'
<1>1. disk \in Disk /\ disk' \in Disk /\ settled \subseteq Ids
  BY DEF FactInv, TypeOK
<1>2. disk.up \subseteq srvSegs /\ disk.segs \ disk.up \subseteq disk.pend
  BY DEF FactInv, UploadedIsOnServer, UnackedStaysQueued
<1>3. Shrunk(disk, disk')
  BY <1>1, <1>2, MaintenanceShrinks
<1>4. UnackedStaysQueued' /\ UploadedIsOnServer'
  BY <1>2, <1>3 DEF Shrunk, UnackedStaysQueued, UploadedIsOnServer
<1>5. ASSUME NEW i \in settled
      PROVE  i \in disk'.segs \/ i \in srvSegs \/ disk'.comp[i] > 0
  <2>1. i \in Ids /\ disk.comp[i] \in Nat /\ disk'.comp[i] \in Nat
    BY <1>1, CompShape
  <2>2. i \in disk.segs \/ i \in srvSegs \/ disk.comp[i] > 0
    BY DEF FactInv, FactsPreserved
  <2>3. disk'.comp[i] >= disk.comp[i]
    BY <1>3, <2>1 DEF Shrunk
  <2>4. i \in disk.segs \ disk'.segs => i \in disk.up \/ disk'.comp[i] > disk.comp[i]
    BY <1>3 DEF Shrunk
  <2> QED  BY <1>2, <2>1, <2>2, <2>3, <2>4
<1>6. FactsPreserved'
  BY <1>5 DEF FactsPreserved
<1>7. SnapshotCoversDisk'
  BY <1>3 DEF FactInv, SnapshotCoversDisk, Shrunk
<1>8. AcksAreTrue'
  BY DEF FactInv, AcksAreTrue
<1> QED  BY <1>4, <1>6, <1>7, <1>8 DEF FactInv

\* Every step keeps the inductive invariant.
LEMMA FactNext ==
    ASSUME FactInv, [Next]_vars
    PROVE  FactInv'
<1>1. TypeOK'
  BY NextType DEF FactInv
<1>2. CASE Queue
  <2>1. CASE Return
    BY <1>1, <2>1, ReplyFacts DEF Return
  <2> QED  BY <1>1, <1>2, <2>1, QueueFacts DEF Queue
<1>3. CASE Steps
  BY <1>1, <1>3, StepsFacts
<1>4. ASSUME NEW u \in Syncs, Sync(u) PROVE FactInv'
  BY <1>1, <1>4, SyncFacts
<1>5. CASE \/ StartDrain \/ \E i \in Ids : CloseSegment(i)
           \/ \E k \in Keys : RepairReadsSegments(k)
           \/ LateArrival \/ UNCHANGED vars
           \/ \E d \in Dates : Midnight(d)
  <2>1. UNCHANGED <<disk, job, sync, srvSegs, settled>>
    BY <1>5 DEF StartDrain, CloseSegment, RepairReadsSegments, LateArrival, Midnight,
                vars, server, procs
  <2>2. AcksAreTrue'
    BY <2>1 DEF FactInv, AcksAreTrue
  <2> QED  BY <1>1, <2>1, <2>2, FactsUntouched
<1>6. CASE ScheduledMaintenance \/ PressureInWrite \/ PressureElsewhere
  <2>1. disk' \in Maintained(disk)
    BY <1>6 DEF ScheduledMaintenance, PressureInWrite, PressureElsewhere, Maintained
  <2>2. job'.at = job.at /\ job'.snap = job.snap /\ job'.task = job.task
    BY <1>6 DEF ScheduledMaintenance, PressureInWrite, PressureElsewhere, FactInv, TypeOK, Job
  <2>3. UNCHANGED <<sync, srvSegs, settled>>
    BY <1>6 DEF ScheduledMaintenance, PressureInWrite, PressureElsewhere, procs, server
  <2> QED  BY <1>1, <2>1, <2>2, <2>3, MaintenanceFacts
<1>7. CASE Throw
  BY <1>1, <1>7, ReplyFacts DEF Throw
<1>8. CASE Crash
  <2>1. /\ UNCHANGED <<disk, srvSegs, settled>> /\ job' = Free
        /\ \A u \in Syncs : sync'[u] = NoSync
    BY <1>8 DEF Crash, server
  <2>2. job'.at = "free" /\ job'.task.op = "free" /\ \A u \in Syncs : sync'[u].at = "idle"
    BY <2>1, IdleValues
  <2>3. AcksAreTrue'
    BY <2>2 DEF AcksAreTrue
  <2> QED  BY <1>1, <2>1, <2>2, <2>3, FactsUntouched
<1> QED
  BY <1>2, <1>3, <1>4, <1>5, <1>6, <1>7, <1>8 DEF Next

\* The inductive invariant holds in every reachable state.
LEMMA FactsInvariant == Spec => []FactInv
<1>1. Init => FactInv
  BY FactInit
<1>2. FactInv /\ [Next]_vars => FactInv'
  BY FactNext
<1> QED
  BY <1>1, <1>2, PTL DEF Spec

\* No settlement that was written is ever lost: the segment is on disk, on the
\* Worker, or counted in the compacted facts, whatever crashes, refused or
\* interrupted writes, stale writes after maintenance and lost answers occur.
THEOREM NoFactIsLost == Spec => []FactsPreserved
<1>1. FactInv => FactsPreserved
  BY DEF FactInv
<1> QED
  BY <1>1, FactsInvariant, PTL

\* No fact is stranded: what the Worker has not acknowledged is queued for it.
THEOREM NoFactIsStranded == Spec => []UnackedStaysQueued
<1>1. FactInv => UnackedStaysQueued
  BY DEF FactInv
<1> QED
  BY <1>1, FactsInvariant, PTL

\* uploadedAt is only ever set on what the Worker stored.
THEOREM UploadedIsTrue == Spec => []UploadedIsOnServer
<1>1. FactInv => UploadedIsOnServer
  BY DEF FactInv
<1> QED
  BY <1>1, FactsInvariant, PTL

\* What a queued task has read always covers the disk it is about to replace.
THEOREM SnapshotsCover == Spec => [](SnapshotCoversDisk /\ AcksAreTrue)
<1>1. FactInv => SnapshotCoversDisk /\ AcksAreTrue
  BY DEF FactInv
<1> QED
  BY <1>1, FactsInvariant, PTL

AccountedDrops ==
    \A i \in disk.segs \ disk'.segs : i \in srvSegs \/ disk'.comp[i] > disk.comp[i]

\* A step that takes a segment off the disk finds it on the Worker or counts it as compacted.
LEMMA DropStep ==
    ASSUME FactInv, [Next]_vars
    PROVE  AccountedDrops
<1>1. TypeOK'
  BY NextType DEF FactInv
<1>2. disk \in Disk /\ disk.up \subseteq srvSegs /\ disk.segs \ disk.up \subseteq disk.pend
  BY DEF FactInv, TypeOK, UploadedIsOnServer, UnackedStaysQueued
<1>4. CASE Queue
  <2>1. CASE Return
    BY <2>1 DEF Return, Reply, AccountedDrops
  <2> QED  BY <1>1, <1>4, <2>1, QueueFacts DEF Queue, AccountedDrops
<1>5. CASE ScheduledMaintenance \/ PressureInWrite \/ PressureElsewhere
  <2>1. disk' \in Maintained(disk)
    BY <1>5 DEF ScheduledMaintenance, PressureInWrite, PressureElsewhere, Maintained
  <2> QED  BY <1>2, <2>1, MaintenanceShrinks DEF Shrunk, AccountedDrops
<1>6. CASE Steps
  BY <1>6 DEF Steps, SessionStep, DrainStep, RepairStep, StartReconcile, SyncStep, Begin,
              RepairReadsFacts, RepairReadsTable, AccountedDrops
<1>7. CASE \E u \in Syncs : Sync(u)
  BY <1>7 DEF Sync, StartSync, TakeSnapshot, SendSegments, SendPart, EndSync, AccountedDrops
<1>8. CASE \/ StartDrain \/ \E i \in Ids : CloseSegment(i)
           \/ \E k \in Keys : RepairReadsSegments(k)
           \/ Throw \/ Crash \/ LateArrival \/ UNCHANGED vars
           \/ \E d \in Dates : Midnight(d)
  BY <1>8 DEF StartDrain, CloseSegment, RepairReadsSegments, Throw, Reply, Crash,
              LateArrival, Midnight, vars, AccountedDrops
<1> QED
  BY <1>4, <1>5, <1>6, <1>7, <1>8 DEF Next

\* A segment leaves the disk only if the Worker has it or as a compacted fact.
THEOREM DropsAreAccounted == Spec => NeverDroppedSilently
<1>1. FactInv /\ [Next]_vars =>
        [\A i \in disk.segs \ disk'.segs : i \in srvSegs \/ disk'.comp[i] > disk.comp[i]]_vars
  BY DropStep DEF AccountedDrops
<1> QED
  BY <1>1, FactsInvariant, PTL DEF Spec, NeverDroppedSilently
=============================================================================
