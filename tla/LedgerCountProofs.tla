-------------------------- MODULE LedgerCountProofs --------------------------
EXTENDS LedgerProofs

(***************************************************************************)
(* Proofs about what the ledger counts.                                    *)
(*                                                                         *)
(* Part 1: no segment is counted twice as long as every segment that was   *)
(* ever settled is still on disk (AllOnDisk), whatever crashes, replays,   *)
(* rebuilds, refused writes, late uploads and overlapping syncs do.  The   *)
(* hypothesis is about the one thing that breaks it: a journal entry that  *)
(* is replayed after its segment was pruned.                               *)
(*                                                                         *)
(* Part 2: the aggregates are complete and the outboxes tell the truth     *)
(* while storage is not short, no table is rebuilt and no sync overtakes   *)
(* another; retention, crashes, refusals and lost answers are allowed.     *)
(*                                                                         *)
(* Part 3: with nothing ageing out either, the Worker's rows never shrink  *)
(* and the ledger implements the abstract book.                            *)
(*                                                                         *)
(* Part 4: the aggregates of the current day stay while storage is not     *)
(* short and no table is rebuilt.                                          *)
(***************************************************************************)

(***************************************************************************)
(* Part 1: counted once.                                                   *)
(***************************************************************************)
AllOnDisk == settled \subseteq disk.segs

AtMostOne(S) == \A i, j \in S : i = j

\* A table of aggregates that counts only segments of S, each at most once,
\* and holds no compacted facts.
CountsOnce(stats, S) ==
    \A k \in Keys, i \in Ids :
        /\ stats[k].cmp[i] = 0 /\ stats[k].dom[i] <= 1
        /\ stats[k].dom[i] > 0 => i \in S

\* Facts read from a disk without compacted ones, of segments of S.
PlainFacts(segs, comp, S) == segs \subseteq S /\ \A i \in Ids : comp[i] = 0

\* A settlement, the session's or a replayed one, names one segment.
OneSegment ==
    /\ AtMostOne(closing.ids) /\ AtMostOne(drain.cur)
    /\ job.task.op = "settle" => AtMostOne(job.task.ids)

\* The disk, what the running task has read and what a rebuild has read and
\* assembled count once.
CountInv ==
    /\ PlainFacts(disk.segs, disk.comp, settled)
    /\ PlainFacts(repair.segs, repair.comp, settled)
    /\ PlainFacts(job.snap.segs, job.snap.comp, settled)
    /\ CountsOnce(disk.stats, settled)
    /\ CountsOnce(repair.stats, settled)
    /\ CountsOnce(job.snap.stats, settled)

\* The least entry of a set of segments is one entry.
LEMMA LeastIsOne ==
    ASSUME NEW S \in SUBSET Ids
    PROVE  AtMostOne({i \in S : \A j \in S : i <= j})
<1>1. \A i \in S : i \in Nat
  BY LedgerAssumption
<1> QED  BY <1>1 DEF AtMostOne

\* The callers' next steps leave each with at most one segment to settle.
LEMMA ReplySegment ==
    ASSUME TypeOK, OneSegment, NEW ok \in BOOLEAN, Reply(ok)
    PROVE  OneSegment'
<1>1. AtMostOne(closing.ids) /\ AtMostOne(drain.cur)
  BY DEF OneSegment
<1>2. job'.task.op = "free"
  BY DEF Reply, Free
<1>3. CASE SessionReturns(ok)
  <2>1. closing' = Idle \/ closing'.ids = closing.ids
    BY <1>3 DEF SessionReturns, TypeOK, Closing
  <2>2. AtMostOne(closing'.ids)
    BY <1>1, <2>1 DEF Idle, AtMostOne
  <2> QED  BY <1>1, <1>2, <1>3, <2>2 DEF SessionReturns, OneSegment
<1>4. CASE DrainReturns(ok)
  <2> DEFINE rest == drain.ids \ drain.cur
             least == {i \in rest : \A j \in rest : i <= j}
  <2>1. AtMostOne(least)
    <3>1. rest \in SUBSET Ids
      BY DEF TypeOK, Draining
    <3> HIDE DEF rest
    <3> QED  BY <3>1, LeastIsOne
  <2>2. drain' = NoDrain \/ drain'.cur = drain.cur \/ drain'.cur = least
    BY <1>4 DEF DrainReturns, TypeOK, Draining
  <2> HIDE DEF least
  <2>3. AtMostOne(drain'.cur)
    BY <1>1, <2>1, <2>2 DEF NoDrain, AtMostOne
  <2> QED  BY <1>1, <1>2, <1>4, <2>3 DEF DrainReturns, OneSegment
<1>5. CASE UNCHANGED <<closing, drain>>
  BY <1>1, <1>2, <1>5 DEF OneSegment
<1> QED  BY <1>3, <1>4, <1>5 DEF Reply, RepairReturns, SyncReturns, procs

\* Every settlement names one segment: the session closes one at a time and a
\* replay goes through the journal entry by entry.
LEMMA NextSegment ==
    ASSUME TypeOK, OneSegment, [Next]_vars
    PROVE  OneSegment'
<1>1. /\ AtMostOne(closing.ids) /\ AtMostOne(drain.cur)
      /\ job.task.op = "settle" => AtMostOne(job.task.ids)
  BY DEF OneSegment
<1>2. CASE Queue
  <2>1. CASE Return
    BY <2>1, ReplySegment DEF Return
  <2>2. ASSUME NEW op, Writing(op) PROVE OneSegment'
    <3>1. UNCHANGED <<closing, drain>> /\ job'.task = job.task
      BY <2>2 DEF Writing, procs, TypeOK, Job
    <3> QED  BY <1>1, <3>1 DEF OneSegment
  <2>3. CASE \/ WriteJournal \/ WriteSettlement \/ ClearJournal \/ WriteReconciliation
             \/ WriteSegmentAck
    BY <2>2, <2>3 DEF WriteJournal, WriteSettlement, ClearJournal, WriteReconciliation,
                      WriteSegmentAck
  <2>4. CASE \/ WriteSegmentFailure \/ WritePartAck \/ WritePartFailure \/ WriteMark
             \/ WriteRebuiltTable
    BY <2>2, <2>4 DEF WriteSegmentFailure, WritePartAck, WritePartFailure, WriteMark,
                      WriteRebuiltTable
  <2> QED  BY <1>2, <2>1, <2>3, <2>4 DEF Queue
<1>3. CASE Steps
  <2>1. ASSUME NEW op, NEW who, NEW ids, NEW parts, NEW rev, Begin(op, who, ids, parts, rev),
               op = "settle" => AtMostOne(ids)
        PROVE  OneSegment'
    <3>1. UNCHANGED <<closing, drain>> /\ job'.task.op = op /\ job'.task.ids = ids
      BY <2>1 DEF Begin, procs
    <3> QED  BY <1>1, <2>1, <3>1 DEF OneSegment
  <2>2. CASE SessionStep \/ DrainStep
    BY <1>1, <2>1, <2>2 DEF SessionStep, DrainStep
  <2>3. CASE RepairStep \/ StartReconcile
    BY <2>1, <2>3 DEF RepairStep, StartReconcile
  <2>4. CASE RepairReadsFacts \/ RepairReadsTable
    BY <1>1, <2>4 DEF RepairReadsFacts, RepairReadsTable, OneSegment
  <2>5. ASSUME NEW u \in Syncs, SyncStep(u) PROVE OneSegment'
    BY <2>1, <2>5 DEF SyncStep
  <2> QED  BY <1>3, <2>2, <2>3, <2>4, <2>5 DEF Steps
<1>4. CASE StartDrain
  <2>1. disk.journal \in SUBSET Ids
    BY DEF TypeOK, Disk
  <2>2. drain'.cur = {i \in disk.journal : \A j \in disk.journal : i <= j}
    BY <1>4 DEF StartDrain
  <2>3. AtMostOne(drain'.cur)
    BY <2>1, <2>2, LeastIsOne
  <2> QED  BY <1>1, <1>4, <2>3 DEF StartDrain, OneSegment
<1>5. ASSUME NEW i \in Ids, CloseSegment(i) PROVE OneSegment'
  <2>1. AtMostOne(closing'.ids)
    BY <1>5 DEF CloseSegment, AtMostOne
  <2> QED  BY <1>1, <1>5, <2>1 DEF CloseSegment, OneSegment
<1>6. ASSUME NEW u \in Syncs, Sync(u) PROVE OneSegment'
  <2>1. UNCHANGED <<job, closing, drain>>
    BY <1>6 DEF Sync, StartSync, TakeSnapshot, SendSegments, SendPart, EndSync
  <2> QED  BY <1>1, <2>1 DEF OneSegment
<1>7. CASE \/ ScheduledMaintenance \/ PressureElsewhere \/ PressureInWrite
           \/ \E k \in Keys : RepairReadsSegments(k)
  <2>1. UNCHANGED <<closing, drain>> /\ job'.task = job.task
    BY <1>7 DEF ScheduledMaintenance, PressureElsewhere, PressureInWrite,
                RepairReadsSegments, procs, TypeOK, Job
  <2> QED  BY <1>1, <2>1 DEF OneSegment
<1>8. CASE Throw
  BY <1>8, ReplySegment DEF Throw
<1>9. CASE Crash
  BY <1>9 DEF Crash, Free, Idle, NoDrain, OneSegment, AtMostOne
<1>10. CASE LateArrival \/ UNCHANGED vars \/ \E d \in Dates : Midnight(d)
  BY <1>1, <1>10 DEF LateArrival, Midnight, vars, procs, OneSegment
<1> QED
  BY <1>2, <1>3, <1>4, <1>5, <1>6, <1>7, <1>8, <1>9, <1>10 DEF Next

\* A settlement names one segment, in every reachable state.
LEMMA OneAtATime == Spec => []OneSegment
<1>1. Init => OneSegment
  BY DEF Init, Free, Idle, NoDrain, OneSegment, AtMostOne
<1>2. TypeOK /\ OneSegment /\ [Next]_vars => OneSegment'
  BY NextSegment
<1> QED  BY <1>1, <1>2, TypeCorrect, PTL DEF Spec

\* At rest nothing has been read, and nothing counts more than once.
LEMMA RestingCounts ==
    ASSUME NEW S
    PROVE  /\ PlainFacts(NewDisk.segs, NewDisk.comp, S) /\ CountsOnce(NewDisk.stats, S)
           /\ PlainFacts(NoRepair.segs, NoRepair.comp, S) /\ CountsOnce(NoRepair.stats, S)
           /\ Free.snap = NewDisk
<1>1. \A k \in Keys : NewDisk.stats[k] = EmptyStat /\ NoRepair.stats[k] = EmptyStat
  BY DEF NewDisk, NoRepair
<1>2. \A i \in Ids : EmptyStat.dom[i] = 0 /\ EmptyStat.cmp[i] = 0
                       /\ NewDisk.comp[i] = 0 /\ NoRepair.comp[i] = 0
  BY DEF EmptyStat, None, NewDisk, NoRepair
<1>3. CountsOnce(NewDisk.stats, S) /\ CountsOnce(NoRepair.stats, S)
  BY <1>1, <1>2 DEF CountsOnce
<1>4. NewDisk.segs = {} /\ NoRepair.segs = {}
  BY DEF NewDisk, NoRepair
<1> QED
  BY <1>2, <1>3, <1>4 DEF PlainFacts, Free

\* Counting once does not depend on which further segments are settled.
LEMMA CountsGrow ==
    ASSUME NEW S, NEW T, S \subseteq T, NEW stats, NEW segs, NEW comp
    PROVE  /\ CountsOnce(stats, S) => CountsOnce(stats, T)
           /\ PlainFacts(segs, comp, S) => PlainFacts(segs, comp, T)
  BY DEF CountsOnce, PlainFacts

\* Rebuilding from the raw facts counts each of them once.
LEMMA FromFactsOnce ==
    ASSUME NEW segs \in SUBSET Ids, NEW comp, NEW S, PlainFacts(segs, comp, S), NEW k
    PROVE  \A i \in Ids :
             /\ FromFacts(segs, comp, k).cmp[i] = 0 /\ FromFacts(segs, comp, k).dom[i] <= 1
             /\ FromFacts(segs, comp, k).dom[i] > 0 => i \in S
  BY DEF FromFacts, PlainFacts

\* A fresh installation counts nothing.
LEMMA InitCounts == Init => CountInv
<1> SUFFICES ASSUME Init PROVE CountInv
  OBVIOUS
<1>1. disk = NewDisk /\ job = Free /\ repair = NoRepair
  BY DEF Init
<1> QED  BY <1>1, RestingCounts DEF CountInv

\* Settling a segment that no aggregate counts yet counts it once.
LEMMA AddSegmentFields ==
    ASSUME NEW s \in Disk, NEW i \in Ids
    PROVE  /\ AddSegment(s, i).segs = s.segs \cup {i}
           /\ AddSegment(s, i).pend = s.pend \cup {i}
           /\ AddSegment(s, i).made = s.made \cup KeysOf(i)
           /\ AddSegment(s, i).sent = s.sent
           /\ AddSegment(s, i).dirty = s.dirty \cup (Views \X KeysOf(i))
           /\ AddSegment(s, i).stats = [k \in Keys |-> IF k \in KeysOf(i)
                                          THEN AddTo(s.stats[k], i) ELSE s.stats[k]]
           /\ AddSegment(s, i).rev = [p \in Parts |-> IF p \in Views \X KeysOf(i)
                                        THEN s.rev[p] + 1 ELSE s.rev[p]]
<1> DEFINE stats == [k \in Keys |-> IF k \in KeysOf(i)
                       THEN AddTo(s.stats[k], i) ELSE s.stats[k]]
           t == [s EXCEPT !.segs = s.segs \cup {i}, !.pend = s.pend \cup {i},
                          !.made = s.made \cup KeysOf(i), !.stats = stats]
           P == Views \X KeysOf(i)
<1>1. /\ t.segs = s.segs \cup {i} /\ t.pend = s.pend \cup {i} /\ t.made = s.made \cup KeysOf(i)
      /\ t.sent = s.sent /\ t.dirty = s.dirty /\ t.stats = stats /\ t.rev = s.rev
      /\ DOMAIN t = DOMAIN s
  BY DEF Disk
<1>2. AddSegment(s, i) = MarkDirty(t, P)
  BY DEF AddSegment
<1>3. DOMAIN s = {"segs", "up", "pend", "stats", "made", "sent", "comp", "dirty", "rev",
                  "journal", "reconciled"}
  BY DEF Disk
<1> HIDE DEF t, P, stats
<1>4. /\ MarkDirty(t, P).segs = t.segs /\ MarkDirty(t, P).pend = t.pend
      /\ MarkDirty(t, P).made = t.made /\ MarkDirty(t, P).sent = t.sent
      /\ MarkDirty(t, P).stats = t.stats
      /\ MarkDirty(t, P).dirty = t.dirty \cup P
      /\ MarkDirty(t, P).rev = [p \in Parts |-> IF p \in P THEN t.rev[p] + 1 ELSE t.rev[p]]
  BY <1>1, <1>3 DEF MarkDirty
<1> QED  BY <1>1, <1>2, <1>4 DEF stats, P

\* Reconciliation fills in the aggregates that are missing and have facts.
LEMMA ReconciledFields ==
    ASSUME NEW s \in Disk
    PROVE  LET seen == {k \in Keys : HasFacts(s.segs, s.comp, k)} IN
           /\ Reconciled(s).segs = s.segs /\ Reconciled(s).up = s.up
           /\ Reconciled(s).pend = s.segs \ s.up
           /\ Reconciled(s).made = s.made \cup seen
           /\ Reconciled(s).sent = s.sent
           /\ Reconciled(s).stats = [k \in Keys |-> IF k \in seen \ s.made
                                       THEN FromFacts(s.segs, s.comp, k) ELSE s.stats[k]]
           /\ Reconciled(s).dirty = s.dirty \cup (Views \X seen)
           /\ Reconciled(s).rev = [p \in Parts |-> IF p \in Views \X seen
                                     THEN s.rev[p] + 1 ELSE s.rev[p]]
<1> DEFINE seen == {k \in Keys : HasFacts(s.segs, s.comp, k)}
           stats == [k \in Keys |-> IF k \in seen \ s.made
                                    THEN FromFacts(s.segs, s.comp, k) ELSE s.stats[k]]
           pend == (s.pend \cap (s.segs \ s.up)) \cup (s.segs \ s.up)
           t == [s EXCEPT !.made = s.made \cup seen, !.stats = stats, !.pend = pend,
                          !.reconciled = TRUE]
           P == Views \X seen
<1>1. Reconciled(s) = MarkDirty(t, P)
  BY DEF Reconciled
<1>2. DOMAIN s = {"segs", "up", "pend", "stats", "made", "sent", "comp", "dirty", "rev",
                  "journal", "reconciled"}
  BY DEF Disk
<1>3. pend = s.segs \ s.up
  OBVIOUS
<1> HIDE DEF seen, stats, P, pend
<1>4. /\ t.segs = s.segs /\ t.up = s.up /\ t.pend = pend /\ t.made = s.made \cup seen
      /\ t.sent = s.sent /\ t.dirty = s.dirty /\ t.stats = stats /\ t.rev = s.rev
      /\ DOMAIN t = DOMAIN s
  BY <1>2
<1> HIDE DEF t
<1>5. /\ MarkDirty(t, P).segs = t.segs /\ MarkDirty(t, P).pend = t.pend
      /\ MarkDirty(t, P).made = t.made /\ MarkDirty(t, P).sent = t.sent
      /\ MarkDirty(t, P).stats = t.stats /\ MarkDirty(t, P).up = t.up
      /\ MarkDirty(t, P).dirty = t.dirty \cup P
      /\ MarkDirty(t, P).rev = [p \in Parts |-> IF p \in P THEN t.rev[p] + 1 ELSE t.rev[p]]
  BY <1>2, <1>4 DEF MarkDirty
<1> QED  BY <1>1, <1>3, <1>4, <1>5 DEF seen, stats, P

\* What each part of the routine maintenance leaves.
LEMMA CompactFields ==
    ASSUME NEW s \in Disk
    PROVE  LET kept == {p \in s.dirty : p[2] \in s.made}
               e == CompactOutboxes(s) IN
           /\ e.segs = s.segs /\ e.up = s.up /\ e.pend = s.pend \cap s.segs
           /\ e.stats = s.stats /\ e.made = s.made /\ e.sent = s.sent /\ e.comp = s.comp
           /\ e.dirty = kept
           /\ e.rev = [p \in Parts |-> IF p \in kept THEN s.rev[p] ELSE 0]
  BY DEF CompactOutboxes, Disk

LEMMA PruneSegmentsFields ==
    ASSUME NEW s \in Disk, NEW everything \in BOOLEAN
    PROVE  LET old == {i \in s.up \ s.pend : everything \/ age[DateOf[i]] >= 1}
               e == PruneSegments(s, everything) IN
           /\ e.segs = s.segs \ old /\ e.up = s.up \ old /\ e.pend = s.pend
           /\ e.stats = s.stats /\ e.made = s.made /\ e.sent = s.sent /\ e.comp = s.comp
           /\ e.dirty = s.dirty /\ e.rev = s.rev
  BY DEF PruneSegments, Disk

LEMMA PruneAggregatesFields ==
    ASSUME NEW s \in Disk, NEW everything \in BOOLEAN
    PROVE  LET old == {k \in s.made \cap s.sent :
                          /\ \A v \in Views : <<v, k>> \notin s.dirty
                          /\ everything \/ age[DayOf(k)] >= RetentionAge(k)}
               e == PruneAggregates(s, everything) IN
           /\ e.segs = s.segs /\ e.up = s.up /\ e.pend = s.pend
           /\ e.stats = [k \in Keys |-> IF k \in old THEN EmptyStat ELSE s.stats[k]]
           /\ e.made = s.made \ old /\ e.sent = s.sent \ old /\ e.comp = s.comp
           /\ e.dirty = s.dirty /\ e.rev = s.rev
<1> DEFINE old == {k \in s.made \cap s.sent :
                          /\ \A v \in Views : <<v, k>> \notin s.dirty
                          /\ everything \/ age[DayOf(k)] >= RetentionAge(k)}
           stats == [k \in Keys |-> IF k \in old THEN EmptyStat ELSE s.stats[k]]
<1>1. PruneAggregates(s, everything) =
        [s EXCEPT !.made = s.made \ old, !.sent = s.sent \ old, !.stats = stats]
  BY DEF PruneAggregates
<1> HIDE DEF old, stats
<1>2. LET e == PruneAggregates(s, everything) IN
      /\ e.segs = s.segs /\ e.up = s.up /\ e.pend = s.pend /\ e.stats = stats
      /\ e.made = s.made \ old /\ e.sent = s.sent \ old /\ e.comp = s.comp
      /\ e.dirty = s.dirty /\ e.rev = s.rev
  BY <1>1 DEF Disk
<1> QED  BY <1>2 DEF old, stats

\* An emergency turns the segments it drops into compacted facts.
LEMMA DropPendingFields ==
    ASSUME NEW s \in Disk, NEW D \in SUBSET Ids
    PROVE  LET e == DropPending(s, D) IN
           /\ e.segs = s.segs \ D /\ e.stats = s.stats
           /\ e.comp = [i \in Ids |-> IF i \in D THEN s.comp[i] + 1 ELSE s.comp[i]]
<1> DEFINE comp == [i \in Ids |-> IF i \in D THEN s.comp[i] + 1 ELSE s.comp[i]]
           pend == (s.pend \ D) \cap s.segs
           t == [s EXCEPT !.segs = s.segs \ D, !.up = s.up \ D, !.pend = pend, !.comp = comp]
           P == Views \X UNION {KeysOf(i) : i \in D}
<1>1. DropPending(s, D) = MarkDirty(t, P)
  BY DEF DropPending
<1>2. DOMAIN s = {"segs", "up", "pend", "stats", "made", "sent", "comp", "dirty", "rev",
                  "journal", "reconciled"}
  BY DEF Disk
<1> HIDE DEF comp, P, pend
<1>3. t.segs = s.segs \ D /\ t.stats = s.stats /\ t.comp = comp /\ DOMAIN t = DOMAIN s
  BY <1>2
<1> HIDE DEF t
<1>4. /\ MarkDirty(t, P).segs = t.segs /\ MarkDirty(t, P).stats = t.stats
      /\ MarkDirty(t, P).comp = t.comp
  BY <1>2, <1>3 DEF MarkDirty
<1> QED  BY <1>1, <1>3, <1>4 DEF comp

\* Maintenance empties an aggregate or leaves it, and compacts only what it drops.
LEMMA MaintenanceCounts ==
    ASSUME NEW s \in Disk, NEW e \in Maintained(s)
    PROVE  /\ e.segs \subseteq s.segs
           /\ \A k \in Keys : e.stats[k] \in {s.stats[k], EmptyStat}
           /\ \A i \in Ids : e.comp[i] = s.comp[i] \/ i \in s.segs \ e.segs
<1> DEFINE Tame(r, f) == /\ f \in Disk /\ f.segs \subseteq r.segs
                         /\ \A k \in Keys : f.stats[k] \in {r.stats[k], EmptyStat}
                         /\ f.comp = r.comp
           a == CompactOutboxes(s)
           b == PruneSegments(a, FALSE)
           c == PruneSegments(Routine(s), TRUE)
<1>0. ASSUME NEW r \in Disk, NEW everything \in BOOLEAN
      PROVE  Tame(r, PruneAggregates(r, everything))
  <2> DEFINE old == {k \in r.made \cap r.sent :
                       /\ \A v \in Views : <<v, k>> \notin r.dirty
                       /\ everything \/ age[DayOf(k)] >= RetentionAge(k)}
             f == PruneAggregates(r, everything)
  <2>1. f \in Disk
    BY PruneType
  <2>2. f.segs = r.segs /\ f.comp = r.comp
          /\ f.stats = [k \in Keys |-> IF k \in old THEN EmptyStat ELSE r.stats[k]]
    BY PruneAggregatesFields
  <2> HIDE DEF old, f
  <2>3. Tame(r, f)
    BY <2>1, <2>2
  <2> QED  BY <2>3 DEF f
<1>1. Tame(s, a)
  BY CompactFields, CompactOutboxesType
<1>2. Tame(a, b)
  BY <1>1, PruneSegmentsFields, PruneType
<1>3. Tame(b, Routine(s))
  <2>1. Routine(s) = PruneAggregates(b, FALSE)
    BY DEF Routine
  <2> HIDE DEF b
  <2> QED  BY <1>0, <1>2, <2>1
<1>4. Tame(s, Routine(s))
  BY <1>1, <1>2, <1>3
<1>5. Tame(Routine(s), c)
  BY <1>4, PruneSegmentsFields, PruneType
<1>6. Tame(c, Cleared(s))
  <2>1. Cleared(s) = PruneAggregates(c, TRUE)
    BY DEF Cleared
  <2> HIDE DEF c
  <2> QED  BY <1>0, <1>5, <2>1
<1>7. Tame(s, Cleared(s))
  BY <1>4, <1>5, <1>6
<1>8. CASE e = Routine(s)
  BY <1>4, <1>8
<1>9. ASSUME NEW D \in SUBSET Droppable(Cleared(s)), e = DropPending(Cleared(s), D)
      PROVE  /\ e.segs \subseteq s.segs
             /\ \A k \in Keys : e.stats[k] \in {s.stats[k], EmptyStat}
             /\ \A i \in Ids : e.comp[i] = s.comp[i] \/ i \in s.segs \ e.segs
  <2> DEFINE r == Cleared(s)
  <2>1. r \in Disk /\ D \in SUBSET Ids /\ D \subseteq r.segs
    BY <1>7 DEF Droppable, Disk
  <2>2. /\ e.segs = r.segs \ D /\ e.stats = r.stats
        /\ e.comp = [i \in Ids |-> IF i \in D THEN r.comp[i] + 1 ELSE r.comp[i]]
    BY <1>9, <2>1, DropPendingFields
  <2> HIDE DEF r
  <2>3. Tame(s, r)
    BY <1>7 DEF r
  <2> QED  BY <2>1, <2>2, <2>3
<1> QED  BY <1>8, <1>9 DEF Maintained

\* Writing the tables of one kind, or one outbox, replaces those entries only.
LEMMA WriteTableFields ==
    ASSUME disk \in Disk, NEW K, NEW made, NEW stats, NEW sent
    PROVE  LET t == WriteTable(K, made, stats, sent) IN
           /\ t.segs = disk.segs /\ t.up = disk.up /\ t.pend = disk.pend /\ t.comp = disk.comp
           /\ t.dirty = disk.dirty /\ t.rev = disk.rev
           /\ t.made = (disk.made \ K) \cup (made \cap K)
           /\ t.sent = (disk.sent \ K) \cup (sent \cap K)
           /\ t.stats = [k \in Keys |-> IF k \in K THEN stats[k] ELSE disk.stats[k]]
  BY DEF WriteTable, Disk

LEMMA WriteOutboxFields ==
    ASSUME NEW d \in Disk, NEW P, NEW dirty, NEW rev
    PROVE  LET t == WriteOutbox(d, P, dirty, rev) IN
           /\ t.segs = d.segs /\ t.up = d.up /\ t.pend = d.pend /\ t.comp = d.comp
           /\ t.stats = d.stats /\ t.made = d.made /\ t.sent = d.sent
           /\ t.dirty = (d.dirty \ P) \cup (dirty \cap P)
           /\ t.rev = [p \in Parts |-> IF p \in P THEN rev[p] ELSE d.rev[p]]
  BY DEF WriteOutbox, Disk

\* An acknowledged aggregate: its kind's table and its view's outbox are those
\* of what the task has read, with the one part clean.
LEMMA PartAckFields ==
    ASSUME TypeOK, WritePartAck
    PROVE  \E p \in job.task.parts :
           LET K == SameKind(p[2])
               P == {p[1]} \X K
               snap == job.snap IN
           /\ disk'.segs = disk.segs /\ disk'.up = disk.up
           /\ disk'.pend = disk.pend /\ disk'.comp = disk.comp
           /\ disk'.made = (disk.made \ K) \cup (snap.made \cap K)
           /\ disk'.stats = [k \in Keys |-> IF k \in K THEN snap.stats[k] ELSE disk.stats[k]]
           /\ disk'.dirty = (disk.dirty \ P) \cup ((snap.dirty \ {p}) \cap P)
           /\ disk'.rev = [q \in Parts |-> IF q \in P THEN [snap.rev EXCEPT ![p] = 0][q]
                                           ELSE disk.rev[q]]
<1>1. /\ disk \in Disk /\ job.snap \in Disk /\ job.task.parts \subseteq Parts
  BY DEF TypeOK, Job, Task
<1>2. PICK p \in job.task.parts :
        LET s == AckPart(job.snap, p)
            K == SameKind(p[2])
        IN  disk' = WriteOutbox(WriteTable(K, s.made, s.stats, s.sent),
                                {p[1]} \X K, s.dirty, s.rev)
  BY DEF WritePartAck
<1> DEFINE s == AckPart(job.snap, p)
           K == SameKind(p[2])
           P == {p[1]} \X K
           t == WriteTable(K, s.made, s.stats, s.sent)
<1>3. /\ s.made = job.snap.made /\ s.stats = job.snap.stats
      /\ s.dirty = job.snap.dirty \ {p} /\ s.rev = [job.snap.rev EXCEPT ![p] = 0]
      /\ s \in Disk
  <2>1. s \in Disk
    BY <1>1, AckPartType
  <2> QED  BY <1>1, <2>1 DEF AckPart, Disk
<1>4. disk' = WriteOutbox(t, P, s.dirty, s.rev)
  BY <1>2
<1> HIDE DEF s, K, P
<1>5. t \in Disk
  BY <1>1, <1>3, WriteTableType DEF Disk
<1>6. /\ t.segs = disk.segs /\ t.up = disk.up /\ t.pend = disk.pend /\ t.comp = disk.comp
      /\ t.dirty = disk.dirty /\ t.rev = disk.rev
      /\ t.made = (disk.made \ K) \cup (s.made \cap K)
      /\ t.stats = [k \in Keys |-> IF k \in K THEN s.stats[k] ELSE disk.stats[k]]
  BY <1>1, WriteTableFields
<1> HIDE DEF t
<1>7. /\ disk'.segs = t.segs /\ disk'.up = t.up /\ disk'.pend = t.pend /\ disk'.comp = t.comp
      /\ disk'.stats = t.stats /\ disk'.made = t.made
      /\ disk'.dirty = (t.dirty \ P) \cup (s.dirty \cap P)
      /\ disk'.rev = [q \in Parts |-> IF q \in P THEN s.rev[q] ELSE t.rev[q]]
  BY <1>4, <1>5, WriteOutboxFields
<1>8. /\ disk'.segs = disk.segs /\ disk'.up = disk.up
      /\ disk'.pend = disk.pend /\ disk'.comp = disk.comp
      /\ disk'.made = (disk.made \ K) \cup (job.snap.made \cap K)
      /\ disk'.stats = [k \in Keys |-> IF k \in K THEN job.snap.stats[k] ELSE disk.stats[k]]
      /\ disk'.dirty = (disk.dirty \ P) \cup ((job.snap.dirty \ {p}) \cap P)
      /\ disk'.rev = [q \in Parts |-> IF q \in P THEN [job.snap.rev EXCEPT ![p] = 0][q]
                                      ELSE disk.rev[q]]
  BY <1>3, <1>6, <1>7
<1> QED  BY <1>8 DEF K, P

\* A failed part marks its outbox again; nothing else changes.
LEMMA PartFailureFields ==
    ASSUME TypeOK, WritePartFailure
    PROVE  \E p \in job.task.parts :
           LET P == {p[1]} \X SameKind(p[2])  snap == job.snap IN
           /\ disk'.segs = disk.segs /\ disk'.up = disk.up
           /\ disk'.pend = disk.pend /\ disk'.comp = disk.comp
           /\ disk'.made = disk.made /\ disk'.stats = disk.stats
           /\ disk'.dirty = (disk.dirty \ P) \cup ((snap.dirty \cup {p}) \cap P)
           /\ disk'.rev = [q \in Parts |-> IF q \in P THEN snap.rev[q] ELSE disk.rev[q]]
<1>1. disk \in Disk
  BY DEF TypeOK
<1>2. PICK p \in job.task.parts :
        disk' = WriteOutbox(disk, {p[1]} \X SameKind(p[2]), job.snap.dirty \cup {p}, job.snap.rev)
  BY DEF WritePartFailure
<1> DEFINE P == {p[1]} \X SameKind(p[2])
           dirty == job.snap.dirty \cup {p}
<1>3. disk' = WriteOutbox(disk, P, dirty, job.snap.rev)
  BY <1>2
<1> HIDE DEF P, dirty
<1>4. /\ disk'.segs = disk.segs /\ disk'.up = disk.up
      /\ disk'.pend = disk.pend /\ disk'.comp = disk.comp
      /\ disk'.made = disk.made /\ disk'.stats = disk.stats
      /\ disk'.dirty = (disk.dirty \ P) \cup (dirty \cap P)
      /\ disk'.rev = [q \in Parts |-> IF q \in P THEN job.snap.rev[q] ELSE disk.rev[q]]
  BY <1>1, <1>3, WriteOutboxFields
<1> QED  BY <1>4 DEF P, dirty

\* What a settlement stores.
LEMMA SettlementFields ==
    ASSUME TypeOK, WriteSettlement
    PROVE  \E i \in job.task.ids \cap Ids :
           LET snap == job.snap  P == Views \X KeysOf(i) IN
           /\ settled' = settled \cup {i}
           /\ disk'.segs = snap.segs \cup {i} /\ disk'.up = snap.up
           /\ disk'.pend = snap.pend \cup {i} /\ disk'.comp = disk.comp
           /\ disk'.made = snap.made \cup KeysOf(i)
           /\ disk'.stats = [k \in Keys |-> IF k \in KeysOf(i)
                               THEN AddTo(snap.stats[k], i) ELSE snap.stats[k]]
           /\ disk'.dirty = snap.dirty \cup P
           /\ disk'.rev = [p \in Parts |-> IF p \in P THEN snap.rev[p] + 1 ELSE snap.rev[p]]
<1>1. /\ disk \in Disk /\ job.snap \in Disk /\ job.task.ids \subseteq Ids
  BY DEF TypeOK, Job, Task
<1>2. PICK i \in job.task.ids :
        LET s == AddSegment(job.snap, i) IN
        /\ disk' = [disk EXCEPT !.segs = s.segs, !.pend = s.pend, !.up = job.snap.up,
                                !.stats = s.stats, !.made = s.made, !.sent = s.sent,
                                !.dirty = s.dirty, !.rev = s.rev]
        /\ settled' = settled \cup {i}
  BY DEF WriteSettlement
<1> DEFINE s == AddSegment(job.snap, i)
<1>3. /\ s.segs = job.snap.segs \cup {i} /\ s.pend = job.snap.pend \cup {i}
      /\ s.made = job.snap.made \cup KeysOf(i) /\ s.sent = job.snap.sent
      /\ s.dirty = job.snap.dirty \cup (Views \X KeysOf(i))
      /\ s.stats = [k \in Keys |-> IF k \in KeysOf(i)
                      THEN AddTo(job.snap.stats[k], i) ELSE job.snap.stats[k]]
      /\ s.rev = [p \in Parts |-> IF p \in Views \X KeysOf(i)
                    THEN job.snap.rev[p] + 1 ELSE job.snap.rev[p]]
  BY <1>1, AddSegmentFields
<1> HIDE DEF s
<1>4. /\ disk'.segs = s.segs /\ disk'.pend = s.pend /\ disk'.up = job.snap.up
      /\ disk'.stats = s.stats /\ disk'.made = s.made
      /\ disk'.dirty = s.dirty /\ disk'.rev = s.rev /\ disk'.comp = disk.comp
  BY <1>1, <1>2 DEF Disk, s
<1> QED  BY <1>1, <1>2, <1>3, <1>4

\* What reconciliation stores.
LEMMA ReconciliationFields ==
    ASSUME TypeOK, WriteReconciliation
    PROVE  LET s == job.snap
               seen == {k \in Keys : HasFacts(s.segs, s.comp, k)} IN
           /\ settled' = settled
           /\ disk'.segs = s.segs /\ disk'.up = s.up /\ disk'.pend = s.segs \ s.up
           /\ disk'.comp = disk.comp
           /\ disk'.made = s.made \cup seen
           /\ disk'.stats = [k \in Keys |-> IF k \in seen \ s.made
                               THEN FromFacts(s.segs, s.comp, k) ELSE s.stats[k]]
           /\ disk'.dirty = s.dirty \cup (Views \X seen)
           /\ disk'.rev = [p \in Parts |-> IF p \in Views \X seen
                             THEN s.rev[p] + 1 ELSE s.rev[p]]
<1>1. disk \in Disk /\ job.snap \in Disk
  BY DEF TypeOK, Job
<1> DEFINE r == Reconciled(job.snap)
           seen == {k \in Keys : HasFacts(job.snap.segs, job.snap.comp, k)}
<1>2. r \in Disk
  BY <1>1, ReconciledType
<1>3. /\ r.segs = job.snap.segs /\ r.up = job.snap.up /\ r.pend = job.snap.segs \ job.snap.up
      /\ r.made = job.snap.made \cup seen
      /\ r.stats = [k \in Keys |-> IF k \in seen \ job.snap.made
           THEN FromFacts(job.snap.segs, job.snap.comp, k) ELSE job.snap.stats[k]]
      /\ r.dirty = job.snap.dirty \cup (Views \X seen)
      /\ r.rev = [p \in Parts |-> IF p \in Views \X seen
                    THEN job.snap.rev[p] + 1 ELSE job.snap.rev[p]]
  BY <1>1, ReconciledFields
<1>4. disk' = [r EXCEPT !.comp = disk.comp, !.journal = disk.journal] /\ settled' = settled
  BY DEF WriteReconciliation
<1> HIDE DEF r, seen
<1>5. /\ disk'.segs = r.segs /\ disk'.up = r.up /\ disk'.pend = r.pend
      /\ disk'.comp = disk.comp /\ disk'.made = r.made /\ disk'.stats = r.stats
      /\ disk'.dirty = r.dirty /\ disk'.rev = r.rev
  BY <1>2, <1>4 DEF Disk
<1>6. /\ settled' = settled
      /\ disk'.segs = job.snap.segs /\ disk'.up = job.snap.up
      /\ disk'.pend = job.snap.segs \ job.snap.up /\ disk'.comp = disk.comp
      /\ disk'.made = job.snap.made \cup seen
      /\ disk'.stats = [k \in Keys |-> IF k \in seen \ job.snap.made
           THEN FromFacts(job.snap.segs, job.snap.comp, k) ELSE job.snap.stats[k]]
      /\ disk'.dirty = job.snap.dirty \cup (Views \X seen)
      /\ disk'.rev = [p \in Parts |-> IF p \in Views \X seen
                        THEN job.snap.rev[p] + 1 ELSE job.snap.rev[p]]
  BY <1>3, <1>4, <1>5
<1> QED  BY <1>6 DEF seen

\* A write of the queue keeps CountInv if what it stores counts once.
LEMMA WritingCounts ==
    ASSUME CountInv, TypeOK, NEW op, Writing(op), settled \subseteq settled',
           PlainFacts(disk'.segs, disk'.comp, settled'), CountsOnce(disk'.stats, settled')
    PROVE  CountInv'
<1>1. UNCHANGED repair /\ job'.snap = NewDisk
  BY DEF Writing, procs, TypeOK, Job
<1>2. PlainFacts(repair'.segs, repair'.comp, settled') /\ CountsOnce(repair'.stats, settled')
  BY <1>1, CountsGrow DEF CountInv
<1>3. PlainFacts(job'.snap.segs, job'.snap.comp, settled') /\ CountsOnce(job'.snap.stats, settled')
  BY <1>1, RestingCounts
<1> QED  BY <1>1, <1>2, <1>3 DEF CountInv

\* A settlement of a segment that no aggregate counts yet counts it once: what
\* the task has read covers the disk, so a segment it does not hold is new.
LEMMA SettlementCounts ==
    ASSUME FactInv, OneSegment, CountInv, AllOnDisk, WriteSettlement
    PROVE  /\ settled \subseteq settled'
           /\ PlainFacts(disk'.segs, disk'.comp, settled')
           /\ CountsOnce(disk'.stats, settled')
<1>1. TypeOK /\ job.at = "read" /\ job.task.op = "settle" /\ ~NothingToDo
  BY DEF FactInv, WriteSettlement, Writing
<1> DEFINE snap == job.snap
<1>2. PICK i \in job.task.ids \cap Ids :
        /\ settled' = settled \cup {i}
        /\ disk'.segs = snap.segs \cup {i} /\ disk'.comp = disk.comp
        /\ disk'.stats = [k \in Keys |-> IF k \in KeysOf(i)
                            THEN AddTo(snap.stats[k], i) ELSE snap.stats[k]]
  BY <1>1, SettlementFields
<1>3. i \notin settled
  <2>1. job.task.ids = {i}
    BY <1>1 DEF OneSegment, AtMostOne
  <2>2. i \notin snap.segs
    BY <1>1, <2>1 DEF NothingToDo
  <2>3. disk.segs \subseteq snap.segs
    BY <1>1 DEF FactInv, SnapshotCoversDisk
  <2> QED  BY <2>2, <2>3 DEF AllOnDisk
<1>4. PlainFacts(disk'.segs, disk'.comp, settled')
  BY <1>2 DEF CountInv, PlainFacts
<1>5. ASSUME NEW k \in Keys, NEW j \in Ids
      PROVE  /\ disk'.stats[k].cmp[j] = 0 /\ disk'.stats[k].dom[j] <= 1
             /\ disk'.stats[k].dom[j] > 0 => j \in settled'
  <2>1. snap.stats[k] \in Stat
    BY <1>1 DEF TypeOK, Job, Disk
  <2>2. snap.stats[k].cmp[j] = 0 /\ snap.stats[k].dom[j] <= 1
          /\ (snap.stats[k].dom[j] > 0 => j \in settled) /\ snap.stats[k].dom[j] \in Nat
    BY <2>1 DEF CountInv, CountsOnce, Stat, Counts
  <2>3. CASE k \notin KeysOf(i)
    BY <1>2, <2>2, <2>3
  <2>4. CASE k \in KeysOf(i)
    <3>1. disk'.stats[k] = AddTo(snap.stats[k], i)
      BY <1>2, <2>4
    <3>2. /\ AddTo(snap.stats[k], i).cmp[j] = snap.stats[k].cmp[j]
          /\ AddTo(snap.stats[k], i).dom[j] =
               IF j = i THEN snap.stats[k].dom[j] + 1 ELSE snap.stats[k].dom[j]
      BY <2>1 DEF AddTo, Stat, Counts
    <3>3. j = i => snap.stats[k].dom[j] = 0
      BY <1>3, <2>2
    <3> QED  BY <1>2, <2>2, <3>1, <3>2, <3>3
  <2> QED  BY <2>3, <2>4
<1> QED  BY <1>2, <1>4, <1>5 DEF CountsOnce

\* Every write of the queue keeps CountInv, also the write of a table that a
\* rebuild has assembled from an older read.
LEMMA QueueCounts ==
    ASSUME FactInv, OneSegment, CountInv, AllOnDisk,
           \/ WriteJournal \/ WriteSettlement \/ ClearJournal \/ WriteReconciliation
           \/ WriteSegmentAck \/ WriteSegmentFailure \/ WritePartAck
           \/ WritePartFailure \/ WriteMark \/ WriteRebuiltTable
    PROVE  CountInv'
<1>1. TypeOK /\ disk \in Disk /\ job.snap \in Disk /\ repair \in Repairing
  BY DEF FactInv, TypeOK, Job
<1>2. ASSUME NEW op, Writing(op), settled' = settled,
             PlainFacts(disk'.segs, disk'.comp, settled), CountsOnce(disk'.stats, settled)
      PROVE  CountInv'
  BY <1>1, <1>2, WritingCounts
\* The writes that touch neither the segments nor the tables.
<1>3. ASSUME NEW op, Writing(op), settled' = settled,
             disk'.segs = disk.segs, disk'.comp = disk.comp, disk'.stats = disk.stats
      PROVE  CountInv'
  BY <1>2, <1>3 DEF CountInv
\* The writes of one kind of table.
<1>4. ASSUME NEW op, Writing(op), settled' = settled,
             disk'.segs = disk.segs, disk'.comp = disk.comp,
             NEW stats, CountsOnce(stats, settled),
             \A k \in Keys : disk'.stats[k] \in {disk.stats[k], stats[k]}
      PROVE  CountInv'
  <2>1. CountsOnce(disk'.stats, settled)
    BY <1>4 DEF CountInv, CountsOnce
  <2> QED  BY <1>2, <1>4, <2>1 DEF CountInv
<1>5. CASE WriteJournal
  BY <1>1, <1>3, <1>5 DEF WriteJournal, Disk
<1>6. CASE WriteSettlement
  BY <1>1, <1>6, SettlementCounts, WritingCounts DEF WriteSettlement
<1>7. CASE ClearJournal
  BY <1>1, <1>3, <1>7 DEF ClearJournal, Disk
<1>8. CASE WriteReconciliation
  <2> DEFINE s == job.snap
             seen == {k \in Keys : HasFacts(s.segs, s.comp, k)}
  <2>1. /\ settled' = settled /\ disk'.segs = s.segs /\ disk'.comp = disk.comp
        /\ disk'.stats = [k \in Keys |-> IF k \in seen \ s.made
                            THEN FromFacts(s.segs, s.comp, k) ELSE s.stats[k]]
    BY <1>1, <1>8, ReconciliationFields
  <2>2. s.segs \subseteq Ids /\ PlainFacts(s.segs, s.comp, settled) /\ CountsOnce(s.stats, settled)
    BY <1>1 DEF CountInv, Disk
  <2> HIDE DEF s, seen
  <2>3. \A k \in Keys : disk'.stats[k] \in {s.stats[k], FromFacts(s.segs, s.comp, k)}
    BY <2>1
  <2>4. ASSUME NEW k \in Keys, NEW i \in Ids
        PROVE  /\ disk'.stats[k].cmp[i] = 0 /\ disk'.stats[k].dom[i] <= 1
               /\ disk'.stats[k].dom[i] > 0 => i \in settled
    <3>1. CASE disk'.stats[k] = s.stats[k]
      BY <2>2, <3>1 DEF CountsOnce
    <3>2. CASE disk'.stats[k] = FromFacts(s.segs, s.comp, k)
      BY <2>2, <3>2, FromFactsOnce
    <3> QED  BY <2>3, <3>1, <3>2
  <2>5. CountsOnce(disk'.stats, settled)
    BY <2>4 DEF CountsOnce
  <2>6. PlainFacts(disk'.segs, disk'.comp, settled)
    BY <2>1, <2>2 DEF CountInv, PlainFacts
  <2> QED  BY <1>2, <1>8, <2>1, <2>5, <2>6 DEF WriteReconciliation
<1>9. CASE WriteSegmentAck
  <2>1. /\ disk'.segs = job.snap.segs /\ disk'.comp = disk.comp /\ disk'.stats = disk.stats
    BY <1>1, <1>9 DEF WriteSegmentAck, AckSegments, Disk
  <2>2. PlainFacts(disk'.segs, disk'.comp, settled) /\ CountsOnce(disk'.stats, settled)
    BY <2>1 DEF CountInv, PlainFacts
  <2> QED  BY <1>2, <1>9, <2>2 DEF WriteSegmentAck
<1>10. CASE WriteSegmentFailure
  BY <1>1, <1>3, <1>10 DEF WriteSegmentFailure, Disk
<1>11. CASE WritePartAck
  <2>1. /\ disk'.segs = disk.segs /\ disk'.comp = disk.comp
        /\ \A k \in Keys : disk'.stats[k] \in {disk.stats[k], job.snap.stats[k]}
    BY <1>1, <1>11, PartAckFields
  <2> QED  BY <1>4, <1>11, <2>1 DEF WritePartAck, CountInv
<1>12. CASE WritePartFailure
  <2>1. /\ disk'.segs = disk.segs /\ disk'.comp = disk.comp /\ disk'.stats = disk.stats
    BY <1>1, <1>12, PartFailureFields
  <2> QED  BY <1>3, <1>12, <2>1 DEF WritePartFailure
<1>13. CASE WriteMark
  <2>1. /\ disk'.segs = disk.segs /\ disk'.comp = disk.comp /\ disk'.stats = disk.stats
    <3> DEFINE t(p) == WriteOutbox(disk, {p[1]} \X SameKind(p[2]),
                         MarkDirty(job.snap, {p}).dirty, MarkDirty(job.snap, {p}).rev)
    <3>1. PICK p \in job.task.parts : disk' = t(p)
      BY <1>13 DEF WriteMark
    <3>2. t(p).segs = disk.segs /\ t(p).comp = disk.comp /\ t(p).stats = disk.stats
      BY <1>1 DEF WriteOutbox, Disk
    <3> QED  BY <3>1, <3>2
  <2> QED  BY <1>3, <1>13, <2>1 DEF WriteMark
<1>14. CASE WriteRebuiltTable
  <2>1. /\ disk'.segs = disk.segs /\ disk'.comp = disk.comp
        /\ disk'.stats = [k \in Keys |-> IF k \in SameKind(repair.key)
                            THEN repair.stats[k] ELSE disk.stats[k]]
    BY <1>1, <1>14, WriteTableFields DEF WriteRebuiltTable
  <2>2. \A k \in Keys : disk'.stats[k] \in {disk.stats[k], repair.stats[k]}
    BY <2>1
  <2> QED  BY <1>4, <1>14, <2>1, <2>2 DEF WriteRebuiltTable, CountInv
<1> QED
  BY <1>5, <1>6, <1>7, <1>8, <1>9, <1>10, <1>11, <1>12, <1>13, <1>14

\* A step that leaves storage alone keeps CountInv if the callers' own part of it holds.
LEMMA CallersCount ==
    ASSUME CountInv, UNCHANGED <<disk, settled>>,
           PlainFacts(repair'.segs, repair'.comp, settled),
           CountsOnce(repair'.stats, settled),
           job' = job \/ job' = Free \/ job'.snap = disk
    PROVE  CountInv'
<1>1. PlainFacts(job'.snap.segs, job'.snap.comp, settled) /\ CountsOnce(job'.snap.stats, settled)
  BY RestingCounts DEF CountInv
<1> QED  BY <1>1 DEF CountInv

\* The callers' next steps, when their task returns or throws, keep CountInv.
LEMMA ReplyCounts ==
    ASSUME TypeOK, CountInv, NEW ok \in BOOLEAN, Reply(ok)
    PROVE  CountInv'
<1>1. UNCHANGED <<disk, settled>> /\ job' = Free
  BY DEF Reply
<1>2. PlainFacts(repair.segs, repair.comp, settled) /\ CountsOnce(repair.stats, settled)
  BY DEF CountInv
<1>5. CASE RepairReturns(ok)
  <2>1. \/ repair' = NoRepair
        \/ /\ repair'.segs = repair.segs /\ repair'.comp = repair.comp
           /\ repair'.stats = repair.stats
    BY <1>5 DEF RepairReturns, TypeOK, Repairing
  <2>2. PlainFacts(repair'.segs, repair'.comp, settled) /\ CountsOnce(repair'.stats, settled)
    BY <1>2, <2>1, RestingCounts
  <2> QED  BY <1>1, <1>2, <1>5, <2>2, CallersCount DEF RepairReturns
<1>6. CASE UNCHANGED repair
  BY <1>1, <1>2, <1>6, CallersCount
<1> QED  BY <1>5, <1>6 DEF Reply, SessionReturns, DrainReturns, SyncReturns, procs

\* A task that starts has read the disk; a settlement names one segment.
LEMMA StepsCount ==
    ASSUME TypeOK, CountInv, Steps
    PROVE  CountInv'
<1>1. PlainFacts(repair.segs, repair.comp, settled) /\ CountsOnce(repair.stats, settled)
  BY DEF CountInv
<1>2. ASSUME NEW op, NEW who, NEW ids, NEW parts, NEW rev, Begin(op, who, ids, parts, rev)
      PROVE  CountInv'
  <2>1. UNCHANGED <<disk, settled, repair>> /\ job'.snap = disk
    BY <1>2 DEF Begin, procs
  <2> QED  BY <1>1, <1>2, <2>1, CallersCount
<1>3. CASE SessionStep \/ DrainStep
  BY <1>2, <1>3 DEF SessionStep, DrainStep
<1>4. CASE RepairStep \/ StartReconcile
  BY <1>2, <1>4 DEF RepairStep, StartReconcile
<1>5. CASE RepairReadsFacts
  <2>1. /\ repair'.segs = repair.segs /\ repair'.comp = disk.comp
        /\ repair'.stats = repair.stats
        /\ UNCHANGED <<disk, job, settled>>
    BY <1>5 DEF RepairReadsFacts, TypeOK, Repairing
  <2>2. PlainFacts(repair'.segs, repair'.comp, settled)
    BY <1>1, <2>1 DEF CountInv, PlainFacts
  <2> QED  BY <1>1, <2>1, <2>2, CallersCount
<1>6. CASE RepairReadsTable
  <2> DEFINE k == repair.key
             fact == FromFacts(repair.segs, repair.comp, k)
  <2>1. /\ repair'.segs = repair.segs /\ repair'.comp = repair.comp
        /\ repair'.stats = [disk.stats EXCEPT ![k] = fact]
        /\ UNCHANGED <<disk, job, settled>>
    BY <1>6 DEF RepairReadsTable, TypeOK, Repairing
  <2>2. repair.segs \in SUBSET Ids /\ disk.stats \in [Keys -> Stat]
    BY DEF TypeOK, Repairing, Disk
  <2>3. \A i \in Ids : /\ fact.cmp[i] = 0 /\ fact.dom[i] <= 1
                       /\ fact.dom[i] > 0 => i \in settled
    BY <1>1, <2>2, FromFactsOnce
  <2> HIDE DEF k, fact
  <2>4. \A j \in Keys : repair'.stats[j] = fact \/ repair'.stats[j] = disk.stats[j]
    BY <2>1, <2>2
  <2>5. CountsOnce(disk.stats, settled)
    BY DEF CountInv
  <2>6. CountsOnce(repair'.stats, settled)
    BY <2>3, <2>4, <2>5 DEF CountsOnce
  <2> QED  BY <1>1, <2>1, <2>6, CallersCount
<1>7. ASSUME NEW u \in Syncs, SyncStep(u) PROVE CountInv'
  BY <1>2, <1>7 DEF SyncStep
<1> QED  BY <1>3, <1>4, <1>5, <1>6, <1>7 DEF Steps

\* Maintenance keeps CountInv as long as it takes no segment off the disk.
LEMMA MaintenanceCount ==
    ASSUME TypeOK, CountInv, disk' \in Maintained(disk), AllOnDisk', UNCHANGED <<procs, settled>>,
           job'.snap = job.snap, job'.task = job.task
    PROVE  CountInv'
<1>1. disk \in Disk
  BY DEF TypeOK
<1>2. /\ disk'.segs \subseteq disk.segs
      /\ \A k \in Keys : disk'.stats[k] \in {disk.stats[k], EmptyStat}
      /\ \A i \in Ids : disk'.comp[i] = disk.comp[i] \/ i \in disk.segs \ disk'.segs
  BY <1>1, MaintenanceCounts
<1>3. PlainFacts(disk.segs, disk.comp, settled) /\ CountsOnce(disk.stats, settled)
  BY DEF CountInv
<1>4. \A i \in Ids : i \notin disk.segs \ disk'.segs
  BY <1>3 DEF AllOnDisk, PlainFacts
<1>5. PlainFacts(disk'.segs, disk'.comp, settled)
  BY <1>2, <1>3, <1>4 DEF PlainFacts
<1>6. \A i \in Ids : EmptyStat.dom[i] = 0 /\ EmptyStat.cmp[i] = 0
  BY DEF EmptyStat, None
<1>7. CountsOnce(disk'.stats, settled)
  BY <1>2, <1>3, <1>6 DEF CountsOnce
<1> QED  BY <1>5, <1>7 DEF CountInv, procs

\* Every step keeps CountInv while no settled segment has left the disk.
LEMMA NextCounts ==
    ASSUME FactInv, OneSegment, CountInv, AllOnDisk, AllOnDisk', [Next]_vars
    PROVE  CountInv'
<1>1. TypeOK
  BY DEF FactInv
<1>2. PlainFacts(repair.segs, repair.comp, settled) /\ CountsOnce(repair.stats, settled)
  BY DEF CountInv
<1>3. CASE Queue
  <2>1. CASE Return
    BY <1>1, <2>1, ReplyCounts DEF Return
  <2> QED  BY <1>3, <2>1, QueueCounts DEF Queue
<1>4. CASE Steps
  BY <1>1, <1>4, StepsCount
<1>5. CASE StartDrain \/ \E i \in Ids : CloseSegment(i)
  <2>1. UNCHANGED <<disk, job, repair, settled>>
    BY <1>5 DEF StartDrain, CloseSegment
  <2> QED  BY <1>2, <2>1, CallersCount
<1>7. ASSUME NEW u \in Syncs, Sync(u) PROVE CountInv'
  <2>1. UNCHANGED <<disk, job, repair, settled>>
    BY <1>7 DEF Sync, StartSync, TakeSnapshot, SendSegments, SendPart, EndSync
  <2> QED  BY <1>2, <2>1, CallersCount
<1>8. ASSUME NEW k \in Keys, RepairReadsSegments(k) PROVE CountInv'
  <2>1. /\ repair'.segs = disk.segs /\ repair'.comp = NoRepair.comp
        /\ repair'.stats = NoRepair.stats
        /\ UNCHANGED <<disk, job, settled>>
    BY <1>8 DEF RepairReadsSegments, NoRepair
  <2>2. PlainFacts(repair'.segs, repair'.comp, settled) /\ CountsOnce(repair'.stats, settled)
    BY <2>1, RestingCounts DEF PlainFacts, CountInv
  <2> QED  BY <1>2, <2>1, <2>2, CallersCount
<1>9. CASE ScheduledMaintenance \/ PressureInWrite \/ PressureElsewhere
  <2>1. disk' \in Maintained(disk)
    BY <1>9 DEF ScheduledMaintenance, PressureInWrite, PressureElsewhere, Maintained
  <2>2. job'.snap = job.snap /\ job'.task = job.task /\ UNCHANGED <<procs, settled>>
    BY <1>1, <1>9 DEF ScheduledMaintenance, PressureInWrite, PressureElsewhere, TypeOK, Job
  <2> QED  BY <1>1, <2>1, <2>2, MaintenanceCount
<1>10. CASE Throw
  BY <1>1, <1>10, ReplyCounts DEF Throw
<1>11. CASE Crash
  <2>1. UNCHANGED <<disk, settled>> /\ job' = Free /\ repair' = NoRepair
    BY <1>11 DEF Crash
  <2> QED  BY <2>1, RestingCounts, CallersCount
<1>12. CASE LateArrival \/ UNCHANGED vars \/ \E d \in Dates : Midnight(d)
  <2>1. UNCHANGED <<disk, job, repair, settled>>
    BY <1>12 DEF LateArrival, Midnight, vars, procs
  <2> QED  BY <1>2, <2>1, CallersCount
<1> QED
  BY <1>3, <1>4, <1>5, <1>7, <1>8, <1>9, <1>10, <1>11, <1>12 DEF Next

\* No segment's time is ever counted twice as long as what was settled is
\* still on disk: not by a replay of the journal, not by a rebuild that writes
\* an older table, not by a refused or interrupted write.  A replay finds the
\* segment that it would count again; retention may not have taken it.
THEOREM SettledTimeCountsOnce == Spec /\ []AllOnDisk => []CountedOnce
<1>1. Init => CountInv
  BY InitCounts
<1>2. FactInv /\ OneSegment /\ CountInv /\ AllOnDisk /\ AllOnDisk' /\ [Next]_vars => CountInv'
  BY NextCounts
<1>3. TypeOK /\ CountInv => CountedOnce
  <2> SUFFICES ASSUME TypeOK, CountInv PROVE CountedOnce
    OBVIOUS
  <2>1. ASSUME NEW i \in Ids, NEW k \in Keys
        PROVE  disk.stats[k].dom[i] + disk.stats[k].cmp[i] <= 1
    <3>1. disk.stats[k] \in Stat
      BY DEF TypeOK, Disk
    <3>2. disk.stats[k].dom[i] \in Nat
      BY <3>1 DEF Stat, Counts
    <3> QED  BY <3>2 DEF CountInv, CountsOnce
  <2>2. \A i \in Ids : disk.comp[i] = 0
    BY DEF CountInv, PlainFacts
  <2> QED  BY <2>1, <2>2 DEF CountedOnce
<1>4. FactInv => TypeOK
  BY DEF FactInv
<1> QED
  BY <1>1, <1>2, <1>3, <1>4, FactsInvariant, OneAtATime, PTL DEF Spec

(***************************************************************************)
(* Nothing leaves the disk while nothing ages and storage is not short.    *)
(***************************************************************************)
NoAgeing == \A d \in Dates : age[d] = 0

StillInv == AllOnDisk /\ NoAgeing /\ left["press"] = 0

\* Routine maintenance: what it keeps of the outboxes, and what is old enough to go.
LEMMA RoutineFields ==
    ASSUME NEW s \in Disk
    PROVE  LET kept == {p \in s.dirty : p[2] \in s.made}
               pend == s.pend \cap s.segs
               oldSegs == {i \in s.up \ pend : age[DateOf[i]] >= 1}
               oldKeys == {k \in s.made \cap s.sent :
                             /\ \A v \in Views : <<v, k>> \notin kept
                             /\ age[DayOf(k)] >= RetentionAge(k)}
               e == Routine(s) IN
           /\ e.segs = s.segs \ oldSegs /\ e.up = s.up \ oldSegs /\ e.pend = pend
           /\ e.stats = [k \in Keys |-> IF k \in oldKeys THEN EmptyStat ELSE s.stats[k]]
           /\ e.made = s.made \ oldKeys /\ e.comp = s.comp
           /\ e.dirty = kept
           /\ e.rev = [p \in Parts |-> IF p \in kept THEN s.rev[p] ELSE 0]
<1> DEFINE a == CompactOutboxes(s)
           b == PruneSegments(a, FALSE)
           kept == {p \in s.dirty : p[2] \in s.made}
           pend == s.pend \cap s.segs
           oldSegs == {i \in s.up \ pend : age[DateOf[i]] >= 1}
           oldKeys == {k \in s.made \cap s.sent :
                         /\ \A v \in Views : <<v, k>> \notin kept
                         /\ age[DayOf(k)] >= RetentionAge(k)}
           revs == [p \in Parts |-> IF p \in kept THEN s.rev[p] ELSE 0]
<1>1. /\ a \in Disk /\ a.segs = s.segs /\ a.up = s.up /\ a.pend = pend
      /\ a.stats = s.stats /\ a.made = s.made /\ a.sent = s.sent /\ a.comp = s.comp
      /\ a.dirty = kept /\ a.rev = revs
  BY CompactFields, CompactOutboxesType
<1> HIDE DEF kept, revs, pend
<1>2. /\ b.segs = a.segs \ {i \in a.up \ a.pend : FALSE \/ age[DateOf[i]] >= 1}
      /\ b.up = a.up \ {i \in a.up \ a.pend : FALSE \/ age[DateOf[i]] >= 1}
      /\ b.pend = a.pend /\ b.stats = a.stats /\ b.made = a.made /\ b.sent = a.sent
      /\ b.comp = a.comp /\ b.dirty = a.dirty /\ b.rev = a.rev /\ b \in Disk
  <2> HIDE DEF a
  <2> QED  BY <1>1, PruneSegmentsFields, PruneType
<1>3. Routine(s) = PruneAggregates(b, FALSE)
  BY DEF Routine
<1> HIDE DEF a, b
<1>4. /\ b.segs = s.segs \ oldSegs /\ b.up = s.up \ oldSegs /\ b.pend = pend
      /\ b.stats = s.stats /\ b.made = s.made /\ b.sent = s.sent /\ b.comp = s.comp
      /\ b.dirty = kept /\ b.rev = revs
  BY <1>1, <1>2
<1> DEFINE gone == {k \in b.made \cap b.sent :
                      /\ \A v \in Views : <<v, k>> \notin b.dirty
                      /\ FALSE \/ age[DayOf(k)] >= RetentionAge(k)}
           e == PruneAggregates(b, FALSE)
<1>5. /\ e.segs = b.segs /\ e.up = b.up /\ e.pend = b.pend
      /\ e.stats = [k \in Keys |-> IF k \in gone THEN EmptyStat ELSE b.stats[k]]
      /\ e.made = b.made \ gone /\ e.comp = b.comp
      /\ e.dirty = b.dirty /\ e.rev = b.rev
  BY <1>2, PruneAggregatesFields
<1>6. gone = oldKeys
  BY <1>4
<1> HIDE DEF e, gone, oldKeys, oldSegs
<1>7. /\ Routine(s).segs = s.segs \ oldSegs /\ Routine(s).up = s.up \ oldSegs
      /\ Routine(s).pend = pend
      /\ Routine(s).stats = [k \in Keys |-> IF k \in oldKeys THEN EmptyStat ELSE s.stats[k]]
      /\ Routine(s).made = s.made \ oldKeys /\ Routine(s).comp = s.comp
      /\ Routine(s).dirty = kept /\ Routine(s).rev = revs
  BY <1>3, <1>4, <1>5, <1>6 DEF e
<1> QED  BY <1>7 DEF kept, revs, pend, oldSegs, oldKeys

\* A budget that starts at nothing stays at nothing.
LEMMA NothingSpent ==
    ASSUME TypeOK, NEW f \in Faults, left[f] = 0, [Next]_vars
    PROVE  left'[f] = 0 /\ ~Spend(f)
<1>1. ~Spend(f)
  BY DEF Spend
<1>2. ASSUME NEW g \in Faults, Spend(g) PROVE left'[f] = 0
  BY <1>1, <1>2 DEF Spend, TypeOK
<1>3. CASE left' = left
  BY <1>1, <1>3
<1>4. CASE Queue
  <2>1. CASE Return
    BY <1>3, <2>1 DEF Return
  <2>2. CASE \/ WriteJournal \/ WriteSettlement \/ ClearJournal \/ WriteReconciliation
             \/ WriteSegmentAck
    BY <1>3, <2>2 DEF WriteJournal, WriteSettlement, ClearJournal, WriteReconciliation,
                      WriteSegmentAck, Writing, world
  <2>3. CASE \/ WriteSegmentFailure \/ WritePartAck \/ WritePartFailure \/ WriteMark
             \/ WriteRebuiltTable
    BY <1>3, <2>3 DEF WriteSegmentFailure, WritePartAck, WritePartFailure, WriteMark,
                      WriteRebuiltTable, Writing, world
  <2> QED  BY <1>4, <2>1, <2>2, <2>3 DEF Queue
<1>5. CASE Steps
  BY <1>3, <1>5 DEF Steps, SessionStep, DrainStep, RepairStep, StartReconcile, SyncStep,
                    Begin, RepairReadsFacts, RepairReadsTable, world
<1>6. ASSUME NEW u \in Syncs, Sync(u) PROVE left'[f] = 0
  <2>1. left' = left \/ Spend("lost") \/ Spend("late")
    BY <1>6 DEF Sync, StartSync, TakeSnapshot, SendSegments, SendPart, EndSync, world
  <2> QED  BY <1>2, <1>3, <2>1 DEF Faults
<1>7. CASE \/ ScheduledMaintenance \/ PressureElsewhere \/ PressureInWrite
           \/ \E k \in Keys : RepairReadsSegments(k)
  BY <1>1, <1>2, <1>3, <1>7 DEF ScheduledMaintenance, PressureElsewhere, PressureInWrite,
                          RepairReadsSegments, world, Faults
<1>8. CASE Throw \/ Crash
  BY <1>1, <1>2, <1>3, <1>8 DEF Throw, Crash, Faults
<1>9. CASE \/ LateArrival \/ UNCHANGED vars \/ StartDrain
           \/ (\E d \in Dates : Midnight(d)) \/ (\E i \in Ids : CloseSegment(i))
  BY <1>3, <1>9 DEF LateArrival, Midnight, vars, StartDrain, CloseSegment, world
<1> QED
  BY <1>1, <1>4, <1>5, <1>6, <1>7, <1>8, <1>9 DEF Next

\* Without pressure only a write of the queue or routine maintenance changes
\* the disk, and only a settlement adds to what was settled.
LEMMA DiskChanges ==
    ASSUME TypeOK, left["press"] = 0, [Next]_vars
    PROVE  \/ UNCHANGED <<disk, settled>>
           \/ WriteJournal \/ WriteSettlement \/ ClearJournal \/ WriteReconciliation
           \/ WriteSegmentAck \/ WriteSegmentFailure \/ WritePartAck
           \/ WritePartFailure \/ WriteMark \/ WriteRebuiltTable
           \/ ScheduledMaintenance
<1>1. ~Spend("press")
  BY DEF Spend
<1>2. CASE Queue
  BY <1>2 DEF Queue, Return, Reply
<1>3. CASE Steps
  BY <1>3 DEF Steps, SessionStep, DrainStep, RepairStep, StartReconcile, SyncStep,
              Begin, RepairReadsFacts, RepairReadsTable
<1>4. CASE \E u \in Syncs : Sync(u)
  BY <1>4 DEF Sync, StartSync, TakeSnapshot, SendSegments, SendPart, EndSync
<1>5. CASE PressureElsewhere \/ PressureInWrite \/ ScheduledMaintenance
  BY <1>1, <1>5 DEF PressureElsewhere, PressureInWrite
<1>6. CASE StartDrain \/ Throw \/ Crash \/ LateArrival \/ UNCHANGED vars
  BY <1>6 DEF StartDrain, Throw, Reply, Crash, LateArrival, vars
<1>7. CASE \/ \E d \in Dates : Midnight(d)
           \/ \E i \in Ids : CloseSegment(i)
           \/ \E k \in Keys : RepairReadsSegments(k)
  BY <1>7 DEF Midnight, CloseSegment, RepairReadsSegments
<1> QED
  BY <1>2, <1>3, <1>4, <1>5, <1>6, <1>7 DEF Next

\* A settlement is on disk once it is written, and stays there while nothing
\* ages and storage is not short.
LEMMA NextStill ==
    ASSUME MaxAge = 0, FactInv, StillInv, [Next]_vars
    PROVE  StillInv'
<1>1. TypeOK /\ disk \in Disk /\ left["press"] = 0 /\ age \in [Dates -> Nat]
  BY DEF FactInv, TypeOK, StillInv
<1>2. left'["press"] = 0
  BY <1>1, NothingSpent DEF Faults
<1>3. NoAgeing'
  <2>1. \A d \in Dates : ~Midnight(d)
    BY DEF Midnight, StillInv, NoAgeing
  <2>2. UNCHANGED age
    <3>1. CASE Queue
      BY <3>1 DEF Queue, WriteJournal, WriteSettlement, ClearJournal, WriteReconciliation,
                  WriteSegmentAck, WriteSegmentFailure, WritePartAck, WritePartFailure,
                  WriteMark, WriteRebuiltTable, Writing, Return, Reply, world
    <3>2. CASE Steps
      BY <3>2 DEF Steps, SessionStep, DrainStep, RepairStep, StartReconcile, SyncStep,
                  Begin, RepairReadsFacts, RepairReadsTable, world
    <3>3. CASE \E u \in Syncs : Sync(u)
      BY <3>3 DEF Sync, StartSync, TakeSnapshot, SendSegments, SendPart, EndSync, world
    <3>4. CASE PressureElsewhere \/ PressureInWrite \/ ScheduledMaintenance \/ StartDrain
      BY <3>4 DEF PressureElsewhere, PressureInWrite, ScheduledMaintenance, StartDrain, world
    <3>5. CASE Throw \/ Crash \/ LateArrival \/ UNCHANGED vars
      BY <3>5 DEF Throw, Reply, Crash, LateArrival, vars, world
    <3>6. CASE \/ \E i \in Ids : CloseSegment(i)
               \/ \E k \in Keys : RepairReadsSegments(k)
      BY <3>6 DEF CloseSegment, RepairReadsSegments
    <3> QED  BY <2>1, <3>1, <3>2, <3>3, <3>4, <3>5, <3>6 DEF Next
  <2> QED  BY <2>2 DEF StillInv, NoAgeing
<1>4. AllOnDisk'
  <2>1. settled \subseteq disk.segs
    BY DEF StillInv, AllOnDisk
  <2>2. CASE UNCHANGED <<disk, settled>>
    BY <2>1, <2>2 DEF AllOnDisk
  <2>3. CASE WriteSettlement
    <3>1. settled' \subseteq settled \cup disk'.segs
      BY <1>1, <2>3, SettlementFields
    <3>2. disk.segs \subseteq disk'.segs
      BY <2>3, QueueFacts, FactNext DEF FactInv
    <3> QED  BY <2>1, <3>1, <3>2 DEF AllOnDisk
  <2>4. CASE \/ WriteJournal \/ ClearJournal \/ WriteReconciliation
             \/ WriteSegmentAck \/ WriteSegmentFailure \/ WritePartAck
             \/ WritePartFailure \/ WriteMark \/ WriteRebuiltTable
    <3>1. disk.segs \subseteq disk'.segs
      BY <2>4, QueueFacts, FactNext DEF FactInv
    <3>2. settled' = settled
      BY <2>4 DEF WriteJournal, ClearJournal, WriteReconciliation,
                  WriteSegmentAck, WriteSegmentFailure, WritePartAck,
                  WritePartFailure, WriteMark, WriteRebuiltTable
    <3> QED  BY <2>1, <3>1, <3>2 DEF AllOnDisk
  <2>5. CASE ScheduledMaintenance
    <3>1. disk' = Routine(disk) /\ settled' = settled
      BY <2>5 DEF ScheduledMaintenance
    <3>2. disk'.segs = disk.segs \ {i \in disk.up \ (disk.pend \cap disk.segs) :
                                      age[DateOf[i]] >= 1}
      BY <1>1, <3>1, RoutineFields
    <3>3. \A i \in disk.up : age[DateOf[i]] = 0
      BY <1>1, LedgerAssumption DEF StillInv, NoAgeing, Disk
    <3>4. disk'.segs = disk.segs
      BY <3>2, <3>3
    <3> QED  BY <2>1, <3>1, <3>4 DEF AllOnDisk
  <2> QED  BY <1>1, <2>2, <2>3, <2>4, <2>5, DiskChanges
<1> QED  BY <1>2, <1>3, <1>4 DEF StillInv

LEMMA StillInvariant ==
    ASSUME MaxAge = 0, Budget["press"] = 0
    PROVE  Spec => []StillInv
<1>1. Init => StillInv
  BY DEF Init, StillInv, AllOnDisk, NoAgeing, Faults
<1>2. FactInv /\ StillInv /\ [Next]_vars => StillInv'
  BY NextStill
<1> QED  BY <1>1, <1>2, FactsInvariant, PTL DEF Spec

\* Where nothing ages and storage is never short, no segment's time is counted
\* twice, whatever else happens: crashes, replays, rebuilds, refused writes,
\* late uploads, overlapping syncs.
THEOREM CountedOnceWithoutAgeing ==
    ASSUME MaxAge = 0, Budget["press"] = 0
    PROVE  Spec => []CountedOnce
<1>1. StillInv => AllOnDisk
  BY DEF StillInv
<1> QED  BY <1>1, StillInvariant, SettledTimeCountsOnce, PTL

(***************************************************************************)
(* Part 2: complete aggregates and truthful outboxes.  Calm is what it     *)
(* takes: no emergency, no rebuild and no overlapping sync.  A step then   *)
(* finds the disk as the running task has read it, and at most one sync    *)
(* holds a package; its revisions are never ahead of the disk's.           *)
(***************************************************************************)
Calm == Budget["press"] = 0 /\ Budget["repair"] = 0 /\ ~StaleLock

SyncOps == {"ackSegs", "failSegs", "ackPart", "failPart"}

\* The queue is running a task of sync u; it has written what op writes.
Serves(u)   == job.at # "free" /\ job.task.who = u
Done(u, op) == Serves(u) /\ job.at = "written" /\ job.task.op = op

NoFault ==
    /\ left["press"] = 0 /\ left["repair"] = 0
    /\ repair = NoRepair /\ ~job.hit
    /\ job.at # "free" => job.task.op \notin {"table", "mark"} /\ job.task.who # "repair"

OneRun ==
    /\ \A u, v \in Syncs : sync[u].at # "idle" /\ sync[v].at # "idle" => u = v
    /\ \A u \in Syncs : sync[u].at # "idle" => locked

\* A queued task of a sync is the one its sync is waiting for.
TasksMatch ==
    /\ job.at # "free" /\ job.task.op \in SyncOps => job.task.who \in Syncs
    /\ \A u \in Syncs : Serves(u) =>
         /\ job.task.op = sync[u].at
         /\ sync[u].at \in {"ackSegs", "failSegs"} => job.task.ids = sync[u].ids
         /\ sync[u].at \in {"ackPart", "failPart"} =>
              /\ job.task.parts = {ThisPart(u)}
              /\ job.task.rev = sync[u].rev[ThisPart(u)]

\* No other task and no maintenance comes between a task's read and its write.
ReadIsCurrent == job.at = "read" => job.snap = disk

CallInv == NoFault /\ OneRun /\ TasksMatch /\ ReadIsCurrent

\* A sync that the queue does not serve waits for no task.
LEMMA ServedSync ==
    ASSUME TypeOK, CallInv, NEW u \in Syncs
    PROVE  Serves(u) => sync[u].at \in SyncOps /\ job.task.op = sync[u].at
<1>1. sync[u].at \in {"idle", "prepare", "segments", "ackSegs", "failSegs",
                      "part", "ackPart", "failPart"} /\ job.task.op \in Ops
  BY DEF TypeOK, Package, Job, Task
<1>2. Serves(u) => job.task.op = sync[u].at
  BY DEF CallInv, TasksMatch
<1> QED  BY <1>1, <1>2 DEF Ops, SyncOps

\* Where one sync is under way, every other one is idle.
LEMMA OthersIdle ==
    ASSUME CallInv, NEW u \in Syncs, sync[u].at # "idle"
    PROVE  \A v \in Syncs \ {u} : sync[v].at = "idle"
  BY DEF CallInv, OneRun

\* The callers that are no syncs.
LEMMA NoSuchSync ==
    \A u \in Syncs : u \notin {"nobody", "session", "drain", "repair", "startup"}
  BY SyncAssumption

LEMMA InitCalls == Calm /\ Init => CallInv
<1> SUFFICES ASSUME Calm, Init PROVE CallInv
  OBVIOUS
<1>1. job = Free /\ repair = NoRepair /\ left = Budget /\ \A u \in Syncs : sync[u].at = "idle"
  BY DEF Init, NoSync
<1>2. Free.at = "free" /\ ~Free.hit
  BY DEF Free
<1> QED
  BY <1>1, <1>2 DEF CallInv, NoFault, OneRun, TasksMatch, ReadIsCurrent, Serves, Calm

\* How a sync goes on when its task returns or throws.
LEMMA ReturnMoves ==
    ASSUME TypeOK, CallInv, NEW u \in Syncs, NEW ok \in BOOLEAN, Serves(u), SyncReturns(u, ok)
    PROVE  /\ \A v \in Syncs \ {u} : sync'[v] = sync[v]
           /\ \/ /\ sync[u].at = "ackSegs" /\ ok /\ locked' = locked
                 /\ sync'[u] = [sync[u] EXCEPT !.at = "part", !.ids = {}]
              \/ /\ sync[u].at = "ackSegs" /\ ~ok /\ locked' = locked
                 /\ sync'[u] = [sync[u] EXCEPT !.at = "failSegs"]
              \/ /\ sync[u].at = "ackPart" /\ ~ok /\ locked' = locked
                 /\ sync'[u] = [sync[u] EXCEPT !.at = "failPart"]
              \/ /\ sync[u].at \in {"ackPart", "failPart"} /\ ok
                 /\ locked' = locked
                 /\ sync'[u] = [sync[u] EXCEPT !.at = "part", !.n = sync[u].n + 1]
              \/ sync'[u] = NoSync /\ locked' = FALSE
<1>1. sync \in [Syncs -> Package]
  BY DEF TypeOK
<1>2. sync[u].at \in SyncOps
  BY ServedSync
<1>3. \A v \in Syncs \ {u} : sync'[v] = sync[v]
  BY <1>1 DEF SyncReturns, Finished
<1>4. CASE sync[u].at = "ackSegs"
  BY <1>1, <1>3, <1>4 DEF SyncReturns
<1>5. CASE sync[u].at = "failSegs"
  BY <1>1, <1>3, <1>5 DEF SyncReturns, Finished
<1>6. CASE sync[u].at = "ackPart"
  BY <1>1, <1>3, <1>6 DEF SyncReturns
<1>7. CASE sync[u].at = "failPart"
  BY <1>1, <1>3, <1>7 DEF SyncReturns, Finished
<1> QED  BY <1>2, <1>4, <1>5, <1>6, <1>7 DEF SyncOps

\* A write of the queue leaves its task and every caller as they are.
LEMMA WritingCalls ==
    ASSUME TypeOK, CallInv, left' = left, NEW op, Writing(op)
    PROVE  CallInv' /\ \A u \in Syncs, o \in Ops : Done(u, o)' <=> Serves(u) /\ o = op
<1>1. /\ job.at = "read" /\ job'.at = "written" /\ job'.task = job.task /\ job'.hit = job.hit
      /\ job.task.op = op /\ UNCHANGED <<repair, sync, locked>>
  BY DEF Writing, procs, TypeOK, Job
<1>2. \A u \in Syncs : Serves(u)' <=> Serves(u)
  BY <1>1 DEF Serves
<1>3. TasksMatch'
  BY <1>1, <1>2 DEF CallInv, TasksMatch, ThisPart
<1>4. NoFault' /\ OneRun' /\ ReadIsCurrent'
  BY <1>1 DEF CallInv, NoFault, OneRun, ReadIsCurrent
<1> QED  BY <1>1, <1>2, <1>3, <1>4 DEF CallInv, Done

\* A task begins with what the disk holds; a sync's task is the one it waits for.
LEMMA BeginCalls ==
    ASSUME TypeOK, CallInv, left' = left, NEW op, NEW who, NEW ids, NEW parts, NEW rev,
           Begin(op, who, ids, parts, rev),
           op \notin {"table", "mark"}, who # "repair",
           op \in SyncOps => who \in Syncs,
           who \in Syncs =>
             /\ op = sync[who].at
             /\ op \in {"ackSegs", "failSegs"} => ids = sync[who].ids
             /\ op \in {"ackPart", "failPart"} =>
                  parts = {ThisPart(who)} /\ rev = sync[who].rev[ThisPart(who)]
    PROVE  CallInv'
<1>1. /\ job' = [task |-> [op |-> op, who |-> who, ids |-> ids, parts |-> parts, rev |-> rev],
                 at |-> "read", hit |-> FALSE, snap |-> disk]
      /\ UNCHANGED <<disk, repair, sync, locked>>
  BY DEF Begin, procs
<1>2. /\ job'.at = "read" /\ job'.snap = disk /\ ~job'.hit /\ job'.task.op = op
      /\ job'.task.who = who /\ job'.task.ids = ids /\ job'.task.parts = parts
      /\ job'.task.rev = rev
  BY <1>1
<1>3. NoFault' /\ OneRun' /\ ReadIsCurrent'
  BY <1>1, <1>2 DEF CallInv, NoFault, OneRun, ReadIsCurrent
<1>4. \A u \in Syncs : Serves(u)' => u = who
  BY <1>2 DEF Serves
<1>5. \A u \in Syncs : ThisPart(u)' = ThisPart(u)
  BY <1>1 DEF ThisPart
<1>6. TasksMatch'
  BY <1>1, <1>2, <1>4, <1>5 DEF TasksMatch
<1> QED  BY <1>3, <1>6 DEF CallInv

\* A sync that the queue does not serve may move on by itself.
LEMMA SyncMoveCalls ==
    ASSUME TypeOK, CallInv, UNCHANGED <<disk, job, repair>>,
           left'["press"] = 0, left'["repair"] = 0,
           NEW u \in Syncs, \A v \in Syncs \ {u} : sync'[v] = sync[v],
           sync[u].at \notin SyncOps,
           \A v \in Syncs \ {u} : sync[v].at = "idle",
           sync'[u].at # "idle" => locked'
    PROVE  CallInv' /\ \A v \in Syncs : ~Serves(v)
<1>1. \A v \in Syncs : ~Serves(v)
  BY ServedSync DEF SyncOps
<1>2. \A v \in Syncs : ~Serves(v)'
  BY <1>1 DEF Serves
<1>3. TasksMatch'
  BY <1>2 DEF CallInv, TasksMatch
<1>4. OneRun'
  BY DEF OneRun
<1>5. NoFault' /\ ReadIsCurrent'
  BY DEF CallInv, NoFault, ReadIsCurrent
<1> QED  BY <1>1, <1>3, <1>4, <1>5 DEF CallInv

\* When a task returns or throws, the queue is free and its caller has moved on.
LEMMA ReplyCalls ==
    ASSUME TypeOK, CallInv, NEW ok \in BOOLEAN, Reply(ok),
           left'["press"] = 0, left'["repair"] = 0, job.at # "free"
    PROVE  CallInv'
<1>1. job'.at = "free" /\ ~job'.hit
  BY DEF Reply, Free
<1>2. TasksMatch' /\ ReadIsCurrent'
  BY <1>1 DEF TasksMatch, ReadIsCurrent, Serves
<1>3. ~RepairReturns(ok) \/ repair' = repair \/ job.task.who # "repair"
  BY DEF CallInv, NoFault
<1>4. repair' = repair
  BY DEF Reply, CallInv, NoFault, SessionReturns, DrainReturns, SyncReturns, procs
<1>5. NoFault'
  BY <1>1, <1>4 DEF CallInv, NoFault
<1>6. OneRun'
  <2>1. CASE UNCHANGED <<sync, locked>>
    BY <2>1 DEF CallInv, OneRun
  <2>2. ASSUME NEW u \in Syncs, job.task.who = u, SyncReturns(u, ok)
        PROVE  OneRun'
    <3>1. Serves(u) /\ sync[u].at # "idle"
      BY <2>2, ServedSync DEF Serves, SyncOps
    <3>2. /\ \A v \in Syncs \ {u} : sync'[v] = sync[v] /\ sync[v].at = "idle"
          /\ sync'[u] = NoSync \/ locked' = locked
      BY <2>2, <3>1, ReturnMoves, OthersIdle
    <3>3. locked /\ NoSync.at = "idle"
      BY <3>1 DEF CallInv, OneRun, NoSync
    <3>4. sync'[u].at # "idle" => locked'
      BY <3>2, <3>3
    <3>5. \A v \in Syncs \ {u} : sync'[v].at = "idle"
      BY <3>2
    <3> QED  BY <3>4, <3>5 DEF OneRun
  <2> QED
    BY <2>1, <2>2 DEF Reply, SessionReturns, DrainReturns, RepairReturns, procs
<1> QED  BY <1>2, <1>5, <1>6 DEF CallInv

\* Sending, ending and taking a snapshot: which sync moves, and how.
LEMMA SyncMoves ==
    ASSUME ~StaleLock, TypeOK, CallInv, NEW u \in Syncs, Sync(u)
    PROVE  /\ UNCHANGED <<disk, job, repair, age, settled>>
           /\ left' = left \/ Spend("lost") \/ Spend("late")
           /\ sync[u].at \notin SyncOps
           /\ \A v \in Syncs \ {u} : sync'[v] = sync[v] /\ sync[v].at = "idle"
           /\ sync'[u].at # "idle" => locked'
<1>1. sync \in [Syncs -> Package]
  BY DEF TypeOK
<1>2. UNCHANGED <<disk, job, repair, age, settled>>
        /\ (left' = left \/ Spend("lost") \/ Spend("late"))
  BY DEF Sync, StartSync, TakeSnapshot, SendSegments, SendPart, EndSync, world
<1>3. sync[u].at \notin SyncOps
  BY DEF Sync, StartSync, TakeSnapshot, SendSegments, SendPart, EndSync, SyncOps
<1>4. \A v \in Syncs \ {u} : sync'[v] = sync[v]
  BY <1>1 DEF Sync, StartSync, TakeSnapshot, SendSegments, SendPart, EndSync, Finished
<1>5. CASE StartSync(u)
  <2>1. locked' /\ (~locked \/ StaleLock)
    BY <1>5 DEF StartSync
  <2>2. \A v \in Syncs \ {u} : sync[v].at = "idle" \/ locked
    BY DEF CallInv, OneRun
  <2> QED  BY <1>2, <1>3, <1>4, <2>1, <2>2 DEF StartSync
<1>6. CASE ~StartSync(u)
  <2>1. sync[u].at # "idle"
    BY <1>6 DEF Sync, TakeSnapshot, SendSegments, SendPart, EndSync
  <2>2. \A v \in Syncs \ {u} : sync[v].at = "idle"
    BY <2>1, OthersIdle
  <2>3. locked
    BY <2>1 DEF CallInv, OneRun
  <2>4. locked' = locked \/ sync'[u] = NoSync
    BY <1>1, <1>6 DEF Sync, TakeSnapshot, SendSegments, SendPart, EndSync, Finished
  <2>5. sync'[u].at # "idle" => locked'
    BY <2>3, <2>4, IdleValues
  <2> QED  BY <1>2, <1>3, <1>4, <2>2, <2>5
<1> QED  BY <1>5, <1>6

\* Every step keeps CallInv.
LEMMA NextCalls ==
    ASSUME ~StaleLock, TypeOK, CallInv, [Next]_vars
    PROVE  CallInv'
<1>1. /\ left["press"] = 0 /\ left["repair"] = 0 /\ repair = NoRepair
      /\ ~Spend("press") /\ ~Spend("repair")
      /\ left'["press"] = 0 /\ left'["repair"] = 0
  BY NothingSpent DEF CallInv, NoFault, Faults
<1>2. CASE Queue
  <2>1. CASE Return
    BY <1>1, <2>1, ReplyCalls DEF Return
  <2>2. CASE \/ WriteJournal \/ WriteSettlement \/ ClearJournal \/ WriteReconciliation
             \/ WriteSegmentAck
    BY <2>2, WritingCalls DEF WriteJournal, WriteSettlement, ClearJournal, WriteReconciliation,
                              WriteSegmentAck, Writing, world
  <2>3. CASE \/ WriteSegmentFailure \/ WritePartAck \/ WritePartFailure \/ WriteMark
             \/ WriteRebuiltTable
    BY <2>3, WritingCalls DEF WriteSegmentFailure, WritePartAck, WritePartFailure, WriteMark,
                              WriteRebuiltTable, Writing, world
  <2> QED  BY <1>2, <2>1, <2>2, <2>3 DEF Queue
<1>3. CASE Steps
  <2>0. left' = left
    BY <1>3 DEF Steps, SessionStep, DrainStep, RepairStep, StartReconcile, SyncStep,
                Begin, RepairReadsFacts, RepairReadsTable, world
  <2>1. CASE SessionStep
    <3>1. closing.at \in {"journal", "settle", "clear"}
      BY <2>1 DEF SessionStep, TypeOK, Closing, SettleAt
    <3>2. "session" \notin Syncs
      BY NoSuchSync
    <3>3. closing.at \notin SyncOps /\ closing.at \notin {"table", "mark"}
      BY <3>1 DEF SyncOps
    <3> QED  BY <2>0, <2>1, <3>2, <3>3, BeginCalls DEF SessionStep
  <2>2. CASE DrainStep
    <3>1. drain.at \in {"journal", "settle", "clear"}
      BY <2>2 DEF DrainStep, TypeOK, Draining, SettleAt
    <3>2. "drain" \notin Syncs
      BY NoSuchSync
    <3>3. drain.at \notin SyncOps /\ drain.at \notin {"table", "mark"}
      BY <3>1 DEF SyncOps
    <3> QED  BY <2>0, <2>2, <3>2, <3>3, BeginCalls DEF DrainStep
  <2>3. CASE StartReconcile
    <3>1. "startup" \notin Syncs
      BY NoSuchSync
    <3>2. "reconcile" \notin SyncOps
      BY DEF SyncOps
    <3> QED  BY <2>0, <2>3, <3>1, <3>2, BeginCalls DEF StartReconcile
  <2>4. CASE RepairStep \/ RepairReadsFacts \/ RepairReadsTable
    BY <1>1, <2>4 DEF RepairStep, RepairReadsFacts, RepairReadsTable, NoRepair
  <2>5. ASSUME NEW u \in Syncs, SyncStep(u) PROVE CallInv'
    <3>1. u # "repair"
      BY NoSuchSync
    <3>2. CASE sync[u].at \in {"ackSegs", "failSegs"} /\ Begin(sync[u].at, u, sync[u].ids, {}, 0)
      BY <2>0, <3>1, <3>2, BeginCalls
    <3>3. CASE /\ sync[u].at \in {"ackPart", "failPart"}
               /\ Begin(sync[u].at, u, {}, {ThisPart(u)}, sync[u].rev[ThisPart(u)])
      BY <2>0, <3>1, <3>3, BeginCalls
    <3> QED  BY <2>5, <3>2, <3>3 DEF SyncStep
  <2> QED  BY <1>3, <2>1, <2>2, <2>3, <2>4, <2>5 DEF Steps
<1>4. ASSUME NEW u \in Syncs, Sync(u) PROVE CallInv'
  BY <1>1, <1>4, SyncMoves, SyncMoveCalls
<1>5. CASE ScheduledMaintenance
  <2>1. job.at = "free" /\ UNCHANGED <<job, repair, sync, locked, left>>
    BY <1>5 DEF ScheduledMaintenance, procs, world
  <2> QED  BY <2>1 DEF CallInv, NoFault, OneRun, TasksMatch, ReadIsCurrent, Serves, ThisPart
<1>6. CASE \/ PressureElsewhere \/ PressureInWrite
           \/ \E k \in Keys : RepairReadsSegments(k)
  BY <1>1, <1>6 DEF PressureElsewhere, PressureInWrite, RepairReadsSegments
<1>7. CASE Throw
  <2>1. \E ok \in BOOLEAN : Reply(ok) /\ job.at # "free"
    BY <1>7 DEF Throw
  <2> QED  BY <1>1, <2>1, ReplyCalls
<1>8. CASE Crash
  <2>1. job'.at = "free" /\ ~job'.hit /\ repair' = NoRepair
          /\ \A u \in Syncs : sync'[u].at = "idle"
    BY <1>8, IdleValues DEF Crash, Free
  <2> QED  BY <1>1, <2>1 DEF CallInv, NoFault, OneRun, TasksMatch, ReadIsCurrent, Serves
<1>9. CASE \/ StartDrain \/ LateArrival \/ UNCHANGED vars
           \/ (\E i \in Ids : CloseSegment(i)) \/ (\E d \in Dates : Midnight(d))
  <2>1. UNCHANGED <<disk, job, repair, sync, locked, left>>
    BY <1>9 DEF StartDrain, LateArrival, CloseSegment, Midnight, vars, procs, world
  <2> QED  BY <2>1 DEF CallInv, NoFault, OneRun, TasksMatch, ReadIsCurrent, Serves, ThisPart
<1> QED
  BY <1>2, <1>3, <1>4, <1>5, <1>6, <1>7, <1>8, <1>9 DEF Next

(***************************************************************************)
(* The stored aggregates and the package of the sync under way.            *)
(***************************************************************************)
\* A revision above zero belongs to an outbox that is dirty, of an aggregate
\* that exists: compaction forgets no revision that a package may hold.
RevisionsCount ==
    \A p \in Parts : disk.rev[p] > 0 => p \in disk.dirty /\ p[2] \in disk.made

\* Every segment is counted in all its aggregates, and waits in all its
\* outboxes until the Worker has acknowledged it.
Covered ==
    \A i \in disk.segs : \A k \in KeysOf(i) :
        /\ k \in disk.made /\ disk.stats[k].dom[i] >= 1
        /\ i \notin disk.up => \A v \in Views : <<v, k>> \in disk.dirty

DiskInv ==
    /\ disk.up \subseteq disk.segs /\ disk.up \cap disk.pend = {}
    /\ RevisionsCount /\ Covered

\* Package q still has to deal with outbox p.
Waits(q, acked, p) ==
    \E m \in DOMAIN Order[q.date] :
        Order[q.date][m] = p /\ m >= q.n /\ (m = q.n => ~acked)

\* The disk d is at least as far as package q; where it is no further, every
\* segment without acknowledgement is one that q carries.
Ahead(d, q, acked) ==
    \A p \in Parts : Waits(q, acked, p) =>
        /\ d.rev[p] >= q.rev[p]
        /\ p[2] \in q.keys /\ d.rev[p] = q.rev[p] =>
             \A i \in (d.segs \ d.up) \ q.ids : p[2] \notin KeysOf(i)

Active(u) == sync[u].at \notin {"idle", "prepare"}

PackOf(u) ==
    /\ Done(u, "ackSegs") => sync[u].ids \cap disk.segs \subseteq disk.up
    /\ ~Done(u, "ackSegs") => sync[u].ids \cap disk.up = {}
    /\ sync[u].at \in {"part", "ackPart", "failPart"} => sync[u].ids = {}
    /\ sync[u].keys \subseteq KeysOn(sync[u].date)
    /\ \A k \in Keys \ sync[u].keys : sync[u].val[k] = None
    /\ sync[u].at = "ackPart" => ThisPart(u)[2] \in sync[u].keys
    /\ Ahead(disk, sync[u], Done(u, "ackPart"))

PackInv == \A u \in Syncs : Active(u) => PackOf(u)

CalmInv == FactInv /\ OneSegment /\ CallInv /\ DiskInv /\ PackInv

\* The keys of a segment, and the date they are on.
LEMMA KeysAndDates ==
    ASSUME NEW i \in Ids
    PROVE  /\ KeysOf(i) \subseteq Keys
           /\ \A k \in KeysOf(i) : DayOf(k) = DateOf[i]
           /\ DateOf[i] \in Dates
<1>1. HoursOf[i] \subseteq Hours /\ DateOf[i] \in Dates
  BY LedgerAssumption
<1>2. \A k \in HoursOf[i] : k \notin Dates /\ DateOfHour[k] = DateOf[i]
  BY <1>1, LedgerAssumption
<1> QED  BY <1>1, <1>2 DEF KeysOf, DayOf, Keys

\* The part a sync is at, of a task it waits for.
LEMMA PartAtHand ==
    ASSUME TypeOK, NEW u \in Syncs, sync[u].at \in {"ackPart", "failPart"}
    PROVE  /\ ThisPart(u) \in Parts
           /\ sync[u].n \in DOMAIN Order[sync[u].date]
           /\ Waits(sync[u], FALSE, ThisPart(u))
<1>1. sync[u].n \in DOMAIN Order[sync[u].date]
  BY DEF TypeOK
<1>2. sync[u].n \in Nat
  BY DEF TypeOK, Package
<1> QED  BY <1>1, <1>2, ThisPartType DEF Waits, ThisPart

\* Acknowledging the part at hand is the end of it: a date names it once.
LEMMA PartDone ==
    ASSUME TypeOK, NEW u \in Syncs, sync[u].at = "ackPart", NEW p \in Parts,
           Waits(sync[u], TRUE, p)
    PROVE  Waits(sync[u], FALSE, p) /\ p # ThisPart(u)
<1>1. sync[u].n \in DOMAIN Order[sync[u].date] /\ sync[u].date \in Dates /\ sync[u].n \in Nat
  BY DEF TypeOK, Package
<1>2. PICK m \in DOMAIN Order[sync[u].date] :
        Order[sync[u].date][m] = p /\ m >= sync[u].n /\ m # sync[u].n
  BY DEF Waits
<1>3. Waits(sync[u], FALSE, p)
  BY <1>2 DEF Waits
<1>4. p # ThisPart(u)
  BY <1>1, <1>2, SyncAssumption DEF ThisPart
<1> QED  BY <1>3, <1>4

\* Where the disk is as far as before, the package is where it was.
LEMMA AheadStays ==
    ASSUME NEW q \in Package, NEW d \in Disk, NEW e \in Disk, NEW a \in BOOLEAN, NEW b \in BOOLEAN,
           Ahead(d, q, a),
           \A p \in Parts : Waits(q, b, p) => Waits(q, a, p) /\ e.rev[p] >= d.rev[p],
           \A p \in Parts : Waits(q, b, p) /\ e.rev[p] = d.rev[p] =>
             \A i \in e.segs \ e.up : i \in d.segs \ d.up \/ p[2] \notin KeysOf(i)
    PROVE  Ahead(e, q, b)
<1>1. \A p \in Parts : d.rev[p] \in Nat /\ e.rev[p] \in Nat /\ q.rev[p] \in Nat
  BY DEF Disk, Package
<1>2. ASSUME NEW p \in Parts, Waits(q, b, p)
      PROVE  /\ e.rev[p] >= q.rev[p]
             /\ p[2] \in q.keys /\ e.rev[p] = q.rev[p] =>
                  \A i \in (e.segs \ e.up) \ q.ids : p[2] \notin KeysOf(i)
  <2>1. d.rev[p] >= q.rev[p] /\ e.rev[p] >= d.rev[p]
    BY <1>2 DEF Ahead
  <2>2. e.rev[p] = q.rev[p] => d.rev[p] = q.rev[p] /\ e.rev[p] = d.rev[p]
    BY <1>1, <2>1
  <2>3. p[2] \in q.keys /\ d.rev[p] = q.rev[p] =>
          \A i \in (d.segs \ d.up) \ q.ids : p[2] \notin KeysOf(i)
    BY <1>2 DEF Ahead
  <2>4. e.rev[p] = d.rev[p] =>
          \A i \in e.segs \ e.up : i \in d.segs \ d.up \/ p[2] \notin KeysOf(i)
    BY <1>2
  <2>5. e.rev[p] >= q.rev[p]
    BY <1>1, <2>1
  <2> QED  BY <2>2, <2>3, <2>4, <2>5
<1> QED  BY <1>2 DEF Ahead

(***************************************************************************)
(* What a step does to the stored record.                                  *)
(***************************************************************************)
\* No revision falls, and where it stays no unacknowledged segment is added.
Onward(d, e) ==
    \A p \in Parts :
        /\ e.rev[p] >= d.rev[p]
        /\ e.rev[p] = d.rev[p] =>
             \A i \in e.segs \ e.up : i \in d.segs \ d.up \/ p[2] \notin KeysOf(i)

\* A settlement is written for a segment that is not on disk.
LEMMA SettlementIsNew ==
    ASSUME CalmInv, WriteSettlement
    PROVE  \E i \in Ids :
           LET P == Views \X KeysOf(i) IN
           /\ i \notin disk.segs
           /\ disk'.segs = disk.segs \cup {i} /\ disk'.up = disk.up
           /\ disk'.pend = disk.pend \cup {i} /\ disk'.comp = disk.comp
           /\ disk'.made = disk.made \cup KeysOf(i)
           /\ disk'.stats = [k \in Keys |-> IF k \in KeysOf(i)
                               THEN AddTo(disk.stats[k], i) ELSE disk.stats[k]]
           /\ disk'.dirty = disk.dirty \cup P
           /\ disk'.rev = [p \in Parts |-> IF p \in P THEN disk.rev[p] + 1 ELSE disk.rev[p]]
<1>1. TypeOK /\ job.snap = disk /\ job.task.op = "settle" /\ ~NothingToDo
        /\ AtMostOne(job.task.ids)
  BY DEF CalmInv, FactInv, CallInv, ReadIsCurrent, OneSegment, WriteSettlement, Writing
<1>2. \E j \in job.task.ids : j \notin disk.segs
  BY <1>1 DEF NothingToDo
<1>3. \A i \in job.task.ids : i \notin disk.segs
  BY <1>1, <1>2 DEF AtMostOne
<1>4. \E i \in job.task.ids \cap Ids :
           LET P == Views \X KeysOf(i) IN
           /\ disk'.segs = disk.segs \cup {i} /\ disk'.up = disk.up
           /\ disk'.pend = disk.pend \cup {i} /\ disk'.comp = disk.comp
           /\ disk'.made = disk.made \cup KeysOf(i)
           /\ disk'.stats = [k \in Keys |-> IF k \in KeysOf(i)
                               THEN AddTo(disk.stats[k], i) ELSE disk.stats[k]]
           /\ disk'.dirty = disk.dirty \cup P
           /\ disk'.rev = [p \in Parts |-> IF p \in P THEN disk.rev[p] + 1 ELSE disk.rev[p]]
  BY <1>1, SettlementFields
<1> QED  BY <1>3, <1>4

LEMMA SettlementCalm ==
    ASSUME CalmInv, WriteSettlement
    PROVE  DiskInv' /\ Onward(disk, disk') /\ disk'.up \subseteq disk.up
<1>1. PICK i \in Ids :
           LET P == Views \X KeysOf(i) IN
           /\ i \notin disk.segs
           /\ disk'.segs = disk.segs \cup {i} /\ disk'.up = disk.up
           /\ disk'.pend = disk.pend \cup {i} /\ disk'.comp = disk.comp
           /\ disk'.made = disk.made \cup KeysOf(i)
           /\ disk'.stats = [k \in Keys |-> IF k \in KeysOf(i)
                               THEN AddTo(disk.stats[k], i) ELSE disk.stats[k]]
           /\ disk'.dirty = disk.dirty \cup P
           /\ disk'.rev = [p \in Parts |-> IF p \in P THEN disk.rev[p] + 1 ELSE disk.rev[p]]
  BY SettlementIsNew
<1>2. disk \in Disk /\ DiskInv
  BY DEF CalmInv, FactInv, TypeOK
<1>3. \A p \in Parts : disk.rev[p] \in Nat
  BY <1>2 DEF Disk
<1>4. \A p \in Parts : p = <<p[1], p[2]>> /\ p[1] \in Views /\ p[2] \in Keys
  BY DEF Parts
<1>5. RevisionsCount'
  BY <1>1, <1>2, <1>3, <1>4 DEF RevisionsCount, DiskInv
<1>6. \A k \in Keys, j \in Ids :
        /\ disk.stats[k].dom[j] \in Nat
        /\ disk'.stats[k].dom[j] = IF k \in KeysOf(i) /\ j = i
                                    THEN disk.stats[k].dom[j] + 1 ELSE disk.stats[k].dom[j]
  BY <1>1, <1>2 DEF Disk, Stat, Counts, AddTo
<1>7. ASSUME NEW j \in disk'.segs, NEW k \in KeysOf(j)
      PROVE  /\ k \in disk'.made /\ disk'.stats[k].dom[j] >= 1
             /\ j \notin disk'.up => \A v \in Views : <<v, k>> \in disk'.dirty
  <2>1. j \in Ids /\ k \in Keys
    BY <1>1, <1>2, KeysAndDates DEF Disk
  <2>2. CASE j = i
    <3>1. \A v \in Views : <<v, k>> \in Views \X KeysOf(i)
      BY <2>2
    <3> QED  BY <1>1, <1>6, <2>1, <2>2, <3>1
  <2>3. CASE j # i
    <3>1. j \in disk.segs
      BY <1>1, <2>3
    <3>2. /\ k \in disk.made /\ disk.stats[k].dom[j] >= 1
          /\ j \notin disk.up => \A v \in Views : <<v, k>> \in disk.dirty
      BY <1>2, <3>1 DEF DiskInv, Covered
    <3> QED  BY <1>1, <1>6, <2>1, <2>3, <3>2
  <2> QED  BY <2>2, <2>3
<1>8. Covered'
  BY <1>7 DEF Covered
<1>9. disk'.up \subseteq disk'.segs /\ disk'.up \cap disk'.pend = {}
  BY <1>1, <1>2 DEF DiskInv
<1>10. Onward(disk, disk')
  <2>1. ASSUME NEW p \in Parts
        PROVE  /\ disk'.rev[p] >= disk.rev[p]
               /\ disk'.rev[p] = disk.rev[p] => p[2] \notin KeysOf(i)
    BY <1>1, <1>3, <1>4
  <2> QED  BY <1>1, <2>1 DEF Onward
<1> QED  BY <1>1, <1>5, <1>8, <1>9, <1>10 DEF DiskInv

\* The outboxes may grow and a missing aggregate be filled in.
LEMMA CoveredGrows ==
    ASSUME CalmInv, disk'.segs \subseteq disk.segs, disk.segs \cap disk.up \subseteq disk'.up,
           disk.made \subseteq disk'.made,
           \A k \in disk.made : disk'.stats[k] = disk.stats[k],
           \A i \in disk'.segs \ disk'.up : \A k \in KeysOf(i), v \in Views :
             <<v, k>> \in disk.dirty => <<v, k>> \in disk'.dirty
    PROVE  Covered'
<1>1. Covered
  BY DEF CalmInv, DiskInv
<1>2. ASSUME NEW i \in disk'.segs, NEW k \in KeysOf(i)
      PROVE  /\ k \in disk'.made /\ disk'.stats[k].dom[i] >= 1
             /\ i \notin disk'.up => \A v \in Views : <<v, k>> \in disk'.dirty
  <2>1. /\ k \in disk.made /\ disk.stats[k].dom[i] >= 1
        /\ i \notin disk.up => \A v \in Views : <<v, k>> \in disk.dirty
    BY <1>1, <1>2 DEF Covered
  <2> QED  BY <1>2, <2>1
<1> QED  BY <1>2 DEF Covered

LEMMA ReconciliationCalm ==
    ASSUME CalmInv, WriteReconciliation
    PROVE  DiskInv' /\ Onward(disk, disk') /\ disk'.up \subseteq disk.up
<1> DEFINE seen == {k \in Keys : HasFacts(disk.segs, disk.comp, k)}
<1>1. TypeOK /\ job.snap = disk /\ disk \in Disk /\ DiskInv
  BY DEF CalmInv, FactInv, CallInv, ReadIsCurrent, WriteReconciliation, Writing, TypeOK
<1>2. /\ disk'.segs = disk.segs /\ disk'.up = disk.up /\ disk'.pend = disk.segs \ disk.up
      /\ disk'.made = disk.made \cup seen
      /\ disk'.stats = [k \in Keys |-> IF k \in seen \ disk.made
                          THEN FromFacts(disk.segs, disk.comp, k) ELSE disk.stats[k]]
      /\ disk'.dirty = disk.dirty \cup (Views \X seen)
      /\ disk'.rev = [p \in Parts |-> IF p \in Views \X seen
                        THEN disk.rev[p] + 1 ELSE disk.rev[p]]
  BY <1>1, ReconciliationFields
<1> HIDE DEF seen
<1>3. \A p \in Parts : disk.rev[p] \in Nat /\ p = <<p[1], p[2]>> /\ p[1] \in Views /\ p[2] \in Keys
  BY <1>1 DEF Disk, Parts
<1>4. RevisionsCount'
  BY <1>1, <1>2, <1>3 DEF RevisionsCount, DiskInv
<1>5. \A k \in disk.made : disk'.stats[k] = disk.stats[k]
  BY <1>1, <1>2 DEF Disk
<1>6. Covered'
  BY <1>2, <1>5, CoveredGrows
<1>7. Onward(disk, disk')
  BY <1>2, <1>3 DEF Onward
<1> QED  BY <1>1, <1>2, <1>4, <1>6, <1>7 DEF DiskInv

\* The journal is no part of the aggregates; a failed upload queues again the
\* facts of its package, of which none has been acknowledged.
LEMMA PlainWritesCalm ==
    ASSUME CalmInv, WriteJournal \/ ClearJournal \/ WriteSegmentFailure
    PROVE  DiskInv' /\ Onward(disk, disk') /\ disk'.up \subseteq disk.up
<1>1. TypeOK /\ disk \in Disk /\ DiskInv /\ CallInv /\ PackInv
  BY DEF CalmInv, FactInv, TypeOK
<1>2. /\ disk'.segs = disk.segs /\ disk'.up = disk.up /\ disk'.made = disk.made
      /\ disk'.stats = disk.stats /\ disk'.dirty = disk.dirty /\ disk'.rev = disk.rev
  BY <1>1 DEF WriteJournal, ClearJournal, WriteSegmentFailure, Disk
<1>3. disk'.up \cap disk'.pend = {}
  <2>1. CASE WriteJournal \/ ClearJournal
    <3>1. disk'.pend = disk.pend
      BY <1>1, <2>1 DEF WriteJournal, ClearJournal, Disk
    <3> QED  BY <1>1, <1>2, <3>1 DEF DiskInv
  <2>2. CASE WriteSegmentFailure
    <3>1. /\ job.at = "read" /\ job.task.op = "failSegs" /\ job.snap = disk
          /\ disk'.pend = disk.pend \cup job.task.ids
      BY <1>1, <2>2 DEF WriteSegmentFailure, Writing, Disk, CallInv, ReadIsCurrent
    <3>2. PICK u \in Syncs : Serves(u)
      BY <1>1, <3>1 DEF CallInv, TasksMatch, SyncOps, Serves
    <3>3. sync[u].at = "failSegs" /\ job.task.ids = sync[u].ids
      BY <1>1, <3>1, <3>2 DEF CallInv, TasksMatch
    <3>4. PackOf(u) /\ ~Done(u, "ackSegs")
      BY <1>1, <3>1, <3>3 DEF PackInv, Active, Done
    <3>5. job.task.ids \cap disk.up = {}
      BY <3>3, <3>4 DEF PackOf
    <3> QED  BY <1>1, <1>2, <3>1, <3>5 DEF DiskInv
  <2> QED  BY <2>1, <2>2
<1>4. Covered'
  BY <1>2, CoveredGrows
<1>5. \A p \in Parts : disk.rev[p] \in Nat
  BY <1>1 DEF Disk
<1>6. RevisionsCount' /\ Onward(disk, disk')
  BY <1>1, <1>2, <1>5 DEF RevisionsCount, DiskInv, Onward
<1> QED  BY <1>1, <1>2, <1>3, <1>4, <1>6 DEF DiskInv

\* An acknowledgement of facts leaves nothing of the package unacknowledged.
LEMMA SegmentAckCalm ==
    ASSUME CalmInv, WriteSegmentAck
    PROVE  /\ DiskInv' /\ Onward(disk, disk')
           /\ job.task.ids \cap disk'.segs \subseteq disk'.up
<1>1. /\ TypeOK /\ disk \in Disk /\ DiskInv /\ job.snap = disk
  BY DEF CalmInv, FactInv, TypeOK, CallInv, ReadIsCurrent, WriteSegmentAck, Writing
<1>2. /\ disk'.segs = disk.segs /\ disk'.up = disk.up \cup (job.task.ids \cap disk.segs)
      /\ disk'.pend = disk.pend \ (job.task.ids \cap disk.segs)
      /\ disk'.made = disk.made
      /\ disk'.stats = disk.stats /\ disk'.dirty = disk.dirty /\ disk'.rev = disk.rev
  BY <1>1 DEF WriteSegmentAck, AckSegments, Disk
<1>3. Covered'
  BY <1>2, CoveredGrows
<1>4. \A p \in Parts : disk.rev[p] \in Nat
  BY <1>1 DEF Disk
<1>5. RevisionsCount' /\ Onward(disk, disk')
  BY <1>1, <1>2, <1>4 DEF RevisionsCount, DiskInv, Onward
<1> QED  BY <1>1, <1>2, <1>3, <1>5 DEF DiskInv

\* The tables and outboxes a sync's answer writes are those on disk, but for
\* the part it answers.
LEMMA PartWriteIsPlain ==
    ASSUME CalmInv, WritePartAck \/ WritePartFailure
    PROVE  \E u \in Syncs :
           LET p == ThisPart(u) IN
           /\ Serves(u) /\ job.task.op = sync[u].at /\ job.at = "read"
           /\ disk'.segs = disk.segs /\ disk'.up = disk.up /\ disk'.pend = disk.pend
           /\ disk'.made = disk.made /\ disk'.stats = disk.stats
           /\ \/ /\ WritePartAck /\ sync[u].at = "ackPart" /\ disk.rev[p] = sync[u].rev[p]
                 /\ disk'.dirty = disk.dirty \ {p}
                 /\ disk'.rev = [disk.rev EXCEPT ![p] = 0]
              \/ /\ WritePartFailure /\ sync[u].at = "failPart"
                 /\ disk'.dirty = disk.dirty \cup {p} /\ disk'.rev = disk.rev
<1>1. /\ TypeOK /\ disk \in Disk /\ CallInv /\ job.snap = disk /\ job.at = "read" /\ ~NothingToDo
  BY DEF CalmInv, FactInv, TypeOK, CallInv, ReadIsCurrent, WritePartAck, WritePartFailure, Writing
<1>2. PICK u \in Syncs : Serves(u)
  BY <1>1 DEF CallInv, TasksMatch, SyncOps, Serves, WritePartAck, WritePartFailure, Writing
<1>3. /\ job.task.op = sync[u].at /\ sync[u].at \in {"ackPart", "failPart"}
      /\ job.task.parts = {ThisPart(u)} /\ job.task.rev = sync[u].rev[ThisPart(u)]
      /\ WritePartAck => sync[u].at = "ackPart"
      /\ WritePartFailure => sync[u].at = "failPart"
  BY <1>1, <1>2 DEF CallInv, TasksMatch, WritePartAck, WritePartFailure, Writing
<1> DEFINE p == ThisPart(u)
           K == SameKind(p[2])
           P == {p[1]} \X K
<1>4. p \in Parts
  BY <1>1, <1>3, PartAtHand
<1>5. p = <<p[1], p[2]>> /\ p[1] \in Views /\ p[2] \in Keys
  BY <1>4 DEF Parts
<1>6. p[2] \in K /\ p \in P
  BY <1>5 DEF SameKind, Keys
<1>7. CASE WritePartAck
  <2>1. disk.rev[p] = sync[u].rev[p]
    BY <1>1, <1>3, <1>7 DEF NothingToDo, WritePartAck, Writing
  <2>2. /\ disk'.segs = disk.segs /\ disk'.up = disk.up /\ disk'.pend = disk.pend
        /\ disk'.made = (disk.made \ K) \cup (disk.made \cap K)
        /\ disk'.stats = [k \in Keys |-> IF k \in K THEN disk.stats[k] ELSE disk.stats[k]]
        /\ disk'.dirty = (disk.dirty \ P) \cup ((disk.dirty \ {p}) \cap P)
        /\ disk'.rev = [q \in Parts |-> IF q \in P THEN [disk.rev EXCEPT ![p] = 0][q]
                                        ELSE disk.rev[q]]
    BY <1>1, <1>3, <1>7, PartAckFields
  <2> HIDE DEF p, K, P
  <2>3. /\ disk.stats \in [Keys -> Stat] /\ disk.rev \in [Parts -> Nat]
    BY <1>1 DEF Disk
  <2>4. disk'.made = disk.made /\ disk'.stats = disk.stats /\ disk'.dirty = disk.dirty \ {p}
    BY <1>6, <2>2, <2>3
  <2>5. disk'.rev = [disk.rev EXCEPT ![p] = 0]
    BY <1>4, <1>6, <2>2, <2>3
  <2> QED  BY <1>1, <1>2, <1>3, <1>7, <2>1, <2>2, <2>4, <2>5 DEF p
<1>8. CASE WritePartFailure
  <2>1. /\ disk'.segs = disk.segs /\ disk'.up = disk.up /\ disk'.pend = disk.pend
        /\ disk'.made = disk.made /\ disk'.stats = disk.stats
        /\ disk'.dirty = (disk.dirty \ P) \cup ((disk.dirty \cup {p}) \cap P)
        /\ disk'.rev = [q \in Parts |-> IF q \in P THEN disk.rev[q] ELSE disk.rev[q]]
    BY <1>1, <1>3, <1>8, PartFailureFields
  <2> HIDE DEF p, K, P
  <2>2. disk.rev \in [Parts -> Nat]
    BY <1>1 DEF Disk
  <2>3. disk'.dirty = disk.dirty \cup {p} /\ disk'.rev = disk.rev
    BY <1>6, <2>1, <2>2
  <2> QED  BY <1>1, <1>2, <1>3, <1>8, <2>1, <2>3 DEF p
<1> QED  BY <1>7, <1>8

\* An answer clears an outbox only if every segment it counts is acknowledged.
LEMMA PartWritesCalm ==
    ASSUME CalmInv, WritePartAck \/ WritePartFailure
    PROVE  DiskInv'
<1>1. PICK u \in Syncs :
           LET p == ThisPart(u) IN
           /\ Serves(u) /\ job.task.op = sync[u].at /\ job.at = "read"
           /\ disk'.segs = disk.segs /\ disk'.up = disk.up /\ disk'.pend = disk.pend
           /\ disk'.made = disk.made /\ disk'.stats = disk.stats
           /\ \/ /\ WritePartAck /\ sync[u].at = "ackPart" /\ disk.rev[p] = sync[u].rev[p]
                 /\ disk'.dirty = disk.dirty \ {p}
                 /\ disk'.rev = [disk.rev EXCEPT ![p] = 0]
              \/ /\ WritePartFailure /\ sync[u].at = "failPart"
                 /\ disk'.dirty = disk.dirty \cup {p} /\ disk'.rev = disk.rev
  BY PartWriteIsPlain
<1> DEFINE p == ThisPart(u)
<1>2. TypeOK /\ disk \in Disk /\ disk.rev \in [Parts -> Nat] /\ DiskInv /\ PackInv
  BY DEF CalmInv, FactInv, TypeOK, Disk
<1>3. p \in Parts /\ Waits(sync[u], FALSE, p)
  BY <1>1, <1>2, PartAtHand
<1>4. PackOf(u) /\ ~Done(u, "ackPart")
  BY <1>1, <1>2 DEF PackInv, Active, Done
<1> HIDE DEF p
<1>5. RevisionsCount'
  <2>1. ASSUME NEW q \in Parts, disk'.rev[q] > 0
        PROVE  q \in disk'.dirty /\ q[2] \in disk'.made
    BY <1>1, <1>2, <1>3, <2>1 DEF p, RevisionsCount, DiskInv
  <2> QED  BY <2>1 DEF RevisionsCount
<1>6. Covered'
  <2>1. ASSUME NEW i \in disk.segs \ disk.up, NEW k \in KeysOf(i), NEW v \in Views,
               <<v, k>> \in disk.dirty
        PROVE  <<v, k>> \in disk'.dirty
    <3>1. CASE WritePartAck /\ sync[u].at = "ackPart" /\ disk.rev[p] = sync[u].rev[p]
                 /\ disk'.dirty = disk.dirty \ {p}
      <4>1. /\ p[2] \in sync[u].keys /\ sync[u].ids = {}
            /\ Ahead(disk, sync[u], Done(u, "ackPart"))
        BY <1>4, <3>1 DEF PackOf, p
      <4>0. Waits(sync[u], Done(u, "ackPart"), p)
        BY <1>3, <1>4 DEF Waits
      <4>2. p[2] \notin KeysOf(i)
        BY <1>2, <1>3, <3>1, <4>1, <4>0 DEF Ahead
      <4>3. <<v, k>> # p
        BY <4>2
      <4> QED  BY <2>1, <3>1, <4>3
    <3>2. CASE disk'.dirty = disk.dirty \cup {p}
      BY <2>1, <3>2
    <3> QED  BY <1>1, <3>1, <3>2 DEF p
  <2> QED  BY <1>1, <2>1, CoveredGrows
<1> QED  BY <1>1, <1>2, <1>5, <1>6 DEF DiskInv

\* Retention takes an aggregate only after its segments.
LEMMA RoutineCalm ==
    ASSUME CalmInv, ScheduledMaintenance
    PROVE  DiskInv' /\ Onward(disk, disk') /\ disk'.up \subseteq disk.up
<1> DEFINE kept == {p \in disk.dirty : p[2] \in disk.made}
           pend == disk.pend \cap disk.segs
           oldSegs == {i \in disk.up \ pend : age[DateOf[i]] >= 1}
           oldKeys == {k \in disk.made \cap disk.sent :
                         /\ \A v \in Views : <<v, k>> \notin kept
                         /\ age[DayOf(k)] >= RetentionAge(k)}
<1>1. TypeOK /\ disk \in Disk /\ disk.rev \in [Parts -> Nat] /\ DiskInv /\ UnackedStaysQueued
  BY DEF CalmInv, FactInv, TypeOK, Disk
<1>2. disk' = Routine(disk)
  BY DEF ScheduledMaintenance
<1>3. /\ disk'.segs = disk.segs \ oldSegs /\ disk'.up = disk.up \ oldSegs /\ disk'.pend = pend
      /\ disk'.stats = [k \in Keys |-> IF k \in oldKeys THEN EmptyStat ELSE disk.stats[k]]
      /\ disk'.made = disk.made \ oldKeys
      /\ disk'.dirty = kept
      /\ disk'.rev = [p \in Parts |-> IF p \in kept THEN disk.rev[p] ELSE 0]
  BY <1>1, <1>2, RoutineFields
<1>4. \A p \in Parts : p = <<p[1], p[2]>> /\ p[1] \in Views /\ p[2] \in Keys
  BY DEF Parts
<1>5. \A p \in Parts : disk'.rev[p] = disk.rev[p] /\ disk.rev[p] \in Nat
  <2>1. ASSUME NEW p \in Parts PROVE disk'.rev[p] = disk.rev[p] /\ disk.rev[p] \in Nat
    <3>1. disk.rev[p] \in Nat
      BY <1>1
    <3>2. p \in kept \/ disk.rev[p] = 0
      BY <1>1, <3>1 DEF DiskInv, RevisionsCount
    <3> HIDE DEF kept
    <3> QED  BY <1>3, <3>1, <3>2
  <2> QED  BY <2>1
<1>6. RevisionsCount'
  <2>1. ASSUME NEW p \in Parts, disk'.rev[p] > 0
        PROVE  p \in disk'.dirty /\ p[2] \in disk'.made
    <3>1. p \in disk.dirty /\ p[2] \in disk.made
      BY <1>1, <1>5, <2>1 DEF DiskInv, RevisionsCount
    <3>2. p \in kept
      BY <3>1
    <3>3. p[2] \notin oldKeys
      BY <1>4, <3>2
    <3> QED  BY <1>3, <3>1, <3>2, <3>3
  <2> QED  BY <2>1 DEF RevisionsCount
<1>7. Covered'
  <2>1. ASSUME NEW i \in disk'.segs, NEW k \in KeysOf(i)
        PROVE  /\ k \in disk'.made /\ disk'.stats[k].dom[i] >= 1
               /\ i \notin disk'.up => \A v \in Views : <<v, k>> \in disk'.dirty
    <3>1. i \in Ids /\ k \in Keys /\ DayOf(k) = DateOf[i] /\ DateOf[i] \in Dates
      BY <1>1, <1>3, <2>1, KeysAndDates DEF Disk
    <3>2. /\ k \in disk.made /\ disk.stats[k].dom[i] >= 1
          /\ i \notin disk.up => \A v \in Views : <<v, k>> \in disk.dirty
      BY <1>1, <1>3, <2>1 DEF DiskInv, Covered
    <3>3. i \notin disk.up => \A v \in Views : <<v, k>> \in kept
      BY <3>2
    <3>4. k \notin oldKeys
      <4> SUFFICES ASSUME k \in oldKeys PROVE FALSE
        OBVIOUS
      <4>1. i \in disk.up
        BY <3>3, SyncAssumption
      <4>2. age[DateOf[i]] >= 1
        <5>1. age[DateOf[i]] >= RetentionAge(k) /\ age[DateOf[i]] \in Nat
          BY <1>1, <3>1 DEF TypeOK
        <5> QED  BY <5>1 DEF RetentionAge
      <4>3. i \in oldSegs
        BY <1>1, <4>1, <4>2 DEF DiskInv
      <4> QED  BY <1>3, <2>1, <4>3
    <3>5. i \notin disk'.up => i \notin disk.up
      BY <1>3, <2>1
    <3> HIDE DEF kept, oldKeys, oldSegs
    <3> QED  BY <1>3, <3>1, <3>2, <3>3, <3>4, <3>5
  <2> QED  BY <2>1 DEF Covered
<1>8. disk'.up \subseteq disk'.segs /\ disk'.up \cap disk'.pend = {} /\ disk'.up \subseteq disk.up
  BY <1>1, <1>3 DEF DiskInv
<1>9. Onward(disk, disk')
  <2>1. \A i \in disk'.segs \ disk'.up : i \in disk.segs \ disk.up
    BY <1>3
  <2> QED  BY <1>5, <2>1 DEF Onward
<1> QED  BY <1>6, <1>7, <1>8, <1>9 DEF DiskInv

(***************************************************************************)
(* What a step does to the package.                                        *)
(***************************************************************************)
\* A package whose task has not been written has all of its parts to do.
LEMMA NotDoneAhead ==
    ASSUME NEW u \in Syncs, PackOf(u), ~Done(u, "ackPart")
    PROVE  Ahead(disk, sync[u], FALSE)
<1>1. Ahead(disk, sync[u], Done(u, "ackPart"))
  BY DEF PackOf
<1>2. \A p : Waits(sync[u], FALSE, p) => Waits(sync[u], Done(u, "ackPart"), p)
  BY DEF Waits
<1> QED  BY <1>1, <1>2 DEF Ahead

\* A write that goes onward and acknowledges nothing leaves every package valid.
LEMMA OnwardPacks ==
    ASSUME CalmInv, TypeOK', Onward(disk, disk'), disk'.up \subseteq disk.up, UNCHANGED sync,
           \A u \in Syncs : ~Done(u, "ackSegs") /\ ~Done(u, "ackPart"),
           \A u \in Syncs : ~Done(u, "ackSegs")' /\ ~Done(u, "ackPart")'
    PROVE  PackInv'
<1>1. disk \in Disk /\ disk' \in Disk /\ sync \in [Syncs -> Package] /\ PackInv
  BY DEF CalmInv, FactInv, TypeOK
<1>2. ASSUME NEW u \in Syncs, Active(u) PROVE PackOf(u)'
  <2>1. PackOf(u) /\ ~Done(u, "ackSegs") /\ ~Done(u, "ackPart") /\ sync[u] \in Package
    BY <1>1, <1>2 DEF PackInv
  <2>2. Ahead(disk, sync[u], FALSE)
    BY <2>1, NotDoneAhead
  <2>3. Ahead(disk', sync[u], FALSE)
    BY <1>1, <2>1, <2>2, AheadStays DEF Onward
  <2>4. Ahead(disk', sync'[u], Done(u, "ackPart")')
    <3>1. \A p : Waits(sync[u], Done(u, "ackPart")', p) => Waits(sync[u], FALSE, p)
      BY DEF Waits
    <3> QED  BY <2>3, <3>1 DEF Ahead
  <2>5. ThisPart(u)' = ThisPart(u)
    BY DEF ThisPart
  <2> QED  BY <2>1, <2>4, <2>5 DEF PackOf
<1> QED  BY <1>2 DEF PackInv, Active

\* A task of a sync is that of every sync that has a package.
LEMMA TheOnlyPackage ==
    ASSUME TypeOK, CallInv, NEW u \in Syncs, Active(u), job.at # "free", job.task.op \in SyncOps
    PROVE  Serves(u) /\ job.task.op = sync[u].at
<1>1. PICK v \in Syncs : Serves(v)
  BY DEF CallInv, TasksMatch, Serves
<1>2. sync[v].at # "idle"
  BY <1>1, ServedSync DEF SyncOps
<1>3. u = v
  BY <1>2, OthersIdle DEF Active
<1> QED  BY <1>1, <1>3 DEF CallInv, TasksMatch

LEMMA SegmentAckPacks ==
    ASSUME CalmInv, TypeOK', WriteSegmentAck
    PROVE  PackInv'
<1>1. disk \in Disk /\ disk' \in Disk /\ sync \in [Syncs -> Package] /\ PackInv /\ TypeOK /\ CallInv
  BY DEF CalmInv, FactInv, TypeOK
<1>2. Writing("ackSegs") /\ left' = left /\ UNCHANGED sync /\ "ackSegs" \in Ops
        /\ "ackPart" \in Ops
  BY DEF WriteSegmentAck, Writing, procs, world, Ops
<1>3. Onward(disk, disk') /\ job.task.ids \cap disk'.segs \subseteq disk'.up
  BY SegmentAckCalm
<1>4. ASSUME NEW u \in Syncs, Active(u) PROVE PackOf(u)'
  <2>1. job.at = "read" /\ job.task.op = "ackSegs" /\ "ackSegs" \in SyncOps
    BY <1>2 DEF Writing, SyncOps
  <2>2. Serves(u) /\ sync[u].at = "ackSegs"
    BY <1>1, <1>4, <2>1, TheOnlyPackage
  <2>3. job.task.ids = sync[u].ids
    BY <1>1, <2>2 DEF CallInv, TasksMatch
  <2>4. PackOf(u) /\ ~Done(u, "ackPart") /\ sync[u] \in Package
    BY <1>1, <1>4, <2>1 DEF PackInv, Done
  <2>5. Done(u, "ackSegs")' /\ ~Done(u, "ackPart")'
    BY <1>1, <1>2, <2>2, WritingCalls
  <2>6. Ahead(disk', sync[u], FALSE)
    BY <1>1, <1>3, <2>4, NotDoneAhead, AheadStays DEF Onward
  <2>7. Ahead(disk', sync'[u], Done(u, "ackPart")')
    <3>1. \A p : Waits(sync[u], Done(u, "ackPart")', p) => Waits(sync[u], FALSE, p)
      BY <2>5 DEF Waits
    <3> QED  BY <1>2, <2>6, <3>1 DEF Ahead
  <2>8. ThisPart(u)' = ThisPart(u) /\ sync'[u] = sync[u]
    BY <1>2 DEF ThisPart
  <2> QED  BY <1>3, <2>2, <2>3, <2>4, <2>5, <2>7, <2>8 DEF PackOf
<1> QED  BY <1>2, <1>4 DEF PackInv, Active

LEMMA PartAckPacks ==
    ASSUME CalmInv, TypeOK', WritePartAck
    PROVE  PackInv'
<1>1. disk \in Disk /\ disk' \in Disk /\ sync \in [Syncs -> Package] /\ PackInv /\ TypeOK /\ CallInv
  BY DEF CalmInv, FactInv, TypeOK
<1>2. Writing("ackPart") /\ left' = left /\ UNCHANGED sync /\ "ackSegs" \in Ops
        /\ "ackPart" \in Ops
  BY DEF WritePartAck, Writing, procs, world, Ops
<1>4. ASSUME NEW u \in Syncs, Active(u) PROVE PackOf(u)'
  <2>1. job.at = "read" /\ job.task.op = "ackPart" /\ "ackPart" \in SyncOps
    BY <1>2 DEF Writing, SyncOps
  <2>2. Serves(u) /\ sync[u].at = "ackPart"
    BY <1>1, <1>4, <2>1, TheOnlyPackage
  <2>3. /\ disk'.segs = disk.segs /\ disk'.up = disk.up
        /\ disk'.rev = [disk.rev EXCEPT ![ThisPart(u)] = 0]
    <3>1. PICK v \in Syncs :
             /\ Serves(v) /\ disk'.segs = disk.segs /\ disk'.up = disk.up
             /\ disk'.rev = [disk.rev EXCEPT ![ThisPart(v)] = 0] \/ sync[v].at = "failPart"
      BY PartWriteIsPlain
    <3>2. u = v
      BY <2>2, <3>1 DEF Serves
    <3> QED  BY <2>2, <3>1, <3>2
  <2>4. PackOf(u) /\ ~Done(u, "ackPart") /\ ~Done(u, "ackSegs") /\ sync[u] \in Package
    BY <1>1, <1>4, <2>1 DEF PackInv, Done
  <2>5. Done(u, "ackPart")' /\ ~Done(u, "ackSegs")'
    BY <1>1, <1>2, <2>2, WritingCalls
  <2>6. Ahead(disk', sync[u], TRUE)
    <3>1. ASSUME NEW p \in Parts, Waits(sync[u], TRUE, p)
          PROVE  Waits(sync[u], FALSE, p) /\ disk'.rev[p] >= disk.rev[p]
      <4>1. Waits(sync[u], FALSE, p) /\ p # ThisPart(u)
        BY <1>1, <2>2, <3>1, PartDone
      <4>2. disk.rev \in [Parts -> Nat]
        BY <1>1 DEF Disk
      <4>3. disk'.rev[p] = disk.rev[p] /\ disk.rev[p] \in Nat
        BY <2>3, <4>1, <4>2
      <4>4. disk'.rev[p] >= disk.rev[p]
        BY <4>3
      <4> QED  BY <4>1, <4>4
    <3> QED  BY <1>1, <2>3, <2>4, <3>1, NotDoneAhead, AheadStays
  <2>7. Ahead(disk', sync'[u], Done(u, "ackPart")')
    <3>1. \A p : Waits(sync[u], Done(u, "ackPart")', p) => Waits(sync[u], TRUE, p)
      BY <2>5 DEF Waits
    <3> QED  BY <1>2, <2>6, <3>1 DEF Ahead
  <2>8. ThisPart(u)' = ThisPart(u) /\ sync'[u] = sync[u]
    BY <1>2 DEF ThisPart
  <2> QED  BY <2>2, <2>3, <2>4, <2>5, <2>7, <2>8 DEF PackOf
<1> QED  BY <1>2, <1>4 DEF PackInv, Active

\* Every write keeps the stored record and the package in order.
LEMMA WritesCalm ==
    ASSUME CalmInv, TypeOK', [Next]_vars,
           \/ WriteJournal \/ WriteSettlement \/ ClearJournal \/ WriteReconciliation
           \/ WriteSegmentAck \/ WriteSegmentFailure \/ WritePartAck
           \/ WritePartFailure \/ WriteMark \/ WriteRebuiltTable
    PROVE  DiskInv' /\ PackInv'
<1>0. TypeOK /\ CallInv
  BY DEF CalmInv, FactInv
<1>1. ASSUME NEW op \in Ops \ {"ackSegs", "ackPart"}, Writing(op)
      PROVE  /\ \A u \in Syncs : ~Done(u, "ackSegs")' /\ ~Done(u, "ackPart")'
             /\ \A u \in Syncs : ~Done(u, "ackSegs") /\ ~Done(u, "ackPart")
             /\ UNCHANGED sync
  <2>1. left' = left /\ job.at = "read" /\ UNCHANGED sync
    BY <1>1 DEF Writing, procs, world
  <2>2. "ackSegs" \in Ops /\ "ackPart" \in Ops
    BY DEF Ops
  <2>3. \A u \in Syncs : ~Done(u, "ackSegs") /\ ~Done(u, "ackPart")
    BY <2>1 DEF Done
  <2> QED  BY <1>0, <1>1, <2>1, <2>2, <2>3, WritingCalls
<1>2. {"journal", "settle", "clear", "reconcile", "failSegs", "failPart"}
        \subseteq Ops \ {"ackSegs", "ackPart"}
  BY DEF Ops
<1>3. CASE WriteJournal \/ ClearJournal \/ WriteSegmentFailure
  <2>1. Writing("journal") \/ Writing("clear") \/ Writing("failSegs")
    BY <1>3 DEF WriteJournal, ClearJournal, WriteSegmentFailure
  <2> QED  BY <1>1, <1>2, <1>3, <2>1, PlainWritesCalm, OnwardPacks
<1>4. CASE WriteSettlement
  <2>1. Writing("settle")
    BY <1>4 DEF WriteSettlement
  <2> QED  BY <1>1, <1>2, <1>4, <2>1, SettlementCalm, OnwardPacks
<1>5. CASE WriteReconciliation
  <2>1. Writing("reconcile")
    BY <1>5 DEF WriteReconciliation
  <2> QED  BY <1>1, <1>2, <1>5, <2>1, ReconciliationCalm, OnwardPacks
<1>6. CASE WriteSegmentAck
  BY <1>6, SegmentAckCalm, SegmentAckPacks
<1>7. CASE WritePartAck
  BY <1>7, PartWritesCalm, PartAckPacks
<1>8. CASE WritePartFailure
  <2>1. Writing("failPart") /\ ~WritePartAck
    BY <1>8 DEF WritePartFailure, WritePartAck, Writing
  <2>2. disk'.segs = disk.segs /\ disk'.up = disk.up /\ disk'.rev = disk.rev
    BY <1>8, <2>1, PartWriteIsPlain
  <2>3. \A p \in Parts : disk.rev[p] \in Nat
    BY <1>0 DEF TypeOK, Disk
  <2>4. Onward(disk, disk') /\ disk'.up \subseteq disk.up
    BY <2>2, <2>3 DEF Onward
  <2> QED  BY <1>1, <1>2, <1>8, <2>1, <2>4, PartWritesCalm, OnwardPacks
<1>9. CASE WriteMark \/ WriteRebuiltTable
  BY <1>0, <1>9 DEF WriteMark, WriteRebuiltTable, Writing, CallInv, NoFault
<1> QED  BY <1>3, <1>4, <1>5, <1>6, <1>7, <1>8, <1>9

\* When a sync's task returns or throws, its package moves on by what was done.
LEMMA ReplyPacks ==
    ASSUME CalmInv, TypeOK', NEW ok \in BOOLEAN, Reply(ok), job.at # "free",
           ok => job.at = "written" \/ (job.at = "read" /\ NothingToDo),
           ~ok => job.at = "read"
    PROVE  PackInv'
<1>1. TypeOK /\ CallInv /\ PackInv /\ disk \in Disk /\ sync \in [Syncs -> Package]
  BY DEF CalmInv, FactInv, TypeOK
<1>2. /\ disk' = disk /\ job'.at = "free"
      /\ \A u \in Syncs : ~Done(u, "ackSegs")' /\ ~Done(u, "ackPart")'
  BY DEF Reply, Free, Done, Serves
<1>3. CASE UNCHANGED sync /\ job.task.who \notin Syncs
  <2>1. \A u \in Syncs : ~Done(u, "ackSegs") /\ ~Done(u, "ackPart")
    BY <1>3 DEF Done, Serves
  <2>2. \A p \in Parts : disk.rev[p] \in Nat
    BY <1>1 DEF Disk
  <2>3. Onward(disk, disk') /\ disk'.up \subseteq disk.up
    BY <1>2, <2>2 DEF Onward
  <2> QED  BY <1>2, <1>3, <2>1, <2>3, OnwardPacks
<1>4. ASSUME NEW u \in Syncs, job.task.who = u, SyncReturns(u, ok)
      PROVE  PackInv'
  <2>1. Serves(u) /\ sync[u].at \in SyncOps /\ job.task.op = sync[u].at
    BY <1>1, <1>4, ServedSync DEF Serves
  <2>2. Active(u) /\ PackOf(u) /\ sync[u] \in Package
    BY <1>1, <2>1 DEF Active, SyncOps, PackInv
  <2>3. \A v \in Syncs \ {u} : ~Active(v)'
    <3>1. \A v \in Syncs \ {u} : sync'[v] = sync[v] /\ sync[v].at = "idle"
      BY <1>1, <1>4, <2>1, <2>2, ReturnMoves, OthersIdle DEF Active
    <3> QED  BY <3>1 DEF Active
  <2>4. SUFFICES ASSUME Active(u)' PROVE PackOf(u)'
    BY <2>3 DEF PackInv
  <2>5. CASE sync[u].at = "ackSegs" /\ ok /\ sync'[u] = [sync[u] EXCEPT !.at = "part", !.ids = {}]
    <3> DEFINE q == sync'[u]
    <3>1. /\ q.at = "part" /\ q.ids = {} /\ q.date = sync[u].date /\ q.val = sync[u].val
          /\ q.keys = sync[u].keys /\ q.rev = sync[u].rev /\ q.n = sync[u].n
      BY <2>2, <2>5 DEF Package
    <3>2. sync[u].ids \cap disk.segs \subseteq disk.up
      <4>1. CASE job.at = "written"
        BY <2>1, <2>2, <2>5, <4>1 DEF Done, PackOf
      <4>2. CASE job.at = "read" /\ NothingToDo
        <5>1. job.task.ids \cap job.snap.segs = {}
          BY <2>1, <2>5, <4>2 DEF NothingToDo
        <5> QED  BY <1>1, <2>1, <2>5, <4>2, <5>1 DEF CallInv, TasksMatch, ReadIsCurrent
      <4> QED  BY <2>5, <4>1, <4>2
    <3>3. ~Done(u, "ackPart")
      BY <2>1, <2>5 DEF Done
    <3>4. Ahead(disk, sync[u], FALSE)
      BY <2>2, <3>3, NotDoneAhead
    <3> HIDE DEF q
    <3>5. Ahead(disk, q, FALSE)
      <4>1. \A p : Waits(q, FALSE, p) => Waits(sync[u], FALSE, p)
        BY <3>1 DEF Waits
      <4>2. \A i \in disk.segs \ disk.up : i \notin sync[u].ids
        BY <3>2
      <4> QED  BY <3>1, <3>4, <4>1, <4>2 DEF Ahead
    <3>6. Ahead(disk', q, Done(u, "ackPart")')
      <4>1. \A p : Waits(q, Done(u, "ackPart")', p) => Waits(q, FALSE, p)
        BY DEF Waits
      <4> QED  BY <1>2, <3>5, <4>1 DEF Ahead
    <3> QED  BY <1>2, <2>2, <3>1, <3>6 DEF PackOf, q
  <2>6. CASE ~ok /\ \E at \in {"failSegs", "failPart"} :
                       /\ sync'[u] = [sync[u] EXCEPT !.at = at]
                       /\ at = "failPart" => sync[u].at = "ackPart"
    <3> DEFINE q == sync'[u]
    <3>1. /\ q.at = "failSegs" \/ (q.at = "failPart" /\ sync[u].at = "ackPart")
          /\ q.ids = sync[u].ids /\ q.date = sync[u].date /\ q.val = sync[u].val
          /\ q.keys = sync[u].keys /\ q.rev = sync[u].rev /\ q.n = sync[u].n
      BY <2>2, <2>6 DEF Package
    <3>2. ~Done(u, "ackPart") /\ ~Done(u, "ackSegs")
      BY <2>6 DEF Done
    <3>4. Ahead(disk, sync[u], FALSE)
      BY <2>2, <3>2, NotDoneAhead
    <3> HIDE DEF q
    <3>6. Ahead(disk', q, Done(u, "ackPart")')
      <4>1. \A p : Waits(q, Done(u, "ackPart")', p) => Waits(sync[u], FALSE, p)
        BY <3>1 DEF Waits
      <4> QED  BY <1>2, <3>1, <3>4, <4>1 DEF Ahead
    <3> QED  BY <1>2, <2>2, <3>1, <3>2, <3>6 DEF PackOf, q
  <2>7. CASE /\ sync[u].at \in {"ackPart", "failPart"}
             /\ sync'[u] = [sync[u] EXCEPT !.at = "part", !.n = sync[u].n + 1]
    <3> DEFINE q == sync'[u]
    <3>1. /\ q.at = "part"
          /\ q.ids = sync[u].ids /\ q.date = sync[u].date /\ q.val = sync[u].val
          /\ q.keys = sync[u].keys /\ q.rev = sync[u].rev /\ q.n = sync[u].n + 1
          /\ sync[u].n \in Nat
      BY <2>2, <2>7 DEF Package
    <3>2. sync[u].ids = {} /\ Ahead(disk, sync[u], Done(u, "ackPart"))
      BY <2>2, <2>7 DEF PackOf
    <3> HIDE DEF q
    <3>6. Ahead(disk', q, Done(u, "ackPart")')
      <4>1. ASSUME NEW p, Waits(q, Done(u, "ackPart")', p)
            PROVE  Waits(sync[u], Done(u, "ackPart"), p)
        <5>1. PICK m \in DOMAIN Order[sync[u].date] :
                 Order[sync[u].date][m] = p /\ m >= sync[u].n + 1
          BY <3>1, <4>1 DEF Waits
        <5>2. m \in Nat
          <6>1. sync[u].date \in Dates
            BY <2>2 DEF Package
          <6> QED  BY <5>1, <6>1, LedgerAssumption
        <5>3. m >= sync[u].n /\ m # sync[u].n
          BY <3>1, <5>1, <5>2
        <5> QED  BY <5>1, <5>3 DEF Waits
      <4> QED  BY <1>2, <3>1, <3>2, <4>1 DEF Ahead
    <3> QED  BY <1>2, <2>2, <3>1, <3>2, <3>6 DEF PackOf, q
  <2>8. CASE sync'[u] = NoSync
    BY <2>4, <2>8, IdleValues DEF Active
  <2> QED
    BY <1>1, <1>4, <2>1, <2>5, <2>6, <2>7, <2>8, ReturnMoves
<1> QED
  <2>1. CASE \E u \in Syncs : job.task.who = u /\ SyncReturns(u, ok)
    BY <1>4, <2>1
  <2>2. CASE job.task.who \in {"session", "drain", "repair", "startup"} /\ UNCHANGED sync
    BY <1>3, <2>2, SyncAssumption
  <2> QED
    BY <2>1, <2>2 DEF Reply, SessionReturns, DrainReturns, RepairReturns, procs

\* A fresh package carries every unacknowledged segment of its date.
LEMMA SnapshotPack ==
    ASSUME CalmInv, TypeOK', NEW u \in Syncs, NEW d \in Dates, TakeSnapshot(u, d), Active(u)',
           \A v \in Syncs : ~Done(v, "ackSegs")' /\ ~Done(v, "ackPart")'
    PROVE  PackOf(u)'
<1> DEFINE keys == {k \in KeysOn(d) : \/ k \in Dates \cup disk.made
                                     \/ \E v \in Views : <<v, k>> \in disk.dirty}
           ids  == IdsOn(d) \cap disk.segs \cap disk.pend
           filled == {KindName(k) : k \in {j \in keys : Counted(disk.stats[j], j) # {}}}
           facts == \E i \in IdsOn(d) \cap disk.segs : <<i, d>> \notin Zero
           bad == IF facts THEN {"daily", "hourly"} \ filled ELSE {}
           at  == IF ids = {} THEN "part" ELSE "segments"
           q   == sync'[u]
<1>1. /\ TypeOK /\ disk \in Disk /\ sync \in [Syncs -> Package] /\ DiskInv /\ UnackedStaysQueued
      /\ disk' = disk
  BY DEF CalmInv, FactInv, TypeOK, TakeSnapshot
<1>2. keys \subseteq KeysOn(d) /\ ids \subseteq IdsOn(d) \cap disk.pend
        /\ at \in {"part", "segments"} /\ (at = "part" => ids = {})
        /\ \A i \in IdsOn(d) \cap disk.segs \cap disk.pend : i \in ids
  OBVIOUS
<1>3. \/ Finished(u)
      \/ sync' = [sync EXCEPT ![u] = Packed(at, d, ids, keys, bad)]
  BY DEF TakeSnapshot
<1> HIDE DEF keys, ids, filled, facts, bad, at
<1>4. sync' = [sync EXCEPT ![u] = Packed(at, d, ids, keys, bad)]
  <2>1. Finished(u) => sync'[u].at = "idle"
    BY <1>1, IdleValues DEF Finished
  <2> QED  BY <1>3, <2>1 DEF Active
<1>5. q = Packed(at, d, ids, keys, bad)
  BY <1>1, <1>4
<1>6. /\ q.at = at /\ q.date = d /\ q.ids = ids /\ q.keys = keys /\ q.rev = disk.rev
      /\ q.val = [k \in Keys |-> IF k \in keys THEN disk.stats[k].dom ELSE None]
  BY <1>5 DEF Packed
<1> HIDE DEF q
<1>7. \A k \in Keys \ keys : q.val[k] = None
  BY <1>6
<1>8. ids \cap disk.up = {}
  BY <1>1, <1>2 DEF DiskInv
<1>9. ASSUME NEW p \in Parts
      PROVE  /\ disk.rev[p] >= q.rev[p]
             /\ p[2] \in q.keys => \A i \in (disk.segs \ disk.up) \ q.ids : p[2] \notin KeysOf(i)
  <2>1. disk.rev[p] \in Nat
    BY <1>1 DEF Disk
  <2>2. ASSUME NEW i \in (disk.segs \ disk.up) \ q.ids, p[2] \in q.keys
        PROVE  p[2] \notin KeysOf(i)
    <3>1. i \in disk.pend /\ i \in Ids
      BY <1>1, <2>2 DEF UnackedStaysQueued, Disk
    <3>2. i \notin IdsOn(d)
      BY <1>2, <1>6, <2>2, <3>1
    <3>3. DateOf[i] # d
      BY <3>1, <3>2 DEF IdsOn
    <3>4. DayOf(p[2]) = d
      BY <1>2, <1>6, <2>2 DEF KeysOn
    <3> QED  BY <3>1, <3>3, <3>4, KeysAndDates
  <2> QED  BY <1>6, <2>1, <2>2
<1>10. Ahead(disk', q, Done(u, "ackPart")')
  BY <1>1, <1>9 DEF Ahead
<1> QED
  BY <1>1, <1>2, <1>6, <1>7, <1>8, <1>10 DEF PackOf, q

\* Sending does not change what the package carries; an answer is for a part
\* that the package covers.
LEMMA SendingPack ==
    ASSUME CalmInv, TypeOK', NEW u \in Syncs, SendSegments(u) \/ SendPart(u),
           \A v \in Syncs : ~Done(v, "ackSegs")' /\ ~Done(v, "ackPart")',
           ~Done(u, "ackSegs"), ~Done(u, "ackPart")
    PROVE  PackOf(u)'
<1> DEFINE q == sync'[u]
<1>1. /\ TypeOK /\ PackInv /\ sync \in [Syncs -> Package] /\ sync[u] \in Package /\ disk' = disk
  BY DEF CalmInv, FactInv, TypeOK, SendSegments, SendPart
<1>2. PackOf(u)
  BY <1>1 DEF PackInv, Active, SendSegments, SendPart
<1>3. Ahead(disk, sync[u], FALSE)
  BY <1>2, NotDoneAhead
<1>4. CASE SendSegments(u)
  <2>1. q = [sync[u] EXCEPT !.at = "ackSegs"] \/ q = [sync[u] EXCEPT !.at = "failSegs"]
    BY <1>1, <1>4 DEF SendSegments
  <2>2. /\ q.at \in {"ackSegs", "failSegs"}
        /\ q.ids = sync[u].ids /\ q.date = sync[u].date /\ q.val = sync[u].val
        /\ q.keys = sync[u].keys /\ q.rev = sync[u].rev /\ q.n = sync[u].n
    BY <1>1, <2>1 DEF Package
  <2> HIDE DEF q
  <2>3. Ahead(disk', q, Done(u, "ackPart")')
    <3>1. \A p : Waits(q, Done(u, "ackPart")', p) => Waits(sync[u], FALSE, p)
      BY <2>2 DEF Waits
    <3> QED  BY <1>1, <1>3, <2>2, <3>1 DEF Ahead
  <2> QED  BY <1>1, <1>2, <2>2, <2>3 DEF PackOf, q
<1>5. CASE SendPart(u)
  <2>1. sync[u].at = "part" /\ sync[u].n <= Len(Order[sync[u].date]) /\ sync[u].ids = {}
    BY <1>2, <1>5 DEF SendPart, PackOf
  <2>2. \/ q = [sync[u] EXCEPT !.at = "failPart"]
        \/ q = [sync[u] EXCEPT !.at = "ackPart"] /\ ThisPart(u)[2] \in sync[u].keys
        \/ q = [sync[u] EXCEPT !.n = sync[u].n + 1]
    <3>1. ThisPart(u) \in Parts
      <4>1. sync[u].n \in DOMAIN Order[sync[u].date]
        <5>1. sync[u].n \in Nat \ {0} /\ sync[u].date \in Dates
          BY <1>1 DEF Package
        <5>2. Order[sync[u].date] \in Seq(Parts)
          BY <5>1, LedgerAssumption
        <5>3. DOMAIN Order[sync[u].date] = 1 .. Len(Order[sync[u].date])
                /\ Len(Order[sync[u].date]) \in Nat
          BY <5>2
        <5> QED  BY <2>1, <5>1, <5>3
      <4> QED  BY <1>1, <4>1, ThisPartType
    <3>2. ThisCounted(u) # {} => ThisPart(u)[2] \in sync[u].keys
      <4> SUFFICES ASSUME NEW i \in Ids, ThisVal(u)[i] > 0, ThisPart(u)[2] \notin sync[u].keys
                   PROVE  FALSE
        BY DEF ThisCounted
      <4>1. ThisPart(u)[2] \in Keys
        BY <3>1 DEF Parts
      <4>2. sync[u].val[ThisPart(u)[2]] = None
        BY <1>2, <4>1 DEF PackOf
      <4> QED  BY <4>2 DEF ThisVal, None
    <3>3. CASE sync' = [sync EXCEPT ![u].at = "failPart"]
      BY <1>1, <3>3
    <3>4. CASE sync' = [sync EXCEPT ![u].at = "ackPart"] /\ ThisPart(u)[2] \in sync[u].keys
      BY <1>1, <3>4
    <3>5. CASE sync' = [sync EXCEPT ![u].n = @ + 1]
      BY <1>1, <3>5
    <3> HIDE DEF q
    <3> QED  BY <1>5, <3>2, <3>3, <3>4, <3>5 DEF SendPart
  <2>3. /\ \/ q.at = "failPart" /\ q.n = sync[u].n
           \/ q.at = "ackPart" /\ ThisPart(u)[2] \in sync[u].keys /\ q.n = sync[u].n
           \/ q.at = "part" /\ q.n = sync[u].n + 1
        /\ q.ids = sync[u].ids /\ q.date = sync[u].date /\ q.val = sync[u].val
        /\ q.keys = sync[u].keys /\ q.rev = sync[u].rev /\ sync[u].n \in Nat
    BY <1>1, <2>1, <2>2 DEF Package
  <2> HIDE DEF q
  <2>4. ASSUME NEW p, Waits(q, Done(u, "ackPart")', p)
        PROVE  Waits(sync[u], FALSE, p)
    <3>1. PICK m \in DOMAIN Order[sync[u].date] :
             Order[sync[u].date][m] = p /\ m >= q.n
      BY <2>3, <2>4 DEF Waits
    <3>2. m \in Nat
      <4>1. sync[u].date \in Dates
        BY <1>1 DEF Package
      <4> QED  BY <3>1, <4>1, LedgerAssumption
    <3>3. m >= sync[u].n
      BY <2>3, <3>1, <3>2
    <3> QED  BY <3>1, <3>3 DEF Waits
  <2>5. Ahead(disk', q, Done(u, "ackPart")')
    BY <1>1, <1>3, <2>3, <2>4 DEF Ahead
  <2>6. q.at = "ackPart" => ThisPart(u)' = ThisPart(u)
    BY <2>3 DEF ThisPart, q
  <2> QED  BY <1>1, <1>2, <2>1, <2>3, <2>5, <2>6 DEF PackOf, q
<1> QED  BY <1>4, <1>5

LEMMA SyncPacks ==
    ASSUME ~StaleLock, CalmInv, TypeOK', NEW u \in Syncs, Sync(u)
    PROVE  DiskInv' /\ PackInv'
<1>1. TypeOK /\ CallInv /\ DiskInv /\ sync \in [Syncs -> Package]
  BY DEF CalmInv, FactInv, TypeOK
<1>2. /\ UNCHANGED <<disk, job>> /\ sync[u].at \notin SyncOps
      /\ \A v \in Syncs \ {u} : sync'[v] = sync[v] /\ sync[v].at = "idle"
  BY <1>1, SyncMoves
<1>3. DiskInv'
  BY <1>1, <1>2 DEF DiskInv, RevisionsCount, Covered
<1>4. \A v \in Syncs : ~Serves(v)
  BY <1>1, <1>2, ServedSync DEF SyncOps
<1>5. \A v \in Syncs : /\ ~Done(v, "ackSegs") /\ ~Done(v, "ackPart")
                       /\ ~Done(v, "ackSegs")' /\ ~Done(v, "ackPart")'
  BY <1>2, <1>4 DEF Done, Serves
<1>6. SUFFICES ASSUME Active(u)' PROVE PackOf(u)'
  BY <1>2, <1>3 DEF PackInv, Active
<1>7. CASE StartSync(u)
  BY <1>1, <1>6, <1>7 DEF StartSync, Active
<1>8. CASE \E d \in Dates : TakeSnapshot(u, d)
  BY <1>5, <1>6, <1>8, SnapshotPack
<1>9. CASE SendSegments(u) \/ SendPart(u)
  BY <1>5, <1>9, SendingPack
<1>10. CASE EndSync(u)
  BY <1>1, <1>6, <1>10, IdleValues DEF EndSync, Finished, Active
<1> QED  BY <1>7, <1>8, <1>9, <1>10 DEF Sync

\* Every step keeps the stored record and the package in order.
LEMMA NextCalm ==
    ASSUME ~StaleLock, CalmInv, TypeOK', [Next]_vars
    PROVE  DiskInv' /\ PackInv'
<1>1. /\ TypeOK /\ CallInv /\ DiskInv /\ PackInv /\ disk \in Disk /\ sync \in [Syncs -> Package]
      /\ left["press"] = 0 /\ left["repair"] = 0 /\ repair = NoRepair /\ ~job.hit
      /\ ~Spend("press") /\ ~Spend("repair")
  BY DEF CalmInv, FactInv, TypeOK, CallInv, NoFault, Spend
<1>2. \A p \in Parts : disk.rev[p] \in Nat
  BY <1>1 DEF Disk
<1>3. ASSUME UNCHANGED disk PROVE DiskInv' /\ Onward(disk, disk') /\ disk'.up \subseteq disk.up
  BY <1>1, <1>2, <1>3 DEF DiskInv, RevisionsCount, Covered, Onward
<1>4. CASE Queue
  <2>1. CASE Return
    <3>1. UNCHANGED disk /\ Reply(TRUE) /\ job.at # "free"
            /\ (job.at = "written" \/ (job.at = "read" /\ NothingToDo))
      BY <2>1 DEF Return, Reply
    <3> QED  BY <1>3, <3>1, ReplyPacks
  <2> QED  BY <1>4, <2>1, WritesCalm DEF Queue
<1>5. CASE Throw
  <2>1. UNCHANGED disk /\ Reply(FALSE) /\ job.at = "read"
    BY <1>1, <1>5 DEF Throw, Reply
  <2> QED  BY <1>3, <2>1, ReplyPacks
<1>6. CASE Steps
  <2>1. UNCHANGED <<disk, sync>> /\ job.at = "free" /\ job'.at = "read"
    <3>1. CASE SessionStep \/ DrainStep \/ StartReconcile \/ \E u \in Syncs : SyncStep(u)
      BY <3>1 DEF SessionStep, DrainStep, StartReconcile, SyncStep, Begin, procs
    <3>2. CASE RepairStep \/ RepairReadsFacts \/ RepairReadsTable
      BY <1>1, <3>2 DEF RepairStep, RepairReadsFacts, RepairReadsTable, NoRepair
    <3> QED  BY <1>6, <3>1, <3>2 DEF Steps
  <2>2. \A u \in Syncs : /\ ~Done(u, "ackSegs") /\ ~Done(u, "ackPart")
                         /\ ~Done(u, "ackSegs")' /\ ~Done(u, "ackPart")'
    BY <2>1 DEF Done
  <2> QED  BY <1>3, <2>1, <2>2, OnwardPacks
<1>7. CASE ScheduledMaintenance
  <2>1. job.at = "free" /\ UNCHANGED <<job, sync>>
    BY <1>7 DEF ScheduledMaintenance, procs
  <2>2. \A u \in Syncs : /\ ~Done(u, "ackSegs") /\ ~Done(u, "ackPart")
                         /\ ~Done(u, "ackSegs")' /\ ~Done(u, "ackPart")'
    BY <2>1 DEF Done
  <2> QED  BY <1>7, <2>1, <2>2, RoutineCalm, OnwardPacks
<1>8. ASSUME NEW u \in Syncs, Sync(u) PROVE DiskInv' /\ PackInv'
  BY <1>8, SyncPacks
<1>9. CASE Crash
  <2>1. UNCHANGED disk /\ \A u \in Syncs : sync'[u].at = "idle"
    BY <1>9, IdleValues DEF Crash
  <2> QED  BY <1>3, <2>1 DEF PackInv, Active
<1>10. CASE \/ PressureElsewhere \/ PressureInWrite
            \/ \E k \in Keys : RepairReadsSegments(k)
  BY <1>1, <1>10 DEF PressureElsewhere, PressureInWrite, RepairReadsSegments
<1>11. CASE \/ StartDrain \/ LateArrival \/ UNCHANGED vars
            \/ (\E i \in Ids : CloseSegment(i)) \/ (\E d \in Dates : Midnight(d))
  <2>1. UNCHANGED <<disk, job, sync>>
    BY <1>11 DEF StartDrain, LateArrival, CloseSegment, Midnight, vars, procs
  <2>2. PackInv'
    BY <1>1, <2>1 DEF PackInv, PackOf, Active, Done, Serves, ThisPart, Ahead
  <2> QED  BY <1>3, <2>1, <2>2
<1> QED
  BY <1>4, <1>5, <1>6, <1>7, <1>8, <1>9, <1>10, <1>11 DEF Next

LEMMA CalmInvariant == ASSUME Calm PROVE Spec => []CalmInv
<1>1. Init => CallInv /\ DiskInv /\ PackInv
  <2> SUFFICES ASSUME Init PROVE CallInv /\ DiskInv /\ PackInv
    OBVIOUS
  <2>1. CallInv
    BY InitCalls
  <2>2. disk = NewDisk /\ \A u \in Syncs : sync[u].at = "idle"
    BY IdleValues DEF Init
  <2>3. DiskInv
    BY <2>2 DEF DiskInv, RevisionsCount, Covered, NewDisk
  <2> QED  BY <2>1, <2>2, <2>3 DEF PackInv, Active
<1>2. FactInv /\ OneSegment /\ CallInv /\ DiskInv /\ PackInv /\ TypeOK' /\ [Next]_vars
        => CallInv' /\ DiskInv' /\ PackInv'
  <2>1. ~StaleLock
    BY DEF Calm
  <2>2. FactInv => TypeOK
    BY DEF FactInv
  <2> QED  BY <2>1, <2>2, NextCalls, NextCalm DEF CalmInv
<1>3. FactInv => TypeOK
  BY DEF FactInv
<1>4. FactInv /\ OneSegment /\ CallInv /\ DiskInv /\ PackInv => CalmInv
  BY DEF CalmInv
<1> QED  BY <1>1, <1>2, <1>3, <1>4, FactsInvariant, OneAtATime, PTL DEF Spec

\* An aggregate with raw facts that wait for upload waits itself, through
\* crashes, refused writes, lost and late answers and retention, as long as
\* storage is not short, no table is rebuilt and no sync overtakes another.
THEOREM PendingFactsKeepAggregatesDirty == ASSUME Calm PROVE Spec => []PendingKeepsKeyDirty
<1>1. CalmInv => PendingKeepsKeyDirty
  BY DEF CalmInv, DiskInv, Covered, PendingKeepsKeyDirty
<1> QED  BY <1>1, CalmInvariant, PTL

\* A raw fact on disk is in the aggregates of its date and hours, under the
\* same conditions: retention never takes an aggregate before its segments,
\* and no read-modify-write of a table loses a settlement.
THEOREM AggregatesKeepTheirFacts == ASSUME Calm PROVE Spec => []AggregatesComplete
<1>1. CalmInv => AggregatesComplete
  <2> SUFFICES ASSUME CalmInv, NEW i \in disk.segs, NEW k \in KeysOf(i) \cap disk.made
               PROVE  disk.stats[k].dom[i] + disk.stats[k].cmp[i] >= 1
    BY DEF AggregatesComplete
  <2>1. disk \in Disk /\ disk.stats[k].dom[i] >= 1
    BY DEF CalmInv, FactInv, TypeOK, DiskInv, Covered
  <2>2. i \in Ids /\ k \in Keys
    BY <2>1 DEF Disk
  <2>3. disk.stats[k] \in Stat
    BY <2>1, <2>2 DEF Disk
  <2>4. disk.stats[k].dom[i] \in Nat /\ disk.stats[k].cmp[i] \in Nat
    BY <2>2, <2>3 DEF Stat, Counts
  <2> QED  BY <2>1, <2>4
<1> QED  BY <1>1, CalmInvariant, PTL

(***************************************************************************)
(* Part 2, continued: what a clean outbox says of the Worker.  A request   *)
(* that arrives after its run has given it up replaces rows that were      *)
(* filled meanwhile, so none may be late here.                             *)
(***************************************************************************)
\* Where the disk is no further than the package, the package holds its counts.
SameCounts(u) ==
    \A p \in Parts :
        /\ Waits(sync[u], Done(u, "ackPart"), p)
        /\ p[2] \in sync[u].keys \cap disk.made /\ disk.rev[p] = sync[u].rev[p]
        => disk.stats[p[2]].dom = sync[u].val[p[2]]

\* What a run is about to acknowledge has arrived.
Arrived(u) ==
    sync[u].at = "ackPart" => \A i \in ThisCounted(u) : srv[ThisPart(u)][i] > 0

OnTime == net = {} /\ left["late"] = 0
SentInv == \A u \in Syncs : Active(u) => SameCounts(u) /\ Arrived(u)

\* An outbox of e that is clean, or no further than it was in d, is one of an
\* aggregate that d holds with the same counts, and was as clean there.
Alike(d, e) ==
    \A p \in Parts :
        p[2] \in e.made /\ (e.rev[p] = d.rev[p] \/ p \notin e.dirty) =>
            /\ p[2] \in d.made /\ e.stats[p[2]].dom = d.stats[p[2]].dom
            /\ p \notin e.dirty => p \notin d.dirty

LEMMA AlikeCleans ==
    ASSUME TypeOK, CleanMeansDelivered, UNCHANGED srv, Alike(disk, disk')
    PROVE  CleanMeansDelivered'
<1>1. ASSUME NEW p \in Parts, p[2] \in disk'.made, p \notin disk'.dirty,
             NEW i \in Counted(disk'.stats[p[2]], p[2])
      PROVE  srv'[p][i] > 0
  <2>1. /\ p[2] \in disk.made /\ disk'.stats[p[2]].dom = disk.stats[p[2]].dom
        /\ p \notin disk.dirty
    BY <1>1 DEF Alike
  <2>2. i \in Counted(disk.stats[p[2]], p[2])
    BY <1>1, <2>1 DEF Counted
  <2> QED  BY <2>1, <2>2 DEF CleanMeansDelivered
<1> QED  BY <1>1 DEF CleanMeansDelivered

\* A package moves on to one that waits for no more parts with the same counts.
LEMMA AlikePack ==
    ASSUME CalmInv, TypeOK', NEW u \in Syncs, Active(u), SameCounts(u),
           Onward(disk, disk'), Alike(disk, disk'),
           sync'[u].keys = sync[u].keys, sync'[u].val = sync[u].val, sync'[u].rev = sync[u].rev,
           \A p \in Parts : Waits(sync'[u], Done(u, "ackPart")', p)
                              => Waits(sync[u], Done(u, "ackPart"), p)
    PROVE  SameCounts(u)'
<1>1. /\ disk \in Disk /\ disk' \in Disk /\ PackOf(u) /\ sync[u] \in Package
  BY DEF CalmInv, FactInv, TypeOK, PackInv
<1>2. ASSUME NEW p \in Parts, Waits(sync'[u], Done(u, "ackPart")', p),
             p[2] \in sync'[u].keys \cap disk'.made, disk'.rev[p] = sync'[u].rev[p]
      PROVE  disk'.stats[p[2]].dom = sync'[u].val[p[2]]
  <2>1. Waits(sync[u], Done(u, "ackPart"), p)
    BY <1>2
  <2>2. disk.rev[p] >= sync[u].rev[p]
    BY <1>1, <2>1 DEF PackOf, Ahead
  <2>3. disk'.rev[p] >= disk.rev[p]
    BY DEF Onward
  <2>4. disk.rev[p] \in Nat /\ disk'.rev[p] \in Nat /\ sync[u].rev[p] \in Nat
    BY <1>1 DEF Disk, Package
  <2>5. disk'.rev[p] = disk.rev[p] /\ disk.rev[p] = sync[u].rev[p]
    BY <1>2, <2>2, <2>3, <2>4
  <2>6. p[2] \in disk.made /\ disk'.stats[p[2]].dom = disk.stats[p[2]].dom
    BY <1>2, <2>5 DEF Alike
  <2> QED  BY <1>2, <2>1, <2>5, <2>6 DEF SameCounts
<1> QED  BY <1>2 DEF SameCounts

\* The Worker keeps what a clean outbox says, and has what the run sent it.
LEMMA SendingCleans ==
    ASSUME CalmInv, OnTime, SentInv, CleanMeansDelivered, TypeOK',
           NEW u \in Syncs, SendPart(u)
    PROVE  /\ CleanMeansDelivered' /\ net' = {}
           /\ Arrived(u)'
<1> DEFINE p == ThisPart(u)
           val == ThisVal(u)
           stored == [srv EXCEPT ![p] = Upsert(srv[p], val, p[2])]
<1>1. /\ TypeOK /\ disk \in Disk /\ sync[u] \in Package /\ PackOf(u) /\ SameCounts(u)
      /\ sync[u].at = "part" /\ disk' = disk /\ srv \in [Parts -> Counts] /\ ~Spend("late")
      /\ DiskInv
  BY DEF CalmInv, FactInv, TypeOK, PackInv, SentInv, Active, SendPart, OnTime, Spend
<1>2. sync[u].n \in DOMAIN Order[sync[u].date]
  <2>1. sync[u].n \in Nat \ {0} /\ sync[u].date \in Dates
    BY <1>1 DEF Package
  <2>2. Order[sync[u].date] \in Seq(Parts)
    BY <2>1, LedgerAssumption
  <2>3. DOMAIN Order[sync[u].date] = 1 .. Len(Order[sync[u].date])
          /\ Len(Order[sync[u].date]) \in Nat
    BY <2>2
  <2> QED  BY <2>1, <2>3 DEF SendPart
<1>3. p \in Parts /\ p[2] \in Keys /\ val \in Counts
  <2>1. p \in Parts
    BY <1>1, <1>2, ThisPartType
  <2> QED  BY <1>1, <2>1 DEF Parts, ThisVal, Package
<1>4. ~Done(u, "ackPart")
  <2>1. Serves(u) => sync[u].at \in SyncOps
    BY <1>1, ServedSync DEF CalmInv
  <2> QED  BY <1>1, <2>1 DEF Done, SyncOps
<1>5. Waits(sync[u], Done(u, "ackPart"), p)
  BY <1>1, <1>2, <1>4 DEF Waits, ThisPart, Package
<1>6. /\ net' = net
      /\ \/ srv' = srv /\ \/ sync'[u].at = "failPart" \/ sync'[u].at = "part"
                          \/ ThisCounted(u) = {} /\ sync' = [sync EXCEPT ![u].at = "ackPart"]
         \/ srv' = stored /\ sync' = [sync EXCEPT ![u].at = "ackPart"]
         \/ srv' = stored /\ sync'[u].at = "failPart"
  <2>1. sync \in [Syncs -> Package]
    BY <1>1 DEF TypeOK
  <2>2. /\ net' = net
        /\ \/ srv' = srv /\ \/ sync' = [sync EXCEPT ![u].at = "failPart"]
                            \/ sync' = [sync EXCEPT ![u].n = @ + 1]
                            \/ ThisCounted(u) = {} /\ sync' = [sync EXCEPT ![u].at = "ackPart"]
           \/ srv' = stored /\ sync' = [sync EXCEPT ![u].at = "ackPart"]
           \/ srv' = stored /\ sync' = [sync EXCEPT ![u].at = "failPart"]
    BY <1>1 DEF SendPart
  <2> HIDE DEF stored
  <2> QED  BY <1>1, <2>1, <2>2 DEF Package
<1>7. ASSUME srv' = stored PROVE CleanMeansDelivered'
  <2>1. ASSUME NEW q \in Parts, q[2] \in disk.made, q \notin disk.dirty,
               NEW i \in Counted(disk.stats[q[2]], q[2])
        PROVE  srv'[q][i] > 0
    <3>0. srv[q][i] > 0 /\ i \in Ids
      BY <2>1 DEF CleanMeansDelivered, Counted
    <3>1. CASE q # p
      BY <1>1, <1>7, <3>0, <3>1
    <3>2. CASE q = p
      <4>1. srv'[p] = Upsert(srv[p], val, p[2])
        BY <1>1, <1>3, <1>7
      <4>2. disk.rev[p] \in Nat /\ ~(disk.rev[p] > 0)
        BY <1>1, <1>3, <2>1, <3>2 DEF Disk, DiskInv, RevisionsCount
      <4>3. disk.rev[p] >= sync[u].rev[p] /\ sync[u].rev[p] \in Nat
        BY <1>1, <1>3, <1>5 DEF PackOf, Ahead, Package
      <4>4. disk.rev[p] = sync[u].rev[p]
        BY <4>2, <4>3
      <4>5. CASE p[2] \in sync[u].keys
        <5>1. disk.stats[p[2]].dom = val
          BY <1>1, <1>3, <1>5, <2>1, <3>2, <4>4, <4>5 DEF SameCounts, ThisVal
        <5>2. val[i] > 0
          BY <2>1, <3>2, <5>1 DEF Counted
        <5> HIDE DEF p, val
        <5> QED  BY <3>0, <3>2, <4>1, <5>2 DEF Upsert
      <4>6. CASE p[2] \notin sync[u].keys
        <5>1. val = None
          BY <1>1, <1>3, <4>6 DEF PackOf, ThisVal
        <5>2. \A j \in Ids : ~(val[j] > 0)
          BY <5>1 DEF None
        <5> HIDE DEF p, val
        <5>3. Upsert(srv[p], val, p[2])[i] = srv[p][i]
          BY <3>0, <5>2 DEF Upsert
        <5> QED  BY <3>0, <3>2, <4>1, <5>3
      <4> QED  BY <4>5, <4>6
    <3> QED  BY <3>1, <3>2
  <2> QED  BY <1>1, <2>1 DEF CleanMeansDelivered
<1>8. CleanMeansDelivered'
  <2>1. CASE srv' = srv
    BY <1>1, <2>1 DEF CleanMeansDelivered
  <2> QED  BY <1>6, <1>7, <2>1
<1>9. Arrived(u)'
  <2>1. SUFFICES ASSUME sync'[u].at = "ackPart"
                 PROVE  \A i \in ThisCounted(u)' : srv'[ThisPart(u)'][i] > 0
    BY DEF Arrived
  <2>2. sync' = [sync EXCEPT ![u].at = "ackPart"] /\ (ThisCounted(u) = {} \/ srv' = stored)
    BY <1>6, <2>1
  <2>3. sync'[u].date = sync[u].date /\ sync'[u].n = sync[u].n /\ sync'[u].val = sync[u].val
    BY <1>1, <2>2 DEF TypeOK, Package
  <2>4. ThisPart(u)' = p /\ ThisCounted(u)' = ThisCounted(u)
    BY <2>3 DEF ThisPart, ThisCounted, ThisVal
  <2>5. ASSUME NEW i \in ThisCounted(u) PROVE srv'[p][i] > 0
    <3>1. i \in Ids /\ val[i] > 0 /\ <<i, p[2]>> \notin Zero /\ srv' = stored
      BY <2>2, <2>5 DEF ThisCounted
    <3>2. srv'[p] = Upsert(srv[p], val, p[2])
      BY <1>1, <1>3, <3>1
    <3> HIDE DEF p, val
    <3> QED  BY <3>1, <3>2 DEF Upsert
  <2> QED  BY <2>4, <2>5
<1> QED  BY <1>6, <1>8, <1>9 DEF OnTime

\* No write but an answer's makes an outbox cleaner, or changes an aggregate
\* without its revision.
LEMMA WritesAlike ==
    ASSUME CalmInv,
           \/ UNCHANGED disk \/ WriteJournal \/ WriteSettlement \/ ClearJournal
           \/ WriteReconciliation \/ WriteSegmentAck \/ WriteSegmentFailure
           \/ WritePartFailure \/ ScheduledMaintenance
    PROVE  Alike(disk, disk')
<1>1. TypeOK /\ disk \in Disk /\ job \in Job /\ CallInv
  BY DEF CalmInv, FactInv, TypeOK
<1>2. \A p \in Parts : /\ disk.rev[p] \in Nat /\ p = <<p[1], p[2]>>
                       /\ p[1] \in Views /\ p[2] \in Keys
  BY <1>1 DEF Disk, Parts
<1>3. ASSUME disk'.stats = disk.stats, disk'.made = disk.made, disk.dirty \subseteq disk'.dirty
      PROVE  Alike(disk, disk')
  BY <1>3 DEF Alike
<1>4. CASE UNCHANGED disk
  BY <1>3, <1>4
<1>5. CASE WriteJournal \/ ClearJournal \/ WriteSegmentFailure
  <2>1. disk'.stats = disk.stats /\ disk'.made = disk.made /\ disk'.dirty = disk.dirty
    BY <1>1, <1>5 DEF WriteJournal, ClearJournal, WriteSegmentFailure, Disk
  <2> QED  BY <1>3, <2>1
<1>6. CASE WriteSegmentAck
  <2>1. disk'.stats = disk.stats /\ disk'.made = disk.made /\ disk'.dirty = disk.dirty
    BY <1>1, <1>6 DEF WriteSegmentAck, Disk
  <2> QED  BY <1>3, <2>1
<1>7. CASE WritePartFailure
  <2>1. ~WritePartAck
    BY <1>7 DEF WritePartFailure, WritePartAck, Writing
  <2>2. disk'.stats = disk.stats /\ disk'.made = disk.made /\ disk.dirty \subseteq disk'.dirty
    BY <1>7, <2>1, PartWriteIsPlain
  <2> QED  BY <1>3, <2>2
<1>8. CASE WriteSettlement
  <2>1. PICK i \in Ids :
           LET P == Views \X KeysOf(i) IN
           /\ disk'.made = disk.made \cup KeysOf(i)
           /\ disk'.stats = [k \in Keys |-> IF k \in KeysOf(i)
                               THEN AddTo(disk.stats[k], i) ELSE disk.stats[k]]
           /\ disk'.dirty = disk.dirty \cup P
           /\ disk'.rev = [p \in Parts |-> IF p \in P THEN disk.rev[p] + 1 ELSE disk.rev[p]]
    BY <1>8, SettlementIsNew
  <2>2. ASSUME NEW p \in Parts, disk'.rev[p] = disk.rev[p] \/ p \notin disk'.dirty
        PROVE  p[2] \notin KeysOf(i)
    BY <1>2, <2>1, <2>2
  <2> QED  BY <1>2, <2>1, <2>2 DEF Alike
<1>9. CASE WriteReconciliation
  <2> DEFINE seen == {k \in Keys : HasFacts(disk.segs, disk.comp, k)}
  <2>1. job.snap = disk
    BY <1>1, <1>9 DEF CallInv, ReadIsCurrent, WriteReconciliation, Writing
  <2>2. /\ disk'.made = disk.made \cup seen
        /\ disk'.stats = [k \in Keys |-> IF k \in seen \ disk.made
                            THEN FromFacts(disk.segs, disk.comp, k) ELSE disk.stats[k]]
        /\ disk'.dirty = disk.dirty \cup (Views \X seen)
        /\ disk'.rev = [p \in Parts |-> IF p \in Views \X seen
                          THEN disk.rev[p] + 1 ELSE disk.rev[p]]
    BY <1>1, <1>9, <2>1, ReconciliationFields
  <2> HIDE DEF seen
  <2>3. ASSUME NEW p \in Parts, disk'.rev[p] = disk.rev[p] \/ p \notin disk'.dirty
        PROVE  p[2] \notin seen
    BY <1>2, <2>2, <2>3
  <2> QED  BY <1>2, <2>2, <2>3 DEF Alike
<1>10. CASE ScheduledMaintenance
  <2> DEFINE kept == {p \in disk.dirty : p[2] \in disk.made}
             oldKeys == {k \in disk.made \cap disk.sent :
                           /\ \A v \in Views : <<v, k>> \notin kept
                           /\ age[DayOf(k)] >= RetentionAge(k)}
  <2>1. disk' = Routine(disk)
    BY <1>10 DEF ScheduledMaintenance
  <2>2. /\ disk'.stats = [k \in Keys |-> IF k \in oldKeys THEN EmptyStat ELSE disk.stats[k]]
        /\ disk'.made = disk.made \ oldKeys /\ disk'.dirty = kept
    BY <1>1, <2>1, RoutineFields
  <2>3. \A p : p[2] \in disk.made /\ p \notin kept => p \notin disk.dirty
    OBVIOUS
  <2> HIDE DEF kept, oldKeys
  <2> QED  BY <1>2, <2>2, <2>3 DEF Alike
<1> QED  BY <1>4, <1>5, <1>6, <1>7, <1>8, <1>9, <1>10

\* A step that leaves the syncs and the Worker alone.
LEMMA QuietCleans ==
    ASSUME CalmInv, SentInv, CleanMeansDelivered, TypeOK', UNCHANGED <<sync, srv>>,
           Onward(disk, disk'), Alike(disk, disk'),
           \A u \in Syncs : Done(u, "ackPart") => Done(u, "ackPart")'
    PROVE  SentInv' /\ CleanMeansDelivered'
<1>1. ASSUME NEW u \in Syncs, Active(u) PROVE SameCounts(u)' /\ Arrived(u)'
  <2>1. \A p : Waits(sync'[u], Done(u, "ackPart")', p) => Waits(sync[u], Done(u, "ackPart"), p)
    BY DEF Waits
  <2>2. SameCounts(u) /\ Arrived(u)
    BY <1>1 DEF SentInv
  <2>3. SameCounts(u)'
    BY <1>1, <2>1, <2>2, AlikePack
  <2>4. ThisPart(u)' = ThisPart(u) /\ ThisCounted(u)' = ThisCounted(u)
    BY DEF ThisPart, ThisCounted, ThisVal
  <2> QED  BY <2>2, <2>3, <2>4 DEF Arrived
<1>2. CleanMeansDelivered'
  BY AlikeCleans DEF CalmInv, FactInv
<1> QED  BY <1>1, <1>2 DEF SentInv, Active

\* An answer is written: what it clears is what has arrived.
LEMMA PartAckCleans ==
    ASSUME CalmInv, SentInv, CleanMeansDelivered, TypeOK', WritePartAck
    PROVE  SentInv' /\ CleanMeansDelivered'
<1>1. PICK u \in Syncs :
           LET p == ThisPart(u) IN
           /\ Serves(u) /\ sync[u].at = "ackPart" /\ job.at = "read"
           /\ disk'.made = disk.made /\ disk'.stats = disk.stats
           /\ disk.rev[p] = sync[u].rev[p]
           /\ disk'.dirty = disk.dirty \ {p}
           /\ disk'.rev = [disk.rev EXCEPT ![p] = 0]
  <2>1. ~WritePartFailure
    BY DEF WritePartFailure, WritePartAck, Writing
  <2> QED  BY <2>1, PartWriteIsPlain
<1> DEFINE p == ThisPart(u)
<1>2. /\ TypeOK /\ CallInv /\ disk \in Disk /\ disk.rev \in [Parts -> Nat] /\ PackOf(u)
      /\ SameCounts(u) /\ Arrived(u) /\ ~Done(u, "ackPart") /\ UNCHANGED <<sync, srv, left>>
      /\ Writing("ackPart")
  BY <1>1 DEF CalmInv, FactInv, TypeOK, Disk, PackInv, SentInv, Active, Done, WritePartAck,
              Writing, procs, server, world
<1>3. p \in Parts /\ Waits(sync[u], FALSE, p) /\ p[2] \in sync[u].keys
  BY <1>1, <1>2, PartAtHand DEF PackOf
<1>4. Waits(sync[u], Done(u, "ackPart"), p)
  BY <1>2, <1>3 DEF Waits
<1>5. Done(u, "ackPart")'
  <2>1. "ackPart" \in Ops
    BY DEF Ops
  <2> QED  BY <1>1, <1>2, <2>1, WritingCalls
<1>6. ThisPart(u)' = p /\ ThisCounted(u)' = ThisCounted(u)
  BY <1>2 DEF ThisPart, ThisCounted, ThisVal
<1>7. ASSUME NEW q \in Parts, q[2] \in disk.made, q \notin disk.dirty \/ q = p,
             NEW i \in Counted(disk.stats[q[2]], q[2])
      PROVE  srv[q][i] > 0
  <2>1. CASE q \notin disk.dirty
    BY <1>7, <2>1 DEF CleanMeansDelivered
  <2>2. CASE q = p
    <3>1. disk.stats[p[2]].dom = ThisVal(u)
      BY <1>1, <1>2, <1>3, <1>4, <1>7, <2>2 DEF SameCounts, ThisVal
    <3>2. i \in ThisCounted(u)
      BY <1>7, <2>2, <3>1 DEF Counted, ThisCounted
    <3> QED  BY <1>1, <1>2, <2>2, <3>2 DEF Arrived
  <2> QED  BY <1>7, <2>1, <2>2
<1>8. CleanMeansDelivered'
  <2>1. \A q \in Parts : q \notin disk'.dirty => q \notin disk.dirty \/ q = p
    BY <1>1
  <2> QED  BY <1>1, <1>2, <1>7, <2>1 DEF CleanMeansDelivered
<1>9. SameCounts(u)'
  <2>1. ASSUME NEW q \in Parts, Waits(sync'[u], Done(u, "ackPart")', q)
        PROVE  Waits(sync[u], Done(u, "ackPart"), q) /\ disk'.rev[q] = disk.rev[q]
    <3>1. Waits(sync[u], TRUE, q)
      BY <1>2, <1>5, <2>1 DEF Waits
    <3>2. Waits(sync[u], FALSE, q) /\ q # p
      BY <1>1, <1>2, <3>1, PartDone
    <3>3. disk'.rev[q] = disk.rev[q]
      BY <1>1, <1>2, <3>2
    <3>4. Waits(sync[u], Done(u, "ackPart"), q)
      BY <1>2, <3>2 DEF Waits
    <3> QED  BY <3>3, <3>4
  <2> QED  BY <1>1, <1>2, <2>1 DEF SameCounts
<1>10. Arrived(u)'
  BY <1>1, <1>2, <1>6 DEF Arrived
<1>11. \A v \in Syncs \ {u} : ~Active(v)'
  BY <1>1, <1>2, OthersIdle DEF Active
<1> QED  BY <1>8, <1>9, <1>10, <1>11 DEF SentInv

\* The next part of a package: nothing waits that did not wait before.
LEMMA NextPartWaits ==
    ASSUME NEW q \in Package, NEW r \in Package, r.date = q.date, r.n = q.n + 1,
           NEW a, NEW b, NEW p, Waits(r, a, p)
    PROVE  Waits(q, b, p)
<1>1. q.n \in Nat /\ q.date \in Dates
  BY DEF Package
<1>2. PICK m \in DOMAIN Order[q.date] : Order[q.date][m] = p /\ m >= q.n + 1
  BY DEF Waits
<1>3. m \in Nat
  BY <1>1, <1>2, LedgerAssumption
<1>4. m >= q.n /\ m # q.n
  BY <1>1, <1>2, <1>3
<1> QED  BY <1>2, <1>4 DEF Waits

\* A sync goes on after its task.
LEMMA ReplyCleans ==
    ASSUME CalmInv, SentInv, CleanMeansDelivered, TypeOK', NEW ok \in BOOLEAN, Reply(ok),
           job.at # "free", ~ok => job.at = "read"
    PROVE  SentInv' /\ CleanMeansDelivered'
<1>1. /\ TypeOK /\ CallInv /\ disk \in Disk /\ sync \in [Syncs -> Package]
      /\ UNCHANGED <<disk, srv>> /\ disk' \in Disk
  BY DEF CalmInv, FactInv, TypeOK, Reply, server
<1>2. \A u \in Syncs : ~Done(u, "ackPart")'
  BY DEF Reply, Free, Done, Serves
<1>3. \A p \in Parts : disk.rev[p] \in Nat
  BY <1>1 DEF Disk
<1>4. Onward(disk, disk') /\ Alike(disk, disk')
  BY <1>1, <1>3, WritesAlike DEF Onward
<1>5. CASE UNCHANGED sync /\ job.task.who \notin Syncs
  <2>1. \A u \in Syncs : ~Done(u, "ackPart")
    BY <1>5 DEF Done, Serves
  <2> QED  BY <1>1, <1>4, <1>5, <2>1, QuietCleans
<1>6. ASSUME NEW u \in Syncs, job.task.who = u, SyncReturns(u, ok)
      PROVE  SentInv' /\ CleanMeansDelivered'
  <2>1. Serves(u) /\ sync[u].at \in SyncOps /\ job.task.op = sync[u].at
    BY <1>1, <1>6, ServedSync DEF Serves
  <2>2. Active(u) /\ SameCounts(u) /\ sync[u] \in Package /\ sync'[u] \in Package
    BY <1>1, <2>1 DEF Active, SyncOps, SentInv, TypeOK
  <2>3. \A v \in Syncs \ {u} : ~Active(v)'
    <3>1. \A v \in Syncs \ {u} : sync'[v] = sync[v] /\ sync[v].at = "idle"
      BY <1>1, <1>6, <2>1, <2>2, ReturnMoves, OthersIdle DEF Active
    <3> QED  BY <3>1 DEF Active
  <2>4. CleanMeansDelivered'
    BY <1>1, <1>4, AlikeCleans
  <2>5. ASSUME Active(u)' PROVE SameCounts(u)' /\ Arrived(u)'
    <3>1. /\ sync'[u].at # "ackPart" /\ sync'[u].date = sync[u].date
          /\ sync'[u].keys = sync[u].keys /\ sync'[u].val = sync[u].val
          /\ sync'[u].rev = sync[u].rev
          /\ \/ sync'[u].n = sync[u].n /\ ~Done(u, "ackPart")
             \/ sync'[u].n = sync[u].n + 1
      <4>1. sync'[u] # NoSync
        BY <2>5, IdleValues DEF Active
      <4>2. CASE sync[u].at = "ackSegs"
        <5>1. \/ sync'[u] = [sync[u] EXCEPT !.at = "part", !.ids = {}]
              \/ sync'[u] = [sync[u] EXCEPT !.at = "failSegs"]
          BY <1>1, <1>6, <2>1, <4>1, <4>2, ReturnMoves
        <5>2. ~Done(u, "ackPart")
          BY <2>1, <4>2 DEF Done
        <5> QED  BY <2>2, <5>1, <5>2 DEF Package
      <4>3. CASE sync[u].at \in {"ackPart", "failPart"} /\ ok
        <5>1. sync'[u] = [sync[u] EXCEPT !.at = "part", !.n = sync[u].n + 1]
          BY <1>1, <1>6, <2>1, <4>1, <4>3, ReturnMoves
        <5> QED  BY <2>2, <5>1 DEF Package
      <4>4. CASE ~ok /\ sync[u].at # "ackSegs"
        <5>1. sync'[u] = [sync[u] EXCEPT !.at = "failPart"]
          BY <1>1, <1>6, <2>1, <4>1, <4>4, ReturnMoves
        <5>2. ~Done(u, "ackPart")
          BY <4>4 DEF Done
        <5> QED  BY <2>2, <5>1, <5>2 DEF Package
      <4>5. CASE sync[u].at = "failSegs"
        BY <1>1, <1>6, <2>1, <4>1, <4>5, ReturnMoves
      <4> QED  BY <2>1, <4>2, <4>3, <4>4, <4>5 DEF SyncOps
    <3>2. ASSUME NEW p \in Parts, Waits(sync'[u], Done(u, "ackPart")', p)
          PROVE  Waits(sync[u], Done(u, "ackPart"), p)
      <4>1. CASE sync'[u].n = sync[u].n /\ ~Done(u, "ackPart")
        BY <3>1, <3>2, <4>1 DEF Waits
      <4>2. CASE sync'[u].n = sync[u].n + 1
        BY <2>2, <3>1, <3>2, <4>2, NextPartWaits
      <4> QED  BY <3>1, <4>1, <4>2
    <3>3. SameCounts(u)'
      BY <1>4, <2>2, <3>1, <3>2, AlikePack
    <3> QED  BY <3>1, <3>3 DEF Arrived
  <2> QED  BY <2>3, <2>4, <2>5 DEF SentInv
<1> QED
  <2>1. CASE \E u \in Syncs : job.task.who = u /\ SyncReturns(u, ok)
    BY <1>6, <2>1
  <2>2. CASE job.task.who \in {"session", "drain", "repair", "startup"} /\ UNCHANGED sync
    BY <1>5, <2>2, SyncAssumption
  <2> QED
    BY <2>1, <2>2 DEF Reply, SessionReturns, DrainReturns, RepairReturns, procs

\* A fresh package holds the counts on disk.
LEMMA SnapshotCleans ==
    ASSUME CalmInv, TypeOK', NEW u \in Syncs, NEW d \in Dates, TakeSnapshot(u, d), Active(u)'
    PROVE  SameCounts(u)' /\ Arrived(u)'
<1>1. disk' = disk /\ sync \in [Syncs -> Package]
  BY DEF CalmInv, FactInv, TypeOK, TakeSnapshot
<1>2. ~Finished(u)
  BY <1>1, IdleValues DEF Finished, Active
<1>3. PICK at \in {"part", "segments"}, ids \in SUBSET Ids, keys \in SUBSET Keys,
           bad \in SUBSET {"daily", "hourly"} :
        sync' = [sync EXCEPT ![u] = Packed(at, d, ids, keys, bad)] /\ UNCHANGED locked
  BY <1>2, SnapshotMoves, Zenon
<1>4. sync'[u] = Packed(at, d, ids, keys, bad)
  BY <1>1, <1>3
<1>5. /\ sync'[u].at # "ackPart" /\ sync'[u].keys = keys
      /\ sync'[u].val = [k \in Keys |-> IF k \in keys THEN disk.stats[k].dom ELSE None]
  BY <1>4 DEF Packed
<1> QED  BY <1>1, <1>5 DEF SameCounts, Arrived

LEMMA SyncCleans ==
    ASSUME ~StaleLock, CalmInv, OnTime, SentInv, CleanMeansDelivered, TypeOK',
           NEW u \in Syncs, Sync(u)
    PROVE  SentInv' /\ CleanMeansDelivered' /\ net' = {}
<1>1. TypeOK /\ CallInv /\ disk \in Disk /\ sync \in [Syncs -> Package] /\ net = {}
        /\ sync' \in [Syncs -> Package]
  BY DEF CalmInv, FactInv, TypeOK, OnTime
<1>2. /\ UNCHANGED <<disk, job>> /\ sync[u].at \notin SyncOps
      /\ \A v \in Syncs \ {u} : sync'[v] = sync[v] /\ sync[v].at = "idle"
  BY <1>1, SyncMoves
<1>3. \A v \in Syncs : ~Serves(v)
  BY <1>1, <1>2, ServedSync DEF SyncOps
<1>4. ~Done(u, "ackPart") /\ ~Done(u, "ackPart")'
  BY <1>2, <1>3 DEF Done, Serves
<1>5. \A p \in Parts : disk.rev[p] \in Nat
  BY <1>1 DEF Disk
<1>6. Onward(disk, disk') /\ Alike(disk, disk')
  BY <1>2, <1>5, WritesAlike DEF Onward
<1>7. CleanMeansDelivered' /\ net' = {}
  <2>1. CASE SendPart(u)
    BY <2>1, SendingCleans
  <2>2. CASE ~SendPart(u)
    <3>1. UNCHANGED <<srv, net>>
      BY <2>2 DEF Sync, StartSync, TakeSnapshot, SendSegments, EndSync, server
    <3> QED  BY <1>1, <1>6, <3>1, AlikeCleans
  <2> QED  BY <2>1, <2>2
<1>8. ASSUME Active(u)' PROVE SameCounts(u)' /\ Arrived(u)'
  <2>1. CASE StartSync(u)
    BY <1>1, <1>8, <2>1 DEF StartSync, Active
  <2>2. CASE \E d \in Dates : TakeSnapshot(u, d)
    BY <1>8, <2>2, SnapshotCleans
  <2>3. CASE EndSync(u)
    BY <1>1, <1>8, <2>3, IdleValues DEF EndSync, Finished, Active
  <2>4. CASE SendSegments(u) \/ SendPart(u)
    <3>1. Active(u) /\ SameCounts(u) /\ sync[u] \in Package /\ sync'[u] \in Package
      BY <1>1, <2>4 DEF SendSegments, SendPart, Active, SentInv
    <3>2. \/ sync' = [sync EXCEPT ![u].at = "ackSegs"]
          \/ sync' = [sync EXCEPT ![u].at = "failSegs"]
          \/ sync' = [sync EXCEPT ![u].at = "failPart"]
          \/ sync' = [sync EXCEPT ![u].at = "ackPart"]
          \/ sync' = [sync EXCEPT ![u].n = @ + 1]
      BY <2>4 DEF SendSegments, SendPart
    <3>3. /\ sync'[u].date = sync[u].date
          /\ sync'[u].keys = sync[u].keys /\ sync'[u].val = sync[u].val
          /\ sync'[u].rev = sync[u].rev
          /\ sync'[u].n = sync[u].n \/ sync'[u].n = sync[u].n + 1
          /\ sync'[u].at = sync[u].at \/ sync'[u].n = sync[u].n
      BY <1>1, <3>1, <3>2 DEF Package
    <3>4. ASSUME NEW p \in Parts, Waits(sync'[u], Done(u, "ackPart")', p)
          PROVE  Waits(sync[u], Done(u, "ackPart"), p)
      <4>1. CASE sync'[u].n = sync[u].n
        BY <1>4, <3>3, <3>4, <4>1 DEF Waits
      <4>2. CASE sync'[u].n = sync[u].n + 1
        BY <3>1, <3>3, <3>4, <4>2, NextPartWaits
      <4> QED  BY <3>3, <4>1, <4>2
    <3>5. SameCounts(u)'
      BY <1>6, <3>1, <3>3, <3>4, AlikePack
    <3>6. Arrived(u)'
      <4>1. CASE SendPart(u)
        BY <4>1, SendingCleans
      <4>2. CASE SendSegments(u)
        <5>1. sync'[u].at \in {"ackSegs", "failSegs"}
          BY <1>1, <4>2 DEF SendSegments, Package
        <5> QED  BY <5>1 DEF Arrived
      <4> QED  BY <2>4, <4>1, <4>2
    <3> QED  BY <3>5, <3>6
  <2> QED  BY <2>1, <2>2, <2>3, <2>4 DEF Sync
<1>9. \A v \in Syncs \ {u} : ~Active(v)'
  BY <1>2 DEF Active
<1> QED  BY <1>7, <1>8, <1>9 DEF SentInv

\* Every step keeps what clean outboxes and packages say.
LEMMA NextCleans ==
    ASSUME ~StaleLock, CalmInv, OnTime, SentInv, CleanMeansDelivered, TypeOK', [Next]_vars
    PROVE  OnTime' /\ SentInv' /\ CleanMeansDelivered'
<1>1. /\ TypeOK /\ CallInv /\ disk \in Disk /\ net = {} /\ left'["late"] = 0
      /\ left["press"] = 0 /\ ~Spend("press") /\ ~Spend("repair") /\ ~job.hit
      /\ repair = NoRepair
  BY NothingSpent DEF CalmInv, FactInv, TypeOK, CallInv, NoFault, OnTime, Spend, Faults
<1>2. \A p \in Parts : disk.rev[p] \in Nat
  BY <1>1 DEF Disk
<1>3. ASSUME UNCHANGED disk PROVE Onward(disk, disk') /\ Alike(disk, disk')
  BY <1>2, <1>3, WritesAlike DEF Onward
<1>4. ASSUME Onward(disk, disk'), Alike(disk, disk'), UNCHANGED <<sync, server>>,
             job.at = "free" \/ job.at = "read" \/ UNCHANGED job
      PROVE  OnTime' /\ SentInv' /\ CleanMeansDelivered'
  <2>1. UNCHANGED srv /\ net' = {}
    BY <1>1, <1>4 DEF server
  <2>2. \A u \in Syncs : Done(u, "ackPart") => Done(u, "ackPart")'
    BY <1>4 DEF Done, Serves
  <2>3. UNCHANGED sync
    BY <1>4
  <2>4. SentInv' /\ CleanMeansDelivered'
    BY <1>4, <2>1, <2>2, <2>3, QuietCleans
  <2> QED  BY <1>1, <2>1, <2>4 DEF OnTime
<1>5. CASE Queue
  <2>1. CASE Return
    <3>1. Reply(TRUE) /\ job.at # "free" /\ net' = net
      BY <2>1 DEF Return, Reply, server
    <3> QED  BY <1>1, <3>1, ReplyCleans DEF OnTime
  <2>2. CASE WriteJournal \/ ClearJournal \/ WriteSegmentFailure
    <3>1. UNCHANGED <<sync, server>> /\ job.at = "read"
      BY <2>2 DEF WriteJournal, ClearJournal, WriteSegmentFailure, Writing, procs
    <3> QED  BY <1>4, <2>2, <3>1, PlainWritesCalm, WritesAlike
  <2>3. CASE WriteSettlement
    <3>1. UNCHANGED <<sync, server>> /\ job.at = "read"
      BY <2>3 DEF WriteSettlement, Writing, procs
    <3> QED  BY <1>4, <2>3, <3>1, SettlementCalm, WritesAlike
  <2>4. CASE WriteReconciliation
    <3>1. UNCHANGED <<sync, server>> /\ job.at = "read"
      BY <2>4 DEF WriteReconciliation, Writing, procs
    <3> QED  BY <1>4, <2>4, <3>1, ReconciliationCalm, WritesAlike
  <2>5. CASE WriteSegmentAck
    <3>1. UNCHANGED <<sync, server>> /\ job.at = "read"
      BY <2>5 DEF WriteSegmentAck, Writing, procs
    <3> QED  BY <1>4, <2>5, <3>1, SegmentAckCalm, WritesAlike
  <2>6. CASE WritePartAck
    <3>1. net' = net
      BY <2>6 DEF WritePartAck, Writing, server
    <3> QED  BY <1>1, <2>6, <3>1, PartAckCleans DEF OnTime
  <2>7. CASE WritePartFailure
    <3>1. UNCHANGED <<sync, server>> /\ job.at = "read" /\ ~WritePartAck
      BY <2>7 DEF WritePartFailure, WritePartAck, Writing, procs
    <3>2. disk'.segs = disk.segs /\ disk'.up = disk.up /\ disk'.rev = disk.rev
      BY <2>7, <3>1, PartWriteIsPlain
    <3>3. Onward(disk, disk')
      BY <1>2, <3>2 DEF Onward
    <3> QED  BY <1>4, <2>7, <3>1, <3>3, WritesAlike
  <2>8. CASE WriteMark \/ WriteRebuiltTable
    BY <1>1, <2>8 DEF WriteMark, WriteRebuiltTable, Writing, CallInv, NoFault
  <2> QED  BY <1>5, <2>1, <2>2, <2>3, <2>4, <2>5, <2>6, <2>7, <2>8 DEF Queue
<1>6. CASE Throw
  <2>1. Reply(FALSE) /\ job.at = "read" /\ net' = net
    BY <1>1, <1>6 DEF Throw, Reply, server
  <2> QED  BY <1>1, <2>1, ReplyCleans DEF OnTime
<1>7. CASE Steps
  <2>1. CASE SessionStep \/ DrainStep \/ StartReconcile \/ \E u \in Syncs : SyncStep(u)
    <3>1. UNCHANGED <<disk, sync, server>> /\ job.at = "free"
      BY <2>1 DEF SessionStep, DrainStep, StartReconcile, SyncStep, Begin, procs
    <3> QED  BY <1>3, <1>4, <3>1
  <2>2. CASE RepairStep \/ RepairReadsFacts \/ RepairReadsTable
    BY <1>1, <2>2 DEF RepairStep, RepairReadsFacts, RepairReadsTable, NoRepair
  <2> QED  BY <1>7, <2>1, <2>2 DEF Steps
<1>8. CASE ScheduledMaintenance
  <2>1. UNCHANGED <<sync, server>> /\ job.at = "free"
    BY <1>8 DEF ScheduledMaintenance, procs
  <2> QED  BY <1>4, <1>8, <2>1, RoutineCalm, WritesAlike
<1>9. ASSUME NEW u \in Syncs, Sync(u) PROVE OnTime' /\ SentInv' /\ CleanMeansDelivered'
  BY <1>1, <1>9, SyncCleans DEF OnTime
<1>10. CASE Crash
  <2>1. UNCHANGED <<disk, server>> /\ \A u \in Syncs : sync'[u].at = "idle"
    BY <1>10, IdleValues DEF Crash
  <2>2. CleanMeansDelivered' /\ net' = {}
    BY <1>1, <2>1 DEF CleanMeansDelivered, server
  <2> QED  BY <1>1, <2>1, <2>2 DEF OnTime, SentInv, Active
<1>11. CASE \/ PressureElsewhere \/ PressureInWrite \/ LateArrival
            \/ \E k \in Keys : RepairReadsSegments(k)
  BY <1>1, <1>11 DEF PressureElsewhere, PressureInWrite, RepairReadsSegments, LateArrival
<1>12. CASE \/ StartDrain \/ UNCHANGED vars
            \/ (\E i \in Ids : CloseSegment(i)) \/ (\E d \in Dates : Midnight(d))
  <2>1. UNCHANGED <<disk, job, sync, server>>
    BY <1>12 DEF StartDrain, CloseSegment, Midnight, vars, procs, server
  <2> QED  BY <1>3, <1>4, <2>1
<1> QED
  BY <1>5, <1>6, <1>7, <1>8, <1>9, <1>10, <1>11, <1>12 DEF Next

LEMMA CleanInvariant ==
    ASSUME Calm, Budget["late"] = 0
    PROVE  Spec => [](OnTime /\ SentInv /\ CleanMeansDelivered)
<1>1. Init => OnTime /\ SentInv /\ CleanMeansDelivered
  <2> SUFFICES ASSUME Init PROVE OnTime /\ SentInv /\ CleanMeansDelivered
    OBVIOUS
  <2>1. /\ disk = NewDisk /\ net = {} /\ left = Budget
        /\ \A u \in Syncs : sync[u].at = "idle"
    BY IdleValues DEF Init
  <2>2. disk.made = {}
    BY <2>1 DEF NewDisk
  <2> QED  BY <2>1, <2>2 DEF OnTime, SentInv, Active, CleanMeansDelivered
<1>2. CalmInv /\ TypeOK' /\ (OnTime /\ SentInv /\ CleanMeansDelivered) /\ [Next]_vars
        => (OnTime /\ SentInv /\ CleanMeansDelivered)'
  BY NextCleans DEF Calm
<1> QED  BY <1>1, <1>2, CalmInvariant, TypeCorrect, PTL DEF Spec

\* An outbox that is clean tells the truth: the Worker has everything the
\* aggregate counts.  It takes what Part 2 takes and that no request arrives
\* after its run has given it up; crashes, refusals and answers lost after
\* the Worker stored or did not store the upload are allowed.
THEOREM CleanOutboxesAreDelivered ==
    ASSUME Calm, Budget["late"] = 0
    PROVE  Spec => []CleanMeansDelivered
  BY CleanInvariant, PTL

(***************************************************************************)
(* Part 3: the Worker's rows never shrink, and the ledger is a book.  It   *)
(* takes what Part 2 takes, and that nothing is old enough to be pruned: a *)
(* pruned hour that is settled into once more starts again at nothing, and *)
(* its upload replaces the fuller row.                                     *)
(***************************************************************************)
\* What the Worker counts is in the aggregate on disk.
CopiesLag == \A p \in Parts, i \in Ids : srv[p][i] > 0 => disk.stats[p[2]].dom[i] > 0

\* A package lies between the Worker's rows and the aggregates on disk.
Between(u) ==
    /\ \A k \in Keys, i \in Ids : sync[u].val[k][i] > 0 => disk.stats[k].dom[i] > 0
    /\ \A p \in Parts, i \in Ids :
         p[2] \in sync[u].keys /\ srv[p][i] > 0 => sync[u].val[p[2]][i] > 0

BookInv == CopiesLag /\ \A u \in Syncs : Active(u) => Between(u)

LEMMA CountInvariant == Spec /\ []AllOnDisk => []CountInv
<1>1. Init => CountInv
  BY InitCounts
<1>2. FactInv /\ OneSegment /\ CountInv /\ AllOnDisk /\ AllOnDisk' /\ [Next]_vars => CountInv'
  BY NextCounts
<1> QED  BY <1>1, <1>2, FactsInvariant, OneAtATime, PTL DEF Spec

\* Only a settlement changes an aggregate.
LEMMA StatsChange ==
    ASSUME CalmInv, CountInv, StillInv, [Next]_vars
    PROVE  disk'.stats = disk.stats \/ WriteSettlement
<1>1. /\ TypeOK /\ CallInv /\ DiskInv /\ disk \in Disk /\ disk.stats \in [Keys -> Stat]
      /\ left["press"] = 0
  BY DEF CalmInv, FactInv, TypeOK, Disk, StillInv
<1>2. CASE \/ UNCHANGED disk \/ WriteJournal \/ ClearJournal \/ WriteSegmentAck
           \/ WriteSegmentFailure
  BY <1>1, <1>2 DEF WriteJournal, ClearJournal, WriteSegmentAck, WriteSegmentFailure, Disk
<1>3. CASE WritePartAck \/ WritePartFailure
  BY <1>3, PartWriteIsPlain
<1>4. CASE WriteMark \/ WriteRebuiltTable
  BY <1>1, <1>4 DEF WriteMark, WriteRebuiltTable, Writing, CallInv, NoFault
<1>5. CASE WriteReconciliation
  <2> DEFINE seen == {k \in Keys : HasFacts(disk.segs, disk.comp, k)}
  <2>1. job.snap = disk
    BY <1>1, <1>5 DEF CallInv, ReadIsCurrent, WriteReconciliation, Writing
  <2>2. disk'.stats = [k \in Keys |-> IF k \in seen \ disk.made
                         THEN FromFacts(disk.segs, disk.comp, k) ELSE disk.stats[k]]
    BY <1>1, <1>5, <2>1, ReconciliationFields
  <2>3. seen \subseteq disk.made
    BY <1>1 DEF HasFacts, CountInv, PlainFacts, DiskInv, Covered
  <2> HIDE DEF seen
  <2> QED  BY <1>1, <2>2, <2>3
<1>6. CASE ScheduledMaintenance
  <2> DEFINE kept == {p \in disk.dirty : p[2] \in disk.made}
             oldKeys == {k \in disk.made \cap disk.sent :
                           /\ \A v \in Views : <<v, k>> \notin kept
                           /\ age[DayOf(k)] >= RetentionAge(k)}
  <2>1. disk' = Routine(disk)
    BY <1>6 DEF ScheduledMaintenance
  <2>2. disk'.stats = [k \in Keys |-> IF k \in oldKeys THEN EmptyStat ELSE disk.stats[k]]
    BY <1>1, <2>1, RoutineFields
  <2>3. ASSUME NEW k \in disk.made PROVE k \notin oldKeys
    <3>1. k \in Keys
      BY <1>1 DEF Disk
    <3>2. DayOf(k) \in Dates
      BY <3>1, LedgerAssumption DEF Keys, DayOf
    <3>3. age[DayOf(k)] = 0
      BY <3>2 DEF StillInv, NoAgeing
    <3> QED  BY <3>3 DEF RetentionAge
  <2>4. oldKeys = {}
    BY <2>3
  <2> HIDE DEF oldKeys
  <2> QED  BY <1>1, <2>2, <2>4
<1> QED  BY <1>1, <1>2, <1>3, <1>4, <1>5, <1>6, DiskChanges

\* A settlement enters its segment under all of its keys, for the first time.
LEMMA SettlementEnters ==
    ASSUME CalmInv, CountInv, StillInv, WriteSettlement
    PROVE  \E i \in Ids :
           /\ \A k \in Keys : ~(disk.stats[k].dom[i] > 0)
           /\ \A k \in Keys, j \in Ids :
                disk'.stats[k].dom[j] > 0 <=>
                  disk.stats[k].dom[j] > 0 \/ (j = i /\ k \in KeysOf(i))
<1>1. PICK i \in Ids :
        /\ i \notin disk.segs
        /\ disk'.stats = [k \in Keys |-> IF k \in KeysOf(i)
                            THEN AddTo(disk.stats[k], i) ELSE disk.stats[k]]
  BY SettlementIsNew
<1>2. disk.stats \in [Keys -> Stat]
  BY DEF CalmInv, FactInv, TypeOK, Disk
<1>3. \A k \in Keys : ~(disk.stats[k].dom[i] > 0)
  BY <1>1 DEF CountInv, CountsOnce, StillInv, AllOnDisk
<1>4. \A k \in Keys, j \in Ids :
        /\ disk.stats[k].dom[j] \in Nat
        /\ disk'.stats[k].dom[j] = IF k \in KeysOf(i) /\ j = i
                                    THEN disk.stats[k].dom[j] + 1 ELSE disk.stats[k].dom[j]
  BY <1>1, <1>2 DEF Stat, Counts, AddTo
<1>5. ASSUME NEW k \in Keys, NEW j \in Ids
      PROVE  disk'.stats[k].dom[j] > 0 <=>
               disk.stats[k].dom[j] > 0 \/ (j = i /\ k \in KeysOf(i))
  BY <1>4
<1> QED  BY <1>3, <1>5

\* Sending replaces rows of the Worker by what the package holds of them.
LEMMA SendingRows ==
    ASSUME CalmInv, NEW u \in Syncs, SendPart(u), ~Spend("late")
    PROVE  \/ srv' = srv
           \/ LET p == ThisPart(u)  val == ThisVal(u) IN
              /\ p \in Parts /\ p[2] \in sync[u].keys /\ val \in Counts
              /\ val = sync[u].val[p[2]]
              /\ srv' = [srv EXCEPT ![p] = Upsert(srv[p], val, p[2])]
<1> DEFINE p == ThisPart(u)
           val == ThisVal(u)
<1>1. TypeOK /\ sync[u] \in Package /\ PackOf(u) /\ sync[u].at = "part"
  BY DEF CalmInv, FactInv, TypeOK, PackInv, Active, SendPart
<1>2. sync[u].n \in DOMAIN Order[sync[u].date]
  <2>1. sync[u].n \in Nat \ {0} /\ sync[u].date \in Dates
    BY <1>1 DEF Package
  <2>2. Order[sync[u].date] \in Seq(Parts)
    BY <2>1, LedgerAssumption
  <2>3. DOMAIN Order[sync[u].date] = 1 .. Len(Order[sync[u].date])
          /\ Len(Order[sync[u].date]) \in Nat
    BY <2>2
  <2> QED  BY <2>1, <2>3 DEF SendPart
<1>3. p \in Parts /\ p[2] \in Keys
  <2>1. p \in Parts
    BY <1>1, <1>2, ThisPartType
  <2> QED  BY <2>1 DEF Parts
<1>4. val = sync[u].val[p[2]] /\ val \in Counts
  BY <1>1, <1>3 DEF ThisVal, Package
<1>5. srv' = srv \/ (ThisCounted(u) # {} /\ srv' = [srv EXCEPT ![p] = Upsert(srv[p], val, p[2])])
  BY DEF SendPart
<1>6. ThisCounted(u) # {} => p[2] \in sync[u].keys
  <2> SUFFICES ASSUME NEW i \in Ids, val[i] > 0, p[2] \notin sync[u].keys PROVE FALSE
    BY DEF ThisCounted
  <2>1. val = None
    BY <1>1, <1>3, <1>4 DEF PackOf
  <2> QED  BY <2>1 DEF None
<1> QED  BY <1>3, <1>4, <1>5, <1>6

\* What a run sends is no less than what the Worker has, and no more than what
\* the aggregate counts.
LEMMA SendingBook ==
    ASSUME CalmInv, BookInv, TypeOK', NEW u \in Syncs, SendPart(u), ~Spend("late")
    PROVE  /\ \A p \in Parts, i \in Ids :
                /\ srv[p][i] > 0 => srv'[p][i] > 0
                /\ srv'[p][i] > 0 => disk.stats[p[2]].dom[i] > 0
                /\ p[2] \in sync[u].keys /\ srv'[p][i] > 0 => sync[u].val[p[2]][i] > 0
           /\ srv' = srv \/ \E p \in Parts : \A q \in Parts \ {p} : srv'[q] = srv[q]
<1>1. /\ TypeOK /\ srv \in [Parts -> Counts] /\ sync[u] \in Package /\ CopiesLag /\ Between(u)
  BY DEF CalmInv, FactInv, TypeOK, BookInv, Active, SendPart
<1>2. CASE srv' = srv
  BY <1>1, <1>2 DEF CopiesLag, Between
<1>3. CASE LET p == ThisPart(u)  val == ThisVal(u) IN
              /\ p \in Parts /\ p[2] \in sync[u].keys /\ val \in Counts
              /\ val = sync[u].val[p[2]]
              /\ srv' = [srv EXCEPT ![p] = Upsert(srv[p], val, p[2])]
  <2> DEFINE p == ThisPart(u)
             val == ThisVal(u)
  <2>1. /\ p \in Parts /\ p[2] \in Keys /\ p[2] \in sync[u].keys /\ val = sync[u].val[p[2]]
        /\ srv' = [srv EXCEPT ![p] = Upsert(srv[p], val, p[2])]
    BY <1>3 DEF Parts
  <2> HIDE DEF p, val
  <2>2. /\ srv'[p] = Upsert(srv[p], val, p[2])
        /\ \A q \in Parts \ {p} : srv'[q] = srv[q]
    BY <1>1, <2>1
  <2>3. ASSUME NEW i \in Ids
        PROVE  srv'[p][i] \in {val[i], srv[p][i]}
    BY <2>2 DEF Upsert
  <2>4. \A i \in Ids : srv[p][i] > 0 => val[i] > 0
    BY <1>1, <2>1 DEF Between
  <2>5. \A i \in Ids : val[i] > 0 => disk.stats[p[2]].dom[i] > 0
    BY <1>1, <2>1 DEF Between
  <2>6. ASSUME NEW i \in Ids
        PROVE  /\ srv[p][i] > 0 => srv'[p][i] > 0
               /\ srv'[p][i] > 0 => val[i] > 0
    BY <2>3, <2>4
  <2>7. ASSUME NEW q \in Parts, NEW i \in Ids
        PROVE  /\ srv[q][i] > 0 => srv'[q][i] > 0
               /\ srv'[q][i] > 0 => disk.stats[q[2]].dom[i] > 0
               /\ q[2] \in sync[u].keys /\ srv'[q][i] > 0 => sync[u].val[q[2]][i] > 0
    <3>1. CASE q = p
      BY <2>1, <2>5, <2>6, <3>1
    <3>2. CASE q # p
      BY <1>1, <2>2, <3>2 DEF CopiesLag, Between
    <3> QED  BY <3>1, <3>2
  <2> QED  BY <2>1, <2>2, <2>7
<1> QED  BY <1>2, <1>3, SendingRows

\* The Worker's rows change by a send only.
LEMMA ServerChanges ==
    ASSUME OnTime, [Next]_vars
    PROVE  srv' = srv \/ \E u \in Syncs : SendPart(u)
<1>1. net = {}
  BY DEF OnTime
<1>2. CASE Queue
  BY <1>2 DEF Queue, WriteJournal, WriteSettlement, ClearJournal, WriteReconciliation,
              WriteSegmentAck, WriteSegmentFailure, WritePartAck, WritePartFailure,
              WriteMark, WriteRebuiltTable, Writing, Return, Reply, server
<1>3. CASE Steps
  BY <1>3 DEF Steps, SessionStep, DrainStep, RepairStep, StartReconcile, SyncStep,
              Begin, RepairReadsFacts, RepairReadsTable, server
<1>4. CASE \E u \in Syncs : Sync(u)
  BY <1>4 DEF Sync, StartSync, TakeSnapshot, SendSegments, EndSync, server
<1>5. CASE PressureElsewhere \/ PressureInWrite \/ ScheduledMaintenance \/ StartDrain
  BY <1>5 DEF PressureElsewhere, PressureInWrite, ScheduledMaintenance, StartDrain, server
<1>6. CASE Throw \/ Crash \/ LateArrival \/ UNCHANGED vars
  BY <1>1, <1>6 DEF Throw, Reply, Crash, LateArrival, vars, server
<1>7. CASE \/ \E i \in Ids : CloseSegment(i)
           \/ \E k \in Keys : RepairReadsSegments(k)
           \/ \E d \in Dates : Midnight(d)
  BY <1>7 DEF CloseSegment, RepairReadsSegments, Midnight, server
<1> QED  BY <1>2, <1>3, <1>4, <1>5, <1>6, <1>7 DEF Next

\* The counts and keys of a package are those of its snapshot.
LEMMA PackagesChange ==
    ASSUME CalmInv, [Next]_vars, NEW u \in Syncs, Active(u)'
    PROVE  \/ /\ Active(u) /\ sync'[u].keys = sync[u].keys /\ sync'[u].val = sync[u].val
           \/ /\ srv' = srv /\ disk' = disk
              /\ sync'[u].val = [k \in Keys |-> IF k \in sync'[u].keys
                                   THEN disk.stats[k].dom ELSE None]
<1>1. TypeOK /\ CallInv /\ sync \in [Syncs -> Package] /\ ~Spend("press") /\ ~Spend("repair")
  BY DEF CalmInv, FactInv, TypeOK, CallInv, NoFault, Spend
<1>2. CASE UNCHANGED sync
  BY <1>2 DEF Active
<1>3. ASSUME NEW ok \in BOOLEAN, Reply(ok), job.at # "free" PROVE Active(u) /\ sync'[u].keys = sync[u].keys
               /\ sync'[u].val = sync[u].val
  <2>1. CASE UNCHANGED sync
    BY <2>1 DEF Active
  <2>2. ASSUME NEW v \in Syncs, job.task.who = v, SyncReturns(v, ok)
        PROVE  Active(u) /\ sync'[u].keys = sync[u].keys /\ sync'[u].val = sync[u].val
    <3>1. Serves(v) /\ sync[v].at \in SyncOps
      BY <1>1, <1>3, <2>2, ServedSync DEF Serves
    <3>2. CASE u # v
      BY <1>1, <2>2, <3>1, <3>2, ReturnMoves DEF Active
    <3>3. CASE u = v
      <4>1. sync'[u] # NoSync
        BY IdleValues DEF Active
      <4>2. \/ sync'[u] = [sync[u] EXCEPT !.at = "part", !.ids = {}]
            \/ sync'[u] = [sync[u] EXCEPT !.at = "failSegs"]
            \/ sync'[u] = [sync[u] EXCEPT !.at = "failPart"]
            \/ sync'[u] = [sync[u] EXCEPT !.at = "part", !.n = sync[u].n + 1]
        BY <1>1, <2>2, <3>1, <3>3, <4>1, ReturnMoves
      <4>3. Active(u)
        BY <3>1, <3>3 DEF Active, SyncOps
      <4> QED  BY <1>1, <4>2, <4>3 DEF Package
    <3> QED  BY <3>2, <3>3
  <2> QED
    BY <1>3, <2>1, <2>2 DEF Reply, SessionReturns, DrainReturns, RepairReturns, procs
<1>4. CASE Queue
  <2>1. CASE Return
    BY <1>3, <2>1 DEF Return
  <2>2. CASE ~Return
    BY <1>2, <1>4, <2>2 DEF Queue, WriteJournal, WriteSettlement, ClearJournal,
              WriteReconciliation, WriteSegmentAck, WriteSegmentFailure, WritePartAck,
              WritePartFailure, WriteMark, WriteRebuiltTable, Writing, procs
  <2> QED  BY <2>1, <2>2
<1>5. CASE Throw
  BY <1>3, <1>5 DEF Throw
<1>6. ASSUME NEW v \in Syncs, Sync(v)
      PROVE  \/ /\ Active(u) /\ sync'[u].keys = sync[u].keys /\ sync'[u].val = sync[u].val
             \/ /\ srv' = srv /\ disk' = disk
                /\ sync'[u].val = [k \in Keys |-> IF k \in sync'[u].keys
                                     THEN disk.stats[k].dom ELSE None]
  <2>1. CASE u # v
    <3>1. sync'[u] = sync[u]
      BY <1>1, <1>6, <2>1 DEF Sync, StartSync, TakeSnapshot, SendSegments, SendPart, EndSync,
                              Finished
    <3> QED  BY <3>1 DEF Active
  <2>2. CASE u = v /\ (StartSync(v) \/ EndSync(v))
    <3>1. sync'[u].at \in {"prepare", "idle"}
      <4>1. CASE StartSync(u)
        <5>1. sync' = [sync EXCEPT ![u].at = "prepare"]
          BY <4>1 DEF StartSync
        <5> QED  BY <1>1, <5>1 DEF Package
      <4>2. CASE EndSync(u)
        <5>1. sync'[u] = NoSync
          BY <1>1, <4>2 DEF EndSync, Finished
        <5> QED  BY <5>1, IdleValues
      <4> QED  BY <2>2, <4>1, <4>2
    <3> QED  BY <3>1 DEF Active
  <2>3. CASE u = v /\ \E d \in Dates : TakeSnapshot(v, d)
    <3>1. PICK d \in Dates : TakeSnapshot(u, d)
      BY <2>3
    <3>2. ~Finished(u) /\ srv' = srv /\ disk' = disk
      BY <1>1, <3>1, IdleValues DEF Finished, Active, TakeSnapshot, server
    <3>3. PICK at \in {"part", "segments"}, ids \in SUBSET Ids, keys \in SUBSET Keys,
               bad \in SUBSET {"daily", "hourly"} :
            sync' = [sync EXCEPT ![u] = Packed(at, d, ids, keys, bad)] /\ UNCHANGED locked
      BY <3>1, <3>2, SnapshotMoves, Zenon
    <3>4. sync'[u] = Packed(at, d, ids, keys, bad)
      BY <1>1, <3>3
    <3>5. /\ sync'[u].keys = keys
          /\ sync'[u].val = [k \in Keys |-> IF k \in keys THEN disk.stats[k].dom ELSE None]
      BY <3>4 DEF Packed
    <3> QED  BY <3>2, <3>5
  <2>4. CASE u = v /\ (SendSegments(v) \/ SendPart(v))
    <3>1. /\ Active(u)
          /\ \/ sync' = [sync EXCEPT ![u].at = "ackSegs"]
             \/ sync' = [sync EXCEPT ![u].at = "failSegs"]
             \/ sync' = [sync EXCEPT ![u].at = "failPart"]
             \/ sync' = [sync EXCEPT ![u].at = "ackPart"]
             \/ sync' = [sync EXCEPT ![u].n = @ + 1]
      BY <2>4 DEF SendSegments, SendPart, Active
    <3> QED  BY <1>1, <3>1 DEF Package
  <2> QED  BY <1>6, <2>1, <2>2, <2>3, <2>4 DEF Sync
<1>7. CASE Crash
  BY <1>7, IdleValues DEF Crash, Active
<1>8. CASE Steps
  BY <1>2, <1>8 DEF Steps, SessionStep, DrainStep, RepairStep, StartReconcile, SyncStep,
                    Begin, RepairReadsFacts, RepairReadsTable, procs
<1>9. CASE \/ PressureElsewhere \/ PressureInWrite \/ ScheduledMaintenance \/ StartDrain
           \/ LateArrival
  BY <1>2, <1>9 DEF PressureElsewhere, PressureInWrite, ScheduledMaintenance, StartDrain,
                    LateArrival, procs
<1>10. CASE \/ UNCHANGED vars
            \/ \E i \in Ids : CloseSegment(i)
            \/ \E k \in Keys : RepairReadsSegments(k)
            \/ \E d \in Dates : Midnight(d)
  BY <1>2, <1>10 DEF vars, CloseSegment, RepairReadsSegments, Midnight, procs
<1> QED  BY <1>4, <1>5, <1>6, <1>7, <1>8, <1>9, <1>10 DEF Next

\* The book only grows.
LEMMA BookGrows ==
    ASSUME CalmInv, CountInv, StillInv, [Next]_vars, NEW k \in Keys, NEW i \in Ids,
           disk.stats[k].dom[i] > 0
    PROVE  disk'.stats[k].dom[i] > 0
<1>1. CASE disk'.stats = disk.stats
  BY <1>1
<1>2. CASE WriteSettlement
  BY <1>2, SettlementEnters
<1> QED  BY <1>1, <1>2, StatsChange

LEMMA NextBook ==
    ASSUME ~StaleLock, CalmInv, CountInv, StillInv, OnTime, BookInv, TypeOK', [Next]_vars
    PROVE  BookInv' /\ \A p \in Parts, i \in Ids : srv[p][i] > 0 => srv'[p][i] > 0
<1>1. /\ TypeOK /\ CallInv /\ sync \in [Syncs -> Package] /\ CopiesLag
      /\ \A p \in Parts : p[2] \in Keys
  BY DEF CalmInv, FactInv, TypeOK, BookInv, Parts
<1>2. \A k \in Keys, i \in Ids : disk.stats[k].dom[i] > 0 => disk'.stats[k].dom[i] > 0
  BY BookGrows
<1>3. CASE srv' = srv
  <2>1. CopiesLag'
    BY <1>1, <1>2, <1>3 DEF CopiesLag
  <2>2. ASSUME NEW u \in Syncs, Active(u)' PROVE Between(u)'
    <3>1. CASE /\ Active(u) /\ sync'[u].keys = sync[u].keys /\ sync'[u].val = sync[u].val
      <4>1. Between(u)
        BY <3>1 DEF BookInv
      <4> QED  BY <1>2, <1>3, <3>1, <4>1 DEF Between
    <3>2. CASE /\ srv' = srv /\ disk' = disk
               /\ sync'[u].val = [k \in Keys |-> IF k \in sync'[u].keys
                                    THEN disk.stats[k].dom ELSE None]
      <4>1. \A k \in Keys, i \in Ids :
              sync'[u].val[k][i] = IF k \in sync'[u].keys THEN disk.stats[k].dom[i] ELSE 0
        BY <3>2 DEF None
      <4>2. \A k \in Keys, i \in Ids : sync'[u].val[k][i] > 0 => disk.stats[k].dom[i] > 0
        BY <4>1
      <4>3. \A p \in Parts, i \in Ids :
              p[2] \in sync'[u].keys /\ srv[p][i] > 0 => sync'[u].val[p[2]][i] > 0
        BY <1>1, <4>1 DEF CopiesLag
      <4> QED  BY <3>2, <4>2, <4>3 DEF Between
    <3> QED  BY <2>2, <3>1, <3>2, PackagesChange
  <2> QED  BY <1>3, <2>1, <2>2 DEF BookInv
<1>4. ASSUME NEW v \in Syncs, SendPart(v)
      PROVE  BookInv' /\ \A p \in Parts, i \in Ids : srv[p][i] > 0 => srv'[p][i] > 0
  <2>1. ~Spend("late")
    BY DEF OnTime, Spend
  <2>2. /\ \A p \in Parts, i \in Ids :
             /\ srv[p][i] > 0 => srv'[p][i] > 0
             /\ srv'[p][i] > 0 => disk.stats[p[2]].dom[i] > 0
             /\ p[2] \in sync[v].keys /\ srv'[p][i] > 0 => sync[v].val[p[2]][i] > 0
    BY <1>4, <2>1, SendingBook
  <2>3. /\ UNCHANGED disk /\ Active(v)
        /\ \A w \in Syncs \ {v} : sync'[w] = sync[w] /\ sync[w].at = "idle"
    BY <1>1, <1>4, SyncMoves DEF Sync, SendPart, Active
  <2>4. sync'[v].keys = sync[v].keys /\ sync'[v].val = sync[v].val
    <3>1. \/ sync' = [sync EXCEPT ![v].at = "failPart"]
          \/ sync' = [sync EXCEPT ![v].at = "ackPart"]
          \/ sync' = [sync EXCEPT ![v].n = @ + 1]
      BY <1>4 DEF SendPart
    <3> QED  BY <1>1, <3>1 DEF Package
  <2>5. CopiesLag'
    BY <2>2, <2>3 DEF CopiesLag
  <2>6. ASSUME NEW u \in Syncs, Active(u)' PROVE Between(u)'
    <3>1. u = v
      BY <2>3, <2>6 DEF Active
    <3>2. Between(u)
      BY <2>3, <3>1 DEF BookInv
    <3> QED  BY <2>2, <2>3, <2>4, <3>1, <3>2 DEF Between
  <2> QED  BY <2>2, <2>5, <2>6 DEF BookInv
<1> QED  BY <1>3, <1>4, ServerChanges

LEMMA InitBook == Init => BookInv
<1> SUFFICES ASSUME Init PROVE BookInv
  OBVIOUS
<1>1. srv = [p \in Parts |-> None] /\ \A u \in Syncs : sync[u].at = "idle"
  BY IdleValues DEF Init
<1>2. CopiesLag
  BY <1>1 DEF CopiesLag, None
<1> QED  BY <1>1, <1>2 DEF BookInv, Active

LEMMA BookInvariant ==
    ASSUME Calm, Budget["late"] = 0, MaxAge = 0
    PROVE  Spec => [](CalmInv /\ CountInv /\ StillInv /\ OnTime /\ BookInv)
<1>1. Spec => []StillInv
  BY StillInvariant DEF Calm
<1>2. Spec => []CountInv
  <2>1. StillInv => AllOnDisk
    BY DEF StillInv
  <2> QED  BY <1>1, <2>1, CountInvariant, PTL
<1>3. ~StaleLock /\ CalmInv /\ CountInv /\ StillInv /\ OnTime /\ TypeOK' /\ BookInv /\ [Next]_vars
        => BookInv'
  BY NextBook
<1>4. ~StaleLock
  BY DEF Calm
<1> QED
  BY <1>1, <1>2, <1>3, <1>4, InitBook, CalmInvariant, CleanInvariant, TypeCorrect, PTL DEF Spec

\* What the Worker has counted it keeps counting: no upload replaces a row by
\* a poorer one.
THEOREM UploadsNeverShrinkRows ==
    ASSUME Calm, Budget["late"] = 0, MaxAge = 0
    PROVE  Spec => ServerNeverShrinks
<1>1. ~StaleLock /\ CalmInv /\ CountInv /\ StillInv /\ OnTime /\ BookInv /\ TypeOK' /\ [Next]_vars
        => [\A p \in Parts, i \in Ids : srv[p][i] > 0 => srv'[p][i] > 0]_vars
  BY NextBook
<1>2. ~StaleLock
  BY DEF Calm
<1> QED
  BY <1>1, <1>2, BookInvariant, TypeCorrect, PTL DEF Spec, ServerNeverShrinks

(***************************************************************************)
(* The refinement.  A settlement enters its fact under all of its keys in  *)
(* one step, a send lets one copy catch up, and every other step changes   *)
(* neither the book nor a copy.                                            *)
(***************************************************************************)
BookNow == [k \in Keys |-> {i \in Ids : disk.stats[k].dom[i] > 0}]
CopyNow == [p \in Parts |-> {i \in Ids : srv[p][i] > 0}]

LEMMA SettlementIsEntry ==
    ASSUME CalmInv, CountInv, StillInv, WriteSettlement
    PROVE  \E i \in Ids, K \in SUBSET Keys : Book!Enter(i, K)
<1>1. PICK i \in Ids :
        /\ \A k \in Keys : ~(disk.stats[k].dom[i] > 0)
        /\ \A k \in Keys, j \in Ids :
             disk'.stats[k].dom[j] > 0 <=>
               disk.stats[k].dom[j] > 0 \/ (j = i /\ k \in KeysOf(i))
  BY SettlementEnters
<1>2. srv' = srv
  BY DEF WriteSettlement, Writing, server
<1> DEFINE K == KeysOf(i)
<1>3. K \in SUBSET Keys
  BY KeysAndDates
<1>4. \A k \in Keys : i \notin BookNow[k]
  BY <1>1 DEF BookNow
<1>5. BookNow' = [k \in Keys |-> IF k \in K THEN BookNow[k] \cup {i} ELSE BookNow[k]]
  <2>1. ASSUME NEW k \in Keys
        PROVE  {j \in Ids : disk'.stats[k].dom[j] > 0}
                 = IF k \in K THEN {j \in Ids : disk.stats[k].dom[j] > 0} \cup {i}
                   ELSE {j \in Ids : disk.stats[k].dom[j] > 0}
    BY <1>1
  <2> QED  BY <2>1 DEF BookNow
<1>6. CopyNow' = CopyNow
  BY <1>2 DEF CopyNow
<1>7. Book!Enter(i, K)
  BY <1>4, <1>5, <1>6 DEF Book!Enter, BookNow, CopyNow
<1> QED  BY <1>3, <1>7

LEMMA SendingIsCatchingUp ==
    ASSUME CalmInv, BookInv, OnTime, TypeOK', NEW u \in Syncs, SendPart(u)
    PROVE  (\E p \in Parts : Book!CatchUp(p)) \/ UNCHANGED <<BookNow, CopyNow>>
<1>1. /\ \A p \in Parts, i \in Ids :
           /\ srv[p][i] > 0 => srv'[p][i] > 0
           /\ srv'[p][i] > 0 => disk.stats[p[2]].dom[i] > 0
      /\ srv' = srv \/ \E p \in Parts : \A q \in Parts \ {p} : srv'[q] = srv[q]
  <2>1. ~Spend("late")
    BY DEF OnTime, Spend
  <2> QED  BY <2>1, SendingBook
<1>2. BookNow' = BookNow
  BY DEF BookNow, SendPart
<1>3. CASE srv' = srv
  BY <1>2, <1>3 DEF CopyNow
<1>4. ASSUME NEW p \in Parts, \A q \in Parts \ {p} : srv'[q] = srv[q]
      PROVE  Book!CatchUp(p)
  <2> DEFINE S == {i \in Ids : srv'[p][i] > 0}
  <2>1. KeyOfPart(p) = p[2] /\ p[2] \in Keys
    BY DEF KeyOfPart, Parts
  <2>2. S \in SUBSET BookNow[KeyOfPart(p)]
    BY <1>1, <2>1 DEF BookNow
  <2>3. CopyNow' = [CopyNow EXCEPT ![p] = S]
    <3>1. \A q \in Parts : {i \in Ids : srv'[q][i] > 0} = IF q = p THEN S ELSE CopyNow[q]
      BY <1>4 DEF CopyNow
    <3> QED  BY <3>1 DEF CopyNow
  <2>4. CopyNow[p] \subseteq CopyNow'[p]
    BY <1>1 DEF CopyNow
  <2> QED  BY <1>2, <2>2, <2>3, <2>4 DEF Book!CatchUp, BookNow, CopyNow
<1> QED  BY <1>1, <1>2, <1>3, <1>4

\* The ledger implements the book: a fact is entered once, under the date and
\* every hour it falls in and in one step of the disk, and each of the Worker's
\* rows catches up with the book without running ahead or forgetting.
THEOREM LedgerIsABook ==
    ASSUME Calm, Budget["late"] = 0, MaxAge = 0
    PROVE  Spec => BehavesLikeABook
<1>1. Init => Book!Init
  <2> SUFFICES ASSUME Init PROVE Book!Init
    OBVIOUS
  <2>1. srv = [p \in Parts |-> None] /\ disk.stats = [k \in Keys |-> EmptyStat]
    BY DEF Init, NewDisk
  <2>2. BookNow = [k \in Keys |-> {}]
    BY <2>1 DEF BookNow, EmptyStat, None
  <2>3. CopyNow = [p \in Parts |-> {}]
    BY <2>1 DEF CopyNow, None
  <2> QED  BY <2>2, <2>3 DEF Book!Init, BookNow, CopyNow
<1>2. CalmInv /\ CountInv /\ StillInv /\ OnTime /\ BookInv /\ TypeOK' /\ [Next]_vars
        => Book!Next \/ UNCHANGED <<BookNow, CopyNow>>
  <2> SUFFICES ASSUME CalmInv, CountInv, StillInv, OnTime, BookInv, TypeOK', [Next]_vars
               PROVE  Book!Next \/ UNCHANGED <<BookNow, CopyNow>>
    OBVIOUS
  <2>1. CASE WriteSettlement
    BY <2>1, SettlementIsEntry DEF Book!Next
  <2>2. ASSUME NEW u \in Syncs, SendPart(u)
        PROVE  Book!Next \/ UNCHANGED <<BookNow, CopyNow>>
    BY <2>2, SendingIsCatchingUp DEF Book!Next
  <2>3. CASE srv' = srv /\ disk'.stats = disk.stats
    BY <2>3 DEF BookNow, CopyNow
  <2> QED  BY <2>1, <2>2, <2>3, StatsChange, ServerChanges
<1>3. CalmInv /\ CountInv /\ StillInv /\ OnTime /\ BookInv /\ TypeOK' /\ [Next]_vars
        => [Book!Next]_<<BookNow, CopyNow>>
  BY <1>2
<1> QED
  BY <1>1, <1>3, BookInvariant, TypeCorrect, PTL
     DEF Spec, BehavesLikeABook, Book!Spec, BookNow, CopyNow

(***************************************************************************)
(* Part 4: what is materialised of the current day stays.  It takes that   *)
(* storage is not short (an emergency prunes with a retention of zero) and *)
(* that no table is rebuilt (a rebuild writes an older list of hours).     *)
(* Syncs may overlap, days pass and requests arrive late.                  *)
(***************************************************************************)
NoRebuild ==
    /\ left["press"] = 0 /\ left["repair"] = 0 /\ repair.at = "idle"
    /\ job.at # "free" => job.task.op # "table" /\ job.task.who # "repair"

MadeInv == NoRebuild /\ ReadIsCurrent

LEMMA NextMade ==
    ASSUME TypeOK, MadeInv, [Next]_vars
    PROVE  MadeInv'
<1>1. /\ left'["press"] = 0 /\ left'["repair"] = 0 /\ ~Spend("press") /\ ~Spend("repair")
      /\ NoRepair.at = "idle" /\ Free.at = "free"
  BY NothingSpent, IdleValues DEF MadeInv, NoRebuild, Faults, NoRepair
<1>2. ASSUME NEW ok \in BOOLEAN, Reply(ok), job.at # "free" PROVE MadeInv'
  <2>1. job' = Free
    BY <1>2 DEF Reply
  <2>2. repair' = repair
    BY <1>2 DEF Reply, SessionReturns, DrainReturns, SyncReturns, procs, MadeInv, NoRebuild
  <2> QED  BY <1>1, <2>1, <2>2 DEF MadeInv, NoRebuild, ReadIsCurrent
<1>3. ASSUME NEW op, Writing(op) PROVE MadeInv'
  <2>1. /\ job'.at = "written" /\ job'.task = job.task /\ job.at = "read"
        /\ repair' = repair
    BY <1>3 DEF Writing, procs, TypeOK, Job
  <2> QED  BY <1>1, <2>1 DEF MadeInv, NoRebuild, ReadIsCurrent
<1>4. ASSUME NEW op, NEW who, NEW ids, NEW parts, NEW rev, op # "table", who # "repair",
             Begin(op, who, ids, parts, rev)
      PROVE  MadeInv'
  <2>1. /\ job' = [task |-> [op |-> op, who |-> who, ids |-> ids, parts |-> parts, rev |-> rev],
                   at |-> "read", hit |-> FALSE, snap |-> disk]
        /\ disk' = disk /\ repair' = repair
    BY <1>4 DEF Begin, procs
  <2> QED  BY <1>1, <1>4, <2>1 DEF MadeInv, NoRebuild, ReadIsCurrent
<1>5. CASE UNCHANGED <<job, repair>> /\ (disk' = disk \/ job.at = "free")
  BY <1>1, <1>5 DEF MadeInv, NoRebuild, ReadIsCurrent
<1>6. CASE Queue
  <2>1. CASE Return
    BY <1>2, <2>1 DEF Return
  <2>2. CASE \/ WriteJournal \/ WriteSettlement \/ ClearJournal \/ WriteReconciliation
             \/ WriteSegmentAck
    BY <1>3, <2>2 DEF WriteJournal, WriteSettlement, ClearJournal, WriteReconciliation,
                      WriteSegmentAck
  <2>3. CASE \/ WriteSegmentFailure \/ WritePartAck \/ WritePartFailure \/ WriteMark
             \/ WriteRebuiltTable
    BY <1>3, <2>3 DEF WriteSegmentFailure, WritePartAck, WritePartFailure, WriteMark,
                      WriteRebuiltTable
  <2> QED  BY <1>6, <2>1, <2>2, <2>3 DEF Queue
<1>7. CASE Steps
  <2>1. CASE SessionStep
    BY <1>4, <2>1 DEF SessionStep, TypeOK, Closing, SettleAt
  <2>2. CASE DrainStep
    BY <1>4, <2>2 DEF DrainStep, TypeOK, Draining, SettleAt
  <2>3. CASE StartReconcile
    BY <1>4, <2>3 DEF StartReconcile
  <2>4. CASE RepairStep \/ RepairReadsFacts \/ RepairReadsTable
    BY <2>4 DEF RepairStep, RepairReadsFacts, RepairReadsTable, MadeInv, NoRebuild
  <2>5. ASSUME NEW u \in Syncs, SyncStep(u) PROVE MadeInv'
    BY <1>4, <2>5, NoSuchSync DEF SyncStep
  <2> QED  BY <1>7, <2>1, <2>2, <2>3, <2>4, <2>5 DEF Steps
<1>8. CASE \E u \in Syncs : Sync(u)
  BY <1>5, <1>8 DEF Sync, StartSync, TakeSnapshot, SendSegments, SendPart, EndSync
<1>9. CASE \/ PressureElsewhere \/ PressureInWrite
           \/ \E k \in Keys : RepairReadsSegments(k)
  BY <1>1, <1>9 DEF PressureElsewhere, PressureInWrite, RepairReadsSegments
<1>10. CASE Throw
  BY <1>2, <1>10 DEF Throw
<1>11. CASE Crash
  BY <1>1, <1>11 DEF Crash, MadeInv, NoRebuild, ReadIsCurrent
<1>12. CASE \/ ScheduledMaintenance \/ StartDrain \/ LateArrival \/ UNCHANGED vars
            \/ (\E i \in Ids : CloseSegment(i)) \/ (\E d \in Dates : Midnight(d))
  BY <1>5, <1>12 DEF ScheduledMaintenance, StartDrain, LateArrival, CloseSegment, Midnight,
                     vars, procs
<1> QED
  BY <1>6, <1>7, <1>8, <1>9, <1>10, <1>11, <1>12 DEF Next

\* No step takes an aggregate of the current day off the disk.
LEMMA TodayStays ==
    ASSUME TypeOK, MadeInv, [Next]_vars, NEW k \in disk.made, age[DayOf(k)] = 0
    PROVE  k \in disk'.made
<1>1. /\ disk \in Disk /\ left["press"] = 0 /\ k \in Keys
      /\ job.at = "read" => job.snap = disk
  BY DEF TypeOK, MadeInv, NoRebuild, ReadIsCurrent, Disk
<1>2. CASE \/ UNCHANGED disk \/ WriteJournal \/ ClearJournal \/ WriteSegmentAck
           \/ WriteSegmentFailure
  BY <1>1, <1>2 DEF WriteJournal, ClearJournal, WriteSegmentAck, WriteSegmentFailure, Disk
<1>3. CASE WriteSettlement
  <2>1. PICK i \in job.task.ids : disk'.made = AddSegment(disk, i).made
    BY <1>1, <1>3 DEF WriteSettlement, Writing, Disk
  <2>2. AddSegment(disk, i).made = disk.made \cup KeysOf(i)
    BY <1>1 DEF AddSegment, MarkDirty, Disk
  <2> QED  BY <2>1, <2>2
<1>4. CASE WriteReconciliation
  BY <1>1, <1>4, ReconciliationFields DEF WriteReconciliation, Writing
<1>5. CASE WritePartAck
  <2>1. PICK p \in job.task.parts :
          LET s == AckPart(disk, p)
              K == SameKind(p[2])
          IN  disk' = WriteOutbox(WriteTable(K, s.made, s.stats, s.sent),
                                  {p[1]} \X K, s.dirty, s.rev)
    BY <1>1, <1>5 DEF WritePartAck, Writing
  <2>2. AckPart(disk, p).made = disk.made
    BY <1>1 DEF AckPart, Disk
  <2> QED  BY <1>1, <2>1, <2>2 DEF WriteOutbox, WriteTable, Disk
<1>6. CASE WritePartFailure \/ WriteMark
  BY <1>1, <1>6 DEF WritePartFailure, WriteMark, WriteOutbox, Disk
<1>7. CASE WriteRebuiltTable
  BY <1>7 DEF WriteRebuiltTable, Writing, MadeInv, NoRebuild
<1>8. CASE ScheduledMaintenance
  <2> DEFINE kept == {p \in disk.dirty : p[2] \in disk.made}
             oldKeys == {j \in disk.made \cap disk.sent :
                           /\ \A v \in Views : <<v, j>> \notin kept
                           /\ age[DayOf(j)] >= RetentionAge(j)}
  <2>1. disk' = Routine(disk)
    BY <1>8 DEF ScheduledMaintenance
  <2>2. disk'.made = disk.made \ oldKeys
    BY <1>1, <2>1, RoutineFields
  <2>3. k \notin oldKeys
    BY DEF RetentionAge
  <2> HIDE DEF oldKeys
  <2> QED  BY <2>2, <2>3
<1> QED
  BY <1>1, <1>2, <1>3, <1>4, <1>5, <1>6, <1>7, <1>8, DiskChanges

\* The aggregates of the current day are never pruned, whatever retention,
\* crashes, refusals, replays and overlapping syncs do.
THEOREM TodaysAggregatesStay ==
    ASSUME Budget["press"] = 0, Budget["repair"] = 0
    PROVE  Spec => TodayKept
<1>1. Init => MadeInv
  BY IdleValues DEF Init, MadeInv, NoRebuild, ReadIsCurrent, NoRepair
<1>2. TypeOK /\ MadeInv /\ [Next]_vars => MadeInv'
  BY NextMade
<1>3. TypeOK /\ MadeInv /\ [Next]_vars
        => [\A k \in disk.made : age[DayOf(k)] = 0 => k \in disk'.made]_vars
  BY TodayStays
<1> QED  BY <1>1, <1>2, <1>3, TypeCorrect, PTL DEF Spec, TodayKept
=============================================================================
