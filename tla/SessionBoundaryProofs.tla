------------------------ MODULE SessionBoundaryProofs ------------------------
EXTENDS SessionProofs

(***************************************************************************)
(* Proofs about mode boundaries: an intent that was consumed has split the *)
(* session, and the segment it closed has the mode of the time before.     *)
(*                                                                         *)
(* Two arguments meet here. One follows the two copies of the session:     *)
(* what is read never reaches back across a boundary that was dealt with,  *)
(* because a mirror that does is older than the durable copy (CopiesSplit, *)
(* CommitSplit). The other follows the history of the mode: between two    *)
(* boundaries it is the one the later change came from, when that change   *)
(* overlapped no other (ModesFollow); and a change that is saved late can  *)
(* rewrite the history only behind such a boundary (Ahead).                *)
(***************************************************************************)

\* The boundaries that are dealt with: consumed, or applied by the running drain.
Applied == split \cup drain.done

\* The session does not reach back across the boundary, an estimate excepted.
SplitAt(s, b) == s.state = "active" => IF s.guess THEN b <= s.beat ELSE b <= s.start
SplitBy(s, B) == \A b \in B : SplitAt(s, b)

\* A session is sampled no later than t, and not before its estimated start.
Sampled(s, t) == /\ s.beat <= t
                 /\ s.state = "none" => s.start = 0
                 /\ s.guess => s.start <= s.beat
Beats ==
    /\ Sampled(disk, clock) /\ Sampled(mirror, clock)
    /\ commit # NoCommit => \A i \in DOMAIN commit.saves : Sampled(commit.saves[i], clock)
    /\ \A b \in split : b <= clock

\* The mirror has no session, or one that must not be read any more; then the
\* durable copy is the same, or newer.
Behind == mirror.state = "none" \/ ~SplitBy(mirror, Applied)
Newer(s) == /\ Freshness(mirror) < s.beat
            /\ s.state = "active" /\ ~s.guess => Freshness(mirror) < s.start
CopiesSplit ==
    /\ SplitBy(disk, Applied)
    /\ Behind => disk = mirror \/ Newer(disk)
CommitSplit ==
    commit # NoCommit =>
        /\ \A i \in DOMAIN commit.saves : SplitBy(commit.saves[i], Applied)
        /\ commit.stage = "settle" => SplitBy(commit.of, Applied)
        /\ commit.stage = "mirror" => disk = commit.saves[1]
        /\ commit.stage # "mirror" /\ Behind => Newer(commit.saves[1])

\* The drain's commit is about the first boundary that is not dealt with.
BoundaryCommit ==
    commit # NoCommit /\ commit.by # Nothing =>
        /\ Len(commit.saves) = 1 /\ SplitAt(commit.saves[1], commit.by)
        /\ commit.stage = "settle" =>
              /\ commit.end = commit.by
              /\ \E b \in intents : b.at = commit.by /\ b.from = commit.as /\ Foremost(b)
SplitInv ==
    /\ Beats /\ BoundaryCommit
    /\ NoFault("mirror") => CopiesSplit /\ CommitSplit

\* The boundaries that were ever queued. After the last of them, and after every
\* change that was saved, the mode is the present one.
Bounds == split \cup {b.at : b \in intents}
After(t) == \A x \in Bounds : x <= t
CurrentMode ==
    \A t \in Instants :
        After(t) /\ (\A c \in changes : c.stage # "save" => c.at <= t) => modeAt[t] = mode

\* A change that overlaps no other runs alone, and came from the mode since the
\* last boundary. So did a boundary that waits, from that since the one before it.
ChangeMode ==
    \A c \in changes : c.at \notin contested =>
        /\ \A d \in changes : d = c
        /\ \A x \in Bounds : x < c.at
        /\ \A t \in Instants : After(t) /\ t < c.at => modeAt[t] = c.from
Before(t, b) == /\ t < b.at /\ \A x \in split : x <= t
                /\ \A w \in intents : w.at < b.at => w.at <= t
IntentMode ==
    \A b \in intents : b.at \notin contested =>
        \A t \in Instants : Before(t, b) => modeAt[t] = b.from

\* A change takes effect after every boundary that it does not overlap.
Ahead == \A x \in Bounds \ contested : \A c \in changes : x < c.at
ModesFollow == CurrentMode /\ ChangeMode /\ IntentMode /\ Ahead

\* A segment that a boundary closes ends no later than it.
SegmentsEnd == \A g \in ledger : g.by # Nothing => g.by \in Bounds /\ g.end <= g.by

\* No fault but a rejected write has happened.
Straight == Happened = faults["reject"]
BoundaryInv ==
    /\ SessionInv /\ SplitInv
    /\ Straight => ModesFollow
    /\ SegmentsEnd /\ BoundaryKeepsOldMode

(***************************************************************************)
(* Facts used throughout.                                                  *)
(***************************************************************************)
\* Which faults a step may add.
LEMMA FaultsKeep ==
    ASSUME Types, faults' = faults \/ Fail("reject") \/ Fail("mirror") \/ Fail("stop")
                  \/ Fail("restart")
    PROVE  /\ NoFault("mirror")' => NoFault("mirror")
           /\ Straight' => Straight /\ (faults' = faults \/ Fail("reject"))
           /\ Straight => NoFault("mirror")
           /\ Fail("mirror") => ~NoFault("mirror")'
<1> DEFINE n == faults["reject"]  p == faults["mirror"]  q == faults["stop"]  r == faults["restart"]
<1>1. n \in Nat /\ p \in Nat /\ q \in Nat /\ r \in Nat /\ Happened = n + p + q + r
  BY DEF Types, Faults, Happened
<1>2. Straight <=> n + p + q + r = n
  BY <1>1 DEF Straight
<1>3. Straight => NoFault("mirror")
  <2>1. NoFault("mirror") <=> p = 0
    BY DEF NoFault
  <2> HIDE DEF n, p, q, r
  <2> QED  BY <1>1, <1>2, <2>1
<1>4. CASE faults' = faults
  <2>1. ~Fail("mirror")
    <3>1. Fail("mirror") => faults'["mirror"] = faults["mirror"] + 1
      BY DEF Fail, Types, Faults
    <3> QED  BY <1>1, <1>4, <3>1
  <2> QED  BY <1>3, <1>4, <2>1 DEF NoFault, Straight, Happened
<1>5. ASSUME NEW f \in Faults, Fail(f)
      PROVE  /\ NoFault("mirror")' => NoFault("mirror")
             /\ Straight' => Straight /\ f = "reject"
             /\ f = "mirror" => ~NoFault("mirror")'
  <2>1. faults' = [faults EXCEPT ![f] = @ + 1]
    BY <1>5 DEF Fail
  <2> DEFINE v == faults'["reject"]  w == faults'["mirror"]
             x == faults'["stop"]    y == faults'["restart"]
  <2>2. /\ v = IF f = "reject" THEN n + 1 ELSE n
        /\ w = IF f = "mirror" THEN p + 1 ELSE p
        /\ x = IF f = "stop" THEN q + 1 ELSE q
        /\ y = IF f = "restart" THEN r + 1 ELSE r
    BY <2>1 DEF Types, Faults
  <2>3. Straight' <=> v + w + x + y = v
    BY DEF Straight, Happened
  <2>4. (NoFault("mirror")' <=> w = 0) /\ (NoFault("mirror") <=> p = 0)
    BY DEF NoFault
  <2>5. f \in {"reject", "mirror", "stop", "restart"}
    BY DEF Faults
  <2> HIDE DEF n, p, q, r, v, w, x, y
  <2>6. /\ w = 0 => p = 0
        /\ v + w + x + y = v => n + p + q + r = n /\ f = "reject"
        /\ f = "mirror" => w # 0
    BY <1>1, <2>2, <2>5
  <2> QED  BY <1>2, <2>3, <2>4, <2>6
<1>6. "reject" \in Faults /\ "mirror" \in Faults /\ "stop" \in Faults /\ "restart" \in Faults
  BY DEF Faults
<1>7. Fail("mirror") => ~NoFault("mirror")'
  BY <1>5, <1>6
<1>8. CASE faults' # faults
  <2>1. PICK f \in Faults : Fail(f)
    BY <1>6, <1>8
  <2>2. CASE f = "reject"
    BY <1>3, <1>5, <1>7, <2>1, <2>2
  <2>3. CASE f # "reject"
    BY <1>3, <1>5, <1>7, <2>1, <2>3
  <2> QED  BY <2>2, <2>3
<1> QED  BY <1>4, <1>8

\* The boundaries that are dealt with lie in the past.
LEMMA AppliedPast ==
    ASSUME SessionInv, Beats
    PROVE  /\ \A b \in Applied : b \in Nat /\ b <= clock
           /\ clock \in Nat
<1>1. /\ clock \in Nat /\ drain.done \subseteq {b.at : b \in intents}
      /\ \A b \in intents : b.at \in Nat /\ b.at <= clock
  BY IntentParts DEF SessionInv
<1>2. \A b \in split : b \in Nat /\ b <= clock
  BY Clocks DEF Beats, SessionInv, Types
<1> QED  BY <1>1, <1>2 DEF Applied

\* The two copies, and how fresh the mirror is.
LEMMA CopyParts ==
    ASSUME SessionInv, Beats
    PROVE  /\ disk \in TimedSession /\ disk.start \in Nat /\ disk.beat \in Nat
           /\ disk.start <= clock /\ disk.beat <= clock
           /\ mirror.start \in Nat /\ mirror.beat \in Nat
           /\ Freshness(mirror) \in Nat /\ Freshness(mirror) <= clock
           /\ Freshness(disk) \in Nat /\ Freshness(disk) >= disk.beat
           /\ NoMirror.state = "lost" /\ Freshness(NoMirror) = 0
<1>1. clock \in Nat
  BY Clocks DEF SessionInv, Types
<1>2. /\ disk \in TimedSession /\ disk.start \in Nat /\ disk.beat \in Nat
      /\ disk.start <= clock /\ disk.beat <= clock
  BY SessionParts DEF SessionInv, Types, Elapsed, Beats, Sampled
<1>3. /\ mirror.start \in Nat /\ mirror.beat \in Nat /\ mirror.start <= clock
      /\ mirror.beat <= clock
  <2>1. CASE mirror = NoMirror
    BY <1>1, <2>1 DEF NoMirror
  <2>2. CASE mirror # NoMirror
    BY <2>2, SessionParts DEF SessionInv, Types, Elapsed, Beats, Sampled
  <2> QED  BY <2>1, <2>2
<1> QED  BY <1>1, <1>2, <1>3 DEF Freshness, Greater, NoMirror

\* What is read has been split by every boundary that is dealt with; when the
\* mirror is behind, it is the durable copy.
LEMMA ReadSplits ==
    ASSUME SessionInv, Beats, CopiesSplit
    PROVE  /\ SplitBy(Read, Applied)
           /\ Behind => Read = disk
           /\ Behind /\ Read.state # "none" => Newer(Read)
<1>1. /\ disk.beat \in Nat /\ Freshness(mirror) \in Nat /\ Freshness(disk) \in Nat
      /\ Freshness(disk) >= disk.beat
  BY CopyParts
<1>2. Read = disk \/ (Read = mirror /\ ~(Freshness(disk) > Freshness(mirror)))
  BY DEF Read
<1>3. Newer(disk) => Freshness(disk) > Freshness(mirror)
  BY <1>1 DEF Newer
<1>4. Behind => Read = disk
  BY <1>2, <1>3 DEF CopiesSplit
<1>5. SplitBy(Read, Applied)
  BY <1>2, <1>4 DEF CopiesSplit, Behind
<1>6. Behind /\ Read.state # "none" => Newer(Read)
  BY <1>4, <1>5 DEF CopiesSplit, Behind
<1> QED  BY <1>4, <1>5, <1>6

(***************************************************************************)
(* The copies of the session: steps that leave them alone.                 *)
(***************************************************************************)
\* What is split by more boundaries is split by fewer.
LEMMA SplitByFewer ==
    ASSUME NEW s, NEW A, NEW B, B \subseteq A, SplitBy(s, A)
    PROVE  SplitBy(s, B)
BY DEF SplitBy

LEMMA QuietSplit ==
    ASSUME SessionInv, SplitInv, disk' = disk,
           mirror' = mirror \/ (mirror' = NoMirror /\ commit' = NoCommit),
           commit' = commit \/ commit' = NoCommit,
           clock' \in Nat, clock <= clock', Applied' \subseteq Applied, \A b \in split' : b <= clock',
           NoFault("mirror")' => NoFault("mirror"),
           commit' # NoCommit /\ commit.by # Nothing => intents' = intents /\ drain' = drain
    PROVE  SplitInv'
<1>1. clock \in Nat /\ disk.beat \in Nat /\ mirror.beat \in Nat
  BY AppliedPast, CopyParts DEF SplitInv
<1>2. commit # NoCommit => \A i \in DOMAIN commit.saves : commit.saves[i].beat \in Nat
  BY InCommitParts, ElementOfSeq, LenProperties, SessionParts
<1>3. Sampled(disk, clock)' /\ Sampled(mirror, clock)'
  BY <1>1 DEF SplitInv, Beats, Sampled, NoMirror
<1>4. commit' # NoCommit =>
        \A i \in DOMAIN commit'.saves : Sampled(commit'.saves[i], clock')
  BY <1>1, <1>2 DEF SplitInv, Beats, Sampled
<1>5. Beats'
  BY <1>3, <1>4 DEF Beats
<1>6. BoundaryCommit'
  BY DEF SplitInv, BoundaryCommit, SplitAt, Foremost, Waiting
<1>7. ASSUME NoFault("mirror")' PROVE CopiesSplit' /\ CommitSplit'
  <2>1. CopiesSplit /\ CommitSplit
    BY <1>7 DEF SplitInv
  <2>2. \A s : SplitBy(s, Applied) => SplitBy(s, Applied')
    BY SplitByFewer
  <2>3. CASE mirror' = mirror
    <3>1. Behind' => Behind
      BY <2>2, <2>3 DEF Behind, SplitBy, SplitAt
    <3>2. \A s : Newer(s) => (Freshness(mirror') < s.beat
                              /\ (s.state = "active" /\ ~s.guess => Freshness(mirror') < s.start))
      BY <2>3 DEF Newer
    <3>3. CopiesSplit'
      BY <2>1, <2>2, <2>3, <3>1, <3>2 DEF CopiesSplit, Newer, SplitBy, SplitAt
    <3>4. CommitSplit'
      BY <2>1, <2>2, <2>3, <3>1, <3>2 DEF CommitSplit, Newer, SplitBy, SplitAt
    <3> QED  BY <3>3, <3>4
  <2>4. CASE mirror' = NoMirror /\ commit' = NoCommit
    <3>1. ~Behind'
      BY <2>4 DEF Behind, NoMirror, SplitBy, SplitAt
    <3> QED  BY <2>1, <2>2, <2>4, <3>1 DEF CopiesSplit, CommitSplit, SplitBy, SplitAt
  <2> QED  BY <2>3, <2>4
<1> QED  BY <1>5, <1>6, <1>7 DEF SplitInv

(***************************************************************************)
(* The copies of the session: a commit begins.                             *)
(***************************************************************************)
\* A commit begins: what it saves has been split and is newer than a mirror
\* that is behind.
LEMMA RunSplits ==
    ASSUME SessionInv, SplitInv, commit = NoCommit, clock' \in Nat, clock <= clock',
           UNCHANGED <<disk, mirror, intents, split, drain, faults>>,
           commit' \in CommitType, commit'.stage \in {"settle", "route", "save"},
           commit'.of = Read,
           \A i \in DOMAIN commit'.saves :
              /\ Sampled(commit'.saves[i], clock')
              /\ NoFault("mirror") => SplitBy(commit'.saves[i], Applied),
           NoFault("mirror") /\ Behind /\ Read.state # "none" => Newer(commit'.saves[1]),
           Read.state = "none" => Newer(commit'.saves[1]),
           commit'.by # Nothing =>
              /\ Len(commit'.saves) = 1 /\ SplitAt(commit'.saves[1], commit'.by)
              /\ commit'.stage = "settle" =>
                    /\ commit'.end = commit'.by
                    /\ \E b \in intents : b.at = commit'.by /\ b.from = commit'.as /\ Foremost(b)
    PROVE  SplitInv'
<1>1. clock \in Nat /\ disk.beat \in Nat /\ mirror.beat \in Nat
  BY AppliedPast, CopyParts DEF SplitInv
<1>2. \A b \in split : b \in Nat
  BY Clocks DEF SessionInv, Types
<1>3. Beats'
  BY <1>1, <1>2 DEF SplitInv, Beats, Sampled
<1>4. BoundaryCommit'
  BY DEF BoundaryCommit, SplitAt, Foremost, Waiting
<1>5. ASSUME NoFault("mirror")' PROVE CopiesSplit' /\ CommitSplit'
  <2>1. NoFault("mirror") /\ CopiesSplit
    BY <1>5 DEF NoFault, SplitInv
  <2>2. SplitBy(Read, Applied)
    BY <2>1, ReadSplits DEF SplitInv
  <2>3. Applied' = Applied
    BY DEF Applied
  <2>4. Behind' = Behind
    BY <2>3 DEF Behind, SplitBy, SplitAt
  <2>5. CopiesSplit'
    BY <2>1, <2>3, <2>4 DEF CopiesSplit, Newer, SplitBy, SplitAt, Freshness
  <2>6. Behind => Newer(commit'.saves[1])
    BY <2>1
  <2>7. CommitSplit'
    BY <2>1, <2>2, <2>3, <2>4, <2>6 DEF CommitSplit, Newer, SplitBy, SplitAt, Freshness
  <2> QED  BY <2>5, <2>7
<1> QED  BY <1>3, <1>4, <1>5 DEF SplitInv

\* A session that is opened now is split by every boundary that is dealt with,
\* and newer than the mirror.
LEMMA FreshSplits ==
    ASSUME SessionInv, Beats, NEW t \in Nat, clock < t, NEW x \in TimedSession, x.beat = t, x.start <= t,
           x.state = "active" /\ ~x.guess => x.start = t, x.state = "none" => x.start = 0
    PROVE  Sampled(x, t) /\ SplitBy(x, Applied) /\ Newer(x)
<1>1. \A b \in Applied : b \in Nat /\ b <= clock
  BY AppliedPast
<1>2. clock \in Nat /\ Freshness(mirror) \in Nat /\ Freshness(mirror) <= clock
  BY AppliedPast, CopyParts
<1>3. SplitBy(x, Applied)
  BY <1>1, <1>2 DEF SplitBy, SplitAt
<1>4. Newer(x)
  BY <1>2 DEF Newer
<1> QED  BY <1>3, <1>4 DEF Sampled

\* An event, a timer or the start, which saves a session that is opened now.
LEMMA OperateSplits ==
    ASSUME SessionInv, SplitInv, Operation, NEW t \in Later, clock' = t,
           NEW x \in TimedSession, x.beat = t, x.start <= t,
           x.state = "active" /\ ~x.guess => x.start = t, x.state = "none" => x.start = 0,
           NEW end \in Instants, NEW as \in Modes \cup {Unknown},
           NEW cache \in {"kept", "stored"} \cup Modes,
           Run(Nothing, Read, end, as, <<x>>, cache)
    PROVE  SplitInv'
<1> DEFINE saves == <<x>>
<1>1. saves \in Seq(TimedSession) /\ saves[1] = x /\ DOMAIN saves = {1}
  BY OneSave
<1>2. Run(Nothing, Read, end, as, saves, cache)
  OBVIOUS
<1> HIDE DEF saves
<1>3. Read \in TimedSession /\ t \in Nat /\ clock \in Nat /\ clock < t
  BY LaterParts
<1>4. /\ commit' \in CommitType
      /\ commit'.stage \in {"settle", "route", "save"}
      /\ commit'.by = Nothing /\ commit'.of = Read /\ commit'.saves = saves
  BY <1>1, <1>2, <1>3, NothingIsAnInstant, RunRecord DEF SessionInv
<1>5. Sampled(x, t) /\ SplitBy(x, Applied) /\ Newer(x)
  BY <1>3, FreshSplits DEF SplitInv
<1>6. commit = NoCommit /\ UNCHANGED <<disk, mirror, intents, split, drain, faults>>
  BY DEF Operation, sessions, queue
<1> QED  BY <1>1, <1>3, <1>4, <1>5, <1>6, RunSplits

LEMMA EventSplits ==
    ASSUME SessionInv, SplitInv,
           \/ \E to \in {"active", "idle"} : Transition(to)
           \/ Close \/ CheckpointOpens \/ PopupFlush
           \/ \E next \in {"active", "none"} : CheckpointDoubts(next)
    PROVE  SplitInv'
<1>1. ASSUME NEW t \in Later, NEW s \in {"active", "idle"}
      PROVE  LET x == Opened(s, t, t) IN
             /\ x \in TimedSession /\ x.beat = t /\ x.start <= t
             /\ x.state = "active" /\ ~x.guess => x.start = t
             /\ x.state = "none" => x.start = 0
  BY OpenedParts DEF Opened
<1>2. ASSUME NEW t \in Later
      PROVE  LET x == Empty(t) IN
             /\ x \in TimedSession /\ x.beat = t /\ x.start <= t
             /\ x.state = "active" /\ ~x.guess => x.start = t
             /\ x.state = "none" => x.start = 0
  BY LaterParts, EmptyParts DEF Empty
<1>3. ASSUME NEW t \in Later
      PROVE  LET x == Guessed(t) IN
             /\ x \in TimedSession /\ x.beat = t /\ x.start <= t
             /\ x.state = "active" /\ ~x.guess => x.start = t
             /\ x.state = "none" => x.start = 0
  BY GuessedParts DEF Guessed
<1>4. ASSUME NEW to \in {"active", "idle"}, Transition(to) PROVE SplitInv'
  <2>1. PICK t \in Later : /\ clock' = t
                           /\ Run(Nothing, Read, BoundedClose(Read, t), Unknown,
                                  <<Opened(to, t, t)>>, "stored")
    BY <1>4 DEF Transition
  <2> QED  BY <1>1, <1>4, <2>1, OperateSplits, CloseParts DEF Transition
<1>5. CASE Close
  <2>1. PICK t \in Later : /\ clock' = t
                           /\ Run(Nothing, Read, BoundedClose(Read, t), Unknown, <<Empty(t)>>, "kept")
    BY <1>5 DEF Close
  <2> QED  BY <1>2, <1>5, <2>1, OperateSplits, CloseParts DEF Close
<1>6. CASE CheckpointOpens
  <2>1. PICK t \in Later : /\ clock' = t
                           /\ Run(Nothing, Read, Nothing, Unknown, <<Guessed(t)>>, "stored")
    BY <1>6 DEF CheckpointOpens
  <2> QED  BY <1>3, <1>6, <2>1, OperateSplits, CloseParts DEF CheckpointOpens
<1>7. CASE PopupFlush
  <2>1. PICK t \in Later : /\ clock' = t
                           /\ Run(Nothing, Read, ReliableClose(Read, t), Unknown,
                                  <<Opened("active", t, t)>>, "kept")
    BY <1>7 DEF PopupFlush
  <2>2. ReliableClose(Read, t) \in Instants
    BY LaterParts, SessionParts, TimesAreCounts DEF ReliableClose, Greater
  <2> QED  BY <1>1, <1>7, <2>1, <2>2, OperateSplits DEF PopupFlush
<1>8. ASSUME NEW next \in {"active", "none"}, CheckpointDoubts(next) PROVE SplitInv'
  <2>1. PICK t \in Later :
            /\ clock' = t /\ IsDue(Read, t)
            /\ Run(Nothing, Read, Read.start + Lesser(t - Read.start, Repair), Unknown,
                   <<IF next = "active" THEN Guessed(t) ELSE Empty(t)>>,
                   IF next = "active" THEN "stored" ELSE "kept")
    BY <1>8 DEF CheckpointDoubts
  <2> DEFINE end == Read.start + Lesser(t - Read.start, Repair)
             x == IF next = "active" THEN Guessed(t) ELSE Empty(t)
             cache == IF next = "active" THEN "stored" ELSE "kept"
  <2>2. t \in Instants /\ t \in Nat /\ Read.start \in Nat /\ Read.start < t
    BY LaterParts
  <2>3. end \in Nat /\ end <= t
    BY <2>2, Clocks DEF Lesser
  <2>4. end \in Instants
    BY <2>2, <2>3, TimesAreCounts DEF Instants
  <2>5. /\ x \in TimedSession /\ x.beat = t /\ x.start <= t
        /\ x.state = "active" /\ ~x.guess => x.start = t
        /\ x.state = "none" => x.start = 0
    BY <1>2, <1>3
  <2>6. cache \in {"kept", "stored"}
    OBVIOUS
  <2>7. Run(Nothing, Read, end, Unknown, <<x>>, cache)
    BY <2>1
  <2> HIDE DEF end, x, cache
  <2> QED  BY <1>8, <2>1, <2>4, <2>5, <2>6, <2>7, OperateSplits DEF CheckpointDoubts
<1> QED  BY <1>4, <1>5, <1>6, <1>7, <1>8

\* recover() leaves nothing open.
LEMMA RecoverSplits ==
    ASSUME SessionInv, SplitInv, Recover
    PROVE  SplitInv'
<1>1. PICK t \in Later :
          /\ clock' = t
          /\ IF Read.state = "none" THEN UNCHANGED commit
             ELSE Run(Nothing, Read,
                      IF Read.state = "active" THEN Lesser(t, Read.start + Repair)
                      ELSE Nothing,
                      mode, <<Empty(t)>>, "kept")
  BY DEF Recover
<1>2. Operation /\ commit = NoCommit /\ disk' = disk /\ mirror' = mirror
      /\ UNCHANGED <<intents, split, drain, faults>>
  BY DEF Recover, Operation, sessions, queue
<1>3. t \in Instants /\ t \in Nat /\ Read.start \in Nat /\ Read.start < t /\ clock < t /\ clock \in Nat
  BY LaterParts
<1>4. CASE Read.state = "none"
  <2>1. Applied' = Applied
    BY <1>2 DEF Applied
  <2>2. \A b \in split' : b <= clock'
    <3>1. \A b \in split : b \in Nat /\ b <= clock
      BY Clocks DEF SessionInv, Types, SplitInv, Beats
    <3> QED  BY <1>1, <1>2, <1>3, <3>1
  <2>3. NoFault("mirror")' => NoFault("mirror")
    BY <1>2 DEF NoFault
  <2> QED  BY <1>1, <1>2, <1>3, <1>4, <2>1, <2>2, <2>3, QuietSplit
<1>5. CASE Read.state # "none"
  <2> DEFINE end == IF Read.state = "active" THEN Lesser(t, Read.start + Repair) ELSE Nothing
  <2>1. end \in Nat /\ end <= t
    BY <1>3, Clocks DEF Lesser, Nothing
  <2>2. end \in Instants
    BY <1>3, <2>1, TimesAreCounts DEF Instants
  <2>3. Run(Nothing, Read, end, mode, <<Empty(t)>>, "kept")
    BY <1>1, <1>5
  <2> HIDE DEF end
  <2>4. /\ Empty(t) \in TimedSession /\ Empty(t).start = 0 /\ Empty(t).beat = t
        /\ Empty(t).state = "none" /\ Empty(t).start <= t
    BY <1>3, EmptyParts DEF Empty
  <2>5. mode \in Modes \cup {Unknown}
    BY DEF SessionInv, Types
  <2> QED  BY <1>1, <1>2, <2>2, <2>3, <2>4, <2>5, OperateSplits
<1> QED  BY <1>4, <1>5

\* The session after a confirmed interval starts after what it went on from.
LEMMA ConfirmSplits ==
    ASSUME SessionInv, SplitInv, CheckpointConfirms
    PROVE  SplitInv'
<1> DEFINE end == Read.start + Checkpoint
<1>1. PICK t \in Later : /\ clock' = t /\ IsDue(Read, t)
                         /\ Run(Nothing, Read, end, Unknown,
                                <<Opened("active", end, end), Opened("active", end, t)>>, "kept")
  BY DEF CheckpointConfirms
<1>2. /\ Operation /\ commit = NoCommit /\ Read.state = "active"
      /\ UNCHANGED <<disk, mirror, intents, split, drain, faults>>
  BY <1>1 DEF CheckpointConfirms, IsDue, Operation, sessions, queue
<1>3. /\ t \in Instants /\ t \in Nat /\ Read \in TimedSession /\ Read.start \in Nat
      /\ Read.beat \in Nat /\ Read.guess \in BOOLEAN /\ clock \in Nat /\ clock < t
      /\ Read.guess => Read.beat <= Read.start + Repair
  BY LaterParts, SessionParts
<1>4. end \in Nat /\ end <= t
  BY <1>1, <1>3, Clocks DEF IsDue
<1>5. end \in Instants
  BY <1>3, <1>4, TimesAreCounts DEF Instants
<1>6. Read.start < end /\ (Read.guess => Read.beat < end)
  <2>1. Read.start + Repair < end
    BY <1>3, Clocks, RepairIsShorter
  <2> QED  BY <1>3, <1>4, <2>1, Clocks
<1> HIDE DEF end
<1> DEFINE x == Opened("active", end, end)
           y == Opened("active", end, t)
           saves == <<x, y>>
<1>7. /\ x \in TimedSession /\ y \in TimedSession /\ x.start = end /\ y.start = end
      /\ x.state = "active" /\ y.state = "active" /\ ~x.guess /\ ~y.guess
      /\ x.beat = end /\ y.beat = t
  BY <1>3, <1>5 DEF Opened, TimedSession, Session
<1> HIDE DEF x, y
<1>8. NoFault("mirror") => SplitBy(Read, Applied) /\ (Behind => Newer(Read))
  BY <1>2, ReadSplits DEF SplitInv
<1>9. NoFault("mirror") => SplitBy(x, Applied) /\ SplitBy(y, Applied)
  <2>1. \A b \in Applied : b \in Nat
    BY AppliedPast DEF SplitInv
  <2> QED  BY <1>2, <1>3, <1>4, <1>6, <1>7, <1>8, <2>1 DEF SplitBy, SplitAt
<1>10. NoFault("mirror") /\ Behind => Newer(x)
  <2>1. Freshness(mirror) \in Nat
    BY CopyParts DEF SplitInv
  <2>2. Newer(Read) => Freshness(mirror) < end
    BY <1>2, <1>3, <1>4, <1>6, <2>1 DEF Newer
  <2> QED  BY <1>7, <1>8, <2>2 DEF Newer
<1>11. /\ saves \in Seq(TimedSession) /\ DOMAIN saves = {1, 2} /\ saves[1] = x /\ saves[2] = y
  BY <1>7
<1>12. Run(Nothing, Read, end, Unknown, saves, "kept")
  BY <1>1 DEF x, y
<1> HIDE DEF saves
<1>13. /\ commit' \in CommitType
       /\ commit'.stage \in {"settle", "route", "save"}
       /\ commit'.by = Nothing /\ commit'.of = Read /\ commit'.saves = saves
  BY <1>3, <1>5, <1>11, <1>12, NothingIsAnInstant, RunRecord DEF SessionInv
<1>14. Sampled(x, t) /\ Sampled(y, t)
  BY <1>3, <1>4, <1>7 DEF Sampled
<1>15. \A i \in DOMAIN commit'.saves : /\ Sampled(commit'.saves[i], clock')
                                       /\ NoFault("mirror") => SplitBy(commit'.saves[i], Applied)
  BY <1>1, <1>9, <1>11, <1>13, <1>14
<1>16. clock' \in Nat /\ clock <= clock' /\ commit'.by = Nothing /\ Read.state # "none"
  BY <1>1, <1>2, <1>3, <1>13
<1> QED  BY <1>2, <1>10, <1>11, <1>13, <1>15, <1>16, RunSplits

(***************************************************************************)
(* The copies of the session: the drain's boundaries.                      *)
(***************************************************************************)
\* The session that goes on from a boundary is split by it, and is as new.
LEMMA ReopenedSplits ==
    ASSUME SessionInv, Beats, NEW s \in TimedSession, s.beat <= clock, s.state # "none",
           NEW b \in IntentType, b.at > s.start, b.at <= clock
    PROVE  /\ Sampled(Reopened(s, b), clock) /\ SplitAt(Reopened(s, b), b.at)
           /\ SplitBy(s, Applied) => SplitBy(Reopened(s, b), Applied)
           /\ Newer(s) => Newer(Reopened(s, b))
<1>1. /\ s \in Session /\ s.start \in Nat /\ s.beat \in Nat /\ s.guess \in BOOLEAN
      /\ b.at \in Nat /\ clock \in Nat
  BY SessionParts, Clocks DEF IntentType, SessionInv, Types
<1> DEFINE r == Reopened(s, b)
           t == Greater(s.beat, b.at)
<1>2. t \in Nat /\ t >= s.beat /\ t >= b.at /\ t <= clock
  BY <1>1 DEF Greater
<1>3. /\ r.state = s.state /\ r.start = b.at /\ r.beat = t
      /\ r.guess = (s.guess /\ b.at < s.beat)
  BY <1>1 DEF Reopened, Session
<1> HIDE DEF r, t
<1>4. Sampled(r, clock) /\ SplitAt(r, b.at)
  BY <1>1, <1>2, <1>3 DEF Sampled, SplitAt
<1>5. SplitBy(s, Applied) => SplitBy(r, Applied)
  <2>1. \A a \in Applied : a \in Nat
    BY AppliedPast
  <2> QED  BY <1>1, <1>2, <1>3, <2>1 DEF SplitBy, SplitAt
<1>6. Newer(s) => Newer(r)
  <2>1. Freshness(mirror) \in Nat
    BY CopyParts
  <2> QED  BY <1>1, <1>2, <1>3, <2>1 DEF Newer
<1> QED  BY <1>4, <1>5, <1>6 DEF r

\* One more boundary is dealt with.
LEMMA AppliedGrows ==
    ASSUME SessionInv, NEW at, drain' = [drain EXCEPT !.done = @ \cup {at}], split' = split
    PROVE  Applied' = Applied \cup {at}
<1>1. drain \in DrainType
  BY DEF SessionInv, Types
<1>2. drain'.done = drain.done \cup {at}
  BY <1>1 DEF DrainType
<1> QED  BY <1>2 DEF Applied

LEMMA BoundarySplits ==
    ASSUME SessionInv, SplitInv, ApplyBoundary
    PROVE  SplitInv'
<1> DEFINE s == Read
<1>1. /\ commit = NoCommit
      /\ UNCHANGED clock /\ UNCHANGED disk /\ UNCHANGED mirror
      /\ UNCHANGED intents /\ UNCHANGED split /\ UNCHANGED faults
  BY DEF ApplyBoundary, sessions
<1>2. PICK b \in Waiting :
         /\ Foremost(b)
         /\ \/ /\ s.state = "none" /\ drain' = [drain EXCEPT !.done = @ \cup {b.at}]
               /\ UNCHANGED commit
            \/ /\ s.state # "none" /\ b.at <= s.start
               /\ Run(b.at, s, Nothing, Unknown, <<s>>, b.to)
               /\ UNCHANGED drain
            \/ /\ s.state # "none" /\ b.at > s.start
               /\ Run(b.at, s, IF s.state = "active" THEN b.at ELSE Nothing,
                      b.from, <<Reopened(s, b)>>, b.to)
               /\ UNCHANGED drain
  BY DEF ApplyBoundary
<1>3. /\ b \in intents /\ b \in IntentType /\ b.at \in Nat /\ b.at \in Instants /\ b.at <= clock
      /\ b.from \in Modes /\ b.to \in Modes /\ clock \in Nat
  BY IntentParts DEF SessionInv
<1>4. /\ s \in TimedSession /\ s.start \in Nat /\ s.beat \in Nat /\ s.beat <= clock
      /\ s.state = "none" => s.start = 0
      /\ s.guess => s.start <= s.beat
  <2>1. s = disk \/ s = mirror
    BY DEF Read
  <2>2. s \in TimedSession
    BY ReadIsDisk
  <2> QED  BY <2>1, <2>2, SessionParts DEF SplitInv, Beats, Sampled
<1>5. Beats
  BY DEF SplitInv
<1>6. NoFault("mirror") => SplitBy(s, Applied) /\ (Behind => s = disk)
                           /\ (Behind /\ s.state # "none" => Newer(s))
  BY ReadSplits DEF SplitInv
\* There is no session: the mode is cached, and the boundary is dealt with.
<1>7. CASE s.state = "none" /\ drain' = [drain EXCEPT !.done = @ \cup {b.at}] /\ UNCHANGED commit
  <2>1. Applied' = Applied \cup {b.at}
    BY <1>1, <1>7, AppliedGrows
  <2>2. Beats' /\ BoundaryCommit'
    BY <1>1, <1>5, <1>7 DEF Beats, Sampled, BoundaryCommit
  <2>3. ASSUME NoFault("mirror")' PROVE CopiesSplit' /\ CommitSplit'
    <3>1. NoFault("mirror") /\ CopiesSplit
      BY <1>1, <2>3 DEF NoFault, SplitInv
    <3>2. disk.state = "none" /\ (disk = mirror \/ Newer(disk) \/ ~Behind)
      <4>1. CASE Behind
        BY <1>6, <1>7, <3>1, <4>1 DEF CopiesSplit
      <4>2. CASE ~Behind
        BY <1>7, <4>2 DEF Behind, Read
      <4> QED  BY <4>1, <4>2
    <3>3. ~Behind => Newer(disk) \/ mirror.state # "active"
      <4>1. CASE mirror.state = "active" /\ ~Behind
        <5>1. s # mirror
          BY <1>7, <4>1
        <5>2. Freshness(disk) > Freshness(mirror)
          <6>1. mirror # NoMirror
            BY <4>1 DEF NoMirror
          <6> QED  BY <5>1, <6>1 DEF Read
        <5>3. disk.start = 0 /\ disk.beat \in Nat
          BY <1>5, <3>2, CopyParts DEF Beats, Sampled
        <5>4. Freshness(disk) = disk.beat
          BY <5>3 DEF Freshness, Greater
        <5> QED  BY <3>2, <5>2, <5>4 DEF Newer
      <4> QED  BY <4>1
    <3>4. Behind' => disk = mirror \/ Newer(disk)
      <4>1. ~Behind /\ mirror.state # "active" => ~Behind'
        BY <1>1 DEF Behind, SplitBy, SplitAt
      <4> QED  BY <3>2, <3>3, <4>1
    <3>5. CopiesSplit'
      BY <1>1, <3>2, <3>4 DEF CopiesSplit, SplitBy, SplitAt, Newer, Freshness
    <3> QED  BY <1>1, <1>7, <3>5 DEF CommitSplit
  <2> QED  BY <2>2, <2>3 DEF SplitInv
\* A commit of the drain's, which saves x.
<1>8. ASSUME NEW end \in Instants, NEW as \in Modes \cup {Unknown}, NEW x \in TimedSession,
             Run(b.at, s, end, as, <<x>>, b.to), UNCHANGED drain, s.state # "none",
             Sampled(x, clock), SplitAt(x, b.at),
             SplitBy(s, Applied) => SplitBy(x, Applied), Newer(s) => Newer(x),
             end > s.start => end = b.at /\ as = b.from
      PROVE  SplitInv'
  <2> DEFINE saves == <<x>>
  <2>1. saves \in Seq(TimedSession) /\ Len(saves) = 1 /\ saves[1] = x /\ DOMAIN saves = {1}
    BY OneSave
  <2>2. Run(b.at, s, end, as, saves, b.to)
    BY <1>8
  <2> HIDE DEF saves, s
  <2>3. /\ commit' \in CommitType
        /\ commit'.stage \in {"settle", "route", "save"}
        /\ commit'.stage = "settle" <=> s.start < end
        /\ commit'.of = s /\ commit'.end = end /\ commit'.as = as
        /\ commit'.saves = saves /\ commit'.by = b.at
    <3> DEFINE at == b.at
               to == b.to
    <3>1. /\ at \in Instants /\ to \in {"kept", "stored"} \cup Modes
          /\ Run(at, s, end, as, saves, to)
      BY <1>3, <2>2
    <3>2. Types /\ s \in TimedSession /\ saves \in Seq(TimedSession)
      BY <1>4, <2>1 DEF SessionInv
    <3> HIDE DEF at, to
    <3>3. /\ commit' \in CommitType
          /\ commit'.stage \in {"settle", "route", "save"}
          /\ commit'.stage = "settle" <=> s.start < end
          /\ commit'.of = s /\ commit'.end = end /\ commit'.as = as
          /\ commit'.saves = saves /\ commit'.by = at
      BY <1>8, <3>1, <3>2, RunRecord
    <3> QED  BY <3>3 DEF at
  <2>4. commit'.stage = "settle" => end > s.start
    BY <1>4, <2>3, Clocks
  <2>5. \A i \in DOMAIN commit'.saves :
           /\ Sampled(commit'.saves[i], clock')
           /\ NoFault("mirror") => SplitBy(commit'.saves[i], Applied)
    BY <1>1, <1>6, <1>8, <2>1, <2>3
  <2>6. NoFault("mirror") /\ Behind => Newer(commit'.saves[1])
    BY <1>6, <1>8, <2>1, <2>3
  <2>7. /\ Len(commit'.saves) = 1 /\ SplitAt(commit'.saves[1], commit'.by)
        /\ commit'.stage = "settle" =>
              /\ commit'.end = commit'.by
              /\ \E w \in intents : w.at = commit'.by /\ w.from = commit'.as /\ Foremost(w)
    BY <1>2, <1>3, <1>8, <2>1, <2>3, <2>4
  <2>8. clock' \in Nat /\ clock <= clock'
    BY <1>1, <1>3
  <2> QED  BY <1>1, <1>8, <2>3, <2>5, <2>6, <2>7, <2>8, RunSplits DEF s
<1>9. CASE /\ s.state # "none" /\ b.at <= s.start
            /\ Run(b.at, s, Nothing, Unknown, <<s>>, b.to)
            /\ UNCHANGED drain
  <2>1. Nothing \in Instants /\ ~(Nothing > s.start)
    BY <1>4, TimesAreCounts DEF Nothing, Instants
  <2>2. Sampled(s, clock)
    BY <1>4 DEF Sampled
  <2>3. SplitAt(s, b.at)
    BY <1>3, <1>4, <1>9 DEF SplitAt
  <2> HIDE DEF s
  <2> QED  BY <1>4, <1>8, <1>9, <2>1, <2>2, <2>3
<1>10. CASE /\ s.state # "none" /\ b.at > s.start
            /\ Run(b.at, s, IF s.state = "active" THEN b.at ELSE Nothing,
                   b.from, <<Reopened(s, b)>>, b.to)
            /\ UNCHANGED drain
  <2> DEFINE end == IF s.state = "active" THEN b.at ELSE Nothing
             x == Reopened(s, b)
  <2>1. /\ x \in TimedSession /\ Sampled(x, clock) /\ SplitAt(x, b.at)
        /\ SplitBy(s, Applied) => SplitBy(x, Applied)
        /\ Newer(s) => Newer(x)
    BY <1>3, <1>4, <1>5, <1>10, ReopenedSplits, ReopenedParts
  <2>2. end \in Instants /\ (end > s.start => end = b.at)
    BY <1>3, <1>4, TimesAreCounts DEF Nothing, Instants
  <2>3. Run(b.at, s, end, b.from, <<x>>, b.to) /\ UNCHANGED drain
    BY <1>10
  <2> HIDE DEF end, x, s
  <2> QED  BY <1>3, <1>8, <1>10, <2>1, <2>2, <2>3
<1> QED  BY <1>2, <1>7, <1>9, <1>10

(***************************************************************************)
(* The copies of the session: the steps of a commit.                       *)
(***************************************************************************)
\* The commit goes on with the same sessions.
LEMMA StageSplits ==
    ASSUME SessionInv, SplitInv, commit # NoCommit, commit.stage # "mirror",
           NEW stage \in {"route", "wait", "save"}, commit' = [commit EXCEPT !.stage = stage],
           clock' \in Nat, clock <= clock', UNCHANGED <<disk, mirror, intents, split, drain, faults>>
    PROVE  SplitInv'
<1>1. /\ commit' \in CommitType /\ commit' # NoCommit /\ commit'.stage = stage
      /\ commit'.by = commit.by /\ commit'.of = commit.of /\ commit'.end = commit.end
      /\ commit'.saves = commit.saves /\ commit'.as = commit.as
  BY InCommitParts, StageType
<1>2. clock \in Nat /\ disk.beat \in Nat /\ mirror.beat \in Nat /\ \A b \in split : b \in Nat
  BY AppliedPast, CopyParts, Clocks DEF SplitInv, SessionInv, Types
<1>3. \A i \in DOMAIN commit.saves : commit.saves[i].beat \in Nat
  BY InCommitParts, ElementOfSeq, LenProperties, SessionParts
<1>4. Beats'
  BY <1>1, <1>2, <1>3 DEF SplitInv, Beats, Sampled
<1>5. BoundaryCommit'
  BY <1>1 DEF SplitInv, BoundaryCommit, SplitAt, Foremost, Waiting
<1>6. ASSUME NoFault("mirror")' PROVE CopiesSplit' /\ CommitSplit'
  <2>1. CopiesSplit /\ CommitSplit
    BY <1>6 DEF NoFault, SplitInv
  <2>2. Applied' = Applied
    BY DEF Applied
  <2>3. Behind' = Behind
    BY <2>2 DEF Behind, SplitBy, SplitAt
  <2>4. CopiesSplit'
    BY <2>1, <2>2, <2>3 DEF CopiesSplit, Newer, SplitBy, SplitAt, Freshness
  <2>5. CommitSplit'
    BY <1>1, <2>1, <2>2, <2>3 DEF CommitSplit, Newer, SplitBy, SplitAt, Freshness
  <2> QED  BY <2>4, <2>5
<1> QED  BY <1>4, <1>5, <1>6 DEF SplitInv

\* The journal or the persistent copy cannot be written: nothing is dealt with.
LEMMA RejectSplits ==
    ASSUME SessionInv, SplitInv, commit # NoCommit, Fail("reject"), EndCommit(FALSE),
           UNCHANGED <<clock, disk, mirror, intents, split>>
    PROVE  SplitInv'
<1>1. commit' = NoCommit /\ drain \in DrainType /\ clock \in Nat
  BY Clocks DEF EndCommit, SessionInv, Types
<1>2. drain'.done = drain.done
  <2>1. drain' = drain \/ drain' = [drain EXCEPT !.ok = FALSE]
    BY DEF EndCommit
  <2> QED  BY <1>1, <2>1 DEF DrainType
<1>3. Applied' = Applied
  BY <1>2 DEF Applied
<1>4. NoFault("mirror")' => NoFault("mirror")
  BY FaultsKeep DEF SessionInv
<1>5. \A b \in split' : b <= clock'
  BY DEF SplitInv, Beats
<1> QED  BY <1>1, <1>3, <1>4, <1>5, QuietSplit

LEMMA SaveSplits ==
    ASSUME SessionInv, SplitInv, Save
    PROVE  SplitInv'
<1>1. /\ commit.stage = "save" /\ commit # NoCommit
      /\ UNCHANGED <<clock, intents, split, mirror>>
  BY DEF Save, InCommit, NoCommit
<1>2. commit \in CommitType /\ Head(commit.saves) = commit.saves[1] /\ 1 \in DOMAIN commit.saves
  BY <1>1, InCommitParts, SavesParts
<1>3. CASE Fail("reject") /\ EndCommit(FALSE) /\ UNCHANGED disk
  BY <1>1, <1>3, RejectSplits
<1>4. CASE /\ disk' = Head(commit.saves)
           /\ commit' = [commit EXCEPT !.stage = "mirror", !.cache = "kept"]
           /\ UNCHANGED <<drain, faults>>
  <2>1. /\ commit' # NoCommit /\ commit'.stage = "mirror" /\ commit'.by = commit.by
        /\ commit'.saves = commit.saves
    BY <1>2, <1>4 DEF CommitType, NoCommit
  <2>2. Beats'
    BY <1>1, <1>2, <1>4, <2>1 DEF SplitInv, Beats, Sampled
  <2>3. BoundaryCommit'
    BY <1>1, <1>4, <2>1 DEF SplitInv, BoundaryCommit, SplitAt, Foremost, Waiting
  <2>4. ASSUME NoFault("mirror")' PROVE CopiesSplit' /\ CommitSplit'
    <3>1. CopiesSplit /\ CommitSplit
      BY <1>4, <2>4 DEF NoFault, SplitInv
    <3>2. Applied' = Applied
      BY <1>1, <1>4 DEF Applied
    <3>3. Behind' = Behind
      BY <1>1, <3>2 DEF Behind, SplitBy, SplitAt
    <3>4. SplitBy(commit.saves[1], Applied) /\ (Behind => Newer(commit.saves[1]))
      BY <1>1, <1>2, <3>1 DEF CommitSplit
    <3>5. CopiesSplit'
      BY <1>1, <1>2, <1>4, <3>2, <3>3, <3>4 DEF CopiesSplit, Newer, SplitBy, SplitAt, Freshness
    <3>6. CommitSplit'
      BY <1>1, <1>2, <1>4, <2>1, <3>1, <3>2 DEF CommitSplit, SplitBy, SplitAt
    <3> QED  BY <3>5, <3>6
  <2> QED  BY <2>2, <2>3, <2>4 DEF SplitInv
<1> QED  BY <1>3, <1>4 DEF Save

LEMMA MirrorSplits ==
    ASSUME SessionInv, SplitInv, Mirror
    PROVE  SplitInv'
<1>1. /\ commit.stage = "mirror" /\ commit # NoCommit
      /\ UNCHANGED <<clock, intents, split, disk>> /\ clock \in Nat
  BY Clocks DEF Mirror, InCommit, NoCommit, SessionInv, Types
<1>2. /\ commit \in CommitType /\ SavesOK(commit.saves) /\ commit.saves \in Seq(TimedSession)
      /\ Head(commit.saves) = commit.saves[1] /\ 1 \in DOMAIN commit.saves
  BY <1>1, InCommitParts, SavesParts
<1>3. Sampled(commit.saves[1], clock)
  BY <1>1, <1>2 DEF SplitInv, Beats
<1>4. \/ mirror' = commit.saves[1] /\ faults' = faults
      \/ mirror' = mirror /\ ~NoFault("mirror")'
  BY <1>2, FaultsKeep DEF Mirror, SessionInv
<1>5. Sampled(mirror, clock)'
  BY <1>1, <1>3, <1>4 DEF SplitInv, Beats, Sampled
\* While no mirror is lost, both copies are what the commit saved.
<1>6. NoFault("mirror")' =>
        /\ mirror' = commit.saves[1] /\ disk' = commit.saves[1] /\ CopiesSplit /\ CommitSplit
  BY <1>1, <1>4 DEF NoFault, SplitInv, CommitSplit
<1>7. CASE Len(commit.saves) = 1 /\ EndCommit(TRUE)
  <2>1. commit' = NoCommit
    BY <1>7 DEF EndCommit
  <2>2. Beats' /\ BoundaryCommit'
    BY <1>1, <1>5, <2>1 DEF SplitInv, Beats, Sampled, BoundaryCommit
  <2>3. NoFault("mirror")' => SplitBy(commit.saves[1], Applied')
    <3>1. NoFault("mirror")' => SplitBy(commit.saves[1], Applied)
      BY <1>1, <1>2, <1>6 DEF CommitSplit
    <3>2. CASE commit.by = Nothing
      <4>1. Applied' = Applied
        BY <1>1, <1>7, <3>2 DEF EndCommit, Applied
      <4> QED  BY <3>1, <4>1
    <3>3. CASE commit.by # Nothing
      <4> DEFINE at == commit.by
      <4>1. drain' = [drain EXCEPT !.done = @ \cup {at}] /\ split' = split
        BY <1>1, <1>7, <3>3 DEF EndCommit
      <4>2. SplitAt(commit.saves[1], at)
        BY <1>1, <3>3 DEF SplitInv, BoundaryCommit
      <4> HIDE DEF at
      <4>3. Applied' = Applied \cup {at}
        BY <4>1, AppliedGrows
      <4> QED  BY <3>1, <4>2, <4>3 DEF SplitBy
    <3> QED  BY <3>2, <3>3
  <2>4. NoFault("mirror")' => CopiesSplit' /\ CommitSplit'
    BY <1>6, <2>1, <2>3 DEF CopiesSplit, CommitSplit, SplitBy, SplitAt
  <2> QED  BY <2>2, <2>4 DEF SplitInv
<1>8. CASE /\ Len(commit.saves) # 1 /\ UNCHANGED drain
           /\ commit' = [commit EXCEPT !.stage = "save", !.saves = Tail(@)]
  <2>1. /\ Tail(commit.saves)[1] = commit.saves[2] /\ DOMAIN Tail(commit.saves) = {1}
        /\ 2 \in DOMAIN commit.saves
    BY <1>2, <1>8, SavesParts
  <2>2. /\ commit' # NoCommit /\ commit'.stage = "save" /\ commit'.by = commit.by
        /\ commit'.saves = Tail(commit.saves)
    BY <1>2, <1>8 DEF CommitType, NoCommit
  <2>3. commit.saves[1].state = "active"
    BY <1>2, <1>8 DEF SavesOK
  <2>4. Beats'
    BY <1>1, <1>5, <2>1, <2>2 DEF SplitInv, Beats, Sampled
  <2>5. commit.by = Nothing
    BY <1>1, <1>8 DEF SplitInv, BoundaryCommit
  <2>6. BoundaryCommit'
    BY <2>2, <2>5 DEF BoundaryCommit
  <2>7. ASSUME NoFault("mirror")' PROVE CopiesSplit' /\ CommitSplit'
    <3>1. Applied' = Applied
      BY <1>1, <1>8 DEF Applied
    <3>2. SplitBy(commit.saves[1], Applied) /\ SplitBy(commit.saves[2], Applied)
      BY <1>1, <1>2, <1>6, <2>1, <2>7 DEF CommitSplit
    <3>3. ~Behind'
      BY <1>6, <2>3, <2>7, <3>1, <3>2 DEF Behind, SplitBy, SplitAt
    <3>4. CopiesSplit'
      BY <1>6, <2>7, <3>1, <3>2, <3>3 DEF CopiesSplit, SplitBy, SplitAt
    <3>5. CommitSplit'
      BY <2>1, <2>2, <3>1, <3>2, <3>3 DEF CommitSplit, SplitBy, SplitAt
    <3> QED  BY <3>4, <3>5
  <2> QED  BY <2>4, <2>6, <2>7 DEF SplitInv
<1> QED  BY <1>7, <1>8 DEF Mirror

LEMMA CommitStepSplits ==
    ASSUME SessionInv, SplitInv, CommitStep \/ \E to \in Modes : RouteChangesMode(to)
    PROVE  SplitInv'
<1>1. clock \in Nat
  BY Clocks DEF SessionInv, Types
<1>2. CASE Settle \/ Route \/ Routed
  <2>1. commit # NoCommit /\ commit.stage # "mirror"
    BY <1>2 DEF Settle, Route, Routed, InCommit, NoCommit
  <2>2. commit.next \in {"route", "save"}
    BY <2>1, InCommitParts
  <2>3. /\ commit' = [commit EXCEPT !.stage = commit.next] \/ commit' = [commit EXCEPT !.stage = "save"]
        /\ UNCHANGED <<clock, disk, mirror, intents, split, drain, faults>>
    BY <1>2 DEF Settle, Route, Routed, InCommit, sessions
  <2> QED  BY <1>1, <2>1, <2>2, <2>3, StageSplits
<1>3. CASE Reject
  <2>1. commit # NoCommit
    BY <1>3 DEF Reject, InCommit, NoCommit
  <2>2. UNCHANGED <<clock, disk, mirror, intents, split>>
    BY <1>3 DEF Reject, InCommit, sessions
  <2>3. Fail("reject")
    BY <1>3 DEF Reject
  <2>4. EndCommit(FALSE)
    BY <1>3 DEF Reject
  <2> QED  BY <2>1, <2>2, <2>3, <2>4, RejectSplits
<1>4. CASE Save
  BY <1>4, SaveSplits
<1>5. CASE Mirror
  BY <1>5, MirrorSplits
<1>6. ASSUME NEW to \in Modes, RouteChangesMode(to) PROVE SplitInv'
  <2>1. /\ commit.stage = "route" /\ commit' = [commit EXCEPT !.stage = "wait"]
        /\ UNCHANGED <<clock, disk, mirror, intents, split, drain, faults>>
    BY <1>6 DEF RouteChangesMode, sessions, queue
  <2>2. commit # NoCommit
    BY <2>1 DEF NoCommit
  <2> QED  BY <1>1, <2>1, <2>2, StageSplits
<1> QED  BY <1>2, <1>3, <1>4, <1>5, <1>6 DEF CommitStep

(***************************************************************************)
(* The copies of the session: mode changes, the drain and the faults.      *)
(***************************************************************************)
LEMMA ChangeSplits ==
    ASSUME SessionInv, SplitInv, (\E to \in Modes : DecideMode(to)) \/ \E c \in changes : ChangeStep(c)
    PROVE  SplitInv'
<1>1. clock \in Nat /\ \A b \in split : b \in Nat /\ b <= clock
  BY Clocks DEF SessionInv, Types, SplitInv, Beats
<1>2. UNCHANGED <<disk, mirror, commit, drain, split, faults>>
  BY DEF DecideMode, ChangeStep, SaveMode, CacheMode, Enqueue, InChange, sessions, queue
<1>3. clock' \in Nat /\ clock <= clock'
  <2>1. CASE \E to \in Modes : DecideMode(to)
    <3>1. PICK t \in Later : clock' = t
      BY <2>1 DEF DecideMode
    <3> QED  BY <3>1, LaterParts
  <2>2. CASE \E c \in changes : ChangeStep(c)
    BY <1>1, <2>2 DEF ChangeStep, SaveMode, CacheMode, Enqueue, InChange
  <2> QED  BY <2>1, <2>2
<1>4. Applied' = Applied /\ \A b \in split' : b <= clock'
  BY <1>1, <1>2, <1>3 DEF Applied
<1>5. commit # NoCommit /\ commit.by # Nothing => intents' = intents
  <2>1. intents' = intents \/ ~drain.on
    BY DEF DecideMode, ChangeStep, SaveMode, CacheMode, Enqueue, queue
  <2> QED  BY <2>1 DEF SessionInv, CommitOK
<1>6. NoFault("mirror")' => NoFault("mirror")
  BY <1>2 DEF NoFault
<1> QED  BY <1>2, <1>3, <1>4, <1>5, <1>6, QuietSplit

LEMMA DrainSplits ==
    ASSUME SessionInv, SplitInv, StartDrain \/ EndDrain
    PROVE  SplitInv'
<1>1. /\ clock \in Nat /\ clock' = clock
      /\ UNCHANGED <<disk, mirror, commit, faults>> /\ drain'.done = {}
  BY Clocks DEF StartDrain, EndDrain, NoDrain, sessions, SessionInv, Types
<1>2. Applied' = split'
  BY <1>1 DEF Applied
<1>3. Applied' \subseteq Applied
  BY <1>2 DEF StartDrain, EndDrain, Applied
<1>4. \A b \in split' : b <= clock'
  BY <1>1, <1>2, <1>3, AppliedPast DEF SplitInv
<1>5. ~(commit # NoCommit /\ commit.by # Nothing)
  BY DEF StartDrain, EndDrain, SessionInv, CommitOK
<1>6. NoFault("mirror")' => NoFault("mirror")
  BY <1>1 DEF NoFault
<1> QED  BY <1>1, <1>3, <1>4, <1>5, <1>6, QuietSplit

LEMMA FaultSplits ==
    ASSUME SessionInv, SplitInv, StopWorker \/ RestartBrowser
    PROVE  SplitInv'
<1>1. /\ commit' = NoCommit /\ clock' = clock /\ disk' = disk /\ split' = split
      /\ drain' = NoDrain /\ clock \in Nat
      /\ mirror' = mirror \/ mirror' = NoMirror
      /\ Fail("stop") \/ Fail("restart")
  BY Clocks DEF StopWorker, RestartBrowser, LoseMemory, SessionInv, Types
<1>2. drain'.done = {}
  BY <1>1 DEF NoDrain
<1>3. Applied' \subseteq Applied
  BY <1>1, <1>2 DEF Applied
<1>4. NoFault("mirror")' => NoFault("mirror")
  BY <1>1, FaultsKeep DEF SessionInv
<1>5. \A b \in split' : b <= clock'
  BY <1>1 DEF SplitInv, Beats
<1> QED  BY <1>1, <1>3, <1>4, <1>5, QuietSplit

LEMMA SplitNext == SessionInv /\ SplitInv /\ [Next]_vars => SplitInv'
<1> SUFFICES ASSUME SessionInv, SplitInv, [Next]_vars PROVE SplitInv'
  OBVIOUS
<1>1. CASE \/ \E to \in {"active", "idle"} : Transition(to)
           \/ Close \/ CheckpointOpens \/ PopupFlush
           \/ \E next \in {"active", "none"} : CheckpointDoubts(next)
  BY <1>1, EventSplits
<1>2. CASE Recover
  BY <1>2, RecoverSplits
<1>3. CASE CheckpointConfirms
  BY <1>3, ConfirmSplits
<1>4. CASE (\E to \in Modes : DecideMode(to)) \/ \E c \in changes : ChangeStep(c)
  BY <1>4, ChangeSplits
<1>5. CASE CommitStep \/ \E to \in Modes : RouteChangesMode(to)
  BY <1>5, CommitStepSplits
<1>6. CASE StartDrain \/ EndDrain
  BY <1>6, DrainSplits
<1>7. CASE ApplyBoundary
  BY <1>7, BoundarySplits
<1>8. CASE StopWorker \/ RestartBrowser
  BY <1>8, FaultSplits
<1>9. CASE UNCHANGED vars
  <2>1. UNCHANGED <<clock, disk, mirror, intents, drain, commit, split, faults>>
    BY <1>9 DEF vars
  <2>2. Applied' = Applied /\ clock \in Nat
    BY <2>1, Clocks DEF Applied, SessionInv, Types
  <2>3. \A b \in split' : b <= clock'
    BY <2>1 DEF SplitInv, Beats
  <2>4. NoFault("mirror")' => NoFault("mirror")
    BY <2>1 DEF NoFault
  <2> QED  BY <2>1, <2>2, <2>3, <2>4, QuietSplit
<1> QED  BY <1>1, <1>2, <1>3, <1>4, <1>5, <1>6, <1>7, <1>8, <1>9 DEF Next, DrainStep

(***************************************************************************)
(* The history of the mode.                                                *)
(***************************************************************************)
\* The boundaries and the changes lie in the past; nothing is forgotten.
LEMMA BoundParts ==
    ASSUME SessionInv
    PROVE  /\ \A x \in Bounds : x \in Nat
           /\ \A b \in intents : b.at \in Bounds /\ b.at \in Nat
           /\ \A c \in changes : c.at \in Nat /\ c.at \in Instants
           /\ drain.done \subseteq Bounds /\ split \subseteq Bounds /\ Instants \subseteq Nat
<1>1. /\ \A b \in intents : b.at \in Nat
      /\ \A c \in changes : c.at \in Nat /\ c.at \in Instants
      /\ drain.done \subseteq {b.at : b \in intents}
  BY IntentParts DEF SessionInv
<1>2. Instants \subseteq Nat /\ split \subseteq Instants
  BY Clocks DEF SessionInv, Types
<1> QED  BY <1>1, <1>2 DEF Bounds

\* A decision finds no rival, or marks every change that it overlaps.
LEMMA ModesDecide ==
    ASSUME SessionInv, ModesFollow, NEW at \in Nat, NEW to, Decide(at, to),
           intents' = intents, split' = split
    PROVE  ModesFollow'
<1> DEFINE new == [stage |-> "save", at |-> at, from |-> mode, to |-> to]
<1>1. /\ changes' = changes \cup {new} /\ mode' = mode /\ modeAt' = modeAt
      /\ contested' = IF Rivals(at) = {} THEN contested ELSE contested \cup Rivals(at) \cup {at}
  BY DEF Decide
<1>2. new.stage = "save" /\ new.at = at /\ new.from = mode
  OBVIOUS
<1> HIDE DEF new
<1>3. Rivals(at) = {c.at : c \in changes} \cup {x \in Bounds : x >= at}
  BY DEF Rivals, Bounds
<1>4. Bounds' = Bounds /\ \A x \in Bounds : x \in Nat
  BY BoundParts DEF Bounds
<1>5. CurrentMode'
  BY <1>1, <1>2, <1>4 DEF ModesFollow, CurrentMode, After
<1>6. ChangeMode'
  <2>1. CASE Rivals(at) = {}
    <3>1. changes = {} /\ \A x \in Bounds : x < at
      BY <1>3, <1>4, <2>1
    <3>2. \A t \in Instants : After(t) => modeAt[t] = mode
      BY <3>1 DEF ModesFollow, CurrentMode
    <3> QED  BY <1>1, <1>2, <1>4, <3>1, <3>2 DEF ChangeMode, After
  <2>2. CASE Rivals(at) # {}
    <3>1. \A c \in changes' : c.at \in contested'
      BY <1>1, <1>2, <1>3, <2>2
    <3> QED  BY <3>1 DEF ChangeMode
  <2> QED  BY <2>1, <2>2
<1>7. IntentMode'
  BY <1>1 DEF ModesFollow, IntentMode, Before
<1>8. Ahead'
  <2>1. \A x \in Bounds : x \notin contested' => x < at
    BY <1>1, <1>3, <1>4
  <2> QED  BY <1>1, <1>2, <1>4, <2>1 DEF ModesFollow, Ahead
<1> QED  BY <1>5, <1>6, <1>7, <1>8 DEF ModesFollow

\* A change that is saved rewrites the mode since its boundary, and a boundary
\* that it does not overlap lies before.
LEMMA ModesSave ==
    ASSUME SessionInv, ModesFollow, NEW c \in changes, SaveMode(c)
    PROVE  ModesFollow'
<1> DEFINE next == [c EXCEPT !.stage = "cache"]
<1>1. /\ changes' = (changes \ {c}) \cup {next} /\ mode' = c.to /\ contested' = contested
      /\ modeAt' = [t \in Instants |-> IF t < c.at THEN modeAt[t] ELSE c.to]
      /\ intents' = intents /\ split' = split
  BY DEF SaveMode, GoesTo, InChange
<1>2. next.stage = "cache" /\ next.at = c.at /\ next.from = c.from
  BY IntentParts DEF SessionInv, ChangeType
<1> HIDE DEF next
<1>3. Bounds' = Bounds /\ \A x \in Bounds : x \in Nat
  BY <1>1, BoundParts DEF Bounds
<1>4. /\ c.at \in Nat /\ Instants \subseteq Nat
      /\ \A t \in Instants : modeAt'[t] = IF t < c.at THEN modeAt[t] ELSE c.to
  BY <1>1, BoundParts
<1>5. CurrentMode'
  BY <1>1, <1>2, <1>4 DEF CurrentMode
<1>6. ChangeMode'
  BY <1>1, <1>2, <1>3, <1>4 DEF ModesFollow, ChangeMode, After
<1>7. IntentMode'
  <2>1. \A b \in intents : b.at \notin contested => b.at < c.at /\ b.at \in Nat
    BY BoundParts DEF ModesFollow, Ahead
  <2> QED  BY <1>1, <1>4, <2>1 DEF ModesFollow, IntentMode, Before
<1>8. Ahead'
  BY <1>1, <1>2, <1>3 DEF ModesFollow, Ahead
<1> QED  BY <1>5, <1>6, <1>7, <1>8 DEF ModesFollow

LEMMA ModesCache ==
    ASSUME SessionInv, ModesFollow, NEW c \in changes, CacheMode(c)
    PROVE  ModesFollow'
<1> DEFINE next == [c EXCEPT !.stage = "enqueue"]
<1>1. /\ changes' = (changes \ {c}) \cup {next} /\ mode' = mode /\ contested' = contested
      /\ modeAt' = modeAt /\ intents' = intents /\ split' = split /\ c.stage = "cache"
  BY DEF CacheMode, GoesTo, InChange
<1>2. next.stage = "enqueue" /\ next.at = c.at /\ next.from = c.from
  BY IntentParts DEF SessionInv, ChangeType
<1> HIDE DEF next
<1>3. Bounds' = Bounds
  BY <1>1 DEF Bounds
<1>4. CurrentMode'
  BY <1>1, <1>2, <1>3 DEF ModesFollow, CurrentMode, After
<1>5. ChangeMode'
  BY <1>1, <1>2, <1>3 DEF ModesFollow, ChangeMode, After
<1>6. IntentMode'
  BY <1>1 DEF ModesFollow, IntentMode, Before
<1>7. Ahead'
  BY <1>1, <1>2, <1>3 DEF ModesFollow, Ahead
<1> QED  BY <1>4, <1>5, <1>6, <1>7 DEF ModesFollow

\* A boundary that is queued is the last, when its change overlapped no other.
LEMMA ModesEnqueue ==
    ASSUME SessionInv, ModesFollow, NEW c \in changes, Enqueue(c)
    PROVE  ModesFollow'
<1> DEFINE new == [at |-> c.at, from |-> c.from, to |-> c.to]
<1>1. /\ changes' = changes \ {c} /\ mode' = mode /\ contested' = contested
      /\ modeAt' = modeAt /\ intents' = intents \cup {new} /\ split' = split
      /\ c.stage = "enqueue"
  BY DEF Enqueue, InChange
<1>2. new.at = c.at /\ new.from = c.from
  OBVIOUS
<1> HIDE DEF new
<1>3. Bounds' = Bounds \cup {c.at}
  BY <1>1, <1>2 DEF Bounds
<1>4. CurrentMode'
  BY <1>1, <1>3 DEF ModesFollow, CurrentMode, After
<1>5. ChangeMode'
  BY <1>1 DEF ModesFollow, ChangeMode
<1>6. IntentMode'
  <2>1. ASSUME c.at \notin contested, NEW t \in Instants, t < c.at, \A x \in split : x <= t,
               \A w \in intents : w.at < c.at => w.at <= t
        PROVE  modeAt[t] = c.from
    <3>1. After(t)
      BY <2>1 DEF ModesFollow, ChangeMode, After, Bounds
    <3> QED  BY <2>1, <3>1 DEF ModesFollow, ChangeMode
  <2> QED  BY <1>1, <1>2, <2>1 DEF ModesFollow, IntentMode, Before
<1>7. Ahead'
  BY <1>1, <1>3 DEF ModesFollow, Ahead, ChangeMode
<1> QED  BY <1>4, <1>5, <1>6, <1>7 DEF ModesFollow

\* The boundaries that were applied are consumed.
LEMMA ModesDrain ==
    ASSUME SessionInv, ModesFollow, EndDrain
    PROVE  ModesFollow'
<1>1. /\ intents' = Waiting /\ split' = split \cup drain.done
      /\ UNCHANGED <<mode, changes, modeAt, contested>>
  BY DEF EndDrain, modes
<1>2. drain.done \subseteq {b.at : b \in intents}
  BY IntentParts DEF SessionInv
<1>3. Bounds' = Bounds
  BY <1>1, <1>2 DEF Bounds, Waiting
<1>4. CurrentMode' /\ ChangeMode' /\ Ahead'
  BY <1>1, <1>3 DEF ModesFollow, CurrentMode, ChangeMode, Ahead, After
<1>5. IntentMode'
  BY <1>1 DEF ModesFollow, IntentMode, Before, Waiting
<1> QED  BY <1>4, <1>5 DEF ModesFollow

LEMMA ModesNext ==
    ASSUME SessionInv, ModesFollow, Straight', [Next]_vars
    PROVE  ModesFollow'
<1>1. ASSUME NEW to \in Modes, DecideMode(to) PROVE ModesFollow'
  <2>1. PICK t \in Later : Decide(t, to)
    BY <1>1 DEF DecideMode
  <2>2. t \in Nat /\ intents' = intents /\ split' = split
    BY <1>1, LaterParts DEF DecideMode, queue
  <2> QED  BY <2>1, <2>2, ModesDecide
<1>2. ASSUME NEW to \in Modes, RouteChangesMode(to) PROVE ModesFollow'
  <2> DEFINE at == commit.saves[1].beat
  <2>1. Decide(at, to) /\ commit # NoCommit /\ intents' = intents /\ split' = split
    BY <1>2 DEF RouteChangesMode, NoCommit, queue
  <2>2. at \in Nat
    BY <2>1, InCommitParts, SessionParts
  <2> HIDE DEF at
  <2> QED  BY <2>1, <2>2, ModesDecide
<1>3. CASE \E c \in changes : ChangeStep(c)
  BY <1>3, ModesSave, ModesCache, ModesEnqueue DEF ChangeStep
<1>4. CASE EndDrain
  BY <1>4, ModesDrain
<1>5. CASE StopWorker \/ RestartBrowser
  <2>1. faults' # faults /\ ~Fail("reject")
    <3>1. PICK f \in {"stop", "restart"} : faults' = [faults EXCEPT ![f] = @ + 1]
      BY <1>5 DEF StopWorker, RestartBrowser, Fail
    <3>2. faults["stop"] \in Nat /\ faults["restart"] \in Nat
          /\ faults \in [Faults -> Nat]
      BY DEF SessionInv, Types, Faults
    <3>3. faults'[f] = faults[f] + 1 /\ faults'[f] # faults[f]
      BY <3>1, <3>2 DEF Faults
    <3>4. Fail("reject") => faults'[f] = faults[f]
      BY <3>1, <3>2 DEF Fail, Faults
    <3> QED  BY <3>3, <3>4
  <2>2. Fail("stop") \/ Fail("restart")
    BY <1>5 DEF StopWorker, RestartBrowser
  <2> QED  BY <2>1, <2>2, FaultsKeep DEF SessionInv
<1>6. CASE UNCHANGED <<mode, changes, modeAt, contested, intents, split>>
  BY <1>6 DEF ModesFollow, CurrentMode, ChangeMode, IntentMode, Ahead, After, Before, Bounds
<1>7. CASE \/ \E to \in {"active", "idle"} : Transition(to)
           \/ Close \/ PopupFlush \/ Recover \/ CheckpointOpens
  BY <1>6, <1>7 DEF Transition, Close, PopupFlush, Recover, CheckpointOpens, Operation, modes, queue
<1>8. CASE \/ CheckpointConfirms \/ \E next \in {"active", "none"} : CheckpointDoubts(next)
           \/ StartDrain \/ ApplyBoundary \/ UNCHANGED vars
  BY <1>6, <1>8 DEF CheckpointConfirms, CheckpointDoubts, StartDrain, ApplyBoundary, Operation,
                    modes, queue, vars
<1>9. CASE Settle \/ Reject \/ Route \/ Routed \/ Save \/ Mirror
  BY <1>6, <1>9 DEF Settle, Reject, Route, Routed, Save, Mirror, InCommit, modes, queue
<1> QED  BY <1>1, <1>2, <1>3, <1>4, <1>5, <1>7, <1>8, <1>9 DEF Next, DrainStep, CommitStep

(***************************************************************************)
(* The segment that a boundary closes.                                     *)
(***************************************************************************)
\* Only a change that is saved rewrites the history; nothing queued is forgotten.
LEMMA HistoryStays ==
    ASSUME SessionInv, [Next]_vars
    PROVE  /\ modeAt' = modeAt \/ (\E c \in changes : SaveMode(c))
           /\ Bounds \subseteq Bounds' /\ contested \subseteq contested'
           /\ ledger' = ledger \/ Settle
           /\ faults' = faults \/ Fail("reject") \/ Fail("mirror") \/ Fail("stop") \/ Fail("restart")
<1>1. CASE \E to \in Modes : DecideMode(to) \/ RouteChangesMode(to)
  BY <1>1 DEF DecideMode, RouteChangesMode, Decide, Bounds, queue
<1>2. CASE \/ \E to \in {"active", "idle"} : Transition(to)
           \/ Close \/ PopupFlush \/ Recover \/ CheckpointOpens
  BY <1>2 DEF Transition, Close, PopupFlush, Recover, CheckpointOpens, Operation, modes, queue, Bounds
<1>3. CASE \/ CheckpointConfirms \/ \E next \in {"active", "none"} : CheckpointDoubts(next)
           \/ StartDrain \/ ApplyBoundary
  BY <1>3 DEF CheckpointConfirms, CheckpointDoubts, StartDrain, ApplyBoundary,
              Operation, modes, queue, Bounds
<1>4. CASE EndDrain
  BY <1>4, IntentParts DEF EndDrain, modes, SessionInv, Bounds, Waiting
<1>5. CASE Settle \/ Reject \/ Route \/ Routed
  BY <1>5 DEF Settle, Reject, Route, Routed, InCommit, modes, Bounds
<1>6. CASE Save \/ Mirror
  BY <1>6 DEF Save, Mirror, InCommit, modes, Bounds
<1>7. CASE (\E c \in changes : ChangeStep(c)) \/ UNCHANGED vars
  BY <1>7 DEF ChangeStep, SaveMode, CacheMode, Enqueue, InChange, vars, Bounds
<1>8. CASE StopWorker \/ RestartBrowser
  BY <1>8 DEF StopWorker, RestartBrowser, LoseMemory, Bounds
<1> QED  BY <1>1, <1>2, <1>3, <1>4, <1>5, <1>6, <1>7, <1>8 DEF Next, DrainStep, CommitStep

\* The segment before a boundary lies between the boundaries dealt with and it.
LEMMA SegmentEnds ==
    ASSUME SessionInv, SplitInv, commit.stage = "settle", Segment.by # Nothing
    PROVE  /\ Segment.by \in Bounds /\ Segment.end <= Segment.by
           /\ commit.by = Segment.by /\ commit.end = commit.by
           /\ \E b \in intents : b.at = commit.by /\ b.from = commit.as /\ Foremost(b)
<1>1. commit # NoCommit /\ commit.by = Segment.by
  BY DEF NoCommit, Segment
<1>2. /\ commit.end = commit.by
      /\ \E b \in intents : b.at = commit.by /\ b.from = commit.as /\ Foremost(b)
  BY <1>1 DEF SplitInv, BoundaryCommit
<1> QED  BY <1>1, <1>2, SegmentParts DEF Bounds

LEMMA SegmentMode ==
    ASSUME SessionInv, SplitInv, NoFault("mirror"), ModesFollow, commit.stage = "settle",
           Segment.by \notin contested \cup {Nothing}, ~Segment.guess,
           NEW t \in Segment.start .. Segment.end - 1
    PROVE  modeAt[t] = Segment.mode
<1>1. commit # NoCommit /\ ~commit.of.guess /\ commit.by = Segment.by
  BY DEF NoCommit, Segment
<1>2. PICK b \in intents : b.at = commit.by /\ b.from = commit.as /\ Foremost(b)
  BY SegmentEnds
<1>3. /\ Segment.start = commit.of.start /\ Segment.start \in Nat /\ Segment.end \in Nat
      /\ Segment.end <= b.at /\ Segment.end \in Instants
      /\ commit.of.state = "active" /\ b.at \in Nat /\ b.from \in Modes
  BY <1>1, <1>2, SegmentEnds, SegmentParts, InCommitParts, IntentParts DEF SessionInv
<1>4. t \in Nat /\ commit.of.start <= t /\ t < b.at /\ t \in Instants
  BY <1>3, TimesAreCounts DEF Instants
<1>5. \A a \in Applied : a \in Nat /\ a <= t
  <2>1. SplitBy(commit.of, Applied)
    BY <1>1 DEF SplitInv, CommitSplit
  <2>2. \A a \in Applied : a \in Nat /\ a <= commit.of.start
    BY <1>1, <1>3, <2>1, AppliedPast DEF SplitInv, SplitBy, SplitAt
  <2> QED  BY <1>3, <1>4, <2>2
<1>6. \A w \in intents : w.at < b.at => w.at <= t
  <2> SUFFICES ASSUME NEW w \in intents, w.at < b.at PROVE w.at <= t
    OBVIOUS
  <2>1. w.at \in Nat
    BY IntentParts DEF SessionInv
  <2>2. w.at \in drain.done
    BY <1>2, <1>3, <2>1 DEF Foremost, Waiting
  <2> QED  BY <1>5, <2>2 DEF Applied
<1>7. modeAt[t] = b.from
  BY <1>1, <1>2, <1>4, <1>5, <1>6 DEF ModesFollow, IntentMode, Before, Applied
<1>8. Segment.mode = b.from
  BY <1>2, <1>3, FirstModeIsOne DEF Segment
<1> QED  BY <1>7, <1>8

LEMMA OldModeNext ==
    ASSUME BoundaryInv, [Next]_vars
    PROVE  SegmentsEnd' /\ BoundaryKeepsOldMode'
<1>1. /\ SessionInv /\ SplitInv /\ (Straight => ModesFollow)
      /\ SegmentsEnd /\ BoundaryKeepsOldMode
  BY DEF BoundaryInv
<1>2. /\ modeAt' = modeAt \/ (\E c \in changes : SaveMode(c))
      /\ Bounds \subseteq Bounds' /\ contested \subseteq contested'
      /\ ledger' = ledger \/ Settle
      /\ faults' = faults \/ Fail("reject") \/ Fail("mirror") \/ Fail("stop") \/ Fail("restart")
  BY <1>1, HistoryStays
<1>3. \A g \in ledger' : g \in ledger \/ (commit.stage = "settle" /\ g = Segment)
  BY <1>2 DEF Settle, InCommit
<1>4. \A g \in ledger' : g.by # Nothing => g.by \in Bounds /\ g.end <= g.by
  BY <1>1, <1>3, SegmentEnds DEF SegmentsEnd
<1>5. SegmentsEnd'
  BY <1>2, <1>4 DEF SegmentsEnd
<1>6. ASSUME Straight', NEW g \in ledger', g.by \notin contested' \cup {Nothing}, ~g.guess,
             NEW t \in g.start .. g.end - 1
      PROVE  modeAt'[t] = g.mode
  <2>1. Straight /\ NoFault("mirror") /\ ModesFollow /\ g.by \notin contested \cup {Nothing}
    BY <1>1, <1>2, <1>6, FaultsKeep DEF SessionInv
  <2>2. modeAt[t] = g.mode /\ {g.start, g.end} \subseteq Instants
    <3>1. CASE g \in ledger
      BY <1>1, <1>6, <2>1, <3>1 DEF BoundaryKeepsOldMode, Straight, SessionInv, Types
    <3>2. CASE commit.stage = "settle" /\ g = Segment
      BY <1>1, <1>6, <2>1, <3>2, SegmentMode, SegmentParts
    <3> QED  BY <1>3, <3>1, <3>2
  <2>3. g.by \in Bounds /\ g.by \in Nat /\ g.end <= g.by /\ g.start \in Nat /\ g.end \in Nat
    BY <1>1, <1>4, <2>1, <2>2, BoundParts
  <2>4. t \in Nat /\ t < g.by /\ t \in Instants
    BY <2>2, <2>3, TimesAreCounts DEF Instants
  <2>5. CASE modeAt' = modeAt
    BY <2>2, <2>5
  <2>6. ASSUME NEW c \in changes, SaveMode(c) PROVE modeAt'[t] = modeAt[t]
    <3>1. g.by < c.at /\ c.at \in Nat
      BY <1>1, <2>1, <2>3, BoundParts DEF ModesFollow, Ahead
    <3>2. t < c.at
      BY <2>3, <2>4, <3>1
    <3> QED  BY <2>4, <2>6, <3>2 DEF SaveMode
  <2> QED  BY <1>2, <2>2, <2>5, <2>6
<1>7. BoundaryKeepsOldMode'
  BY <1>6 DEF BoundaryKeepsOldMode, Straight
<1> QED  BY <1>5, <1>7

(***************************************************************************)
(* The invariant holds initially and every step keeps it.                  *)
(***************************************************************************)
LEMMA BoundaryInit == Init => BoundaryInv
<1> SUFFICES ASSUME Init PROVE BoundaryInv
  OBVIOUS
<1>1. SessionInv /\ 0 \in Instants
  BY SessionInit, TimesAreCounts DEF Instants
<1>2. Empty(0).state = "none" /\ Empty(0).start = 0 /\ Empty(0).beat = 0 /\ ~Empty(0).guess
  BY DEF Empty
<1>3. Beats /\ BoundaryCommit
  BY <1>2 DEF Init, Beats, Sampled, BoundaryCommit
<1>4. CopiesSplit /\ CommitSplit
  BY <1>2 DEF Init, CopiesSplit, CommitSplit, SplitBy, SplitAt
<1>5. /\ intents = {} /\ changes = {} /\ Bounds = {} /\ ledger = {}
      /\ \A t \in Instants : modeAt[t] = mode
  BY DEF Init, Bounds
<1>6. ModesFollow /\ SegmentsEnd /\ BoundaryKeepsOldMode
  BY <1>5 DEF ModesFollow, CurrentMode, ChangeMode, IntentMode, Ahead, SegmentsEnd,
              BoundaryKeepsOldMode
<1> QED  BY <1>1, <1>3, <1>4, <1>6 DEF BoundaryInv, SplitInv

LEMMA BoundaryNext == BoundaryInv /\ [Next]_vars => BoundaryInv'
<1> SUFFICES ASSUME BoundaryInv, [Next]_vars PROVE BoundaryInv'
  OBVIOUS
<1>1. SessionInv /\ SplitInv /\ (Straight => ModesFollow)
  BY DEF BoundaryInv
<1>2. SessionInv' /\ SplitInv'
  BY <1>1, SessionNext, SplitNext
<1>3. Straight' => Straight
  BY <1>1, HistoryStays, FaultsKeep DEF SessionInv
<1>4. Straight' => ModesFollow'
  BY <1>1, <1>3, ModesNext
<1> QED  BY <1>2, <1>4, OldModeNext DEF BoundaryInv

LEMMA BoundaryInvariant == Spec => []BoundaryInv
<1> QED  BY BoundaryInit, BoundaryNext, PTL DEF Spec

(***************************************************************************)
(* The theorems.                                                           *)
(***************************************************************************)
\* Whatever writes are rejected and however late the drains come, the segment that
\* a mode boundary closes has the mode that was in effect during all of it, unless
\* the boundary's change overlapped another: that read the mode, or took effect,
\* while it ran.
THEOREM BoundariesKeepOldMode == Spec => []BoundaryKeepsOldMode
<1>1. BoundaryInv => BoundaryKeepsOldMode
  BY DEF BoundaryInv
<1> QED  BY <1>1, BoundaryInvariant, PTL

\* Whenever the worker stops and the browser restarts, a boundary whose intent
\* was consumed is not crossed by the session that is read.
THEOREM ConsumedBoundariesSplit == Spec => []ConsumedBoundarySplits
<1>1. ASSUME BoundaryInv PROVE ConsumedBoundarySplits
  <2> SUFFICES ASSUME Read.state = "active", ~Read.guess, NoFault("mirror"), NEW b \in split
               PROVE  Read.start >= b
    BY DEF ConsumedBoundarySplits
  <2>1. SessionInv /\ Beats /\ CopiesSplit
    BY <1>1 DEF BoundaryInv, SplitInv
  <2>2. b \in Applied /\ b \in Nat
    BY <2>1, AppliedPast DEF Applied
  <2>3. b <= Read.start /\ Read.start \in Nat
    BY <2>1, <2>2, ReadSplits, ReadIsDisk, SessionParts DEF SplitBy, SplitAt
  <2> QED  BY <2>2, <2>3
<1> QED  BY <1>1, BoundaryInvariant, PTL
=============================================================================
