---------------------------- MODULE SessionProofs ----------------------------
EXTENDS SessionProperties, SequenceTheorems, FiniteSetTheorems, TLAPS

(***************************************************************************)
(* Proofs about foreground timing, for every set of modes, every checkpoint *)
(* and repair interval, and every number of mode changes and faults.       *)
(*                                                                         *)
(* The invariant follows one session through its commit: until its time is *)
(* settled it is still the durable session (Kept), and the session that    *)
(* follows starts where the settled time ends (Fits). Faults break either; *)
(* each part says of which faults it needs the absence. What faults cost   *)
(* is counted in a second part (Paid), which needs the absence of none.    *)
(***************************************************************************)

\* A session that starts before its first sample does so by a repair interval.
TimedSession == {s \in Session : s.guess => s.beat <= s.start + Repair}
CommitType ==
    [stage : {"settle", "route", "wait", "save", "mirror"}, next : {"route", "save"},
     by : Instants, of : TimedSession, end : Instants,
     as : Modes \cup {Unknown}, saves : Seq(TimedSession), cache : {"kept", "stored"} \cup Modes]
ChangeType == [stage : {"save", "cache", "enqueue"}, at : Instants, from : Modes, to : Modes]
IntentType == [at : Instants, from : Modes, to : Modes]
DrainType == [on : BOOLEAN, done : SUBSET Instants, ok : BOOLEAN]

Types ==
    /\ clock \in Instants /\ startup \in BOOLEAN
    /\ disk \in TimedSession /\ mirror \in TimedSession \cup {NoMirror}
    /\ mode \in Modes /\ cached \in Modes \cup {Unknown}
    /\ changes \subseteq ChangeType
    /\ intents \subseteq IntentType /\ drain \in DrainType
    /\ commit \in CommitType \cup {NoCommit}
    /\ modeAt \in [Instants -> Modes] /\ split \cup contested \subseteq Instants
    /\ faults \in [Faults -> Nat]
    /\ drain.done \subseteq {b.at : b \in intents}
    /\ \A b \in intents : b.at # Nothing /\ b.at <= clock
    /\ \A c \in changes : c.at # Nothing /\ c.at <= clock
    /\ \A g \in ledger : g.mode \in Modes \cup {Unknown} /\ {g.start, g.end} \subseteq Instants

\* What a commit will save: one session, or one and the same with a later beat.
SavesOK(saves) ==
    \/ Len(saves) = 1
    \/ /\ Len(saves) = 2
       /\ saves[1].state = "active" /\ saves[2].state = "active"
       /\ saves[2].start = saves[1].start /\ ~saves[1].guess /\ ~saves[2].guess

\* It will ask for access to a page, which it has seen by now.
Asks == commit.stage = "route" \/ (commit.stage = "settle" /\ commit.next = "route")
CommitOK ==
    commit # NoCommit =>
        /\ commit.end <= clock /\ commit.of.start <= clock
        /\ SavesOK(commit.saves)
        /\ \A i \in DOMAIN commit.saves : commit.saves[i].start <= clock
        /\ commit.stage = "settle" => commit.of.state = "active" /\ commit.of.start < commit.end
        /\ Asks => commit.saves[1].beat # Nothing /\ commit.saves[1].beat <= clock
        /\ commit.by # Nothing => drain.on /\ drain.ok /\ commit.by \in {b.at : b \in Waiting}
Elapsed ==
    /\ disk.start <= clock /\ (mirror # NoMirror => mirror.start <= clock)
    /\ \A g \in ledger : /\ g.start < g.end /\ g.end <= clock
                         /\ g.end - g.start <= Checkpoint

\* While no mirror is lost and no worker stops, both copies are the same.
Calm == NoFault("mirror") /\ NoFault("stop")
Covered(t) == \E g \in ledger : g.start <= t /\ t < g.end
GoesOn(s, t) == s.state = "active" /\ s.start <= t
Kept ==
    Calm =>
        /\ commit.stage # "mirror" => mirror \in {disk, NoMirror}
        /\ commit.stage = "settle" => disk = commit.of
        /\ commit.stage \in {"route", "wait", "save"} /\ disk.state = "active"
              => GoesOn(commit.saves[1], disk.start) \/ Covered(disk.start)
        /\ commit.stage = "mirror" => disk = commit.saves[1]

\* Nothing that was settled ends after the session's start, or after the
\* sample that opened it.
FitsAfter(s, t) == s.state = "active" => t <= s.start \/ (s.guess /\ t <= s.beat)
Fits(s) == \A g \in ledger : FitsAfter(s, g.end)
CountedOnce ==
    \A g, h \in ledger :
        \/ g = h \/ Overlap(g, h) <= 0
        \/ (g.guess \/ h.guess) /\ Overlap(g, h) <= Repair
Once ==
    Happened = 0 =>
        /\ CountedOnce
        /\ commit = NoCommit => Fits(disk)
        /\ commit.stage = "settle" => Fits(commit.of) /\ FitsAfter(commit.saves[1], commit.end)
        /\ commit # NoCommit => Fits(commit.saves[1])

SessionInv == Types /\ CommitOK /\ Elapsed /\ Kept /\ Once

(***************************************************************************)
(* Facts used throughout.                                                  *)
(***************************************************************************)
LEMMA Clocks == Instants \subseteq Nat /\ Checkpoint \in Nat /\ Repair \in Nat
                /\ Checkpoint > 0 /\ Repair > 0
BY TimesAreCounts DEF Instants

LEMMA NothingIsAnInstant == Nothing \in Instants /\ Nothing = 0
BY TimesAreCounts DEF Nothing, Instants

\* The waiting intents, and the changes that run.
LEMMA IntentParts ==
    ASSUME Types
    PROVE  /\ \A b \in intents : /\ b \in IntentType /\ b.at \in Instants /\ b.at \in Nat
                                  /\ b.at # Nothing /\ b.at <= clock
                                  /\ b.from \in Modes /\ b.to \in Modes
           /\ \A c \in changes : /\ c \in ChangeType /\ c.at \in Instants /\ c.at \in Nat
                                  /\ c.at # Nothing /\ c.at <= clock
                                  /\ c.from \in Modes /\ c.to \in Modes
           /\ drain \in DrainType /\ drain.done \subseteq Instants /\ clock \in Nat
           /\ drain.done \subseteq {b.at : b \in intents} /\ Waiting \subseteq intents
<1>1. /\ \A b \in intents : b \in IntentType /\ b.at # Nothing /\ b.at <= clock
      /\ \A c \in changes : c \in ChangeType /\ c.at # Nothing /\ c.at <= clock
      /\ drain \in DrainType /\ clock \in Instants
      /\ drain.done \subseteq {b.at : b \in intents}
  BY DEF Types
<1> QED  BY <1>1, Clocks DEF IntentType, ChangeType, DrainType, Waiting

\* The parts of a commit, and of no commit.
LEMMA CommitParts ==
    ASSUME Types
    PROVE  /\ commit # NoCommit <=> commit.stage # "free"
           /\ commit # NoCommit => commit \in CommitType
           /\ commit # NoCommit => commit.stage \in {"settle", "route", "wait", "save", "mirror"}
BY DEF Types, CommitType, NoCommit

\* A fault is counted.
LEMMA FaultCounts ==
    ASSUME Types, NEW f \in Faults, Fail(f)
    PROVE  /\ faults' \in [Faults -> Nat] /\ Happened' # 0 /\ faults'[f] # 0
           /\ \A x \in Faults \ {f} : faults'[x] = faults[x]
<1>1. /\ faults \in [Faults -> Nat] /\ faults' = [faults EXCEPT ![f] = @ + 1]
  BY DEF Types, Fail
<1>2. /\ faults' \in [Faults -> Nat] /\ faults'[f] # 0
      /\ \A x \in Faults \ {f} : faults'[x] = faults[x]
  BY <1>1
<1>3. /\ faults'["reject"] \in Nat /\ faults'["mirror"] \in Nat
      /\ faults'["stop"] \in Nat /\ faults'["restart"] \in Nat
  BY <1>2 DEF Faults
<1>4. \/ faults'["reject"] # 0 \/ faults'["mirror"] # 0
      \/ faults'["stop"] # 0 \/ faults'["restart"] # 0
  BY <1>2 DEF Faults
<1> DEFINE n == faults'["reject"]  p == faults'["mirror"]
           q == faults'["stop"]    r == faults'["restart"]
<1>5. n + p + q + r # 0
  <2>1. n \in Nat /\ p \in Nat /\ q \in Nat /\ r \in Nat
        /\ (n # 0 \/ p # 0 \/ q # 0 \/ r # 0)
    BY <1>3, <1>4
  <2> HIDE DEF n, p, q, r
  <2> QED  BY <2>1
<1>6. Happened' # 0
  BY <1>5 DEF Happened
<1> QED  BY <1>2, <1>6

\* A rejected write makes the copies no less alike.
LEMMA RejectCounts ==
    ASSUME Types, Fail("reject")
    PROVE  faults' \in [Faults -> Nat] /\ Happened' # 0 /\ Calm' = Calm
<1>1. "reject" \in Faults /\ "mirror" \in Faults \ {"reject"} /\ "stop" \in Faults \ {"reject"}
  BY DEF Faults
<1> QED  BY <1>1, FaultCounts DEF Calm, NoFault

\* Where nothing has happened, no copy was lost.
LEMMA NothingHappened == Types /\ Happened = 0 => Calm
<1> SUFFICES ASSUME Types, Happened = 0 PROVE Calm
  OBVIOUS
<1>1. /\ faults["reject"] \in Nat /\ faults["mirror"] \in Nat
      /\ faults["stop"] \in Nat /\ faults["restart"] \in Nat
  BY DEF Types, Faults
<1>2. faults["mirror"] = 0 /\ faults["stop"] = 0
  BY <1>1 DEF Happened
<1> QED  BY <1>2 DEF Calm, NoFault

\* A step that leaves the sessions, the commit and the ledger alone.
LEMMA QuietStep ==
    ASSUME SessionInv, UNCHANGED <<sessions, commit, ledger, faults>>, Types',
           clock <= clock',
           commit # NoCommit /\ commit.by # Nothing =>
               drain'.on /\ drain'.ok /\ commit.by \in {b.at : b \in Waiting'}
    PROVE  SessionInv'
<1>1. UNCHANGED disk /\ UNCHANGED mirror /\ UNCHANGED commit /\ UNCHANGED ledger
      /\ UNCHANGED faults
  BY DEF sessions
<1>2. clock \in Nat /\ clock' \in Nat /\ \A g \in ledger : g.end \in Nat
  BY Clocks DEF SessionInv, Types
<1>3. disk.start \in Nat /\ (mirror # NoMirror => mirror.start \in Nat)
  BY Clocks DEF SessionInv, Types, TimedSession, Session
<1>4. commit # NoCommit => /\ commit.end \in Nat /\ commit.of.start \in Nat
                           /\ \A i \in DOMAIN commit.saves : commit.saves[i].start \in Nat
                           /\ commit.saves[1].beat \in Nat
  <2> SUFFICES ASSUME commit # NoCommit
               PROVE  /\ commit.end \in Nat /\ commit.of.start \in Nat
                      /\ \A i \in DOMAIN commit.saves : commit.saves[i].start \in Nat
                      /\ commit.saves[1].beat \in Nat
    OBVIOUS
  <2>1. commit \in CommitType
    BY CommitParts DEF SessionInv
  <2>2. \A i \in DOMAIN commit.saves : commit.saves[i] \in TimedSession
    BY <2>1, ElementOfSeq, LenProperties DEF CommitType
  <2>3. 1 \in DOMAIN commit.saves
    BY <2>1, LenProperties DEF CommitType, SessionInv, CommitOK, SavesOK
  <2> QED  BY <2>1, <2>2, <2>3, Clocks DEF CommitType, TimedSession, Session
<1>5. CommitOK'
  BY <1>1, <1>2, <1>4 DEF SessionInv, CommitOK, SavesOK, Asks
<1>6. Elapsed'
  BY <1>1, <1>2, <1>3 DEF SessionInv, Elapsed
<1>7. Kept'
  BY <1>1 DEF SessionInv, Kept, Calm, NoFault, Covered, GoesOn
<1>8. Once'
  BY <1>1 DEF SessionInv, Once, Happened, CountedOnce, Overlap, Fits, FitsAfter
<1> QED  BY <1>5, <1>6, <1>7, <1>8 DEF SessionInv

(***************************************************************************)
(* Starting a commit.                                                      *)
(***************************************************************************)
LEMMA SessionParts ==
    ASSUME NEW s \in TimedSession
    PROVE  /\ s \in Session /\ s.start \in Instants /\ s.beat \in Instants
           /\ s.start \in Nat /\ s.beat \in Nat /\ s.guess \in BOOLEAN
           /\ s.guess => s.beat <= s.start + Repair
BY Clocks DEF TimedSession, Session

\* What is read is a session, and the durable one while no copy was lost.
LEMMA ReadIsDisk ==
    ASSUME SessionInv
    PROVE  /\ Read \in TimedSession /\ Read.start <= clock
           /\ Calm /\ commit = NoCommit => Read = disk
<1>1. Read = disk \/ (mirror # NoMirror /\ Read = mirror)
  BY DEF Read
<1>2. commit = NoCommit => commit.stage # "mirror"
  BY CommitParts DEF SessionInv, NoCommit
<1>3. Calm /\ commit = NoCommit => Read = disk
  BY <1>1, <1>2 DEF SessionInv, Kept
<1> QED  BY <1>1, <1>3 DEF SessionInv, Types, Elapsed

\* A commit starts with the session that is durable.
LEMMA StartCommit ==
    ASSUME SessionInv, Types', CommitOK', commit = NoCommit,
           UNCHANGED <<sessions, ledger, faults>>, clock <= clock',
           commit'.stage \in {"settle", "route", "save"},
           Calm => /\ commit'.of = disk
                   /\ commit'.stage # "settle" /\ disk.state = "active"
                         => GoesOn(commit'.saves[1], disk.start),
           Happened = 0 => /\ Fits(commit'.saves[1])
                           /\ commit'.stage = "settle" => FitsAfter(commit'.saves[1], commit'.end)
    PROVE  SessionInv'
<1>1. /\ disk' = disk /\ mirror' = mirror /\ ledger' = ledger /\ faults' = faults
  BY DEF sessions
<1>2. Calm' = Calm /\ Happened' = Happened
  BY <1>1 DEF Calm, NoFault, Happened
<1>3. commit.stage # "mirror" /\ commit' # NoCommit
  BY DEF NoCommit
<1>4. Elapsed'
  <2>1. clock \in Nat /\ clock' \in Nat /\ \A g \in ledger : g.end \in Nat
    BY Clocks DEF SessionInv, Types
  <2>2. disk.start \in Nat /\ (mirror # NoMirror => mirror.start \in Nat)
    BY SessionParts DEF SessionInv, Types
  <2> QED  BY <1>1, <2>1, <2>2 DEF SessionInv, Elapsed
<1>5. Kept'
  <2>2. CASE ~Calm
    BY <1>2, <2>2 DEF Kept
  <2>3. CASE Calm
    BY <1>1, <1>2, <1>3, <2>3 DEF SessionInv, Kept, GoesOn, Covered
  <2> QED  BY <2>2, <2>3
<1>6. Once'
  <2>1. CASE Happened # 0
    BY <1>2, <2>1 DEF Once
  <2>2. CASE Happened = 0
    <3>1. Calm /\ commit'.of = disk
      BY <2>2, NothingHappened DEF SessionInv
    <3>2. Fits(disk) /\ CountedOnce
      BY <2>2 DEF SessionInv, Once
    <3> QED  BY <1>1, <1>2, <1>3, <2>2, <3>1, <3>2
                DEF Once, Fits, FitsAfter, CountedOnce, Overlap
  <2> QED  BY <2>1, <2>2
<1> QED  BY <1>4, <1>5, <1>6 DEF SessionInv

\* The record of a commit that starts.
LEMMA RunRecord ==
    ASSUME Types, NEW by \in Instants, NEW s \in TimedSession, NEW end \in Instants,
           NEW as \in Modes \cup {Unknown}, NEW saves \in Seq(TimedSession),
           NEW cache \in {"kept", "stored"} \cup Modes, Run(by, s, end, as, saves, cache)
    PROVE  /\ commit' \in CommitType
           /\ commit'.stage \in {"settle", "route", "save"}
           /\ commit'.stage = "settle" <=> s.start < end
           /\ commit'.by = by /\ commit'.of = s /\ commit'.end = end
           /\ commit'.saves = saves /\ commit'.cache = cache /\ commit'.as = as
           /\ Asks' => saves[1].guess /\ by = Nothing
<1> DEFINE next == IF saves[1].guess /\ by = Nothing THEN "route" ELSE "save"
           stage == IF end > s.start THEN "settle" ELSE next
<1>1. commit' = [stage |-> stage, next |-> next, by |-> by, of |-> s, end |-> end, as |-> as,
                 saves |-> saves, cache |-> cache]
  BY DEF Run
<1>2. next \in {"route", "save"} /\ stage \in {"settle", "route", "save"}
  OBVIOUS
<1>3. stage = "settle" <=> s.start < end
  BY SessionParts, Clocks
<1>4. next = "route" \/ stage = "route" => saves[1].guess /\ by = Nothing
  OBVIOUS
<1> HIDE DEF stage, next
<1> QED  BY <1>1, <1>2, <1>3, <1>4 DEF CommitType, Asks

\* An event, a timer or the browser's start begins a commit.
LEMMA Operate ==
    ASSUME SessionInv, Operation, startup' \in BOOLEAN, NEW t \in Later, clock' = t,
           NEW saves \in Seq(TimedSession), SavesOK(saves),
           \A i \in DOMAIN saves : saves[i].start <= t, saves[1].guess => saves[1].beat = t,
           NEW end \in Instants, end <= t, end > Read.start => Read.state = "active",
           NEW as \in Modes \cup {Unknown}, NEW cache \in {"kept", "stored"} \cup Modes,
           Run(Nothing, Read, end, as, saves, cache),
           Read.state = "active" /\ ~(end > Read.start) => GoesOn(saves[1], Read.start),
           Happened = 0 => Fits(saves[1]), FitsAfter(saves[1], end)
    PROVE  SessionInv'
<1>1. /\ Read \in TimedSession /\ Read.start <= clock /\ commit = NoCommit
      /\ Calm => Read = disk
  BY ReadIsDisk DEF Operation
<1>2. /\ commit' \in CommitType
      /\ commit'.stage \in {"settle", "route", "save"}
      /\ commit'.stage = "settle" <=> Read.start < end
      /\ commit'.by = Nothing /\ commit'.of = Read /\ commit'.end = end
      /\ commit'.saves = saves /\ (Asks' => saves[1].guess)
  BY <1>1, NothingIsAnInstant, RunRecord DEF SessionInv
<1>3. t \in Instants /\ t \in Nat /\ clock \in Nat /\ clock <= t /\ end \in Nat /\ t # Nothing
      /\ Read.start \in Nat
  BY <1>1, Clocks, SessionParts DEF Later, SessionInv, Types, Nothing
<1>4. /\ UNCHANGED disk /\ UNCHANGED mirror /\ UNCHANGED cached /\ UNCHANGED mode
      /\ UNCHANGED changes /\ UNCHANGED contested /\ UNCHANGED modeAt /\ UNCHANGED intents /\ UNCHANGED drain
      /\ UNCHANGED split /\ UNCHANGED ledger /\ UNCHANGED faults
  BY DEF Operation, sessions, modes, queue
<1>5. Types'
  <2>1. /\ \A b \in intents : b.at \in Nat
        /\ \A c \in changes : c.at \in Nat
    BY IntentParts DEF SessionInv
  <2> QED  BY <1>2, <1>3, <1>4, <2>1 DEF SessionInv, Types
<1>6. commit' # NoCommit /\ ~(end < Read.start /\ Read.start < end)
  BY <1>2, <1>3 DEF NoCommit
<1>7. CommitOK'
  <2>1. Asks' => commit'.saves[1].beat # Nothing /\ commit'.saves[1].beat <= clock'
    BY <1>2, <1>3
  <2> QED  BY <1>1, <1>2, <1>3, <1>6, <2>1 DEF CommitOK, SavesOK
<1>8. Calm => /\ commit'.of = disk
              /\ commit'.stage # "settle" /\ disk.state = "active"
                    => GoesOn(commit'.saves[1], disk.start)
  BY <1>1, <1>2, <1>3
<1>9. Happened = 0 => /\ Fits(commit'.saves[1])
                      /\ commit'.stage = "settle" => FitsAfter(commit'.saves[1], commit'.end)
  BY <1>2
<1> QED
  BY <1>1, <1>2, <1>3, <1>4, <1>5, <1>7, <1>8, <1>9, StartCommit DEF sessions

(***************************************************************************)
(* The steps of a commit.                                                  *)
(***************************************************************************)
\* The sessions a commit saves, one by one.
LEMMA SavesParts ==
    ASSUME NEW saves \in Seq(TimedSession), SavesOK(saves)
    PROVE  /\ Head(saves) = saves[1] /\ saves[1] \in TimedSession /\ 1 \in DOMAIN saves
           /\ Len(saves) # 1 => /\ Tail(saves) \in Seq(TimedSession) /\ Len(Tail(saves)) = 1
                                /\ Tail(saves)[1] = saves[2] /\ DOMAIN Tail(saves) = {1}
                                /\ 2 \in DOMAIN saves /\ saves[2] \in TimedSession
<1>1. Len(saves) \in Nat /\ DOMAIN saves = 1 .. Len(saves) /\ Len(saves) \in {1, 2}
  BY LenProperties DEF SavesOK
<1>2. \A i \in DOMAIN saves : saves[i] \in TimedSession
  BY <1>1, ElementOfSeq
<1>3. saves # << >>
  BY <1>1
<1>4. Head(saves) = saves[1] /\ saves[1] \in TimedSession /\ 1 \in DOMAIN saves
  BY <1>1, <1>2, <1>3, HeadTailProperties
<1>5. CASE Len(saves) = 2
  <2>1. /\ Tail(saves) \in Seq(TimedSession) /\ Len(Tail(saves)) = Len(saves) - 1
        /\ \A i \in 1 .. Len(Tail(saves)) : Tail(saves)[i] = saves[i + 1]
    BY <1>3, HeadTailProperties
  <2>2. Len(Tail(saves)) = 1 /\ DOMAIN Tail(saves) = 1 .. 1
    <3>1. Len(Tail(saves)) = 1
      BY <1>5, <2>1
    <3>2. DOMAIN Tail(saves) = 1 .. Len(Tail(saves))
      BY <2>1, LenProperties
    <3> QED  BY <3>1, <3>2
  <2>3. 1 .. 1 = {1} /\ Tail(saves)[1] = saves[2]
    BY <2>1, <2>2
  <2> QED  BY <1>1, <1>2, <1>4, <1>5, <2>1, <2>2, <2>3
<1> QED  BY <1>1, <1>4, <1>5

\* What a running commit consists of.
LEMMA InCommitParts ==
    ASSUME SessionInv, commit # NoCommit
    PROVE  /\ commit \in CommitType /\ SavesOK(commit.saves)
           /\ commit.end <= clock /\ commit.of.start <= clock
           /\ commit.of \in TimedSession /\ commit.end \in Instants /\ commit.end \in Nat
           /\ commit.of.start \in Nat /\ clock \in Nat
           /\ commit.saves \in Seq(TimedSession) /\ Head(commit.saves) = commit.saves[1]
           /\ commit.saves[1] \in TimedSession /\ commit.saves[1].start <= clock
           /\ commit.stage = "settle" => commit.of.state = "active" /\ commit.of.start < commit.end
           /\ commit.next \in {"route", "save"} /\ commit.stage # "free"
<1>1. commit \in CommitType /\ commit.stage # "free"
  BY CommitParts DEF SessionInv
<1>2. commit.of \in TimedSession /\ commit.end \in Instants /\ commit.saves \in Seq(TimedSession)
      /\ commit.next \in {"route", "save"}
  BY <1>1 DEF CommitType
<1>3. SavesOK(commit.saves)
  BY DEF SessionInv, CommitOK
<1>4. Head(commit.saves) = commit.saves[1] /\ commit.saves[1] \in TimedSession
      /\ 1 \in DOMAIN commit.saves
  BY <1>2, <1>3, SavesParts
<1>5. commit.of.start \in Nat /\ clock \in Nat /\ commit.end \in Nat
  BY <1>2, SessionParts, Clocks DEF SessionInv, Types
<1> QED  BY <1>1, <1>2, <1>3, <1>4, <1>5 DEF SessionInv, CommitOK

\* A commit that goes on to another stage with the same sessions.
LEMMA StageType ==
    ASSUME commit \in CommitType, NEW stage \in {"settle", "route", "wait", "save", "mirror"},
           commit' = [commit EXCEPT !.stage = stage]
    PROVE  /\ commit' \in CommitType /\ commit' # NoCommit /\ commit'.stage = stage
           /\ commit'.by = commit.by /\ commit'.of = commit.of /\ commit'.end = commit.end
           /\ commit'.saves = commit.saves /\ commit'.next = commit.next
           /\ commit'.cache = commit.cache /\ commit'.as = commit.as
BY DEF CommitType, NoCommit

\* The time of the session is settled.
LEMMA SegmentParts ==
    ASSUME SessionInv, commit.stage = "settle"
    PROVE  /\ Segment.start = commit.of.start /\ Segment.guess = commit.of.guess
           /\ Segment.start \in Nat /\ Segment.end \in Nat
           /\ {Segment.start, Segment.end} \subseteq Instants
           /\ Segment.start < Segment.end /\ Segment.end <= commit.end
           /\ Segment.end - Segment.start <= Checkpoint
           /\ Segment.mode \in Modes \cup {Unknown}
<1>1. commit # NoCommit
  BY DEF NoCommit
<1>2. /\ commit \in CommitType /\ commit.of.start < commit.end /\ commit.end \in Instants
      /\ commit.of.start \in Nat /\ commit.end \in Nat /\ commit.of.start \in Instants
  BY <1>1, InCommitParts, SessionParts
<1>3. Segment.end = Lesser(commit.end, commit.of.start + Checkpoint)
  BY DEF Segment
<1>4. /\ Segment.end \in Nat /\ Segment.end <= commit.end /\ commit.of.start < Segment.end
      /\ Segment.end - commit.of.start <= Checkpoint
  BY <1>2, <1>3, Clocks DEF Lesser
<1>5. Segment.end \in Instants
  BY <1>2, <1>4, TimesAreCounts DEF Instants
<1>6. Segment.mode \in Modes \cup {Unknown}
  BY <1>2 DEF Segment, CommitType, SessionInv, Types
<1> QED  BY <1>2, <1>4, <1>5, <1>6 DEF Segment

LEMMA OverlapParts ==
    ASSUME NEW g, NEW h, g.start \in Nat, g.end \in Nat, h.start \in Nat, h.end \in Nat
    PROVE  /\ Overlap(g, h) \in Int /\ Overlap(g, h) <= g.end - h.start
           /\ Overlap(g, h) = Overlap(h, g)
<1> DEFINE a == g.start  b == g.end  c == h.start  d == h.end
<1>1. a \in Nat /\ b \in Nat /\ c \in Nat /\ d \in Nat
  OBVIOUS
<1>2. /\ Overlap(g, h) = Lesser(b, d) - Greater(a, c)
      /\ Overlap(h, g) = Lesser(d, b) - Greater(c, a)
  BY DEF Overlap
<1> HIDE DEF a, b, c, d
<1>3. /\ Lesser(b, d) - Greater(a, c) \in Int
      /\ Lesser(b, d) - Greater(a, c) <= b - c
      /\ Lesser(b, d) - Greater(a, c) = Lesser(d, b) - Greater(c, a)
  BY <1>1 DEF Lesser, Greater
<1>4. Overlap(g, h) <= b - c
  BY <1>2, <1>3
<1> QED  BY <1>2, <1>3, <1>4 DEF b, c

\* A session whose time was settled up to its start overlaps what was settled
\* by no more than an estimate.
LEMMA OverlapBound ==
    ASSUME NEW s \in TimedSession, s.state = "active", NEW k, NEW g, g.end \in Nat, g.start \in Nat,
           k.start = s.start, k.guess = s.guess, k.end \in Nat, FitsAfter(s, g.end)
    PROVE  Overlap(g, k) <= 0 \/ (k.guess /\ Overlap(g, k) <= Repair)
<1> DEFINE o == Overlap(g, k)
           e == g.end
           b == s.start
           t == s.beat
<1>1. /\ b \in Nat /\ t \in Nat /\ e \in Nat /\ Repair \in Nat
      /\ s.guess => t <= b + Repair
  BY SessionParts, Clocks
<1>2. o \in Int /\ o <= e - b
  BY <1>1, OverlapParts
<1>3. e <= b \/ (k.guess /\ e <= t)
  BY DEF FitsAfter
<1>4. k.guess => t <= b + Repair
  BY <1>1
<1> HIDE DEF o, e, b, t
<1>5. o <= 0 \/ (k.guess /\ o <= Repair)
  BY <1>1, <1>2, <1>3, <1>4
<1> QED  BY <1>5 DEF o

\* A commit that ends tells its drain.
LEMMA EndKeeps ==
    ASSUME SessionInv, commit # NoCommit, NEW ok \in BOOLEAN, EndCommit(ok)
    PROVE  /\ commit' = NoCommit /\ drain' \in DrainType
           /\ drain'.done \subseteq {b.at : b \in intents}
<1>1. drain \in DrainType /\ drain.done \subseteq Instants /\ commit.by \in Instants
      /\ drain.done \subseteq {b.at : b \in intents}
  BY IntentParts, CommitParts DEF SessionInv, CommitType
<1>2. commit.by # Nothing => commit.by \in {b.at : b \in intents}
  BY DEF SessionInv, CommitOK, Waiting
<1>3. \/ drain' = drain
      \/ commit.by # Nothing /\ drain' = [drain EXCEPT !.done = @ \cup {commit.by}]
      \/ drain' = [drain EXCEPT !.ok = FALSE]
  BY DEF EndCommit
<1>4. drain' \in DrainType /\ drain'.done \subseteq {b.at : b \in intents}
  BY <1>1, <1>2, <1>3 DEF DrainType
<1> QED  BY <1>4 DEF EndCommit

\* The ledger gets the segment: it fits before the session that follows.
LEMMA SettleKeeps ==
    ASSUME SessionInv, Settle
    PROVE  SessionInv'
<1>1. /\ commit.stage = "settle" /\ ledger' = ledger \cup {Segment}
      /\ commit' = [commit EXCEPT !.stage = commit.next]
      /\ UNCHANGED <<clock, disk, mirror, mode, changes, contested, modeAt, intents, startup, split>>
      /\ UNCHANGED cached /\ UNCHANGED drain /\ UNCHANGED faults
  BY DEF Settle, InCommit, sessions, modes
<1>2. commit # NoCommit
  BY <1>1 DEF NoCommit
<1>3. /\ commit \in CommitType /\ SavesOK(commit.saves)
      /\ commit.end <= clock /\ commit.of.start <= clock
      /\ commit.of \in TimedSession /\ commit.end \in Nat
      /\ commit.of.start \in Nat /\ clock \in Nat
      /\ commit.saves[1] \in TimedSession
      /\ commit.of.state = "active" /\ commit.of.start < commit.end
      /\ commit.next \in {"route", "save"}
  BY <1>1, <1>2, InCommitParts
<1>4. /\ commit' \in CommitType /\ commit' # NoCommit /\ commit'.stage = commit.next
      /\ commit'.by = commit.by /\ commit'.of = commit.of /\ commit'.end = commit.end
      /\ commit'.saves = commit.saves
  BY <1>1, <1>3, StageType
<1>5. /\ Segment.start = commit.of.start /\ Segment.guess = commit.of.guess
      /\ Segment.start \in Nat /\ Segment.end \in Nat
      /\ {Segment.start, Segment.end} \subseteq Instants
      /\ Segment.start < Segment.end /\ Segment.end <= commit.end
      /\ Segment.end - Segment.start <= Checkpoint
      /\ Segment.mode \in Modes \cup {Unknown}
  BY <1>1, SegmentParts
<1>6. \A g \in ledger : g.start \in Nat /\ g.end \in Nat
  BY Clocks DEF SessionInv, Types
<1>7. Types'
  BY <1>1, <1>4, <1>5 DEF SessionInv, Types
<1>8. CommitOK'
  <2>1. Asks' => Asks
    BY <1>1, <1>4 DEF Asks
  <2> QED  BY <1>1, <1>2, <1>3, <1>4, <2>1 DEF SessionInv, CommitOK, SavesOK, Waiting
<1>9. Elapsed'
  BY <1>1, <1>3, <1>5 DEF SessionInv, Elapsed
<1>10. Kept'
  <2>1. Calm' = Calm
    BY <1>1 DEF Calm, NoFault
  <2>2. CASE Calm
    <3>1. disk = commit.of /\ mirror \in {disk, NoMirror}
      BY <1>1, <2>2 DEF SessionInv, Kept
    <3>2. Covered(disk.start)'
      BY <1>1, <1>5, <3>1 DEF Covered
    <3> QED  BY <1>1, <1>3, <1>4, <3>1, <3>2 DEF Kept, Covered
  <2> QED  BY <2>1, <2>2 DEF Kept
<1>11. Once'
  <2>1. Happened' = Happened
    BY <1>1 DEF Happened
  <2>2. CASE Happened = 0
    <3>1. /\ CountedOnce /\ Fits(commit.of) /\ Fits(commit.saves[1])
          /\ FitsAfter(commit.saves[1], commit.end)
      BY <1>1, <1>2, <2>2 DEF SessionInv, Once
    <3>2. \A g \in ledger : \/ Overlap(g, Segment) <= 0
                            \/ Segment.guess /\ Overlap(g, Segment) <= Repair
      BY <1>3, <1>5, <1>6, <3>1, OverlapBound DEF Fits
    <3>3. \A g \in ledger : Overlap(Segment, g) = Overlap(g, Segment)
      BY <1>5, <1>6, OverlapParts
    <3>4. CountedOnce'
      BY <1>1, <3>1, <3>2, <3>3 DEF CountedOnce, Overlap
    <3>5. FitsAfter(commit.saves[1], Segment.end)
      <4>1. commit.saves[1].start \in Nat /\ commit.saves[1].beat \in Nat
        BY <1>3, SessionParts
      <4> QED  BY <1>3, <1>5, <3>1, <4>1 DEF FitsAfter
    <3>6. Fits(commit.saves[1])'
      BY <1>1, <1>4, <3>1, <3>5 DEF Fits, FitsAfter
    <3> QED  BY <1>1, <1>3, <1>4, <3>4, <3>6 DEF Once
  <2> QED  BY <2>1, <2>2 DEF Once
<1> QED  BY <1>7, <1>8, <1>9, <1>10, <1>11 DEF SessionInv

\* The journal cannot be written: the session stays as it was.
LEMMA RejectKeeps ==
    ASSUME SessionInv, commit # NoCommit, commit.stage # "mirror", Fail("reject"), EndCommit(FALSE),
           UNCHANGED <<clock, modes, intents, startup, split>>,
           UNCHANGED <<disk, mirror, ledger>>, cached' \in Modes \cup {Unknown}
    PROVE  SessionInv'
<1>1. /\ faults' \in [Faults -> Nat] /\ Happened' # 0 /\ Calm' = Calm
  BY RejectCounts DEF SessionInv
<1>2. commit' = NoCommit /\ drain' \in DrainType /\ drain'.done \subseteq {b.at : b \in intents}
  BY EndKeeps
<1>3. UNCHANGED <<mode, changes, contested, modeAt>>
  BY DEF modes
<1>4. Types'
  BY <1>1, <1>2, <1>3 DEF SessionInv, Types
<1>5. CommitOK' /\ Elapsed'
  BY <1>2 DEF SessionInv, CommitOK, Elapsed
<1>6. Kept'
  BY <1>1, <1>2 DEF SessionInv, Kept, NoCommit
<1>7. Once'
  BY <1>1 DEF Once
<1> QED  BY <1>4, <1>5, <1>6, <1>7 DEF SessionInv

\* The commit asks for access, and goes on.
LEMMA GoOnKeeps ==
    ASSUME SessionInv, commit.stage \in {"route", "wait"}, NEW stage \in {"wait", "save"},
           commit' = [commit EXCEPT !.stage = stage], Types', clock <= clock',
           UNCHANGED <<sessions, queue, ledger, faults>>
    PROVE  SessionInv'
<1>1. /\ disk' = disk /\ mirror' = mirror /\ ledger' = ledger /\ faults' = faults
      /\ intents' = intents /\ drain' = drain
  BY DEF sessions, queue
<1>2. commit # NoCommit
  BY DEF NoCommit
<1>3. /\ commit \in CommitType /\ commit.end \in Nat /\ commit.of.start \in Nat
      /\ commit.saves \in Seq(TimedSession)
  BY <1>2, InCommitParts
<1>4. /\ commit' # NoCommit /\ commit'.stage = stage
      /\ commit'.by = commit.by /\ commit'.of = commit.of /\ commit'.end = commit.end
      /\ commit'.saves = commit.saves
  BY <1>3, StageType
<1>5. clock \in Nat /\ clock' \in Nat /\ \A g \in ledger : g.end \in Nat
  BY Clocks DEF SessionInv, Types
<1>6. \A i \in DOMAIN commit.saves : commit.saves[i].start \in Nat
  BY <1>3, ElementOfSeq, LenProperties, SessionParts
<1>7. disk.start \in Nat /\ (mirror # NoMirror => mirror.start \in Nat)
  BY SessionParts DEF SessionInv, Types
<1>8. CommitOK'
  <2>1. ~Asks'
    BY <1>4 DEF Asks
  <2> QED  BY <1>1, <1>2, <1>3, <1>4, <1>5, <1>6, <2>1 DEF SessionInv, CommitOK, SavesOK, Waiting
<1>9. Elapsed'
  BY <1>1, <1>5, <1>7 DEF SessionInv, Elapsed
<1>10. Kept'
  BY <1>1, <1>4 DEF SessionInv, Kept, Calm, NoFault, Covered, GoesOn
<1>11. Once'
  BY <1>1, <1>2, <1>4 DEF SessionInv, Once, Happened, CountedOnce, Overlap, Fits, FitsAfter
<1> QED  BY <1>8, <1>9, <1>10, <1>11 DEF SessionInv

\* The persistent copy is the session that follows.
LEMMA SaveKeeps ==
    ASSUME SessionInv, Save
    PROVE  SessionInv'
<1>1. /\ commit.stage = "save" /\ commit # NoCommit
      /\ UNCHANGED <<clock, modes, intents, startup, split>> /\ UNCHANGED <<mirror, ledger>>
  BY DEF Save, InCommit, NoCommit
<1>2. /\ commit \in CommitType /\ SavesOK(commit.saves)
      /\ commit.end <= clock /\ commit.of.start <= clock
      /\ Head(commit.saves) = commit.saves[1]
      /\ commit.saves[1] \in TimedSession /\ commit.saves[1].start <= clock
  BY <1>1, InCommitParts
<1>3. cached' \in Modes \cup {Unknown}
  <2>1. commit.cache \in {"kept", "stored"} \cup Modes
    BY <1>2 DEF CommitType
  <2>2. cached' = CASE commit.cache = "kept" -> cached
                    [] commit.cache = "stored" -> mode
                    [] OTHER -> commit.cache
    BY DEF Save
  <2> QED  BY <2>1, <2>2 DEF SessionInv, Types
<1>4. CASE Fail("reject") /\ EndCommit(FALSE) /\ UNCHANGED disk
  BY <1>1, <1>3, <1>4, RejectKeeps
<1>5. CASE /\ disk' = Head(commit.saves)
           /\ commit' = [commit EXCEPT !.stage = "mirror", !.cache = "kept"]
           /\ UNCHANGED <<drain, faults>>
  <2>1. /\ commit' \in CommitType /\ commit' # NoCommit /\ commit'.stage = "mirror"
        /\ commit'.by = commit.by /\ commit'.of = commit.of /\ commit'.end = commit.end
        /\ commit'.saves = commit.saves
    BY <1>2, <1>5 DEF CommitType, NoCommit
  <2>2. disk' = commit.saves[1] /\ mirror' = mirror /\ ledger' = ledger /\ clock' = clock
    BY <1>1, <1>2, <1>5
  <2>3. UNCHANGED <<mode, changes, contested, modeAt>>
    BY <1>1 DEF modes
  <2>4. Types'
    BY <1>1, <1>2, <1>3, <1>5, <2>1, <2>2, <2>3 DEF SessionInv, Types
  <2>5. CommitOK'
    <3>1. ~Asks'
      BY <2>1 DEF Asks
    <3> QED  BY <1>1, <1>2, <1>5, <2>1, <3>1 DEF SessionInv, CommitOK, SavesOK, Waiting
  <2>6. Elapsed'
    BY <1>2, <2>2 DEF SessionInv, Elapsed
  <2>7. Kept'
    BY <2>1, <2>2 DEF Kept
  <2>8. Once'
    BY <1>1, <1>5, <2>1, <2>2
       DEF SessionInv, Once, Happened, CountedOnce, Overlap, Fits, FitsAfter
  <2> QED  BY <2>4, <2>5, <2>6, <2>7, <2>8 DEF SessionInv
<1> QED  BY <1>4, <1>5 DEF Save

\* The mirror follows, or is lost; a second save is the same session.
LEMMA MirrorKeeps ==
    ASSUME SessionInv, Mirror
    PROVE  SessionInv'
<1>1. /\ commit.stage = "mirror" /\ commit # NoCommit
      /\ UNCHANGED <<clock, modes, intents, startup, split>>
      /\ UNCHANGED disk /\ UNCHANGED cached /\ UNCHANGED ledger
  BY DEF Mirror, InCommit, NoCommit
<1>2. UNCHANGED <<mode, changes, contested, modeAt>>
  BY <1>1 DEF modes
<1>3. /\ commit \in CommitType /\ SavesOK(commit.saves) /\ commit.saves \in Seq(TimedSession)
      /\ commit.end <= clock /\ commit.of.start <= clock
      /\ Head(commit.saves) = commit.saves[1]
      /\ commit.saves[1] \in TimedSession /\ commit.saves[1].start <= clock
  BY <1>1, InCommitParts
<1>4. /\ mirror' \in TimedSession \cup {NoMirror}
      /\ mirror' # NoMirror => mirror'.start <= clock
      /\ faults' \in [Faults -> Nat]
      /\ Calm' => Calm /\ mirror' = commit.saves[1]
      /\ Happened' = 0 => Happened = 0
  <2>1. CASE mirror' = Head(commit.saves) /\ UNCHANGED faults
    BY <1>3, <2>1 DEF SessionInv, Types, Calm, NoFault, Happened
  <2>2. CASE Fail("mirror") /\ UNCHANGED mirror
    <3>1. faults' \in [Faults -> Nat] /\ Happened' # 0 /\ faults'["mirror"] # 0
      BY <2>2, FaultCounts DEF SessionInv, Faults
    <3>2. ~Calm'
      BY <3>1 DEF Calm, NoFault
    <3> QED  BY <2>2, <3>1, <3>2 DEF SessionInv, Types, Elapsed
  <2> QED  BY <2>1, <2>2 DEF Mirror
<1>5. Calm => disk = commit.saves[1]
  BY <1>1 DEF SessionInv, Kept
<1>6. Elapsed'
  BY <1>1, <1>4 DEF SessionInv, Elapsed
<1>7. Happened = 0 => CountedOnce /\ Fits(commit.saves[1]) /\ Fits(disk)
  BY <1>1, <1>5, NothingHappened DEF SessionInv, Once
<1>8. CASE Len(commit.saves) = 1 /\ EndCommit(TRUE)
  <2>1. commit' = NoCommit /\ drain' \in DrainType /\ drain'.done \subseteq {b.at : b \in intents}
    BY <1>1, <1>8, EndKeeps
  <2>2. Types'
    BY <1>1, <1>2, <1>4, <2>1 DEF SessionInv, Types
  <2>3. CommitOK'
    BY <2>1 DEF CommitOK
  <2>4. Kept'
    BY <1>1, <1>4, <1>5, <2>1 DEF Kept, NoCommit
  <2>5. Once'
    BY <1>1, <1>4, <1>7, <2>1 DEF Once, NoCommit, CountedOnce, Overlap, Fits, FitsAfter
  <2> QED  BY <1>6, <2>2, <2>3, <2>4, <2>5 DEF SessionInv
<1>9. CASE /\ Len(commit.saves) # 1 /\ UNCHANGED drain
           /\ commit' = [commit EXCEPT !.stage = "save", !.saves = Tail(@)]
  <2>1. /\ Tail(commit.saves) \in Seq(TimedSession) /\ Len(Tail(commit.saves)) = 1
        /\ Tail(commit.saves)[1] = commit.saves[2] /\ DOMAIN Tail(commit.saves) = {1}
        /\ 2 \in DOMAIN commit.saves /\ commit.saves[2] \in TimedSession
    BY <1>3, <1>9, SavesParts
  <2>2. /\ commit' \in CommitType /\ commit' # NoCommit /\ commit'.stage = "save"
        /\ commit'.by = commit.by /\ commit'.of = commit.of /\ commit'.end = commit.end
        /\ commit'.saves = Tail(commit.saves)
    BY <1>3, <1>9, <2>1 DEF CommitType, NoCommit
  <2>3. /\ commit.saves[1].state = "active" /\ commit.saves[2].state = "active"
        /\ commit.saves[2].start = commit.saves[1].start
        /\ ~commit.saves[1].guess /\ ~commit.saves[2].guess
    BY <1>3, <1>9 DEF SavesOK
  <2>4. Types'
    BY <1>1, <1>2, <1>4, <1>9, <2>2 DEF SessionInv, Types
  <2>5. CommitOK'
    <3>1. commit.saves[2].start <= clock
      BY <1>1, <2>1 DEF SessionInv, CommitOK
    <3>2. ~Asks'
      BY <2>2 DEF Asks
    <3> QED  BY <1>1, <1>3, <1>9, <2>1, <2>2, <3>1, <3>2 DEF SessionInv, CommitOK, SavesOK, Waiting
  <2>6. Kept'
    <3>1. commit.saves[1].start \in Nat
      BY <1>3, SessionParts
    <3> QED  BY <1>1, <1>4, <1>5, <2>1, <2>2, <2>3, <3>1 DEF Kept, GoesOn
  <2>7. Fits(commit.saves[1]) => Fits(commit.saves[2])
    BY <2>3 DEF Fits, FitsAfter
  <2>8. Once'
    BY <1>1, <1>4, <1>7, <2>1, <2>2, <2>7 DEF Once, CountedOnce, Overlap, Fits, FitsAfter
  <2> QED  BY <1>6, <2>4, <2>5, <2>6, <2>8 DEF SessionInv
<1> QED  BY <1>8, <1>9 DEF Mirror

(***************************************************************************)
(* The operations.                                                         *)
(***************************************************************************)
\* A commit that saves one session.
LEMMA OneSave ==
    ASSUME NEW x \in TimedSession
    PROVE  /\ <<x>> \in Seq(TimedSession) /\ SavesOK(<<x>>) /\ <<x>>[1] = x
           /\ DOMAIN <<x>> = {1}
BY DEF SavesOK

LEMMA OperateOnce ==
    ASSUME SessionInv, Operation, startup' \in BOOLEAN, NEW t \in Later, clock' = t,
           NEW x \in TimedSession, x.start <= t, x.guess => x.beat = t,
           NEW end \in Instants, end <= t, end > Read.start => Read.state = "active",
           NEW as \in Modes \cup {Unknown}, NEW cache \in {"kept", "stored"} \cup Modes,
           Run(Nothing, Read, end, as, <<x>>, cache),
           Read.state = "active" => end > Read.start,
           Happened = 0 => Fits(x), FitsAfter(x, end)
    PROVE  SessionInv'
<1> DEFINE saves == <<x>>
<1>1. saves \in Seq(TimedSession) /\ SavesOK(saves) /\ saves[1] = x /\ DOMAIN saves = {1}
  BY OneSave
<1>2. Run(Nothing, Read, end, as, saves, cache)
  OBVIOUS
<1> HIDE DEF saves
<1> QED  BY <1>1, <1>2, Operate

\* An instant to come.
LEMMA LaterParts ==
    ASSUME SessionInv, NEW t \in Later
    PROVE  /\ t \in Instants /\ t \in Nat /\ clock \in Nat /\ clock < t /\ t > 0
           /\ Read \in TimedSession /\ Read.start \in Nat /\ Read.beat \in Nat /\ Read.start < t
           /\ \A g \in ledger : g.end \in Nat /\ g.end <= t
<1>1. t \in Instants /\ t \in Nat /\ clock \in Nat /\ clock < t
  BY Clocks DEF Later, SessionInv, Types
<1>2. Read \in TimedSession /\ Read.start \in Nat /\ Read.beat \in Nat /\ Read.start <= clock
  BY ReadIsDisk, SessionParts
<1>3. \A g \in ledger : g.end \in Nat /\ g.end <= clock
  BY Clocks DEF SessionInv, Types, Elapsed
<1> QED  BY <1>1, <1>2, <1>3

\* The sessions that are opened: nothing settled ends after they do.
LEMMA OpenedParts ==
    ASSUME SessionInv, NEW t \in Later, NEW s \in {"active", "idle"}
    PROVE  /\ Opened(s, t, t) \in TimedSession /\ Opened(s, t, t).start <= t /\ Fits(Opened(s, t, t))
           /\ \A e \in Nat : e <= t => FitsAfter(Opened(s, t, t), e)
           /\ ~Opened(s, t, t).guess
<1>1. t \in Instants /\ t \in Nat /\ \A g \in ledger : g.end \in Nat /\ g.end <= t
  BY LaterParts
<1> QED  BY <1>1 DEF Opened, TimedSession, Session, Fits, FitsAfter

LEMMA EmptyParts ==
    ASSUME NEW t \in Instants
    PROVE  /\ Empty(t) \in TimedSession /\ Empty(t).start = 0 /\ Fits(Empty(t))
           /\ \A e : FitsAfter(Empty(t), e)
           /\ ~Empty(t).guess
BY TimesAreCounts DEF Empty, TimedSession, Session, Fits, FitsAfter, Instants

LEMMA GuessedParts ==
    ASSUME SessionInv, NEW t \in Later
    PROVE  /\ Guessed(t) \in TimedSession /\ Guessed(t).start <= t /\ Fits(Guessed(t))
           /\ \A e \in Nat : e <= t => FitsAfter(Guessed(t), e)
           /\ Guessed(t).beat = t
<1>1. t \in Instants /\ t \in Nat /\ \A g \in ledger : g.end \in Nat /\ g.end <= t
  BY LaterParts
<1>2. Repair \in Nat /\ Repair > 0
  BY Clocks
<1>3. Greater(0, t - Repair) \in Instants /\ Greater(0, t - Repair) <= t
      /\ t <= Greater(0, t - Repair) + Repair
  BY <1>1, <1>2, TimesAreCounts DEF Greater, Instants
<1> QED  BY <1>1, <1>3 DEF Guessed, TimedSession, Session, Fits, FitsAfter

\* The first instant, and how far a session is settled.
LEMMA CloseParts ==
    ASSUME SessionInv, NEW t \in Later
    PROVE  /\ BoundedClose(Read, t) \in Instants /\ BoundedClose(Read, t) <= t
           /\ BoundedClose(Read, t) > Read.start <=> Read.state = "active"
           /\ Nothing \in Instants /\ Nothing <= t /\ ~(Nothing > Read.start)
<1>1. /\ t \in Instants /\ t \in Nat /\ Read.start \in Nat /\ Read.start < t
  BY LaterParts
<1>2. Nothing \in Instants /\ Nothing = 0
  BY TimesAreCounts DEF Nothing, Instants
<1>3. CASE Read.state = "active"
  <2>1. BoundedClose(Read, t) = Lesser(t, Read.start + Checkpoint)
    BY <1>3 DEF BoundedClose
  <2>2. Lesser(t, Read.start + Checkpoint) \in Nat /\ Lesser(t, Read.start + Checkpoint) <= t
        /\ Lesser(t, Read.start + Checkpoint) > Read.start
    BY <1>1, Clocks DEF Lesser
  <2>3. Lesser(t, Read.start + Checkpoint) \in Instants
    BY <1>1, <2>2, TimesAreCounts DEF Instants
  <2> QED  BY <1>1, <1>2, <1>3, <2>1, <2>2, <2>3
<1>4. CASE Read.state # "active"
  BY <1>1, <1>2, <1>4 DEF BoundedClose
<1> QED  BY <1>3, <1>4

LEMMA EventKeeps ==
    ASSUME SessionInv, (\E to \in {"active", "idle"} : Transition(to)) \/ Close \/ CheckpointOpens
    PROVE  SessionInv'
<1>0. startup \in BOOLEAN
  BY DEF SessionInv, Types
<1>1. ASSUME NEW to \in {"active", "idle"}, Transition(to) PROVE SessionInv'
  <2>1. PICK t \in Later : /\ clock' = t
                           /\ Run(Nothing, Read, BoundedClose(Read, t), Unknown,
                                  <<Opened(to, t, t)>>, "stored")
    BY <1>1 DEF Transition
  <2>2. BoundedClose(Read, t) \in Nat
    BY CloseParts, Clocks
  <2> QED  BY <1>0, <1>1, <2>1, <2>2, OperateOnce, OpenedParts, CloseParts DEF Transition
<1>2. CASE Close
  <2>1. PICK t \in Later : /\ clock' = t
                           /\ Run(Nothing, Read, BoundedClose(Read, t), Unknown, <<Empty(t)>>, "kept")
    BY <1>2 DEF Close
  <2>2. t \in Instants /\ t \in Nat
    BY LaterParts
  <2>3. Empty(t).start <= t
    BY <2>2, EmptyParts
  <2> QED  BY <1>0, <1>2, <2>1, <2>2, <2>3, OperateOnce, EmptyParts, CloseParts DEF Close
<1>3. CASE CheckpointOpens
  <2>1. PICK t \in Later : /\ clock' = t
                           /\ Run(Nothing, Read, Nothing, Unknown, <<Guessed(t)>>, "stored")
    BY <1>3 DEF CheckpointOpens
  <2>2. Read.state = "none" /\ Nothing \in Nat
    BY <1>3, CloseParts, Clocks DEF CheckpointOpens
  <2> QED  BY <1>0, <1>3, <2>1, <2>2, OperateOnce, GuessedParts, CloseParts DEF CheckpointOpens
<1> QED  BY <1>1, <1>2, <1>3

LEMMA PopupKeeps ==
    ASSUME SessionInv, PopupFlush
    PROVE  SessionInv'
<1>1. PICK t \in Later : /\ clock' = t
                         /\ ReliableClose(Read, t) > Read.start
                         /\ Run(Nothing, Read, ReliableClose(Read, t), Unknown,
                                <<Opened("active", t, t)>>, "kept")
  BY DEF PopupFlush
<1>2. /\ Read.state = "active" /\ Operation /\ startup' \in BOOLEAN
  BY DEF PopupFlush, SessionInv, Types
<1>3. /\ t \in Instants /\ t \in Nat /\ Read \in TimedSession /\ Read.start < t
      /\ Read.start \in Instants /\ Read.beat \in Instants /\ Read.start \in Nat /\ Read.beat \in Nat
  BY LaterParts, SessionParts
<1>4. ReliableClose(Read, t) \in Instants /\ ReliableClose(Read, t) \in Nat
      /\ ReliableClose(Read, t) <= t
  BY <1>3, TimesAreCounts DEF ReliableClose, Greater
<1> DEFINE end == ReliableClose(Read, t)
<1>5. end \in Instants /\ end <= t /\ end > Read.start
      /\ Run(Nothing, Read, end, Unknown, <<Opened("active", t, t)>>, "kept")
  BY <1>1, <1>4
<1>6. /\ Opened("active", t, t) \in TimedSession /\ Opened("active", t, t).start <= t
      /\ Fits(Opened("active", t, t)) /\ FitsAfter(Opened("active", t, t), end)
      /\ ~Opened("active", t, t).guess
  BY <1>4, OpenedParts
<1> HIDE DEF end
<1> QED  BY <1>1, <1>2, <1>5, <1>6, OperateOnce

\* The session after a confirmed interval starts where the interval ends.
LEMMA ConfirmKeeps ==
    ASSUME SessionInv, CheckpointConfirms
    PROVE  SessionInv'
<1> DEFINE end == Read.start + Checkpoint
<1>1. PICK t \in Later : /\ clock' = t /\ IsDue(Read, t)
                         /\ Run(Nothing, Read, end, Unknown,
                                <<Opened("active", end, end), Opened("active", end, t)>>, "kept")
  BY DEF CheckpointConfirms
<1>2. /\ Operation /\ startup' \in BOOLEAN /\ Read.state = "active"
  BY <1>1 DEF CheckpointConfirms, SessionInv, Types, IsDue
<1>3. /\ t \in Instants /\ t \in Nat /\ Read \in TimedSession /\ Read.start \in Nat
      /\ Read.beat \in Nat /\ Read.guess \in BOOLEAN
      /\ Read.guess => Read.beat <= Read.start + Repair
      /\ \A g \in ledger : g.end \in Nat
  BY LaterParts, SessionParts
<1>4. end \in Nat /\ end <= t /\ end > Read.start
  BY <1>1, <1>3, Clocks DEF IsDue
<1>5. end \in Instants
  BY <1>3, <1>4, TimesAreCounts DEF Instants
<1> HIDE DEF end
<1> DEFINE x == Opened("active", end, end)
           y == Opened("active", end, t)
           saves == <<x, y>>
<1>6. /\ x \in TimedSession /\ y \in TimedSession /\ x.start = end /\ y.start = end
      /\ x.state = "active" /\ y.state = "active" /\ ~x.guess /\ ~y.guess
  BY <1>3, <1>5 DEF Opened, TimedSession, Session
<1>7. FitsAfter(x, end)
  BY <1>4, <1>6 DEF FitsAfter
<1>8. Happened = 0 => Fits(x)
  <2> SUFFICES ASSUME Happened = 0, NEW g \in ledger PROVE g.end <= end
    BY <1>6 DEF Fits, FitsAfter
  <2>1. Read = disk /\ commit = NoCommit
    BY <1>2, NothingHappened, ReadIsDisk DEF SessionInv, Operation
  <2>2. g.end <= Read.start \/ (Read.guess /\ g.end <= Read.beat)
    BY <1>2, <2>1 DEF SessionInv, Once, Fits, FitsAfter
  <2>3. Read.start + Repair < end
    BY <1>3, Clocks, RepairIsShorter DEF end
  <2> QED  BY <1>3, <1>4, <2>2, <2>3, Clocks
<1> HIDE DEF x, y
<1>9. /\ saves \in Seq(TimedSession) /\ SavesOK(saves) /\ saves[1] = x
      /\ \A i \in DOMAIN saves : saves[i].start <= t
      /\ ~saves[1].guess
  BY <1>4, <1>6 DEF SavesOK
<1>10. Run(Nothing, Read, end, Unknown, saves, "kept")
  BY <1>1 DEF x, y
<1> HIDE DEF saves
<1> QED
  BY <1>1, <1>2, <1>4, <1>5, <1>7, <1>8, <1>9, <1>10, Operate

LEMMA DoubtKeeps ==
    ASSUME SessionInv, NEW next \in {"active", "none"}, CheckpointDoubts(next)
    PROVE  SessionInv'
<1>1. PICK t \in Later :
          /\ clock' = t /\ IsDue(Read, t)
          /\ Run(Nothing, Read, Read.start + Lesser(t - Read.start, Repair), Unknown,
                 <<IF next = "active" THEN Guessed(t) ELSE Empty(t)>>,
                 IF next = "active" THEN "stored" ELSE "kept")
  BY DEF CheckpointDoubts
<1>2. /\ Operation /\ startup' \in BOOLEAN /\ Read.state = "active"
  BY <1>1 DEF CheckpointDoubts, SessionInv, Types, IsDue
<1>3. t \in Instants /\ t \in Nat /\ Read.start \in Nat /\ Read.start < t
  BY LaterParts
<1> DEFINE end == Read.start + Lesser(t - Read.start, Repair)
           x == IF next = "active" THEN Guessed(t) ELSE Empty(t)
           cache == IF next = "active" THEN "stored" ELSE "kept"
<1>4. end \in Nat /\ end <= t /\ end > Read.start
  BY <1>3, Clocks DEF Lesser
<1>5. end \in Instants
  BY <1>3, <1>4, TimesAreCounts DEF Instants
<1> HIDE DEF end
<1>6. /\ x \in TimedSession /\ x.start <= t /\ Fits(x) /\ FitsAfter(x, end)
      /\ x.guess => x.beat = t
  BY <1>3, <1>4, GuessedParts, EmptyParts
<1>7. cache \in {"kept", "stored"}
  OBVIOUS
<1>8. Run(Nothing, Read, end, Unknown, <<x>>, cache)
  BY <1>1 DEF end
<1> HIDE DEF x, cache
<1> QED  BY <1>1, <1>2, <1>4, <1>5, <1>6, <1>7, <1>8, OperateOnce

\* recover() settles at most a repair interval and leaves nothing open.
LEMMA RecoverKeeps ==
    ASSUME SessionInv, Recover
    PROVE  SessionInv'
<1>1. PICK t \in Later :
          /\ clock' = t
          /\ IF Read.state = "none" THEN UNCHANGED commit
             ELSE Run(Nothing, Read,
                      IF Read.state = "active" THEN Lesser(t, Read.start + Repair)
                      ELSE Nothing,
                      mode, <<Empty(t)>>, "kept")
  BY DEF Recover
<1>2. Operation /\ startup' \in BOOLEAN /\ commit = NoCommit
  BY DEF Recover, Operation
<1>3. t \in Instants /\ t \in Nat /\ Read.start \in Nat /\ Read.start < t /\ clock < t /\ clock \in Nat
  BY LaterParts
<1>4. CASE Read.state = "none"
  <2>1. UNCHANGED commit
    BY <1>1, <1>4
  <2>2. /\ UNCHANGED disk /\ UNCHANGED mirror /\ UNCHANGED cached /\ UNCHANGED mode
        /\ UNCHANGED changes /\ UNCHANGED contested /\ UNCHANGED modeAt /\ UNCHANGED intents /\ UNCHANGED drain
        /\ UNCHANGED split /\ UNCHANGED ledger /\ UNCHANGED faults
    BY <1>2 DEF Operation, sessions, modes, queue
  <2>3. (\A b \in intents : b.at \in Nat) /\ (\A c \in changes : c.at \in Nat)
    BY IntentParts DEF SessionInv
  <2>4. Types'
    BY <1>1, <1>2, <1>3, <2>1, <2>2, <2>3 DEF SessionInv, Types
  <2> QED  BY <1>1, <1>2, <1>3, <2>1, <2>2, <2>4, QuietStep DEF sessions
<1>5. CASE Read.state # "none"
  <2> DEFINE end == IF Read.state = "active" THEN Lesser(t, Read.start + Repair) ELSE Nothing
  <2>1. end \in Nat /\ end <= t /\ (end > Read.start <=> Read.state = "active")
    BY <1>3, Clocks DEF Lesser, Nothing
  <2>2. end \in Instants
    BY <1>3, <2>1, TimesAreCounts DEF Instants
  <2>3. Run(Nothing, Read, end, mode, <<Empty(t)>>, "kept")
    BY <1>1, <1>5
  <2> HIDE DEF end
  <2>4. /\ Empty(t) \in TimedSession /\ Empty(t).start <= t /\ Fits(Empty(t))
        /\ FitsAfter(Empty(t), end) /\ ~Empty(t).guess
    BY <1>3, EmptyParts
  <2>5. mode \in Modes \cup {Unknown}
    BY DEF SessionInv, Types
  <2> QED  BY <1>1, <1>2, <2>1, <2>2, <2>3, <2>4, <2>5, OperateOnce
<1> QED  BY <1>4, <1>5

(***************************************************************************)
(* Mode changes, the drain and the faults.                                 *)
(***************************************************************************)
\* A dispatch has decided on a mode change.
LEMMA DecideType ==
    ASSUME SessionInv, NEW at \in Instants, at # Nothing, at <= clock', NEW to \in Modes,
           Decide(at, to), clock' \in Instants, clock <= clock',
           UNCHANGED <<disk, mirror, cached, intents, drain, split, startup, ledger, faults>>,
           commit' \in CommitType \cup {NoCommit}
    PROVE  Types'
<1> DEFINE new == [stage |-> "save", at |-> at, from |-> mode, to |-> to]
<1>1. /\ changes' = changes \cup {new} /\ UNCHANGED mode /\ UNCHANGED modeAt
      /\ contested' = IF Rivals(at) = {} THEN contested ELSE contested \cup Rivals(at) \cup {at}
  BY DEF Decide
<1>2. mode \in Modes /\ clock \in Nat /\ clock' \in Nat /\ split \cup contested \subseteq Instants
  BY Clocks DEF SessionInv, Types
<1>3. new \in ChangeType /\ new.at = at
  BY <1>2 DEF ChangeType
<1>4. /\ \A b \in intents : b.at \in Instants /\ b.at \in Nat
      /\ \A c \in changes : c.at \in Instants /\ c.at \in Nat
  BY IntentParts DEF SessionInv
<1>5. Rivals(at) \subseteq Instants
  BY <1>2, <1>4 DEF Rivals
<1>6. contested' \subseteq Instants
  BY <1>1, <1>2, <1>5
<1> HIDE DEF new
<1> QED  BY <1>1, <1>2, <1>3, <1>4, <1>6 DEF SessionInv, Types

LEMMA DecideKeeps ==
    ASSUME SessionInv, NEW to \in Modes, DecideMode(to)
    PROVE  SessionInv'
<1>1. PICK t \in Later : clock' = t /\ Decide(t, to)
  BY DEF DecideMode
<1>2. /\ UNCHANGED disk /\ UNCHANGED mirror /\ UNCHANGED cached
      /\ UNCHANGED intents /\ UNCHANGED drain /\ UNCHANGED split /\ UNCHANGED commit
      /\ UNCHANGED startup /\ UNCHANGED ledger /\ UNCHANGED faults
  BY DEF DecideMode, sessions, queue
<1>3. t \in Instants /\ t \in Nat /\ clock \in Nat /\ clock < t /\ t # Nothing
  BY LaterParts DEF Nothing
<1>4. Types' /\ clock <= clock'
  BY <1>1, <1>2, <1>3, DecideType DEF SessionInv, Types
<1> QED  BY <1>2, <1>4, QuietStep DEF sessions, SessionInv, CommitOK, Waiting

LEMMA RouteKeeps ==
    ASSUME SessionInv, Route \/ (\E to \in Modes : RouteChangesMode(to)) \/ Routed
    PROVE  SessionInv'
<1>1. CASE Route \/ Routed
  <2>1. /\ commit.stage \in {"route", "wait"} /\ commit' = [commit EXCEPT !.stage = "save"]
        /\ UNCHANGED disk /\ UNCHANGED mirror /\ UNCHANGED cached /\ UNCHANGED drain
        /\ UNCHANGED ledger /\ UNCHANGED faults /\ UNCHANGED clock /\ UNCHANGED mode
        /\ UNCHANGED changes /\ UNCHANGED contested /\ UNCHANGED modeAt /\ UNCHANGED intents /\ UNCHANGED startup
        /\ UNCHANGED split
    BY <1>1 DEF Route, Routed, InCommit, sessions, modes
  <2>2. commit # NoCommit
    BY <2>1 DEF NoCommit
  <2>3. commit' \in CommitType
    BY <2>1, <2>2, InCommitParts, StageType
  <2>4. Types' /\ clock <= clock'
    <3>1. clock \in Nat
      BY Clocks DEF SessionInv, Types
    <3> QED  BY <2>1, <2>3, <3>1 DEF SessionInv, Types
  <2> QED  BY <2>1, <2>4, GoOnKeeps DEF sessions, queue
<1>2. ASSUME NEW to \in Modes, RouteChangesMode(to) PROVE SessionInv'
  <2>1. /\ commit.stage = "route" /\ commit' = [commit EXCEPT !.stage = "wait"]
        /\ Decide(commit.saves[1].beat, to) /\ UNCHANGED clock
        /\ UNCHANGED <<sessions, queue, ledger, faults>> /\ UNCHANGED disk /\ UNCHANGED mirror /\ UNCHANGED cached
        /\ UNCHANGED intents /\ UNCHANGED drain /\ UNCHANGED split
        /\ UNCHANGED startup /\ UNCHANGED ledger /\ UNCHANGED faults
    BY <1>2 DEF RouteChangesMode, sessions, queue
  <2>2. commit # NoCommit
    BY <2>1 DEF NoCommit
  <2>3. commit' \in CommitType
    BY <2>1, <2>2, InCommitParts, StageType
  <2> DEFINE at == commit.saves[1].beat
  <2>4. at \in Instants /\ at # Nothing /\ at <= clock /\ clock \in Instants /\ clock \in Nat
    <3>1. Asks
      BY <2>1 DEF Asks
    <3>2. at \in Instants
      BY <2>2, InCommitParts, SessionParts
    <3> QED  BY <2>2, <3>1, <3>2, Clocks DEF SessionInv, CommitOK, Types
  <2>5. Decide(at, to)
    BY <2>1
  <2> HIDE DEF at
  <2>6. Types' /\ clock <= clock'
    BY <2>1, <2>3, <2>4, <2>5, DecideType
  <2> QED  BY <2>1, <2>6, GoOnKeeps
<1> QED  BY <1>1, <1>2

\* One change goes on: it saves the mode, caches it, or queues its boundary.
LEMMA ChangeKeeps ==
    ASSUME SessionInv, NEW c \in changes, ChangeStep(c)
    PROVE  SessionInv'
<1>1. /\ c \in ChangeType /\ c.at \in Instants /\ c.at # Nothing /\ c.at <= clock
      /\ c.from \in Modes /\ c.to \in Modes /\ clock \in Nat
      /\ \A d \in changes : d.at \in Nat /\ d.at # Nothing /\ d.at <= clock
  BY IntentParts DEF SessionInv
<1>2. /\ UNCHANGED clock /\ UNCHANGED contested /\ UNCHANGED disk /\ UNCHANGED mirror
      /\ UNCHANGED split /\ UNCHANGED drain /\ UNCHANGED commit
      /\ UNCHANGED startup /\ UNCHANGED ledger /\ UNCHANGED faults
  BY DEF ChangeStep, SaveMode, CacheMode, Enqueue, InChange, sessions
<1>3. CASE SaveMode(c)
  <2> DEFINE next == [c EXCEPT !.stage = "cache"]
  <2>1. /\ mode' = c.to /\ changes' = (changes \ {c}) \cup {next}
        /\ modeAt' = [t \in Instants |-> IF t < c.at THEN modeAt[t] ELSE c.to]
        /\ UNCHANGED cached /\ UNCHANGED intents
    BY <1>3 DEF SaveMode, GoesTo
  <2>2. next \in ChangeType /\ next.at = c.at
    BY <1>1 DEF ChangeType
  <2> HIDE DEF next
  <2>3. modeAt' \in [Instants -> Modes]
    BY <1>1, <2>1 DEF SessionInv, Types
  <2>4. Types'
    BY <1>1, <1>2, <2>1, <2>2, <2>3 DEF SessionInv, Types
  <2> QED  BY <1>1, <1>2, <2>1, <2>4, QuietStep DEF sessions, SessionInv, CommitOK, Waiting
<1>4. CASE CacheMode(c)
  <2> DEFINE next == [c EXCEPT !.stage = "enqueue"]
  <2>1. /\ cached' = c.to /\ changes' = (changes \ {c}) \cup {next}
        /\ UNCHANGED mode /\ UNCHANGED modeAt /\ UNCHANGED intents
    BY <1>4 DEF CacheMode, GoesTo
  <2>2. next \in ChangeType /\ next.at = c.at
    BY <1>1 DEF ChangeType
  <2> HIDE DEF next
  <2>3. Types'
    BY <1>1, <1>2, <2>1, <2>2 DEF SessionInv, Types
  <2> QED  BY <1>1, <1>2, <2>1, <2>3, QuietStep DEF sessions, SessionInv, CommitOK, Waiting
<1>5. CASE Enqueue(c)
  <2> DEFINE new == [at |-> c.at, from |-> c.from, to |-> c.to]
  <2>1. /\ ~drain.on /\ intents' = intents \cup {new} /\ changes' = changes \ {c}
        /\ UNCHANGED mode /\ UNCHANGED modeAt /\ UNCHANGED cached
    BY <1>5 DEF Enqueue
  <2>2. new \in IntentType /\ new.at = c.at
    BY <1>1 DEF IntentType
  <2> HIDE DEF new
  <2>3. Types'
    BY <1>1, <1>2, <2>1, <2>2 DEF SessionInv, Types
  <2>4. commit # NoCommit => commit.by = Nothing
    BY <2>1 DEF SessionInv, CommitOK
  <2> QED  BY <1>1, <1>2, <2>3, <2>4, QuietStep DEF sessions
<1> QED  BY <1>3, <1>4, <1>5 DEF ChangeStep

LEMMA DrainKeeps ==
    ASSUME SessionInv, StartDrain \/ EndDrain
    PROVE  SessionInv'
<1>1. /\ clock \in Nat /\ drain.done \subseteq Instants /\ Waiting \subseteq intents
      /\ NoDrain \in DrainType /\ NoDrain.done = {}
  BY IntentParts DEF SessionInv, NoDrain, DrainType
<1>2. /\ UNCHANGED clock /\ UNCHANGED disk /\ UNCHANGED mirror /\ UNCHANGED mode
      /\ UNCHANGED modeAt /\ UNCHANGED cached /\ UNCHANGED changes /\ UNCHANGED contested
      /\ UNCHANGED commit /\ UNCHANGED startup /\ UNCHANGED ledger /\ UNCHANGED faults
  BY DEF StartDrain, EndDrain, sessions, modes
<1>3. commit # NoCommit => commit.by = Nothing
  BY DEF SessionInv, CommitOK, StartDrain, EndDrain
<1>4. CASE StartDrain
  <2>1. UNCHANGED intents /\ UNCHANGED split /\ drain' = [NoDrain EXCEPT !.on = TRUE]
    BY <1>4 DEF StartDrain
  <2>2. drain' \in DrainType /\ drain'.done = {}
    BY <2>1 DEF NoDrain, DrainType
  <2>3. Types'
    BY <1>1, <1>2, <2>1, <2>2 DEF SessionInv, Types
  <2> QED  BY <1>1, <1>2, <1>3, <2>3, QuietStep DEF sessions
<1>5. CASE EndDrain
  <2>1. intents' = Waiting /\ split' = split \cup drain.done /\ drain' = NoDrain
    BY <1>5 DEF EndDrain
  <2>2. Types'
    BY <1>1, <1>2, <2>1 DEF SessionInv, Types
  <2> QED  BY <1>1, <1>2, <1>3, <2>2, QuietStep DEF sessions
<1> QED  BY <1>4, <1>5

\* The boundary of a mode change: a session goes on from it.
LEMMA ReopenedParts ==
    ASSUME NEW s \in TimedSession, NEW b \in IntentType, b.at > s.start
    PROVE  /\ Reopened(s, b) \in TimedSession /\ Reopened(s, b).start = b.at
           /\ Reopened(s, b).state = s.state
           /\ \A e \in Nat : FitsAfter(s, e) => FitsAfter(Reopened(s, b), e)
           /\ FitsAfter(Reopened(s, b), b.at)
<1>1. /\ s \in Session /\ s.start \in Nat /\ s.beat \in Instants /\ s.beat \in Nat /\ s.guess \in BOOLEAN
      /\ s.guess => s.beat <= s.start + Repair
      /\ b.at \in Instants /\ b.at \in Nat /\ Repair \in Nat
  BY SessionParts, Clocks DEF IntentType
<1> DEFINE r == Reopened(s, b)
           t == Greater(s.beat, b.at)
<1>2. t \in Instants /\ (b.at < s.beat => t = s.beat)
  BY <1>1 DEF Greater
<1>3. /\ r \in Session /\ r.state = s.state /\ r.start = b.at /\ r.beat = t
      /\ r.guess = (s.guess /\ b.at < s.beat)
  BY <1>1, <1>2 DEF Reopened, Session
<1> HIDE DEF r, t
<1>4. r \in TimedSession
  <2>1. r.guess => r.beat <= r.start + Repair
    <3>1. b.at >= s.start /\ s.start + Repair <= b.at + Repair
      BY <1>1
    <3>2. r.guess => s.beat <= s.start + Repair /\ t = s.beat
      BY <1>1, <1>2, <1>3
    <3> QED  BY <1>1, <1>3, <3>1, <3>2
  <2> QED  BY <1>3, <2>1 DEF TimedSession
<1>5. ASSUME NEW e \in Nat, FitsAfter(s, e) PROVE FitsAfter(r, e)
  BY <1>1, <1>2, <1>3, <1>5 DEF FitsAfter
<1>6. FitsAfter(r, b.at)
  BY <1>1, <1>3 DEF FitsAfter
<1> QED  BY <1>3, <1>4, <1>5, <1>6 DEF r

LEMMA BoundaryKeeps ==
    ASSUME SessionInv, ApplyBoundary
    PROVE  SessionInv'
<1> DEFINE s == Read
<1>0. PICK b \in Waiting :
         \/ /\ s.state = "none" /\ cached' = b.to
            /\ drain' = [drain EXCEPT !.done = @ \cup {b.at}]
            /\ UNCHANGED commit
         \/ /\ s.state # "none" /\ b.at <= s.start
            /\ Run(b.at, s, Nothing, Unknown, <<s>>, b.to)
            /\ UNCHANGED <<cached, drain>>
         \/ /\ s.state # "none" /\ b.at > s.start
            /\ Run(b.at, s, IF s.state = "active" THEN b.at ELSE Nothing,
                   b.from, <<Reopened(s, b)>>, b.to)
            /\ UNCHANGED <<cached, drain>>
  BY DEF ApplyBoundary
<1>1. /\ commit = NoCommit /\ drain.on /\ drain.ok
      /\ UNCHANGED clock /\ UNCHANGED disk /\ UNCHANGED mirror /\ UNCHANGED mode
      /\ UNCHANGED changes /\ UNCHANGED contested /\ UNCHANGED modeAt /\ UNCHANGED intents /\ UNCHANGED split
      /\ UNCHANGED startup /\ UNCHANGED ledger /\ UNCHANGED faults
  BY DEF ApplyBoundary, sessions, modes
<1>2. drain \in DrainType /\ clock \in Nat
  BY IntentParts DEF SessionInv
<1>3. /\ b \in IntentType /\ b.at \in Nat /\ b.at \in Instants /\ b.at # Nothing
      /\ b.at <= clock /\ b.from \in Modes /\ b.to \in Modes /\ b \in intents
  BY IntentParts DEF SessionInv
<1>4. /\ s \in TimedSession /\ s.start <= clock /\ s.start \in Nat /\ (Calm => s = disk)
  BY <1>1, ReadIsDisk, SessionParts
<1>5. Happened = 0 => Fits(s) /\ s = disk
  BY <1>1, <1>4, NothingHappened DEF SessionInv, Once
<1>6. \A g \in ledger : g.end \in Nat
  BY Clocks DEF SessionInv, Types
<1> HIDE DEF s
\* A commit of the drain's, which saves x.
<1>8. ASSUME NEW end \in Instants, NEW as \in Modes \cup {Unknown}, NEW x \in TimedSession,
             Run(b.at, s, end, as, <<x>>, b.to), UNCHANGED <<cached, drain>>,
             x.start <= clock, end <= clock, end > s.start => s.state = "active",
             s.state = "active" /\ ~(end > s.start) => GoesOn(x, s.start),
             Happened = 0 => Fits(x), end > s.start => FitsAfter(x, end)
      PROVE  SessionInv'
  <2> DEFINE saves == <<x>>
  <2>1. /\ saves \in Seq(TimedSession) /\ SavesOK(saves) /\ saves[1] = x /\ DOMAIN saves = {1}
    BY OneSave
  <2>2. Run(b.at, s, end, as, saves, b.to)
    BY <1>8
  <2> HIDE DEF saves
  <2>3. /\ commit' \in CommitType
        /\ commit'.stage \in {"settle", "route", "save"}
        /\ commit'.stage = "settle" <=> s.start < end
        /\ commit'.by = b.at /\ commit'.of = s /\ commit'.end = end
        /\ commit'.saves = saves /\ ~Asks'
    BY <1>3, <1>4, <2>1, <2>2, RunRecord DEF SessionInv
  <2>4. Types'
    BY <1>1, <1>8, <2>3 DEF SessionInv, Types
  <2>5. commit' # NoCommit /\ end \in Nat
    BY <2>3, Clocks DEF NoCommit
  <2>6. CommitOK'
    <3>1. Waiting' = Waiting
      BY <1>1, <1>8 DEF Waiting
    <3> QED  BY <1>1, <1>3, <1>4, <1>8, <2>1, <2>3, <2>5, <3>1 DEF CommitOK, SavesOK
  <2>7. Calm => /\ commit'.of = disk
                /\ commit'.stage # "settle" /\ disk.state = "active"
                      => GoesOn(commit'.saves[1], disk.start)
    BY <1>4, <1>8, <2>1, <2>3, <2>5
  <2>8. Happened = 0 => /\ Fits(commit'.saves[1])
                        /\ commit'.stage = "settle" => FitsAfter(commit'.saves[1], commit'.end)
    BY <1>4, <1>8, <2>1, <2>3, <2>5
  <2> QED  BY <1>1, <1>2, <2>3, <2>4, <2>6, <2>7, <2>8, StartCommit DEF sessions
<1>9. CASE /\ s.state = "none" /\ cached' = b.to /\ drain' = [drain EXCEPT !.done = @ \cup {b.at}]
           /\ UNCHANGED commit
  <2>1. drain' \in DrainType /\ drain'.done = drain.done \cup {b.at}
    BY <1>2, <1>3, <1>9 DEF DrainType
  <2>2. Types'
    BY <1>1, <1>2, <1>3, <1>9, <2>1 DEF SessionInv, Types
  <2> QED  BY <1>1, <1>2, <1>9, <2>2, QuietStep DEF sessions
<1>10. CASE /\ s.state # "none" /\ b.at <= s.start
            /\ Run(b.at, s, Nothing, Unknown, <<s>>, b.to)
            /\ UNCHANGED <<cached, drain>>
  <2>1. Nothing \in Instants /\ Nothing <= clock /\ ~(Nothing > s.start)
    BY <1>2, <1>4, TimesAreCounts DEF Nothing, Instants
  <2>2. s.state = "active" => GoesOn(s, s.start)
    BY <1>4 DEF GoesOn
  <2> QED  BY <1>4, <1>5, <1>8, <1>10, <2>1, <2>2
<1>11. CASE /\ s.state # "none" /\ b.at > s.start
            /\ Run(b.at, s, IF s.state = "active" THEN b.at ELSE Nothing,
                   b.from, <<Reopened(s, b)>>, b.to)
            /\ UNCHANGED <<cached, drain>>
  <2> DEFINE end == IF s.state = "active" THEN b.at ELSE Nothing
             x == Reopened(s, b)
  <2>1. /\ x \in TimedSession /\ x.start = b.at /\ x.state = s.state
        /\ \A e \in Nat : FitsAfter(s, e) => FitsAfter(x, e)
        /\ FitsAfter(x, b.at)
    BY <1>3, <1>4, <1>11, ReopenedParts
  <2>2. /\ end \in Instants /\ end <= clock /\ (end > s.start <=> s.state = "active")
        /\ end > s.start => end = b.at
    BY <1>2, <1>3, <1>4, <1>11, TimesAreCounts DEF Nothing, Instants
  <2>3. Run(b.at, s, end, b.from, <<x>>, b.to) /\ UNCHANGED <<cached, drain>>
    BY <1>11
  <2> HIDE DEF end, x
  <2>4. Happened = 0 => Fits(x)
    BY <1>5, <1>6, <2>1 DEF Fits
  <2> QED  BY <1>3, <1>8, <2>1, <2>2, <2>3, <2>4
<1> QED  BY <1>0, <1>9, <1>10, <1>11

\* The worker stops, or the browser starts anew.
LEMMA FaultKeeps ==
    ASSUME SessionInv, StopWorker \/ RestartBrowser
    PROVE  SessionInv'
<1>1. /\ commit' = NoCommit /\ changes' = {} /\ drain' = NoDrain /\ cached' = Unknown
      /\ UNCHANGED contested /\ UNCHANGED clock /\ UNCHANGED disk /\ UNCHANGED mode /\ UNCHANGED modeAt
      /\ UNCHANGED intents /\ UNCHANGED split /\ UNCHANGED ledger
  BY DEF StopWorker, RestartBrowser, LoseMemory
<1>2. /\ faults' \in [Faults -> Nat] /\ Happened' # 0
      /\ Calm' => mirror' = NoMirror
      /\ mirror' \in {mirror, NoMirror} /\ startup' \in BOOLEAN
  <2>1. CASE StopWorker
    <3>1. faults' \in [Faults -> Nat] /\ Happened' # 0 /\ faults'["stop"] # 0
      BY <2>1, FaultCounts DEF StopWorker, SessionInv, Faults
    <3>2. ~Calm'
      BY <3>1 DEF Calm, NoFault
    <3> QED  BY <2>1, <3>1, <3>2 DEF StopWorker, SessionInv, Types
  <2>2. CASE RestartBrowser
    <3>1. faults' \in [Faults -> Nat] /\ Happened' # 0
      BY <2>2, FaultCounts DEF RestartBrowser, SessionInv, Faults
    <3> QED  BY <2>2, <3>1 DEF RestartBrowser
  <2> QED  BY <2>1, <2>2
<1>3. NoDrain \in DrainType /\ NoDrain.done = {}
  BY DEF NoDrain, DrainType
<1>4. Types'
  BY <1>1, <1>2, <1>3 DEF SessionInv, Types
<1>5. CommitOK' /\ Elapsed'
  BY <1>1, <1>2 DEF SessionInv, CommitOK, Elapsed
<1>6. Kept' /\ Once'
  BY <1>1, <1>2 DEF Kept, Once, NoCommit
<1> QED  BY <1>4, <1>5, <1>6 DEF SessionInv

(***************************************************************************)
(* The invariant holds initially and every step keeps it.                  *)
(***************************************************************************)
LEMMA SessionInit == Init => SessionInv
<1> SUFFICES ASSUME Init PROVE SessionInv
  OBVIOUS
<1>1. 0 \in Instants /\ FirstMode \in Modes
  BY TimesAreCounts, FirstModeIsOne DEF Instants
<1>2. Empty(0) \in TimedSession /\ Empty(0).start = 0 /\ Empty(0).state = "none"
  BY <1>1, EmptyParts DEF Empty
<1>3. intents = {} /\ changes = {}
  BY DEF Init
<1>4. NoDrain \in DrainType /\ NoDrain.done = {}
  BY DEF NoDrain, DrainType
<1>5. Types
  BY <1>1, <1>2, <1>3, <1>4 DEF Init, Types
<1>6. CommitOK /\ Elapsed
  BY <1>1, <1>2 DEF Init, CommitOK, Elapsed
<1>7. Kept
  BY DEF Init, Kept, NoCommit
<1>8. Once
  BY <1>2 DEF Init, Once, NoCommit, CountedOnce, Fits
<1> QED  BY <1>5, <1>6, <1>7, <1>8 DEF SessionInv

LEMMA CommitStepKeeps ==
    ASSUME SessionInv, CommitStep
    PROVE  SessionInv'
<1>1. CASE Settle
  BY <1>1, SettleKeeps
<1>2. CASE Reject
  <2>1. Fail("reject")
    BY <1>2 DEF Reject
  <2>2. EndCommit(FALSE)
    BY <1>2 DEF Reject
  <2>3. commit # NoCommit /\ commit.stage # "mirror"
    BY <1>2 DEF Reject, InCommit, NoCommit
  <2>4. UNCHANGED <<clock, modes, intents, startup, split>>
    BY <1>2 DEF Reject, InCommit
  <2>5. UNCHANGED <<disk, mirror, ledger>> /\ UNCHANGED cached
    BY <1>2 DEF Reject, sessions
  <2> QED  BY <2>1, <2>2, <2>3, <2>4, <2>5, RejectKeeps DEF SessionInv, Types
<1>3. CASE Route \/ Routed
  BY <1>3, RouteKeeps
<1>4. CASE Save
  BY <1>4, SaveKeeps
<1>5. CASE Mirror
  BY <1>5, MirrorKeeps
<1> QED  BY <1>1, <1>2, <1>3, <1>4, <1>5 DEF CommitStep

LEMMA SessionNext == SessionInv /\ [Next]_vars => SessionInv'
<1> SUFFICES ASSUME SessionInv, [Next]_vars PROVE SessionInv'
  OBVIOUS
<1>1. CASE (\E to \in {"active", "idle"} : Transition(to)) \/ Close \/ CheckpointOpens
  BY <1>1, EventKeeps
<1>2. CASE PopupFlush
  BY <1>2, PopupKeeps
<1>3. CASE Recover
  BY <1>3, RecoverKeeps
<1>4. CASE CheckpointConfirms
  BY <1>4, ConfirmKeeps
<1>5. CASE \E next \in {"active", "none"} : CheckpointDoubts(next)
  BY <1>5, DoubtKeeps
<1>6. CASE \E to \in Modes : DecideMode(to)
  BY <1>6, DecideKeeps
<1>7. CASE \E to \in Modes : RouteChangesMode(to)
  BY <1>7, RouteKeeps
<1>8. CASE \E c \in changes : ChangeStep(c)
  BY <1>8, ChangeKeeps
<1>9. CASE StartDrain \/ EndDrain
  BY <1>9, DrainKeeps
<1>10. CASE ApplyBoundary
  BY <1>10, BoundaryKeeps
<1>11. CASE CommitStep
  BY <1>11, CommitStepKeeps
<1>12. CASE StopWorker \/ RestartBrowser
  BY <1>12, FaultKeeps
<1>13. CASE UNCHANGED vars
  <2>1. UNCHANGED <<clock, disk, mirror, mode, cached, changes, intents, drain, commit,
                    startup, ledger, modeAt, contested, split, faults>>
    BY <1>13 DEF vars
  <2>2. clock \in Nat
    BY Clocks DEF SessionInv, Types
  <2>3. Types'
    BY <2>1 DEF SessionInv, Types
  <2> QED  BY <2>1, <2>2, <2>3, QuietStep DEF sessions, SessionInv, CommitOK, Waiting
<1> QED
  BY <1>1, <1>2, <1>3, <1>4, <1>5, <1>6, <1>7, <1>8, <1>9, <1>10, <1>11, <1>12, <1>13
     DEF Next, DrainStep

LEMMA SessionInvariant == Spec => []SessionInv
<1> QED  BY SessionInit, SessionNext, PTL DEF Spec

(***************************************************************************)
(* The theorems.                                                           *)
(***************************************************************************)
\* The sessions, segments and intents are well formed.
THEOREM SessionTyped == Spec => []TypeOK
<1>1. SessionInv => TypeOK
  BY DEF SessionInv, Types, TypeOK, TimedSession
<1> QED  BY <1>1, SessionInvariant, PTL

\* Whatever fails, a segment is settled only after its time has passed, and is
\* never longer than a checkpoint.
THEOREM OnlyElapsedTimeIsSettled == Spec => []OnlyElapsedTime
<1>1. SessionInv => OnlyElapsedTime
  BY DEF SessionInv, Elapsed, OnlyElapsedTime
<1> QED  BY <1>1, SessionInvariant, PTL

\* Without faults time is counted twice only where a start is an estimate.
THEOREM TimeIsCountedOnce == Spec => []CountedOnceButForEstimates
<1>1. SessionInv => CountedOnceButForEstimates
  BY DEF SessionInv, Once, CountedOnce, CountedOnceButForEstimates
<1> QED  BY <1>1, SessionInvariant, PTL

\* Only a save replaces the durable session: when what there was of it is
\* settled, or by the session that goes on with it.
THEOREM SettlementComesFirst == Spec => SettledBeforeReplaced
<1>1. ASSUME SessionInv, [Next]_vars, disk.state = "active", NoFault("mirror"), NoFault("stop")
      PROVE  \/ disk'.state = "active" /\ disk'.start <= disk.start
             \/ \E g \in ledger : g.start <= disk.start /\ disk.start < g.end
  <2>1. disk.start \in Nat
    BY <1>1, SessionParts DEF SessionInv, Types
  <2>2. CASE disk' = disk
    BY <1>1, <2>1, <2>2
  <2>3. CASE Save
    <3>1. commit.stage = "save" /\ commit # NoCommit
      BY <2>3 DEF Save, InCommit, NoCommit
    <3>2. Head(commit.saves) = commit.saves[1]
      BY <1>1, <3>1, InCommitParts
    <3>3. GoesOn(commit.saves[1], disk.start) \/ Covered(disk.start)
      BY <1>1, <3>1 DEF SessionInv, Kept, Calm
    <3>4. disk' = commit.saves[1] \/ disk' = disk
      BY <2>3, <3>2 DEF Save
    <3> QED  BY <2>2, <3>3, <3>4 DEF GoesOn, Covered
  <2>4. ~Save => disk' = disk
    BY <1>1 DEF Next, Transition, Close, PopupFlush, Recover, CheckpointOpens,
                CheckpointConfirms, CheckpointDoubts, Operation, DecideMode, RouteChangesMode,
                ChangeStep, SaveMode, CacheMode, Enqueue, InChange, DrainStep, StartDrain,
                ApplyBoundary, EndDrain, CommitStep, Settle, Reject, Route, Routed, Mirror,
                StopWorker, RestartBrowser, LoseMemory, sessions, vars
  <2> QED  BY <2>2, <2>3, <2>4
<1>2. SessionInv /\ [Next]_vars =>
        [disk.state = "active" /\ NoFault("mirror") /\ NoFault("stop")
         => \/ disk'.state = "active" /\ disk'.start <= disk.start
            \/ \E g \in ledger : g.start <= disk.start /\ disk.start < g.end]_vars
  BY <1>1
<1> QED  BY <1>2, SessionInvariant, PTL DEF Spec, SettledBeforeReplaced

(***************************************************************************)
(* What a fault costs.                                                     *)
(*                                                                         *)
(* A session owes for what was counted: with n faults, the counted times   *)
(* are at most the covered ones before its next sampled instant (Base),    *)
(* and n intervals. Settling a session pays for itself: what follows it    *)
(* starts where the settled time ends, so what is newly counted is newly   *)
(* covered before it. The copies that were not replaced yet then owe one   *)
(* more interval, and the fault that leaves one of them to be read pays.   *)
(***************************************************************************)
\* Where the session's sampled time begins: nothing open has none to come.
Base(s) == IF s.state # "active" THEN MaxTime ELSE IF s.guess THEN s.beat ELSE s.start
CoveredBefore(t) == {u \in CoveredTimes : u < t}
Pays(t, n) == Cardinality(CountedTimes) <= Cardinality(CoveredBefore(t)) + n * Checkpoint
Owes(s, n) == Pays(Base(s), n)

Paid ==
    /\ IsFiniteSet(ledger)
    /\ commit.stage \in {"free", "settle"} => Owes(disk, Happened) /\ Owes(mirror, Happened)
    /\ commit.stage = "settle" =>
          /\ Owes(commit.of, Happened)
          /\ \A i \in DOMAIN commit.saves :
                IF commit.of.guess THEN Owes(commit.saves[i], Happened)
                ELSE commit.end <= Base(commit.saves[i])
    /\ commit.stage \in {"route", "wait", "save", "mirror"} =>
          /\ Owes(disk, Happened + 1) /\ Owes(mirror, Happened + 1)
          /\ \A i \in DOMAIN commit.saves : Owes(commit.saves[i], Happened)
    /\ commit.stage = "mirror" => disk = commit.saves[1]

\* The counted and the covered times are finitely many, and all are past.
Finite ==
    /\ IsFiniteSet(CountedTimes) /\ Cardinality(CountedTimes) \in Nat
    /\ \A u \in CoveredTimes : u \in Instants /\ u \in Nat /\ u < clock
    /\ \A t \in Nat : IsFiniteSet(CoveredBefore(t)) /\ Cardinality(CoveredBefore(t)) \in Nat

LEMMA TimesAreFinite == SessionInv /\ IsFiniteSet(ledger) => Finite
<1> SUFFICES ASSUME SessionInv, IsFiniteSet(ledger) PROVE Finite
  OBVIOUS
<1>1. IsFiniteSet(Instants)
  <2>1. 0 \in Int /\ MaxTime \in Int
    BY TimesAreCounts
  <2> QED  BY <2>1, FS_Interval DEF Instants
<1>2. IsFiniteSet(Known)
  <2>1. Known \in SUBSET ledger
    BY DEF Known
  <2> QED  BY <2>1, FS_Subset
<1>3. IsFiniteSet(CountedTimes) /\ Cardinality(CountedTimes) \in Nat
  <2>1. IsFiniteSet(Known \X Instants)
    BY <1>1, <1>2, FS_Product
  <2>2. CountedTimes \in SUBSET (Known \X Instants)
    BY DEF CountedTimes
  <2>3. IsFiniteSet(CountedTimes)
    BY <2>1, <2>2, FS_Subset
  <2> QED  BY <2>3, FS_CardinalityType
<1>4. \A u \in CoveredTimes : u \in Instants /\ u \in Nat /\ u < clock
  <2> SUFFICES ASSUME NEW u \in CoveredTimes PROVE u \in Instants /\ u \in Nat /\ u < clock
    OBVIOUS
  <2>1. PICK g \in Known : u \in Span(g)
    BY DEF CoveredTimes
  <2>2. g \in ledger
    BY DEF Known
  <2>3. g.start \in Instants /\ g.end \in Instants /\ g.end <= clock /\ clock \in Nat
    BY <2>2, Clocks DEF SessionInv, Types, Elapsed
  <2>4. g.start \in 0 .. MaxTime /\ g.end \in 0 .. MaxTime /\ u \in g.start .. g.end - 1
    BY <2>1, <2>3 DEF Span, Instants
  <2>5. u \in 0 .. MaxTime /\ u < clock
    BY <2>3, <2>4, TimesAreCounts
  <2> QED  BY <2>5 DEF Instants
<1>5. ASSUME NEW t \in Nat
      PROVE  IsFiniteSet(CoveredBefore(t)) /\ Cardinality(CoveredBefore(t)) \in Nat
  <2>1. CoveredBefore(t) \in SUBSET Instants
    BY <1>4 DEF CoveredBefore
  <2>2. IsFiniteSet(CoveredBefore(t))
    BY <1>1, <2>1, FS_Subset
  <2> QED  BY <2>2, FS_CardinalityType
<1> QED  BY <1>3, <1>4, <1>5 DEF Finite

LEMMA TimesStayFinite == SessionInv' /\ IsFiniteSet(ledger)' => Finite'
<1> QED  BY TimesAreFinite, PTL

\* Before a later instant, and before the present one, no less is covered.
LEMMA CoveredLater ==
    ASSUME SessionInv, IsFiniteSet(ledger), NEW t \in Nat, NEW u \in Nat, t <= u \/ clock <= u
    PROVE  /\ CoveredBefore(t) \subseteq CoveredBefore(u)
           /\ Cardinality(CoveredBefore(t)) <= Cardinality(CoveredBefore(u))
<1>1. clock \in Nat
  BY Clocks DEF SessionInv, Types
<1>2. CoveredBefore(t) \subseteq CoveredBefore(u)
  BY <1>1, TimesAreFinite DEF CoveredBefore, Finite
<1> QED  BY <1>2, TimesAreFinite, FS_Subset DEF Finite

LEMMA PaysLater ==
    ASSUME SessionInv, IsFiniteSet(ledger), NEW t \in Nat, NEW u \in Nat, t <= u \/ clock <= u,
           NEW n \in Nat, NEW m \in Nat, n <= m, Pays(t, n)
    PROVE  Pays(u, m)
<1> DEFINE a == Cardinality(CountedTimes)
           b == Cardinality(CoveredBefore(t))
           c == Cardinality(CoveredBefore(u))
<1>1. a \in Nat /\ b \in Nat /\ c \in Nat /\ b <= c /\ a <= b + n * Checkpoint
  BY TimesAreFinite, CoveredLater DEF Pays, Finite
<1>2. n * Checkpoint \in Nat /\ m * Checkpoint \in Nat /\ n * Checkpoint <= m * Checkpoint
  <2>1. Checkpoint \in Nat
    BY Clocks
  <2> QED  BY <2>1
<1> HIDE DEF a, b, c
<1>3. a <= c + m * Checkpoint
  BY <1>1, <1>2
<1> QED  BY <1>3 DEF a, c, Pays

\* What the ledger is the same for.
LEMMA PaysSame ==
    ASSUME ledger' = ledger, NEW t, NEW n, Pays(t, n)
    PROVE  Pays(t, n)'
BY DEF Pays, CountedTimes, CoveredBefore, CoveredTimes, Known, Span, Instants

(***************************************************************************)
(* A segment is settled.                                                   *)
(***************************************************************************)
LEMMA SpanParts ==
    ASSUME NEW g, g.start \in Nat, g.end \in Nat, g.start < g.end, {g.start, g.end} \subseteq Instants
    PROVE  /\ IsFiniteSet(Span(g)) /\ Cardinality(Span(g)) = g.end - g.start
           /\ Span(g) \subseteq Instants
           /\ IsFiniteSet({g} \X Span(g)) /\ Cardinality({g} \X Span(g)) = g.end - g.start
<1> DEFINE a == g.start
           b == g.end - 1
<1>1. a \in Int /\ b \in Int /\ ~(a > b) /\ b - a + 1 = g.end - g.start
  OBVIOUS
<1>2. IsFiniteSet(a .. b) /\ Cardinality(a .. b) = b - a + 1
  <2> HIDE DEF a, b
  <2> QED  BY <1>1, FS_Interval
<1>3. IsFiniteSet(Span(g)) /\ Cardinality(Span(g)) = g.end - g.start
  BY <1>1, <1>2 DEF Span
<1>4. Span(g) \subseteq Instants
  <2>1. g.start \in 0 .. MaxTime /\ g.end \in 0 .. MaxTime
    BY DEF Instants
  <2> QED  BY <2>1, TimesAreCounts DEF Span, Instants
<1>5. IsFiniteSet({g}) /\ Cardinality({g}) = 1
  BY FS_Singleton
<1>6. /\ IsFiniteSet({g} \X Span(g))
      /\ Cardinality({g} \X Span(g)) = Cardinality({g}) * Cardinality(Span(g))
  BY <1>3, <1>5, FS_Product
<1>7. Cardinality({g} \X Span(g)) = 1 * (g.end - g.start)
  BY <1>3, <1>5, <1>6
<1> QED  BY <1>3, <1>4, <1>6, <1>7

\* The ledger gets a segment: what it counts more is an interval at most, and
\* it covers what it counts.
LEMMA Settled ==
    ASSUME SessionInv, SessionInv', IsFiniteSet(ledger), NEW g, ledger' = ledger \cup {g}
    PROVE  /\ IsFiniteSet(ledger')
           /\ \A t \in Nat, n \in Nat : Pays(t, n) => Pays(t, n + 1)'
           /\ g.guess => \A t \in Nat, n \in Nat : Pays(t, n) => Pays(t, n)'
           /\ ~g.guess => \A u \in Nat, n \in Nat :
                 g.end <= u /\ Pays(g.start, n) => Pays(u, n)'
<1>1. /\ g.start \in Nat /\ g.end \in Nat /\ g.start < g.end /\ g.end - g.start <= Checkpoint
      /\ {g.start, g.end} \subseteq Instants /\ Checkpoint \in Nat
  BY Clocks DEF SessionInv, Types, Elapsed
<1>2. IsFiniteSet(ledger')
  BY FS_AddElement
<1> DEFINE more == {g} \X Span(g)
           a == Cardinality(CountedTimes)
           d == Cardinality(CountedTimes')
           k == g.end - g.start
<1>3. /\ IsFiniteSet(Span(g)) /\ Cardinality(Span(g)) = k /\ Span(g) \subseteq Instants
      /\ IsFiniteSet(more) /\ Cardinality(more) = k
  BY <1>1, SpanParts
<1>4. k \in Nat /\ k <= Checkpoint
  BY <1>1
<1>5. a \in Nat /\ d \in Nat /\ IsFiniteSet(CountedTimes) /\ IsFiniteSet(CountedTimes')
  BY <1>2, TimesAreFinite, TimesStayFinite DEF Finite
<1>6. \A t \in Nat : /\ IsFiniteSet(CoveredBefore(t)) /\ Cardinality(CoveredBefore(t)) \in Nat
             /\ IsFiniteSet(CoveredBefore(t)') /\ Cardinality(CoveredBefore(t)') \in Nat
  BY <1>2, TimesAreFinite, TimesStayFinite DEF Finite
<1>7. \A t : CoveredBefore(t) \subseteq CoveredBefore(t)'
  BY DEF CoveredBefore, CoveredTimes, Known, Span
<1>8. \A t \in Nat : Cardinality(CoveredBefore(t)) <= Cardinality(CoveredBefore(t)')
  BY <1>6, <1>7, FS_Subset
<1>9. CASE g.guess
  <2>1. Known' = Known
    BY <1>9 DEF Known
  <2>2. CountedTimes' = CountedTimes /\ CoveredTimes' = CoveredTimes
    BY <2>1 DEF CountedTimes, CoveredTimes, Span, Instants
  <2>3. \A t, n : Pays(t, n) => Pays(t, n)'
    BY <2>2 DEF Pays, CoveredBefore
  <2>4. ASSUME NEW t \in Nat, NEW n \in Nat, Pays(t, n) PROVE Pays(t, n + 1)'
    <3>1. n + 1 \in Nat /\ n <= n + 1 /\ t <= t
      OBVIOUS
    <3>2. Pays(t, n + 1)
      BY <2>4, <3>1, PaysLater
    <3> QED  BY <2>3, <3>2
  <2> QED  BY <1>2, <1>9, <2>3, <2>4
<1>10. CASE ~g.guess
  <2>1. Known' = Known \cup {g}
    BY <1>10 DEF Known
  <2>2. CountedTimes' = CountedTimes \cup more
    BY <1>3, <2>1 DEF CountedTimes, Span, Instants
  <2>3. d <= a + k
    <3> DEFINE both == Cardinality(CountedTimes \cap more)
    <3>1. d = a + Cardinality(more) - both
      BY <1>3, <1>5, <2>2, FS_Union
    <3>2. both \in Nat
      BY <1>5, FS_Intersection, FS_CardinalityType
    <3> HIDE DEF a, d, both, k, more
    <3> QED  BY <1>3, <1>4, <1>5, <3>1, <3>2
  <2>4. ASSUME NEW t \in Nat, NEW n \in Nat, Pays(t, n) PROVE Pays(t, n + 1)'
    <3> DEFINE b == Cardinality(CoveredBefore(t))
               c == Cardinality(CoveredBefore(t)')
    <3>1. a <= b + n * Checkpoint /\ b \in Nat /\ c \in Nat /\ b <= c
      BY <1>6, <1>8, <2>4 DEF Pays
    <3>2. (n + 1) * Checkpoint = n * Checkpoint + Checkpoint /\ n * Checkpoint \in Nat
      BY <1>1
    <3> HIDE DEF a, b, c, d, k
    <3>3. d <= c + (n + 1) * Checkpoint
      BY <1>1, <1>4, <1>5, <2>3, <3>1, <3>2
    <3> QED  BY <3>3 DEF Pays, c, d
  <2>5. ASSUME NEW u \in Nat, NEW n \in Nat, g.end <= u, Pays(g.start, n) PROVE Pays(u, n)'
    <3> DEFINE old == CoveredBefore(g.start)
               b == Cardinality(old)
               c == Cardinality(CoveredBefore(u)')
    <3>1. a <= b + n * Checkpoint /\ b \in Nat /\ c \in Nat /\ n * Checkpoint \in Nat
      BY <1>1, <1>6, <2>5 DEF Pays
    <3>2. old \cap Span(g) = {}
      BY <1>1, TimesAreFinite DEF CoveredBefore, Span, Finite
    <3>3. old \cup Span(g) \subseteq CoveredBefore(u)'
      <4>1. \A v \in old : v \in CoveredTimes /\ v \in Nat /\ v < u
        BY <1>1, <2>5, TimesAreFinite DEF CoveredBefore, Finite
      <4>2. \A v \in Span(g) : v < u
        BY <1>1, <2>5 DEF Span
      <4>3. CoveredTimes' = CoveredTimes \cup Span(g)
        BY <2>1 DEF CoveredTimes, Span
      <4> QED  BY <4>1, <4>2, <4>3 DEF CoveredBefore
    <3>4. Cardinality(old \cup Span(g)) = b + k - Cardinality(old \cap Span(g))
      <4>1. IsFiniteSet(old)
        BY <1>1, <1>6
      <4> HIDE DEF old
      <4> QED  BY <1>3, <4>1, FS_Union
    <3>5. Cardinality(old \cap Span(g)) = 0
      BY <3>2, FS_EmptySet
    <3>6. Cardinality(old \cup Span(g)) <= c
      BY <1>6, <3>3, FS_Subset
    <3> HIDE DEF a, b, c, d, k, old
    <3>7. d <= c + n * Checkpoint
      BY <1>1, <1>4, <1>5, <2>3, <3>1, <3>4, <3>5, <3>6
    <3> QED  BY <3>7 DEF Pays, c, d
  <2> QED  BY <1>2, <1>10, <2>4, <2>5
<1> QED  BY <1>9, <1>10

(***************************************************************************)
(* The steps.                                                              *)
(***************************************************************************)
LEMMA BaseParts ==
    ASSUME NEW s \in TimedSession \cup {NoMirror}
    PROVE  Base(s) \in Nat /\ Base(s) <= MaxTime
<1>1. MaxTime \in Nat
  BY TimesAreCounts
<1>2. CASE s = NoMirror
  BY <1>1, <1>2 DEF Base, NoMirror
<1>3. CASE s \in TimedSession
  BY <1>1, <1>3, SessionParts DEF Base, Instants
<1> QED  BY <1>2, <1>3

LEMMA FaultAdds ==
    ASSUME Types
    PROVE  /\ Happened \in Nat
           /\ \A f \in Faults : Fail(f) => Happened' = Happened + 1
<1> DEFINE n == faults["reject"]  p == faults["mirror"]  q == faults["stop"]  r == faults["restart"]
<1>1. n \in Nat /\ p \in Nat /\ q \in Nat /\ r \in Nat /\ Happened = n + p + q + r
  BY DEF Types, Faults, Happened
<1>2. Happened \in Nat
  <2> HIDE DEF n, p, q, r
  <2> QED  BY <1>1
<1>3. ASSUME NEW f \in Faults, Fail(f) PROVE Happened' = Happened + 1
  <2> DEFINE v == faults'["reject"]  w == faults'["mirror"]
             x == faults'["stop"]    y == faults'["restart"]
  <2>1. faults' = [faults EXCEPT ![f] = @ + 1] /\ faults \in [Faults -> Nat]
    BY <1>3 DEF Fail, Types
  <2>2. /\ v = IF f = "reject" THEN n + 1 ELSE n
        /\ w = IF f = "mirror" THEN p + 1 ELSE p
        /\ x = IF f = "stop" THEN q + 1 ELSE q
        /\ y = IF f = "restart" THEN r + 1 ELSE r
    BY <2>1 DEF Faults
  <2>3. Happened' = v + w + x + y
    BY DEF Happened
  <2>4. f \in {"reject", "mirror", "stop", "restart"}
    BY DEF Faults
  <2> HIDE DEF n, p, q, r, v, w, x, y
  <2> QED  BY <1>1, <2>2, <2>3, <2>4
<1> QED  BY <1>2, <1>3

\* A session owes no more than one that begins earlier, and no more after a fault.
LEMMA OwesLess ==
    ASSUME SessionInv, IsFiniteSet(ledger), NEW s \in TimedSession \cup {NoMirror},
           NEW x \in TimedSession \cup {NoMirror}, Base(s) <= Base(x) \/ clock <= Base(x),
           NEW n \in Nat, NEW m \in Nat, n <= m, Owes(s, n)
    PROVE  Owes(x, m)
BY BaseParts, PaysLater DEF Owes

LEMMA OwesSame ==
    ASSUME ledger' = ledger, NEW s, NEW n, Owes(s, n)
    PROVE  Owes(s, n)'
<1> DEFINE t == Base(s)
<1>1. Pays(t, n)
  BY DEF Owes
<1>2. Base(s)' = t
  BY DEF Base
<1> HIDE DEF t
<1>3. Pays(t, n)'
  BY <1>1, PaysSame
<1> QED  BY <1>2, <1>3 DEF Owes

\* The sessions of a state that owe something.
LEMMA PaidParts ==
    ASSUME SessionInv
    PROVE  /\ disk \in TimedSession /\ mirror \in TimedSession \cup {NoMirror}
           /\ Read \in {disk, mirror} /\ Read \in TimedSession /\ Happened \in Nat
           /\ commit # NoCommit => /\ commit.of \in TimedSession
                                   /\ \A i \in DOMAIN commit.saves : commit.saves[i] \in TimedSession
                                   /\ 1 \in DOMAIN commit.saves
<1>1. Read \in {disk, mirror} /\ Read \in TimedSession
  BY ReadIsDisk DEF Read
<1>2. ASSUME commit # NoCommit
      PROVE  /\ commit.of \in TimedSession
             /\ \A i \in DOMAIN commit.saves : commit.saves[i] \in TimedSession
             /\ 1 \in DOMAIN commit.saves
  BY <1>2, InCommitParts, SavesParts, ElementOfSeq, LenProperties
<1> QED  BY <1>1, <1>2, FaultAdds DEF SessionInv, Types

LEMMA QuietPays ==
    ASSUME Paid, UNCHANGED <<disk, mirror, commit, ledger, faults>>
    PROVE  Paid'
<1>1. Happened' = Happened
  BY DEF Happened
<1>2. \A s, n : Owes(s, n) => Owes(s, n)'
  BY OwesSame
<1>3. \A s : Base(s)' = Base(s)
  BY DEF Base
<1> QED  BY <1>1, <1>2, <1>3 DEF Paid

\* A commit begins with a copy, which owes nothing more.
LEMMA StartPays ==
    ASSUME SessionInv, Paid, commit = NoCommit, UNCHANGED <<disk, mirror, ledger, faults>>,
           commit' \in CommitType, commit'.stage \in {"settle", "route", "save"},
           commit'.of = Read,
           \A i \in DOMAIN commit'.saves :
              LET x == commit'.saves[i] IN
              /\ x \in TimedSession /\ (Base(Read) <= Base(x) \/ clock <= Base(x))
              /\ commit'.stage = "settle" /\ ~Read.guess => commit'.end <= Base(x)
    PROVE  Paid'
<1>1. /\ disk \in TimedSession /\ mirror \in TimedSession \cup {NoMirror}
      /\ Read \in {disk, mirror} /\ Read \in TimedSession /\ Happened \in Nat
      /\ Happened + 1 \in Nat /\ Happened <= Happened + 1
  BY PaidParts
<1>2. Owes(disk, Happened) /\ Owes(mirror, Happened) /\ Owes(Read, Happened)
      /\ IsFiniteSet(ledger)
  BY <1>1 DEF Paid, NoCommit
<1>3. Happened' = Happened
  BY DEF Happened
<1>4. \A s, n : Owes(s, n) => Owes(s, n)'
  BY OwesSame
<1>5. \A i \in DOMAIN commit'.saves : Owes(commit'.saves[i], Happened)
  BY <1>1, <1>2, OwesLess
<1>6. Owes(disk, Happened + 1) /\ Owes(mirror, Happened + 1)
  BY <1>1, <1>2, OwesLess, BaseParts
<1>7. \A s : Base(s)' = Base(s)
  BY DEF Base
<1> QED  BY <1>1, <1>2, <1>3, <1>4, <1>5, <1>6, <1>7 DEF Paid

\* The commit is cut short: the fault pays for what was settled and not replaced.
LEMMA CutPays ==
    ASSUME SessionInv, Paid, commit' = NoCommit, disk' = disk, mirror' \in {mirror, NoMirror},
           ledger' = ledger, NEW f \in Faults, Fail(f)
    PROVE  Paid'
<1>1. /\ disk \in TimedSession /\ mirror \in TimedSession \cup {NoMirror}
      /\ Happened \in Nat /\ Happened + 1 \in Nat /\ Happened <= Happened + 1
  BY PaidParts
<1>2. Happened' = Happened + 1 /\ IsFiniteSet(ledger)
  BY FaultAdds DEF SessionInv, Paid
<1>3. commit.stage \in {"free", "settle", "route", "wait", "save", "mirror"}
  BY CommitParts DEF SessionInv, NoCommit
<1>4. Owes(disk, Happened + 1) /\ Owes(mirror, Happened + 1)
  <2>1. CASE commit.stage \in {"free", "settle"}
    BY <1>1, <1>2, <2>1, OwesLess, BaseParts DEF Paid
  <2>2. CASE commit.stage \in {"route", "wait", "save", "mirror"}
    BY <2>2 DEF Paid
  <2> QED  BY <1>3, <2>1, <2>2
<1>5. Owes(NoMirror, Happened + 1)
  <2>1. Base(NoMirror) = MaxTime
    BY DEF Base, NoMirror
  <2> QED  BY <1>1, <1>2, <1>4, <2>1, OwesLess, BaseParts
<1>6. \A s, n : Owes(s, n) => Owes(s, n)'
  BY OwesSame
<1> QED  BY <1>2, <1>4, <1>5, <1>6 DEF Paid, NoCommit

\* What is settled is covered before the sessions that follow.
LEMMA SettlePays ==
    ASSUME SessionInv, Paid, Settle
    PROVE  Paid'
<1>1. /\ commit.stage = "settle" /\ ledger' = ledger \cup {Segment}
      /\ commit' = [commit EXCEPT !.stage = commit.next]
      /\ disk' = disk /\ mirror' = mirror /\ faults' = faults
  BY DEF Settle, InCommit, sessions
<1>2. commit # NoCommit
  BY <1>1 DEF NoCommit
<1>3. /\ commit \in CommitType /\ commit.next \in {"route", "save"}
      /\ commit.of.state = "active" /\ commit.end \in Nat
  BY <1>1, <1>2, InCommitParts
<1>4. /\ commit'.stage = commit.next /\ commit'.saves = commit.saves
  BY <1>1, <1>3, StageType
<1>5. /\ Segment.start = commit.of.start /\ Segment.guess = commit.of.guess
      /\ Segment.start \in Nat /\ Segment.end \in Nat /\ Segment.end <= commit.end
  BY <1>1, SegmentParts
<1>6. /\ disk \in TimedSession /\ mirror \in TimedSession \cup {NoMirror} /\ Happened \in Nat
      /\ \A i \in DOMAIN commit.saves : commit.saves[i] \in TimedSession
  BY <1>2, PaidParts
<1>7. IsFiniteSet(ledger) /\ SessionInv'
  BY SettleKeeps DEF Paid
<1>8. /\ IsFiniteSet(ledger')
      /\ \A t \in Nat, n \in Nat : Pays(t, n) => Pays(t, n + 1)'
      /\ Segment.guess => \A t \in Nat, n \in Nat : Pays(t, n) => Pays(t, n)'
      /\ ~Segment.guess => \A u \in Nat, n \in Nat :
            Segment.end <= u /\ Pays(Segment.start, n) => Pays(u, n)'
  <2> DEFINE g == Segment
  <2>1. ledger' = ledger \cup {g}
    BY <1>1
  <2> HIDE DEF g
  <2>2. /\ IsFiniteSet(ledger')
        /\ \A t \in Nat, n \in Nat : Pays(t, n) => Pays(t, n + 1)'
        /\ g.guess => \A t \in Nat, n \in Nat : Pays(t, n) => Pays(t, n)'
        /\ ~g.guess => \A u \in Nat, n \in Nat : g.end <= u /\ Pays(g.start, n) => Pays(u, n)'
    BY <1>7, <2>1, Settled
  <2> QED  BY <2>2 DEF g
<1>9. \A s : Base(s)' = Base(s)
  BY DEF Base
<1>10. Happened' = Happened
  BY <1>1 DEF Happened
<1>11. Owes(disk, Happened + 1)' /\ Owes(mirror, Happened + 1)'
  <2>1. Pays(Base(disk), Happened) /\ Pays(Base(mirror), Happened)
    BY <1>1 DEF Paid, Owes
  <2>2. Pays(Base(disk), Happened + 1)' /\ Pays(Base(mirror), Happened + 1)'
    BY <1>1, <1>6, <1>8, <1>10, <2>1, BaseParts DEF Base
  <2> QED  BY <2>2 DEF Owes
<1>12. ASSUME NEW i \in DOMAIN commit.saves PROVE Owes(commit.saves[i], Happened)'
  <2>0. PICK u \in Nat : u = Base(commit.saves[i])
    BY <1>6, BaseParts
  <2>1. PICK n \in Nat : n = Happened
    BY <1>6
  <2>2. Pays(u, n)'
    <3>1. CASE commit.of.guess
      <4>1. Pays(u, n)
        BY <1>1, <2>0, <2>1, <3>1 DEF Paid, Owes
      <4> QED  BY <1>5, <1>8, <3>1, <4>1
    <3>2. CASE ~commit.of.guess
      <4>1. commit.end <= u /\ Pays(Segment.start, n)
        BY <1>1, <1>3, <1>5, <2>0, <2>1, <3>2 DEF Paid, Owes, Base
      <4>2. Segment.end <= u
        BY <1>3, <1>5, <4>1
      <4> QED  BY <1>5, <1>8, <3>2, <4>1, <4>2
    <3> QED  BY <3>1, <3>2
  <2>3. Base(commit.saves[i])' = u /\ Happened' = n
    BY <1>4, <1>10, <2>0, <2>1 DEF Base
  <2> QED  BY <2>2, <2>3 DEF Owes
<1> QED  BY <1>1, <1>3, <1>4, <1>8, <1>10, <1>11, <1>12 DEF Paid

\* The commit asks for access, and goes on.
LEMMA GoOnPays ==
    ASSUME SessionInv, Paid, commit.stage \in {"route", "wait"}, NEW stage \in {"wait", "save"},
           commit' = [commit EXCEPT !.stage = stage], UNCHANGED <<disk, mirror, ledger, faults>>
    PROVE  Paid'
<1>1. commit \in CommitType
  BY InCommitParts DEF NoCommit
<1>2. commit'.stage = stage /\ commit'.saves = commit.saves
  BY <1>1, StageType
<1>3. Happened' = Happened
  BY DEF Happened
<1>4. \A s, n : Owes(s, n) => Owes(s, n)'
  BY OwesSame
<1> QED  BY <1>2, <1>3, <1>4 DEF Paid

\* The durable copy owes what the session that follows does.
LEMMA SavePays ==
    ASSUME SessionInv, Paid, Save
    PROVE  Paid'
<1>1. /\ commit.stage = "save" /\ commit # NoCommit /\ mirror' = mirror /\ ledger' = ledger
  BY DEF Save, InCommit, NoCommit
<1>2. /\ commit \in CommitType /\ Head(commit.saves) = commit.saves[1]
      /\ commit.saves[1] \in TimedSession /\ 1 \in DOMAIN commit.saves
      /\ Happened \in Nat /\ Happened + 1 \in Nat /\ Happened <= Happened + 1
  BY <1>1, InCommitParts, PaidParts
<1>3. CASE Fail("reject") /\ EndCommit(FALSE) /\ UNCHANGED disk
  BY <1>1, <1>3, CutPays DEF EndCommit, Faults
<1>4. CASE /\ disk' = Head(commit.saves)
           /\ commit' = [commit EXCEPT !.stage = "mirror", !.cache = "kept"]
           /\ UNCHANGED <<drain, faults>>
  <2>1. commit'.stage = "mirror" /\ commit'.saves = commit.saves
    BY <1>2, <1>4 DEF CommitType
  <2>2. Happened' = Happened /\ disk' = commit.saves[1]
    BY <1>2, <1>4 DEF Happened
  <2>3. \A s, n : Owes(s, n) => Owes(s, n)'
    BY <1>1, OwesSame
  <2>4. /\ Owes(mirror, Happened + 1) /\ IsFiniteSet(ledger)
        /\ \A i \in DOMAIN commit.saves : Owes(commit.saves[i], Happened)
    BY <1>1 DEF Paid
  <2>5. Owes(commit.saves[1], Happened + 1)
    BY <1>2, <2>4, OwesLess, BaseParts
  <2> QED  BY <1>1, <2>1, <2>2, <2>3, <2>4, <2>5 DEF Paid
<1> QED  BY <1>3, <1>4 DEF Save

\* The mirror does, or the fault that keeps it as it was pays.
LEMMA MirrorPays ==
    ASSUME SessionInv, Paid, Mirror
    PROVE  Paid'
<1>1. /\ commit.stage = "mirror" /\ commit # NoCommit /\ disk' = disk /\ ledger' = ledger
  BY DEF Mirror, InCommit, NoCommit
<1>2. /\ commit \in CommitType /\ Head(commit.saves) = commit.saves[1]
      /\ commit.saves \in Seq(TimedSession) /\ SavesOK(commit.saves)
      /\ commit.saves[1] \in TimedSession /\ 1 \in DOMAIN commit.saves
      /\ \A i \in DOMAIN commit.saves : commit.saves[i] \in TimedSession
      /\ mirror \in TimedSession \cup {NoMirror} /\ Happened \in Nat
  BY <1>1, InCommitParts, PaidParts
<1>3. /\ disk = commit.saves[1] /\ Owes(mirror, Happened + 1) /\ IsFiniteSet(ledger)
      /\ \A i \in DOMAIN commit.saves : Owes(commit.saves[i], Happened)
  BY <1>1 DEF Paid
<1>4. /\ Happened' \in Nat /\ Happened <= Happened' /\ Owes(mirror', Happened')
      /\ mirror' \in TimedSession \cup {NoMirror}
  <2>1. CASE mirror' = Head(commit.saves) /\ UNCHANGED faults
    <3>1. Happened' = Happened
      BY <2>1 DEF Happened
    <3>2. mirror' = commit.saves[1] /\ Owes(commit.saves[1], Happened)
      BY <1>2, <1>3, <2>1
    <3> QED  BY <1>2, <3>1, <3>2
  <2>2. CASE Fail("mirror") /\ UNCHANGED mirror
    <3>1. Happened' = Happened + 1
      BY <2>2, FaultAdds DEF SessionInv, Faults
    <3> QED  BY <1>2, <1>3, <2>2, <3>1
  <2> QED  BY <2>1, <2>2 DEF Mirror
<1>0. PICK n \in Nat : n = Happened'
  BY <1>4
<1>5. \A i \in DOMAIN commit.saves : Owes(commit.saves[i], n)
  BY <1>0, <1>2, <1>3, <1>4, OwesLess, BaseParts
<1>6. Owes(disk, n) /\ Owes(mirror', n)
  BY <1>0, <1>2, <1>3, <1>4, <1>5
<1>7. \A s, m : Owes(s, m) => Owes(s, m)'
  BY <1>1, OwesSame
<1>8. CASE Len(commit.saves) = 1 /\ EndCommit(TRUE)
  BY <1>0, <1>1, <1>3, <1>6, <1>7, <1>8 DEF Paid, EndCommit, NoCommit
<1>9. CASE /\ Len(commit.saves) # 1
           /\ commit' = [commit EXCEPT !.stage = "save", !.saves = Tail(@)]
  <2>1. /\ Tail(commit.saves)[1] = commit.saves[2] /\ DOMAIN Tail(commit.saves) = {1}
        /\ 2 \in DOMAIN commit.saves
    BY <1>2, <1>9, SavesParts
  <2>2. commit'.stage = "save" /\ commit'.saves = Tail(commit.saves)
    BY <1>2, <1>9 DEF CommitType
  <2>3. Owes(disk, n + 1) /\ Owes(mirror', n + 1)
    <3>1. n + 1 \in Nat /\ n <= n + 1
      OBVIOUS
    <3>2. \A s \in TimedSession \cup {NoMirror} : Owes(s, n) => Owes(s, n + 1)
      BY <1>3, <3>1, OwesLess, BaseParts
    <3> QED  BY <1>2, <1>3, <1>4, <1>6, <3>2
  <2> QED  BY <1>0, <1>1, <1>3, <1>5, <1>7, <2>1, <2>2, <2>3 DEF Paid
<1> QED  BY <1>8, <1>9 DEF Mirror

(***************************************************************************)
(* The operations.                                                         *)
(***************************************************************************)
\* A session that is opened now begins no earlier than now.
LEMMA FreshPays ==
    ASSUME SessionInv, Paid, Operation, NEW t \in Later, clock' = t,
           NEW x \in TimedSession, t <= Base(x),
           NEW end \in Instants, end <= t, NEW as \in Modes \cup {Unknown},
           NEW cache \in {"kept", "stored"} \cup Modes,
           Run(Nothing, Read, end, as, <<x>>, cache)
    PROVE  Paid'
<1> DEFINE saves == <<x>>
<1>1. saves \in Seq(TimedSession) /\ saves[1] = x /\ DOMAIN saves = {1}
  BY OneSave
<1>2. Run(Nothing, Read, end, as, saves, cache)
  OBVIOUS
<1> HIDE DEF saves
<1>3. Read \in TimedSession /\ t \in Nat /\ clock \in Nat /\ clock < t /\ end \in Nat
  BY LaterParts, Clocks
<1>4. /\ commit' \in CommitType
      /\ commit'.stage \in {"settle", "route", "save"}
      /\ commit'.of = Read /\ commit'.end = end /\ commit'.saves = saves
  BY <1>1, <1>2, <1>3, NothingIsAnInstant, RunRecord DEF SessionInv
<1>5. commit = NoCommit /\ UNCHANGED <<disk, mirror, ledger, faults>>
  BY DEF Operation, sessions
<1>6. Base(x) \in Nat
  BY BaseParts
<1>7. clock <= Base(x) /\ end <= Base(x)
  BY <1>3, <1>6
<1> QED  BY <1>1, <1>4, <1>5, <1>7, StartPays

\* The sessions that are opened now.
LEMMA FreshBases ==
    ASSUME SessionInv, NEW t \in Later
    PROVE  /\ \A s \in {"active", "idle"} :
                 Opened(s, t, t) \in TimedSession /\ t <= Base(Opened(s, t, t))
           /\ Empty(t) \in TimedSession /\ t <= Base(Empty(t))
           /\ Guessed(t) \in TimedSession /\ t <= Base(Guessed(t))
<1>1. t \in Nat /\ t \in Instants /\ t <= MaxTime
  BY LaterParts, TimesAreCounts DEF Instants
<1>2. \A s \in {"active", "idle"} :
         Opened(s, t, t) \in TimedSession /\ t <= Base(Opened(s, t, t))
  BY <1>1, OpenedParts DEF Opened, Base
<1>3. Empty(t) \in TimedSession /\ t <= Base(Empty(t))
  BY <1>1, EmptyParts DEF Empty, Base
<1>4. Guessed(t) \in TimedSession /\ t <= Base(Guessed(t))
  BY <1>1, GuessedParts DEF Guessed, Base
<1> QED  BY <1>2, <1>3, <1>4

LEMMA EventPays ==
    ASSUME SessionInv, Paid,
           \/ \E to \in {"active", "idle"} : Transition(to)
           \/ Close \/ CheckpointOpens \/ PopupFlush
           \/ \E next \in {"active", "none"} : CheckpointDoubts(next)
    PROVE  Paid'
<1>1. ASSUME NEW to \in {"active", "idle"}, Transition(to) PROVE Paid'
  <2>1. PICK t \in Later : /\ clock' = t
                           /\ Run(Nothing, Read, BoundedClose(Read, t), Unknown,
                                  <<Opened(to, t, t)>>, "stored")
    BY <1>1 DEF Transition
  <2> QED  BY <1>1, <2>1, FreshPays, FreshBases, CloseParts DEF Transition
<1>2. CASE Close
  <2>1. PICK t \in Later : /\ clock' = t
                           /\ Run(Nothing, Read, BoundedClose(Read, t), Unknown, <<Empty(t)>>, "kept")
    BY <1>2 DEF Close
  <2> QED  BY <1>2, <2>1, FreshPays, FreshBases, CloseParts DEF Close
<1>3. CASE CheckpointOpens
  <2>1. PICK t \in Later : /\ clock' = t
                           /\ Run(Nothing, Read, Nothing, Unknown, <<Guessed(t)>>, "stored")
    BY <1>3 DEF CheckpointOpens
  <2> QED  BY <1>3, <2>1, FreshPays, FreshBases, CloseParts DEF CheckpointOpens
<1>4. CASE PopupFlush
  <2>1. PICK t \in Later : /\ clock' = t
                           /\ Run(Nothing, Read, ReliableClose(Read, t), Unknown,
                                  <<Opened("active", t, t)>>, "kept")
    BY <1>4 DEF PopupFlush
  <2>2. ReliableClose(Read, t) \in Instants /\ ReliableClose(Read, t) <= t
    <3>1. /\ t \in Instants /\ t \in Nat /\ Read.start < t /\ Read.start \in Nat
          /\ Read.beat \in Nat /\ Read.start \in Instants /\ Read.beat \in Instants
      BY LaterParts, SessionParts
    <3> QED  BY <3>1, TimesAreCounts DEF ReliableClose, Greater
  <2> QED  BY <1>4, <2>1, <2>2, FreshPays, FreshBases DEF PopupFlush
<1>5. ASSUME NEW next \in {"active", "none"}, CheckpointDoubts(next) PROVE Paid'
  <2>1. PICK t \in Later :
            /\ clock' = t /\ IsDue(Read, t)
            /\ Run(Nothing, Read, Read.start + Lesser(t - Read.start, Repair), Unknown,
                   <<IF next = "active" THEN Guessed(t) ELSE Empty(t)>>,
                   IF next = "active" THEN "stored" ELSE "kept")
    BY <1>5 DEF CheckpointDoubts
  <2> DEFINE end == Read.start + Lesser(t - Read.start, Repair)
             x == IF next = "active" THEN Guessed(t) ELSE Empty(t)
             cache == IF next = "active" THEN "stored" ELSE "kept"
  <2>2. t \in Instants /\ t \in Nat /\ Read.start \in Nat /\ Read.start < t
    BY LaterParts
  <2>3. end \in Nat /\ end <= t
    BY <2>2, Clocks DEF Lesser
  <2>4. end \in Instants
    BY <2>2, <2>3, TimesAreCounts DEF Instants
  <2>5. x \in TimedSession /\ t <= Base(x)
    BY FreshBases
  <2>6. cache \in {"kept", "stored"}
    OBVIOUS
  <2>7. Run(Nothing, Read, end, Unknown, <<x>>, cache)
    BY <2>1
  <2> HIDE DEF end, x, cache
  <2> QED  BY <1>5, <2>1, <2>3, <2>4, <2>5, <2>6, <2>7, FreshPays DEF CheckpointDoubts
<1> QED  BY <1>1, <1>2, <1>3, <1>4, <1>5

\* recover() leaves nothing open.
LEMMA RecoverPays ==
    ASSUME SessionInv, Paid, Recover
    PROVE  Paid'
<1>1. PICK t \in Later :
          /\ clock' = t
          /\ IF Read.state = "none" THEN UNCHANGED commit
             ELSE Run(Nothing, Read,
                      IF Read.state = "active" THEN Lesser(t, Read.start + Repair)
                      ELSE Nothing,
                      mode, <<Empty(t)>>, "kept")
  BY DEF Recover
<1>2. Operation /\ UNCHANGED <<disk, mirror, ledger, faults>>
  BY DEF Recover, Operation, sessions
<1>3. CASE Read.state = "none"
  BY <1>1, <1>2, <1>3, QuietPays
<1>4. CASE Read.state # "none"
  <2> DEFINE end == IF Read.state = "active" THEN Lesser(t, Read.start + Repair) ELSE Nothing
  <2>1. t \in Instants /\ t \in Nat /\ Read.start \in Nat /\ Read.start < t
    BY LaterParts
  <2>2. end \in Nat /\ end <= t
    BY <2>1, Clocks DEF Lesser, Nothing
  <2>3. end \in Instants
    BY <2>1, <2>2, TimesAreCounts DEF Instants
  <2>4. Run(Nothing, Read, end, mode, <<Empty(t)>>, "kept")
    BY <1>1, <1>4
  <2> HIDE DEF end
  <2>5. mode \in Modes \cup {Unknown}
    BY DEF SessionInv, Types
  <2> QED  BY <1>1, <1>2, <2>2, <2>3, <2>4, <2>5, FreshPays, FreshBases
<1> QED  BY <1>3, <1>4

\* A confirmed session goes on where the interval that is settled ends.
LEMMA ConfirmPays ==
    ASSUME SessionInv, Paid, CheckpointConfirms
    PROVE  Paid'
<1> DEFINE end == Read.start + Checkpoint
<1>1. PICK t \in Later : /\ clock' = t /\ IsDue(Read, t)
                         /\ Run(Nothing, Read, end, Unknown,
                                <<Opened("active", end, end), Opened("active", end, t)>>, "kept")
  BY DEF CheckpointConfirms
<1>2. /\ commit = NoCommit /\ Read.state = "active" /\ UNCHANGED <<disk, mirror, ledger, faults>>
  BY <1>1 DEF CheckpointConfirms, IsDue, Operation, sessions
<1>3. /\ t \in Instants /\ t \in Nat /\ Read \in TimedSession /\ Read.start \in Nat
      /\ Read.beat \in Nat /\ Read.guess \in BOOLEAN
      /\ Read.guess => Read.beat <= Read.start + Repair
  BY LaterParts, SessionParts
<1>4. end \in Nat /\ end <= t
  BY <1>1, <1>3, Clocks DEF IsDue
<1>5. end \in Instants
  BY <1>3, <1>4, TimesAreCounts DEF Instants
<1>6. Base(Read) <= end
  <2>1. Read.start + Repair < end /\ Read.start <= end
    BY <1>3, Clocks, RepairIsShorter
  <2> QED  BY <1>2, <1>3, <1>4, <2>1, Clocks DEF Base
<1> HIDE DEF end
<1> DEFINE x == Opened("active", end, end)
           y == Opened("active", end, t)
           saves == <<x, y>>
<1>7. /\ x \in TimedSession /\ y \in TimedSession /\ Base(x) = end /\ Base(y) = end
  BY <1>3, <1>5 DEF Opened, TimedSession, Session, Base
<1> HIDE DEF x, y
<1>8. /\ saves \in Seq(TimedSession) /\ DOMAIN saves = {1, 2} /\ saves[1] = x /\ saves[2] = y
  BY <1>7
<1>9. Run(Nothing, Read, end, Unknown, saves, "kept")
  BY <1>1 DEF x, y
<1> HIDE DEF saves
<1>10. /\ commit' \in CommitType
       /\ commit'.stage \in {"settle", "route", "save"}
       /\ commit'.of = Read /\ commit'.end = end /\ commit'.saves = saves
  BY <1>3, <1>5, <1>8, <1>9, NothingIsAnInstant, RunRecord DEF SessionInv
<1>11. \A i \in DOMAIN saves : saves[i] \in TimedSession /\ Base(saves[i]) = end
  BY <1>7, <1>8
<1> QED  BY <1>2, <1>4, <1>6, <1>10, <1>11, StartPays

\* A boundary moves the session's start forward, or leaves it alone.
LEMMA BoundaryPays ==
    ASSUME SessionInv, Paid, ApplyBoundary
    PROVE  Paid'
<1> DEFINE s == Read
<1>1. commit = NoCommit /\ UNCHANGED <<disk, mirror, ledger, faults>>
  BY DEF ApplyBoundary, sessions
<1>2. PICK b \in Waiting :
         \/ s.state = "none" /\ UNCHANGED commit
         \/ b.at <= s.start /\ Run(b.at, s, Nothing, Unknown, <<s>>, b.to)
         \/ /\ b.at > s.start
            /\ Run(b.at, s, IF s.state = "active" THEN b.at ELSE Nothing,
                   b.from, <<Reopened(s, b)>>, b.to)
  BY DEF ApplyBoundary
<1>3. b \in IntentType /\ b.at \in Nat /\ b.at \in Instants /\ b.from \in Modes /\ b.to \in Modes
  BY IntentParts DEF SessionInv
<1>4. /\ s \in TimedSession /\ s.start \in Nat /\ s.beat \in Nat /\ s.guess \in BOOLEAN
  BY ReadIsDisk, SessionParts
<1>5. Nothing \in Instants /\ ~(Nothing > s.start)
  BY <1>4, TimesAreCounts DEF Nothing, Instants
\* A commit of the drain's, which saves x.
<1>6. ASSUME NEW end \in Instants, NEW as \in Modes \cup {Unknown}, NEW x \in TimedSession,
             Run(b.at, s, end, as, <<x>>, b.to), Base(s) <= Base(x),
             end > s.start => end <= Base(x)
      PROVE  Paid'
  <2> DEFINE saves == <<x>>
  <2>1. saves \in Seq(TimedSession) /\ saves[1] = x /\ DOMAIN saves = {1}
    BY OneSave
  <2>2. Run(b.at, s, end, as, saves, b.to)
    BY <1>6
  <2> HIDE DEF saves
  <2>3. /\ commit' \in CommitType
        /\ commit'.stage \in {"settle", "route", "save"}
        /\ commit'.stage = "settle" <=> s.start < end
        /\ commit'.of = s /\ commit'.end = end /\ commit'.saves = saves
    BY <1>3, <1>4, <2>1, <2>2, RunRecord DEF SessionInv
  <2>4. commit'.stage = "settle" => end <= Base(x)
    BY <1>4, <1>6, <2>3, Clocks
  <2> QED  BY <1>1, <1>6, <2>1, <2>3, <2>4, StartPays
<1>7. CASE s.state = "none" /\ UNCHANGED commit
  BY <1>1, <1>7, QuietPays
<1>8. CASE b.at <= s.start /\ Run(b.at, s, Nothing, Unknown, <<s>>, b.to)
  <2>1. Base(s) <= Base(s)
    BY <1>4, BaseParts
  <2> QED  BY <1>4, <1>5, <1>6, <1>8, <2>1
<1>9. CASE /\ b.at > s.start
            /\ Run(b.at, s, IF s.state = "active" THEN b.at ELSE Nothing,
                   b.from, <<Reopened(s, b)>>, b.to)
  <2> DEFINE end == IF s.state = "active" THEN b.at ELSE Nothing
             x == Reopened(s, b)
  <2>1. x \in TimedSession /\ x.start = b.at /\ x.state = s.state
    BY <1>3, <1>4, <1>9, ReopenedParts
  <2>2. x.beat = Greater(s.beat, b.at) /\ x.guess = (s.guess /\ b.at < s.beat)
    BY <1>4 DEF Reopened, TimedSession, Session
  <2>3. end \in Instants /\ (end > s.start => s.state = "active" /\ end = b.at)
    BY <1>3, <1>5
  <2>4. Run(b.at, s, end, b.from, <<x>>, b.to)
    BY <1>9
  <2> HIDE DEF end, x
  <2>5. Base(s) <= Base(x) /\ (s.state = "active" => b.at <= Base(x))
    <3>1. CASE s.state # "active"
      BY <2>1, <3>1, TimesAreCounts DEF Base
    <3>2. CASE s.state = "active"
      BY <1>3, <1>4, <1>9, <2>1, <2>2, <3>2 DEF Base, Greater
    <3> QED  BY <3>1, <3>2
  <2> QED  BY <1>3, <1>6, <2>1, <2>3, <2>4, <2>5
<1> QED  BY <1>2, <1>7, <1>8, <1>9

(***************************************************************************)
(* Every fault pays.                                                       *)
(***************************************************************************)
LEMMA PaidInit == Init => Paid
<1> SUFFICES ASSUME Init PROVE Paid
  OBVIOUS
<1>1. SessionInv /\ ledger = {} /\ commit.stage = "free"
  BY SessionInit DEF Init, NoCommit
<1>2. IsFiniteSet(ledger)
  BY <1>1, FS_EmptySet
<1>3. CountedTimes = {}
  BY <1>1 DEF CountedTimes, Known
<1>4. Cardinality(CountedTimes) = 0
  BY <1>3, FS_EmptySet
<1>5. disk \in TimedSession /\ mirror \in TimedSession \cup {NoMirror}
  BY <1>1, PaidParts
<1>6. Happened = 0
  <2>1. /\ faults["reject"] = 0 /\ faults["mirror"] = 0
        /\ faults["stop"] = 0 /\ faults["restart"] = 0
    BY DEF Init, Faults
  <2> QED  BY <2>1 DEF Happened
<1>7. \A s \in TimedSession \cup {NoMirror} : Owes(s, 0)
  <2> SUFFICES ASSUME NEW s \in TimedSession \cup {NoMirror} PROVE Owes(s, 0)
    OBVIOUS
  <2>1. Base(s) \in Nat
    BY BaseParts
  <2>2. Cardinality(CoveredBefore(Base(s))) \in Nat
    BY <1>1, <1>2, <2>1, TimesAreFinite DEF Finite
  <2>3. 0 * Checkpoint = 0
    BY Clocks
  <2> QED  BY <1>4, <2>2, <2>3 DEF Owes, Pays
<1> QED  BY <1>1, <1>2, <1>5, <1>6, <1>7 DEF Paid

LEMMA PaidNext == SessionInv /\ Paid /\ [Next]_vars => Paid'
<1> SUFFICES ASSUME SessionInv, Paid, [Next]_vars PROVE Paid'
  OBVIOUS
<1>1. CASE \/ \E to \in {"active", "idle"} : Transition(to)
           \/ Close \/ CheckpointOpens \/ PopupFlush
           \/ \E next \in {"active", "none"} : CheckpointDoubts(next)
  BY <1>1, EventPays
<1>2. CASE Recover
  BY <1>2, RecoverPays
<1>3. CASE CheckpointConfirms
  BY <1>3, ConfirmPays
<1>4. CASE \E to \in Modes : RouteChangesMode(to)
  <2>1. /\ commit.stage = "route" /\ commit' = [commit EXCEPT !.stage = "wait"]
        /\ UNCHANGED <<disk, mirror, ledger, faults>>
    BY <1>4 DEF RouteChangesMode, sessions
  <2> QED  BY <2>1, GoOnPays
<1>5. CASE Route \/ Routed
  <2>1. /\ commit.stage \in {"route", "wait"} /\ commit' = [commit EXCEPT !.stage = "save"]
        /\ UNCHANGED <<disk, mirror, ledger, faults>>
    BY <1>5 DEF Route, Routed, InCommit, sessions
  <2> QED  BY <2>1, GoOnPays
<1>6. CASE Settle
  BY <1>6, SettlePays
<1>7. CASE Reject
  <2>1. Fail("reject") /\ commit' = NoCommit /\ UNCHANGED <<disk, mirror, ledger>>
    BY <1>7 DEF Reject, EndCommit, sessions
  <2> QED  BY <2>1, CutPays DEF Faults
<1>8. CASE Save
  BY <1>8, SavePays
<1>9. CASE Mirror
  BY <1>9, MirrorPays
<1>10. CASE ApplyBoundary
  BY <1>10, BoundaryPays
<1>11. CASE StopWorker
  BY <1>11, CutPays DEF StopWorker, LoseMemory, Faults
<1>12. CASE RestartBrowser
  BY <1>12, CutPays DEF RestartBrowser, LoseMemory, Faults
<1>13. CASE \/ \E to \in Modes : DecideMode(to)
            \/ \E c \in changes : ChangeStep(c)
            \/ StartDrain \/ EndDrain
  BY <1>13, QuietPays DEF DecideMode, ChangeStep, SaveMode, CacheMode, Enqueue, InChange,
                          StartDrain, EndDrain, sessions
<1>14. CASE UNCHANGED vars
  BY <1>14, QuietPays DEF vars
<1> QED
  BY <1>1, <1>2, <1>3, <1>4, <1>5, <1>6, <1>7, <1>8, <1>9, <1>10, <1>11, <1>12, <1>13, <1>14
     DEF Next, DrainStep, CommitStep

LEMMA PaidInvariant == Spec => []Paid
<1> QED  BY PaidInit, PaidNext, SessionInvariant, PTL DEF Spec

\* However often the worker stops, the browser restarts, a write is rejected or
\* the mirror lags behind: an instant is counted once, and what is counted again
\* is at most one interval for every fault.
THEOREM FaultsCostAnIntervalEach == Spec => []FaultsCountAtMostAnInterval
<1>1. ASSUME SessionInv, Paid PROVE FaultsCountAtMostAnInterval
  <2>1. Happened \in Nat /\ Happened * Checkpoint \in Nat
    BY <1>1, FaultAdds, Clocks DEF SessionInv
  <2>2. PICK s \in TimedSession \cup {NoMirror} : Owes(s, Happened)
    <3>1. CASE commit.stage \in {"free", "settle"}
      BY <1>1, <3>1, PaidParts DEF Paid
    <3>2. CASE commit.stage \in {"route", "wait", "save", "mirror"}
      <4>1. commit # NoCommit
        BY <3>2 DEF NoCommit
      <4> QED  BY <1>1, <3>2, <4>1, PaidParts DEF Paid
    <3>3. commit.stage \in {"free", "settle", "route", "wait", "save", "mirror"}
      BY <1>1, CommitParts DEF SessionInv, NoCommit
    <3> QED  BY <3>1, <3>2, <3>3
  <2> DEFINE a == Cardinality(CountedTimes)
             b == Cardinality(CoveredBefore(Base(s)))
             c == Cardinality(CoveredTimes)
  <2>3. a <= b + Happened * Checkpoint /\ a \in Nat /\ b \in Nat
    BY <1>1, <2>2, BaseParts, TimesAreFinite DEF Owes, Pays, Paid, Finite
  <2>4. b <= c /\ c \in Nat
    <3>1. IsFiniteSet(CoveredTimes)
      <4>1. CoveredTimes = CoveredBefore(clock)
        BY <1>1, TimesAreFinite DEF Paid, Finite, CoveredBefore
      <4>2. clock \in Nat
        BY <1>1, Clocks DEF SessionInv, Types
      <4> QED  BY <1>1, <4>1, <4>2, TimesAreFinite DEF Paid, Finite
    <3>2. CoveredBefore(Base(s)) \in SUBSET CoveredTimes
      BY DEF CoveredBefore
    <3> QED  BY <3>1, <3>2, FS_Subset, FS_CardinalityType
  <2> HIDE DEF a, b, c
  <2>5. a <= c + Happened * Checkpoint
    BY <2>1, <2>3, <2>4
  <2> QED  BY <2>5 DEF a, c, FaultsCountAtMostAnInterval
<1> QED  BY <1>1, SessionInvariant, PaidInvariant, PTL
=============================================================================
