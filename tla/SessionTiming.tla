--------------------------- MODULE SessionTiming ---------------------------
(***************************************************************************)
(* Foreground timing: from browser events to settled usage segments        *)
(* (runtime/session.js, runtime/recovery.js, core/mode-boundary-intents.js *)
(* and the mode change of product/mode-service.js).                        *)
(*                                                                         *)
(* One session is open at a time. Every operation on it is a commit: it    *)
(* reads the session, settles a segment of it, and saves the session that  *)
(* follows, first on disk and then in a volatile mirror. Commits run one   *)
(* at a time, but the worker may stop between two of their steps. A mode   *)
(* change is no commit: it runs between the steps of one, and nothing      *)
(* keeps two of them from running at once.                                 *)
(*                                                                         *)
(* Abstractions. Time is counted in fractions of a checkpoint, and two     *)
(* events never happen at the same instant. A session's page is left out:   *)
(* an event that would reopen the same page changes nothing. A settlement  *)
(* is durable once its journal is written (UsageLedger has the rest).      *)
(* Page domains, quota targets, traces and diagnostics are left out.         *)
(***************************************************************************)
EXTENDS Integers, Sequences, FiniteSets

CONSTANTS Modes, Unknown,  \* the modes, and what is cached before one is read
          FirstMode,
          MaxTime,         \* bound: the last instant
          Checkpoint,      \* FOREGROUND_CHECKPOINT_MS
          Repair,          \* FOREGROUND_CHECKPOINT_REPAIR_MS, RECOVERY_ESTIMATE_MS
          Stale,           \* STALE_GAP_THRESHOLD
          MaxChanges,      \* bound: how many changes run or have a boundary waiting
          MaxFaults        \* bound: how many faults happen

ASSUME TimesAreCounts == {MaxTime, Checkpoint, Repair, Stale} \subseteq Nat \ {0}
ASSUME RepairIsShorter == Repair < Checkpoint
ASSUME FirstModeIsOne == FirstMode \in Modes /\ Unknown \notin Modes
ASSUME BoundsAreCounts == {MaxChanges, MaxFaults} \subseteq Nat

VARIABLES
    clock,
    disk,     \* session_v1_persistent
    mirror,   \* session_v1, in the browser's volatile storage
    mode,     \* the mode of guardian_session, on disk
    cached,   \* cachedEffectiveMode, in the worker's memory
    changes,  \* the mode changes that run, from the dispatch to the queueing
    intents,  \* mode_boundary_intents_v1
    drain,    \* the running drain of the intents
    commit,   \* the running commit
    startup,  \* the browser has started and recover() is yet to run
    ledger,   \* the settled segments
    modeAt,   \* history: the mode in effect during each interval
    contested,\* history: the boundaries of changes that overlapped another
    split,    \* history: the boundaries whose intent was consumed
    faults    \* how often each fault has happened

Faults == {"reject", "mirror", "stop", "restart"}
Happened == faults["reject"] + faults["mirror"] + faults["stop"] + faults["restart"]
Fail(f) == Happened < MaxFaults /\ faults' = [faults EXCEPT ![f] = @ + 1]

sessions == <<disk, mirror>>
modes == <<mode, changes, modeAt, contested>>
queue == <<intents, drain, split>>
vars == <<clock, disk, mirror, mode, cached, changes, intents, drain, commit,
          startup, ledger, modeAt, contested, split, faults>>

Instants == 0 .. MaxTime
Lesser(a, b) == IF a < b THEN a ELSE b
Greater(a, b) == IF a < b THEN b ELSE a

\* A session: nothing open, a page in front, or an open state that is not counted;
\* `guess` says that it starts before the sample that opened it.
Session == [state : {"none", "active", "idle"}, start : Instants, beat : Instants,
            guess : BOOLEAN]
Empty(t) == [state |-> "none", start |-> 0, beat |-> t, guess |-> FALSE]
Opened(s, at, t) == [state |-> s, start |-> at, beat |-> t, guess |-> FALSE]
\* checkpoint_estimated_open: the start is the repair interval before the sample.
Guessed(t) == [state |-> "active", start |-> Greater(0, t - Repair), beat |-> t,
               guess |-> TRUE]
NoMirror == [state |-> "lost", start |-> 0, beat |-> 0, guess |-> FALSE]

NoCommit == [stage |-> "free"]
NoDrain == [on |-> FALSE, done |-> {}, ok |-> TRUE]
Nothing == 0   \* no interval ends and no boundary lies at the first instant

Init ==
    /\ clock = 0 /\ modeAt = [t \in Instants |-> FirstMode]
    /\ disk = Empty(0) /\ mirror = Empty(0)
    /\ mode = FirstMode /\ cached = Unknown
    /\ changes = {} /\ contested = {}
    /\ intents = {} /\ drain = NoDrain /\ split = {}
    /\ commit = NoCommit /\ startup = FALSE
    /\ ledger = {} /\ faults = [f \in Faults |-> 0]

Freshness(s) == Greater(s.beat, s.start)
\* getSessionWithPersistenceSource: the mirror, unless the disk's copy is fresher.
Read == IF mirror = NoMirror \/ Freshness(disk) > Freshness(mirror)
        THEN disk ELSE mirror

Later == {t \in Instants : t > clock}

(***************************************************************************)
(* Commits: what each operation does with the session it reads.            *)
(***************************************************************************)
\* A commit settles s up to `end` (if anything), in mode `as` or the cached
\* one, and saves the sessions of `saves`; `cache` is what it caches then. `by` is
\* the boundary it is about, Nothing for an event, a timer or the start. An
\* estimated opening asks for access to the page before it saves.
Run(by, s, end, as, saves, cache) ==
    LET next == IF saves[1].guess /\ by = Nothing THEN "route" ELSE "save"
    IN commit' = [stage |-> IF end > s.start THEN "settle" ELSE next, next |-> next,
                  by |-> by, of |-> s, end |-> end, as |-> as,
                  saves |-> saves, cache |-> cache]

Operation ==
    /\ commit = NoCommit
    /\ UNCHANGED <<sessions, cached, modes, queue, ledger, faults>>

\* getBoundedForegroundClose; a session that is not counted settles nothing.
BoundedClose(s, t) ==
    IF s.state = "active" THEN Lesser(t, s.start + Checkpoint) ELSE Nothing

\* transitionStateAt: an event closes the open session and opens the next one.
Transition(to) ==
    /\ Operation /\ UNCHANGED startup
    /\ Read.state # "idle" \/ to # "idle"
    /\ \E t \in Later :
          /\ clock' = t
          /\ Run(Nothing, Read, BoundedClose(Read, t), Unknown,
                 <<Opened(to, t, t)>>, "stored")

\* closeCurrentSession: the tab is closed or monitoring is switched off.
Close ==
    /\ Operation /\ UNCHANGED startup
    /\ \E t \in Later :
          /\ clock' = t
          /\ Run(Nothing, Read, BoundedClose(Read, t), Unknown, <<Empty(t)>>, "kept")

\* getReliableCloseTime: without a heartbeat for long, the time of the last one.
ReliableClose(s, t) ==
    IF t - s.beat > Stale THEN Greater(s.start, s.beat) ELSE t

\* flushOpenSessionToStats when the popup opens; with no time to settle it
\* changes nothing.
PopupFlush ==
    /\ Operation /\ UNCHANGED startup
    /\ Read.state = "active"
    /\ \E t \in Later :
          /\ clock' = t
          /\ ReliableClose(Read, t) > Read.start
          /\ Run(Nothing, Read, ReliableClose(Read, t), Unknown,
                 <<Opened("active", t, t)>>, "kept")

\* runPeriodicCheckpoint without a session: an active page opens one.
CheckpointOpens ==
    /\ Operation /\ UNCHANGED startup
    /\ Read.state = "none"
    /\ \E t \in Later :
          /\ clock' = t
          /\ Run(Nothing, Read, Nothing, Unknown, <<Guessed(t)>>, "stored")

\* bug: the alarm is trusted to come once in an interval.
IsAwake(s, t) == s.state = "active" /\ t > s.start

IsDue(s, t) == s.state = "active" /\ t - s.start >= Checkpoint

\* The page is confirmed: one whole interval is settled. The session is saved
\* by the flush and once more by the checkpoint, with the time of the sample.
CheckpointConfirms ==
    /\ Operation /\ UNCHANGED startup
    /\ \E t \in Later :
          LET end == Read.start + Checkpoint
          IN /\ IsDue(Read, t)
             /\ clock' = t
             /\ Run(Nothing, Read, end, Unknown,
                    <<Opened("active", end, end), Opened("active", end, t)>>, "kept")

\* It is not confirmed: half an interval is settled, and the page that is in
\* front instead, if any, is opened.
CheckpointDoubts(next) ==
    /\ Operation /\ UNCHANGED startup
    /\ \E t \in Later :
          /\ IsDue(Read, t)
          /\ clock' = t
          /\ Run(Nothing, Read, Read.start + Lesser(t - Read.start, Repair), Unknown,
                 <<IF next = "active" THEN Guessed(t) ELSE Empty(t)>>,
                 IF next = "active" THEN "stored" ELSE "kept")

\* recover(), once after the browser's start.
Recover ==
    /\ Operation
    /\ startup /\ startup' = FALSE
    /\ \E t \in Later :
          /\ clock' = t
          /\ IF Read.state = "none" THEN UNCHANGED commit
             ELSE Run(Nothing, Read,
                      IF Read.state = "active" THEN Lesser(t, Read.start + Repair)
                      ELSE Nothing,
                      mode, <<Empty(t)>>, "kept")

\* A dispatch decides on a change that takes effect at `at`, and reads the mode it
\* comes from; a mode that is in effect already changes nothing. The change overlaps
\* those that run, and those whose boundary is queued and lies no earlier.
Rivals(at) == {c.at : c \in changes}
              \cup {x \in split \cup {b.at : b \in intents} : x >= at}
Decide(at, to) ==
    /\ to # mode
    /\ Cardinality(changes) + Cardinality(intents) < MaxChanges
    /\ changes' = changes \cup {[stage |-> "save", at |-> at, from |-> mode, to |-> to]}
    /\ contested' = IF Rivals(at) = {} THEN contested
                    ELSE contested \cup Rivals(at) \cup {at}
    /\ UNCHANGED <<mode, modeAt>>

(***************************************************************************)
(* The steps of a commit.                                                  *)
(***************************************************************************)
InCommit(stage) == commit.stage = stage /\ UNCHANGED <<clock, modes, intents, startup, split>>

\* A commit of the drain's tells the drain whether it succeeded.
EndCommit(ok) ==
    /\ commit' = NoCommit
    /\ drain' = IF commit.by = Nothing THEN drain
                ELSE IF ok THEN [drain EXCEPT !.done = @ \cup {commit.by}]
                ELSE [drain EXCEPT !.ok = FALSE]

\* bug: the mode is always the one that is cached.
SegmentAsCached ==
    [start |-> commit.of.start, guess |-> commit.of.guess, by |-> commit.by,
     end |-> Lesser(commit.end, commit.of.start + Checkpoint), mode |-> cached]

Segment == [start |-> commit.of.start, guess |-> commit.of.guess, by |-> commit.by,
            end |-> Lesser(commit.end, commit.of.start + Checkpoint),
            mode |-> IF commit.as = Unknown THEN cached ELSE commit.as]

\* settleCurrentSessionSegment
Settle ==
    /\ InCommit("settle")
    /\ ledger' = ledger \cup {Segment}
    /\ commit' = [commit EXCEPT !.stage = commit.next]
    /\ UNCHANGED <<sessions, cached, drain, faults>>

\* routeCheckpointRepairAccess: the page may be opened in the present mode.
\* (A page that is refused leaves what is left when no page is in front.)
Route ==
    /\ InCommit("route")
    /\ commit' = [commit EXCEPT !.stage = "save"]
    /\ UNCHANGED <<sessions, cached, drain, ledger, faults>>

\* ... or in another, and then the commit waits for the mode change, which takes
\* effect at the time of the sample.
RouteChangesMode(to) ==
    /\ commit.stage = "route"
    /\ Decide(commit.saves[1].beat, to)
    /\ commit' = [commit EXCEPT !.stage = "wait"]
    /\ UNCHANGED <<clock, sessions, cached, queue, startup, ledger, faults>>

Routed ==
    /\ InCommit("wait") /\ \A c \in changes : c.at # commit.saves[1].beat
    /\ commit' = [commit EXCEPT !.stage = "save"]
    /\ UNCHANGED <<sessions, cached, drain, ledger, faults>>

\* bug: the operation goes on to save the next session.
RejectAndSave ==
    /\ InCommit("settle")
    /\ Fail("reject")
    /\ commit' = [commit EXCEPT !.stage = commit.next]
    /\ UNCHANGED <<sessions, cached, ledger, drain>>

\* The journal cannot be written: the operation gives up.
Reject ==
    /\ InCommit("settle")
    /\ Fail("reject")
    /\ EndCommit(FALSE)
    /\ UNCHANGED <<sessions, cached, ledger>>

\* saveSession writes the persistent copy; the mode is cached before.
Save ==
    /\ InCommit("save")
    /\ cached' = CASE commit.cache = "kept" -> cached
                   [] commit.cache = "stored" -> mode
                   [] OTHER -> commit.cache
    /\ \/ /\ disk' = Head(commit.saves)
          /\ commit' = [commit EXCEPT !.stage = "mirror", !.cache = "kept"]
          /\ UNCHANGED <<drain, faults>>
       \/ /\ Fail("reject")
          /\ EndCommit(FALSE)
          /\ UNCHANGED disk
    /\ UNCHANGED <<mirror, ledger>>

\* ... and then the mirror, whose failure is tolerated.
Mirror ==
    /\ InCommit("mirror")
    /\ \/ mirror' = Head(commit.saves) /\ UNCHANGED faults
       \/ /\ Fail("mirror")
          /\ UNCHANGED mirror
    /\ IF Len(commit.saves) = 1 THEN EndCommit(TRUE)
       ELSE /\ commit' = [commit EXCEPT !.stage = "save", !.saves = Tail(@)]
            /\ UNCHANGED drain
    /\ UNCHANGED <<disk, cached, ledger>>

(***************************************************************************)
(* Mode changes and their boundaries.                                      *)
(***************************************************************************)
\* executeModeDecision has read the mode; commitModeChange saves the new one, caches
\* it and queues the boundary, in steps of their own: no lock is held from the first
\* to the last.
DecideMode(to) ==
    /\ \E t \in Later : clock' = t /\ Decide(t, to)
    /\ UNCHANGED <<sessions, cached, queue, commit, startup, ledger, faults>>

InChange(c, stage) ==
    /\ c.stage = stage
    /\ UNCHANGED <<clock, contested, sessions, split, drain, commit, startup, ledger, faults>>
GoesTo(c, next) == changes' = (changes \ {c}) \cup {next}

SaveMode(c) ==
    /\ InChange(c, "save")
    /\ mode' = c.to
    /\ modeAt' = [t \in Instants |-> IF t < c.at THEN modeAt[t] ELSE c.to]
    /\ GoesTo(c, [c EXCEPT !.stage = "cache"])
    /\ UNCHANGED <<cached, intents>>

CacheMode(c) ==
    /\ InChange(c, "cache")
    /\ cached' = c.to
    /\ GoesTo(c, [c EXCEPT !.stage = "enqueue"])
    /\ UNCHANGED <<mode, modeAt, intents>>

\* enqueueModeBoundaryIntent waits for a running drain.
Enqueue(c) ==
    /\ InChange(c, "enqueue") /\ ~drain.on
    /\ intents' = intents \cup {[at |-> c.at, from |-> c.from, to |-> c.to]}
    /\ changes' = changes \ {c}
    /\ UNCHANGED <<mode, modeAt, cached>>

\* drainModeBoundaryIntents, at an alarm, an event or after the mode change.
StartDrain ==
    /\ ~drain.on /\ intents # {}
    /\ drain' = [NoDrain EXCEPT !.on = TRUE]
    /\ UNCHANGED <<clock, sessions, modes, cached, intents, split, commit, startup,
                   ledger, faults>>

\* bug: the session goes on from where it started.
ReopenedUncut(s, b) == [s EXCEPT !.beat = Greater(s.beat, b.at)]

\* Where the session goes on after the boundary: still before the sample that
\* opened it, perhaps, when its start was an estimate.
Reopened(s, b) ==
    [s EXCEPT !.start = b.at, !.beat = Greater(s.beat, b.at),
              !.guess = @ /\ b.at < s.beat]

\* The intents that are not dealt with; the drain takes them by their boundaries.
Waiting == {b \in intents : b.at \notin drain.done}
Foremost(b) == \A w \in Waiting : b.at <= w.at

\* applyModeEffectiveBoundary: without a session the mode is cached; a session
\* that started later keeps its start; another is settled in the old mode and
\* goes on from the boundary.
ApplyBoundary ==
    /\ commit = NoCommit
    /\ drain.on /\ drain.ok
    /\ \E b \in Waiting :
        /\ Foremost(b)
        /\ LET s == Read
           IN \/ /\ s.state = "none"
                 /\ cached' = b.to
                 /\ drain' = [drain EXCEPT !.done = @ \cup {b.at}]
                 /\ UNCHANGED commit
              \/ /\ s.state # "none" /\ b.at <= s.start
                 /\ Run(b.at, s, Nothing, Unknown, <<s>>, b.to)
                 /\ UNCHANGED <<cached, drain>>
              \/ /\ s.state # "none" /\ b.at > s.start
                 /\ Run(b.at, s, IF s.state = "active" THEN b.at ELSE Nothing,
                        b.from, <<Reopened(s, b)>>, b.to)
                 /\ UNCHANGED <<cached, drain>>
    /\ UNCHANGED <<clock, sessions, modes, intents, split, startup, ledger, faults>>

\* The intents that were applied are removed together, at the end.
EndDrain ==
    /\ drain.on /\ (~drain.ok \/ Waiting = {})
    /\ intents' = Waiting
    /\ split' = split \cup drain.done
    /\ drain' = NoDrain
    /\ UNCHANGED <<clock, sessions, modes, cached, commit, startup, ledger, faults>>

(***************************************************************************)
(* Faults.                                                                 *)
(***************************************************************************)
LoseMemory ==
    /\ commit' = NoCommit /\ changes' = {} /\ drain' = NoDrain
    /\ cached' = Unknown
    /\ UNCHANGED <<clock, disk, mode, modeAt, contested, intents, split, ledger>>

\* The browser stops the worker; the next event starts another.
StopWorker ==
    /\ Fail("stop")
    /\ LoseMemory
    /\ UNCHANGED <<mirror, startup>>

RestartBrowser ==
    /\ Fail("restart")
    /\ LoseMemory
    /\ mirror' = NoMirror /\ startup' = TRUE

CommitStep == Settle \/ Reject \/ Route \/ Routed \/ Save \/ Mirror
ChangeStep(c) == SaveMode(c) \/ CacheMode(c) \/ Enqueue(c)
DrainStep == StartDrain \/ ApplyBoundary \/ EndDrain

Next ==
    \/ \E to \in {"active", "idle"} : Transition(to)
    \/ Close \/ PopupFlush \/ Recover
    \/ CheckpointOpens \/ CheckpointConfirms
    \/ \E next \in {"active", "none"} : CheckpointDoubts(next)
    \/ \E to \in Modes : DecideMode(to) \/ RouteChangesMode(to)
    \/ \E c \in changes : ChangeStep(c)
    \/ DrainStep \/ CommitStep
    \/ StopWorker \/ RestartBrowser

Spec == Init /\ [][Next]_vars

\* The worker's steps go on, alarms start a drain again and again, and what waits
\* for the drain or for the commits has its turn.
FairSpec ==
    /\ Spec
    /\ WF_vars(CommitStep)
    /\ \A t \in Instants : SF_vars(\E c \in changes : c.at = t /\ ChangeStep(c))
    /\ WF_vars(StartDrain) /\ SF_vars(ApplyBoundary) /\ WF_vars(EndDrain)
=============================================================================
