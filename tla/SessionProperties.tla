------------------------- MODULE SessionProperties -------------------------
(* What foreground timing promises. *)
EXTENDS SessionTiming

\* The sessions, the segments and the intents are well formed.
TypeOK ==
    /\ clock \in Instants
    /\ disk \in Session /\ mirror \in Session \cup {NoMirror}
    /\ mode \in Modes /\ cached \in Modes \cup {Unknown}
    /\ \A g \in ledger : g.mode \in Modes \cup {Unknown} /\ {g.start, g.end} \subseteq Instants
    /\ modeAt \in [Instants -> Modes] /\ split \cup contested \subseteq Instants
    /\ drain.done \subseteq {b.at : b \in intents}

Overlap(g, h) == Lesser(g.end, h.end) - Greater(g.start, h.start)
NoFault(f) == faults[f] = 0

\* The segments whose start is no estimate, the instants they cover, and how often:
\* an instant once for every segment that has it.
Known == {g \in ledger : ~g.guess}
Span(g) == g.start .. g.end - 1
CoveredTimes == UNION {Span(g) : g \in Known}
CountedTimes == {c \in Known \X Instants : c[2] \in Span(c[1])}

\* A segment is never settled before its time has passed, and it is never
\* longer than the interval that was last confirmed.
OnlyElapsedTime ==
    \A g \in ledger : /\ g.start < g.end /\ g.end <= clock
                      /\ g.end - g.start <= Checkpoint

\* Without faults time is counted once: two segments overlap only when the
\* start of one is an estimate, and by no more than the estimate.
CountedOnceButForEstimates ==
    Happened = 0 => \A g, h \in ledger :
        \/ g = h \/ Overlap(g, h) <= 0
        \/ (g.guess \/ h.guess) /\ Overlap(g, h) <= Repair

\* A fault makes the session settle again what it had settled. No fault adds
\* more than one interval between two confirmations to what was counted.
FaultsCountAtMostAnInterval ==
    Cardinality(CountedTimes) <= Cardinality(CoveredTimes) + Happened * Checkpoint

\* The segment that a boundary closes has the mode that was in effect during
\* all of it, unless its change overlapped another, was cut short, or the mirror
\* was stale. Drains that come late, are repeated or reject change nothing about it.
BoundaryKeepsOldMode ==
    Happened = faults["reject"] =>
        \A g \in ledger : g.by \notin contested \cup {Nothing} /\ ~g.guess
            => \A t \in g.start .. g.end - 1 : modeAt[t] = g.mode

\* ... and so without a look at what its change overlapped.
BoundaryAlwaysKeepsOldMode ==
    Happened = 0 =>
        \A g \in ledger : g.by # Nothing /\ ~g.guess
            => \A t \in g.start .. g.end - 1 : modeAt[t] = g.mode

\* Once a boundary is consumed, no open session reaches back across it.
ConsumedBoundarySplits ==
    commit = NoCommit /\ Read.state = "active" /\ ~Read.guess /\ NoFault("mirror")
        => \A b \in split : Read.start >= b

\* The durable session is replaced only after its time is settled, or by one
\* that starts no later; unless an older copy of it was read from the mirror.
SettledBeforeReplaced ==
    [][disk.state = "active" /\ NoFault("mirror") /\ NoFault("stop")
       => \/ disk'.state = "active" /\ disk'.start <= disk.start
          \/ \E g \in ledger : g.start <= disk.start /\ disk.start < g.end]_vars

\* docs/MODE_QUOTA_ROUTING_MATRIX_V0.md: a mode switch waits only for its
\* intent to be queued, not for the ledgers to be sliced; so it always ends.
SwitchesEnd ==
    \A t \in Instants : (\E c \in changes : c.at = t) ~> (\A c \in changes : c.at # t)

\* The rule of docs/MODE_QUOTA_ROUTING_MATRIX_V0.md: a segment has the mode
\* that was in effect during it (or none is known).
SegmentsKeepTheirMode ==
    \A g \in ledger : g.mode # Unknown /\ ~g.guess
        => \A t \in g.start .. g.end - 1 : modeAt[t] = g.mode
=============================================================================
