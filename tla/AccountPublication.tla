------------------------- MODULE AccountPublication -------------------------
(***************************************************************************)
(* The Worker's publication of device accounts (profileAccountsV2.ts).     *)
(*                                                                         *)
(* A commit of a device's manifest starts a publication. It reads the      *)
(* number of the week's generation, the device's own head, the heads and   *)
(* accounts of the other devices of the date, the number of the day's      *)
(* generation and the day accounts of the week, in six queries with other  *)
(* requests between them, and then writes the new generations and moves    *)
(* the three heads in one batch. Nothing is locked: the batch fails when a *)
(* generation it inserts is already there.                                 *)
(*                                                                         *)
(* Abstractions. The rows of an account and their hashes are its revision: *)
(* manifests and generations are immutable once written. A row that cannot *)
(* be read or verified is any fallback the code accepts. One profile and   *)
(* one week; another week shares no row with it.                           *)
(***************************************************************************)
EXTENDS Naturals, Sequences, FiniteSets

CONSTANTS Devices, Dates, Revisions,
          Publishers,  \* requests of the Worker that may run at the same time
          Manifests,   \* what the devices upload: <<device, date, revision>>
          Lossy,       \* the manifests with a known loss of facts
          Faults       \* how many rows are unreadable or requests fail

ASSUME RevisionsAreCounts == Revisions \subseteq Nat \ {0}
ASSUME ManifestsAreAccounts == Manifests \subseteq Devices \X Dates \X Revisions
ASSUME FaultsAreCounted == Faults \in Nat
ASSUME ProfileIsFinite == IsFiniteSet(Devices) /\ IsFiniteSet(Dates)

VARIABLES committed,   \* manifests received in full: <<device, date, revision>>
          published,   \* the publication events
          heads,       \* device heads: the published revision, 0 when none
          dayGens,     \* generations of each date's day account; the head is the last
          weekGens,    \* generations of the week account; the head is the last
          pub,         \* the running publications
          left         \* the faults that may still happen

vars == <<committed, published, heads, dayGens, weekGens, pub, left>>

Absent == 0
Versions == Revisions \cup {Absent}
Vector == [Devices -> Versions]
DayGen  == [vector : Vector, complete : BOOLEAN]
WeekGen == [days : [Dates -> Nat], complete : BOOLEAN]
Idle == [at |-> "idle", of |-> <<>>, week |-> 0, vector |-> <<>>,
         complete |-> TRUE, day |-> 0, days |-> <<>>, whole |-> TRUE]

Init ==
    /\ committed = {} /\ published = {}
    /\ heads = [e \in Devices |-> [t \in Dates |-> Absent]]
    /\ dayGens = [t \in Dates |-> <<>>]
    /\ weekGens = <<>>
    /\ pub = [p \in Publishers |-> Idle]
    /\ left = Faults

DeviceOf(p) == pub[p].of[1]
DateOf(p) == pub[p].of[2]
RevisionOf(p) == pub[p].of[3]

\* handleCommit: a manifest whose chunks are all there becomes committed, and
\* its publication starts; so does that of one committed before.
Commit(p, m) ==
    /\ pub[p].at = "idle"
    /\ committed' = committed \cup {m}
    /\ pub' = [pub EXCEPT ![p] = [Idle EXCEPT !.at = "week", !.of = m]]
    /\ UNCHANGED <<published, heads, dayGens, weekGens, left>>

\* The number of the week's generation is read before any source.
StartWeek(p) ==
    /\ pub[p].at = "week"
    /\ pub' = [pub EXCEPT ![p].at = "own", ![p].week = Len(weekGens)]
    /\ UNCHANGED <<committed, published, heads, dayGens, weekGens, left>>

\* bug: a repeated commit is published again.
IsEarlier(p) == heads[DeviceOf(p)][DateOf(p)] > RevisionOf(p)
\* A head of the same or a later revision answers the commit.
IsAnswered(p) == heads[DeviceOf(p)][DateOf(p)] >= RevisionOf(p)

ReadOwnHead(p) ==
    /\ pub[p].at = "own"
    /\ pub' = [pub EXCEPT ![p] =
          IF IsAnswered(p) THEN Idle ELSE [@ EXCEPT !.at = "sources"]]
    /\ UNCHANGED <<committed, published, heads, dayGens, weekGens, left>>

\* bug: an earlier manifest that was only received counts as well.
ConfirmedReceived(e, t) ==
    {heads[e][t], Absent} \cup {r \in Revisions : r < heads[e][t] /\ <<e, t, r>> \in committed}
\* What readConfirmedDeviceAccount may return for a head: its own manifest,
\* an earlier one that was published, or nothing.
Confirmed(e, t) ==
    {heads[e][t], Absent} \cup {r \in Revisions : r < heads[e][t] /\ <<e, t, r>> \in published}

\* The heads of the date are read, and then the account of every other device;
\* the device's own account is the candidate. A source that is not the head
\* makes the day account incomplete, and so does a known loss in one.
ReadSources(p) ==
    /\ pub[p].at = "sources"
    /\ \E v \in [Devices -> Versions] :
          LET t == DateOf(p)
              degraded == {e \in Devices \ {DeviceOf(p)} : v[e] # heads[e][t]}
          IN /\ v[DeviceOf(p)] = RevisionOf(p)
             /\ \A e \in Devices \ {DeviceOf(p)} : v[e] \in Confirmed(e, t)
             /\ Cardinality(degraded) <= left
             /\ left' = left - Cardinality(degraded)
             /\ pub' = [pub EXCEPT ![p].at = "day", ![p].vector = v,
                   ![p].complete = /\ degraded = {}
                                   /\ \A e \in Devices : <<e, t, v[e]>> \notin Lossy]
    /\ UNCHANGED <<committed, published, heads, dayGens, weekGens>>

\* The number of the day's new generation.
ReadDayHead(p) ==
    /\ pub[p].at = "day"
    /\ pub' = [pub EXCEPT ![p].at = "days", ![p].day = Len(dayGens[DateOf(p)]) + 1]
    /\ UNCHANGED <<committed, published, heads, dayGens, weekGens, left>>

\* bug: a week is complete when the day that was just built is.
DayAlone(p, d, degraded) == pub[p].complete
\* A week is complete when all of its days were read and are complete.
WholeWeek(p, d, degraded) ==
    /\ degraded = {}
    /\ pub[p].complete
    /\ \A t \in DOMAIN d : d[t] > 0 => dayGens[t][d[t]].complete

\* readDayHeadsForWeek: the day accounts of the other dates, or an earlier
\* generation or nothing when one cannot be read.
ReadWeekDays(p) ==
    /\ pub[p].at = "days"
    /\ \E d \in [Dates \ {DateOf(p)} -> UNION {0..Len(dayGens[t]) : t \in Dates}] :
          LET degraded == {t \in DOMAIN d : d[t] # Len(dayGens[t])}
          IN /\ \A t \in DOMAIN d : d[t] <= Len(dayGens[t])
             /\ Cardinality(degraded) <= left
             /\ left' = left - Cardinality(degraded)
             /\ pub' = [pub EXCEPT ![p].at = "batch",
                   ![p].days = [t \in Dates |-> IF t = DateOf(p) THEN pub[p].day ELSE d[t]],
                   ![p].whole = WholeWeek(p, d, degraded)]
    /\ UNCHANGED <<committed, published, heads, dayGens, weekGens>>

\* bug: only the day's key is unique.
FreeDay(p) == pub[p].day \notin 1..Len(dayGens[DateOf(p)])
\* The keys (profile, date, generation) and (profile, week, generation) are
\* unique: the whole batch fails when either row exists.
Free(p) == /\ pub[p].day \notin 1..Len(dayGens[DateOf(p)])
           /\ pub[p].week + 1 \notin 1..Len(weekGens)

\* bug: the week's account takes the place of the one that was read.
ReplaceRead(gens, read, new) == Append(SubSeq(gens, 1, read - 1), new)
\* A new generation never replaces another.
AddNext(gens, read, new) == Append(gens, new)

\* One batch inserts both generations and moves the three heads.
Batch(p) ==
    /\ pub[p].at = "batch"
    /\ IF Free(p)
       THEN LET e == DeviceOf(p)
                t == DateOf(p)
                r == RevisionOf(p)
            IN /\ heads' = [heads EXCEPT ![e][t] = IF r > @ THEN r ELSE @]
               /\ dayGens' = [dayGens EXCEPT ![t] =
                     Append(@, [vector |-> pub[p].vector, complete |-> pub[p].complete])]
               /\ weekGens' = AddNext(weekGens, pub[p].week,
                                       [days |-> pub[p].days, complete |-> pub[p].whole])
               /\ published' = published \cup {<<e, t, r>>}
       ELSE UNCHANGED <<heads, dayGens, weekGens, published>>
    /\ pub' = [pub EXCEPT ![p] = Idle]
    /\ UNCHANGED <<committed, left>>

\* A query or the batch fails, or the request dies: the manifest stays
\* committed and not published.
Fail(p) ==
    /\ pub[p].at # "idle"
    /\ left > 0
    /\ left' = left - 1
    /\ pub' = [pub EXCEPT ![p] = Idle]
    /\ UNCHANGED <<committed, published, heads, dayGens, weekGens>>

Step(p) == StartWeek(p) \/ ReadOwnHead(p) \/ ReadSources(p) \/ ReadDayHead(p) \/ ReadWeekDays(p) \/ Batch(p)

Next ==
    \E p \in Publishers : (\E m \in Manifests : Commit(p, m)) \/ Step(p) \/ Fail(p)

Spec == Init /\ [][Next]_vars

\* A request that runs goes on to its end, and a device commits again while
\* its manifest is not published (getPendingDeviceAccountV2Dates).
Retry(m) == /\ m \in committed /\ heads[m[1]][m[2]] < m[3]
            /\ \E p \in Publishers : Commit(p, m)

FairSpec ==
    /\ Spec
    /\ \A p \in Publishers : WF_vars(Step(p))
    /\ \A m \in Manifests : SF_vars(Retry(m))
=============================================================================
