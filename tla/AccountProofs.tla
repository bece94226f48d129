---------------------------- MODULE AccountProofs ----------------------------
EXTENDS AccountProperties, SequenceTheorems, FiniteSetTheorems, TLAPS

(***************************************************************************)
(* Proofs about the publication of device accounts, for every set of       *)
(* devices, dates, revisions and overlapping requests and every number of  *)
(* faults.                                                                 *)
(*                                                                         *)
(* Nothing is locked while a publication reads. What makes its six reads   *)
(* consistent is the number of the week's generation, read first and       *)
(* checked last: as long as it is the current one (Current), no head has   *)
(* moved since, so what was read still holds; when it is not, the batch    *)
(* fails. InFlight states this for every stage of a publication.           *)
(***************************************************************************)

Stages == {"idle", "week", "own", "sources", "day", "days", "batch"}
Publication ==
    [at : Stages, of : Manifests \cup {<<>>}, week : Nat,
     vector : Vector \cup {<<>>}, complete : BOOLEAN, day : Nat,
     days : [Dates -> Nat] \cup {<<>>}, whole : BOOLEAN]

Started(p)  == pub[p].at \in {"own", "sources", "day", "days", "batch"}
Behind(p)   == pub[p].at \in {"sources", "day", "days", "batch"}
Summed(p)   == pub[p].at \in {"day", "days", "batch"}
Numbered(p) == pub[p].at \in {"days", "batch"}

\* No account has been published since the publication began.
Current(p) == pub[p].week = Len(weekGens)

Types ==
    /\ committed \subseteq Manifests /\ published \subseteq committed
    /\ heads \in [Devices -> [Dates -> Versions]]
    /\ dayGens \in [Dates -> Seq(DayGen)] /\ weekGens \in Seq(WeekGen)
    /\ left \in Nat
    /\ pub \in [Publishers -> Publication]
    /\ \A p \in Publishers : pub[p].at # "idle" => pub[p].of \in committed

Fresh(p) ==
    /\ Started(p) => pub[p].week <= Len(weekGens)
    /\ Behind(p) /\ Current(p) => heads[DeviceOf(p)][DateOf(p)] < RevisionOf(p)

Sources(p) ==
    Summed(p) =>
        /\ pub[p].vector \in Vector
        /\ pub[p].vector[DeviceOf(p)] = RevisionOf(p)
        /\ \A e \in Devices \ {DeviceOf(p)} : pub[p].vector[e] # Absent =>
              <<e, DateOf(p), pub[p].vector[e]>> \in published
        /\ Current(p) /\ pub[p].complete =>
              \A e \in Devices \ {DeviceOf(p)} : pub[p].vector[e] = heads[e][DateOf(p)]

Numbers(p) ==
    Numbered(p) => /\ pub[p].day > 0
                   /\ Current(p) => pub[p].day = Len(dayGens[DateOf(p)]) + 1

Week(p) ==
    pub[p].at = "batch" =>
        /\ pub[p].days \in [Dates -> Nat]
        /\ pub[p].days[DateOf(p)] = pub[p].day
        /\ pub[p].whole => pub[p].complete
        /\ \A t \in Dates \ {DateOf(p)} : pub[p].days[t] <= Len(dayGens[t])
        /\ Current(p) /\ pub[p].whole =>
              \A t \in Dates \ {DateOf(p)} :
                  /\ pub[p].days[t] = Len(dayGens[t])
                  /\ pub[p].days[t] > 0 => dayGens[t][pub[p].days[t]].complete

InFlight(p) == Fresh(p) /\ Sources(p) /\ Numbers(p) /\ Week(p)

\* A head names a published account, and none is later than its head.
HeadsArePublished ==
    \A e \in Devices, t \in Dates :
        /\ heads[e][t] # Absent => <<e, t, heads[e][t]>> \in published
        /\ \A r \in Revisions : <<e, t, r>> \in published => r <= heads[e][t]

\* A generation of the week names generations of its days that exist.
WeeksNameDays ==
    \A i \in 1..Len(weekGens), t \in Dates : weekGens[i].days[t] <= Len(dayGens[t])

AccountInv ==
    /\ Types
    /\ \A p \in Publishers : InFlight(p)
    /\ HeadsArePublished /\ WeeksNameDays
    /\ OnlyPublishedIsSummed /\ CompleteDayIsCurrent /\ CompleteWeekIsCurrent

(***************************************************************************)
(* Types.                                                                  *)
(***************************************************************************)
\* A manifest names its device, date and revision.
LEMMA PartsOfManifest ==
    ASSUME NEW m \in Manifests
    PROVE  m[1] \in Devices /\ m[2] \in Dates /\ m[3] \in Revisions /\ m[3] \in Nat \ {0}
           /\ m = <<m[1], m[2], m[3]>>
<1>1. PICK e \in Devices, t \in Dates, r \in Revisions : m = <<e, t, r>>
  BY ManifestsAreAccounts
<1> QED  BY <1>1, RevisionsAreCounts

\* Revisions are counts, and so is the absence of one.
LEMMA VersionsAreCounts == Versions \subseteq Nat
BY RevisionsAreCounts DEF Versions, Absent

\* A head is a revision or none.
LEMMA HeadsAreCounts ==
    ASSUME Types, NEW e \in Devices, NEW t \in Dates
    PROVE  heads[e][t] \in Versions /\ heads[e][t] \in Nat
<1>1. heads[e][t] \in Versions
  BY DEF Types
<1> QED  BY <1>1, VersionsAreCounts

\* A running publication has a manifest that was received in full.
LEMMA PublicationHasParts ==
    ASSUME Types, NEW p \in Publishers, pub[p].at # "idle"
    PROVE  /\ pub[p].of \in committed /\ pub[p].of \in Manifests
           /\ DeviceOf(p) \in Devices /\ DateOf(p) \in Dates
           /\ RevisionOf(p) \in Revisions /\ RevisionOf(p) \in Nat \ {0}
           /\ pub[p].of = <<DeviceOf(p), DateOf(p), RevisionOf(p)>>
BY PartsOfManifest DEF Types, DeviceOf, DateOf, RevisionOf

\* A step of one publication leaves the others alone.
LEMMA StepOfOne ==
    ASSUME pub \in [Publishers -> Publication], NEW p \in Publishers,
           NEW x \in Publication, pub' = [pub EXCEPT ![p] = x]
    PROVE  /\ pub' \in [Publishers -> Publication] /\ pub'[p] = x
           /\ \A q \in Publishers \ {p} : pub'[q] = pub[q]
OBVIOUS

\* The faults of a set of unreadable rows can be counted.
LEMMA FaultsCount ==
    ASSUME left \in Nat, NEW S, IsFiniteSet(S), NEW T \in SUBSET S, Cardinality(T) <= left
    PROVE  left - Cardinality(T) \in Nat
<1>1. Cardinality(T) \in Nat
  BY FS_Subset, FS_CardinalityType
<1> QED  BY <1>1

\* A publication at rest is a publication.
LEMMA IdleType == Idle \in Publication /\ Idle.at = "idle"
BY DEF Idle, Publication, Stages

LEMMA TypesInit == Init => Types
<1> SUFFICES ASSUME Init PROVE Types
  OBVIOUS
<1>1. pub \in [Publishers -> Publication] /\ \A p \in Publishers : pub[p].at = "idle"
  BY IdleType DEF Init
<1> QED
  BY <1>1, FaultsAreCounted DEF Init, Types, Versions, Absent

\* Each step keeps the types.
LEMMA CommitTypes ==
    ASSUME Types, NEW p \in Publishers, NEW m \in Manifests, Commit(p, m)
    PROVE  Types'
<1>1. [Idle EXCEPT !.at = "week", !.of = m] \in Publication
  BY DEF Idle, Publication, Stages
<1>2. /\ pub' \in [Publishers -> Publication] /\ pub'[p].of = m
      /\ \A q \in Publishers \ {p} : pub'[q] = pub[q]
  BY <1>1, StepOfOne DEF Commit, Types, Idle
<1> QED
  BY <1>2 DEF Commit, Types

LEMMA StartWeekTypes ==
    ASSUME Types, NEW p \in Publishers, StartWeek(p)
    PROVE  Types'
<1> DEFINE x == [pub[p] EXCEPT !.at = "own", !.week = Len(weekGens)]
<1>0. pub[p] \in Publication /\ Len(weekGens) \in Nat
  BY LenProperties DEF Types
<1>1. x \in Publication /\ x.of = pub[p].of
  BY <1>0 DEF Publication, Stages
<1>2. pub' = [pub EXCEPT ![p] = x]
  BY DEF StartWeek
<1> HIDE DEF x
<1>3. /\ pub' \in [Publishers -> Publication] /\ pub'[p].of = pub[p].of
      /\ \A q \in Publishers \ {p} : pub'[q] = pub[q]
  BY <1>1, <1>2, StepOfOne DEF Types
<1> QED
  BY <1>3 DEF StartWeek, Types

LEMMA ReadOwnHeadTypes ==
    ASSUME Types, NEW p \in Publishers, ReadOwnHead(p)
    PROVE  Types'
<1> DEFINE x == IF IsAnswered(p) THEN Idle ELSE [pub[p] EXCEPT !.at = "sources"]
<1>1. x \in Publication /\ (x.at = "idle" \/ x.of = pub[p].of)
  BY IdleType DEF Types, Publication, Stages
<1>2. pub' = [pub EXCEPT ![p] = x]
  BY DEF ReadOwnHead
<1> HIDE DEF x
<1>3. /\ pub' \in [Publishers -> Publication]
      /\ pub'[p].at = "idle" \/ pub'[p].of = pub[p].of
      /\ \A q \in Publishers \ {p} : pub'[q] = pub[q]
  BY <1>1, <1>2, StepOfOne DEF Types
<1> QED
  BY <1>3 DEF ReadOwnHead, Types

LEMMA ReadSourcesTypes ==
    ASSUME Types, NEW p \in Publishers, ReadSources(p)
    PROVE  Types'
<1>1. PICK v \in [Devices -> Versions] :
        LET t == DateOf(p)
            degraded == {e \in Devices \ {DeviceOf(p)} : v[e] # heads[e][t]}
        IN /\ Cardinality(degraded) <= left
           /\ left' = left - Cardinality(degraded)
           /\ \E c \in BOOLEAN : pub' = [pub EXCEPT ![p] =
                 [@ EXCEPT !.at = "day", !.vector = v, !.complete = c]]
  BY DEF ReadSources
<1>2. left' \in Nat
  BY <1>1, FaultsCount, ProfileIsFinite DEF Types
<1>3. PICK c \in BOOLEAN : pub' = [pub EXCEPT ![p] =
                 [pub[p] EXCEPT !.at = "day", !.vector = v, !.complete = c]]
  BY <1>1
<1> DEFINE x == [pub[p] EXCEPT !.at = "day", !.vector = v, !.complete = c]
<1>4. x \in Publication /\ x.of = pub[p].of
  BY DEF Types, Publication, Stages, Vector
<1> HIDE DEF x
<1>5. /\ pub' \in [Publishers -> Publication] /\ pub'[p].of = pub[p].of
      /\ \A q \in Publishers \ {p} : pub'[q] = pub[q]
  BY <1>3, <1>4, StepOfOne DEF Types, x
<1> QED
  BY <1>2, <1>5 DEF ReadSources, Types

LEMMA ReadDayHeadTypes ==
    ASSUME Types, NEW p \in Publishers, ReadDayHead(p)
    PROVE  Types'
<1> DEFINE x == [pub[p] EXCEPT !.at = "days", !.day = Len(dayGens[DateOf(p)]) + 1]
<1>0. pub[p] \in Publication /\ Len(dayGens[DateOf(p)]) + 1 \in Nat
  BY PublicationHasParts, LenProperties DEF ReadDayHead, Types
<1>1. x \in Publication /\ x.of = pub[p].of
  BY <1>0 DEF Publication, Stages
<1>2. pub' = [pub EXCEPT ![p] = x]
  BY DEF ReadDayHead
<1> HIDE DEF x
<1>3. /\ pub' \in [Publishers -> Publication] /\ pub'[p].of = pub[p].of
      /\ \A q \in Publishers \ {p} : pub'[q] = pub[q]
  BY <1>1, <1>2, StepOfOne DEF Types
<1> QED
  BY <1>3 DEF ReadDayHead, Types

LEMMA ReadWeekDaysTypes ==
    ASSUME Types, NEW p \in Publishers, ReadWeekDays(p)
    PROVE  Types'
<1> DEFINE others == Dates \ {DateOf(p)}
           numbers == UNION {0..Len(dayGens[t]) : t \in Dates}
<1>1. PICK d \in [others -> numbers] :
        LET degraded == {t \in DOMAIN d : d[t] # Len(dayGens[t])}
        IN /\ Cardinality(degraded) <= left
           /\ left' = left - Cardinality(degraded)
           /\ pub' = [pub EXCEPT ![p].at = "batch",
                   ![p].days = [t \in Dates |-> IF t = DateOf(p) THEN pub[p].day ELSE d[t]],
                   ![p].whole = WholeWeek(p, d, degraded)]
  BY DEF ReadWeekDays
<1>2. left' \in Nat
  <2> DEFINE degraded == {t \in DOMAIN d : d[t] # Len(dayGens[t])}
  <2>1. degraded \in SUBSET Dates
    OBVIOUS
  <2>2. Cardinality(degraded) <= left /\ left' = left - Cardinality(degraded)
    BY <1>1
  <2> HIDE DEF degraded
  <2> QED  BY <2>1, <2>2, FaultsCount, ProfileIsFinite DEF Types
<1>3. \A t \in others : d[t] \in Nat
  <2>1. \A t \in Dates : Len(dayGens[t]) \in Nat
    BY LenProperties DEF Types
  <2> QED  BY <2>1
<1> DEFINE ds == [t \in Dates |-> IF t = DateOf(p) THEN pub[p].day ELSE d[t]]
           w == WholeWeek(p, d, {t \in DOMAIN d : d[t] # Len(dayGens[t])})
           x == [pub[p] EXCEPT !.at = "batch", !.days = ds, !.whole = w]
<1>4. pub[p] \in Publication /\ pub[p].day \in Nat
  BY DEF Types, Publication
<1>5. ds \in [Dates -> Nat]
  BY <1>3, <1>4
<1>6. w \in BOOLEAN
  BY DEF WholeWeek
<1>7. pub' = [pub EXCEPT ![p] = x]
  BY <1>1
<1> HIDE DEF ds, w
<1>8. x \in Publication /\ x.of = pub[p].of
  BY <1>4, <1>5, <1>6 DEF Publication, Stages
<1> HIDE DEF x
<1>9. /\ pub' \in [Publishers -> Publication] /\ pub'[p].of = pub[p].of
      /\ \A q \in Publishers \ {p} : pub'[q] = pub[q]
  BY <1>7, <1>8, StepOfOne DEF Types
<1> QED
  BY <1>2, <1>9 DEF ReadWeekDays, Types

\* The batch of a publication that nothing overtook writes the next
\* generation of its day and of the week, and moves its device's head.
LEMMA BatchMoves ==
    ASSUME Types, NEW p \in Publishers, InFlight(p), Batch(p), Free(p)
    PROVE  LET e == DeviceOf(p)
               t == DateOf(p)
               r == RevisionOf(p)
               d == [vector |-> pub[p].vector, complete |-> pub[p].complete]
               w == [days |-> pub[p].days, complete |-> pub[p].whole]
           IN /\ e \in Devices /\ t \in Dates /\ r \in Revisions /\ r \in Nat \ {0}
              /\ d \in DayGen /\ w \in WeekGen
              /\ Current(p) /\ heads[e][t] < r
              /\ pub[p].day = Len(dayGens[t]) + 1
              /\ heads' = [heads EXCEPT ![e] = [@ EXCEPT ![t] = r]]
              /\ dayGens' = [dayGens EXCEPT ![t] = Append(@, d)]
              /\ weekGens' = Append(weekGens, w)
              /\ published' = published \cup {<<e, t, r>>}
              /\ <<e, t, r>> \in committed
<1> DEFINE e == DeviceOf(p)
           t == DateOf(p)
           r == RevisionOf(p)
<1>1. pub[p].at = "batch" /\ pub[p] \in Publication
  BY DEF Batch, Types
<1>2. /\ e \in Devices /\ t \in Dates /\ r \in Revisions /\ r \in Nat \ {0}
      /\ <<e, t, r>> \in committed
  BY <1>1, PublicationHasParts
<1>3. pub[p].vector \in Vector /\ pub[p].days \in [Dates -> Nat]
  BY <1>1 DEF InFlight, Sources, Week, Summed
<1>4. Len(weekGens) \in Nat /\ Len(dayGens[t]) \in Nat
  BY <1>2, LenProperties DEF Types
<1>5. Current(p)
  BY <1>1, <1>4 DEF Free, InFlight, Fresh, Started, Current, Publication
<1>6. heads[e][t] < r /\ pub[p].day = Len(dayGens[t]) + 1
  BY <1>1, <1>5 DEF InFlight, Fresh, Numbers, Behind, Numbered
<1>7. heads[e][t] \in Nat
  BY <1>2, HeadsAreCounts
<1>8. heads' = [heads EXCEPT ![e] = [@ EXCEPT ![t] = r]]
  BY <1>2, <1>6, <1>7 DEF Batch, Types
<1>9. [vector |-> pub[p].vector, complete |-> pub[p].complete] \in DayGen
  BY <1>1, <1>3 DEF DayGen, Publication
<1>10. [days |-> pub[p].days, complete |-> pub[p].whole] \in WeekGen
  BY <1>1, <1>3 DEF WeekGen, Publication
<1>11. /\ dayGens' = [dayGens EXCEPT ![t] = Append(@,
                [vector |-> pub[p].vector, complete |-> pub[p].complete])]
       /\ weekGens' = Append(weekGens, [days |-> pub[p].days, complete |-> pub[p].whole])
       /\ published' = published \cup {<<e, t, r>>}
  BY DEF Batch, AddNext
<1> QED
  BY <1>2, <1>5, <1>6, <1>8, <1>9, <1>10, <1>11

\* A batch that was overtaken writes nothing.
LEMMA BatchFails ==
    ASSUME NEW p \in Publishers, Batch(p), ~Free(p)
    PROVE  UNCHANGED <<heads, dayGens, weekGens, published>>
BY DEF Batch

LEMMA BatchTypes ==
    ASSUME Types, NEW p \in Publishers, InFlight(p), Batch(p)
    PROVE  Types'
<1>1. /\ pub' \in [Publishers -> Publication] /\ pub'[p].at = "idle"
      /\ \A q \in Publishers \ {p} : pub'[q] = pub[q]
  BY StepOfOne, IdleType DEF Batch, Types
<1>2. committed' = committed /\ left' = left
  BY DEF Batch
<1>3. CASE ~Free(p)
  BY <1>1, <1>2, <1>3, BatchFails DEF Types
<1>4. CASE Free(p)
  <2> DEFINE e == DeviceOf(p)
             t == DateOf(p)
             r == RevisionOf(p)
             d == [vector |-> pub[p].vector, complete |-> pub[p].complete]
             w == [days |-> pub[p].days, complete |-> pub[p].whole]
  <2>1. /\ e \in Devices /\ t \in Dates /\ r \in Revisions
        /\ d \in DayGen /\ w \in WeekGen
        /\ heads' = [heads EXCEPT ![e] = [@ EXCEPT ![t] = r]]
        /\ dayGens' = [dayGens EXCEPT ![t] = Append(@, d)]
        /\ weekGens' = Append(weekGens, w)
        /\ published' = published \cup {<<e, t, r>>}
        /\ <<e, t, r>> \in committed
    BY <1>4, BatchMoves
  <2> HIDE DEF e, t, r, d, w
  <2>2. heads' \in [Devices -> [Dates -> Versions]]
    BY <2>1 DEF Types, Versions
  <2>3. dayGens' \in [Dates -> Seq(DayGen)] /\ weekGens' \in Seq(WeekGen)
    <3>1. Append(dayGens[t], d) \in Seq(DayGen) /\ Append(weekGens, w) \in Seq(WeekGen)
      BY <2>1, AppendProperties DEF Types
    <3> QED  BY <2>1, <3>1 DEF Types
  <2> QED
    BY <1>1, <1>2, <2>1, <2>2, <2>3 DEF Types
<1> QED  BY <1>3, <1>4

LEMMA FailTypes ==
    ASSUME Types, NEW p \in Publishers, Fail(p)
    PROVE  Types'
<1>1. /\ pub' \in [Publishers -> Publication] /\ pub'[p].at = "idle"
      /\ \A q \in Publishers \ {p} : pub'[q] = pub[q]
  BY StepOfOne, IdleType DEF Fail, Types
<1> QED  BY <1>1 DEF Fail, Types

(***************************************************************************)
(* What a publication has read.                                            *)
(***************************************************************************)
\* A publication is not affected by steps that publish nothing.
LEMMA ReadStillHolds ==
    ASSUME NEW q \in Publishers, InFlight(q), pub'[q] = pub[q],
           UNCHANGED <<heads, dayGens, weekGens, published>>
    PROVE  InFlight(q)'
BY DEF InFlight, Fresh, Sources, Numbers, Week, Started, Behind, Summed, Numbered, Current,
       DeviceOf, DateOf, RevisionOf

\* One that has not begun to read has nothing that could be out of date.
LEMMA NothingRead ==
    ASSUME NEW q \in Publishers, pub'[q].at \in {"idle", "week"}
    PROVE  InFlight(q)'
BY DEF InFlight, Fresh, Sources, Numbers, Week, Started, Behind, Summed, Numbered

LEMMA CommitInFlight ==
    ASSUME Types, NEW p \in Publishers, NEW m \in Manifests, Commit(p, m)
    PROVE  InFlight(p)'
<1>1. pub'[p].at = "week"
  BY DEF Commit, Types, Idle
<1> QED  BY <1>1, NothingRead

LEMMA StartWeekInFlight ==
    ASSUME Types, NEW p \in Publishers, StartWeek(p)
    PROVE  InFlight(p)'
<1>1. pub'[p].at = "own" /\ pub'[p].week = Len(weekGens) /\ weekGens' = weekGens
  BY DEF StartWeek, Types, Publication
<1>2. Len(weekGens) \in Nat
  BY LenProperties DEF Types
<1> QED
  BY <1>1, <1>2 DEF InFlight, Fresh, Sources, Numbers, Week, Behind, Summed, Numbered

LEMMA ReadOwnHeadInFlight ==
    ASSUME Types, NEW p \in Publishers, InFlight(p), ReadOwnHead(p)
    PROVE  InFlight(p)'
<1>1. CASE IsAnswered(p)
  <2>1. pub'[p].at = "idle"
    BY <1>1, IdleType DEF ReadOwnHead, Types
  <2> QED  BY <2>1, NothingRead
<1>2. CASE ~IsAnswered(p)
  <2>1. /\ pub[p].at = "own" /\ pub'[p].at = "sources"
        /\ pub'[p].of = pub[p].of /\ pub'[p].week = pub[p].week
        /\ UNCHANGED <<heads, weekGens>>
    BY <1>2 DEF ReadOwnHead, Types, Publication
  <2>2. heads[DeviceOf(p)][DateOf(p)] < RevisionOf(p)
    BY <1>2, <2>1, PublicationHasParts, HeadsAreCounts DEF IsAnswered
  <2> QED
    BY <2>1, <2>2 DEF InFlight, Fresh, Sources, Numbers, Week, Started, Behind, Summed, Numbered,
                      Current, DeviceOf, DateOf, RevisionOf
<1> QED  BY <1>1, <1>2

LEMMA ReadSourcesInFlight ==
    ASSUME Types, NEW p \in Publishers, InFlight(p), ReadSources(p), HeadsArePublished
    PROVE  InFlight(p)'
<1> DEFINE t == DateOf(p)
<1>1. /\ pub[p].at = "sources" /\ DeviceOf(p) \in Devices /\ t \in Dates
      /\ UNCHANGED <<heads, weekGens, published>>
  BY PublicationHasParts DEF ReadSources
<1>2. PICK v \in [Devices -> Versions] :
        /\ v[DeviceOf(p)] = RevisionOf(p)
        /\ \A e \in Devices \ {DeviceOf(p)} : v[e] \in Confirmed(e, t)
        /\ pub' = [pub EXCEPT ![p].at = "day", ![p].vector = v,
              ![p].complete = /\ {e \in Devices \ {DeviceOf(p)} : v[e] # heads[e][t]} = {}
                              /\ \A e \in Devices : <<e, t, v[e]>> \notin Lossy]
  BY DEF ReadSources
<1>3. /\ pub'[p].at = "day" /\ pub'[p].vector = v
      /\ pub'[p].of = pub[p].of /\ pub'[p].week = pub[p].week
      /\ pub'[p].complete => \A e \in Devices \ {DeviceOf(p)} : v[e] = heads[e][t]
  BY <1>2 DEF Types, Publication
<1>4. ASSUME NEW e \in Devices \ {DeviceOf(p)}, v[e] # Absent
      PROVE  <<e, t, v[e]>> \in published
  BY <1>1, <1>2, <1>4 DEF Confirmed, HeadsArePublished
<1>5. Fresh(p)'
  BY <1>1, <1>3 DEF InFlight, Fresh, Started, Behind, Current, DeviceOf, DateOf, RevisionOf
<1>6. Sources(p)'
  <2>1. DeviceOf(p)' = DeviceOf(p) /\ DateOf(p)' = t /\ RevisionOf(p)' = RevisionOf(p)
    BY <1>3 DEF DeviceOf, DateOf, RevisionOf
  <2>2. v \in Vector /\ v[DeviceOf(p)] = RevisionOf(p)
    BY <1>2 DEF Vector
  <2> HIDE DEF t
  <2> QED
    BY <1>1, <1>3, <1>4, <2>1, <2>2 DEF Sources, Vector
<1> QED
  BY <1>3, <1>5, <1>6 DEF InFlight, Numbers, Week, Numbered

LEMMA ReadDayHeadInFlight ==
    ASSUME Types, NEW p \in Publishers, InFlight(p), ReadDayHead(p)
    PROVE  InFlight(p)'
<1>1. /\ pub[p].at = "day" /\ pub'[p].at = "days" /\ DateOf(p) \in Dates
      /\ pub'[p].day = Len(dayGens[DateOf(p)]) + 1
      /\ pub'[p].of = pub[p].of /\ pub'[p].week = pub[p].week
      /\ pub'[p].vector = pub[p].vector /\ pub'[p].complete = pub[p].complete
      /\ UNCHANGED <<heads, dayGens, weekGens, published>>
  BY PublicationHasParts DEF ReadDayHead, Types, Publication
<1>2. Len(dayGens[DateOf(p)]) \in Nat
  BY <1>1, LenProperties DEF Types
<1>3. Fresh(p)' /\ Sources(p)'
  BY <1>1 DEF InFlight, Fresh, Sources, Started, Behind, Summed, Current, DeviceOf, DateOf, RevisionOf
<1>4. Numbers(p)'
  BY <1>1, <1>2 DEF Numbers, DateOf
<1> QED
  BY <1>1, <1>3, <1>4 DEF InFlight, Week

LEMMA ReadWeekDaysInFlight ==
    ASSUME Types, NEW p \in Publishers, InFlight(p), ReadWeekDays(p)
    PROVE  InFlight(p)'
<1> DEFINE others == Dates \ {DateOf(p)}
           numbers == UNION {0..Len(dayGens[t]) : t \in Dates}
<1>1. /\ pub[p].at = "days" /\ DateOf(p) \in Dates
      /\ UNCHANGED <<heads, dayGens, weekGens, published>>
  BY PublicationHasParts DEF ReadWeekDays
<1>2. PICK d \in [others -> numbers] :
        LET degraded == {t \in DOMAIN d : d[t] # Len(dayGens[t])}
        IN /\ \A t \in DOMAIN d : d[t] <= Len(dayGens[t])
           /\ pub' = [pub EXCEPT ![p].at = "batch",
                   ![p].days = [t \in Dates |-> IF t = DateOf(p) THEN pub[p].day ELSE d[t]],
                   ![p].whole = WholeWeek(p, d, degraded)]
  BY DEF ReadWeekDays
<1>3. \A t \in others : d[t] \in Nat /\ d[t] <= Len(dayGens[t])
  <2>1. \A t \in Dates : Len(dayGens[t]) \in Nat
    BY LenProperties DEF Types
  <2>2. numbers \subseteq Nat /\ DOMAIN d = others
    BY <2>1
  <2>3. \A t \in others : d[t] <= Len(dayGens[t])
    BY <1>2, <2>2
  <2> HIDE DEF numbers
  <2> QED  BY <2>2, <2>3
<1>4. /\ pub'[p].at = "batch"
      /\ pub'[p].days = [t \in Dates |-> IF t = DateOf(p) THEN pub[p].day ELSE d[t]]
      /\ pub'[p].whole = WholeWeek(p, d, {t \in DOMAIN d : d[t] # Len(dayGens[t])})
      /\ pub'[p].of = pub[p].of /\ pub'[p].week = pub[p].week
      /\ pub'[p].vector = pub[p].vector /\ pub'[p].complete = pub[p].complete
      /\ pub'[p].day = pub[p].day /\ pub[p].day \in Nat
  <2> DEFINE ds == [t \in Dates |-> IF t = DateOf(p) THEN pub[p].day ELSE d[t]]
             w == WholeWeek(p, d, {t \in DOMAIN d : d[t] # Len(dayGens[t])})
  <2>1. pub' = [pub EXCEPT ![p].at = "batch", ![p].days = ds, ![p].whole = w]
    BY <1>2
  <2> HIDE DEF ds, w
  <2>2. /\ pub'[p].at = "batch" /\ pub'[p].days = ds /\ pub'[p].whole = w
        /\ pub'[p].of = pub[p].of /\ pub'[p].week = pub[p].week
        /\ pub'[p].vector = pub[p].vector /\ pub'[p].complete = pub[p].complete
        /\ pub'[p].day = pub[p].day /\ pub[p].day \in Nat
    BY <2>1 DEF Types, Publication
  <2> QED  BY <2>2 DEF ds, w
<1>5. Fresh(p)' /\ Sources(p)' /\ Numbers(p)'
  BY <1>1, <1>4 DEF InFlight, Fresh, Sources, Numbers, Started, Behind, Summed, Numbered, Current,
                    DeviceOf, DateOf, RevisionOf
<1>6. pub'[p].whole => /\ pub[p].complete
                       /\ \A t \in others : /\ d[t] = Len(dayGens[t])
                                            /\ d[t] > 0 => dayGens[t][d[t]].complete
  BY <1>4 DEF WholeWeek
<1>7. Week(p)'
  <2>1. pub'[p].days \in [Dates -> Nat]
    BY <1>3, <1>4
  <2>2. pub'[p].days[DateOf(p)] = pub[p].day /\ \A t \in others : pub'[p].days[t] = d[t]
    BY <1>1, <1>4
  <2>3. DateOf(p)' = DateOf(p) /\ Dates \ {DateOf(p)} = others
    BY <1>4 DEF DateOf
  <2>4. \A t \in others : pub'[p].days[t] <= Len(dayGens'[t])
    BY <1>1, <1>3, <2>2
  <2>5. pub'[p].whole => \A t \in others :
            /\ pub'[p].days[t] = Len(dayGens'[t])
            /\ pub'[p].days[t] > 0 => dayGens'[t][pub'[p].days[t]].complete
    BY <1>1, <1>6, <2>2
  <2>6. (pub'[p].whole => pub'[p].complete) /\ pub'[p].days[DateOf(p)] = pub'[p].day
    BY <1>4, <1>6, <2>2
  <2>7. ASSUME NEW t \in Dates \ {DateOf(p)'} PROVE t \in others
    BY <2>3
  <2> HIDE DEF others
  <2>8. \A t \in Dates \ {DateOf(p)'} : pub'[p].days[t] <= Len(dayGens'[t])
    BY <2>4, <2>7
  <2>9. pub'[p].whole => \A t \in Dates \ {DateOf(p)'} :
            /\ pub'[p].days[t] = Len(dayGens'[t])
            /\ pub'[p].days[t] > 0 => dayGens'[t][pub'[p].days[t]].complete
    BY <2>5, <2>7
  <2> QED
    BY <2>1, <2>3, <2>6, <2>8, <2>9 DEF Week
<1> QED  BY <1>5, <1>7 DEF InFlight

(***************************************************************************)
(* A batch that succeeds.                                                  *)
(***************************************************************************)
\* What it changes, field by field.
LEMMA BatchGrows ==
    ASSUME Types, NEW p \in Publishers, InFlight(p), Batch(p), Free(p)
    PROVE  /\ Len(weekGens) \in Nat /\ Len(weekGens') = Len(weekGens) + 1
           /\ \A i \in 1..Len(weekGens) : weekGens'[i] = weekGens[i]
           /\ weekGens'[Len(weekGens')] = [days |-> pub[p].days, complete |-> pub[p].whole]
           /\ \A s \in Dates \ {DateOf(p)} : dayGens'[s] = dayGens[s]
           /\ \A s \in Dates : /\ Len(dayGens[s]) \in Nat /\ Len(dayGens'[s]) \in Nat
                               /\ Len(dayGens[s]) <= Len(dayGens'[s])
           /\ Len(dayGens'[DateOf(p)]) = Len(dayGens[DateOf(p)]) + 1
           /\ \A i \in 1..Len(dayGens[DateOf(p)]) :
                 dayGens'[DateOf(p)][i] = dayGens[DateOf(p)][i]
           /\ dayGens'[DateOf(p)][Len(dayGens'[DateOf(p)])] =
                 [vector |-> pub[p].vector, complete |-> pub[p].complete]
           /\ \A e \in Devices, s \in Dates : heads'[e][s] =
                 IF e = DeviceOf(p) /\ s = DateOf(p) THEN RevisionOf(p) ELSE heads[e][s]
<1> DEFINE e == DeviceOf(p)
           t == DateOf(p)
           r == RevisionOf(p)
           d == [vector |-> pub[p].vector, complete |-> pub[p].complete]
           w == [days |-> pub[p].days, complete |-> pub[p].whole]
<1>1. /\ e \in Devices /\ t \in Dates
      /\ d \in DayGen /\ w \in WeekGen
      /\ heads' = [heads EXCEPT ![e] = [@ EXCEPT ![t] = r]]
      /\ dayGens' = [dayGens EXCEPT ![t] = Append(@, d)]
      /\ weekGens' = Append(weekGens, w)
  BY BatchMoves
<1> HIDE DEF e, t, r, d, w
<1>2. \A s \in Dates : Len(dayGens[s]) \in Nat
  BY LenProperties DEF Types
<1>3. /\ Len(weekGens) \in Nat /\ Len(weekGens') = Len(weekGens) + 1
      /\ \A i \in 1..Len(weekGens) : weekGens'[i] = weekGens[i]
      /\ weekGens'[Len(weekGens)+1] = w
  BY <1>1, LenProperties, AppendProperties DEF Types
<1>4. /\ dayGens'[t] = Append(dayGens[t], d) /\ dayGens[t] \in Seq(DayGen)
      /\ \A s \in Dates \ {t} : dayGens'[s] = dayGens[s]
  BY <1>1 DEF Types
<1>5. /\ Len(dayGens'[t]) = Len(dayGens[t]) + 1
      /\ \A i \in 1..Len(dayGens[t]) : dayGens'[t][i] = dayGens[t][i]
      /\ dayGens'[t][Len(dayGens[t])+1] = d
  BY <1>1, <1>4, AppendProperties
<1>6. ASSUME NEW s \in Dates
      PROVE  Len(dayGens'[s]) \in Nat /\ Len(dayGens[s]) <= Len(dayGens'[s])
  <2>1. CASE s = t
    BY <1>2, <1>5, <2>1
  <2>2. CASE s # t
    BY <1>2, <1>4, <2>2
  <2> QED  BY <2>1, <2>2
<1>7. \A f \in Devices, s \in Dates :
          heads'[f][s] = IF f = e /\ s = t THEN r ELSE heads[f][s]
  BY <1>1 DEF Types
<1> QED
  BY <1>2, <1>3, <1>4, <1>5, <1>6, <1>7 DEF e, t, r, d, w

\* What another publication has read is out of date, and its own batch fails.
LEMMA OvertakenIsBehind ==
    ASSUME Types, NEW p \in Publishers, InFlight(p), Batch(p), Free(p),
           NEW q \in Publishers, InFlight(q), pub'[q] = pub[q], q # p
    PROVE  InFlight(q)'
<1>1. CASE ~Started(q)
  <2>1. pub'[q].at \in {"idle", "week"}
    BY <1>1 DEF Types, Publication, Started, Stages
  <2> QED  BY <2>1, NothingRead
<1>2. CASE Started(q)
  <2>1. /\ Len(weekGens) \in Nat /\ Len(weekGens') = Len(weekGens) + 1
        /\ \A s \in Dates : /\ Len(dayGens[s]) \in Nat
                             /\ Len(dayGens'[s]) \in Nat
                             /\ Len(dayGens[s]) <= Len(dayGens'[s])
    BY BatchGrows
  <2>2. pub[q].week \in Nat /\ pub[q].week <= Len(weekGens)
    BY <1>2 DEF Types, Publication, InFlight, Fresh
  <2>3. ~Current(q)'
    BY <2>1, <2>2 DEF Current
  <2>4. Fresh(q)'
    BY <2>1, <2>2, <2>3 DEF Fresh
  <2>5. published \subseteq published'
    BY DEF Batch
  <2>6. Sources(q)'
    BY <2>3, <2>5 DEF InFlight, Sources, Summed, DeviceOf, DateOf, RevisionOf
  <2>7. Numbers(q)'
    BY <2>3 DEF InFlight, Numbers, Numbered
  <2>8. Week(q)'
    <3> SUFFICES ASSUME pub[q].at = "batch" PROVE Week(q)'
      BY DEF Week
    <3>1. /\ pub[q].days \in [Dates -> Nat] /\ pub[q].days[DateOf(q)] = pub[q].day
          /\ pub[q].whole => pub[q].complete
          /\ \A s \in Dates \ {DateOf(q)} : pub[q].days[s] <= Len(dayGens[s])
      BY DEF InFlight, Week
    <3>2. \A s \in Dates \ {DateOf(q)} : pub[q].days[s] <= Len(dayGens'[s])
      BY <2>1, <3>1
    <3> QED  BY <2>3, <3>1, <3>2 DEF Week, DateOf
  <2> QED  BY <2>4, <2>6, <2>7, <2>8 DEF InFlight
<1> QED  BY <1>1, <1>2

\* The head it moves is the one it publishes.
LEMMA BatchHeads ==
    ASSUME Types, NEW p \in Publishers, InFlight(p), Batch(p), Free(p), HeadsArePublished
    PROVE  HeadsArePublished'
<1>1. /\ DeviceOf(p) \in Devices /\ DateOf(p) \in Dates
      /\ RevisionOf(p) \in Nat \ {0}
      /\ heads[DeviceOf(p)][DateOf(p)] < RevisionOf(p)
      /\ published' = published \cup {<<DeviceOf(p), DateOf(p), RevisionOf(p)>>}
  BY BatchMoves
<1>2. \A e \in Devices, s \in Dates : heads'[e][s] =
          IF e = DeviceOf(p) /\ s = DateOf(p) THEN RevisionOf(p) ELSE heads[e][s]
  BY BatchGrows
<1>3. ASSUME NEW e \in Devices, NEW s \in Dates, heads'[e][s] # Absent
      PROVE  <<e, s, heads'[e][s]>> \in published'
  BY <1>1, <1>2, <1>3 DEF HeadsArePublished
<1>4. ASSUME NEW e \in Devices, NEW s \in Dates, NEW x \in Revisions,
             <<e, s, x>> \in published'
      PROVE  x <= heads'[e][s]
  <2>1. x \in Nat /\ heads[e][s] \in Nat
    BY HeadsAreCounts, RevisionsAreCounts
  <2>2. CASE <<e, s, x>> \in published
    <3>1. x <= heads[e][s]
      BY <2>2 DEF HeadsArePublished
    <3> QED  BY <1>1, <1>2, <2>1, <3>1
  <2>3. CASE <<e, s, x>> = <<DeviceOf(p), DateOf(p), RevisionOf(p)>>
    BY <1>1, <1>2, <2>1, <2>3
  <2> QED  BY <1>1, <1>4, <2>2, <2>3
<1> QED  BY <1>3, <1>4 DEF HeadsArePublished

\* The week it writes names the day it writes.
LEMMA BatchWeeks ==
    ASSUME Types, NEW p \in Publishers, InFlight(p), Batch(p), Free(p), WeeksNameDays
    PROVE  WeeksNameDays'
<1>1. /\ DateOf(p) \in Dates /\ pub[p].day = Len(dayGens[DateOf(p)]) + 1
      /\ weekGens' = Append(weekGens, [days |-> pub[p].days, complete |-> pub[p].whole])
  BY BatchMoves
<1>2. /\ pub[p].days \in [Dates -> Nat] /\ pub[p].days[DateOf(p)] = pub[p].day
      /\ \A s \in Dates \ {DateOf(p)} : pub[p].days[s] <= Len(dayGens[s])
  BY DEF Batch, InFlight, Week
<1>0. /\ Len(weekGens) \in Nat /\ Len(weekGens') = Len(weekGens) + 1
      /\ \A i \in 1..Len(weekGens) : weekGens'[i] = weekGens[i]
      /\ weekGens'[Len(weekGens')] = [days |-> pub[p].days, complete |-> pub[p].whole]
      /\ \A s \in Dates : /\ Len(dayGens[s]) \in Nat /\ Len(dayGens'[s]) \in Nat
                          /\ Len(dayGens[s]) <= Len(dayGens'[s])
      /\ Len(dayGens'[DateOf(p)]) = Len(dayGens[DateOf(p)]) + 1
  BY BatchGrows
<1>3. ASSUME NEW s \in Dates PROVE pub[p].days[s] <= Len(dayGens'[s])
  <2>1. CASE s = DateOf(p)
    BY <1>1, <1>2, <1>0, <2>1
  <2>2. CASE s # DateOf(p)
    <3>1. /\ pub[p].days[s] \in Nat /\ pub[p].days[s] <= Len(dayGens[s])
          /\ Len(dayGens[s]) \in Nat /\ Len(dayGens'[s]) \in Nat
          /\ Len(dayGens[s]) <= Len(dayGens'[s])
      BY <1>2, <1>0, <2>2
    <3> QED  BY <3>1
  <2> QED  BY <2>1, <2>2
<1>4. \A i \in 1..Len(weekGens), s \in Dates :
          /\ weekGens[i].days[s] \in Nat /\ weekGens[i].days[s] <= Len(dayGens'[s])
  <2>1. \A i \in 1..Len(weekGens) : weekGens[i] \in WeekGen
    BY ElementOfSeq DEF Types
  <2>2. \A i \in 1..Len(weekGens), s \in Dates : weekGens[i].days[s] \in Nat
    BY <2>1 DEF WeekGen
  <2>3. \A s \in Dates : /\ Len(dayGens[s]) \in Nat /\ Len(dayGens'[s]) \in Nat
                         /\ Len(dayGens[s]) <= Len(dayGens'[s])
    BY <1>0
  <2>4. \A i \in 1..Len(weekGens), s \in Dates : weekGens[i].days[s] <= Len(dayGens[s])
    BY DEF WeeksNameDays
  <2> QED  BY <2>2, <2>3, <2>4
<1>5. ASSUME NEW i \in 1..Len(weekGens'), NEW s \in Dates
      PROVE  weekGens'[i].days[s] <= Len(dayGens'[s])
  <2>1. i \in 1..Len(weekGens) \/ i = Len(weekGens')
    BY <1>0
  <2>2. CASE i \in 1..Len(weekGens)
    BY <1>4, <1>0, <2>2
  <2>3. CASE i = Len(weekGens')
    BY <1>3, <1>0, <2>3
  <2> QED  BY <2>1, <2>2, <2>3
<1> QED  BY <1>5 DEF WeeksNameDays

\* The day account it writes sums published accounts.
LEMMA BatchSums ==
    ASSUME Types, NEW p \in Publishers, InFlight(p), Batch(p), Free(p), OnlyPublishedIsSummed
    PROVE  OnlyPublishedIsSummed'
<1>1. /\ DateOf(p) \in Dates
      /\ published' = published \cup {<<DeviceOf(p), DateOf(p), RevisionOf(p)>>}
  BY BatchMoves
<1>2. /\ pub[p].vector[DeviceOf(p)] = RevisionOf(p)
      /\ \A e \in Devices \ {DeviceOf(p)} : pub[p].vector[e] # Absent =>
            <<e, DateOf(p), pub[p].vector[e]>> \in published
  BY DEF Batch, InFlight, Sources, Summed
<1>3. \A e \in Devices : pub[p].vector[e] # Absent =>
          <<e, DateOf(p), pub[p].vector[e]>> \in published'
  BY <1>1, <1>2
<1>4. /\ \A s \in Dates \ {DateOf(p)} : dayGens'[s] = dayGens[s]
      /\ Len(dayGens[DateOf(p)]) \in Nat
      /\ Len(dayGens'[DateOf(p)]) = Len(dayGens[DateOf(p)]) + 1
      /\ \A i \in 1..Len(dayGens[DateOf(p)]) :
            dayGens'[DateOf(p)][i] = dayGens[DateOf(p)][i]
      /\ dayGens'[DateOf(p)][Len(dayGens'[DateOf(p)])] =
            [vector |-> pub[p].vector, complete |-> pub[p].complete]
  BY <1>1, BatchGrows
<1>5. ASSUME NEW s \in Dates, NEW i \in 1..Len(dayGens'[s]), NEW e \in Devices,
             dayGens'[s][i].vector[e] # Absent
      PROVE  <<e, s, dayGens'[s][i].vector[e]>> \in published'
  <2>1. CASE i \in 1..Len(dayGens[s]) /\ dayGens'[s][i] = dayGens[s][i]
    BY <1>1, <1>5, <2>1 DEF OnlyPublishedIsSummed
  <2>2. CASE s = DateOf(p) /\ i = Len(dayGens'[s])
    BY <1>3, <1>4, <1>5, <2>2
  <2>3. \/ i \in 1..Len(dayGens[s]) /\ dayGens'[s][i] = dayGens[s][i]
        \/ s = DateOf(p) /\ i = Len(dayGens'[s])
    BY <1>4, <1>5
  <2> QED  BY <2>1, <2>2, <2>3
<1> QED  BY <1>5 DEF OnlyPublishedIsSummed

\* The day account at the head of a date, when there is one.
LEMMA HeadOfDay ==
    ASSUME Types, NEW s \in Dates
    PROVE  /\ Len(dayGens[s]) \in Nat
           /\ Len(dayGens[s]) = 0 => DayHead(s) = [vector |-> [e \in Devices |-> Absent],
                                                   complete |-> TRUE]
           /\ Len(dayGens[s]) # 0 => DayHead(s) = dayGens[s][Len(dayGens[s])]
<1>1. dayGens[s] \in Seq(DayGen)
  BY DEF Types
<1>2. Len(dayGens[s]) = 0 <=> dayGens[s] = <<>>
  BY <1>1, EmptySeq
<1> QED  BY <1>1, <1>2, LenProperties DEF DayHead

\* A complete day account that it writes is up to date with every head.
LEMMA BatchDays ==
    ASSUME Types, Types', NEW p \in Publishers, InFlight(p), Batch(p), Free(p),
           CompleteDayIsCurrent
    PROVE  /\ CompleteDayIsCurrent'
           /\ \A s \in Dates : DayHead(s)' =
                 IF s = DateOf(p) THEN [vector |-> pub[p].vector, complete |-> pub[p].complete]
                 ELSE DayHead(s)
<1>1. DateOf(p) \in Dates /\ Current(p)
  BY BatchMoves
<1>2. /\ \A s \in Dates \ {DateOf(p)} : dayGens'[s] = dayGens[s]
      /\ Len(dayGens[DateOf(p)]) \in Nat
      /\ Len(dayGens'[DateOf(p)]) = Len(dayGens[DateOf(p)]) + 1
      /\ dayGens'[DateOf(p)][Len(dayGens'[DateOf(p)])] =
            [vector |-> pub[p].vector, complete |-> pub[p].complete]
  BY <1>1, BatchGrows
<1>3. \A e \in Devices, s \in Dates : heads'[e][s] =
          IF e = DeviceOf(p) /\ s = DateOf(p) THEN RevisionOf(p) ELSE heads[e][s]
  BY BatchGrows
<1>4. ASSUME NEW s \in Dates, s = DateOf(p)
      PROVE  DayHead(s)' = [vector |-> pub[p].vector, complete |-> pub[p].complete]
  <2>1. dayGens'[s] \in Seq(DayGen) /\ Len(dayGens'[s]) # 0
    BY <1>2, <1>4 DEF Types
  <2>2. dayGens'[s] # <<>>
    BY <2>1, EmptySeq
  <2> QED  BY <1>2, <1>4, <2>2 DEF DayHead
<1>5. \A s \in Dates \ {DateOf(p)} : DayHead(s)' = DayHead(s)
  BY <1>2 DEF DayHead
<1>6. /\ pub[p].vector[DeviceOf(p)] = RevisionOf(p)
      /\ pub[p].complete => \A e \in Devices \ {DeviceOf(p)} :
            pub[p].vector[e] = heads[e][DateOf(p)]
  BY <1>1 DEF Batch, InFlight, Sources, Summed
<1>7. ASSUME NEW s \in Dates, DayHead(s)'.complete, NEW e \in Devices
      PROVE  DayHead(s)'.vector[e] = heads'[e][s]
  <2>1. CASE s = DateOf(p)
    BY <1>1, <1>3, <1>4, <1>6, <1>7, <2>1
  <2>2. CASE s # DateOf(p)
    BY <1>3, <1>5, <1>7, <2>2 DEF CompleteDayIsCurrent
  <2> QED  BY <2>1, <2>2
<1> QED  BY <1>4, <1>5, <1>7 DEF CompleteDayIsCurrent

\* The week account it writes sums the day it writes and the other days it read.
LEMMA BatchWeekHead ==
    ASSUME Types, Types', NEW p \in Publishers, InFlight(p), Batch(p), Free(p)
    PROVE  WeekHead' =
              [vector |-> [s \in Dates |->
                  IF pub[p].days[s] = 0 THEN [e \in Devices |-> Absent]
                  ELSE dayGens'[s][pub[p].days[s]].vector],
               complete |-> pub[p].whole]
<1>1. /\ Len(weekGens) \in Nat /\ Len(weekGens') = Len(weekGens) + 1
      /\ weekGens'[Len(weekGens')] = [days |-> pub[p].days, complete |-> pub[p].whole]
  BY BatchGrows
<1>2. weekGens' # <<>>
  <2>1. weekGens' \in Seq(WeekGen) /\ Len(weekGens') # 0
    BY <1>1 DEF Types
  <2> QED  BY <2>1, EmptySeq
<1> QED  BY <1>1, <1>2 DEF WeekHead, VectorOf

\* What a complete week account names for a date is the head of that date.
LEMMA BatchCompleteWeek ==
    ASSUME Types, Types', NEW p \in Publishers, InFlight(p), Batch(p), Free(p),
           CompleteDayIsCurrent
    PROVE  CompleteWeekIsCurrent'
<1> DEFINE gone == [e \in Devices |-> Absent]
           sum(s) == IF pub[p].days[s] = 0 THEN gone ELSE dayGens'[s][pub[p].days[s]].vector
<1>1. /\ DateOf(p) \in Dates /\ Current(p)
      /\ pub[p].day = Len(dayGens[DateOf(p)]) + 1
  BY BatchMoves
<1>2. WeekHead' = [vector |-> [s \in Dates |-> sum(s)], complete |-> pub[p].whole]
  BY BatchWeekHead
<1>3. pub[p].whole => /\ pub[p].complete /\ pub[p].days[DateOf(p)] = pub[p].day
                      /\ \A s \in Dates \ {DateOf(p)} :
                            /\ pub[p].days[s] = Len(dayGens[s])
                            /\ pub[p].days[s] > 0 => dayGens[s][pub[p].days[s]].complete
  BY <1>1 DEF Batch, InFlight, Week
<1>4. /\ CompleteDayIsCurrent'
      /\ \A s \in Dates : DayHead(s)' =
            IF s = DateOf(p) THEN [vector |-> pub[p].vector, complete |-> pub[p].complete]
            ELSE DayHead(s)
  BY BatchDays
<1>5. /\ \A s \in Dates \ {DateOf(p)} : dayGens'[s] = dayGens[s]
      /\ \A s \in Dates : Len(dayGens[s]) \in Nat
      /\ Len(dayGens'[DateOf(p)]) = Len(dayGens[DateOf(p)]) + 1
      /\ dayGens'[DateOf(p)][Len(dayGens'[DateOf(p)])] =
            [vector |-> pub[p].vector, complete |-> pub[p].complete]
  BY BatchGrows
<1>6. ASSUME pub[p].whole, NEW s \in Dates
      PROVE  DayHead(s)'.complete /\ sum(s) = DayHead(s)'.vector
  <2>1. CASE s = DateOf(p)
    <3>1. pub[p].days[s] # 0 /\ pub[p].days[s] = Len(dayGens'[s])
      BY <1>1, <1>3, <1>5, <1>6, <2>1
    <3>2. DayHead(s)' = [vector |-> pub[p].vector, complete |-> pub[p].complete]
      BY <1>4, <2>1
    <3> QED  BY <1>3, <1>5, <1>6, <2>1, <3>1, <3>2
  <2>2. CASE s # DateOf(p)
    <3>1. /\ pub[p].days[s] = Len(dayGens[s]) /\ Len(dayGens[s]) \in Nat
          /\ pub[p].days[s] > 0 => dayGens[s][pub[p].days[s]].complete
          /\ dayGens'[s] = dayGens[s] /\ DayHead(s)' = DayHead(s)
      BY <1>3, <1>4, <1>5, <1>6, <2>2
    <3>2. CASE Len(dayGens[s]) = 0
      <4>1. DayHead(s) = [vector |-> gone, complete |-> TRUE]
        BY <3>2, HeadOfDay
      <4> QED  BY <3>1, <3>2, <4>1
    <3>3. CASE Len(dayGens[s]) # 0
      <4>1. DayHead(s) = dayGens[s][Len(dayGens[s])]
        BY <3>3, HeadOfDay
      <4> QED  BY <3>1, <3>3, <4>1
    <3> QED  BY <3>2, <3>3
  <2> QED  BY <2>1, <2>2
<1>7. ASSUME pub[p].whole, NEW s \in Dates, NEW e \in Devices
      PROVE  sum(s)[e] = heads'[e][s]
  <2>1. DayHead(s)'.complete /\ sum(s) = DayHead(s)'.vector
    BY <1>6, <1>7
  <2> HIDE DEF sum
  <2> QED  BY <1>4, <2>1 DEF CompleteDayIsCurrent
<1> HIDE DEF sum
<1> QED
  BY <1>2, <1>7 DEF CompleteWeekIsCurrent

(***************************************************************************)
(* The invariant.                                                          *)
(***************************************************************************)
LEMMA InvInit == Init => AccountInv
<1> SUFFICES ASSUME Init PROVE AccountInv
  OBVIOUS
<1>1. Types
  BY TypesInit
<1>2. ASSUME NEW p \in Publishers PROVE InFlight(p)
  BY IdleType DEF Init, InFlight, Fresh, Sources, Numbers, Week, Started, Behind, Summed, Numbered
<1>3. HeadsArePublished /\ WeeksNameDays /\ OnlyPublishedIsSummed
  BY DEF Init, HeadsArePublished, WeeksNameDays, OnlyPublishedIsSummed, Absent
<1>4. CompleteDayIsCurrent /\ CompleteWeekIsCurrent
  BY DEF Init, CompleteDayIsCurrent, CompleteWeekIsCurrent, DayHead, WeekHead
<1> QED  BY <1>1, <1>2, <1>3, <1>4 DEF AccountInv

\* A step that publishes nothing keeps the invariant, when it keeps the types
\* and what its own publication has read.
LEMMA QuietStep ==
    ASSUME AccountInv, Types', NEW p \in Publishers, InFlight(p)',
           \A q \in Publishers \ {p} : pub'[q] = pub[q],
           UNCHANGED <<heads, dayGens, weekGens, published>>
    PROVE  AccountInv'
<1>1. \A q \in Publishers : InFlight(q)'
  BY ReadStillHolds DEF AccountInv
<1>2. HeadsArePublished' /\ WeeksNameDays' /\ OnlyPublishedIsSummed'
  BY DEF AccountInv, HeadsArePublished, WeeksNameDays, OnlyPublishedIsSummed
<1>3. \A s \in Dates : DayHead(s)' = DayHead(s)
  BY DEF DayHead
<1>4. WeekHead' = WeekHead
  BY DEF WeekHead, VectorOf
<1>5. CompleteDayIsCurrent' /\ CompleteWeekIsCurrent'
  BY <1>3, <1>4 DEF AccountInv, CompleteDayIsCurrent, CompleteWeekIsCurrent
<1> QED  BY <1>1, <1>2, <1>5 DEF AccountInv

\* A step is the step of one publication.
LEMMA OneMoves ==
    ASSUME Types, NEW p \in Publishers,
           (\E m \in Manifests : Commit(p, m)) \/ Step(p) \/ Fail(p)
    PROVE  \A q \in Publishers \ {p} : pub'[q] = pub[q]
<1> SUFFICES ASSUME NEW q \in Publishers \ {p} PROVE pub'[q] = pub[q]
  OBVIOUS
<1>0. pub \in [Publishers -> Publication]
  BY DEF Types
<1>1. CASE \E m \in Manifests : Commit(p, m)
  BY <1>0, <1>1 DEF Commit
<1>2. CASE StartWeek(p)
  BY <1>0, <1>2 DEF StartWeek
<1>3. CASE ReadOwnHead(p)
  BY <1>0, <1>3 DEF ReadOwnHead
<1>4. CASE ReadSources(p)
  BY <1>0, <1>4 DEF ReadSources
<1>5. CASE ReadDayHead(p)
  BY <1>0, <1>5 DEF ReadDayHead
<1>6. CASE ReadWeekDays(p)
  BY <1>0, <1>6 DEF ReadWeekDays
<1>7. CASE Batch(p)
  BY <1>0, <1>7 DEF Batch
<1>8. CASE Fail(p)
  BY <1>0, <1>8 DEF Fail
<1> QED
  BY <1>1, <1>2, <1>3, <1>4, <1>5, <1>6, <1>7, <1>8 DEF Step

LEMMA InvNext == AccountInv /\ [Next]_vars => AccountInv'
<1> SUFFICES ASSUME AccountInv, [Next]_vars PROVE AccountInv'
  OBVIOUS
<1> USE DEF AccountInv
<1>1. ASSUME NEW p \in Publishers, NEW m \in Manifests, Commit(p, m)
      PROVE  AccountInv'
  <2>1. Types' /\ InFlight(p)' /\ \A q \in Publishers \ {p} : pub'[q] = pub[q]
    BY <1>1, CommitTypes, CommitInFlight, OneMoves
  <2>2. UNCHANGED <<heads, dayGens, weekGens, published>>
    BY <1>1 DEF Commit
  <2> QED  BY <2>1, <2>2, QuietStep
<1>2. ASSUME NEW p \in Publishers, StartWeek(p) PROVE AccountInv'
  <2>1. Types' /\ InFlight(p)' /\ \A q \in Publishers \ {p} : pub'[q] = pub[q]
    BY <1>2, StartWeekTypes, StartWeekInFlight, OneMoves DEF Step
  <2>2. UNCHANGED <<heads, dayGens, weekGens, published>>
    BY <1>2 DEF StartWeek
  <2> QED  BY <2>1, <2>2, QuietStep
<1>3. ASSUME NEW p \in Publishers, ReadOwnHead(p) PROVE AccountInv'
  <2>1. Types' /\ InFlight(p)' /\ \A q \in Publishers \ {p} : pub'[q] = pub[q]
    BY <1>3, ReadOwnHeadTypes, ReadOwnHeadInFlight, OneMoves DEF Step
  <2>2. UNCHANGED <<heads, dayGens, weekGens, published>>
    BY <1>3 DEF ReadOwnHead
  <2> QED  BY <2>1, <2>2, QuietStep
<1>4. ASSUME NEW p \in Publishers, ReadSources(p) PROVE AccountInv'
  <2>1. Types' /\ InFlight(p)' /\ \A q \in Publishers \ {p} : pub'[q] = pub[q]
    BY <1>4, ReadSourcesTypes, ReadSourcesInFlight, OneMoves DEF Step
  <2>2. UNCHANGED <<heads, dayGens, weekGens, published>>
    BY <1>4 DEF ReadSources
  <2> QED  BY <2>1, <2>2, QuietStep
<1>5. ASSUME NEW p \in Publishers, ReadDayHead(p) PROVE AccountInv'
  <2>1. Types' /\ InFlight(p)' /\ \A q \in Publishers \ {p} : pub'[q] = pub[q]
    BY <1>5, ReadDayHeadTypes, ReadDayHeadInFlight, OneMoves DEF Step
  <2>2. UNCHANGED <<heads, dayGens, weekGens, published>>
    BY <1>5 DEF ReadDayHead
  <2> QED  BY <2>1, <2>2, QuietStep
<1>6. ASSUME NEW p \in Publishers, ReadWeekDays(p) PROVE AccountInv'
  <2>1. Types' /\ InFlight(p)' /\ \A q \in Publishers \ {p} : pub'[q] = pub[q]
    BY <1>6, ReadWeekDaysTypes, ReadWeekDaysInFlight, OneMoves DEF Step
  <2>2. UNCHANGED <<heads, dayGens, weekGens, published>>
    BY <1>6 DEF ReadWeekDays
  <2> QED  BY <2>1, <2>2, QuietStep
<1>7. ASSUME NEW p \in Publishers, Batch(p) PROVE AccountInv'
  <2>1. Types'
    BY <1>7, BatchTypes
  <2>2. pub'[p].at = "idle" /\ \A q \in Publishers \ {p} : pub'[q] = pub[q]
    BY <1>7, IdleType, StepOfOne DEF Batch, Types
  <2>3. InFlight(p)'
    BY <2>2, NothingRead
  <2>4. CASE ~Free(p)
    BY <1>7, <2>1, <2>2, <2>3, <2>4, BatchFails, QuietStep
  <2>5. CASE Free(p)
    <3>1. \A q \in Publishers : InFlight(q)'
      BY <1>7, <2>2, <2>3, <2>5, OvertakenIsBehind
    <3>2. HeadsArePublished' /\ WeeksNameDays' /\ OnlyPublishedIsSummed'
      BY <1>7, <2>5, BatchHeads, BatchWeeks, BatchSums
    <3>3. CompleteDayIsCurrent' /\ CompleteWeekIsCurrent'
      BY <1>7, <2>1, <2>5, BatchDays, BatchCompleteWeek
    <3> QED  BY <2>1, <3>1, <3>2, <3>3
  <2> QED  BY <2>4, <2>5
<1>8. ASSUME NEW p \in Publishers, Fail(p) PROVE AccountInv'
  <2>1. pub'[p].at = "idle" /\ \A q \in Publishers \ {p} : pub'[q] = pub[q]
    BY <1>8, IdleType, StepOfOne DEF Fail, Types
  <2>2. InFlight(p)' /\ Types'
    BY <1>8, <2>1, NothingRead, FailTypes
  <2> QED  BY <1>8, <2>1, <2>2, QuietStep DEF Fail
<1>9. CASE UNCHANGED vars
  <2>1. Types'
    BY <1>9 DEF vars, Types
  <2>2. \A q \in Publishers : InFlight(q)'
    BY <1>9, ReadStillHolds DEF vars
  <2>3. CASE Publishers = {}
    BY <1>9, <2>1, <2>3 DEF vars, HeadsArePublished, WeeksNameDays, OnlyPublishedIsSummed,
         CompleteDayIsCurrent, CompleteWeekIsCurrent, DayHead, WeekHead, VectorOf
  <2>4. ASSUME NEW p \in Publishers PROVE AccountInv'
    BY <1>9, <2>1, <2>2, QuietStep DEF vars
  <2> QED  BY <2>3, <2>4
<1> QED
  BY <1>1, <1>2, <1>3, <1>4, <1>5, <1>6, <1>7, <1>8, <1>9 DEF Next, Step

LEMMA InvHolds == Spec => []AccountInv
<1>1. Init => AccountInv
  BY InvInit
<1>2. AccountInv /\ [Next]_vars => AccountInv'
  BY InvNext
<1> QED  BY <1>1, <1>2, PTL DEF Spec

(***************************************************************************)
(* Theorems.                                                               *)
(***************************************************************************)
\* Heads, generations and running publications have the shape the tables and
\* the code give them, and only what was received in full is published.
THEOREM AccountsTyped == Spec => []TypeOK
<1>1. AccountInv => TypeOK
  <2> SUFFICES ASSUME AccountInv PROVE TypeOK
    OBVIOUS
  <2>1. \A p \in Publishers : pub[p].at \in Stages /\ pub[p].week \in Nat
    BY DEF AccountInv, Types, Publication
  <2> QED  BY <2>1 DEF AccountInv, Types, TypeOK, Stages
<1> QED  BY <1>1, InvHolds, PTL

\* A day account that calls itself complete sums exactly what the devices have
\* published, however many publications overlap.
THEOREM DaysAreCurrent == Spec => []CompleteDayIsCurrent
<1>1. AccountInv => CompleteDayIsCurrent
  BY DEF AccountInv
<1> QED  BY <1>1, InvHolds, PTL

\* So does a week account, although it is built from day accounts that were
\* read one query earlier.
THEOREM WeeksAreCurrent == Spec => []CompleteWeekIsCurrent
<1>1. AccountInv => CompleteWeekIsCurrent
  BY DEF AccountInv
<1> QED  BY <1>1, InvHolds, PTL

\* What was only received is summed nowhere, also not as a fallback.
THEOREM SumsArePublished == Spec => []OnlyPublishedIsSummed
<1>1. AccountInv => OnlyPublishedIsSummed
  BY DEF AccountInv
<1> QED  BY <1>1, InvHolds, PTL

\* A sequence that was appended to still starts with what it was.
LEMMA PrefixStays ==
    ASSUME NEW S, NEW a \in Seq(S), NEW x \in S
    PROVE  SubSeq(Append(a, x), 1, Len(a)) = a /\ SubSeq(a, 1, Len(a)) = a
<1>1. SubSeq(a, 1, Len(a)) = a
  BY SubSeqFull
<1>2. /\ Append(a, x) \in Seq(S) /\ Len(Append(a, x)) = Len(a) + 1 /\ Len(a) \in Nat
      /\ \A i \in 1..Len(a) : Append(a, x)[i] = a[i]
  BY AppendProperties, LenProperties
<1> DEFINE b == SubSeq(Append(a, x), 1, Len(a))
<1>3. /\ b \in Seq(S) /\ Len(b) = Len(a)
      /\ \A i \in 1..Len(a) : b[i] = Append(a, x)[1 + i - 1]
  BY <1>2, SubSeqProperties
<1>4. \A i \in 1..Len(a) : b[i] = a[i]
  BY <1>2, <1>3
<1> QED  BY <1>1, <1>3, <1>4, SeqEqual

\* A device's published account never goes back, and no generation that was
\* written is rewritten.
THEOREM HeadsAdvance == Spec => HeadsOnlyAdvance
<1> DEFINE Advance ==
      /\ \A e \in Devices, t \in Dates : heads'[e][t] >= heads[e][t]
      /\ \A t \in Dates : SubSeq(dayGens'[t], 1, Len(dayGens[t])) = dayGens[t]
      /\ SubSeq(weekGens', 1, Len(weekGens)) = weekGens
<1>1. AccountInv /\ [Next]_vars => Advance
  <2> SUFFICES ASSUME AccountInv, [Next]_vars PROVE Advance
    OBVIOUS
  <2> USE DEF AccountInv
  <2>1. /\ \A t \in Dates : dayGens[t] \in Seq(DayGen)
        /\ weekGens \in Seq(WeekGen)
        /\ \A e \in Devices, t \in Dates : heads[e][t] \in Nat
    BY HeadsAreCounts DEF Types
  <2>2. CASE UNCHANGED <<heads, dayGens, weekGens>>
    BY <2>1, <2>2, SubSeqFull
  <2>3. ASSUME NEW p \in Publishers, Batch(p), Free(p) PROVE Advance
    <3> DEFINE d == [vector |-> pub[p].vector, complete |-> pub[p].complete]
               w == [days |-> pub[p].days, complete |-> pub[p].whole]
    <3>1. /\ DeviceOf(p) \in Devices /\ DateOf(p) \in Dates
          /\ RevisionOf(p) \in Nat /\ heads[DeviceOf(p)][DateOf(p)] < RevisionOf(p)
          /\ d \in DayGen /\ w \in WeekGen
          /\ dayGens' = [dayGens EXCEPT ![DateOf(p)] = Append(@, d)]
          /\ weekGens' = Append(weekGens, w)
      BY <2>3, BatchMoves
    <3>2. \A e \in Devices, t \in Dates : heads'[e][t] =
              IF e = DeviceOf(p) /\ t = DateOf(p) THEN RevisionOf(p) ELSE heads[e][t]
      BY <2>3, BatchGrows
    <3> HIDE DEF d, w
    <3>3. \A t \in Dates : dayGens'[t] = IF t = DateOf(p) THEN Append(dayGens[t], d)
                                          ELSE dayGens[t]
      BY <3>1 DEF Types
    <3>4. \A e \in Devices, t \in Dates : heads'[e][t] >= heads[e][t]
      BY <2>1, <3>1, <3>2
    <3>5. \A t \in Dates : SubSeq(dayGens'[t], 1, Len(dayGens[t])) = dayGens[t]
      BY <2>1, <3>1, <3>3, PrefixStays
    <3>6. SubSeq(weekGens', 1, Len(weekGens)) = weekGens
      BY <2>1, <3>1, PrefixStays
    <3> QED  BY <3>4, <3>5, <3>6
  <2>4. ASSUME NEW p \in Publishers, Batch(p), ~Free(p)
        PROVE  UNCHANGED <<heads, dayGens, weekGens>>
    BY <2>4, BatchFails
  <2>5. CASE UNCHANGED vars
    BY <2>2, <2>5 DEF vars
  <2>6. ASSUME NEW p \in Publishers,
               (\E m \in Manifests : Commit(p, m)) \/ StartWeek(p) \/ ReadOwnHead(p)
               \/ ReadSources(p) \/ ReadDayHead(p) \/ ReadWeekDays(p) \/ Fail(p)
        PROVE  UNCHANGED <<heads, dayGens, weekGens>>
    BY <2>6 DEF Commit, StartWeek, ReadOwnHead, ReadSources, ReadDayHead, ReadWeekDays, Fail
  <2> HIDE DEF Advance
  <2> QED
    BY <2>2, <2>3, <2>4, <2>5, <2>6 DEF Next, Step
<1> HIDE DEF Advance
<1>2. Spec => [][Advance]_vars
  BY <1>1, InvHolds, PTL DEF Spec
<1> QED  BY <1>2 DEF HeadsOnlyAdvance, Advance

(***************************************************************************)
(* The publication implements ProfileAccounts.                             *)
(***************************************************************************)
\* An account never names a revision later than the head.
NoneLater ==
    \A s \in Dates : \A i \in 1..Len(dayGens[s]) :
        /\ dayGens[s][i] \in DayGen
        /\ \A e \in Devices : /\ dayGens[s][i].vector[e] \in Versions
                               /\ dayGens[s][i].vector[e] <= heads[e][s]

LEMMA SumsAreNoLater == AccountInv => NoneLater
<1> SUFFICES ASSUME AccountInv, NEW s \in Dates, NEW i \in 1..Len(dayGens[s])
             PROVE  /\ dayGens[s][i] \in DayGen
                    /\ \A e \in Devices : /\ dayGens[s][i].vector[e] \in Versions
                                           /\ dayGens[s][i].vector[e] <= heads[e][s]
  BY DEF NoneLater
<1> USE DEF AccountInv
<1>1. dayGens[s][i] \in DayGen
  <2>1. dayGens[s] \in Seq(DayGen)
    BY DEF Types
  <2> QED  BY <2>1, ElementOfSeq
<1>2. ASSUME NEW e \in Devices
      PROVE  /\ dayGens[s][i].vector[e] \in Versions
             /\ dayGens[s][i].vector[e] <= heads[e][s]
  <2>1. dayGens[s][i].vector[e] \in Versions
    BY <1>1 DEF DayGen, Vector
  <2>2. heads[e][s] \in Nat
    BY HeadsAreCounts
  <2>3. CASE dayGens[s][i].vector[e] = Absent
    BY <2>1, <2>2, <2>3 DEF Absent
  <2>4. CASE dayGens[s][i].vector[e] # Absent
    <3>1. dayGens[s][i].vector[e] \in Revisions
      BY <2>1, <2>4 DEF Versions
    <3>2. <<e, s, dayGens[s][i].vector[e]>> \in published
      BY <2>4 DEF OnlyPublishedIsSummed
    <3> QED  BY <2>1, <3>1, <3>2 DEF HeadsArePublished
  <2> QED  BY <2>3, <2>4
<1> QED  BY <1>1, <1>2

\* Initially no account has been published.
LEMMA InitMaps == Init => Accounts!Init
<1> SUFFICES ASSUME Init PROVE Accounts!Init
  OBVIOUS
<1>1. \A t \in Dates : DayHead(t) = Accounts!NoDay
  BY DEF Init, DayHead, Accounts!NoDay, Absent
<1>2. WeekHead = Accounts!NoWeek
  BY DEF Init, WeekHead, Accounts!NoWeek, Absent
<1> QED  BY <1>1, <1>2 DEF Init, Accounts!Init, Absent

\* A batch that succeeds is the abstract publication of its manifest.
LEMMA BatchMaps ==
    ASSUME AccountInv, AccountInv', NEW p \in Publishers, Batch(p), Free(p)
    PROVE  Accounts!Publish(DeviceOf(p), DateOf(p), RevisionOf(p))
<1>0. NoneLater'
  BY SumsAreNoLater, PTL
<1> USE DEF AccountInv
<1> DEFINE e == DeviceOf(p)
           t == DateOf(p)
           r == RevisionOf(p)
           d == [vector |-> pub[p].vector, complete |-> pub[p].complete]
           sum(s) == IF pub[p].days[s] = 0 THEN [f \in Devices |-> Absent]
                     ELSE dayGens'[s][pub[p].days[s]].vector
<1>1. /\ e \in Devices /\ t \in Dates /\ r \in Nat /\ heads[e][t] \in Nat
      /\ heads[e][t] < r /\ d \in DayGen
      /\ heads' = [heads EXCEPT ![e] = [@ EXCEPT ![t] = r]]
      /\ pub[p].day = Len(dayGens[t]) + 1
  BY BatchMoves, HeadsAreCounts
<1>2. \A s \in Dates : DayHead(s)' = IF s = t THEN d ELSE DayHead(s)
  BY BatchDays
<1>3. WeekHead' = [vector |-> [s \in Dates |-> sum(s)], complete |-> pub[p].whole]
  BY BatchWeekHead
<1>4. /\ \A s \in Dates : Len(dayGens[s]) \in Nat /\ Len(dayGens'[s]) \in Nat
                           /\ Len(dayGens[s]) <= Len(dayGens'[s])
      /\ Len(dayGens'[t]) = Len(dayGens[t]) + 1
      /\ dayGens'[t][Len(dayGens'[t])] = d
  BY BatchGrows
<1>5. /\ pub[p].days \in [Dates -> Nat] /\ pub[p].days[t] = pub[p].day
      /\ pub[p].whole => pub[p].complete
      /\ \A s \in Dates \ {t} : pub[p].days[s] <= Len(dayGens[s])
      /\ d.vector[e] = r
  BY DEF Batch, InFlight, Week, Sources, Summed
<1>6. \A s \in Dates : \A i \in 1..Len(dayGens'[s]) :
          /\ dayGens'[s][i] \in DayGen
          /\ \A f \in Devices : /\ dayGens'[s][i].vector[f] \in Versions
                                 /\ dayGens'[s][i].vector[f] <= heads'[f][s]
  BY <1>0 DEF NoneLater
<1>7. \A f \in Devices, s \in Dates : heads'[f][s] \in Nat
  <2>1. \A f \in Devices, s \in Dates : heads'[f][s] \in Versions
    BY DEF Types
  <2> QED  BY <2>1, VersionsAreCounts
<1>8. pub[p].whole \in BOOLEAN
  BY DEF Types, Publication
<1> HIDE DEF e, t, r, d, sum
<1>9. /\ d.vector \in [Devices -> Versions] /\ d.complete \in BOOLEAN
      /\ \A f \in Devices : d.vector[f] <= heads'[f][t]
      /\ d.complete => \A f \in Devices : d.vector[f] = heads'[f][t]
  <2>1. \A f \in Devices : d.vector[f] <= heads'[f][t]
    <3>1. Len(dayGens'[t]) \in 1..Len(dayGens'[t])
      BY <1>1, <1>4
    <3> QED  BY <1>1, <1>4, <1>6, <3>1
  <2>2. d.complete => \A f \in Devices : d.vector[f] = heads'[f][t]
    <3>1. \A s \in Dates : DayHead(s)'.complete =>
              \A f \in Devices : DayHead(s)'.vector[f] = heads'[f][s]
      BY DEF CompleteDayIsCurrent
    <3>2. t \in Dates /\ \A s \in Dates : s = t => DayHead(s)' = d
      BY <1>1, <1>2
    <3> QED  BY <3>1, <3>2
  <2> QED  BY <1>1, <2>1, <2>2 DEF DayGen, Vector
<1>10. ASSUME NEW s \in Dates
       PROVE  /\ sum(s) \in [Devices -> Versions]
              /\ \A f \in Devices : sum(s)[f] <= heads'[f][s]
  <2>1. CASE pub[p].days[s] = 0
    <3>1. sum(s) = [f \in Devices |-> Absent]
      BY <2>1 DEF sum
    <3> QED  BY <1>7, <3>1 DEF Versions, Absent
  <2>2. CASE pub[p].days[s] # 0
    <3>1. pub[p].days[s] \in 1..Len(dayGens'[s])
      BY <1>1, <1>4, <1>5, <2>2
    <3>2. sum(s) = dayGens'[s][pub[p].days[s]].vector
      BY <2>2 DEF sum
    <3> QED  BY <1>6, <3>1, <3>2 DEF DayGen, Vector
  <2> QED  BY <2>1, <2>2
<1>11. sum(t) = d.vector
  BY <1>1, <1>4, <1>5 DEF sum
<1> DEFINE W == WeekHead'
<1>12. /\ W.vector = [s \in Dates |-> sum(s)] /\ W.complete = pub[p].whole
       /\ W \in Accounts!WeekAccount
  BY <1>3, <1>8, <1>10 DEF Accounts!WeekAccount, Accounts!Published, Versions, Absent
<1>13. Accounts!Honest(W, Dates, heads')
  <2>1. pub[p].whole => \A s \in Dates, f \in Devices : W.vector[s][f] = heads'[f][s]
    BY <1>3 DEF CompleteWeekIsCurrent
  <2>2. \A s \in Dates, f \in Devices : W.vector[s][f] <= heads'[f][s]
    BY <1>10, <1>12
  <2> HIDE DEF W
  <2> QED  BY <1>12, <2>1, <2>2 DEF Accounts!Honest
<1>14. d \in Accounts!DayAccount /\ Accounts!Honest(Accounts!OfDay(d, t), {t}, heads')
  <2>1. d \in Accounts!DayAccount
    BY <1>1 DEF DayGen, Vector, Accounts!DayAccount, Accounts!Published, Versions, Absent
  <2> DEFINE a == Accounts!OfDay(d, t)
  <2>2. a.vector[t] = d.vector /\ a.complete = d.complete
    BY DEF Accounts!OfDay
  <2> HIDE DEF a
  <2>3. Accounts!Honest(a, {t}, heads')
    BY <1>9, <2>2 DEF Accounts!Honest
  <2> QED  BY <2>1, <2>3 DEF a
<1>15. [s \in Dates |-> DayHead(s)]' = [[s \in Dates |-> DayHead(s)] EXCEPT ![t] = d]
  BY <1>1, <1>2
<1>16. W.complete => d.complete
  BY <1>5, <1>12 DEF d
<1> QED
  BY <1>1, <1>5, <1>11, <1>12, <1>13, <1>14, <1>15, <1>16 DEF Accounts!Publish, e, t, r

\* Every step of the publications is an abstract publication or changes
\* nothing of what ProfileAccounts sees.
LEMMA StepMaps ==
    AccountInv /\ AccountInv' /\ [Next]_vars => [Accounts!Next]_(Accounts!vars)
<1> SUFFICES ASSUME AccountInv, AccountInv', [Next]_vars
             PROVE  Accounts!Next \/ UNCHANGED Accounts!vars
  OBVIOUS
<1>1. CASE UNCHANGED <<heads, dayGens, weekGens>>
  <2>1. \A s \in Dates : DayHead(s)' = DayHead(s)
    BY <1>1 DEF DayHead
  <2>2. WeekHead' = WeekHead
    BY <1>1 DEF WeekHead, VectorOf
  <2> QED  BY <1>1, <2>1, <2>2 DEF Accounts!vars
<1>2. ASSUME NEW p \in Publishers, Batch(p), Free(p) PROVE Accounts!Next
  <2>1. DeviceOf(p) \in Devices /\ DateOf(p) \in Dates /\ RevisionOf(p) \in Revisions
    BY <1>2, BatchMoves DEF AccountInv
  <2> QED  BY <1>2, <2>1, BatchMaps DEF Accounts!Next
<1>3. ASSUME NEW p \in Publishers, Batch(p), ~Free(p)
      PROVE  UNCHANGED <<heads, dayGens, weekGens>>
  BY <1>3, BatchFails
<1>4. ASSUME NEW p \in Publishers,
             (\E m \in Manifests : Commit(p, m)) \/ StartWeek(p) \/ ReadOwnHead(p)
             \/ ReadSources(p) \/ ReadDayHead(p) \/ ReadWeekDays(p) \/ Fail(p)
      PROVE  UNCHANGED <<heads, dayGens, weekGens>>
  BY <1>4 DEF Commit, StartWeek, ReadOwnHead, ReadSources, ReadDayHead, ReadWeekDays, Fail
<1>5. CASE UNCHANGED vars
  BY <1>1, <1>5 DEF vars
<1> QED
  BY <1>1, <1>2, <1>3, <1>4, <1>5 DEF Next, Step

\* The Worker's publication keeps the promise of ProfileAccounts: however its
\* requests overlap or fail, each publication replaces the day and the week
\* account honestly and in one step with the head.
THEOREM PublicationImplementsAccounts == Spec => ImplementsProfileAccounts
<1>1. Init => Accounts!Init
  BY InitMaps
<1>2. AccountInv /\ AccountInv' /\ [Next]_vars => [Accounts!Next]_(Accounts!vars)
  BY StepMaps
<1> QED
  BY <1>1, <1>2, InvHolds, PTL DEF Spec, Accounts!Spec, ImplementsProfileAccounts
=============================================================================
