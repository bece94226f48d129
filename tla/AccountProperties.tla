------------------------- MODULE AccountProperties -------------------------
(***************************************************************************)
(* What the publication of device accounts promises.                       *)
(***************************************************************************)
EXTENDS AccountPublication

TypeOK ==
    /\ committed \subseteq Manifests
    /\ published \subseteq committed
    /\ heads \in [Devices -> [Dates -> Versions]]
    /\ dayGens \in [Dates -> Seq(DayGen)] /\ weekGens \in Seq(WeekGen)
    /\ left \in Nat
    /\ \A p \in Publishers :
          /\ pub[p].at \in {"idle", "week", "own", "sources", "day", "days", "batch"}
          /\ pub[p].at # "idle" => pub[p].of \in committed /\ pub[p].week \in Nat

\* The account the heads name: none before the first publication.
DayHead(t) == IF dayGens[t] = <<>> THEN [vector |-> [e \in Devices |-> Absent], complete |-> TRUE]
              ELSE dayGens[t][Len(dayGens[t])]
\* What a generation of the week sums for a date.
VectorOf(w, t) == IF w.days[t] = 0 THEN [e \in Devices |-> Absent]
                  ELSE dayGens[t][w.days[t]].vector
WeekHead == IF weekGens = <<>> THEN [vector |-> [t \in Dates |-> [e \in Devices |-> Absent]],
                                     complete |-> TRUE]
            ELSE LET w == weekGens[Len(weekGens)]
                 IN [vector |-> [t \in Dates |-> VectorOf(w, t)], complete |-> w.complete]

\* A day account that calls itself complete sums exactly the accounts its
\* devices have published, however publications overlap: no publication
\* writes a total from heads another has moved since (DESIGN.md, CF-05).
CompleteDayIsCurrent ==
    \A t \in Dates : DayHead(t).complete =>
        \A e \in Devices : DayHead(t).vector[e] = heads[e][t]

\* The same for the week account, which is built from day accounts read one
\* query earlier.
CompleteWeekIsCurrent ==
    WeekHead.complete => \A t \in Dates, e \in Devices : WeekHead.vector[t][e] = heads[e][t]

\* No account sums a manifest that was never published, not even one that was
\* received in full and is tried as a fallback.
OnlyPublishedIsSummed ==
    \A t \in Dates : \A i \in 1..Len(dayGens[t]) : \A e \in Devices :
        dayGens[t][i].vector[e] # Absent => <<e, t, dayGens[t][i].vector[e]>> \in published

\* A device's published account never goes back to an earlier revision, and no
\* generation is ever rewritten.
HeadsOnlyAdvance ==
    [][/\ \A e \in Devices, t \in Dates : heads'[e][t] >= heads[e][t]
       /\ \A t \in Dates : SubSeq(dayGens'[t], 1, Len(dayGens[t])) = dayGens[t]
       /\ SubSeq(weekGens', 1, Len(weekGens)) = weekGens]_vars

\* The publication implements the promise of ProfileAccounts.
Accounts == INSTANCE ProfileAccounts WITH
    head <- heads, day <- [t \in Dates |-> DayHead(t)], week <- WeekHead
ImplementsProfileAccounts == Accounts!Spec

\* Whatever has been received in full gets published, or a later revision of
\* its device and date does, though publications keep defeating each other.
EveryAccountIsPublished ==
    []<>(\A m \in committed : heads[m[1]][m[2]] >= m[3])
=============================================================================
