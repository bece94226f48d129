--------------------------- MODULE MCUsageLedger ---------------------------
(***************************************************************************)
(* Instances of the usage ledger for TLC: one date with at most one hour,  *)
(* two segments of the same domain row, one or two overlapping syncs.      *)
(***************************************************************************)
EXTENDS LedgerProperties

MCIds    == {1, 2}
MCDates  == {"day"}
NoHour   == {}
OneHour  == {"h1"}
MCDateOf == [i \in Ids |-> "day"]
MCDateOfHour == [h \in Hours |-> "day"]
MCHoursOf == [i \in Ids |-> Hours]
NoZero   == {}
FirstIsZero == {<<1, "h1">>}
MCRowOf  == [i \in Ids |-> "row"]
MCViews  == {"site"}
MCOrder  == [d \in Dates |->
    <<<<"site", "day">>>> \o (IF "h1" \in Hours THEN <<<<"site", "h1">>>> ELSE <<>>)]
OneSync  == {"s1"}
TwoSyncs == {"s1", "s2"}
Nowhere  == {}
Elsewhere == {"other"}
Everywhere == {"other", "ledger"}

NoFault == [f \in Faults |-> 0]
Fault(f) == [NoFault EXCEPT ![f] = 1]
Twice(f, g) == [NoFault EXCEPT ![f] = 1, ![g] = 1]
CrashAndLoss   == Twice("crash", "lost")
PressAndCrash  == Twice("press", "crash")
PressAndRefuse == Twice("press", "refuse")
OnePressure    == Fault("press")
OneRepair      == Fault("repair")
OneCrash       == Fault("crash")
RepairLateRefuse == [Twice("repair", "late") EXCEPT !["refuse"] = 1]

\* Three segments, the first in two hours (and with no seconds in one of them).
ThreeIds   == {1, 2, 3}
ThreeHours == {"h1", "h2", "h3"}
TwoOneOne  == [i \in Ids |-> IF i = 1 THEN {"h1", "h3"} ELSE {"h2"}]
DayAndHours == [d \in Dates |-> <<<<"site", "day">>, <<"site", "h1">>, <<"site", "h2">>,
                                  <<"site", "h3">>>>]

=============================================================================
