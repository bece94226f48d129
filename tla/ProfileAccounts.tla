-------------------------- MODULE ProfileAccounts --------------------------
(***************************************************************************)
(* What the published accounts of a profile promise: every publication     *)
(* moves one device's account of one date to a later revision and replaces *)
(* the day account and the week account in the same step; an account that  *)
(* calls itself complete is the sum of exactly the accounts the devices    *)
(* have published, and one that lacks a device's latest account says so.   *)
(***************************************************************************)
EXTENDS Naturals

CONSTANTS Devices,   \* the devices bound to the profile
          Dates,     \* the dates of one week
          Revisions  \* the revisions a device gives to the account of a date

\* Revision 0: the device has published no account of the date.
Published == Revisions \cup {0}

\* A day account lists the revision it sums for each device; a week account
\* lists those of every date.
DayAccount  == [vector : [Devices -> Published], complete : BOOLEAN]
WeekAccount == [vector : [Dates -> [Devices -> Published]], complete : BOOLEAN]

VARIABLES head,   \* the published revision of each device and date
          day,    \* the day account of each date
          week    \* the week account

vars == <<head, day, week>>

NoDay  == [vector |-> [e \in Devices |-> 0], complete |-> TRUE]
NoWeek == [vector |-> [t \in Dates |-> [e \in Devices |-> 0]], complete |-> TRUE]

Init == /\ head = [e \in Devices |-> [t \in Dates |-> 0]]
        /\ day = [t \in Dates |-> NoDay]
        /\ week = NoWeek

\* An account over the dates in T is honest: it never runs ahead of what the
\* devices have published, and it is complete only when it has all of it.
Honest(account, T, heads) ==
    /\ \A t \in T, e \in Devices : account.vector[t][e] <= heads[e][t]
    /\ account.complete => \A t \in T, e \in Devices : account.vector[t][e] = heads[e][t]

\* A day account, seen as an account over that date alone.
OfDay(d, t) == [vector |-> [s \in {t} |-> d.vector], complete |-> d.complete]

\* Device e publishes revision r of its account of date t.
Publish(e, t, r) ==
    /\ r > head[e][t]
    /\ head' = [head EXCEPT ![e][t] = r]
    /\ \E d \in DayAccount :
          /\ d.vector[e] = r
          /\ Honest(OfDay(d, t), {t}, head')
          /\ day' = [day EXCEPT ![t] = d]
    /\ week' \in WeekAccount
    /\ week'.vector[t] = day'[t].vector
    /\ week'.complete => day'[t].complete
    /\ Honest(week', Dates, head')

Next == \E e \in Devices, t \in Dates, r \in Revisions : Publish(e, t, r)

Spec == Init /\ [][Next]_vars
=============================================================================
