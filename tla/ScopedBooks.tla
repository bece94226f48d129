---------------------------- MODULE ScopedBooks ----------------------------
(***************************************************************************)
(* What the isolation of the ledgers promises: as if every scope (a child  *)
(* on a device) had a book of its own and a copy of it with the Worker.  A *)
(* fact is of one scope for ever; a copy takes from its own book; a book   *)
(* forgets only what its copy has.  Which book is active, and where the    *)
(* others are kept, is not to be seen.  LedgerBinding implements it as     *)
(* long as the Worker never unbinds the device and no replay at the start  *)
(* of the worker overlaps a change.                                        *)
(***************************************************************************)
CONSTANTS Scopes, Facts

VARIABLES ledger, copy

Init == /\ ledger = [s \in Scopes |-> {}]
        /\ copy = [s \in Scopes |-> {}]

\* Facts of no other scope enter the book of s: one settlement, or the book of
\* an older version whose facts all name s.
Enter(s, F) ==
    /\ \A t \in Scopes \ {s} : F \cap (ledger[t] \cup copy[t]) = {}
    /\ ledger' = [ledger EXCEPT ![s] = @ \cup F]
    /\ UNCHANGED copy

\* The Worker's copy takes facts from the book of s.
CatchUp(s, F) ==
    /\ F \subseteq ledger[s]
    /\ copy' = [copy EXCEPT ![s] = @ \cup F]
    /\ UNCHANGED ledger

\* The book of s forgets facts that its copy has.
Forget(s, F) ==
    /\ F \subseteq copy[s]
    /\ ledger' = [ledger EXCEPT ![s] = @ \ F]
    /\ UNCHANGED copy

Next == \E s \in Scopes, F \in SUBSET Facts : Enter(s, F) \/ CatchUp(s, F) \/ Forget(s, F)

Spec == Init /\ [][Next]_<<ledger, copy>>
=============================================================================
