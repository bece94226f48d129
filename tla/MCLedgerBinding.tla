-------------------------- MODULE MCLedgerBinding --------------------------
(***************************************************************************)
(* Instances of the binding isolation for TLC.                             *)
(***************************************************************************)
EXTENDS BindingProperties, TLC

CONSTANTS a, b, u1, u2

MCScopes == {a, b}
OneRun   == {u1}
TwoRuns  == {u1, u2}
TwoFacts == {1, 2}
OneFact  == {1}
NoLegacy == {}
\* how many changes, unbindings, lost answers, refused writes, crashes, prunings
Allowed(c, n, l, r, x, p) ==
    [e \in Events |-> CASE e = "change" -> c [] e = "unbound" -> n [] e = "lost" -> l
                        [] e = "refuse" -> r [] e = "crash" -> x [] e = "prune" -> p]
Switches == Allowed(3, 0, 1, 1, 1, 1)
Unbound  == Allowed(2, 1, 0, 0, 0, 0)
Boots    == Allowed(2, 0, 0, 1, 1, 0)
BootWaits == Allowed(2, 0, 0, 1, 1, 0)
=============================================================================
