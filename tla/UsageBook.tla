----------------------------- MODULE UsageBook -----------------------------
(***************************************************************************)
(* What the usage ledger promises its readers: a book in which a fact is   *)
(* entered once, under every key it belongs to and in one step, and copies *)
(* of the book (the Worker's rows) that lag behind it and never run ahead, *)
(* never forget and never mix in anything else.  UsageLedger implements it *)
(* as long as storage is not short, nothing ages out, no table is rebuilt, *)
(* no request arrives late and no sync overtakes another.                  *)
(***************************************************************************)
CONSTANTS Facts, Keys, Copies, KeyOf(_)

VARIABLES book, copy

Init == /\ book = [k \in Keys |-> {}]
        /\ copy = [c \in Copies |-> {}]

\* Fact i is entered under all the keys K at once, for the first time.
Enter(i, K) ==
    /\ \A k \in Keys : i \notin book[k]
    /\ book' = [k \in Keys |-> IF k \in K THEN book[k] \cup {i} ELSE book[k]]
    /\ UNCHANGED copy

\* Copy c catches up with some state of its key's book since its last one.
CatchUp(c) ==
    /\ copy' \in {[copy EXCEPT ![c] = S] : S \in SUBSET book[KeyOf(c)]}
    /\ copy[c] \subseteq copy'[c]
    /\ UNCHANGED book

Next == \/ \E i \in Facts, K \in SUBSET Keys : Enter(i, K)
        \/ \E c \in Copies : CatchUp(c)

Spec == Init /\ [][Next]_<<book, copy>>
=============================================================================
