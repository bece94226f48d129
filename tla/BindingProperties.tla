------------------------- MODULE BindingProperties -------------------------
(***************************************************************************)
(* What the isolation of the books promises.                               *)
(***************************************************************************)
EXTENDS LedgerBinding

\* Every variable has the shape the code gives it.
TypeOK ==
    /\ binding \in Bound /\ mark \in Bound /\ mem \in Bound
    /\ book \in Book /\ archives \in [Scopes -> Book] /\ orphans \subseteq Book
    /\ owner \in [Facts -> Owners] /\ settled \subseteq Facts
    /\ runs \in [Runs -> Run] /\ syncing \in BOOLEAN /\ followUp \in BOOLEAN
    /\ changes \in Seq([to : Scopes, by : Runs \cup {"user"}])
    /\ change \in Change /\ binder \in {"idle", "await", "adopt"}
    /\ change.at # "idle" => changes # <<>>
    /\ session \in BOOLEAN /\ closing \in Closing /\ drain \in Drain
    /\ server \in [Scopes -> SUBSET Facts]
    /\ left \in [Events -> Nat]

\* The Worker stores under a scope only facts that were settled under it:
\* neither a switch between packing and sending, nor a recovery, nor a late
\* clearing of the binding sends one child's time as another's.
OwnFactsOnly == \A s \in Scopes : \A f \in server[s] : owner[f] = s

\* The Worker never stores one scope's fact under another.
NoForeignFacts == \A s \in Scopes : \A f \in server[s] : owner[f] \in {s, Nobody}

\* A settled fact is in one book at most, so restoring an archive never makes
\* it count twice.
OneBook ==
    /\ \A s \in Scopes : book.facts \cap archives[s].facts = {}
    /\ \A s, t \in Scopes : s # t => archives[s].facts \cap archives[t].facts = {}
    /\ \A b \in orphans : \A s \in Scopes : b.facts \cap (book.facts \cup archives[s].facts) = {}

\* Every settlement is still in the active book or in an archive, unless the
\* Worker has it: no switch, refusal or crash destroys a book.
NothingLost ==
    \A f \in settled : \/ f \in book.facts
                       \/ \E s \in Scopes : f \in archives[s].facts \cup server[s]
                       \/ \E b \in orphans : f \in b.facts

\* The book kept for a scope holds that scope's facts and no others, the
\* entries of its journal included.
ArchivesAreOwn ==
    \A s \in Scopes : \A f \in archives[s].facts \cup archives[s].journal : owner[f] = s

\* The scope whose book is active has no archived book, so archiving it never
\* overwrites an older one.
ActiveHasNoArchive == mark # Nobody => archives[mark] = Blank

\* While a device is bound and its book is marked, the two agree: the mismatch
\* that checkScope refuses does not happen.
MarkFollowsBinding == binding # Nobody /\ mark # Nobody => binding = mark

\* A request on its way carries the scope of the book it was packed from, and
\* that book stays the active one until the answer is dealt with.
RequestsMatchTheBook ==
    \A u \in Runs : runs[u].at \in {"flight", "reply", "ack"} => runs[u].scope = mark

\* A fact is marked as uploaded only in the book of the scope that sent it.
AcksStayHome ==
    /\ \A f \in book.sent : \E s \in Scopes : f \in server[s] /\ (mark # Nobody => s = mark)
    /\ \A s \in Scopes : archives[s].sent \subseteq server[s]

\* A change to the scope whose book is active keeps the book (a token rotation,
\* the recovery of the same device): it is not refused as unattributed.
SameScopeContinues ==
    [][~(ChangeFails /\ Head(changes).to = mark /\ change.prior = binding
           /\ left' = left)]_vars

\* The book a scope has, wherever it is kept: the active one is of the scope it
\* is marked with.
BookOf(s) == IF s = mark THEN book ELSE archives[s]
FactsOf == [s \in Scopes |-> BookOf(s).facts]
Scoped == INSTANCE ScopedBooks WITH ledger <- FactsOf, copy <- server

\* The active book, the archives and the uploads are as good as a book for every
\* scope: no step but a settlement, an upload, a claim or a pruning changes what
\* a scope's book holds, and none changes two.
ImplementsScopedBooks == Scoped!Spec

(***************************************************************************)
(* Liveness.  Every step that is under way is finished; nothing makes a    *)
(* sync, a session or a change begin.                                      *)
(***************************************************************************)
Fairness ==
    /\ WF_vars(Settling) /\ WF_vars(Replaying) /\ WF_vars(Changing) /\ WF_vars(UserAdopts)
    /\ \A u \in Runs : WF_vars(Running(u))
FairSpec == Spec /\ Fairness

\* A change that was asked for is finished, one way or the other: uploads
\* under way complete or fail and then let it happen.
ChangesFinish == changes # <<>> ~> changes = <<>>
=============================================================================
