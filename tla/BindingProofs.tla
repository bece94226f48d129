---------------------------- MODULE BindingProofs ----------------------------
EXTENDS BindingProperties, SequenceTheorems, TLAPS

(***************************************************************************)
(* Proofs about the isolation of the books, for every set of scopes, facts *)
(* and syncs, with and without the replay at the start of the worker, and  *)
(* whatever the Worker answers.                                            *)
(***************************************************************************)

Asked == [to : Scopes, by : Runs \cup {"user"}]

\* What the queue of changes does: it grows at its end and shrinks at its head.
LEMMA QueueOfChanges ==
    ASSUME NEW q \in Seq(Asked)
    PROVE  /\ \A e \in Asked : /\ Append(q, e) \in Seq(Asked) /\ Append(q, e) # <<>>
                               /\ q # <<>> => Head(Append(q, e)) = Head(q)
           /\ q # <<>> => Head(q) \in Asked /\ Tail(q) \in Seq(Asked)
<1>1. ASSUME NEW e \in Asked
      PROVE  /\ Append(q, e) \in Seq(Asked) /\ Append(q, e) # <<>>
             /\ q # <<>> => Head(Append(q, e)) = Head(q)
  <2>1. /\ Append(q, e) \in Seq(Asked) /\ Append(q, e) # <<>>
        /\ \A i \in 1..Len(q) : Append(q, e)[i] = q[i]
    BY AppendProperties
  <2>2. q # <<>> => 1 \in 1..Len(q) /\ Head(q) = q[1]
    OBVIOUS
  <2>3. Head(Append(q, e)) = Append(q, e)[1]
    BY <2>1
  <2> QED  BY <2>1, <2>2, <2>3
<1>2. q # <<>> => Head(q) \in Asked /\ Tail(q) \in Seq(Asked)
  BY HeadTailProperties
<1> QED  BY <1>1, <1>2

\* The resting values have the shape the type invariant asks.
LEMMA RestingValues ==
    /\ Rest \in Run /\ NoChange \in Change /\ Closed \in Closing /\ NoDrain \in Drain
    /\ Blank \in Book
<1>1. SomeFact \in Facts
  BY BindingAssumption DEF SomeFact
<1> QED
  BY <1>1 DEF Rest, Run, NoChange, Change, Closed, Closing, NoDrain, Drain, Blank, Book,
              Bound

\* Between two changes nothing is in progress.
LEMMA NoChangeIdle == NoChange.at = "idle"
  BY DEF NoChange

\* A fresh install or an update satisfies the type invariant.
LEMMA BindInitType == Init => TypeOK
<1> SUFFICES ASSUME Init PROVE TypeOK
  OBVIOUS
<1>1. book \in Book /\ owner \in [Facts -> Owners] /\ settled \subseteq Facts
  <2>1. PICK F \in SUBSET Legacy :
          /\ owner \in {[f \in Facts |-> IF f \in F THEN s ELSE Unborn] : s \in {binding, Nobody}}
          /\ book \in {[facts |-> F, sent |-> {}, journal |-> {}, used |-> b] : b \in BOOLEAN}
          /\ settled = F
    BY DEF Init
  <2>2. binding \in Owners /\ Nobody \in Owners /\ Unborn \in Owners
    BY DEF Init, Bound, Owners
  <2>3. owner \in [Facts -> Owners]
    BY <2>1, <2>2
  <2> QED  BY <2>1, <2>3, BindingAssumption DEF Book
<1>2. changes \in Seq([to : Scopes, by : Runs \cup {"user"}])
  BY DEF Init
<1> QED
  BY <1>1, <1>2, RestingValues, BindingAssumption DEF Init, TypeOK, Bound, NoChange

\* A settled change leaves the queue, and who asked for it goes on.
LEMMA EndChangeType ==
    ASSUME TypeOK, changes # <<>>, NEW ok \in BOOLEAN, EndChange(ok)
    PROVE  /\ changes' \in Seq([to : Scopes, by : Runs \cup {"user"}])
           /\ change' = NoChange /\ mem' \in Bound /\ runs' \in [Runs -> Run]
           /\ binder' \in {"idle", "await", "adopt"}
<1>1. changes' \in Seq(Asked) /\ change' = NoChange /\ Head(changes) \in Asked
  BY QueueOfChanges DEF TypeOK, Asked, EndChange
<1>2. CASE Head(changes).by = "user"
  BY <1>1, <1>2 DEF EndChange, TypeOK, Asked
<1>3. CASE Head(changes).by # "user"
  <2>1. Head(changes).by \in Runs /\ Head(changes).to \in Bound
    BY <1>1, <1>3 DEF Asked, Bound
  <2>2. \A run \in Run : AfterRecovery(run) \in Run /\ [run EXCEPT !.at = "enter"] \in Run
    BY RestingValues DEF AfterRecovery, Run
  <2> QED  BY <1>1, <1>3, <2>1, <2>2 DEF EndChange, TypeOK, Asked
<1> QED  BY <1>2, <1>3

\* Spending an event keeps the budget a function to the naturals.
LEMMA BindSpendType ==
    ASSUME TypeOK, NEW e \in Events, Spend(e)
    PROVE  left' \in [Events -> Nat]
  BY DEF TypeOK, Spend

\* The steps of a session and of its settlement keep the type invariant.
LEMMA SessionType ==
    ASSUME TypeOK, \/ OpenSession \/ CloseSession \/ WriteJournal \/ WriteSettlement
                   \/ ClearJournal \/ SettlementRefused
    PROVE  TypeOK'
<1> USE DEF books, facts, flags, waits
<1>1. CASE OpenSession
  BY <1>1 DEF OpenSession, TypeOK
<1>2. CASE CloseSession
  <2>1. closing' \in Closing
    BY <1>2 DEF CloseSession, TypeOK, Closing
  <2> QED  BY <1>2, <2>1 DEF CloseSession, TypeOK
<1>3. CASE WriteJournal
  <2>1. closing.fact \in Facts /\ closing.by \in Owners /\ closing' \in Closing
    BY <1>3 DEF WriteJournal, TypeOK, Closing, Bound, Owners
  <2>2. book' \in Book /\ owner' \in [Facts -> Owners]
    BY <1>3, <2>1 DEF WriteJournal, TypeOK, Book
  <2> QED  BY <1>3, <2>1, <2>2 DEF WriteJournal, TypeOK
<1>4. CASE WriteSettlement
  <2>1. closing.fact \in Facts /\ closing' \in Closing
    BY <1>4 DEF WriteSettlement, TypeOK, Closing
  <2>2. book' \in Book /\ settled' \subseteq Facts
    BY <1>4, <2>1 DEF WriteSettlement, TypeOK, Book
  <2> QED  BY <1>4, <2>1, <2>2 DEF WriteSettlement, TypeOK
<1>5. ASSUME Closes
      PROVE  /\ closing' \in Closing /\ session' \in BOOLEAN /\ change' \in Change
             /\ change'.at # "idle" => change.at # "idle"
  BY <1>5, RestingValues DEF Closes, TypeOK, Change
<1>6. CASE ClearJournal
  <2>1. book' \in Book
    BY <1>6 DEF ClearJournal, TypeOK, Book
  <2> QED  BY <1>5, <1>6, <2>1 DEF ClearJournal, TypeOK
<1>7. CASE SettlementRefused
  <2>1. left' \in [Events -> Nat]
    BY <1>7, BindSpendType DEF SettlementRefused, Events
  <2>2. CASE closing.at = "settle"
    BY <1>5, <1>7, <2>1, <2>2 DEF SettlementRefused, TypeOK
  <2>3. CASE closing.at = "journal" /\ change.at = "closing"
    <3>1. EndChange(FALSE) /\ closing' = Closed /\ session' = session
      BY <1>7, <2>3 DEF SettlementRefused
    <3>2. changes # <<>>
      BY <2>3 DEF TypeOK
    <3>3. /\ changes' \in Seq([to : Scopes, by : Runs \cup {"user"}])
          /\ change' \in Change /\ change'.at = "idle" /\ mem' \in Bound
          /\ runs' \in [Runs -> Run] /\ binder' \in {"idle", "await", "adopt"}
      BY <3>1, <3>2, EndChangeType, RestingValues, NoChangeIdle
    <3> QED  BY <1>7, <2>1, <3>1, <3>3, RestingValues DEF SettlementRefused, TypeOK
  <2>4. CASE closing.at = "journal" /\ change.at # "closing"
    BY <1>7, <2>1, <2>4, RestingValues DEF SettlementRefused, TypeOK
  <2> QED  BY <1>7, <2>2, <2>3, <2>4 DEF SettlementRefused
<1> QED  BY <1>1, <1>2, <1>3, <1>4, <1>6, <1>7

\* The steps of the replay and of retention keep the type invariant.
LEMMA ReplayType ==
    ASSUME TypeOK, \/ \E by \in Runs \cup {"boot"} : StartDrain(by)
                   \/ ReplaySettlement \/ ReplayClear \/ Prune
    PROVE  TypeOK'
<1> USE DEF books, facts, flags, waits, clocks
<1>1. CASE \E by \in Runs \cup {"boot"} : StartDrain(by)
  <2>1. PICK by \in Runs \cup {"boot"} : StartDrain(by)
    BY <1>1
  <2>2. drain' \in Drain
    BY <2>1 DEF StartDrain, TypeOK, Drain, Book
  <2> QED  BY <2>1, <2>2 DEF StartDrain, TypeOK
<1>2. CASE ReplaySettlement
  <2> PICK f \in drain.ids : /\ book' = [book EXCEPT !.facts = @ \cup {f}, !.used = TRUE]
                             /\ settled' = settled \cup {f}
                             /\ drain' = [drain EXCEPT !.cur = {f}]
    BY <1>2 DEF ReplaySettlement
  <2> f \in Facts
    BY DEF TypeOK, Drain
  <2>1. book' \in Book /\ settled' \subseteq Facts /\ drain' \in Drain
    BY DEF TypeOK, Drain, Book
  <2> QED  BY <1>2, <2>1 DEF ReplaySettlement, TypeOK
<1>3. CASE ReplayClear
  <2>1. book' \in Book /\ drain' \in Drain
    BY <1>3, RestingValues DEF ReplayClear, TypeOK, Drain, Book
  <2> QED  BY <1>3, <2>1 DEF ReplayClear, TypeOK
<1>4. CASE Prune
  <2>1. book' \in Book /\ left' \in [Events -> Nat]
    BY <1>4, BindSpendType DEF Prune, TypeOK, Book, Events
  <2> QED  BY <1>4, <2>1 DEF Prune, TypeOK
<1> QED  BY <1>1, <1>2, <1>3, <1>4

\* What a step of a sync makes of its run.
LEMMA RunType ==
    ASSUME NEW run \in Run
    PROVE  /\ Hydrated(run) \in Run /\ AfterRecovery(run) \in Run
           /\ \A at \in {"recover", "await", "enter", "check", "pack", "flight",
                         "reply", "ack", "clear", "finally"} :
                 [run EXCEPT !.at = at] \in Run
  BY RestingValues DEF Hydrated, AfterRecovery, Run

\* The steps of a sync keep the type invariant.
LEMMA RunningType ==
    ASSUME TypeOK, NEW u \in Runs, StartSync(u) \/ Running(u)
    PROVE  TypeOK'
<1> USE DEF books, facts, flags, waits, clocks
<1>1. runs[u] \in Run /\ runs \in [Runs -> Run]
  BY DEF TypeOK
<1>2. CASE StartSync(u)
  BY <1>1, <1>2, RunType DEF StartSync, TypeOK
<1>3. CASE Recover(u)
  <2>1. left' \in [Events -> Nat]
    BY <1>3, BindSpendType DEF Recover, Events, TypeOK
  <2>4. runs' \in [Runs -> Run] /\ mem' \in Bound
    <3>1. CASE runs' = [runs EXCEPT ![u].at = "await"] /\ mem' = mem
      BY <1>1, <3>1, RunType DEF TypeOK
    <3>2. CASE /\ runs' = [runs EXCEPT ![u].at = "clear", ![u].scope = Nobody]
               /\ mem' = Nobody
      <4>1. \A run \in Run : [run EXCEPT !.at = "clear", !.scope = Nobody] \in Run
        BY DEF Run, Bound
      <4>2. runs' = [runs EXCEPT ![u] = [runs[u] EXCEPT !.at = "clear", !.scope = Nobody]]
        BY <1>1, <3>2
      <4> QED  BY <1>1, <3>2, <4>1, <4>2 DEF Bound
    <3>3. CASE runs' = [runs EXCEPT ![u] = AfterRecovery(@)] /\ mem' = mem
      BY <1>1, <3>3, RunType DEF TypeOK
    <3> QED  BY <1>3, <3>1, <3>2, <3>3 DEF Recover
  <2>2. CASE \E s \in Scopes : changes' = Append(changes, [to |-> s, by |-> u])
    <3>1. changes' \in Seq(Asked) /\ changes' # <<>>
      BY <2>2, QueueOfChanges DEF TypeOK, Asked
    <3> QED  BY <1>3, <2>1, <2>4, <3>1 DEF Recover, TypeOK, Asked
  <2>3. CASE changes' = changes
    BY <1>3, <2>1, <2>3, <2>4 DEF Recover, TypeOK
  <2> QED  BY <1>3, <2>2, <2>3 DEF Recover
<1>4. CASE Enter(u)
  <2>1. runs' \in [Runs -> Run]
    BY <1>1, <1>4, RestingValues DEF Enter, Run
  <2> QED  BY <1>4, <2>1 DEF Enter, TypeOK
<1>5. CASE CheckScope(u)
  <2>1. runs' \in [Runs -> Run]
    BY <1>1, <1>5, RestingValues, RunType DEF CheckScope
  <2>2. mark' \in Bound /\ syncing' \in BOOLEAN /\ followUp' \in BOOLEAN
    BY <1>5 DEF CheckScope, TypeOK
  <2> QED  BY <1>5, <2>1, <2>2 DEF CheckScope, TypeOK
<1>6. CASE Pack(u)
  <2>1. book.facts \ book.sent \in SUBSET Facts /\ mem \in Bound
    BY DEF TypeOK, Book
  <2>2. runs' \in [Runs -> Run]
    BY <1>1, <1>6, <2>1 DEF Pack, Run
  <2> QED  BY <1>6, <2>2 DEF Pack, TypeOK
<1>7. CASE Deliver(u)
  <2>1. Accepted(u) \in SUBSET Facts
    BY <1>1 DEF Accepted, Run
  <2>2. server' \in [Scopes -> SUBSET Facts]
    BY <1>7, <2>1 DEF Deliver, TypeOK
  <2>4. runs' \in [Runs -> Run]
    <3>1. CASE runs' = [runs EXCEPT ![u].at = "finally"]
      BY <1>1, <3>1, RunType
    <3>2. CASE runs' = [runs EXCEPT ![u].at = "reply", ![u].ids = Accepted(u)]
      <4>1. [runs[u] EXCEPT !.at = "reply", !.ids = Accepted(u)] \in Run
        BY <1>1, <2>1 DEF Run
      <4>2. runs' = [runs EXCEPT ![u] = [runs[u] EXCEPT !.at = "reply", !.ids = Accepted(u)]]
        BY <1>1, <3>2
      <4> QED  BY <1>1, <4>1, <4>2
    <3> QED  BY <1>7, <3>1, <3>2 DEF Deliver
  <2>3. left' \in [Events -> Nat]
    BY <1>7, BindSpendType DEF Deliver, TypeOK, Events
  <2> QED  BY <1>7, <2>2, <2>3, <2>4 DEF Deliver, TypeOK
<1>8. CASE Reply(u)
  <2>1. left' \in [Events -> Nat]
    BY <1>8, BindSpendType DEF Reply, TypeOK, Events
  <2>2. runs' \in [Runs -> Run] /\ mem' \in Bound
    BY <1>1, <1>8, RunType DEF Reply, TypeOK, Bound
  <2> QED  BY <1>8, <2>1, <2>2 DEF Reply, TypeOK
<1>9. CASE WriteAck(u)
  <2>1. runs' \in [Runs -> Run] /\ book' \in Book
    BY <1>1, <1>9, RunType DEF WriteAck, TypeOK, Book
  <2> QED  BY <1>9, <2>1 DEF WriteAck, TypeOK
<1>10. CASE WriteClear(u)
  <2>1. runs' \in [Runs -> Run] /\ binding' \in Bound
    BY <1>1, <1>10, RunType DEF WriteClear, Bound
  <2> QED  BY <1>10, <2>1 DEF WriteClear, TypeOK
<1>11. CASE Finally(u)
  <2>1. runs' \in [Runs -> Run] /\ mem' \in Bound
    BY <1>1, <1>11, RunType, RestingValues DEF Finally, TypeOK
  <2> QED  BY <1>11, <2>1 DEF Finally, TypeOK
<1> QED
  BY <1>2, <1>3, <1>4, <1>5, <1>6, <1>7, <1>8, <1>9, <1>10, <1>11 DEF Running

\* A switch moves books and makes none.
LEMMA SwitchedType ==
    ASSUME TypeOK, changes # <<>>, Switched
    PROVE  book' \in Book /\ archives' \in [Scopes -> Book] /\ orphans' \subseteq Book
<1>1. Head(changes).to \in Scopes
  BY QueueOfChanges DEF TypeOK, Asked
<1>2. book \in Book /\ archives \in [Scopes -> Book] /\ orphans \subseteq Book
  BY DEF TypeOK
<1> QED  BY <1>1, <1>2, RestingValues DEF Switched

\* The steps of a change, of who asks for it, and a crash keep the type invariant.
LEMMA ChangingType ==
    ASSUME TypeOK, \/ \E s \in Scopes : UserBinds(s)
                   \/ UserAdopts \/ Changing \/ Crash
    PROVE  TypeOK'
<1> USE DEF books, facts, flags, waits, clocks
<1>1. CASE \E s \in Scopes : UserBinds(s)
  <2>1. PICK s \in Scopes : UserBinds(s)
    BY <1>1
  <2>2. [to |-> s, by |-> "user"] \in Asked
    BY DEF Asked
  <2>3. changes' \in Seq(Asked) /\ changes' # <<>> /\ left' \in [Events -> Nat]
    BY <2>1, <2>2, QueueOfChanges, BindSpendType DEF UserBinds, TypeOK, Asked, Events
  <2> QED  BY <2>1, <2>3 DEF UserBinds, TypeOK, Asked
<1>2. CASE UserAdopts
  BY <1>2 DEF UserAdopts, TypeOK
<1>3. CASE ChangeBegins
  <2>1. change' \in Change
    BY <1>3 DEF ChangeBegins, TypeOK, Change
  <2> QED  BY <1>3, <2>1 DEF ChangeBegins, TypeOK
<1>4. CASE ChangeBoundary
  <2>1. change' \in Change /\ Old \in Bound
    BY <1>4 DEF ChangeBoundary, TypeOK, Change, Old
  <2>2. closing' \in Closing /\ session' \in BOOLEAN
    <3>1. CASE closing' = closing
      BY <1>4, <3>1 DEF ChangeBoundary, TypeOK
    <3>2. CASE \E f \in Facts : closing' = [at |-> "journal", fact |-> f, by |-> Old]
      BY <1>4, <2>1, <3>2 DEF ChangeBoundary, TypeOK, Closing
    <3> QED  BY <1>4, <3>1, <3>2 DEF ChangeBoundary
  <2> QED  BY <1>4, <2>1, <2>2 DEF ChangeBoundary, TypeOK
<1>5. ASSUME change.at = "commit"
      PROVE  changes # <<>>
  BY <1>5 DEF TypeOK
<1>6. CASE Commit
  <2>1. changes # <<>> /\ EndChange(TRUE)
    BY <1>5, <1>6 DEF Commit
  <2>2. /\ changes' \in Seq([to : Scopes, by : Runs \cup {"user"}])
        /\ change' \in Change /\ change'.at = "idle" /\ mem' \in Bound
        /\ runs' \in [Runs -> Run] /\ binder' \in {"idle", "await", "adopt"}
    BY <2>1, EndChangeType, RestingValues, NoChangeIdle
  <2>3. binding' \in Bound /\ mark' \in Bound
    BY <1>6, <2>1, QueueOfChanges DEF Commit, TypeOK, Asked, Bound
  <2>4. book' \in Book /\ archives' \in [Scopes -> Book] /\ orphans' \subseteq Book
    BY <1>6, <2>1, SwitchedType DEF Commit, TypeOK
  <2> QED  BY <1>6, <2>2, <2>3, <2>4 DEF Commit, TypeOK
<1>7. CASE ChangeFails
  <2>1. changes # <<>> /\ EndChange(FALSE)
    BY <1>5, <1>7 DEF ChangeFails
  <2>2. /\ changes' \in Seq([to : Scopes, by : Runs \cup {"user"}])
        /\ change' \in Change /\ change'.at = "idle" /\ mem' \in Bound
        /\ runs' \in [Runs -> Run] /\ binder' \in {"idle", "await", "adopt"}
    BY <2>1, EndChangeType, RestingValues, NoChangeIdle
  <2>3. left' \in [Events -> Nat]
    BY <1>7, BindSpendType DEF ChangeFails, TypeOK, Events
  <2> QED  BY <1>7, <2>2, <2>3 DEF ChangeFails, TypeOK
<1>8. CASE Crash
  <2>1. left' \in [Events -> Nat] /\ mem' \in Bound /\ changes' \in Seq(Asked)
    BY <1>8, BindSpendType DEF Crash, Events, Bound
  <2> QED  BY <1>8, <2>1, RestingValues, NoChangeIdle DEF Crash, TypeOK, Asked
<1> QED  BY <1>1, <1>2, <1>3, <1>4, <1>6, <1>7, <1>8 DEF Changing

\* Every step keeps the type invariant.
LEMMA BindNextType == TypeOK /\ [Next]_vars => TypeOK'
<1> SUFFICES ASSUME TypeOK, [Next]_vars PROVE TypeOK'
  OBVIOUS
<1>1. CASE \/ OpenSession \/ CloseSession \/ Settling \/ SettlementRefused
  BY <1>1, SessionType DEF Settling
<1>2. CASE (\E by \in Runs \cup {"boot"} : StartDrain(by)) \/ Replaying \/ Prune
  BY <1>2, ReplayType DEF Replaying
<1>3. CASE \E u \in Runs : StartSync(u) \/ Running(u)
  BY <1>3, RunningType
<1>4. CASE (\E s \in Scopes : UserBinds(s)) \/ UserAdopts \/ Changing \/ Crash
  BY <1>4, ChangingType
<1>5. CASE UNCHANGED vars
  BY <1>5 DEF vars, TypeOK
<1> QED  BY <1>1, <1>2, <1>3, <1>4, <1>5 DEF Next

\* Every variable of the binding model keeps its shape.
THEOREM BindingTypeCorrect == Spec => []TypeOK
<1>1. Init => TypeOK
  BY BindInitType
<1>2. TypeOK /\ [Next]_vars => TypeOK'
  BY BindNextType
<1> QED
  BY <1>1, <1>2, PTL DEF Spec

(***************************************************************************)
(* The books.  What keeps them apart is that a change is alone: while one  *)
(* is in progress no sync is between its gate and its return, and the mark *)
(* is what the change read when it began (ChangeAlone).  Then a commit     *)
(* finds no request packed from the book it puts away (Requests), no       *)
(* settlement half way into it (CutClosed, SettlementFresh), and a place   *)
(* in the archive that is free (Unmarked, ActiveHasNoArchive).             *)
(***************************************************************************)
Readers ==
    \A u \in Runs : runs[u].at \in {"check", "pack", "flight", "reply", "ack"} => runs[u].reader

ChangeAlone == change.at # "idle" => NoReader /\ change.mark = mark

Requests ==
    \A u \in Runs :
        /\ runs[u].at \in {"flight", "reply", "ack"} => runs[u].scope = mark /\ mark # Nobody
        /\ runs[u].at \in {"reply", "ack"} => runs[u].ids \subseteq server[runs[u].scope]

CutClosed == Switching /\ change.at = "commit" => closing.at = "idle"

SettlementFresh ==
    /\ closing.at = "journal" => owner[closing.fact] = Unborn
    /\ closing.at \in {"settle", "clear"} => book.used

Unmarked == mark = Nobody => book.sent = {} /\ \A s \in Scopes : archives[s] = Blank

BooksUsed ==
    /\ book.facts # {} => book.used
    /\ \A s \in Scopes : archives[s].facts # {} => archives[s].used

RunInv  == Readers /\ ChangeAlone /\ Requests
CutInv  == CutClosed /\ SettlementFresh
BookInv == /\ Unmarked /\ BooksUsed
           /\ MarkFollowsBinding /\ ActiveHasNoArchive /\ ArchivesAreOwn
           /\ AcksStayHome /\ NothingLost
BindInv == TypeOK /\ RunInv /\ CutInv /\ BookInv

\* What the resting values say of a sync, a change, a settlement and a book.
LEMMA AtRest ==
    /\ Rest.at = "idle" /\ ~Rest.reader
    /\ NoChange.at = "idle" /\ Closed.at = "idle"
    /\ Blank.facts = {} /\ Blank.sent = {} /\ Blank.journal = {}
  BY DEF Rest, NoChange, Closed, Blank

\* A fresh install or an update has one unmarked book and nothing under way.
LEMMA BindInit == Init => BindInv
<1> SUFFICES ASSUME Init PROVE BindInv
  OBVIOUS
<1>1. TypeOK
  BY BindInitType
<1>2. RunInv
  BY AtRest DEF Init, RunInv, Readers, ChangeAlone, Requests
<1>3. CutInv
  BY AtRest DEF Init, CutInv, CutClosed, SettlementFresh
<1>4. book.sent = {} /\ (book.facts # {} => book.used) /\ settled = book.facts
  BY DEF Init
<1>5. BookInv
  BY <1>4, AtRest DEF Init, BookInv, Unmarked, BooksUsed, MarkFollowsBinding,
     ActiveHasNoArchive, ArchivesAreOwn, AcksStayHome, NothingLost
<1> QED  BY <1>1, <1>2, <1>3, <1>5 DEF BindInv

\* A step that leaves the books and what belongs to them alone.
LEMMA BooksKept ==
    ASSUME BookInv, UNCHANGED <<binding, mark, book, archives, orphans, owner, settled, server>>
    PROVE  BookInv'
  BY DEF BookInv, Unmarked, BooksUsed, MarkFollowsBinding,
     ActiveHasNoArchive, ArchivesAreOwn, AcksStayHome, NothingLost

\* A step that leaves the syncs, the change, the mark and the Worker alone.
LEMMA RunsKept ==
    ASSUME RunInv, UNCHANGED <<runs, mark, server>>,
           change'.at # "idle" => change.at # "idle" /\ change'.mark = change.mark
    PROVE  RunInv'
  BY DEF RunInv, Readers, ChangeAlone, Requests, NoReader

\* A change that ends leaves no change, and who asked for it is not inside.
LEMMA EndChangeRuns ==
    ASSUME TypeOK, changes # <<>>, NEW ok \in BOOLEAN, EndChange(ok)
    PROVE  /\ change' = NoChange
           /\ \A v \in Runs : \/ runs'[v] = runs[v]
                              \/ runs'[v].at \in {"enter", "idle"}
<1>1. change' = NoChange /\ runs \in [Runs -> Run]
  BY DEF EndChange, TypeOK
<1>2. CASE Head(changes).by = "user"
  BY <1>1, <1>2 DEF EndChange
<1>3. CASE Head(changes).by # "user"
  <2> DEFINE w == Head(changes).by
             new == IF ok THEN [runs[w] EXCEPT !.at = "enter"] ELSE AfterRecovery(runs[w])
  <2>1. w \in Runs
    BY <1>3, QueueOfChanges DEF TypeOK, Asked
  <2>2. new.at \in {"enter", "idle"}
    BY <1>1, <2>1, AtRest DEF AfterRecovery, Run
  <2>3. runs' = [runs EXCEPT ![w] = new]
    BY <1>3 DEF EndChange
  <2> HIDE DEF new
  <2> QED  BY <1>1, <2>1, <2>2, <2>3
<1> QED  BY <1>2, <1>3

\* A change that fails leaves the syncs inside as they are.
LEMMA FailedChangeRuns ==
    ASSUME TypeOK, RunInv, changes # <<>>, EndChange(FALSE), UNCHANGED <<mark, server>>
    PROVE  RunInv' /\ change'.at = "idle"
<1>1. /\ change' = NoChange
      /\ \A v \in Runs : runs'[v] = runs[v] \/ runs'[v].at \in {"enter", "idle"}
  BY EndChangeRuns
<1>2. change'.at = "idle"
  BY <1>1, AtRest
<1> QED  BY <1>1, <1>2 DEF RunInv, Readers, ChangeAlone, Requests

\* The settlement of a session enters a fact nobody had into the active book.
LEMMA SessionBooks ==
    ASSUME BindInv, \/ OpenSession \/ CloseSession \/ WriteJournal \/ WriteSettlement
                    \/ ClearJournal \/ SettlementRefused
    PROVE  RunInv' /\ CutInv' /\ BookInv'
<1> USE DEF books, facts, flags, waits
<1>0. TypeOK /\ RunInv /\ CutInv /\ BookInv
  BY DEF BindInv
<1>1. CASE OpenSession
  <2>1. RunInv'
    BY <1>0, <1>1, RunsKept DEF OpenSession
  <2>2. CutInv'
    BY <1>0, <1>1 DEF OpenSession, CutInv, CutClosed, SettlementFresh, Switching, Old
  <2>3. BookInv'
    BY <1>0, <1>1, BooksKept DEF OpenSession
  <2> QED  BY <2>1, <2>2, <2>3
<1>2. CASE CloseSession
  <2>1. RunInv'
    BY <1>0, <1>2, RunsKept DEF CloseSession
  <2>2. CutInv'
    BY <1>0, <1>2 DEF CloseSession, CutInv, CutClosed, SettlementFresh, Switching, Old
  <2>3. BookInv'
    BY <1>0, <1>2, BooksKept DEF CloseSession
  <2> QED  BY <2>1, <2>2, <2>3
<1>3. CASE WriteJournal
  <2>1. RunInv'
    BY <1>0, <1>3, RunsKept DEF WriteJournal
  <2>2. /\ book' = [book EXCEPT !.journal = @ \cup {closing.fact}, !.used = TRUE]
        /\ book \in Book
    BY <1>0, <1>3 DEF WriteJournal, TypeOK
  <2>3. book'.facts = book.facts /\ book'.sent = book.sent /\ book'.used
    BY <2>2 DEF Book
  <2>4. CutInv'
    BY <1>0, <1>3, <2>3
    DEF WriteJournal, CutInv, CutClosed, SettlementFresh, Switching, Old, TypeOK, Closing
  <2>5. owner[closing.fact] = Unborn /\ closing.fact \in Facts
    BY <1>0, <1>3 DEF WriteJournal, CutInv, SettlementFresh, TypeOK, Closing
  <2>6. ArchivesAreOwn'
    <3>1. ASSUME NEW s \in Scopes, NEW f \in archives[s].facts \cup archives[s].journal
          PROVE  owner'[f] = s
      <4>1. f \in Facts /\ owner[f] = s
        BY <1>0 DEF BookInv, ArchivesAreOwn, TypeOK, Book
      <4>2. f # closing.fact
        BY <2>5, <4>1, BindingAssumption
      <4> QED  BY <1>0, <1>3, <4>1, <4>2 DEF WriteJournal, TypeOK
    <3> QED  BY <1>3, <3>1 DEF WriteJournal, ArchivesAreOwn
  <2>7. BookInv'
    BY <1>0, <1>3, <2>3, <2>6 DEF WriteJournal, BookInv, Unmarked, BooksUsed,
       MarkFollowsBinding, ActiveHasNoArchive, AcksStayHome, NothingLost
  <2> QED  BY <2>1, <2>4, <2>7
<1>4. CASE WriteSettlement
  <2>1. RunInv'
    BY <1>0, <1>4, RunsKept DEF WriteSettlement
  <2>2. book' = [book EXCEPT !.facts = @ \cup {closing.fact}] /\ book \in Book
    BY <1>0, <1>4 DEF WriteSettlement, TypeOK
  <2>3. /\ book'.facts = book.facts \cup {closing.fact} /\ book'.sent = book.sent
        /\ book'.used = book.used /\ book.used
    BY <1>0, <1>4, <2>2 DEF Book, WriteSettlement, CutInv, SettlementFresh
  <2>4. CutInv'
    BY <1>0, <1>4, <2>3
    DEF WriteSettlement, CutInv, CutClosed, SettlementFresh, Switching, Old, TypeOK, Closing
  <2>5. NothingLost'
    BY <1>0, <1>4, <2>3 DEF WriteSettlement, BookInv, NothingLost
  <2>6. BookInv'
    BY <1>0, <1>4, <2>3, <2>5 DEF WriteSettlement, BookInv, Unmarked, BooksUsed,
       MarkFollowsBinding, ActiveHasNoArchive, ArchivesAreOwn, AcksStayHome
  <2> QED  BY <2>1, <2>4, <2>6
<1>5. ASSUME Closes, UNCHANGED changes, book'.used = book.used
      PROVE  CutInv' /\ (change'.at # "idle" =>
                           change.at # "idle" /\ change'.mark = change.mark)
  <2>1. closing'.at = "idle" /\ change \in Change
    BY <1>0, <1>5, AtRest DEF Closes, TypeOK
  <2>2. change'.at # "idle" => change.at # "idle" /\ change'.mark = change.mark
    BY <1>5, <2>1 DEF Closes, Change
  <2> QED  BY <2>1, <2>2 DEF CutInv, CutClosed, SettlementFresh
<1>6. CASE ClearJournal
  <2>1. book' = [book EXCEPT !.journal = @ \ {closing.fact}] /\ book \in Book /\ Closes
    BY <1>0, <1>6 DEF ClearJournal, TypeOK
  <2>2. book'.facts = book.facts /\ book'.sent = book.sent /\ book'.used = book.used
    BY <2>1 DEF Book
  <2>3. CutInv' /\ RunInv'
    BY <1>0, <1>5, <1>6, <2>1, <2>2, RunsKept DEF ClearJournal
  <2>4. BookInv'
    BY <1>0, <1>6, <2>2 DEF ClearJournal, BookInv, Unmarked, BooksUsed,
       MarkFollowsBinding, ActiveHasNoArchive, ArchivesAreOwn, AcksStayHome, NothingLost
  <2> QED  BY <2>3, <2>4
<1>7. CASE SettlementRefused
  <2>1. BookInv'
    BY <1>0, <1>7, BooksKept DEF SettlementRefused
  <2>2. CASE closing.at = "settle"
    BY <1>0, <1>5, <1>7, <2>1, <2>2, RunsKept DEF SettlementRefused
  <2>3. CASE closing.at = "journal" /\ change.at = "closing"
    <3>1. EndChange(FALSE) /\ closing' = Closed /\ changes # <<>>
      BY <1>0, <1>7, <2>3 DEF SettlementRefused, TypeOK
    <3>2. RunInv' /\ change'.at = "idle"
      BY <1>0, <1>7, <3>1, FailedChangeRuns DEF SettlementRefused
    <3>3. CutInv'
      BY <3>1, <3>2, AtRest DEF CutInv, CutClosed, SettlementFresh
    <3> QED  BY <2>1, <3>2, <3>3
  <2>4. CASE closing.at = "journal" /\ change.at # "closing"
    <3>1. RunInv'
      BY <1>0, <1>7, <2>4, RunsKept DEF SettlementRefused
    <3>2. CutInv'
      BY <1>7, <2>4, AtRest DEF SettlementRefused, CutInv, CutClosed, SettlementFresh
    <3> QED  BY <2>1, <3>1, <3>2
  <2> QED  BY <1>7, <2>2, <2>3, <2>4 DEF SettlementRefused
<1> QED  BY <1>1, <1>2, <1>3, <1>4, <1>6, <1>7

\* A replay enters facts, retention takes what the Worker has.
LEMMA ReplayBooks ==
    ASSUME BindInv, \/ \E by \in Runs \cup {"boot"} : StartDrain(by)
                    \/ ReplaySettlement \/ ReplayClear \/ Prune
    PROVE  RunInv' /\ CutInv' /\ BookInv'
<1> USE DEF books, facts, flags, waits, clocks
<1>0. TypeOK /\ RunInv /\ CutInv /\ BookInv /\ book \in Book
  BY DEF BindInv, TypeOK
<1>1. /\ UNCHANGED <<binding, mark, archives, orphans, owner, server>>
      /\ UNCHANGED <<runs, change, changes, closing>>
  BY DEF StartDrain, ReplaySettlement, ReplayClear, Prune
<1>2. RunInv'
  BY <1>0, <1>1, RunsKept
<1>3. /\ book.used => book'.used
      /\ book'.facts # {} => book'.used
      /\ book'.sent \subseteq book.sent
      /\ \A f \in settled' : f \in settled \/ f \in book'.facts
      /\ \A f \in book.facts \ book'.facts : f \in book.sent
  <2>1. CASE \E by \in Runs \cup {"boot"} : StartDrain(by)
    BY <1>0, <2>1 DEF StartDrain, BookInv, BooksUsed
  <2>2. CASE ReplaySettlement
    <3>1. PICK f \in drain.ids : /\ book' = [book EXCEPT !.facts = @ \cup {f}, !.used = TRUE]
                                 /\ settled' = settled \cup {f}
      BY <2>2 DEF ReplaySettlement
    <3> QED  BY <1>0, <3>1 DEF Book
  <2>3. CASE ReplayClear
    <3>1. book' = [book EXCEPT !.journal = @ \ drain.cur] /\ settled' = settled
      BY <2>3 DEF ReplayClear
    <3> QED  BY <1>0, <3>1 DEF Book, BookInv, BooksUsed
  <2>4. CASE Prune
    <3>1. /\ book' = [book EXCEPT !.facts = @ \ book.sent, !.sent = {}]
          /\ settled' = settled
      BY <2>4 DEF Prune
    <3> QED  BY <1>0, <3>1 DEF Book, BookInv, BooksUsed
  <2> QED  BY <2>1, <2>2, <2>3, <2>4
<1>4. CutInv'
  BY <1>0, <1>1, <1>3 DEF CutInv, CutClosed, SettlementFresh, Switching, Old
<1>5. NothingLost'
  BY <1>0, <1>1, <1>3 DEF BookInv, NothingLost, AcksStayHome
<1>6. BookInv'
  BY <1>0, <1>1, <1>3, <1>5 DEF BookInv, Unmarked, BooksUsed,
     MarkFollowsBinding, ActiveHasNoArchive, ArchivesAreOwn, AcksStayHome
<1> QED  BY <1>2, <1>4, <1>6

\* One sync moves; it is a reader while it is inside, and what it carries is
\* packed from the book that is active.
LEMMA OneRunMoves ==
    ASSUME TypeOK, RunInv, NEW u \in Runs,
           \A v \in Runs \ {u} : runs'[v] = runs[v],
           runs'[u].at \in {"check", "pack", "flight", "reply", "ack"} => runs'[u].reader,
           runs'[u].at \in {"flight", "reply", "ack"} => runs'[u].scope = mark' /\ mark' # Nobody,
           runs'[u].at \in {"reply", "ack"} => runs'[u].ids \subseteq server'[runs'[u].scope],
           change' = change,
           change.at # "idle" => ~runs'[u].reader /\ mark' = mark,
           mark # Nobody => mark' = mark,
           \A s \in Scopes : server[s] \subseteq server'[s]
    PROVE  RunInv'
<1>1. Readers' /\ ChangeAlone'
  BY DEF RunInv, Readers, ChangeAlone, NoReader
<1>2. Requests'
  <2>1. ASSUME NEW v \in Runs, v # u
        PROVE  /\ runs'[v].at \in {"flight", "reply", "ack"} =>
                     runs'[v].scope = mark' /\ mark' # Nobody
               /\ runs'[v].at \in {"reply", "ack"} =>
                     runs'[v].ids \subseteq server'[runs'[v].scope]
    BY <2>1 DEF RunInv, Requests, TypeOK, Bound
  <2> QED  BY <2>1 DEF Requests
<1> QED  BY <1>1, <1>2 DEF RunInv

\* A change that joins the queue leaves the one in progress as it is.
LEMMA CutKept ==
    ASSUME TypeOK, CutInv, UNCHANGED <<change, closing, owner>>, book'.used = book.used,
           \/ UNCHANGED changes
           \/ \E e \in Asked : changes' = Append(changes, e)
    PROVE  CutInv'
<1>1. change.at # "idle" => Head(changes') = Head(changes)
  BY QueueOfChanges DEF TypeOK, Asked
<1> QED
  BY <1>1 DEF CutInv, CutClosed, SettlementFresh, Switching, Old

\* A sync that goes on without touching a book keeps all of it.
LEMMA RunningQuietly ==
    ASSUME BindInv, NEW u \in Runs,
           StartSync(u) \/ Recover(u) \/ Enter(u) \/ Pack(u) \/ Reply(u) \/ Finally(u)
    PROVE  RunInv' /\ CutInv' /\ BookInv'
<1> USE DEF books, facts, flags, waits, clocks
<1>0. TypeOK /\ RunInv /\ CutInv /\ BookInv /\ runs[u] \in Run
  BY DEF BindInv, TypeOK
<1>1. BookInv'
  BY <1>0, BooksKept DEF StartSync, Recover, Enter, Pack, Reply, Finally
<1>2. CutInv'
  <2>1. \A s \in Scopes : [to |-> s, by |-> u] \in Asked
    BY DEF Asked
  <2>2. UNCHANGED changes \/ \E e \in Asked : changes' = Append(changes, e)
    BY <2>1 DEF StartSync, Recover, Enter, Pack, Reply, Finally
  <2> QED
    BY <1>0, <2>2, CutKept DEF StartSync, Recover, Enter, Pack, Reply, Finally
<1> SUFFICES RunInv'
  BY <1>1, <1>2
<1>3. /\ mark' = mark /\ server' = server /\ change' = change
      /\ \A v \in Runs \ {u} : runs'[v] = runs[v]
  BY <1>0 DEF StartSync, Recover, Enter, Pack, Reply, Finally, TypeOK
<1>4. change.at # "idle" => ~runs[u].reader /\ changes # <<>>
  BY <1>0 DEF RunInv, ChangeAlone, NoReader, TypeOK
<1>5. ASSUME runs'[u].at \in {"idle", "recover", "await", "enter", "clear", "finally"},
             runs'[u].reader => runs[u].reader
      PROVE  RunInv'
  BY <1>0, <1>3, <1>4, <1>5, OneRunMoves
<1>6. runs \in [Runs -> Run]
  BY <1>0 DEF TypeOK
<1>7. CASE StartSync(u)
  BY <1>0, <1>5, <1>6, <1>7 DEF StartSync, Hydrated, Run
<1>8. CASE Recover(u)
  BY <1>0, <1>5, <1>6, <1>8, AtRest DEF Recover, AfterRecovery, Run
<1>9. CASE Enter(u)
  <2>1. CASE changes # <<>>
    BY <1>5, <1>6, <1>9, <2>1, AtRest DEF Enter
  <2>2. CASE changes = <<>>
    <3>1. runs'[u].at = "check" /\ runs'[u].reader
      BY <1>0, <1>6, <1>9, <2>2 DEF Enter, Run
    <3> QED  BY <1>0, <1>3, <1>4, <2>2, <3>1, OneRunMoves
  <2> QED  BY <2>1, <2>2
<1>10. CASE Pack(u)
  <2> DEFINE ids == book.facts \ book.sent
  <2>1. CASE changes # <<>> \/ ~InScope \/ ids = {}
    BY <1>0, <1>5, <1>6, <1>10, <2>1 DEF Pack, Run
  <2>2. CASE ~(changes # <<>> \/ ~InScope \/ ids = {})
    <3>1. runs' = [runs EXCEPT ![u] = [@ EXCEPT !.at = "flight", !.ids = ids, !.scope = mem]]
      BY <1>10, <2>2 DEF Pack
    <3>2. /\ runs'[u].at = "flight" /\ runs'[u].scope = mem
          /\ runs'[u].reader = runs[u].reader
      BY <1>0, <1>6, <3>1 DEF Run
    <3>3. runs[u].reader /\ mem = mark /\ mark # Nobody
      BY <1>0, <1>10, <2>2 DEF Pack, InScope, RunInv, Readers
    <3> QED  BY <1>0, <1>3, <1>4, <2>2, <3>2, <3>3, OneRunMoves
  <2> QED  BY <2>1, <2>2
<1>11. CASE Reply(u)
  <2>1. CASE runs' = [runs EXCEPT ![u].at = "ack"]
    <3>1. /\ runs'[u].at = "ack" /\ runs'[u].scope = runs[u].scope
          /\ runs'[u].ids = runs[u].ids /\ runs'[u].reader = runs[u].reader
      BY <1>0, <1>6, <2>1 DEF Run
    <3>2. /\ runs[u].scope = mark /\ mark # Nobody /\ runs[u].reader
          /\ runs[u].ids \subseteq server[runs[u].scope]
      BY <1>0, <1>11 DEF Reply, RunInv, Readers, Requests
    <3> QED  BY <1>0, <1>3, <1>4, <3>1, <3>2, OneRunMoves
  <2>2. CASE \E at \in {"finally", "clear"} : runs' = [runs EXCEPT ![u].at = at]
    BY <1>0, <1>5, <1>6, <2>2 DEF Run
  <2> QED  BY <1>11, <2>1, <2>2 DEF Reply
<1>12. CASE Finally(u)
  BY <1>0, <1>5, <1>6, <1>12, AtRest DEF Finally, Hydrated, Run
<1> QED  BY <1>7, <1>8, <1>9, <1>10, <1>11, <1>12

\* A sync that marks a book, sends it, enters the answer or loses the binding
\* keeps the books apart.
LEMMA RunningBooks ==
    ASSUME BindInv, NEW u \in Runs, StartSync(u) \/ Running(u)
    PROVE  RunInv' /\ CutInv' /\ BookInv'
<1> USE DEF books, facts, flags, waits, clocks
<1>0. /\ TypeOK /\ RunInv /\ CutInv /\ BookInv
      /\ runs[u] \in Run /\ runs \in [Runs -> Run] /\ book \in Book
  BY DEF BindInv, TypeOK
<1>1. ASSUME CheckScope(u) \/ Deliver(u) \/ WriteAck(u) \/ WriteClear(u)
      PROVE  /\ change' = change /\ \A v \in Runs \ {u} : runs'[v] = runs[v]
             /\ book'.used = book.used => CutInv'
  <2>1. UNCHANGED <<change, changes, closing, owner>>
    BY <1>1 DEF CheckScope, Deliver, WriteAck, WriteClear
  <2>2. book'.used = book.used => CutInv'
    BY <1>0, <2>1, CutKept
  <2>3. \A v \in Runs \ {u} : runs'[v] = runs[v]
    BY <1>0, <1>1 DEF CheckScope, Deliver, WriteAck, WriteClear
  <2> QED  BY <2>1, <2>2, <2>3
<1>2. runs[u].at \in {"check", "pack", "flight", "reply", "ack"} =>
        runs[u].reader /\ change.at = "idle"
  BY <1>0 DEF RunInv, Readers, ChangeAlone, NoReader
<1>3. change.at # "idle" => ~runs[u].reader
  BY <1>0 DEF RunInv, ChangeAlone, NoReader
<1>4. CASE CheckScope(u)
  <2>1. /\ mark # Nobody => mark' = mark
        /\ mark = Nobody => mark' \in {Nobody, binding}
        /\ UNCHANGED <<binding, book, archives, orphans, owner, settled, server>>
    BY <1>4 DEF CheckScope, Claims
  <2>2. BookInv'
    BY <1>0, <2>1, AtRest DEF BookInv, Unmarked, BooksUsed, MarkFollowsBinding,
       ActiveHasNoArchive, ArchivesAreOwn, AcksStayHome, NothingLost, TypeOK, Bound
  <2>3. /\ runs'[u].at \in {"idle", "pack"}
        /\ runs'[u].at = "pack" => runs'[u].reader = runs[u].reader
    BY <1>0, <1>4, AtRest DEF CheckScope, Run
  <2>4. change.at = "idle" /\ runs[u].reader
    BY <1>2, <1>4 DEF CheckScope
  <2>5. RunInv'
    BY <1>0, <1>1, <1>4, <2>1, <2>3, <2>4, OneRunMoves
  <2> QED  BY <1>1, <1>4, <2>1, <2>2, <2>5
<1>5. CASE Deliver(u)
  <2>1. /\ UNCHANGED <<binding, mark, book, archives, orphans, owner, settled>>
        /\ runs[u].reader /\ change.at = "idle"
        /\ runs[u].scope = mark /\ mark \in Scopes
    BY <1>0, <1>2, <1>5 DEF Deliver, RunInv, Requests, TypeOK, Bound
  <2>2. \A s \in Scopes : server[s] \subseteq server'[s]
    BY <1>0, <1>5 DEF Deliver, TypeOK
  <2>3. BookInv'
    BY <1>0, <2>1, <2>2 DEF BookInv, Unmarked, BooksUsed, MarkFollowsBinding,
       ActiveHasNoArchive, ArchivesAreOwn, AcksStayHome, NothingLost
  <2>4. CASE runs' = [runs EXCEPT ![u].at = "finally"]
    <3>1. runs'[u].at = "finally"
      BY <1>0, <2>4 DEF Run
    <3>2. RunInv'
      BY <1>0, <1>1, <1>5, <2>1, <2>2, <3>1, OneRunMoves
    <3> QED  BY <1>1, <1>5, <2>1, <2>3, <3>2
  <2>5. CASE /\ server' = [server EXCEPT ![runs[u].scope] = @ \cup Accepted(u)]
             /\ runs' = [runs EXCEPT ![u].at = "reply", ![u].ids = Accepted(u)]
    <3>1. /\ runs'[u].at = "reply" /\ runs'[u].scope = runs[u].scope
          /\ runs'[u].ids = Accepted(u) /\ runs'[u].reader = runs[u].reader
      BY <1>0, <2>5 DEF Run
    <3>2. Accepted(u) \subseteq server'[mark]
      BY <1>0, <2>1, <2>5 DEF TypeOK
    <3>3. RunInv'
      BY <1>0, <1>1, <1>5, <2>1, <2>2, <3>1, <3>2, BindingAssumption, OneRunMoves
    <3> QED  BY <1>1, <1>5, <2>1, <2>3, <3>3
  <2> QED  BY <1>5, <2>4, <2>5 DEF Deliver
<1>6. CASE WriteAck(u)
  <2>1. /\ UNCHANGED <<binding, mark, archives, orphans, owner, settled, server>>
        /\ book' = [book EXCEPT !.sent = @ \cup (runs[u].ids \cap book.facts)]
    BY <1>6 DEF WriteAck
  <2>2. /\ book'.facts = book.facts /\ book'.used = book.used
        /\ book'.sent = book.sent \cup (runs[u].ids \cap book.facts)
    BY <1>0, <2>1 DEF Book
  <2>3. runs[u].ids \subseteq server[mark] /\ mark \in Scopes /\ mark # Nobody
    BY <1>0, <1>6 DEF WriteAck, RunInv, Requests, TypeOK, Bound
  <2>4. BookInv'
    BY <1>0, <2>1, <2>2, <2>3 DEF BookInv, Unmarked, BooksUsed, MarkFollowsBinding,
       ActiveHasNoArchive, ArchivesAreOwn, AcksStayHome, NothingLost
  <2>5. runs'[u].at = "finally" /\ change.at = "idle"
    BY <1>0, <1>2, <1>6 DEF WriteAck, Run
  <2>6. RunInv'
    BY <1>0, <1>1, <1>6, <2>1, <2>5, OneRunMoves
  <2> QED  BY <1>1, <1>6, <2>2, <2>4, <2>6
<1>7. CASE WriteClear(u)
  <2>1. /\ UNCHANGED <<mark, book, archives, orphans, owner, settled, server>>
        /\ binding' = Nobody
    BY <1>7 DEF WriteClear
  <2>2. BookInv'
    BY <1>0, <2>1 DEF BookInv, Unmarked, BooksUsed, MarkFollowsBinding,
       ActiveHasNoArchive, ArchivesAreOwn, AcksStayHome, NothingLost
  <2>3. /\ runs'[u].at \in {"idle", "enter", "finally"}
        /\ runs'[u].reader => runs[u].reader
    BY <1>0, <1>7, AtRest DEF WriteClear, AfterRecovery, Run
  <2>4. RunInv'
    BY <1>0, <1>1, <1>3, <1>7, <2>1, <2>3, OneRunMoves
  <2> QED  BY <1>1, <1>7, <2>1, <2>2, <2>4
<1>8. CASE StartSync(u) \/ Recover(u) \/ Enter(u) \/ Pack(u) \/ Reply(u) \/ Finally(u)
  BY <1>8, RunningQuietly
<1> QED  BY <1>4, <1>5, <1>6, <1>7, <1>8 DEF Running

\* What a switch does with each book: the active one goes to the place of its
\* scope or among the unattributed ones, the one of the new scope comes back.
LEMMA WhereBooksGo ==
    ASSUME TypeOK, NEW to \in Scopes, Head(changes).to = to, Old # to, Switched
    PROVE  /\ book' = archives[to] /\ archives'[to] = Blank
           /\ \A s \in Scopes \ {to} :
                 archives'[s] = IF s = Old /\ book.used /\ Known THEN book ELSE archives[s]
           /\ orphans \subseteq orphans'
           /\ book.used /\ ~Known => book \in orphans'
  BY DEF Switched, TypeOK

\* A switch keeps every book, and each of them with its own scope.
LEMMA SwitchedBooks ==
    ASSUME BindInv, NEW to \in Scopes, Head(changes).to = to, Switching, Switched,
           change.mark = mark, binding' = to, mark' = to,
           UNCHANGED <<owner, settled, server>>
    PROVE  BookInv'
<1>1. TypeOK /\ BookInv /\ Old # to /\ Old \in Bound /\ to # Nobody
  BY BindingAssumption DEF BindInv, Switching, Old, TypeOK, Change
<1>2. /\ book' = archives[to] /\ archives'[to] = Blank
      /\ \A s \in Scopes \ {to} :
            archives'[s] = IF s = Old /\ book.used /\ Known THEN book ELSE archives[s]
      /\ orphans \subseteq orphans'
      /\ book.used /\ ~Known => book \in orphans'
  BY <1>1, WhereBooksGo
<1>3. Old \in Scopes => archives[Old] = Blank
  BY <1>1, BindingAssumption DEF BookInv, Unmarked, ActiveHasNoArchive, Old
<1>4. Known => /\ Old \in Scopes
               /\ \A f \in book.facts \cup book.journal : owner[f] = Old
               /\ book.sent \subseteq server[Old]
  <2>1. ASSUME Known PROVE Old \in Scopes /\ FactsMatch(book, Old)
    BY <1>1, <2>1 DEF Known, FactsMatch, Bound
  <2>2. ASSUME Known PROVE book.sent \subseteq server[Old]
    BY <1>1, <2>1, <2>2 DEF BookInv, AcksStayHome, Unmarked, Old
  <2> QED  BY <2>1, <2>2 DEF FactsMatch
<1>5. Unmarked' /\ MarkFollowsBinding' /\ ActiveHasNoArchive'
  BY <1>1, <1>2 DEF Unmarked, MarkFollowsBinding, ActiveHasNoArchive
<1>6. BooksUsed'
  BY <1>1, <1>2, AtRest DEF BookInv, BooksUsed
<1>7. ArchivesAreOwn'
  BY <1>1, <1>2, <1>4, AtRest DEF BookInv, ArchivesAreOwn
<1>8. AcksStayHome'
  BY <1>1, <1>2, <1>4, AtRest DEF BookInv, AcksStayHome
<1>9. NothingLost'
  <2> SUFFICES ASSUME NEW f \in settled
               PROVE  \/ f \in book'.facts
                      \/ \E s \in Scopes : f \in archives'[s].facts \cup server[s]
                      \/ \E b \in orphans' : f \in b.facts
    BY DEF NothingLost
  <2>1. CASE f \in book.facts
    <3>1. book.used
      BY <1>1, <2>1 DEF BookInv, BooksUsed
    <3>2. CASE Known
      BY <1>1, <1>2, <1>4, <2>1, <3>1, <3>2
    <3>3. CASE ~Known
      BY <1>2, <2>1, <3>1, <3>3
    <3> QED  BY <3>2, <3>3
  <2>2. ASSUME NEW s \in Scopes, f \in archives[s].facts
        PROVE  \/ f \in book'.facts
               \/ \E t \in Scopes : f \in archives'[t].facts
    <3>1. s # Old
      BY <1>3, <2>2, AtRest
    <3> QED  BY <1>2, <2>2, <3>1
  <2>3. \/ f \in book.facts
        \/ \E s \in Scopes : f \in archives[s].facts \cup server[s]
        \/ \E b \in orphans : f \in b.facts
    BY <1>1 DEF BookInv, NothingLost
  <2> QED  BY <1>2, <2>1, <2>2, <2>3
<1> QED
  BY <1>5, <1>6, <1>7, <1>8, <1>9 DEF BookInv

\* A commit to the scope whose book is active keeps the book.
LEMMA SameScopeBooks ==
    ASSUME BindInv, NEW to \in Scopes, Old = to, change.mark = mark,
           binding' = to, mark' = to, UNCHANGED <<books, owner, settled, server>>
    PROVE  BookInv'
<1>1. BookInv /\ to # Nobody
  BY BindingAssumption DEF BindInv
<1>2. mark = to \/ mark = Nobody
  BY <1>1 DEF Old
<1>3. UNCHANGED <<book, archives, orphans>>
  BY DEF books
<1> QED
  BY <1>1, <1>2, <1>3 DEF BookInv, Unmarked, BooksUsed, MarkFollowsBinding,
     ActiveHasNoArchive, ArchivesAreOwn, AcksStayHome, NothingLost

\* A change runs alone from its first read to its commit, and a crash ends it.
LEMMA ChangingBooks ==
    ASSUME BindInv, \/ \E s \in Scopes : UserBinds(s)
                    \/ UserAdopts \/ Changing \/ Crash
    PROVE  RunInv' /\ CutInv' /\ BookInv'
<1> USE DEF facts, flags, waits, clocks
<1>0. TypeOK /\ RunInv /\ CutInv /\ BookInv
  BY DEF BindInv
<1>1. CASE (\E s \in Scopes : UserBinds(s)) \/ UserAdopts
  <2>1. /\ UNCHANGED <<binding, mark, book, archives, orphans, owner, settled, server>>
        /\ UNCHANGED <<runs, change, closing>>
    BY <1>1 DEF UserBinds, UserAdopts, books
  <2>2. \A s \in Scopes : [to |-> s, by |-> "user"] \in Asked
    BY DEF Asked
  <2>3. UNCHANGED changes \/ \E e \in Asked : changes' = Append(changes, e)
    BY <1>1, <2>2 DEF UserBinds, UserAdopts
  <2>4. RunInv' /\ BookInv'
    BY <1>0, <2>1, RunsKept, BooksKept
  <2>5. CutInv'
    BY <1>0, <2>1, <2>3, CutKept
  <2> QED  BY <2>4, <2>5
<1>2. CASE ChangeBegins
  <2>1. /\ UNCHANGED <<binding, mark, book, archives, orphans, owner, settled, server>>
        /\ UNCHANGED <<runs, changes, closing>> /\ NoReader /\ change'.mark = mark
        /\ change'.prior = binding
        /\ change'.at = "commit" =>
             Head(changes).to = (IF mark # Nobody THEN mark ELSE binding)
    BY <1>2 DEF ChangeBegins, books
  <2>2. RunInv'
    BY <1>0, <2>1 DEF RunInv, Readers, ChangeAlone, Requests, NoReader
  <2>3. CutInv'
    BY <1>0, <2>1 DEF CutInv, CutClosed, SettlementFresh, Switching, Old
  <2>4. BookInv'
    BY <1>0, <2>1, BooksKept
  <2> QED  BY <2>2, <2>3, <2>4
<1>3. CASE ChangeBoundary
  <2>1. /\ UNCHANGED <<binding, mark, book, archives, orphans, owner, settled, server>>
        /\ UNCHANGED <<runs, changes>>
        /\ change.at = "boundary" /\ closing.at = "idle" /\ change \in Change
    BY <1>0, <1>3 DEF ChangeBoundary, books, TypeOK
  <2>2. change'.mark = change.mark
    BY <1>3, <2>1 DEF ChangeBoundary, Change
  <2>3. \/ change'.at = "commit" /\ closing' = closing
        \/ /\ change'.at = "closing" /\ closing'.at = "journal"
           /\ owner[closing'.fact] = Unborn
    BY <1>3, <2>1 DEF ChangeBoundary, Change
  <2>4. RunInv' /\ BookInv'
    BY <1>0, <2>1, <2>2, RunsKept, BooksKept
  <2>5. CutInv'
    BY <2>1, <2>3 DEF CutInv, CutClosed, SettlementFresh
  <2> QED  BY <2>4, <2>5
<1>4. CASE Commit
  <2> DEFINE to == Head(changes).to
  <2>1. /\ changes # <<>> /\ to \in Scopes /\ change.mark = mark /\ NoReader
        /\ binding' = to /\ mark' = to /\ EndChange(TRUE)
        /\ UNCHANGED <<owner, settled, server, closing>>
    BY <1>0, <1>4, QueueOfChanges DEF Commit, TypeOK, Asked, RunInv, ChangeAlone
  <2>2. /\ change' = NoChange
        /\ \A v \in Runs : runs'[v] = runs[v] \/ runs'[v].at \in {"enter", "idle"}
    BY <1>0, <2>1, EndChangeRuns
  <2>3. RunInv'
    BY <1>0, <2>1, <2>2, AtRest DEF RunInv, Readers, ChangeAlone, Requests, NoReader
  <2>4. CASE Switching
    <3>1. Switched /\ closing.at = "idle"
      BY <1>0, <1>4, <2>4 DEF Commit, CutInv, CutClosed
    <3>2. CutInv'
      BY <2>1, <2>2, <3>1, AtRest DEF CutInv, CutClosed, SettlementFresh
    <3>3. BookInv'
      BY <2>1, <2>4, <3>1, SwitchedBooks
    <3> QED  BY <2>3, <3>2, <3>3
  <2>5. CASE ~Switching
    <3>1. UNCHANGED books /\ Old = to
      BY <1>4, <2>5 DEF Commit, Switching
    <3>2. CutInv'
      BY <1>0, <2>1, <2>2, <3>1, AtRest DEF CutInv, CutClosed, SettlementFresh, books
    <3>3. BookInv'
      BY <2>1, <3>1, SameScopeBooks
    <3> QED  BY <2>3, <3>2, <3>3
  <2> QED  BY <2>4, <2>5
<1>5. CASE ChangeFails
  <2>1. /\ UNCHANGED <<binding, mark, book, archives, orphans, owner, settled, server>>
        /\ UNCHANGED closing /\ changes # <<>> /\ EndChange(FALSE)
    BY <1>0, <1>5 DEF ChangeFails, books, TypeOK
  <2>2. RunInv' /\ change'.at = "idle" /\ BookInv'
    BY <1>0, <2>1, FailedChangeRuns, BooksKept
  <2>3. CutInv'
    BY <1>0, <2>1, <2>2 DEF CutInv, CutClosed, SettlementFresh
  <2> QED  BY <2>2, <2>3
<1>6. CASE Crash
  <2>1. /\ UNCHANGED <<binding, mark, book, archives, orphans, owner, settled, server>>
        /\ runs' = [u \in Runs |-> Rest] /\ change' = NoChange /\ closing' = Closed
    BY <1>6 DEF Crash, books
  <2>2. RunInv'
    BY <2>1, AtRest DEF RunInv, Readers, ChangeAlone, Requests
  <2>3. CutInv'
    BY <2>1, AtRest DEF CutInv, CutClosed, SettlementFresh
  <2>4. BookInv'
    BY <1>0, <2>1, BooksKept
  <2> QED  BY <2>2, <2>3, <2>4
<1> QED  BY <1>1, <1>2, <1>3, <1>4, <1>5, <1>6 DEF Changing

\* Every step keeps the invariant of the books.
LEMMA BindNext == BindInv /\ [Next]_vars => BindInv'
<1> SUFFICES ASSUME BindInv, [Next]_vars PROVE BindInv'
  OBVIOUS
<1>1. TypeOK'
  BY BindNextType DEF BindInv
<1>2. RunInv' /\ CutInv' /\ BookInv'
  <2>1. CASE \/ OpenSession \/ CloseSession \/ Settling \/ SettlementRefused
    BY <2>1, SessionBooks DEF Settling
  <2>2. CASE (\E by \in Runs \cup {"boot"} : StartDrain(by)) \/ Replaying \/ Prune
    BY <2>2, ReplayBooks DEF Replaying
  <2>3. CASE \E u \in Runs : StartSync(u) \/ Running(u)
    BY <2>3, RunningBooks
  <2>4. CASE (\E s \in Scopes : UserBinds(s)) \/ UserAdopts \/ Changing \/ Crash
    BY <2>4, ChangingBooks
  <2>5. CASE UNCHANGED vars
    <3>1. /\ UNCHANGED <<binding, mark, book, archives, orphans, owner, settled, server>>
          /\ UNCHANGED <<runs, change, changes, closing>>
      BY <2>5 DEF vars
    <3>2. TypeOK /\ RunInv /\ CutInv /\ BookInv
      BY DEF BindInv
    <3> QED  BY <3>1, <3>2, RunsKept, CutKept, BooksKept
  <2> QED  BY <2>1, <2>2, <2>3, <2>4, <2>5 DEF Next
<1> QED  BY <1>1, <1>2 DEF BindInv

\* The invariant of the books holds in every state.
LEMMA BindInvariant == Spec => []BindInv
<1> QED
  BY BindInit, BindNext, PTL DEF Spec

\* The mismatch of binding and mark that checkScope (ledger-binding.js) refuses
\* happens in no state: a bound device works on the book of its own binding.
THEOREM MarkFollows == Spec => []MarkFollowsBinding
<1>1. BindInv => MarkFollowsBinding
  BY DEF BindInv, BookInv
<1> QED  BY <1>1, BindInvariant, PTL

\* From the packing of a request to the writing of its answer, the book it was
\* packed from stays the active one: change() waits for the upload.
THEOREM RequestsMatch == Spec => []RequestsMatchTheBook
<1>1. BindInv => RequestsMatchTheBook
  BY DEF BindInv, RunInv, Requests, RequestsMatchTheBook
<1> QED  BY <1>1, BindInvariant, PTL

\* The book archived for a scope holds that scope's facts and journal entries
\* and no others: a book that cannot be attributed is kept apart.
THEOREM ArchivesHoldTheirOwn == Spec => []ArchivesAreOwn
<1>1. BindInv => ArchivesAreOwn
  BY DEF BindInv, BookInv
<1> QED  BY <1>1, BindInvariant, PTL

\* Archiving the active book never overwrites an older one of its scope.
THEOREM ArchivePlaceIsFree == Spec => []ActiveHasNoArchive
<1>1. BindInv => ActiveHasNoArchive
  BY DEF BindInv, BookInv
<1> QED  BY <1>1, BindInvariant, PTL

\* A fact is acknowledged only in the book of the scope that sent it, so that
\* retention takes what the Worker has.
THEOREM AcksAreHome == Spec => []AcksStayHome
<1>1. BindInv => AcksStayHome
  BY DEF BindInv, BookInv
<1> QED  BY <1>1, BindInvariant, PTL

\* No switch, failed change, lost answer or crash destroys a settlement: it is
\* in the active book, in an archive, or with the Worker.
THEOREM NoBookIsLost == Spec => []NothingLost
<1>1. BindInv => NothingLost
  BY DEF BindInv, BookInv
<1> QED  BY <1>1, BindInvariant, PTL
=============================================================================
