-------------------------- MODULE BindingOwnerProofs --------------------------
EXTENDS BindingProofs

(***************************************************************************)
(* Whose facts a book holds and the Worker gets.  The replay at the start  *)
(* of the worker is no reader and may put a fact into the book of the next *)
(* scope; that no change happens while it runs (ReplayAlone) is a          *)
(* hypothesis, and the only one.  Two readings are proved in one argument: *)
(* where the Worker may report the device unbound a session may settle for *)
(* nobody (Strays), where it never does every fact of a book is its        *)
(* scope's.                                                                *)
(***************************************************************************)
Strays  == IF Budget["unbound"] = 0 THEN {} ELSE {Nobody}
Own(s)  == {s} \cup Strays
Home(b) == b.facts \cup b.journal

\* Facts a settlement or a replay still has in hand for the active book.
Working == drain.ids \cup (IF closing.at \in {"settle", "clear"} THEN {closing.fact} ELSE {})

\* The scope the active book is, or will be, marked with.
Claimant == IF mark # Nobody THEN mark ELSE binding

\* No change is in progress while the journal is replayed.
ReplayAlone == drain.ids # {} => change.at = "idle"

\* A sync waits for its own replay.
DrainInside ==
    /\ drain.cur \subseteq drain.ids
    /\ drain.ids # {} /\ drain.by # "boot" =>
         drain.by \in Runs /\ runs[drain.by].at = "pack"

PackMarked == \A u \in Runs : runs[u].at = "pack" => mark # Nobody

Steady == change.at # "idle" /\ binding # Nobody => binding = change.prior

StaysBound ==
    Budget["unbound"] = 0 => /\ left["unbound"] = 0
                             /\ \A u \in Runs : runs[u].at # "clear"
                             /\ mark # Nobody => binding = mark

ClosingOwn == closing.at = "journal" /\ Claimant # Nobody => closing.by \in Own(Claimant)

\* What is in hand for a book without a mark is in it, so that a claim sees it.
WorkingHere ==
    mark = Nobody => /\ drain.ids \subseteq Home(book) /\ drain.cur \subseteq book.facts
                     /\ closing.at = "settle" => closing.fact \in Home(book)
                     /\ closing.at = "clear" => closing.fact \in book.facts

BookOwn == mark # Nobody => \A f \in Home(book) \cup Working : owner[f] \in Own(mark)

BookBorn == \A f \in Home(book) \cup Working : owner[f] # Unborn

RequestsOwn ==
    \A u \in Runs : runs[u].at \in {"flight", "reply", "ack"} =>
        \A f \in runs[u].ids : owner[f] \in Own(runs[u].scope)

ServerOwn == \A s \in Scopes : \A f \in server[s] : owner[f] \in Own(s)

OrphansApart ==
    \A b \in orphans : \A f \in Home(b) :
        /\ owner[f] # Unborn /\ f \notin Home(book) \cup Working
        /\ \A s \in Scopes : f \notin Home(archives[s])

SyncInv  == DrainInside /\ PackMarked /\ Steady /\ StaysBound
FactInv  == BookOwn /\ BookBorn /\ ServerOwn /\ OrphansApart
CloseInv == ClosingOwn /\ WorkingHere
OwnerInv == BindInv /\ SyncInv /\ CloseInv /\ FactInv /\ RequestsOwn

\* Nobody and Unborn are no scopes, and a stray is nobody's.
LEMMA OwnScopes ==
    \A s \in Scopes : /\ Unborn \notin Own(s) /\ Own(s) \subseteq {s, Nobody}
                      /\ \A t \in Scopes : t \in Own(s) => t = s
                      /\ Budget["unbound"] = 0 => Own(s) = {s}
  BY BindingAssumption DEF Own, Strays, Nobody, Unborn

\* A fresh install or an update.
LEMMA OwnerInit == Init => OwnerInv
<1> SUFFICES ASSUME Init PROVE OwnerInv
  OBVIOUS
<1>1. BindInv
  BY BindInit
<1>2. SyncInv
  BY AtRest DEF Init, SyncInv, DrainInside, PackMarked, Steady, StaysBound, NoDrain
<1>3. CloseInv /\ RequestsOwn /\ ServerOwn
  BY AtRest DEF Init, CloseInv, ClosingOwn, WorkingHere, RequestsOwn, ServerOwn, NoDrain
<1>4. Working = {}
  BY AtRest DEF Init, Working, NoDrain
<1>5. \A f \in Home(book) : owner[f] # Unborn
  <2>1. PICK F \in SUBSET Legacy :
          /\ owner \in {[f \in Facts |-> IF f \in F THEN s ELSE Unborn] : s \in {binding, Nobody}}
          /\ book \in {[facts |-> F, sent |-> {}, journal |-> {}, used |-> b] : b \in BOOLEAN}
    BY DEF Init
  <2>2. Home(book) = F
    BY <2>1 DEF Home
  <2>3. binding # Unborn /\ Nobody # Unborn
    BY BindingAssumption DEF Init, Bound, Nobody, Unborn
  <2> QED  BY <2>1, <2>2, <2>3, BindingAssumption
<1>6. FactInv
  BY <1>3, <1>4, <1>5 DEF Init, FactInv, BookOwn, BookBorn, OrphansApart
<1> QED  BY <1>1, <1>2, <1>3, <1>6 DEF OwnerInv

\* A step after which the active book and what is in hand for it hold nothing new.
LEMMA HomeKept ==
    ASSUME FactInv, UNCHANGED <<mark, archives, orphans, owner, server>>,
           Home(book') \cup Working' \subseteq Home(book) \cup Working
    PROVE  FactInv'
<1>1. BookOwn' /\ BookBorn' /\ ServerOwn'
  BY DEF FactInv, BookOwn, BookBorn, ServerOwn
<1>2. OrphansApart'
  BY DEF FactInv, OrphansApart
<1> QED  BY <1>1, <1>2 DEF FactInv

\* A step that packs no request, leaves the binding alone, and moves no sync
\* that replays.
LEMMA SyncsKept ==
    ASSUME SyncInv, UNCHANGED <<binding, mark, drain>>,
           change'.at # "idle" => change.at # "idle" /\ change'.prior = change.prior,
           Budget["unbound"] = 0 /\ left["unbound"] = 0 => left'["unbound"] = 0,
           \A v \in Runs : \/ runs'[v] = runs[v]
                           \/ /\ runs'[v].at \notin {"pack", "clear"}
                              /\ ~(drain.ids # {} /\ drain.by = v)
    PROVE  SyncInv'
<1>1. DrainInside' /\ PackMarked' /\ Steady'
  BY DEF SyncInv, DrainInside, PackMarked, Steady
<1>2. StaysBound'
  BY DEF SyncInv, StaysBound
<1> QED  BY <1>1, <1>2 DEF SyncInv

\* A step that puts no fact into a request.
LEMMA RequestsKept ==
    ASSUME RequestsOwn, owner' = owner,
           \A v \in Runs : \/ runs'[v] = runs[v]
                           \/ runs'[v].at \notin {"flight", "reply", "ack"}
                           \/ /\ runs[v].at \in {"flight", "reply", "ack"}
                              /\ runs'[v].scope = runs[v].scope
                              /\ runs'[v].ids \subseteq runs[v].ids
    PROVE  RequestsOwn'
  BY DEF RequestsOwn

\* An event that does not take from the unbindings leaves none where none was.
LEMMA NoneLeft ==
    ASSUME TypeOK, NEW e \in Events, Spend(e), left["unbound"] = 0
    PROVE  left'["unbound"] = 0 /\ e # "unbound"
  BY DEF TypeOK, Spend, Events

\* What a step of the session leaves alone, unless it is refused.
LEMMA SessionFrame ==
    ASSUME \/ OpenSession \/ CloseSession \/ WriteJournal \/ WriteSettlement \/ ClearJournal
    PROVE  UNCHANGED <<binding, mark, archives, orphans, server, runs, drain, left, mem>>
  BY DEF OpenSession, CloseSession, WriteJournal, WriteSettlement, ClearJournal,
         books, facts, flags, waits

\* The scope an open book would be marked with is the one a change leaves.
LEMMA OldClaims ==
    ASSUME RunInv, SyncInv, change.at # "idle", Claimant # Nobody
    PROVE  Old = Claimant
  BY DEF RunInv, ChangeAlone, SyncInv, Steady, Claimant, Old

\* A session opens or closes: its fact is settled for the scope of the book.
LEMMA SessionOwners ==
    ASSUME ReplayAlone, OwnerInv,
           \/ OpenSession \/ CloseSession \/ WriteJournal \/ WriteSettlement
           \/ ClearJournal \/ SettlementRefused
    PROVE  SyncInv' /\ CloseInv' /\ FactInv' /\ RequestsOwn'
<1> USE DEF books, facts, flags, waits
<1>0. /\ BindInv /\ TypeOK /\ RunInv /\ CutInv /\ BookInv
      /\ SyncInv /\ CloseInv /\ FactInv /\ RequestsOwn
      /\ book \in Book /\ closing \in Closing
  BY DEF OwnerInv, BindInv, TypeOK
<1>1. ASSUME Closes
      PROVE  /\ closing'.at = "idle"
             /\ change'.at # "idle" => change.at # "idle" /\ change'.prior = change.prior
  BY <1>0, <1>1, AtRest DEF Closes, TypeOK, Change
<1>2. CASE OpenSession
  <2>1. UNCHANGED <<book, owner, closing, change>>
    BY <1>2 DEF OpenSession
  <2>2. SyncInv' /\ RequestsOwn'
    BY <1>0, <1>2, <2>1, SessionFrame, SyncsKept, RequestsKept
  <2>3. FactInv' /\ CloseInv'
    BY <1>0, <1>2, <2>1, SessionFrame, HomeKept
    DEF Working, CloseInv, ClosingOwn, WorkingHere, Claimant
  <2> QED  BY <2>2, <2>3
<1>3. CASE CloseSession
  <2>1. /\ UNCHANGED <<book, owner, change>> /\ closing.at = "idle"
        /\ closing'.at = "journal" /\ closing'.by = binding
    BY <1>3 DEF CloseSession
  <2>2. SyncInv' /\ RequestsOwn'
    BY <1>0, <1>3, <2>1, SessionFrame, SyncsKept, RequestsKept
  <2>3. FactInv'
    BY <1>0, <1>3, <2>1, SessionFrame, HomeKept DEF Working
  <2>4. CloseInv'
    <3>1. Claimant # Nobody => binding \in Own(Claimant)
      BY <1>0 DEF Claimant, Own, Strays, BookInv, MarkFollowsBinding, SyncInv, StaysBound
    <3>2. Claimant' = Claimant
      BY <1>3, SessionFrame DEF Claimant
    <3> QED  BY <1>0, <1>3, <2>1, <3>1, <3>2, SessionFrame DEF CloseInv, ClosingOwn, WorkingHere
  <2> QED  BY <2>2, <2>3, <2>4
<1>4. CASE WriteJournal
  <2> DEFINE new == closing.fact
  <2>1. /\ book' = [book EXCEPT !.journal = @ \cup {new}, !.used = TRUE]
        /\ owner' = [owner EXCEPT ![new] = closing.by] /\ closing.at = "journal"
        /\ closing' = [closing EXCEPT !.at = "settle"] /\ change' = change
    BY <1>4 DEF WriteJournal
  <2>2. /\ owner[new] = Unborn /\ new \in Facts /\ owner'[new] = closing.by
        /\ \A f \in Facts : f # new => owner'[f] = owner[f]
    BY <1>0, <2>1 DEF CutInv, SettlementFresh, Closing, TypeOK
  <2>3. /\ Home(book') = Home(book) \cup {new}
        /\ closing'.at = "settle" /\ closing'.fact = new
        /\ Working' = Working \cup {new} /\ closing.by # Unborn
    <3>1. closing'.at = "settle" /\ closing'.fact = new /\ closing.by # Unborn
      BY <1>0, <2>1, BindingAssumption DEF Closing, Bound, Nobody, Unborn
    <3>2. drain' = drain
      BY <1>4, SessionFrame
    <3> QED  BY <1>0, <2>1, <3>1, <3>2 DEF Home, Working, Book
  <2>4. \A f \in Facts : owner[f] # Unborn => owner'[f] = owner[f]
    BY <2>2
  <2>5. SyncInv'
    BY <1>0, <1>4, <2>1, SessionFrame, SyncsKept
  <2>6. CloseInv'
    <3>1. book'.facts = book.facts /\ drain' = drain /\ mark' = mark
      BY <1>0, <1>4, <2>1, SessionFrame DEF Book
    <3> QED  BY <1>0, <2>3, <3>1 DEF CloseInv, ClosingOwn, WorkingHere
  <2>7. UNCHANGED <<mark, archives, orphans, server, runs>>
    BY <1>4, SessionFrame
  <2>8. RequestsOwn'
    <3>1. ASSUME NEW u \in Runs, runs[u].at \in {"flight", "reply", "ack"},
                 NEW f \in runs[u].ids
          PROVE  owner'[f] \in Own(runs[u].scope)
      <4>1. f \in Facts /\ runs[u].scope \in Scopes
        BY <1>0, <3>1 DEF TypeOK, Run, RunInv, Requests, Bound
      <4>2. owner[f] \in Own(runs[u].scope)
        BY <1>0, <3>1 DEF RequestsOwn
      <4> QED  BY <2>4, <4>1, <4>2, OwnScopes
    <3> QED  BY <2>7, <3>1 DEF RequestsOwn
  <2>9. ServerOwn'
    <3>1. ASSUME NEW s \in Scopes, NEW f \in server[s]
          PROVE  owner'[f] \in Own(s)
      BY <1>0, <2>4, OwnScopes DEF FactInv, ServerOwn, TypeOK
    <3> QED  BY <2>7, <3>1 DEF ServerOwn
  <2>10. Home(book) \cup Working \subseteq Facts
    BY <1>0 DEF Home, Working, Book, TypeOK, Drain, Closing
  <2>11. BookOwn'
    <3> SUFFICES ASSUME mark # Nobody, NEW f \in Home(book) \cup Working \cup {new}
                 PROVE  owner'[f] \in Own(mark)
      BY <2>3, <2>7 DEF BookOwn
    <3>1. CASE f = new
      BY <1>0, <2>1, <2>2, <3>1 DEF CloseInv, ClosingOwn, Claimant
    <3>2. CASE f # new
      BY <1>0, <2>2, <2>10, <3>2 DEF FactInv, BookOwn
    <3> QED  BY <3>1, <3>2
  <2>12. BookBorn'
    BY <1>0, <2>2, <2>3, <2>10 DEF FactInv, BookBorn
  <2>13. OrphansApart'
    <3> SUFFICES ASSUME NEW b \in orphans, NEW f \in Home(b)
                 PROVE  /\ owner'[f] # Unborn /\ f \notin Home(book) \cup Working \cup {new}
                        /\ \A s \in Scopes : f \notin Home(archives[s])
      BY <2>3, <2>7 DEF OrphansApart
    <3>1. f \in Facts
      BY <1>0 DEF TypeOK, Book, Home
    <3> QED  BY <1>0, <2>2, <3>1 DEF FactInv, OrphansApart
  <2> QED  BY <2>5, <2>6, <2>8, <2>9, <2>11, <2>12, <2>13 DEF FactInv
<1>5. CASE WriteSettlement
  <2>1. /\ book' = [book EXCEPT !.facts = @ \cup {closing.fact}]
        /\ closing' = [closing EXCEPT !.at = "clear"] /\ closing.at = "settle"
        /\ UNCHANGED <<owner, change>>
    BY <1>5 DEF WriteSettlement
  <2>2. closing'.at = "clear" /\ closing'.fact = closing.fact
    BY <1>0, <2>1 DEF Closing
  <2>3. /\ Home(book') = Home(book) \cup {closing.fact} /\ Working' = Working
        /\ closing.fact \in Working
    BY <1>0, <1>5, <2>1, <2>2, SessionFrame DEF Home, Working, Book
  <2>4. SyncInv' /\ RequestsOwn' /\ FactInv'
    BY <1>0, <1>5, <2>1, <2>3, SessionFrame, SyncsKept, RequestsKept, HomeKept
  <2>5. CloseInv'
    <3>1. book'.facts = book.facts \cup {closing.fact} /\ drain' = drain /\ mark' = mark
      BY <1>0, <1>5, <2>1, SessionFrame DEF Book
    <3> QED  BY <1>0, <2>2, <2>3, <3>1 DEF CloseInv, ClosingOwn, WorkingHere
  <2> QED  BY <2>4, <2>5
<1>6. CASE ClearJournal
  <2>1. /\ book' = [book EXCEPT !.journal = @ \ {closing.fact}] /\ owner' = owner
        /\ closing'.at = "idle"
        /\ change'.at # "idle" => change.at # "idle" /\ change'.prior = change.prior
    BY <1>1, <1>6 DEF ClearJournal
  <2>2. Home(book') \subseteq Home(book) /\ Working' \subseteq Working
    BY <1>0, <1>6, <2>1, SessionFrame DEF Home, Working, Book
  <2>3. SyncInv' /\ RequestsOwn' /\ FactInv'
    BY <1>0, <1>6, <2>1, <2>2, SessionFrame, SyncsKept, RequestsKept, HomeKept
  <2>4. CloseInv'
    <3>1. /\ book'.facts = book.facts /\ Home(book) \ {closing.fact} \subseteq Home(book')
          /\ book.facts \subseteq Home(book') /\ drain' = drain /\ mark' = mark
          /\ closing.at = "clear"
      BY <1>0, <1>6, <2>1, SessionFrame DEF Book, Home, ClearJournal
    <3> QED  BY <1>0, <2>1, <3>1 DEF CloseInv, ClosingOwn, WorkingHere
  <2> QED  BY <2>3, <2>4
<1>7. CASE SettlementRefused
  <2>1. /\ UNCHANGED <<binding, mark, book, archives, orphans, owner, server, drain>>
        /\ Spend("refuse")
    BY <1>7 DEF SettlementRefused
  <2>2. left["unbound"] = 0 => left'["unbound"] = 0
    BY <1>0, <2>1, NoneLeft DEF Events
  <2>3. /\ closing'.at = "idle"
        /\ change'.at # "idle" => change.at # "idle" /\ change'.prior = change.prior
        /\ \A v \in Runs : runs'[v] = runs[v] \/ (runs'[v].at \in {"enter", "idle"}
                                                  /\ change.at # "idle")
    <3>1. CASE closing.at = "settle"
      BY <1>1, <1>7, <3>1 DEF SettlementRefused
    <3>2. CASE closing.at = "journal" /\ change.at = "closing"
      <4>1. EndChange(FALSE) /\ closing' = Closed /\ changes # <<>>
        BY <1>0, <1>7, <3>2 DEF SettlementRefused, TypeOK
      <4> QED  BY <1>0, <3>2, <4>1, EndChangeRuns, AtRest
    <3>3. CASE closing.at = "journal" /\ change.at # "closing"
      BY <1>7, <3>3, AtRest DEF SettlementRefused
    <3> QED  BY <1>7, <3>1, <3>2, <3>3 DEF SettlementRefused
  <2>4. SyncInv' /\ RequestsOwn'
    BY <1>0, <2>1, <2>2, <2>3, SyncsKept, RequestsKept DEF ReplayAlone
  <2>5. FactInv' /\ CloseInv'
    BY <1>0, <2>1, <2>3, HomeKept DEF Working, CloseInv, ClosingOwn, WorkingHere
  <2> QED  BY <2>4, <2>5
<1> QED  BY <1>2, <1>3, <1>4, <1>5, <1>6, <1>7
\* A replay enters what the journal holds already, retention takes facts.
LEMMA ReplayOwners ==
    ASSUME OwnerInv,
           \/ \E by \in Runs \cup {"boot"} : StartDrain(by)
           \/ ReplaySettlement \/ ReplayClear \/ Prune
    PROVE  SyncInv' /\ CloseInv' /\ FactInv' /\ RequestsOwn'
<1> USE DEF books, facts, flags, waits, clocks
<1>0. /\ BindInv /\ TypeOK /\ RunInv /\ BookInv
      /\ SyncInv /\ CloseInv /\ FactInv /\ RequestsOwn /\ book \in Book /\ drain \in Drain
  BY DEF OwnerInv, BindInv, TypeOK
<1>1. UNCHANGED <<binding, mark, archives, orphans, owner, server, runs, change, closing>>
  BY DEF StartDrain, ReplaySettlement, ReplayClear, Prune
<1>2. left["unbound"] = 0 => left'["unbound"] = 0
  BY <1>0, NoneLeft DEF StartDrain, ReplaySettlement, ReplayClear, Prune, Events
<1>3. RequestsOwn'
  BY <1>0, <1>1, RequestsKept
<1>5. ASSUME DrainInside' PROVE SyncInv'
  BY <1>0, <1>1, <1>2, <1>5 DEF SyncInv, PackMarked, Steady, StaysBound
<1>6. CASE \E by \in Runs \cup {"boot"} : StartDrain(by)
  <2>1. PICK by \in Runs \cup {"boot"} : StartDrain(by)
    BY <1>6
  <2>2. /\ book' = book /\ (by # "boot" => runs[by].at = "pack")
        /\ drain' = [ids |-> book.journal, cur |-> {}, by |-> by]
    BY <2>1 DEF StartDrain
  <2>3. SyncInv'
    BY <1>1, <1>5, <2>2 DEF DrainInside
  <2>4. FactInv'
    BY <1>0, <1>1, <2>2, HomeKept DEF Working, Home
  <2>5. CloseInv'
    BY <1>0, <1>1, <2>2 DEF CloseInv, ClosingOwn, WorkingHere, Claimant, Home
  <2> QED  BY <1>3, <2>3, <2>4, <2>5
<1>7. CASE ReplaySettlement
  <2>1. PICK f \in drain.ids : /\ book' = [book EXCEPT !.facts = @ \cup {f}, !.used = TRUE]
                               /\ drain' = [drain EXCEPT !.cur = {f}]
    BY <1>7 DEF ReplaySettlement
  <2>2. /\ drain'.ids = drain.ids /\ drain'.cur = {f} /\ drain'.by = drain.by
        /\ Home(book') = Home(book) \cup {f} /\ f \in Working
        /\ book'.facts = book.facts \cup {f}
    BY <1>0, <2>1 DEF Drain, Book, Home, Working
  <2>3. SyncInv'
    BY <1>0, <1>1, <1>5, <2>2 DEF SyncInv, DrainInside
  <2>4. FactInv'
    BY <1>0, <1>1, <2>2, HomeKept DEF Working
  <2>5. CloseInv'
    BY <1>0, <1>1, <2>2 DEF CloseInv, ClosingOwn, WorkingHere, Claimant
  <2> QED  BY <1>3, <2>3, <2>4, <2>5
<1>8. CASE ReplayClear
  <2>1. /\ book' = [book EXCEPT !.journal = @ \ drain.cur] /\ drain.cur # {}
        /\ drain' = IF drain.ids = drain.cur THEN NoDrain
                    ELSE [drain EXCEPT !.ids = @ \ drain.cur, !.cur = {}]
    BY <1>8 DEF ReplayClear
  <2>2. /\ drain'.ids \subseteq drain.ids /\ drain'.cur = {}
        /\ drain'.ids # {} => drain'.by = drain.by
    BY <1>0, <2>1 DEF Drain, NoDrain
  <2>3. /\ book'.facts = book.facts /\ book.facts \subseteq Home(book')
        /\ Home(book) \ drain.cur \subseteq Home(book')
    BY <1>0, <2>1 DEF Book, Home
  <2>4. SyncInv'
    BY <1>0, <1>1, <1>5, <2>2 DEF SyncInv, DrainInside
  <2>5. Home(book') \subseteq Home(book) /\ Working' \subseteq Working
    BY <1>0, <1>1, <2>1, <2>2 DEF Book, Home, Working
  <2>6. FactInv'
    BY <1>0, <1>1, <2>5, HomeKept
  <2>7. CloseInv'
    BY <1>0, <1>1, <2>2, <2>3 DEF CloseInv, ClosingOwn, WorkingHere, Claimant
  <2> QED  BY <1>3, <2>4, <2>6, <2>7
<1>9. CASE Prune
  <2>1. /\ book' = [book EXCEPT !.facts = @ \ book.sent, !.sent = {}]
        /\ book.sent # {} /\ drain' = drain
    BY <1>9 DEF Prune
  <2>2. mark # Nobody
    BY <1>0, <2>1 DEF BookInv, Unmarked
  <2>3. SyncInv'
    BY <1>0, <1>1, <1>5, <2>1 DEF SyncInv, DrainInside
  <2>4. Home(book') \subseteq Home(book) /\ Working' = Working
    BY <1>0, <1>1, <2>1 DEF Book, Home, Working
  <2>5. FactInv'
    BY <1>0, <1>1, <2>4, HomeKept
  <2>6. CloseInv'
    BY <1>0, <1>1, <2>2 DEF CloseInv, ClosingOwn, WorkingHere, Claimant
  <2> QED  BY <1>3, <2>3, <2>5, <2>6
<1> QED  BY <1>6, <1>7, <1>8, <1>9

\* A book that becomes marked holds facts of the mark and no others.
LEMMA ClaimedOwners ==
    ASSUME TypeOK, SyncInv, CloseInv, FactInv, NEW to \in Scopes, mark = Nobody,
           FactsMatch(book, to), mark' = to,
           UNCHANGED <<book, archives, orphans, owner, server, drain, closing>>
    PROVE  FactInv'
<1>1. Working \subseteq Home(book) /\ Working' = Working
  BY DEF CloseInv, WorkingHere, Working, Home
<1>2. BookOwn'
  BY <1>1 DEF BookOwn, FactsMatch, Home, Own
<1> QED
  BY <1>1, <1>2 DEF FactInv, BookBorn, ServerOwn, OrphansApart

\* A sync that goes on without touching a book.
LEMMA QuietOwners ==
    ASSUME OwnerInv, NEW u \in Runs,
           \/ StartSync(u) \/ Recover(u) \/ Enter(u) \/ Pack(u) \/ Reply(u) \/ WriteAck(u)
           \/ WriteClear(u) \/ Finally(u)
    PROVE  SyncInv' /\ CloseInv' /\ FactInv' /\ RequestsOwn'
<1> USE DEF books, facts, flags, waits, clocks
<1>0. /\ BindInv /\ TypeOK /\ RunInv /\ BookInv
      /\ SyncInv /\ CloseInv /\ FactInv /\ RequestsOwn /\ book \in Book
      /\ runs[u] \in Run /\ runs \in [Runs -> Run]
  BY DEF OwnerInv, BindInv, TypeOK
<1>1. /\ UNCHANGED <<mark, archives, orphans, owner, server, change, closing, drain>>
      /\ \A v \in Runs \ {u} : runs'[v] = runs[v]
  BY <1>0 DEF StartSync, Recover, Enter, Pack, Reply, WriteAck, WriteClear, Finally, TypeOK
<1>2. Home(book') = Home(book) /\ Working' = Working
  BY <1>0, <1>1 DEF StartSync, Recover, Enter, Pack, Reply, WriteAck, WriteClear, Finally,
     Book, Home, Working
<1>3. FactInv'
  BY <1>0, <1>1, <1>2, HomeKept
<1>4. binding' = binding \/ (binding' = Nobody /\ runs[u].at = "clear")
  <2>1. CASE WriteClear(u)
    BY <2>1 DEF WriteClear
  <2>2. CASE StartSync(u) \/ Recover(u) \/ Enter(u) \/ Pack(u)
    BY <2>2 DEF StartSync, Recover, Enter, Pack
  <2>3. CASE Reply(u) \/ WriteAck(u) \/ Finally(u)
    BY <2>3 DEF Reply, WriteAck, Finally
  <2> QED  BY <2>1, <2>2, <2>3
<1>5. CloseInv'
  <2>1. book'.facts = book.facts
    BY <1>0 DEF StartSync, Recover, Enter, Pack, Reply, WriteAck, WriteClear, Finally, Book
  <2> QED  BY <1>0, <1>1, <1>2, <1>4, <2>1 DEF CloseInv, ClosingOwn, WorkingHere, Claimant
<1>10. /\ StartSync(u) \/ Finally(u) => runs'[u].at \in {"recover", "enter", "idle"}
       /\ Enter(u) => runs'[u].at \in {"check", "idle"}
       /\ Pack(u) => runs'[u].at \in {"finally", "flight"}
       /\ WriteAck(u) => runs'[u].at = "finally"
       /\ WriteClear(u) => runs'[u].at \in {"enter", "idle", "finally"}
       /\ Recover(u) => runs'[u].at \in {"await", "clear", "enter", "idle"}
       /\ Reply(u) => runs'[u].at \in {"finally", "ack", "clear"}
  <2>1. StartSync(u) \/ Finally(u) => runs'[u].at \in {"recover", "enter", "idle"}
    BY <1>0, AtRest DEF StartSync, Finally, Hydrated, Run
  <2>2. Enter(u) => runs'[u].at \in {"check", "idle"}
    BY <1>0, AtRest DEF Enter, Run
  <2>3. Pack(u) => runs'[u].at \in {"finally", "flight"}
    BY <1>0 DEF Pack, Run
  <2>4. WriteAck(u) => runs'[u].at = "finally"
    BY <1>0 DEF WriteAck, Run
  <2>5. WriteClear(u) => runs'[u].at \in {"enter", "idle", "finally"}
    BY <1>0, AtRest DEF WriteClear, AfterRecovery, Run
  <2>6. Recover(u) => runs'[u].at \in {"await", "clear", "enter", "idle"}
    BY <1>0, AtRest DEF Recover, AfterRecovery, Run
  <2>7. Reply(u) => runs'[u].at \in {"finally", "ack", "clear"}
    BY <1>0 DEF Reply, Run
  <2> QED  BY <2>1, <2>2, <2>3, <2>4, <2>5, <2>6, <2>7
<1>6. runs'[u].at # "pack" /\ ~(drain.ids # {} /\ drain.by = u)
  <2>1. runs'[u].at # "pack"
    BY <1>10
  <2>2. CASE Pack(u)
    BY <2>1, <2>2 DEF Pack
  <2>3. CASE \/ StartSync(u) \/ Recover(u) \/ Enter(u) \/ Reply(u) \/ WriteAck(u)
             \/ WriteClear(u) \/ Finally(u)
    <3>1. runs[u].at # "pack"
      BY <2>3 DEF StartSync, Recover, Enter, Reply, WriteAck, WriteClear, Finally
    <3> QED  BY <1>0, <2>1, <3>1, BindingAssumption DEF SyncInv, DrainInside
  <2> QED  BY <2>2, <2>3
<1>7. /\ runs'[u].at = "clear" /\ Budget["unbound"] = 0 => left["unbound"] # 0
      /\ left["unbound"] = 0 => left'["unbound"] = 0
  <2>1. CASE Recover(u) \/ Reply(u)
    <3>1. CASE Spend("unbound")
      BY <1>0, <3>1, NoneLeft DEF Events
    <3>2. CASE ~Spend("unbound")
      <4>1. left' = left \/ Spend("change")
        BY <2>1, <3>2 DEF Recover, Reply
      <4>2. runs'[u].at # "clear"
        BY <1>0, <2>1, <3>2, AtRest DEF Recover, Reply, AfterRecovery, Run
      <4> QED  BY <1>0, <4>1, <4>2, NoneLeft DEF Events
    <3> QED  BY <3>1, <3>2
  <2>2. CASE \/ StartSync(u) \/ Enter(u) \/ Pack(u) \/ WriteAck(u) \/ WriteClear(u) \/ Finally(u)
    <3>1. left' = left
      BY <2>2 DEF StartSync, Enter, Pack, WriteAck, WriteClear, Finally
    <3> QED  BY <1>10, <2>2, <3>1
  <2> QED  BY <2>1, <2>2
<1>8. SyncInv'
  <2>1. DrainInside' /\ PackMarked' /\ Steady'
    BY <1>0, <1>1, <1>4, <1>6 DEF SyncInv, DrainInside, PackMarked, Steady
  <2>2. StaysBound'
    BY <1>0, <1>1, <1>4, <1>7 DEF SyncInv, StaysBound
  <2> QED  BY <2>1, <2>2 DEF SyncInv
<1>9. RequestsOwn'
  <2>1. CASE Pack(u) /\ runs'[u].at = "flight"
    <3>1. /\ InScope /\ runs'[u].scope = mem /\ runs'[u].ids = book.facts \ book.sent
      BY <1>0, <2>1 DEF Pack, Run
    <3>2. \A f \in runs'[u].ids : owner[f] \in Own(runs'[u].scope)
      BY <1>0, <3>1 DEF InScope, FactInv, BookOwn, Home
    <3> QED  BY <1>0, <1>1, <3>2 DEF RequestsOwn
  <2>2. CASE Reply(u) /\ runs'[u].at = "ack"
    <3>1. /\ runs[u].at = "reply" /\ runs'[u].scope = runs[u].scope
          /\ runs'[u].ids = runs[u].ids
      BY <1>0, <2>2 DEF Reply, Run
    <3> QED  BY <1>0, <1>1, <3>1, RequestsKept
  <2>3. CASE runs'[u].at \notin {"flight", "reply", "ack"}
    BY <1>0, <1>1, <2>3, RequestsKept
  <2>4. \/ Pack(u) /\ runs'[u].at = "flight"
        \/ Reply(u) /\ runs'[u].at = "ack"
        \/ runs'[u].at \notin {"flight", "reply", "ack"}
    BY <1>10
  <2> QED  BY <2>1, <2>2, <2>3, <2>4
<1> QED  BY <1>3, <1>5, <1>8, <1>9

\* A sync marks a book of its own scope only, and sends what that book holds.
LEMMA RunningOwners ==
    ASSUME OwnerInv, NEW u \in Runs, StartSync(u) \/ Running(u)
    PROVE  SyncInv' /\ CloseInv' /\ FactInv' /\ RequestsOwn'
<1> USE DEF books, facts, flags, waits, clocks
<1>0. /\ BindInv /\ TypeOK /\ RunInv /\ BookInv
      /\ SyncInv /\ CloseInv /\ FactInv /\ RequestsOwn
      /\ runs[u] \in Run /\ runs \in [Runs -> Run]
  BY DEF OwnerInv, BindInv, TypeOK
<1>1. CASE CheckScope(u)
  <2>1. /\ UNCHANGED <<binding, book, archives, orphans, owner, server, change, closing,
                       drain, left>>
        /\ runs[u].at = "check"
        /\ \/ mark' = mark
           \/ mark = Nobody /\ mark' = binding /\ binding # Nobody /\ FactsMatch(book, binding)
        /\ \A v \in Runs \ {u} : runs'[v] = runs[v]
    BY <1>0, <1>1 DEF CheckScope, Claims
  <2>2. /\ runs'[u].at \in {"idle", "pack"}
        /\ runs'[u].at = "pack" => mark' # Nobody
    BY <1>0, <1>1, AtRest DEF CheckScope, Run
  <2>4. SyncInv'
    <3>1. DrainInside' /\ PackMarked' /\ Steady'
      BY <1>0, <2>1, <2>2 DEF SyncInv, DrainInside, PackMarked, Steady
    <3>2. StaysBound'
      BY <1>0, <2>1, <2>2 DEF SyncInv, StaysBound
    <3> QED  BY <3>1, <3>2 DEF SyncInv
  <2>5. RequestsOwn'
    BY <1>0, <2>1, <2>2, RequestsKept
  <2>6. CloseInv'
    BY <1>0, <2>1 DEF CloseInv, ClosingOwn, WorkingHere, Claimant
  <2>7. FactInv'
    <3>1. CASE mark' = mark
      BY <1>0, <2>1, <3>1, HomeKept DEF Working
    <3>2. CASE mark' # mark
      <4>1. binding \in Scopes
        BY <1>0, <2>1, <3>2 DEF TypeOK, Bound
      <4> QED  BY <1>0, <2>1, <3>2, <4>1, ClaimedOwners
    <3> QED  BY <3>1, <3>2
  <2> QED  BY <2>4, <2>5, <2>6, <2>7
<1>2. CASE Deliver(u)
  <2>1. /\ UNCHANGED <<binding, mark, book, archives, orphans, owner, change, closing, drain>>
        /\ runs[u].at = "flight" /\ \A v \in Runs \ {u} : runs'[v] = runs[v]
    BY <1>0, <1>2 DEF Deliver
  <2>2. left["unbound"] = 0 => left'["unbound"] = 0
    BY <1>0, <1>2, NoneLeft DEF Deliver, Events
  <2>3. \/ runs'[u].at = "finally"
        \/ runs'[u].at = "reply" /\ runs'[u].scope = runs[u].scope
           /\ runs'[u].ids \subseteq runs[u].ids
    BY <1>0, <1>2 DEF Deliver, Accepted, Run
  <2>4. SyncInv' /\ RequestsOwn'
    BY <1>0, <2>1, <2>2, <2>3, BindingAssumption, SyncsKept, RequestsKept
    DEF SyncInv, DrainInside
  <2>5. CloseInv'
    BY <1>0, <2>1 DEF CloseInv, ClosingOwn, WorkingHere, Claimant
  <2>6. ServerOwn'
    <3>1. ASSUME NEW s \in Scopes, NEW f \in server'[s]
          PROVE  owner[f] \in Own(s)
      <4>1. f \in server[s] \/ (s = runs[u].scope /\ f \in runs[u].ids)
        BY <1>0, <1>2 DEF Deliver, Accepted, TypeOK
      <4> QED  BY <1>0, <2>1, <4>1 DEF FactInv, ServerOwn, RequestsOwn
    <3> QED  BY <2>1, <3>1 DEF ServerOwn
  <2>7. BookOwn' /\ BookBorn' /\ OrphansApart'
    <3>1. Working' = Working
      BY <2>1 DEF Working
    <3> QED  BY <1>0, <2>1, <3>1 DEF FactInv, BookOwn, BookBorn, OrphansApart
  <2> QED  BY <2>4, <2>5, <2>6, <2>7 DEF FactInv
<1>3. CASE ~CheckScope(u) /\ ~Deliver(u)
  BY <1>3, QuietOwners DEF Running
<1> QED  BY <1>1, <1>2, <1>3
\* No fact of the active book, and none in hand for it, is in an archive.
LEMMA BookApart ==
    ASSUME TypeOK, BookInv, FactInv, NEW s \in Scopes
    PROVE  (Home(book) \cup Working) \cap Home(archives[s]) = {}
<1> SUFFICES ASSUME NEW f \in Home(book) \cup Working, f \in Home(archives[s]) PROVE FALSE
  OBVIOUS
<1>1. owner[f] = s
  BY DEF BookInv, ArchivesAreOwn, Home
<1>2. archives[s] # Blank
  BY AtRest DEF Home
<1>3. mark # Nobody /\ mark # s /\ mark \in Scopes
  BY <1>2 DEF BookInv, Unmarked, ActiveHasNoArchive, TypeOK, Bound
<1>4. s \in Own(mark)
  BY <1>1, <1>3 DEF FactInv, BookOwn
<1> QED  BY <1>3, <1>4, OwnScopes

\* A switch takes back the book of the new scope and puts away the other.
LEMMA SwitchedOwners ==
    ASSUME TypeOK, RunInv, BookInv, SyncInv, FactInv,
           NEW to \in Scopes, Head(changes).to = to, Switching, Switched,
           closing.at = "idle", drain.ids = {}, mark' = to,
           UNCHANGED <<owner, server, closing, drain>>
    PROVE  FactInv'
<1>1. Old # to /\ to # Nobody /\ Working' = {}
  BY BindingAssumption DEF Switching, Working
<1>2. /\ book' = archives[to] /\ archives'[to] = Blank
      /\ \A s \in Scopes \ {to} :
            archives'[s] = IF s = Old /\ book.used /\ Known THEN book ELSE archives[s]
      /\ orphans' = IF book.used /\ ~Known THEN orphans \cup {book} ELSE orphans
  BY <1>1, WhereBooksGo DEF Switched
<1>3. \A f \in Home(book') : owner[f] = to
  BY <1>2 DEF BookInv, ArchivesAreOwn, Home
<1>4. BookOwn' /\ BookBorn' /\ ServerOwn'
  BY <1>1, <1>3, BindingAssumption DEF BookOwn, BookBorn, FactInv, ServerOwn, Own
<1>5. OrphansApart'
  <2> SUFFICES ASSUME NEW b \in orphans', NEW f \in Home(b)
               PROVE  /\ owner[f] # Unborn /\ f \notin Home(book')
                      /\ \A s \in Scopes : f \notin Home(archives'[s])
    BY <1>1 DEF OrphansApart
  <2>1. CASE b \in orphans
    <3>1. /\ owner[f] # Unborn /\ f \notin Home(book)
          /\ \A s \in Scopes : f \notin Home(archives[s])
      BY <2>1 DEF FactInv, OrphansApart
    <3> QED  BY <1>2, <3>1, AtRest DEF Home
  <2>2. CASE b = book /\ ~Known
    <3>1. owner[f] # Unborn
      BY <2>2 DEF FactInv, BookBorn
    <3>2. \A s \in Scopes : f \notin Home(archives[s])
      BY <2>2, BookApart
    <3> QED  BY <1>2, <2>2, <3>1, <3>2, AtRest DEF Home
  <2> QED  BY <1>2, <2>1, <2>2
<1> QED  BY <1>4, <1>5 DEF FactInv

\* A change and who asks for it: books change hands whole, or stay.
LEMMA ChangingOwners ==
    ASSUME ReplayAlone, OwnerInv,
           \/ \E s \in Scopes : UserBinds(s)
           \/ UserAdopts \/ Changing \/ Crash
    PROVE  SyncInv' /\ CloseInv' /\ FactInv' /\ RequestsOwn'
<1> USE DEF books, facts, flags, waits, clocks
<1>0. /\ BindInv /\ TypeOK /\ RunInv /\ CutInv /\ BookInv
      /\ SyncInv /\ CloseInv /\ FactInv /\ RequestsOwn
      /\ change \in Change /\ runs \in [Runs -> Run]
  BY DEF OwnerInv, BindInv, TypeOK
<1>1. ASSUME UNCHANGED <<binding, mark, book, archives, orphans, owner, server>>,
             closing'.at # "journal" \/ closing' = closing,
             closing'.at \in {"settle", "clear"} => closing' = closing,
             drain' = drain \/ (drain'.ids = {} /\ drain'.cur = {})
      PROVE  FactInv' /\ CloseInv'
  <2>1. Working' \subseteq Working
    BY <1>1 DEF Working
  <2>2. FactInv'
    BY <1>0, <1>1, <2>1, HomeKept
  <2>3. CloseInv'
    BY <1>0, <1>1 DEF CloseInv, ClosingOwn, WorkingHere, Claimant
  <2> QED  BY <2>2, <2>3
<1>2. CASE (\E s \in Scopes : UserBinds(s)) \/ UserAdopts
  <2>1. /\ UNCHANGED <<binding, mark, book, archives, orphans, owner, server>>
        /\ UNCHANGED <<runs, change, closing, drain>>
    BY <1>2 DEF UserBinds, UserAdopts
  <2>2. left' = left \/ Spend("change")
    BY <1>2 DEF UserBinds, UserAdopts
  <2>3. left["unbound"] = 0 => left'["unbound"] = 0
    BY <1>0, <2>2, NoneLeft DEF Events
  <2> QED  BY <1>0, <1>1, <2>1, <2>3, SyncsKept, RequestsKept
<1>3. CASE ChangeBegins
  <2>1. /\ UNCHANGED <<binding, mark, book, archives, orphans, owner, server>>
        /\ UNCHANGED <<runs, closing, drain, left>> /\ change'.prior = binding
    BY <1>3 DEF ChangeBegins
  <2>2. SyncInv'
    BY <1>0, <2>1 DEF SyncInv, DrainInside, PackMarked, Steady, StaysBound
  <2> QED  BY <1>0, <1>1, <2>1, <2>2, RequestsKept
<1>4. CASE ChangeBoundary
  <2>1. /\ UNCHANGED <<binding, mark, book, archives, orphans, owner, server>>
        /\ UNCHANGED <<runs, drain, left>>
        /\ change.at = "boundary" /\ closing.at = "idle"
    BY <1>4 DEF ChangeBoundary
  <2>2. change'.prior = change.prior
    BY <1>0, <1>4 DEF ChangeBoundary, Change
  <2>3. \/ closing' = closing
        \/ closing'.at = "journal" /\ closing'.by = Old
    BY <1>4 DEF ChangeBoundary
  <2>4. SyncInv' /\ RequestsOwn'
    BY <1>0, <2>1, <2>2, SyncsKept, RequestsKept
  <2>5. FactInv'
    BY <1>0, <2>1, <2>3, HomeKept DEF Working
  <2>6. CloseInv'
    <3>1. Claimant' = Claimant /\ (Claimant # Nobody => Old = Claimant)
      BY <1>0, <2>1, OldClaims DEF Claimant
    <3> QED  BY <1>0, <2>1, <2>3, <3>1 DEF CloseInv, ClosingOwn, WorkingHere, Own
  <2> QED  BY <2>4, <2>5, <2>6
<1>5. CASE Commit
  <2> DEFINE to == Head(changes).to
  <2>1. /\ changes # <<>> /\ to \in Scopes /\ change.mark = mark /\ NoReader
        /\ binding' = to /\ mark' = to /\ EndChange(TRUE) /\ ~Refuses
        /\ UNCHANGED <<owner, server, closing, drain, left>>
        /\ change.at = "commit" /\ drain.ids = {}
    BY <1>0, <1>5, QueueOfChanges
    DEF Commit, TypeOK, Asked, RunInv, ChangeAlone, ReplayAlone
  <2>2. /\ change'.at = "idle"
        /\ \A v \in Runs : runs'[v] = runs[v] \/ runs'[v].at \in {"enter", "idle"}
    BY <1>0, <2>1, EndChangeRuns, AtRest
  <2>3. to # Nobody /\ Claimant' = to
    BY <2>1, BindingAssumption DEF Claimant
  <2>4. SyncInv'
    <3>1. DrainInside' /\ PackMarked' /\ Steady'
      BY <1>0, <2>1, <2>2, <2>3 DEF SyncInv, DrainInside, PackMarked, Steady
    <3>2. StaysBound'
      BY <1>0, <2>1, <2>2 DEF SyncInv, StaysBound
    <3> QED  BY <3>1, <3>2 DEF SyncInv
  <2>5. RequestsOwn'
    BY <1>0, <2>1, <2>2, RequestsKept
  <2>6. CASE Switching
    <3>1. Switched /\ closing.at = "idle"
      BY <1>0, <1>5, <2>1, <2>6 DEF Commit, CutInv, CutClosed
    <3>2. FactInv'
      BY <1>0, <2>1, <2>6, <3>1, SwitchedOwners
    <3>3. CloseInv'
      BY <2>1, <2>3, <3>1 DEF CloseInv, ClosingOwn, WorkingHere
    <3> QED  BY <2>4, <2>5, <3>2, <3>3
  <2>7. CASE ~Switching
    <3>1. UNCHANGED <<book, archives, orphans>> /\ Old = to /\ change.prior = binding
      BY <1>5, <2>1, <2>7 DEF Commit, Switching, Refuses
    <3>2. CASE mark = Nobody
      <4>1. binding = to /\ FactsMatch(book, to)
        BY <2>1, <2>7, <3>1, <3>2 DEF Old, Refuses, Unattributed
      <4>2. FactInv'
        BY <1>0, <2>1, <3>1, <3>2, <4>1, ClaimedOwners
      <4>3. CloseInv'
        BY <1>0, <2>1, <2>3, <3>2, <4>1 DEF CloseInv, ClosingOwn, WorkingHere, Claimant
      <4> QED  BY <2>4, <2>5, <4>2, <4>3
    <3>3. CASE mark # Nobody
      <4>1. mark = to
        BY <2>1, <3>1, <3>3 DEF Old
      <4>2. FactInv'
        BY <1>0, <2>1, <3>1, <4>1, HomeKept DEF Working
      <4>3. CloseInv'
        BY <1>0, <2>1, <2>3, <4>1 DEF CloseInv, ClosingOwn, WorkingHere, Claimant
      <4> QED  BY <2>4, <2>5, <4>2, <4>3
    <3> QED  BY <3>2, <3>3
  <2> QED  BY <2>6, <2>7
<1>6. CASE ChangeFails
  <2>1. /\ UNCHANGED <<binding, mark, book, archives, orphans, owner, server>>
        /\ UNCHANGED <<closing, drain>> /\ changes # <<>> /\ EndChange(FALSE)
        /\ change.at = "commit"
    BY <1>0, <1>6 DEF ChangeFails, TypeOK
  <2>2. left' = left \/ Spend("refuse")
    BY <1>6 DEF ChangeFails
  <2>3. left["unbound"] = 0 => left'["unbound"] = 0
    BY <1>0, <2>2, NoneLeft DEF Events
  <2>4. /\ change'.at = "idle"
        /\ \A v \in Runs : runs'[v] = runs[v] \/ runs'[v].at \in {"enter", "idle"}
    BY <1>0, <2>1, EndChangeRuns, AtRest
  <2>5. drain.ids = {}
    BY <2>1 DEF ReplayAlone
  <2>6. SyncInv' /\ RequestsOwn'
    BY <1>0, <2>1, <2>3, <2>4, <2>5, SyncsKept, RequestsKept
  <2> QED  BY <1>1, <2>1, <2>6
<1>7. CASE Crash
  <2>1. /\ UNCHANGED <<binding, mark, book, archives, orphans, owner, server>>
        /\ runs' = [u \in Runs |-> Rest] /\ change'.at = "idle" /\ closing'.at = "idle"
        /\ drain'.ids = {} /\ drain'.cur = {} /\ Spend("crash")
    BY <1>7, AtRest DEF Crash, NoDrain
  <2>2. left["unbound"] = 0 => left'["unbound"] = 0
    BY <1>0, <2>1, NoneLeft DEF Events
  <2>3. SyncInv'
    BY <1>0, <2>1, <2>2, AtRest DEF SyncInv, DrainInside, PackMarked, Steady, StaysBound
  <2>4. RequestsOwn'
    BY <2>1, AtRest DEF RequestsOwn
  <2> QED  BY <1>1, <2>1, <2>3, <2>4
<1> QED  BY <1>2, <1>3, <1>4, <1>5, <1>6, <1>7 DEF Changing

\* Every step keeps whose facts the books and the Worker hold.
LEMMA OwnerNext ==
    ASSUME ReplayAlone, OwnerInv, [Next]_vars
    PROVE  OwnerInv'
<1>1. BindInv'
  BY BindNext DEF OwnerInv
<1>2. SyncInv' /\ CloseInv' /\ FactInv' /\ RequestsOwn'
  <2>1. CASE \/ OpenSession \/ CloseSession \/ Settling \/ SettlementRefused
    BY <2>1, SessionOwners DEF Settling
  <2>2. CASE (\E by \in Runs \cup {"boot"} : StartDrain(by)) \/ Replaying \/ Prune
    BY <2>2, ReplayOwners DEF Replaying
  <2>3. CASE \E u \in Runs : StartSync(u) \/ Running(u)
    BY <2>3, RunningOwners
  <2>4. CASE (\E s \in Scopes : UserBinds(s)) \/ UserAdopts \/ Changing \/ Crash
    BY <2>4, ChangingOwners
  <2>5. CASE UNCHANGED vars
    <3>1. UNCHANGED <<binding, mark, book, archives, orphans, owner, server, runs, change,
                      closing, drain, left>>
      BY <2>5 DEF vars
    <3>2. SyncInv /\ CloseInv /\ FactInv /\ RequestsOwn
      BY DEF OwnerInv
    <3>3. SyncInv' /\ FactInv' /\ RequestsOwn'
      BY <3>1, <3>2, SyncsKept, RequestsKept, HomeKept DEF Working
    <3>4. CloseInv'
      BY <3>1, <3>2 DEF CloseInv, ClosingOwn, WorkingHere, Claimant
    <3> QED  BY <3>3, <3>4
  <2> QED  BY <2>1, <2>2, <2>3, <2>4, <2>5 DEF Next
<1> QED  BY <1>1, <1>2 DEF OwnerInv

\* A worker that replays in its syncs only is never at it during a change: the
\* change waits for the sync.
NoBoot == drain.ids # {} => drain.by # "boot"

LEMMA NoBootNext ==
    ASSUME ~BootDrain, NoBoot, TypeOK, SyncInv, [Next]_vars
    PROVE  NoBoot'
<1> USE DEF books, facts, flags, waits, clocks
<1>1. CASE \E by \in Runs \cup {"boot"} : StartDrain(by)
  BY <1>1 DEF StartDrain, NoBoot
<1>2. CASE ReplaySettlement \/ ReplayClear
  <2>1. drain \in Drain
    BY DEF TypeOK
  <2>2. drain'.by = drain.by \/ drain'.ids = {}
    <3>1. ReplaySettlement => drain'.by = drain.by
      BY <2>1 DEF ReplaySettlement, Drain
    <3>2. ReplayClear => drain'.by = drain.by \/ drain'.ids = {}
      BY <2>1 DEF ReplayClear, Drain, NoDrain
    <3> QED  BY <1>2, <3>1, <3>2
  <2>3. drain.ids # {}
    BY <1>2 DEF ReplaySettlement, ReplayClear, SyncInv, DrainInside
  <2> QED  BY <2>2, <2>3 DEF NoBoot
<1>3. CASE Crash
  BY <1>3 DEF Crash, NoDrain, NoBoot
<1>4. CASE UNCHANGED drain
  BY <1>4 DEF NoBoot
<1>5. CASE \/ OpenSession \/ CloseSession \/ Settling \/ SettlementRefused
  BY <1>4, <1>5, SessionFrame DEF Settling, SettlementRefused
<1>6. CASE Prune \/ UserAdopts \/ (\E s \in Scopes : UserBinds(s)) \/ UNCHANGED vars
  BY <1>4, <1>6 DEF Prune, UserAdopts, UserBinds, vars
<1>7. CASE Changing
  BY <1>4, <1>7 DEF Changing, ChangeBegins, ChangeBoundary, Commit, ChangeFails
<1>8. CASE \E u \in Runs : StartSync(u) \/ Running(u)
  <2>1. PICK u \in Runs : StartSync(u) \/ Running(u)
    BY <1>8
  <2>2. CASE StartSync(u) \/ Recover(u) \/ Enter(u) \/ CheckScope(u) \/ Pack(u)
    BY <1>4, <2>2 DEF StartSync, Recover, Enter, CheckScope, Pack
  <2>3. CASE Deliver(u) \/ Reply(u) \/ WriteAck(u) \/ WriteClear(u) \/ Finally(u)
    BY <1>4, <2>3 DEF Deliver, Reply, WriteAck, WriteClear, Finally
  <2> QED  BY <2>1, <2>2, <2>3 DEF Running
<1> QED  BY <1>1, <1>2, <1>3, <1>5, <1>6, <1>7, <1>8 DEF Next, Replaying

\* The invariant holds in every state, if a replay at the start of the worker,
\* where there is one, meets no change.
LEMMA OwnerInvariant == Spec /\ (BootDrain => []ReplayAlone) => []OwnerInv
<1>1. Init => OwnerInv
  BY OwnerInit
<1>2. CASE BootDrain
  <2>1. ReplayAlone /\ OwnerInv /\ [Next]_vars => OwnerInv'
    BY OwnerNext
  <2>2. Spec /\ []ReplayAlone => []OwnerInv
    BY <1>1, <2>1, PTL DEF Spec
  <2> QED  BY <1>2, <2>2
<1>3. CASE ~BootDrain
  <2>1. Init => NoBoot
    BY DEF Init, NoBoot, NoDrain
  <2>2. OwnerInv /\ NoBoot => ReplayAlone
    BY DEF OwnerInv, BindInv, RunInv, Readers, ChangeAlone, NoReader, TypeOK, Drain,
       SyncInv, DrainInside, NoBoot, ReplayAlone
  <2>3. OwnerInv /\ NoBoot /\ [Next]_vars => OwnerInv' /\ NoBoot'
    BY <1>3, <2>2, OwnerNext, NoBootNext DEF OwnerInv, BindInv
  <2>4. Spec => []OwnerInv
    BY <1>1, <2>1, <2>3, PTL DEF Spec
  <2> QED  BY <2>4
<1> QED  BY <1>2, <1>3

\* Whatever the Worker answers, it never stores one child's fact under another:
\* a request takes the facts of the marked book, and change() lets no book
\* change hands while a settlement or a replay writes into it.
THEOREM ForeignFactsStayOut ==
    Spec /\ (BootDrain => []ReplayAlone) => []NoForeignFacts
<1>1. OwnerInv => NoForeignFacts
  BY OwnScopes DEF OwnerInv, FactInv, ServerOwn, NoForeignFacts
<1> QED  BY <1>1, OwnerInvariant, PTL

\* While the Worker never reports the device unbound, what it stores under a
\* scope was settled under it.
THEOREM FactsAreOwn ==
    ASSUME Budget["unbound"] = 0
    PROVE  Spec /\ (BootDrain => []ReplayAlone) => []OwnFactsOnly
<1>1. OwnerInv => OwnFactsOnly
  BY OwnScopes DEF OwnerInv, FactInv, ServerOwn, OwnFactsOnly
<1> QED  BY <1>1, OwnerInvariant, PTL

\* No settled fact is in two books: the book a switch restores and the one it
\* puts away have none in common, nor has a book that nobody owns.
THEOREM EveryFactOneBook == Spec /\ (BootDrain => []ReplayAlone) => []OneBook
<1>1. OwnerInv => OneBook
  <2> SUFFICES ASSUME OwnerInv PROVE OneBook
    OBVIOUS
  <2>1. TypeOK /\ BookInv /\ FactInv
    BY DEF OwnerInv, BindInv
  <2>2. \A s \in Scopes : book.facts \cap archives[s].facts = {}
    BY <2>1, BookApart DEF Home
  <2>3. \A s, t \in Scopes : s # t => archives[s].facts \cap archives[t].facts = {}
    BY <2>1 DEF BookInv, ArchivesAreOwn
  <2>4. \A b \in orphans : \A s \in Scopes :
           b.facts \cap (book.facts \cup archives[s].facts) = {}
    BY <2>1 DEF FactInv, OrphansApart, Home
  <2> QED  BY <2>2, <2>3, <2>4 DEF OneBook
<1> QED  BY <1>1, OwnerInvariant, PTL

\* While the Worker never reports the device unbound, a change to the scope
\* whose book is active is refused by a failed write only, never because the
\* facts of the book could not be attributed.
THEOREM SameScopeGoesOn ==
    ASSUME Budget["unbound"] = 0
    PROVE  Spec /\ (BootDrain => []ReplayAlone) => SameScopeContinues
<1> DEFINE Kept == ~(ChangeFails /\ Head(changes).to = mark /\ change.prior = binding
                       /\ left' = left)
<1>1. OwnerInv /\ [Next]_vars => [Kept]_vars
  <2> SUFFICES ASSUME OwnerInv, ChangeFails, Head(changes).to = mark,
                      change.prior = binding, left' = left
               PROVE  FALSE
    OBVIOUS
  <2>1. /\ TypeOK /\ RunInv /\ FactInv /\ change.at = "commit" /\ changes # <<>>
    BY DEF OwnerInv, BindInv, ChangeFails, TypeOK
  <2>2. mark \in Scopes /\ mark # Nobody /\ change.mark = mark
    BY <2>1, QueueOfChanges, BindingAssumption DEF TypeOK, Asked, RunInv, ChangeAlone
  <2>3. Refuses
    BY <2>1 DEF ChangeFails, Spend, TypeOK, Events
  <2>4. ~FactsMatch(book, mark)
    BY <2>2, <2>3 DEF Refuses, Unattributed
  <2>5. FactsMatch(book, mark)
    BY <2>1, <2>2, OwnScopes DEF FactInv, BookOwn, FactsMatch, Home
  <2> QED  BY <2>4, <2>5
<1> QED  BY <1>1, OwnerInvariant, PTL DEF Spec, SameScopeContinues

(***************************************************************************)
(* A book for every scope: LedgerBinding implements ScopedBooks where the  *)
(* Worker never unbinds the device and no replay overlaps a change.  Seen  *)
(* from the scopes a switch changes nothing, because the book it puts away *)
(* can be attributed (BookOwn), goes to a free place (ActiveHasNoArchive), *)
(* and the one it restores was that scope's.  What a request carries is    *)
(* still in the book, or the Worker has it (InFlight).                     *)
(***************************************************************************)
InFlight ==
    \A u \in Runs : runs[u].at = "flight" =>
        runs[u].ids \subseteq book.facts \cup server[runs[u].scope]

\* A step that packs nothing and takes from the book what the Worker has.
LEMMA FlightKept ==
    ASSUME TypeOK, RunInv, InFlight,
           \A v \in Runs : runs'[v] = runs[v] \/ runs'[v].at # "flight",
           mark # Nobody => book.facts \ book'.facts \subseteq server[mark],
           \A s \in Scopes : server[s] \subseteq server'[s]
    PROVE  InFlight'
<1> SUFFICES ASSUME NEW u \in Runs, runs'[u].at = "flight"
             PROVE  runs'[u].ids \subseteq book'.facts \cup server'[runs'[u].scope]
  BY DEF InFlight
<1>1. runs'[u] = runs[u] /\ runs[u].scope = mark /\ mark # Nobody /\ mark \in Scopes
  BY DEF RunInv, Requests, TypeOK, Bound
<1>2. runs[u].ids \subseteq book.facts \cup server[mark]
  BY <1>1 DEF InFlight
<1> QED  BY <1>1, <1>2

\* A step that takes no fact out of the book and moves no sync.
LEMMA FlightStays ==
    ASSUME TypeOK, RunInv, InFlight, runs' = runs, book.facts \subseteq book'.facts,
           server' = server
    PROVE  InFlight'
  BY FlightKept

\* No step takes a fact from the book that a request carries and the Worker has not.
LEMMA FlightNext ==
    ASSUME OwnerInv, InFlight, [Next]_vars
    PROVE  InFlight'
<1> USE DEF books, facts, flags, waits, clocks
<1>0. /\ TypeOK /\ RunInv /\ BookInv
      /\ book \in Book /\ runs \in [Runs -> Run] /\ server \in [Scopes -> SUBSET Facts]
  BY DEF OwnerInv, BindInv, TypeOK
<1>1. CASE OpenSession \/ CloseSession \/ WriteJournal \/ WriteSettlement \/ ClearJournal
  <2>1. runs' = runs /\ server' = server
    BY <1>1, SessionFrame
  <2>2. book.facts \subseteq book'.facts
    BY <1>0, <1>1 DEF OpenSession, CloseSession, WriteJournal, WriteSettlement, ClearJournal, Book
  <2> QED  BY <1>0, <2>1, <2>2, FlightStays
<1>2. CASE (\E by \in Runs \cup {"boot"} : StartDrain(by)) \/ ReplaySettlement \/ ReplayClear
  <2>1. runs' = runs /\ server' = server
    BY <1>2 DEF StartDrain, ReplaySettlement, ReplayClear
  <2>2. book.facts \subseteq book'.facts
    BY <1>0, <1>2 DEF StartDrain, ReplaySettlement, ReplayClear, Book
  <2> QED  BY <1>0, <2>1, <2>2, FlightStays
<1>3. CASE Prune
  <2>1. runs' = runs /\ server' = server /\ book'.facts = book.facts \ book.sent
    BY <1>0, <1>3 DEF Prune, Book
  <2>2. mark # Nobody => book.sent \subseteq server[mark]
    BY <1>0 DEF BookInv, AcksStayHome
  <2> QED  BY <1>0, <2>1, <2>2, FlightKept
<1>4. CASE (\E s \in Scopes : UserBinds(s)) \/ UserAdopts \/ ChangeBegins \/ ChangeBoundary
  <2>1. runs' = runs /\ book' = book /\ server' = server
    BY <1>4 DEF UserBinds, UserAdopts, ChangeBegins, ChangeBoundary
  <2> QED  BY <1>0, <2>1, FlightStays
<1>5. CASE SettlementRefused
  <2>1. book' = book /\ server' = server
    BY <1>5 DEF SettlementRefused
  <2>2. CASE runs' = runs
    BY <1>0, <2>1, <2>2, FlightStays
  <2>3. CASE runs' # runs
    <3>1. change.at = "closing" /\ EndChange(FALSE)
      BY <1>5, <2>3 DEF SettlementRefused
    <3>2. changes # <<>>
      BY <1>0, <3>1 DEF TypeOK
    <3>3. \A v \in Runs : runs'[v] = runs[v] \/ runs'[v].at \in {"enter", "idle"}
      BY <1>0, <3>1, <3>2, EndChangeRuns
    <3> QED  BY <1>0, <2>1, <3>3, FlightKept
  <2> QED  BY <2>2, <2>3
<1>6. CASE ChangeFails
  <2>1. book' = book /\ server' = server /\ changes # <<>> /\ EndChange(FALSE)
    BY <1>0, <1>6 DEF ChangeFails, TypeOK
  <2>2. \A v \in Runs : runs'[v] = runs[v] \/ runs'[v].at \in {"enter", "idle"}
    BY <1>0, <2>1, EndChangeRuns
  <2> QED  BY <1>0, <2>1, <2>2, FlightKept
<1>7. CASE Commit
  <2>1. NoReader /\ changes # <<>> /\ EndChange(TRUE)
    BY <1>0, <1>7 DEF Commit, RunInv, ChangeAlone, TypeOK
  <2>2. \A v \in Runs : runs'[v] = runs[v] \/ runs'[v].at \in {"enter", "idle"}
    BY <1>0, <2>1, EndChangeRuns
  <2>3. \A v \in Runs : runs[v].at # "flight"
    BY <1>0, <2>1 DEF NoReader, RunInv, Readers
  <2> QED  BY <2>2, <2>3 DEF InFlight
<1>8. CASE Crash
  <2>1. runs' = [u \in Runs |-> Rest]
    BY <1>8 DEF Crash
  <2> QED  BY <2>1, AtRest DEF InFlight
<1>9. ASSUME NEW u \in Runs, StartSync(u) \/ Running(u) PROVE InFlight'
  <2>1. CASE Pack(u)
    <3>1. book' = book /\ server' = server
      BY <2>1 DEF Pack
    <3>2. \A v \in Runs \ {u} : runs'[v] = runs[v]
      BY <1>0, <2>1 DEF Pack
    <3>3. runs'[u].at = "flight" => runs'[u].ids \subseteq book.facts
      BY <1>0, <2>1 DEF Pack, Run
    <3> QED  BY <3>1, <3>2, <3>3 DEF InFlight
  <2>2. CASE ~Pack(u)
    <3>1. /\ \A v \in Runs : runs'[v] = runs[v] \/ runs'[v].at # "flight"
          /\ book'.facts = book.facts
          /\ \A s \in Scopes : server[s] \subseteq server'[s]
      <4>1. CASE StartSync(u) \/ Recover(u) \/ Enter(u) \/ CheckScope(u)
        <5>1. book' = book /\ server' = server
          BY <4>1 DEF StartSync, Recover, Enter, CheckScope
        <5>2. \A v \in Runs : runs'[v] = runs[v] \/ runs'[v].at # "flight"
          BY <1>0, <4>1, AtRest
          DEF StartSync, Recover, Enter, CheckScope, Hydrated, AfterRecovery, Run
        <5> QED  BY <5>1, <5>2
      <4>2. CASE Deliver(u)
        <5>1. book' = book
          BY <4>2 DEF Deliver
        <5>2. \A s \in Scopes : server[s] \subseteq server'[s]
          BY <1>0, <4>2 DEF Deliver
        <5>3. \A v \in Runs : runs'[v] = runs[v] \/ runs'[v].at # "flight"
          BY <1>0, <4>2 DEF Deliver, Run
        <5> QED  BY <5>1, <5>2, <5>3
      <4>3. CASE Reply(u) \/ WriteAck(u) \/ WriteClear(u) \/ Finally(u)
        <5>1. book'.facts = book.facts /\ server' = server
          BY <1>0, <4>3 DEF Reply, WriteAck, WriteClear, Finally, Book
        <5>2. \A v \in Runs : runs'[v] = runs[v] \/ runs'[v].at # "flight"
          BY <1>0, <4>3, AtRest
          DEF Reply, WriteAck, WriteClear, Finally, Hydrated, AfterRecovery, Run
        <5> QED  BY <5>1, <5>2
      <4> QED  BY <1>9, <2>2, <4>1, <4>2, <4>3 DEF Running
    <3> QED  BY <1>0, <3>1, FlightKept
  <2> QED  BY <2>1, <2>2
<1>10. CASE UNCHANGED vars
  BY <1>0, <1>10, FlightStays DEF vars
<1> QED
  BY <1>1, <1>2, <1>3, <1>4, <1>5, <1>6, <1>7, <1>8, <1>9, <1>10
  DEF Next, Settling, Replaying, Changing

ScopedInv == OwnerInv /\ InFlight

\* What the scopes see of a step that leaves the mark and the archives alone.
LEMMA SameFacts ==
    ASSUME UNCHANGED <<mark, archives, server>>, book'.facts = book.facts
    PROVE  UNCHANGED <<FactsOf, server>>
  BY DEF FactsOf, BookOf

\* No scope sees what happens in a book without a mark.
LEMMA UnmarkedUnseen ==
    ASSUME mark = Nobody, UNCHANGED <<mark, archives, server>>
    PROVE  UNCHANGED <<FactsOf, server>>
<1>1. \A s \in Scopes : s # mark /\ s # mark'
  BY BindingAssumption
<1>2. \A s \in Scopes : BookOf(s) = archives[s] /\ BookOf(s)' = archives[s]
  BY <1>1 DEF BookOf
<1>3. FactsOf' = FactsOf
  BY <1>2 DEF FactsOf
<1> QED  BY <1>3

\* A book whose facts all name s becomes the book of s.
LEMMA ClaimIsEntry ==
    ASSUME Budget["unbound"] = 0, OwnerInv, mark = Nobody, UNCHANGED server,
           NEW s \in Scopes, FactsMatch(book, s),
           FactsOf' = [t \in Scopes |-> IF t = s THEN book.facts ELSE {}]
    PROVE  Scoped!Enter(s, book.facts)
<1>1. TypeOK /\ BookInv /\ FactInv
  BY DEF OwnerInv, BindInv
<1>2. FactsOf = [t \in Scopes |-> {}]
  BY <1>1, BindingAssumption, AtRest DEF FactsOf, BookOf, BookInv, Unmarked
<1>3. \A t \in Scopes \ {s} : book.facts \cap (FactsOf[t] \cup server[t]) = {}
  BY <1>1, <1>2, OwnScopes DEF FactsMatch, FactInv, ServerOwn
<1>4. FactsOf' = [FactsOf EXCEPT ![s] = @ \cup book.facts]
  BY <1>2
<1> QED  BY <1>3, <1>4 DEF Scoped!Enter

\* A settlement or its replay enters its fact into the book of the marked scope.
LEMMA SettlementEnters ==
    ASSUME Budget["unbound"] = 0, OwnerInv, UNCHANGED <<mark, archives, server>>,
           NEW f \in Facts, f \in Working, book'.facts = book.facts \cup {f}
    PROVE  \/ UNCHANGED <<FactsOf, server>>
           \/ mark \in Scopes /\ Scoped!Enter(mark, {f})
<1>1. TypeOK /\ BookInv /\ FactInv
  BY DEF OwnerInv, BindInv
<1>2. CASE mark = Nobody
  BY <1>2, UnmarkedUnseen
<1>3. CASE mark # Nobody
  <2>1. mark \in Scopes /\ owner[f] = mark
    BY <1>1, <1>3, OwnScopes DEF TypeOK, Bound, FactInv, BookOwn
  <2>2. \A t \in Scopes \ {mark} : f \notin FactsOf[t]
    BY <1>1, <2>1 DEF FactsOf, BookOf, BookInv, ArchivesAreOwn
  <2>3. \A t \in Scopes \ {mark} : f \notin server[t]
    BY <1>1, <2>1, OwnScopes DEF FactInv, ServerOwn
  <2>4. FactsOf' = [FactsOf EXCEPT ![mark] = @ \cup {f}]
    BY <2>1 DEF FactsOf, BookOf
  <2> QED  BY <2>1, <2>2, <2>3, <2>4 DEF Scoped!Enter
<1> QED  BY <1>2, <1>3

\* Retention forgets what the Worker has of the marked scope.
LEMMA PruningForgets ==
    ASSUME OwnerInv, Prune
    PROVE  \/ UNCHANGED <<FactsOf, server>>
           \/ mark \in Scopes /\ Scoped!Forget(mark, book.sent)
<1>1. /\ TypeOK /\ BookInv /\ book \in Book
      /\ UNCHANGED <<mark, archives, server>> /\ book'.facts = book.facts \ book.sent
  BY DEF OwnerInv, BindInv, TypeOK, Prune, Book, books
<1>2. CASE mark = Nobody
  BY <1>1, <1>2, UnmarkedUnseen
<1>3. CASE mark # Nobody
  <2>1. mark \in Scopes /\ book.sent \subseteq server[mark]
    BY <1>1, <1>3 DEF TypeOK, Bound, BookInv, AcksStayHome
  <2>2. FactsOf' = [FactsOf EXCEPT ![mark] = @ \ book.sent]
    BY <1>1, <2>1 DEF FactsOf, BookOf
  <2> QED  BY <1>1, <2>1, <2>2 DEF Scoped!Forget
<1> QED  BY <1>2, <1>3

\* A request that arrives brings the Worker's copy facts of the marked book.
LEMMA DeliveryCatchesUp ==
    ASSUME ScopedInv, NEW u \in Runs, Deliver(u)
    PROVE  \/ UNCHANGED <<FactsOf, server>>
           \/ mark \in Scopes /\ \E F \in SUBSET Facts : Scoped!CatchUp(mark, F)
<1>1. /\ TypeOK /\ RunInv /\ book \in Book /\ UNCHANGED <<mark, archives, book>>
      /\ runs[u].at = "flight" /\ server \in [Scopes -> SUBSET Facts]
  BY DEF ScopedInv, OwnerInv, BindInv, TypeOK, Deliver, books
<1>2. runs[u].scope = mark /\ mark \in Scopes
  BY <1>1 DEF RunInv, Requests, TypeOK, Bound
<1>3. UNCHANGED FactsOf
  BY <1>1 DEF FactsOf, BookOf
<1>4. CASE server' = server
  BY <1>3, <1>4
<1>5. CASE server' = [server EXCEPT ![mark] = @ \cup Accepted(u)]
  <2> DEFINE F == Accepted(u) \cap book.facts
  <2>1. F \in SUBSET Facts /\ F \subseteq FactsOf[mark]
    BY <1>1, <1>2 DEF Book, FactsOf, BookOf
  <2>2. Accepted(u) \subseteq F \cup server[mark]
    BY <1>1, <1>2 DEF ScopedInv, InFlight, Accepted
  <2>3. server' = [server EXCEPT ![mark] = @ \cup F]
    BY <1>1, <1>2, <1>5, <2>2
  <2> QED  BY <1>2, <1>3, <2>1, <2>3 DEF Scoped!CatchUp
<1> QED  BY <1>1, <1>2, <1>4, <1>5 DEF Deliver

\* checkScope claims the unmarked book, or changes nothing the scopes see.
LEMMA CheckingClaims ==
    ASSUME Budget["unbound"] = 0, OwnerInv, NEW u \in Runs, CheckScope(u)
    PROVE  \/ UNCHANGED <<FactsOf, server>>
           \/ \E F \in SUBSET Facts, s \in Scopes : Scoped!Enter(s, F)
<1>1. /\ TypeOK /\ BookInv /\ book \in Book /\ UNCHANGED <<archives, book, server>>
      /\ mark' = IF binding # Nobody /\ Claims THEN binding ELSE mark
  BY DEF OwnerInv, BindInv, TypeOK, CheckScope, books
<1>2. CASE mark' = mark
  BY <1>1, <1>2, SameFacts
<1>3. CASE mark' # mark
  <2>1. /\ mark = Nobody /\ binding \in Scopes /\ mark' = binding
        /\ FactsMatch(book, binding)
    BY <1>1, <1>3 DEF Claims, TypeOK, Bound
  <2>2. FactsOf' = [t \in Scopes |-> IF t = binding THEN book.facts ELSE {}]
    BY <1>1, <2>1, AtRest DEF FactsOf, BookOf, BookInv, Unmarked
  <2>3. Scoped!Enter(binding, book.facts)
    BY <1>1, <2>1, <2>2, ClaimIsEntry
  <2> QED  BY <1>1, <2>1, <2>3 DEF Book
<1> QED  BY <1>2, <1>3

\* A commit changes which book is active and nothing else, except that an
\* unmarked book may be claimed by the scope the change leaves.
LEMMA CommitKeepsBooks ==
    ASSUME Budget["unbound"] = 0, OwnerInv, Commit
    PROVE  \/ UNCHANGED <<FactsOf, server>>
           \/ \E F \in SUBSET Facts, s \in Scopes : Scoped!Enter(s, F)
<1> DEFINE to == Head(changes).to
<1>1. /\ TypeOK /\ RunInv /\ BookInv /\ FactInv /\ book \in Book
      /\ to \in Scopes /\ to # Nobody /\ change.mark = mark
      /\ mark' = to /\ server' = server /\ ~Refuses
  BY QueueOfChanges, BindingAssumption
  DEF Commit, OwnerInv, BindInv, TypeOK, Asked, RunInv, ChangeAlone
<1>2. ASSUME mark = Nobody, NEW s \in Scopes, FactsMatch(book, s),
             FactsOf' = [t \in Scopes |-> IF t = s THEN book.facts ELSE {}]
      PROVE  \E F \in SUBSET Facts, t \in Scopes : Scoped!Enter(t, F)
  <2>1. Scoped!Enter(s, book.facts)
    BY <1>1, <1>2, ClaimIsEntry
  <2> QED  BY <1>1, <2>1 DEF Book
<1>3. CASE Switching
  <2>1. Old # to /\ Switched
    BY <1>3 DEF Commit, Switching
  <2>2. /\ book' = archives[to]
        /\ \A s \in Scopes \ {to} :
              archives'[s] = IF s = Old /\ book.used /\ Known THEN book ELSE archives[s]
    BY <1>1, <2>1, WhereBooksGo
  <2>3. FactsOf' = [s \in Scopes |-> IF s # to /\ s = Old /\ book.used /\ Known
                                     THEN book.facts ELSE archives[s].facts]
    BY <1>1, <2>2 DEF FactsOf, BookOf
  <2>4. CASE mark # Nobody
    <3>1. Old = mark /\ mark \in Scopes
      BY <1>1, <2>4 DEF Old, TypeOK, Bound
    <3>2. Known
      BY <1>1, <2>4, <3>1, OwnScopes DEF Known, FactsMatch, FactInv, BookOwn, Home
    <3>3. ~book.used => book.facts = {} /\ archives[mark].facts = {}
      BY <1>1, <2>4, AtRest DEF BookInv, BooksUsed, ActiveHasNoArchive
    <3>4. FactsOf' = FactsOf
      BY <2>1, <2>3, <3>1, <3>2, <3>3 DEF FactsOf, BookOf
    <3> QED  BY <1>1, <3>4
  <2>5. CASE mark = Nobody
    <3>1. \A s \in Scopes : archives[s].facts = {}
      BY <1>1, <2>5, AtRest DEF BookInv, Unmarked
    <3>2. CASE book.used /\ Known
      <4>1. Old \in Scopes /\ FactsMatch(book, Old)
        BY <1>1, <2>5, <3>2 DEF Known, FactsMatch, Old, TypeOK, Bound, Change
      <4>2. FactsOf' = [t \in Scopes |-> IF t = Old THEN book.facts ELSE {}]
        BY <2>1, <2>3, <3>1, <3>2
      <4> QED  BY <1>2, <2>5, <4>1, <4>2
    <3>3. CASE ~(book.used /\ Known)
      <4>1. FactsOf' = FactsOf
        BY <2>3, <2>5, <3>3, BindingAssumption DEF FactsOf, BookOf
      <4> QED  BY <1>1, <4>1
    <3> QED  BY <3>2, <3>3
  <2> QED  BY <2>4, <2>5
<1>4. CASE ~Switching
  <2>1. UNCHANGED <<book, archives>> /\ Old = to /\ ~Unattributed /\ change.at # "idle"
    BY <1>1, <1>4 DEF Commit, Switching, Refuses, books
  <2>2. CASE mark # Nobody
    BY <1>1, <2>1, <2>2, SameFacts DEF Old
  <2>3. CASE mark = Nobody
    <3>1. FactsMatch(book, to)
      BY <1>4, <2>1 DEF Unattributed
    <3>2. FactsOf' = [t \in Scopes |-> IF t = to THEN book.facts ELSE {}]
      BY <1>1, <2>1, <2>3, AtRest DEF FactsOf, BookOf, BookInv, Unmarked
    <3> QED  BY <1>1, <1>2, <2>3, <3>1, <3>2
  <2> QED  BY <2>2, <2>3
<1> QED  BY <1>3, <1>4

\* Every step is one of the abstract steps, or the scopes see nothing of it.
LEMMA ScopedStep ==
    ASSUME Budget["unbound"] = 0, ScopedInv, [Next]_vars
    PROVE  [Scoped!Next]_<<FactsOf, server>>
<1> USE DEF books, facts, flags, waits, clocks
<1>0. OwnerInv /\ TypeOK /\ book \in Book /\ drain \in Drain /\ closing \in Closing
  BY DEF ScopedInv, OwnerInv, BindInv, TypeOK
<1>1. \A F \in SUBSET Facts, s \in Scopes :
         Scoped!Enter(s, F) \/ Scoped!CatchUp(s, F) \/ Scoped!Forget(s, F) => Scoped!Next
  BY DEF Scoped!Next
<1>2. CASE WriteSettlement \/ ReplaySettlement
  <2>1. PICK f \in Facts : f \in Working /\ book'.facts = book.facts \cup {f}
    <3>1. CASE WriteSettlement
      <4>1. closing.fact \in Facts /\ closing.fact \in Working
        BY <1>0, <3>1 DEF WriteSettlement, Closing, Working
      <4> QED  BY <1>0, <3>1, <4>1 DEF WriteSettlement, Book
    <3>2. CASE ReplaySettlement
      <4>1. drain.ids \subseteq Facts /\ drain.ids \subseteq Working
        BY <1>0 DEF Drain, Working
      <4> QED  BY <1>0, <3>2, <4>1 DEF ReplaySettlement, Book
    <3> QED  BY <1>2, <3>1, <3>2
  <2>2. UNCHANGED <<mark, archives, server>>
    BY <1>2 DEF WriteSettlement, ReplaySettlement
  <2> QED  BY <1>0, <1>1, <2>1, <2>2, SettlementEnters
<1>3. CASE Prune
  <2>1. book.sent \in SUBSET Facts
    BY <1>0 DEF Book
  <2> QED  BY <1>0, <1>1, <1>3, <2>1, PruningForgets
<1>4. CASE \E u \in Runs : Deliver(u)
  BY <1>1, <1>4, DeliveryCatchesUp
<1>5. CASE \E u \in Runs : CheckScope(u)
  BY <1>0, <1>1, <1>5, CheckingClaims
<1>6. CASE Commit
  BY <1>0, <1>1, <1>6, CommitKeepsBooks
<1>7. ASSUME UNCHANGED <<mark, archives, server>>, book'.facts = book.facts
      PROVE  [Scoped!Next]_<<FactsOf, server>>
  BY <1>7, SameFacts
<1>8. CASE OpenSession \/ CloseSession \/ WriteJournal \/ ClearJournal \/ SettlementRefused
  BY <1>0, <1>7, <1>8
  DEF OpenSession, CloseSession, WriteJournal, ClearJournal, SettlementRefused, Book
<1>9. CASE (\E by \in Runs \cup {"boot"} : StartDrain(by)) \/ ReplayClear
  BY <1>0, <1>7, <1>9 DEF StartDrain, ReplayClear, Book
<1>10. CASE (\E s \in Scopes : UserBinds(s)) \/ UserAdopts \/ Crash \/ UNCHANGED vars
  BY <1>7, <1>10 DEF UserBinds, UserAdopts, Crash, vars
<1>11. CASE ChangeBegins \/ ChangeBoundary \/ ChangeFails
  BY <1>7, <1>11 DEF ChangeBegins, ChangeBoundary, ChangeFails
<1>12. CASE \E u \in Runs : StartSync(u) \/ Recover(u) \/ Enter(u) \/ Pack(u)
  BY <1>7, <1>12 DEF StartSync, Recover, Enter, Pack
<1>13. CASE \E u \in Runs : Reply(u) \/ WriteAck(u) \/ WriteClear(u) \/ Finally(u)
  BY <1>0, <1>7, <1>13 DEF Reply, WriteAck, WriteClear, Finally, Book
<1> QED
  BY <1>2, <1>3, <1>4, <1>5, <1>6, <1>8, <1>9, <1>10, <1>11, <1>12, <1>13
  DEF Next, Settling, Replaying, Changing, Running

\* While the Worker never reports the device unbound, one active book with
\* archives is as good as a book for every scope: a switch, a failed change, a
\* crash or a claim changes what no scope's book holds, and the Worker's rows of a
\* scope come from that scope's book only.
THEOREM BindingKeepsScopedBooks ==
    ASSUME Budget["unbound"] = 0
    PROVE  Spec /\ (BootDrain => []ReplayAlone) => ImplementsScopedBooks
<1>1. Init => Scoped!Init
  BY BindingAssumption, AtRest DEF Init, Scoped!Init, FactsOf, BookOf
<1>2. Init => InFlight
  BY AtRest DEF Init, InFlight
<1>3. OwnerInv /\ InFlight /\ [Next]_vars => InFlight'
  BY FlightNext
<1>4. OwnerInv /\ InFlight /\ [Next]_vars => [Scoped!Next]_<<FactsOf, server>>
  BY ScopedStep DEF ScopedInv
<1> QED
  BY <1>1, <1>2, <1>3, <1>4, OwnerInvariant, PTL DEF Spec, Scoped!Spec, ImplementsScopedBooks
=============================================================================
