--------------------------- MODULE LedgerBinding ---------------------------
(***************************************************************************)
(* The isolation of the local books of two bindings                        *)
(* (infra/ledger-binding.js) with the callers infra/cloud-sync.js wires to *)
(* it: syncNow and its follow-up, the recovery of a lost binding,          *)
(* cloudBind, clearCloudBindingState, the session boundary                 *)
(* (runtime/session.js) and the replay of the settlement journal.          *)
(*                                                                         *)
(* A scope is an (API, profile, device) triple; its token is not told      *)
(* apart from it, so a token rotation is a change to the scope that is     *)
(* bound already.  A book is what the LEDGER_BINDING_KEYS hold, reduced to *)
(* the settled facts, the acknowledged ones, the journal entries and       *)
(* whether anything was ever written (hasBook).                            *)
(***************************************************************************)
EXTENDS Integers, Sequences, FiniteSets

CONSTANTS
    Scopes,    \* bindings the device may get
    Facts,     \* settlements
    Legacy,    \* facts an older version may have left on disk
    Runs,      \* calls of syncNow
    BootDrain, \* the worker replays the journal when it starts
    Budget     \* bound: how often each of the Events happens

Nobody == "nobody"
Unborn == "unborn"
Owners == Scopes \cup {Nobody, Unborn}
Bound  == Scopes \cup {Nobody}
Events == {"change", "unbound", "lost", "refuse", "crash", "prune"}

ASSUME BindingAssumption ==
    /\ Nobody \notin Scopes /\ Unborn \notin Scopes
    /\ "user" \notin Runs /\ "boot" \notin Runs
    /\ Facts # {} /\ Legacy \subseteq Facts
    /\ BootDrain \in BOOLEAN
    /\ Budget \in [Events -> Nat]

VARIABLES
    binding,  \* cloud_profile_id, cloud_device_id, cloud_device_token
    mark,     \* ledger_binding_scope_v1
    book,     \* the active book
    archives, \* ledger_binding_archives_v1: the book kept for each scope
    orphans,  \* ledger_binding_archives_v1: the unattributed:n books
    owner,    \* the profile and device a fact carries
    settled,  \* facts whose settlement was ever written
    mem,      \* syncState: the binding the worker works with
    runs,     \* each syncNow
    syncing,  \* syncState.isSyncing
    followUp, \* syncState.followUpSyncRequested
    changes,  \* changeTail: changes asked for and not finished
    change,   \* the progress of the first of them
    binder,   \* cloudBind
    session,  \* a timing session is open
    closing,  \* its settlement in progress
    drain,    \* drainUsageSettlementJournal in progress
    server,   \* what the Worker has stored under each scope
    left      \* what is left of Budget

vars == <<binding, mark, book, archives, orphans, owner, settled, mem, runs, syncing,
          followUp, changes, change, binder, session, closing, drain, server, left>>
books  == <<book, archives, orphans>>
facts  == <<owner, settled>>
clocks == <<session, closing>>
waits  == <<changes, change, binder>>
flags  == <<syncing, followUp>>

Book  == [facts : SUBSET Facts, sent : SUBSET Facts, journal : SUBSET Facts,
          used : BOOLEAN]
Blank == [facts |-> {}, sent |-> {}, journal |-> {}, used |-> FALSE]
SomeFact == CHOOSE f \in Facts : TRUE

Run  == [at : {"idle", "recover", "await", "enter", "check", "pack", "flight",
               "reply", "ack", "clear", "finally"},
         reader : BOOLEAN, scope : Bound, ids : SUBSET Facts]
Rest == [at |-> "idle", reader |-> FALSE, scope |-> Nobody, ids |-> {}]
Change  == [at : {"idle", "boundary", "closing", "commit"},
            prior : Bound, mark : Bound]
NoChange == [at |-> "idle", prior |-> Nobody, mark |-> Nobody]
Closing == [at : {"idle", "journal", "settle", "clear"}, fact : Facts, by : Bound]
Closed  == [at |-> "idle", fact |-> SomeFact, by |-> Nobody]
Drain   == [ids : SUBSET Facts, cur : SUBSET Facts, by : Runs \cup {"boot"}]
NoDrain == [ids |-> {}, cur |-> {}, by |-> "boot"]

Spend(e) ==
    /\ left[e] > 0
    /\ left' = [left EXCEPT ![e] = @ - 1]

(***************************************************************************)
(* What is on disk belongs to whom.                                        *)
(***************************************************************************)
FactsMatch(b, s) ==
    s # Nobody /\ \A f \in b.facts \cup b.journal : owner[f] = s

\* The scope a change leaves: the mark, or a binding older than the marks.
Old == IF change.mark # Nobody THEN change.mark ELSE change.prior
Switching == change.at # "idle" /\ Old # Head(changes).to

KnownByMark == \* bug: the facts are not compared
    \/ change.mark # Nobody
    \/ Old = change.prior /\ (book.facts # {} \/ ~book.used)
Known ==
    /\ FactsMatch(book, Old)
    /\ \/ change.mark # Nobody
       \/ Old = change.prior /\ (book.facts # {} \/ ~book.used)

(***************************************************************************)
(* The timing session.  Its settlement and a binding boundary exclude each *)
(* other (runSessionCommit).                                               *)
(***************************************************************************)
OpenSession ==
    /\ ~session /\ closing.at = "idle"
    /\ \E f \in Facts : owner[f] = Unborn
    /\ ~(Switching /\ change.at \in {"closing", "commit"})
    /\ session' = TRUE
    /\ UNCHANGED <<binding, mark, books, facts, mem, runs, flags, waits, closing,
                   drain, server, left>>

\* closeCurrentSession resolves the identity from the stored binding.
CloseSession ==
    /\ session /\ closing.at = "idle"
    /\ ~(Switching /\ change.at \in {"closing", "commit"})
    /\ \E f \in Facts :
         /\ owner[f] = Unborn
         /\ closing' = [at |-> "journal", fact |-> f, by |-> binding]
    /\ UNCHANGED <<binding, mark, books, facts, mem, runs, flags, waits, session,
                   drain, server, left>>

\* What a syncNow does when its recovery is over.
AfterRecovery(run) == IF mem # Nobody THEN [run EXCEPT !.at = "enter"] ELSE Rest

\* A settled change is taken off the queue, and who asked for it goes on.
EndChange(ok) ==
    LET c == Head(changes) IN
    /\ changes' = Tail(changes) /\ change' = NoChange
    /\ IF c.by = "user"
       THEN /\ binder' = IF ok THEN "adopt" ELSE "idle"
            /\ UNCHANGED <<runs, mem>>
       ELSE /\ runs' = [runs EXCEPT ![c.by] = IF ok THEN [@ EXCEPT !.at = "enter"]
                                              ELSE AfterRecovery(@)]
            /\ mem' = IF ok THEN c.to ELSE mem
            /\ UNCHANGED binder

\* The boundary of a change goes on to the commit once the session is closed.
Closes ==
    /\ closing' = Closed /\ session' = FALSE
    /\ change' = IF change.at = "closing" THEN [change EXCEPT !.at = "commit"] ELSE change

WriteJournal ==
    /\ closing.at = "journal"
    /\ book' = [book EXCEPT !.journal = @ \cup {closing.fact}, !.used = TRUE]
    /\ owner' = [owner EXCEPT ![closing.fact] = closing.by]
    /\ closing' = [closing EXCEPT !.at = "settle"]
    /\ UNCHANGED <<binding, mark, archives, orphans, settled, mem, runs, flags, waits,
                   session, drain, server, left>>

WriteSettlement ==
    /\ closing.at = "settle"
    /\ book' = [book EXCEPT !.facts = @ \cup {closing.fact}]
    /\ settled' = settled \cup {closing.fact}
    /\ closing' = [closing EXCEPT !.at = "clear"]
    /\ UNCHANGED <<binding, mark, archives, orphans, owner, mem, runs, flags, waits,
                   session, drain, server, left>>

ClearJournal ==
    /\ closing.at = "clear"
    /\ book' = [book EXCEPT !.journal = @ \ {closing.fact}]
    /\ Closes
    /\ UNCHANGED <<binding, mark, archives, orphans, facts, mem, runs, flags, changes,
                   binder, drain, server, left>>

\* The journal refuses the entry: not durable, the session stays open and a
\* boundary fails.  A later refusal leaves the entry and is durable.
SettlementRefused ==
    /\ Spend("refuse")
    /\ \/ /\ closing.at = "journal" /\ closing' = Closed /\ UNCHANGED session
          /\ IF change.at = "closing" THEN EndChange(FALSE)
             ELSE UNCHANGED <<mem, runs, waits>>
       \/ /\ closing.at = "settle" /\ Closes
          /\ UNCHANGED <<mem, runs, changes, binder>>
    /\ UNCHANGED <<binding, mark, books, facts, flags, drain, server>>

(***************************************************************************)
(* The replay of the journal, at the start of the worker and in a sync.    *)
(***************************************************************************)
StartDrain(by) ==
    /\ drain.ids = {} /\ book.journal # {}
    /\ by = "boot" => BootDrain
    /\ by # "boot" => runs[by].at = "pack"
    /\ drain' = [ids |-> book.journal, cur |-> {}, by |-> by]
    /\ UNCHANGED <<binding, mark, books, facts, mem, runs, flags, waits, clocks,
                   server, left>>

ReplaySettlement ==
    /\ drain.cur = {}
    /\ \E f \in drain.ids :
         /\ book' = [book EXCEPT !.facts = @ \cup {f}, !.used = TRUE]
         /\ settled' = settled \cup {f}
         /\ drain' = [drain EXCEPT !.cur = {f}]
    /\ UNCHANGED <<binding, mark, archives, orphans, owner, mem, runs, flags, waits,
                   clocks, server, left>>

ReplayClear ==
    /\ drain.cur # {}
    /\ book' = [book EXCEPT !.journal = @ \ drain.cur]
    /\ drain' = IF drain.ids = drain.cur THEN NoDrain
                ELSE [drain EXCEPT !.ids = @ \ drain.cur, !.cur = {}]
    /\ UNCHANGED <<binding, mark, archives, orphans, facts, mem, runs, flags, waits,
                   clocks, server, left>>

\* Retention takes acknowledged facts.
Prune ==
    /\ Spend("prune") /\ book.sent # {}
    /\ book' = [book EXCEPT !.facts = @ \ book.sent, !.sent = {}]
    /\ UNCHANGED <<binding, mark, archives, orphans, facts, mem, runs, flags, waits,
                   clocks, drain, server>>

(***************************************************************************)
(* syncNow.  A run that passed the gate is a reader until it returns, its  *)
(* follow-up included.                                                     *)
(***************************************************************************)
\* hydrateCloudSyncStateFromStorage, then recovery if nothing is bound.
Hydrated(run) == [run EXCEPT !.at = IF binding = Nobody THEN "recover" ELSE "enter"]
StartSync(u) ==
    /\ runs[u].at = "idle"
    /\ mem' = binding
    /\ runs' = [runs EXCEPT ![u] = Hydrated(@)]
    /\ UNCHANGED <<binding, mark, books, facts, flags, waits, clocks, drain, server, left>>

\* tryRecoverCloudBindingIfMissing: the Worker returns a binding, says the
\* device is unbound, or neither.
Recover(u) ==
    /\ runs[u].at = "recover"
    /\ \/ /\ Spend("change")
          /\ \E s \in Scopes : changes' = Append(changes, [to |-> s, by |-> u])
          /\ runs' = [runs EXCEPT ![u].at = "await"]
          /\ UNCHANGED mem
       \/ /\ Spend("unbound") /\ mem' = Nobody
          /\ runs' = [runs EXCEPT ![u].at = "clear", ![u].scope = Nobody]
          /\ UNCHANGED changes
       \/ /\ runs' = [runs EXCEPT ![u] = AfterRecovery(@)]
          /\ UNCHANGED <<changes, mem, left>>
    /\ UNCHANGED <<binding, mark, books, facts, flags, change, binder, clocks, drain, server>>

\* upload(): refused while a change is pending.
EnterAnyway(u) == \* bug: a pending change is not looked at
    /\ runs[u].at = "enter"
    /\ runs' = [runs EXCEPT ![u].at = "check", ![u].reader = TRUE]
    /\ UNCHANGED <<binding, mark, books, facts, mem, flags, waits, clocks, drain, server, left>>
Enter(u) ==
    /\ runs[u].at = "enter"
    /\ runs' = [runs EXCEPT ![u] = IF changes # <<>> THEN Rest
                                   ELSE [@ EXCEPT !.at = "check", !.reader = TRUE]]
    /\ UNCHANGED <<binding, mark, books, facts, mem, flags, waits, clocks, drain, server, left>>

InScope == binding # Nobody /\ mark = binding /\ mem = binding
\* checkScope; a book older than the marks is claimed if its facts agree.
ClaimsAnything == mark = Nobody \* bug: the facts are not compared
Claims ==
    /\ mark = Nobody /\ FactsMatch(book, binding)
    /\ book.facts # {} \/ ~book.used
CheckScope(u) ==
    /\ runs[u].at = "check"
    /\ mark' = IF binding # Nobody /\ Claims THEN binding ELSE mark
    /\ IF binding = Nobody \/ mark' # binding \/ mem # binding
       THEN runs' = [runs EXCEPT ![u] = Rest] /\ UNCHANGED flags
       ELSE IF syncing
       THEN runs' = [runs EXCEPT ![u] = Rest] /\ followUp' = TRUE /\ UNCHANGED syncing
       ELSE runs' = [runs EXCEPT ![u].at = "pack"] /\ syncing' = TRUE /\ UNCHANGED followUp
    /\ UNCHANGED <<binding, books, facts, mem, waits, clocks, drain, server, left>>

\* The nested upload passes the same gate, then packs what is pending; the
\* request captures the binding the worker has in memory.
Pack(u) ==
    /\ runs[u].at = "pack"
    /\ drain.ids # {} => drain.by # u
    /\ LET ids == book.facts \ book.sent IN
       runs' = [runs EXCEPT ![u] =
                  IF changes # <<>> \/ ~InScope \/ ids = {}
                  THEN [@ EXCEPT !.at = "finally"]
                  ELSE [@ EXCEPT !.at = "flight", !.ids = ids, !.scope = mem]]
    /\ UNCHANGED <<binding, mark, books, facts, mem, flags, waits, clocks, drain, server, left>>

\* A segment id the Worker has under another device is rejected
\* (SEGMENT_CONTENT_CONFLICT), and the answer names the accepted ones.
Accepted(u) == runs[u].ids \ UNION {server[s] : s \in Scopes \ {runs[u].scope}}
Deliver(u) ==
    LET stored == [server EXCEPT ![runs[u].scope] = @ \cup Accepted(u)] IN
    /\ runs[u].at = "flight"
    /\ \/ /\ server' = stored
          /\ runs' = [runs EXCEPT ![u].at = "reply", ![u].ids = Accepted(u)]
          /\ UNCHANGED left
       \/ /\ Spend("lost")
          /\ server' \in {server, stored}
          /\ runs' = [runs EXCEPT ![u].at = "finally"]
    /\ UNCHANGED <<binding, mark, books, facts, mem, flags, waits, clocks, drain>>

\* assertBinding after the body; the answer may be DEVICE_UNBOUND.
Reply(u) ==
    /\ runs[u].at = "reply"
    /\ \/ /\ mem # runs[u].scope
          /\ runs' = [runs EXCEPT ![u].at = "finally"]
          /\ UNCHANGED <<mem, left>>
       \/ /\ mem = runs[u].scope
          /\ runs' = [runs EXCEPT ![u].at = "ack"]
          /\ UNCHANGED <<mem, left>>
       \/ /\ mem = runs[u].scope /\ Spend("unbound")
          /\ mem' = Nobody
          /\ runs' = [runs EXCEPT ![u].at = "clear"]
    /\ UNCHANGED <<binding, mark, books, facts, flags, waits, clocks, drain, server>>

WriteAck(u) ==
    /\ runs[u].at = "ack"
    /\ book' = [book EXCEPT !.sent = @ \cup (runs[u].ids \cap book.facts)]
    /\ runs' = [runs EXCEPT ![u].at = "finally"]
    /\ UNCHANGED <<binding, mark, archives, orphans, facts, mem, flags, waits, clocks,
                   drain, server, left>>

\* clearCloudBindingState: memory first, then the stored keys; no change() and
\* the mark stays.  From a recovery (no scope captured) the run returns.
WriteClear(u) ==
    /\ runs[u].at = "clear"
    /\ binding' = Nobody
    /\ runs' = [runs EXCEPT ![u] = IF runs[u].scope = Nobody THEN AfterRecovery(@)
                                   ELSE [@ EXCEPT !.at = "finally"]]
    /\ UNCHANGED <<mark, books, facts, mem, flags, waits, clocks, drain, server, left>>

\* finally: the follow-up syncNow is awaited inside the run that ends.
Finally(u) ==
    /\ runs[u].at = "finally"
    /\ syncing' = FALSE /\ followUp' = FALSE
    /\ IF followUp
       THEN mem' = binding /\ runs' = [runs EXCEPT ![u] = Hydrated(@)]
       ELSE runs' = [runs EXCEPT ![u] = Rest] /\ UNCHANGED mem
    /\ UNCHANGED <<binding, mark, books, facts, waits, clocks, drain, server, left>>

(***************************************************************************)
(* change().                                                               *)
(***************************************************************************)
UserBinds(s) ==
    /\ binder = "idle" /\ Spend("change")
    /\ changes' = Append(changes, [to |-> s, by |-> "user"])
    /\ binder' = "await"
    /\ UNCHANGED <<binding, mark, books, facts, mem, runs, flags, change, clocks, drain, server>>

\* cloudBind reads the stored binding into syncState after the change.
UserAdopts ==
    /\ binder = "adopt"
    /\ mem' = binding /\ binder' = "idle"
    /\ UNCHANGED <<binding, mark, books, facts, runs, flags, changes, change, clocks,
                   drain, server, left>>

NobodyWaits == TRUE \* bug: uploads under way are not waited for
NoReader == \A u \in Runs : ~runs[u].reader
ChangeBegins ==
    /\ changes # <<>> /\ change.at = "idle"
    /\ NoReader
    /\ LET old == IF mark # Nobody THEN mark ELSE binding IN
       change' = [at |-> IF old = Head(changes).to THEN "commit" ELSE "boundary",
                  prior |-> binding, mark |-> mark]
    /\ UNCHANGED <<binding, mark, books, facts, mem, runs, flags, changes, binder, clocks,
                   drain, server, left>>

\* The boundary holds the session lock and closes the session as Old.
ChangeBoundary ==
    /\ change.at = "boundary" /\ closing.at = "idle"
    /\ IF session /\ \E f \in Facts : owner[f] = Unborn
       THEN /\ change' = [change EXCEPT !.at = "closing"]
            /\ \E f \in Facts :
                 /\ owner[f] = Unborn
                 /\ closing' = [at |-> "journal", fact |-> f, by |-> Old]
            /\ UNCHANGED session
       ELSE change' = [change EXCEPT !.at = "commit"] /\ session' = FALSE /\ UNCHANGED closing
    /\ UNCHANGED <<binding, mark, books, facts, mem, runs, flags, changes, binder,
                   drain, server, left>>

UnattributedOnceUsed == \* bug: a marked book without facts is refused too
    /\ ~Switching
    /\ \/ ~FactsMatch(book, Head(changes).to)
       \/ book.used /\ book.facts = {}
Unattributed ==
    /\ ~Switching
    /\ \/ ~FactsMatch(book, Head(changes).to)
       \/ change.mark = Nobody /\ book.used /\ book.facts = {}
Refuses == change.prior # binding \/ Unattributed

SwitchedByCopy == \* bug: the restored archive is not deleted
    /\ book' = archives[Head(changes).to]
    /\ archives' = [archives EXCEPT ![Old] = IF book.used /\ Known THEN book ELSE @]
    /\ orphans' = IF book.used /\ ~Known THEN orphans \cup {book} ELSE orphans
SwitchedForgetting == \* bug: a book nobody owns is dropped
    /\ book' = archives[Head(changes).to]
    /\ archives' = [archives EXCEPT ![Head(changes).to] = Blank,
                                    ![Old] = IF book.used /\ Known THEN book ELSE @]
    /\ UNCHANGED orphans
SwitchedAfresh == \* bug: the archive is deleted and not restored
    /\ book' = Blank
    /\ archives' = [archives EXCEPT ![Head(changes).to] = Blank,
                                    ![Old] = IF book.used /\ Known THEN book ELSE @]
    /\ orphans' = IF book.used /\ ~Known THEN orphans \cup {book} ELSE orphans
SwitchedNothing == UNCHANGED books \* bug: the book stays
Switched ==
    /\ book' = archives[Head(changes).to]
    /\ archives' = [archives EXCEPT ![Head(changes).to] = Blank,
                                    ![Old] = IF book.used /\ Known THEN book ELSE @]
    /\ orphans' = IF book.used /\ ~Known THEN orphans \cup {book} ELSE orphans

Commit ==
    /\ change.at = "commit" /\ ~Refuses
    /\ binding' = Head(changes).to /\ mark' = Head(changes).to
    /\ IF Switching THEN Switched ELSE UNCHANGED books
    /\ EndChange(TRUE)
    /\ UNCHANGED <<facts, flags, clocks, drain, server, left>>

ChangeFails ==
    /\ change.at = "commit"
    /\ \/ Refuses /\ UNCHANGED left
       \/ Spend("refuse")
    /\ EndChange(FALSE)
    /\ UNCHANGED <<binding, mark, books, facts, flags, clocks, drain, server>>

\* The worker is terminated; what it had in memory is gone.
Crash ==
    /\ Spend("crash")
    /\ mem' = Nobody /\ runs' = [u \in Runs |-> Rest] /\ syncing' = FALSE /\ followUp' = FALSE
    /\ changes' = <<>> /\ change' = NoChange /\ binder' = "idle"
    /\ closing' = Closed /\ drain' = NoDrain
    /\ UNCHANGED <<binding, mark, books, facts, session, server>>

\* A fresh install, or the update of a version that kept no marks.
Init ==
    /\ binding \in Bound /\ mark = Nobody
    /\ \E F \in SUBSET Legacy :
         /\ owner \in {[f \in Facts |-> IF f \in F THEN s ELSE Unborn] : s \in {binding, Nobody}}
         /\ book \in {[facts |-> F, sent |-> {}, journal |-> {}, used |-> b] : b \in BOOLEAN}
         /\ book.facts # {} => book.used
         /\ settled = F
    /\ archives = [s \in Scopes |-> Blank] /\ orphans = {}
    /\ mem = Nobody /\ runs = [u \in Runs |-> Rest] /\ syncing = FALSE /\ followUp = FALSE
    /\ changes = <<>> /\ change = NoChange /\ binder = "idle"
    /\ session = FALSE /\ closing = Closed /\ drain = NoDrain
    /\ server = [s \in Scopes |-> {}]
    /\ left = Budget

Settling == WriteJournal \/ WriteSettlement \/ ClearJournal
Replaying == ReplaySettlement \/ ReplayClear
Changing == ChangeBegins \/ ChangeBoundary \/ Commit \/ ChangeFails
Running(u) ==
    \/ Recover(u) \/ Enter(u) \/ CheckScope(u) \/ Pack(u) \/ Deliver(u)
    \/ Reply(u) \/ WriteAck(u) \/ WriteClear(u) \/ Finally(u)

Next == \/ OpenSession \/ CloseSession \/ Settling \/ SettlementRefused
        \/ (\E by \in Runs \cup {"boot"} : StartDrain(by)) \/ Replaying \/ Prune
        \/ \E u \in Runs : StartSync(u) \/ Running(u)
        \/ \E s \in Scopes : UserBinds(s)
        \/ UserAdopts \/ Changing \/ Crash

Spec == Init /\ [][Next]_vars
=============================================================================
