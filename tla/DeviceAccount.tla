--------------------------- MODULE DeviceAccount ---------------------------
(***************************************************************************)
(* A device's account of a date on its way to the Worker                   *)
(* (device-account-v2.js, uploadDeviceAccountV2ForBinding in cloud-sync.js *)
(* and deviceAccountsV2.ts).                                               *)
(*                                                                         *)
(* An upload run captures the date, prepares a manifest - which takes a new *)
(* revision when the account changed - and sends the manifest, its chunks  *)
(* and the commit, keeping the date's entry in step. Runs overlap: a sync  *)
(* lock older than two minutes is taken over, and the run that held it goes *)
(* on. Any request may fail before or after the Worker handled it, or be   *)
(* handled after the run gave up; the service worker may stop at any point. *)
(*                                                                         *)
(* Abstractions. The rows of an account are a counter of its changes; a    *)
(* manifest is its position in the sequence of all manifests prepared,     *)
(* which stands for its hash: generatedAt makes each differ. The chunks of *)
(* a manifest are one. Retry ages and back-off are the runs' own pace.     *)
(***************************************************************************)
EXTENDS Naturals, Sequences, FiniteSets

CONSTANTS Dates,       \* dates are numbers: a later date is larger
          MaxTracked,  \* how many dates the device keeps an entry for
          Runners,     \* upload runs that may overlap
          Budget       \* how often accounts change, and requests fail or runs stop

ASSUME DatesAreOrdered == Dates \subseteq Nat
ASSUME BoundIsCount == MaxTracked \in Nat
ASSUME BudgetIsCounts == Budget \in [{"change", "fault"} -> Nat]

VARIABLES day,        \* the local account of each date and its raw facts
          manifests,  \* every manifest the device has prepared, in order
          entry,      \* device_account_v2_state: what the device keeps of a date
          rows,       \* the Worker's row of each date and revision
          whole,      \* manifests whose chunks the Worker has
          committed,  \* manifests the Worker committed
          head,       \* the published manifest of each date, 0 when none
          run,        \* the upload runs
          late,       \* requests given up by their run and still on their way
          left        \* what is left of Budget

device == <<day, manifests, entry>>
worker == <<rows, whole, committed, head>>
vars == <<device, worker, run, late, left>>

Facts    == {"all", "some", "none"}
Account  == [content : Nat, facts : Facts]
Manifest == [date : Dates, rev : Nat, content : Nat, facts : Facts]
NoEntry  == [rev |-> 0, made |-> 0, status |-> "none"]
Idle     == [at |-> "idle", date |-> 0, account |-> 0, made |-> 0]

Init ==
    /\ day = [d \in Dates |-> [content |-> 0, facts |-> "all"]]
    /\ manifests = <<>>
    /\ entry = [d \in Dates |-> NoEntry]
    /\ rows = [d \in Dates |-> <<>>]
    /\ whole = {} /\ committed = {}
    /\ head = [d \in Dates |-> 0]
    /\ run = [w \in Runners |-> Idle]
    /\ late = {}
    /\ left = Budget

-----------------------------------------------------------------------------
(* The local book. *)

\* A settlement adds to the date; raw facts dropped earlier stay dropped.
Edit(d) ==
    /\ left["change"] > 0
    /\ left' = [left EXCEPT !["change"] = @ - 1]
    /\ day' = [day EXCEPT ![d].content = @ + 1,
                          ![d].facts = IF @ = "all" THEN "all" ELSE "some"]
    /\ UNCHANGED <<manifests, entry, worker, run, late>>

\* Retention or compaction drops raw facts; the aggregates stay.
DropFacts(d) ==
    /\ left["change"] > 0 /\ day[d].content > 0
    /\ \E f \in {"some", "none"} :
          /\ day[d].facts = "all" \/ (day[d].facts = "some" /\ f = "none")
          /\ day' = [day EXCEPT ![d].facts = f]
    /\ left' = [left EXCEPT !["change"] = @ - 1]
    /\ UNCHANGED <<manifests, entry, worker, run, late>>

-----------------------------------------------------------------------------
(* The upload run. *)

\* buildUsageDateUploadPackage: one read of the date, used much later.
Capture(w, d) ==
    /\ run[w].at = "idle"
    /\ day[d].content > 0
    /\ run' = [run EXCEPT ![w] = [Idle EXCEPT !.at = "captured", !.date = d, !.account = day[d]]]
    /\ UNCHANGED <<device, worker, late, left>>

\* bug: one entry fewer is kept.
TrimOneMore(e) == [d \in Dates |->
    IF Cardinality({t \in Dates : t > d /\ e[t] # NoEntry}) + 1 < MaxTracked THEN e[d] ELSE NoEntry]

\* trimState keeps the entries of the newest dates.
Trim(e) == [d \in Dates |->
    IF Cardinality({t \in Dates : t > d /\ e[t] # NoEntry}) < MaxTracked THEN e[d] ELSE NoEntry]

\* An account whose raw facts are gone keeps the evidence of its last revision
\* when the aggregates are the same.
Evidence(account, previous) ==
    IF /\ account.facts = "none" /\ previous.made # 0
       /\ manifests[previous.made].content = account.content
    THEN manifests[previous.made].facts ELSE account.facts

\* bug: an account that was not published yet keeps its revision number.
ReusedRevision(e) == IF e.status \in {"published", "none"} THEN e.rev + 1 ELSE e.rev
\* A changed account takes the revision after the one its date had.
NextRevision(e) == e.rev + 1

\* prepareDeviceAccountV2Upload: one storage mutation. An account that did
\* not change keeps its manifest, and is skipped when that is published.
Prepare(w) ==
    /\ run[w].at = "captured"
    /\ LET d == run[w].date
           e == entry[d]
           new == [date |-> d, rev |-> NextRevision(e), content |-> run[w].account.content,
                   facts |-> Evidence(run[w].account, e)]
           unchanged == e.made # 0 /\ manifests[e.made] = [new EXCEPT !.rev = e.rev]
       IN IF unchanged
          THEN /\ run' = [run EXCEPT ![w] = IF e.status = "published" THEN Idle
                             ELSE [@ EXCEPT !.at = "manifest", !.account = 0, !.made = e.made]]
               /\ UNCHANGED device
          ELSE /\ manifests' = Append(manifests, new)
               /\ entry' = Trim([entry EXCEPT ![d] =
                     [rev |-> new.rev, made |-> Len(manifests'), status |-> "pending"]])
               /\ run' = [run EXCEPT ![w] = [@ EXCEPT !.at = "manifest", !.account = 0, !.made = Len(manifests')]]
               /\ UNCHANGED day
    /\ UNCHANGED <<worker, late, left>>

\* bug: whatever the date's entry is by now.
MarkAnyEntry(w, status) ==
    LET d == run[w].date
    IN entry' = [entry EXCEPT ![d] = IF @.made # 0 THEN [@ EXCEPT !.status = status] ELSE @]
\* updateDeviceAccountState: the entry only when it still is the one prepared.
Mark(w, status) ==
    LET d == run[w].date
    IN entry' = [entry EXCEPT ![d] =
          IF @.made = run[w].made THEN [@ EXCEPT !.status = status] ELSE @]

-----------------------------------------------------------------------------
(* The Worker. *)

\* The row of a manifest's revision, 0 when there is none.
RowOf(m) == LET r == rows[manifests[m].date]
            IN IF manifests[m].rev \in DOMAIN r THEN r[manifests[m].rev] ELSE 0

\* handleManifest: the same revision with another hash and a revision below the
\* highest are refused.
Refused(m) == \/ RowOf(m) \notin {0, m}
              \/ /\ RowOf(m) = 0
                 /\ \E r \in DOMAIN rows[manifests[m].date] : r > manifests[m].rev

PutManifest(m) ==
    /\ IF Refused(m) \/ RowOf(m) = m THEN UNCHANGED rows
       ELSE LET r == rows[manifests[m].date]
            IN rows' = [rows EXCEPT ![manifests[m].date] =
                  [v \in DOMAIN r \cup {manifests[m].rev} |-> IF v \in DOMAIN r THEN r[v] ELSE m]]
    /\ UNCHANGED <<whole, committed, head>>

PutChunk(m) ==
    /\ whole' = IF RowOf(m) = m THEN whole \cup {m} ELSE whole
    /\ UNCHANGED <<rows, committed, head>>

\* handleCommit: refused while chunks are missing; a commit is never undone.
Committable(m) == RowOf(m) = m /\ m \in whole

\* bug: the head is not compared.
NeverStands(m) == FALSE
\* A head of the same or a later revision stands.
Stands(m) == LET h == head[manifests[m].date]
             IN h # 0 /\ manifests[h].rev >= manifests[m].rev

\* publishCommittedDeviceAccountV2, as AccountPublication has it: the head
\* moves to a later revision, or the publication failed.
PutCommit(m) ==
    /\ UNCHANGED <<rows, whole>>
    /\ IF ~Committable(m) THEN UNCHANGED <<committed, head, left>>
       ELSE /\ committed' = committed \cup {m}
            /\ \/ /\ head' = [head EXCEPT ![manifests[m].date] = IF Stands(m) THEN @ ELSE m]
                  /\ UNCHANGED left
               \/ /\ ~Stands(m) /\ left["fault"] > 0
                  /\ left' = [left EXCEPT !["fault"] = @ - 1]
                  /\ UNCHANGED head

\* What a request does when the Worker handles it.
Handle(kind, m) ==
    \/ kind = "manifest" /\ PutManifest(m) /\ UNCHANGED left
    \/ kind = "chunk" /\ PutChunk(m) /\ UNCHANGED left
    \/ kind = "commit" /\ PutCommit(m)

-----------------------------------------------------------------------------
(* Requests and answers. *)

\* The manifest is accepted, or already committed, or the run fails.
SendManifest(w) ==
    /\ run[w].at = "manifest"
    /\ Handle("manifest", run[w].made)
    /\ run' = [run EXCEPT ![w].at = IF Refused(run[w].made) THEN "failed"
                                   ELSE IF run[w].made \in committed THEN "kept" ELSE "accepted"]
    /\ UNCHANGED <<device, late>>

\* The chunks are skipped when the manifest was already committed.
MarkUploading(w) ==
    /\ run[w].at \in {"accepted", "kept"}
    /\ Mark(w, "uploading")
    /\ run' = [run EXCEPT ![w].at = IF @ = "kept" THEN "commit" ELSE "chunk"]
    /\ UNCHANGED <<day, manifests, worker, late, left>>

SendChunks(w) ==
    /\ run[w].at = "chunk"
    /\ Handle("chunk", run[w].made)
    /\ run' = [run EXCEPT ![w].at = "commit"]
    /\ UNCHANGED <<device, late>>

SendCommit(w) ==
    /\ run[w].at = "commit"
    /\ Handle("commit", run[w].made)
    /\ LET m == run[w].made
           h == head'[manifests[m].date]
       IN run' = [run EXCEPT ![w].at =
             IF ~Committable(m) THEN "failed"
             ELSE IF h # 0 /\ manifests[h].rev >= manifests[m].rev THEN "published"
             ELSE "received"]
    /\ UNCHANGED <<device, late>>

\* bug: an account the Worker has but did not publish counts as published.
ReceivedIsPublished(at) == IF at = "failed" THEN "pending" ELSE "published"
\* What a run leaves: published, publish_pending or back to pending.
EndStatus(at) == CASE at = "published" -> "published"
                   [] at = "received"  -> "publish_pending" [] OTHER -> "pending"

Finish(w) ==
    /\ run[w].at \in {"published", "received", "failed"}
    /\ Mark(w, EndStatus(run[w].at))
    /\ run' = [run EXCEPT ![w] = Idle]
    /\ UNCHANGED <<day, manifests, worker, late, left>>

\* A request fails: it was lost, or the Worker handles it after all.
Lose(w) ==
    /\ run[w].at \in {"manifest", "chunk", "commit"}
    /\ left["fault"] > 0
    /\ left' = [left EXCEPT !["fault"] = @ - 1]
    /\ \/ late' = late \cup {<<run[w].at, run[w].made>>}
       \/ UNCHANGED late
    /\ run' = [run EXCEPT ![w].at = "failed"]
    /\ UNCHANGED <<device, worker>>

\* A request given up by its run is handled.
Arrive(q) ==
    /\ q \in late
    /\ Handle(q[1], q[2])
    /\ late' = late \ {q}
    /\ UNCHANGED <<device, run>>

\* The service worker stops: its runs end where they are.
Stop ==
    /\ left["fault"] > 0
    /\ \E w \in Runners : run[w].at # "idle"
    /\ left' = [left EXCEPT !["fault"] = @ - 1]
    /\ run' = [w \in Runners |-> Idle]
    /\ UNCHANGED <<device, worker, late>>

Step(w) == \/ Prepare(w) \/ SendManifest(w) \/ MarkUploading(w)
           \/ SendChunks(w) \/ SendCommit(w) \/ Finish(w)

Next ==
    \/ \E d \in Dates : Edit(d) \/ DropFacts(d)
    \/ \E w \in Runners : \/ \E d \in Dates : Capture(w, d)
                          \/ Step(w) \/ Lose(w)
    \/ \E q \in late : Arrive(q)
    \/ Stop

Spec == Init /\ [][Next]_vars

\* Every sync run uploads each date of the week again, and goes on to its end.
FairSpec ==
    /\ Spec
    /\ \A w \in Runners : WF_vars(Step(w))
    /\ \A d \in Dates : SF_vars(\E w \in Runners : Capture(w, d))
=============================================================================
