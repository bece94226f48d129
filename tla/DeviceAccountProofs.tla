------------------------- MODULE DeviceAccountProofs -------------------------
EXTENDS DeviceAccountProperties, SequenceTheorems, FiniteSetTheorems, TLAPS

(***************************************************************************)
(* Proofs about the upload of a device's accounts, for every set of dates, *)
(* every number of tracked dates and of overlapping runs, and every number *)
(* of lost, failed and late requests.                                      *)
(*                                                                         *)
(* The manifests only grow, the Worker's row of a revision is never        *)
(* replaced, and heads only advance; so what a run has seen published      *)
(* stays published (Done), however late the run writes its mark.           *)
(***************************************************************************)

Statuses == {"none", "pending", "uploading", "publish_pending", "published"}
Entry == [rev : Nat, made : Nat, status : Statuses]
Sending == {"manifest", "accepted", "kept", "chunk", "commit", "published", "received", "failed"}
RunType == [at : Sending \cup {"idle", "captured"}, date : Nat,
            account : Account \cup {0}, made : Nat]

\* The Worker publishes this manifest or a later one of its date, and has it.
Done(m) ==
    /\ m \in committed /\ RowOf(m) = m
    /\ head[manifests[m].date] # 0
    /\ manifests[head[manifests[m].date]].rev >= manifests[m].rev

DeviceTypes ==
    /\ day \in [Dates -> Account]
    /\ manifests \in Seq(Manifest)
    /\ entry \in [Dates -> Entry]
    /\ run \in [Runners -> RunType]
    /\ late \subseteq {"manifest", "chunk", "commit"} \X Made
    /\ left \in [{"change", "fault"} -> Nat]

\* An entry names a manifest of its date, and calls it published when it is.
EntryInv(d) ==
    /\ entry[d].made \in Made \cup {0}
    /\ entry[d].made # 0 => /\ manifests[entry[d].made].date = d
                            /\ manifests[entry[d].made].rev = entry[d].rev
    /\ entry[d].status = "published" => entry[d].made # 0 /\ Done(entry[d].made)

\* A run that sends has a manifest of its date.
RunInv(w) ==
    /\ run[w].at # "idle" => run[w].date \in Dates
    /\ run[w].at = "captured" => run[w].account \in Account
    /\ run[w].at \in Sending => /\ run[w].made \in Made
                                /\ manifests[run[w].made].date = run[w].date
    /\ run[w].made \in Made \cup {0}
    /\ run[w].at = "published" => Done(run[w].made)

\* The Worker's tables name manifests the device has made.
WorkerInv ==
    /\ rows = [d \in Dates |-> rows[d]]
    /\ \A d \in Dates : \A r \in DOMAIN rows[d] :
          rows[d][r] \in Made /\ manifests[rows[d][r]].date = d /\ manifests[rows[d][r]].rev = r
    /\ whole \subseteq Made /\ committed \subseteq whole
    /\ \A m \in whole : RowOf(m) = m
    /\ head \in [Dates -> Nat]
    /\ \A d \in Dates : head[d] # 0 => head[d] \in Made /\ manifests[head[d]].date = d

UploadInv ==
    /\ DeviceTypes /\ WorkerInv
    /\ \A d \in Dates : EntryInv(d)
    /\ \A w \in Runners : RunInv(w)

\* No date's entry has been dropped: there are at most as many as are kept.
AllTracked == IsFiniteSet(Dates) /\ Cardinality(Dates) <= MaxTracked
\* Then a date's entry has its latest revision.
NewestInv ==
    AllTracked => /\ \A m \in Made : manifests[m].rev <= entry[manifests[m].date].rev
                  /\ OneAccountPerRevision

HeadsAdvance ==
    \A d \in Dates : head[d] # 0 =>
        head'[d] # 0 /\ manifests'[head'[d]].rev >= manifests[head[d]].rev

\* What the Worker never undoes.
WorkerKeeps ==
    /\ WorkerInv' /\ HeadsAdvance
    /\ \A x \in Made : Done(x) => Done(x)'
    /\ left' \in [{"change", "fault"} -> Nat]

(***************************************************************************)
(* The manifests and the Worker.                                           *)
(***************************************************************************)
\* A manifest has a date of the device and a revision.
LEMMA ManifestParts ==
    ASSUME DeviceTypes, NEW m \in Made
    PROVE  /\ manifests[m] \in Manifest /\ manifests[m].date \in Dates
           /\ manifests[m].rev \in Nat /\ m \in Nat \ {0}
<1>1. manifests[m] \in Manifest
  BY ElementOfSeq DEF DeviceTypes, Made
<1>2. Len(manifests) \in Nat
  BY LenProperties DEF DeviceTypes
<1> QED  BY <1>1, <1>2 DEF Manifest, Made

\* Nothing changes at the Worker.
LEMMA WorkerRests ==
    ASSUME DeviceTypes, WorkerInv, UNCHANGED <<manifests, worker>>
    PROVE  /\ WorkerInv' /\ HeadsAdvance /\ \A x \in Made : Done(x) => Done(x)'
<1>1. \A m : RowOf(m)' = RowOf(m)
  BY DEF worker, RowOf
<1>2. WorkerInv'
  BY <1>1 DEF WorkerInv, worker, Made
<1>3. HeadsAdvance
  <2>1. \A d \in Dates : head[d] # 0 => manifests[head[d]].rev \in Nat
    BY ManifestParts DEF WorkerInv
  <2> QED  BY <2>1 DEF HeadsAdvance, worker
<1>4. \A x \in Made : Done(x) => Done(x)'
  BY <1>1 DEF Done, worker
<1> QED  BY <1>2, <1>3, <1>4

LEMMA PutManifestKeeps ==
    ASSUME DeviceTypes, WorkerInv, NEW m \in Made, PutManifest(m), manifests' = manifests,
           left' = left
    PROVE  WorkerKeeps
<1> DEFINE d == manifests[m].date
           v == manifests[m].rev
           r == rows[d]
           n == [u \in DOMAIN r \cup {v} |-> IF u \in DOMAIN r THEN r[u] ELSE m]
<1>0. d \in Dates /\ v \in Nat
  BY ManifestParts
<1>1. CASE Refused(m) \/ RowOf(m) = m
  <2>1. UNCHANGED <<manifests, worker>>
    BY <1>1 DEF PutManifest, worker
  <2> QED  BY <2>1, WorkerRests DEF WorkerKeeps, DeviceTypes
<1>2. CASE ~(Refused(m) \/ RowOf(m) = m)
  <2>1. rows' = [rows EXCEPT ![d] = n] /\ UNCHANGED <<whole, committed, head>>
    BY <1>2 DEF PutManifest
  <2>2. DOMAIN rows = Dates /\ rows' = [t \in Dates |-> IF t = d THEN n ELSE rows[t]]
    BY <2>1 DEF WorkerInv
  <2>3. /\ DOMAIN n = DOMAIN r \cup {v}
        /\ \A u \in DOMAIN n : n[u] = IF u \in DOMAIN r THEN r[u] ELSE m
    OBVIOUS
  <2> HIDE DEF n, r
  <2>4. ASSUME NEW t \in Dates, NEW u \in DOMAIN rows'[t]
        PROVE  /\ rows'[t][u] \in Made /\ manifests[rows'[t][u]].date = t
               /\ manifests[rows'[t][u]].rev = u
    <3>1. CASE t # d
      <4>1. rows'[t] = rows[t]
        BY <2>2, <3>1
      <4> QED  BY <2>4, <4>1 DEF WorkerInv
    <3>2. CASE t = d
      <4>1. rows'[t] = n
        BY <2>2, <3>2, <1>0
      <4>2. CASE u \in DOMAIN r
        BY <1>0, <2>3, <2>4, <3>2, <4>1, <4>2 DEF WorkerInv, r
      <4>3. CASE u \notin DOMAIN r
        BY <2>3, <2>4, <3>2, <4>1, <4>3
      <4> QED  BY <4>2, <4>3
    <3> QED  BY <3>1, <3>2
  <2>5. ASSUME NEW x \in Made, RowOf(x) = x
        PROVE  RowOf(x)' = x
    <3>1. x # 0 /\ manifests[x].date \in Dates
      BY ManifestParts
    <3>2. /\ manifests[x].rev \in DOMAIN rows[manifests[x].date]
          /\ rows[manifests[x].date][manifests[x].rev] = x
      BY <2>5, <3>1 DEF RowOf
    <3>3. CASE manifests[x].date # d
      <4>1. rows'[manifests[x].date] = rows[manifests[x].date]
        BY <2>2, <3>1, <3>3
      <4> QED  BY <3>2, <4>1 DEF RowOf
    <3>4. CASE manifests[x].date = d
      <4>1. rows'[d] = n
        BY <1>0, <2>2
      <4>2. manifests[x].rev \in DOMAIN n /\ n[manifests[x].rev] = x
        BY <2>3, <3>2, <3>4 DEF r
      <4> HIDE DEF d
      <4> QED  BY <3>4, <4>1, <4>2 DEF RowOf
    <3> QED  BY <3>3, <3>4
  <2>6. WorkerInv'
    <3>1. rows' = [t \in Dates |-> rows'[t]]
      BY <2>2
    <3>2. \A x \in whole' : RowOf(x)' = x
      BY <2>1, <2>5 DEF WorkerInv
    <3> QED  BY <2>1, <2>4, <3>1, <3>2 DEF WorkerInv, Made
  <2>7. HeadsAdvance
    <3>1. \A t \in Dates : head[t] # 0 => manifests[head[t]].rev \in Nat
      BY ManifestParts DEF WorkerInv
    <3> QED  BY <2>1, <3>1 DEF HeadsAdvance
  <2>8. \A x \in Made : Done(x) => Done(x)'
    BY <2>1, <2>5 DEF Done
  <2> QED  BY <2>6, <2>7, <2>8 DEF WorkerKeeps, DeviceTypes
<1> QED  BY <1>1, <1>2

LEMMA PutChunkKeeps ==
    ASSUME DeviceTypes, WorkerInv, NEW m \in Made, PutChunk(m), manifests' = manifests,
           left' = left
    PROVE  WorkerKeeps
<1>1. UNCHANGED <<rows, committed, head>> /\ whole \subseteq whole'
  BY DEF PutChunk
<1>2. \A x : RowOf(x)' = RowOf(x)
  BY <1>1 DEF RowOf
<1>3. \A x \in whole' : x \in Made /\ RowOf(x) = x
  BY DEF PutChunk, WorkerInv
<1>4. WorkerInv'
  BY <1>1, <1>2, <1>3 DEF WorkerInv, Made
<1>5. HeadsAdvance
  <2>1. \A t \in Dates : head[t] # 0 => manifests[head[t]].rev \in Nat
    BY ManifestParts DEF WorkerInv
  <2> QED  BY <1>1, <2>1 DEF HeadsAdvance
<1>6. \A x \in Made : Done(x) => Done(x)'
  BY <1>1, <1>2 DEF Done
<1> QED  BY <1>4, <1>5, <1>6 DEF WorkerKeeps, DeviceTypes

LEMMA PutCommitKeeps ==
    ASSUME DeviceTypes, WorkerInv, NEW m \in Made, PutCommit(m), manifests' = manifests
    PROVE  WorkerKeeps
<1> DEFINE d == manifests[m].date
<1>0. d \in Dates /\ manifests[m].rev \in Nat /\ m \in Nat \ {0}
  BY ManifestParts
<1>1. \A x : RowOf(x)' = RowOf(x)
  BY DEF RowOf, PutCommit
<1>2. \A t \in Dates : head[t] # 0 => head[t] \in Made /\ manifests[head[t]].rev \in Nat
  BY ManifestParts DEF WorkerInv
<1>3. left' \in [{"change", "fault"} -> Nat]
  <2>1. left' = left \/ (left["fault"] > 0 /\ left' = [left EXCEPT !["fault"] = @ - 1])
    BY DEF PutCommit
  <2> QED  BY <2>1 DEF DeviceTypes
<1>4. /\ UNCHANGED <<rows, whole>> /\ committed \subseteq committed'
      /\ committed' \subseteq whole
      /\ head' = head \/ (~Stands(m) /\ head' = [head EXCEPT ![d] = m])
  <2>1. CASE ~Committable(m)
    BY <2>1 DEF PutCommit, WorkerInv
  <2>2. CASE Committable(m)
    <3>1. committed' = committed \cup {m} /\ m \in whole /\ UNCHANGED <<rows, whole>>
      BY <2>2 DEF PutCommit, Committable
    <3>2. head' = head \/ head' = [head EXCEPT ![d] = IF Stands(m) THEN @ ELSE m]
      BY <2>2 DEF PutCommit
    <3> QED  BY <3>1, <3>2 DEF WorkerInv
  <2> QED  BY <2>1, <2>2
<1>5. HeadsAdvance /\ head' \in [Dates -> Nat]
      /\ \A t \in Dates : head'[t] # 0 => head'[t] \in Made /\ manifests[head'[t]].date = t
  <2>1. CASE head' = head
    BY <1>2, <2>1 DEF HeadsAdvance, WorkerInv
  <2>2. CASE ~Stands(m) /\ head' = [head EXCEPT ![d] = m]
    <3>1. \A t \in Dates : head'[t] = IF t = d THEN m ELSE head[t]
      BY <2>2 DEF WorkerInv
    <3>2. head[d] # 0 => manifests[m].rev >= manifests[head[d]].rev
      BY <1>0, <1>2, <2>2 DEF Stands
    <3>3. HeadsAdvance
      <4> HIDE DEF d
      <4> QED  BY <1>0, <1>2, <3>1, <3>2 DEF HeadsAdvance
    <3> QED  BY <1>0, <2>2, <3>1, <3>3 DEF WorkerInv
  <2> QED  BY <1>4, <2>1, <2>2
<1>6. WorkerInv'
  BY <1>1, <1>4, <1>5 DEF WorkerInv, Made
<1>7. ASSUME NEW x \in Made, Done(x) PROVE Done(x)'
  <2>1. manifests[x].date \in Dates /\ manifests[x].rev \in Nat
    BY ManifestParts
  <2>2. /\ head'[manifests[x].date] # 0
        /\ manifests[head'[manifests[x].date]].rev >= manifests[head[manifests[x].date]].rev
        /\ manifests[head[manifests[x].date]].rev >= manifests[x].rev
    BY <1>5, <1>7, <2>1 DEF HeadsAdvance, Done
  <2>3. /\ manifests[head[manifests[x].date]].rev \in Nat
        /\ manifests[head'[manifests[x].date]].rev \in Nat
    <3>1. head[manifests[x].date] \in Made /\ head'[manifests[x].date] \in Made
      BY <1>2, <1>5, <1>7, <2>1, <2>2 DEF Done
    <3> QED  BY <3>1, ManifestParts
  <2>4. manifests[head'[manifests[x].date]].rev >= manifests[x].rev
    BY <2>1, <2>2, <2>3
  <2> QED  BY <1>1, <1>4, <1>7, <2>2, <2>4 DEF Done
<1> QED  BY <1>3, <1>5, <1>6, <1>7 DEF WorkerKeeps

\* Whatever request the Worker handles.
LEMMA HandleKeeps ==
    ASSUME DeviceTypes, WorkerInv, NEW kind, NEW m \in Made, Handle(kind, m),
           manifests' = manifests
    PROVE  WorkerKeeps
BY PutManifestKeeps, PutChunkKeeps, PutCommitKeeps DEF Handle

(***************************************************************************)
(* The entries and the runs.                                               *)
(***************************************************************************)
\* What the device keeps of a date still holds.
LEMMA EntryStays ==
    ASSUME NEW d \in Dates, EntryInv(d), entry'[d] = entry[d], manifests' = manifests,
           \A x \in Made : Done(x) => Done(x)'
    PROVE  EntryInv(d)'
BY DEF EntryInv, Made

\* So does what a run has prepared.
LEMMA RunStays ==
    ASSUME NEW w \in Runners, RunInv(w), run'[w] = run[w], manifests' = manifests,
           \A x \in Made : Done(x) => Done(x)'
    PROVE  RunInv(w)'
BY DEF RunInv, Made, Sending

\* A run that goes on changes nothing of the others.
LEMMA RunGoesOn ==
    ASSUME DeviceTypes, NEW w \in Runners, NEW x \in RunType, run' = [run EXCEPT ![w] = x]
    PROVE  /\ run' \in [Runners -> RunType] /\ run'[w] = x
           /\ \A u \in Runners \ {w} : run'[u] = run[u]
BY DEF DeviceTypes

\* A run that only gets to its next stage keeps its manifest.
LEMMA RunMoves ==
    ASSUME DeviceTypes, NEW w \in Runners, RunInv(w), NEW stage \in Sending,
           run[w].at \in Sending, run' = [run EXCEPT ![w].at = stage],
           manifests' = manifests, \A x : stage = "published" /\ x = run[w].made => Done(x)'
    PROVE  /\ run' \in [Runners -> RunType] /\ RunInv(w)'
           /\ \A u \in Runners \ {w} : run'[u] = run[u]
<1> DEFINE x == [run[w] EXCEPT !.at = stage]
<1>1. x \in RunType /\ x.at = stage /\ x.made = run[w].made /\ x.date = run[w].date
  BY DEF DeviceTypes, RunType
<1>2. run' = [run EXCEPT ![w] = x]
  OBVIOUS
<1> HIDE DEF x
<1>3. /\ run' \in [Runners -> RunType] /\ run'[w] = x
      /\ \A u \in Runners \ {w} : run'[u] = run[u]
  BY <1>1, <1>2, RunGoesOn
<1>4. RunInv(w)'
  BY <1>1, <1>3 DEF RunInv, Sending, Made
<1> QED  BY <1>3, <1>4

\* A run at rest.
LEMMA IdleRun == Idle \in RunType /\ Idle.at = "idle" /\ Idle.made = 0
BY DEF Idle, RunType

\* The mark of a run reaches only the entry of its own manifest.
LEMMA MarkKeeps ==
    ASSUME DeviceTypes, NEW w \in Runners, NEW status \in Statuses, Mark(w, status),
           RunInv(w), run[w].at \in Sending, \A d \in Dates : EntryInv(d),
           manifests' = manifests, \A x \in Made : Done(x) => Done(x)',
           \A x : status = "published" /\ x = run[w].made => Done(x)'
    PROVE  entry' \in [Dates -> Entry] /\ \A d \in Dates : EntryInv(d)'
<1>1. run[w].date \in Dates /\ run[w].made \in Made
  BY DEF RunInv, Sending
<1>2. \A d \in Dates : entry[d] \in Entry
  BY DEF DeviceTypes
<1>3. entry' = [d \in Dates |-> IF d = run[w].date /\ entry[d].made = run[w].made
                               THEN [entry[d] EXCEPT !.status = status] ELSE entry[d]]
  BY <1>1 DEF Mark, DeviceTypes
<1>4. entry' \in [Dates -> Entry]
  BY <1>2, <1>3 DEF Entry
<1>5. ASSUME NEW d \in Dates PROVE EntryInv(d)'
  <2>1. CASE entry'[d] = entry[d]
    BY <2>1, EntryStays
  <2>2. CASE entry[d].made = run[w].made /\ entry'[d] = [entry[d] EXCEPT !.status = status]
    <3>1. entry'[d].made = entry[d].made /\ entry'[d].rev = entry[d].rev
          /\ entry'[d].status = status
      BY <1>2, <2>2 DEF Entry
    <3>2. entry[d].made # 0
      BY <1>1, <2>2, ManifestParts
    <3> QED  BY <2>2, <3>1, <3>2 DEF EntryInv, Made
  <2> QED  BY <1>3, <2>1, <2>2
<1> QED  BY <1>4, <1>5

\* The invariant after a step that prepares nothing.
LEMMA SameManifests ==
    ASSUME UploadInv, manifests' = manifests, day' \in [Dates -> Account],
           entry' \in [Dates -> Entry], run' \in [Runners -> RunType],
           late' \subseteq {"manifest", "chunk", "commit"} \X Made,
           WorkerKeeps, \A d \in Dates : EntryInv(d)', \A w \in Runners : RunInv(w)'
    PROVE  UploadInv'
BY DEF UploadInv, DeviceTypes, WorkerKeeps, Made

\* A request of a run: the Worker handles it, and the run gets to its next stage.
LEMMA SendKeeps ==
    ASSUME UploadInv, NEW w \in Runners, run[w].at \in Sending, NEW kind,
           Handle(kind, run[w].made), UNCHANGED <<device, late>>,
           NEW stage \in Sending, run' = [run EXCEPT ![w].at = stage],
           \A x : stage = "published" /\ x = run[w].made => Done(x)'
    PROVE  UploadInv' /\ HeadsAdvance
<1>1. run[w].made \in Made /\ RunInv(w)
  BY DEF UploadInv, RunInv
<1>2. WorkerKeeps
  BY <1>1, HandleKeeps DEF UploadInv, device
<1>3. /\ run' \in [Runners -> RunType] /\ RunInv(w)'
      /\ \A u \in Runners \ {w} : run'[u] = run[u]
  BY <1>1, RunMoves DEF UploadInv, device
<1>4. \A u \in Runners : RunInv(u)'
  BY <1>2, <1>3, RunStays DEF UploadInv, WorkerKeeps, device
<1>5. \A d \in Dates : EntryInv(d)'
  BY <1>2, EntryStays DEF UploadInv, WorkerKeeps, device
<1> QED
  BY <1>2, <1>3, <1>4, <1>5, SameManifests DEF UploadInv, DeviceTypes, WorkerKeeps, device

LEMMA SendManifestKeeps ==
    ASSUME UploadInv, NEW w \in Runners, SendManifest(w)
    PROVE  UploadInv' /\ HeadsAdvance
<1> DEFINE stage == IF Refused(run[w].made) THEN "failed"
                    ELSE IF run[w].made \in committed THEN "kept" ELSE "accepted"
<1>1. stage \in Sending /\ stage # "published" /\ run[w].at \in Sending
  BY DEF SendManifest, Sending
<1>2. /\ Handle("manifest", run[w].made) /\ UNCHANGED <<device, late>>
      /\ run' = [run EXCEPT ![w].at = stage]
  BY DEF SendManifest
<1> HIDE DEF stage
<1> QED  BY <1>1, <1>2, SendKeeps

LEMMA SendChunksKeeps ==
    ASSUME UploadInv, NEW w \in Runners, SendChunks(w)
    PROVE  UploadInv' /\ HeadsAdvance
<1>1. "commit" \in Sending /\ run[w].at \in Sending
  BY DEF SendChunks, Sending
<1> QED  BY <1>1, SendKeeps DEF SendChunks

\* The answer to a commit says "published" only when it is.
LEMMA SendCommitKeeps ==
    ASSUME UploadInv, NEW w \in Runners, SendCommit(w)
    PROVE  UploadInv' /\ HeadsAdvance
<1> DEFINE m == run[w].made
           h == head'[manifests[m].date]
           stage == IF ~Committable(m) THEN "failed"
                    ELSE IF h # 0 /\ manifests[h].rev >= manifests[m].rev THEN "published"
                    ELSE "received"
<1>1. /\ run[w].at \in Sending /\ stage \in Sending
      /\ Handle("commit", m) /\ UNCHANGED <<device, late>>
      /\ run' = [run EXCEPT ![w].at = stage]
  BY DEF SendCommit, Sending
<1>2. ASSUME stage = "published" PROVE \A x : x = m => Done(x)'
  <2>1. Committable(m) /\ h # 0 /\ manifests[h].rev >= manifests[m].rev
    BY <1>2
  <2>2. m \in committed' /\ rows' = rows /\ manifests' = manifests /\ RowOf(m) = m
    BY <1>1, <2>1 DEF Handle, PutCommit, Committable, device
  <2>3. \A x : RowOf(x)' = RowOf(x)
    BY <2>2 DEF RowOf
  <2> QED  BY <2>1, <2>2, <2>3 DEF Done
<1> HIDE DEF stage
<1> QED  BY <1>1, <1>2, SendKeeps

\* A new manifest changes nothing about those there are.
LEMMA ManifestsGrow ==
    ASSUME UploadInv, NEW new \in Manifest, manifests' = Append(manifests, new),
           UNCHANGED worker
    PROVE  /\ manifests' \in Seq(Manifest) /\ Len(manifests') = Len(manifests) + 1
           /\ Len(manifests') \in Made' /\ Made \subseteq Made'
           /\ manifests'[Len(manifests')] = new
           /\ \A x \in Made : manifests'[x] = manifests[x]
           /\ \A x \in Made : Done(x) => Done(x)'
           /\ WorkerInv' /\ HeadsAdvance
           /\ \A d \in Dates : entry'[d] = entry[d] => EntryInv(d)'
           /\ \A w \in Runners : run'[w] = run[w] => RunInv(w)'
<1> USE DEF UploadInv
<1>1. manifests \in Seq(Manifest) /\ Len(manifests) \in Nat
  BY LenProperties DEF DeviceTypes
<1>2. /\ manifests' \in Seq(Manifest) /\ Len(manifests') = Len(manifests) + 1
      /\ manifests'[Len(manifests) + 1] = new
      /\ \A x \in 1..Len(manifests) : manifests'[x] = manifests[x]
  BY <1>1, AppendProperties
<1>0. UNCHANGED rows /\ UNCHANGED whole /\ UNCHANGED committed /\ UNCHANGED head
  BY DEF worker
<1>3. Made \subseteq Made' /\ Len(manifests') \in Made'
  BY <1>1, <1>2 DEF Made
<1>4. \A x \in Made : manifests'[x] = manifests[x]
  BY <1>2 DEF Made
<1>5. \A x \in Made : RowOf(x)' = RowOf(x)
  BY <1>4 DEF RowOf, worker
<1>6. \A d \in Dates : head[d] # 0 =>
          head[d] \in Made /\ manifests'[head[d]] = manifests[head[d]]
  BY <1>4 DEF WorkerInv
<1>7. WorkerInv'
  <2>1. rows' = [d \in Dates |-> rows'[d]]
    BY DEF WorkerInv, worker
  <2>2. \A d \in Dates : \A r \in DOMAIN rows'[d] :
            /\ rows'[d][r] \in Made' /\ manifests'[rows'[d][r]].date = d
            /\ manifests'[rows'[d][r]].rev = r
    <3> SUFFICES ASSUME NEW d \in Dates, NEW r \in DOMAIN rows[d]
                 PROVE  /\ rows[d][r] \in Made' /\ manifests'[rows[d][r]].date = d
                        /\ manifests'[rows[d][r]].rev = r
      BY <1>0
    <3>1. /\ rows[d][r] \in Made /\ manifests[rows[d][r]].date = d
          /\ manifests[rows[d][r]].rev = r
      BY DEF WorkerInv
    <3> QED  BY <1>3, <1>4, <3>1
  <2>3. whole' \subseteq Made' /\ committed' \subseteq whole' /\ \A x \in whole' : RowOf(x)' = x
    BY <1>3, <1>5 DEF WorkerInv, worker
  <2>4. /\ head' \in [Dates -> Nat]
        /\ \A d \in Dates : head'[d] # 0 => head'[d] \in Made' /\ manifests'[head'[d]].date = d
    BY <1>3, <1>6 DEF WorkerInv, worker
  <2> QED  BY <2>1, <2>2, <2>3, <2>4 DEF WorkerInv
<1>8. HeadsAdvance
  <2>1. \A d \in Dates : head[d] # 0 => manifests[head[d]].rev \in Nat
    BY <1>6, ManifestParts
  <2>2. ASSUME NEW d \in Dates, head[d] # 0
        PROVE  head'[d] # 0 /\ manifests'[head'[d]].rev >= manifests[head[d]].rev
    <3>1. head'[d] = head[d] /\ manifests'[head[d]] = manifests[head[d]]
      BY <1>0, <1>6, <2>2
    <3> QED  BY <2>1, <2>2, <3>1
  <2> QED  BY <2>2 DEF HeadsAdvance
<1>9. ASSUME NEW x \in Made, Done(x) PROVE Done(x)'
  <2>1. manifests[x].date \in Dates
    BY ManifestParts
  <2>2. manifests'[head[manifests[x].date]] = manifests[head[manifests[x].date]]
    BY <1>6, <1>9, <2>1 DEF Done
  <2> QED  BY <1>4, <1>5, <1>9, <2>2 DEF Done, worker
<1>10. ASSUME NEW d \in Dates, entry'[d] = entry[d] PROVE EntryInv(d)'
  <2>1. EntryInv(d)
    OBVIOUS
  <2> QED  BY <1>3, <1>4, <1>9, <1>10, <2>1 DEF EntryInv
<1>11. ASSUME NEW w \in Runners, run'[w] = run[w] PROVE RunInv(w)'
  <2>1. RunInv(w)
    OBVIOUS
  <2> QED  BY <1>3, <1>4, <1>9, <1>11, <2>1 DEF RunInv, Sending
<1> QED
  BY <1>2, <1>3, <1>4, <1>7, <1>8, <1>9, <1>10, <1>11

\* The evidence of an account is evidence.
LEMMA EvidenceType ==
    ASSUME DeviceTypes, NEW a \in Account, NEW d \in Dates, EntryInv(d)
    PROVE  Evidence(a, entry[d]) \in Facts
<1>1. CASE entry[d].made = 0
  BY <1>1 DEF Evidence, Account
<1>2. CASE entry[d].made # 0
  <2>1. manifests[entry[d].made] \in Manifest
    BY <1>2, ManifestParts DEF EntryInv
  <2> QED  BY <2>1 DEF Evidence, Account, Manifest
<1> QED  BY <1>1, <1>2

\* A prepared manifest: the one of the entry, or a new one.
LEMMA PrepareKeeps ==
    ASSUME UploadInv, NEW w \in Runners, Prepare(w)
    PROVE  UploadInv' /\ HeadsAdvance
<1> USE DEF UploadInv
<1> DEFINE d == run[w].date
           e == entry[d]
           new == [date |-> d, rev |-> NextRevision(e), content |-> run[w].account.content,
                   facts |-> Evidence(run[w].account, e)]
           unchanged == e.made # 0 /\ manifests[e.made] = [new EXCEPT !.rev = e.rev]
<1>1. /\ run[w] \in RunType /\ d \in Dates /\ run[w].account \in Account
      /\ e \in Entry /\ EntryInv(d)
  BY DEF Prepare, DeviceTypes, RunInv
<1>2. new \in Manifest
  BY <1>1, EvidenceType DEF Manifest, NextRevision, Entry, Account
<1>3. UNCHANGED worker /\ UNCHANGED late /\ UNCHANGED left
  BY DEF Prepare
<1>4. CASE unchanged
  <2> DEFINE x == IF e.status = "published" THEN Idle
                  ELSE [run[w] EXCEPT !.at = "manifest", !.account = 0, !.made = e.made]
  <2>1. run' = [run EXCEPT ![w] = x] /\ UNCHANGED device
    BY <1>4 DEF Prepare
  <2>2. e.made \in Made /\ manifests[e.made].date = d /\ e.made \in Nat
    BY <1>1, <1>4, ManifestParts DEF EntryInv
  <2>3. /\ x \in RunType
        /\ x = Idle \/ (x.at = "manifest" /\ x.made = e.made /\ x.date = d)
    BY <1>1, <2>2, IdleRun DEF RunType, Sending
  <2> HIDE DEF x
  <2>4. /\ run' \in [Runners -> RunType] /\ run'[w] = x
        /\ \A u \in Runners \ {w} : run'[u] = run[u]
    BY <2>1, <2>3, RunGoesOn
  <2>5. manifests' = manifests /\ entry' = entry /\ day' = day
    BY <2>1 DEF device
  <2>6. WorkerInv' /\ HeadsAdvance /\ \A m \in Made : Done(m) => Done(m)'
    BY <1>3, <2>5, WorkerRests
  <2>7. RunInv(w)'
    BY <1>1, <2>2, <2>3, <2>4, <2>5, IdleRun DEF RunInv, Made, Sending
  <2>8. \A u \in Runners : RunInv(u)'
    BY <2>4, <2>5, <2>6, <2>7, RunStays
  <2>9. \A t \in Dates : EntryInv(t)'
    BY <2>5, <2>6, EntryStays
  <2>10. WorkerKeeps
    BY <1>3, <2>6 DEF WorkerKeeps, DeviceTypes
  <2> QED
    BY <1>3, <2>4, <2>5, <2>6, <2>8, <2>9, <2>10, SameManifests DEF DeviceTypes
<1>5. CASE ~unchanged
  <2> DEFINE m == Len(manifests')
             n == [entry EXCEPT ![d] = [rev |-> new.rev, made |-> m, status |-> "pending"]]
             x == [run[w] EXCEPT !.at = "manifest", !.account = 0, !.made = m]
  <2>1. /\ manifests' = Append(manifests, new) /\ entry' = Trim(n)
        /\ run' = [run EXCEPT ![w] = x] /\ day' = day
    BY <1>5 DEF Prepare
  <2>2. /\ manifests' \in Seq(Manifest) /\ m \in Made' /\ Made \subseteq Made'
        /\ manifests'[m] = new /\ WorkerInv' /\ HeadsAdvance
        /\ \A t \in Dates : entry'[t] = entry[t] => EntryInv(t)'
        /\ \A u \in Runners : run'[u] = run[u] => RunInv(u)'
    BY <1>2, <1>3, <2>1, ManifestsGrow
  <2>3. m \in Nat \ {0} /\ new.date = d /\ new.rev \in Nat
    BY <1>1, <1>2, <2>2, LenProperties DEF Made, Manifest
  <2> HIDE DEF m, new, unchanged
  <2>4. ASSUME NEW t \in Dates
        PROVE  entry'[t] \in Entry /\ EntryInv(t)'
    <3>1. entry'[t] = n[t] \/ entry'[t] = NoEntry
      BY <2>1 DEF Trim
    <3>2. CASE entry'[t] = NoEntry
      BY <3>2 DEF NoEntry, Entry, EntryInv, Statuses
    <3>3. CASE entry'[t] = n[t] /\ t # d
      <4>1. entry'[t] = entry[t]
        BY <3>3 DEF DeviceTypes
      <4> QED  BY <2>2, <4>1 DEF DeviceTypes
    <3>4. CASE entry'[t] = n[t] /\ t = d
      <4>1. entry'[t] = [rev |-> new.rev, made |-> m, status |-> "pending"]
        BY <3>4 DEF DeviceTypes
      <4> QED  BY <2>2, <2>3, <3>4, <4>1 DEF Entry, EntryInv, Statuses
    <3> QED  BY <3>1, <3>2, <3>3, <3>4
  <2>5. entry' \in [Dates -> Entry]
    BY <2>1, <2>4 DEF Trim
  <2>6. x \in RunType /\ x.at = "manifest" /\ x.made = m /\ x.date = d
    BY <1>1, <2>3 DEF RunType, Sending
  <2> HIDE DEF x, n
  <2>7. /\ run' \in [Runners -> RunType] /\ run'[w] = x
        /\ \A u \in Runners \ {w} : run'[u] = run[u]
    BY <2>1, <2>6, RunGoesOn
  <2>8. RunInv(w)'
    BY <1>1, <2>2, <2>3, <2>6, <2>7 DEF RunInv, Sending
  <2>9. \A u \in Runners : RunInv(u)'
    BY <2>2, <2>7, <2>8
  <2>10. DeviceTypes'
    BY <1>3, <2>1, <2>2, <2>5, <2>7 DEF DeviceTypes
  <2> QED  BY <2>2, <2>4, <2>9, <2>10
<1> QED  BY <1>4, <1>5

\* A step that leaves the manifests and the Worker alone.
LEMMA LocalStep ==
    ASSUME UploadInv, UNCHANGED <<manifests, worker>>, day' \in [Dates -> Account],
           entry' \in [Dates -> Entry], run' \in [Runners -> RunType],
           late' \subseteq {"manifest", "chunk", "commit"} \X Made,
           left' \in [{"change", "fault"} -> Nat],
           \A d \in Dates : entry'[d] = entry[d] \/ EntryInv(d)',
           \A w \in Runners : run'[w] = run[w] \/ RunInv(w)'
    PROVE  UploadInv' /\ HeadsAdvance
<1>1. WorkerInv' /\ HeadsAdvance /\ \A x \in Made : Done(x) => Done(x)'
  BY WorkerRests DEF UploadInv
<1>2. WorkerKeeps
  BY <1>1 DEF WorkerKeeps
<1>3. \A d \in Dates : EntryInv(d)'
  BY <1>1, EntryStays DEF UploadInv
<1>4. \A w \in Runners : RunInv(w)'
  BY <1>1, RunStays DEF UploadInv
<1> QED  BY <1>1, <1>2, <1>3, <1>4, SameManifests

\* A budget that is spent stays a budget.
LEMMA SpendType ==
    ASSUME DeviceTypes, NEW b \in {"change", "fault"}, left[b] > 0,
           left' = [left EXCEPT ![b] = @ - 1]
    PROVE  left' \in [{"change", "fault"} -> Nat]
BY DEF DeviceTypes

LEMMA EditKeeps ==
    ASSUME UploadInv, NEW d \in Dates, Edit(d) \/ DropFacts(d)
    PROVE  UploadInv' /\ HeadsAdvance
<1>1. /\ UNCHANGED <<manifests, worker>> /\ entry' = entry /\ run' = run /\ late' = late
      /\ left["change"] > 0 /\ left' = [left EXCEPT !["change"] = @ - 1]
  BY DEF Edit, DropFacts
<1>2. \A t \in Dates : day[t] \in Account
  BY DEF UploadInv, DeviceTypes
<1>3. day' \in [Dates -> Account]
  <2>1. CASE Edit(d)
    <3> DEFINE x == [content |-> day[d].content + 1,
                     facts |-> IF day[d].facts = "all" THEN "all" ELSE "some"]
    <3>1. day[d] = [content |-> day[d].content, facts |-> day[d].facts]
      BY <1>2 DEF Account
    <3>2. day'[d] = x
      BY <2>1, <3>1 DEF Edit, UploadInv, DeviceTypes
    <3>3. day' = [t \in Dates |-> IF t = d THEN day'[d] ELSE day[t]]
      BY <2>1 DEF Edit, UploadInv, DeviceTypes
    <3>4. x \in Account
      BY <1>2 DEF Account, Facts
    <3> QED  BY <1>2, <3>2, <3>3, <3>4
  <2>2. CASE DropFacts(d)
    <3>1. PICK f \in {"some", "none"} : day' = [day EXCEPT ![d].facts = f]
      BY <2>2 DEF DropFacts
    <3>2. [day[d] EXCEPT !.facts = f] \in Account
      BY <1>2 DEF Account, Facts
    <3> QED  BY <3>1, <3>2 DEF UploadInv, DeviceTypes
  <2> QED  BY <2>1, <2>2
<1>4. left' \in [{"change", "fault"} -> Nat]
  BY <1>1, SpendType DEF UploadInv
<1> QED
  BY <1>1, <1>3, <1>4, LocalStep DEF UploadInv, DeviceTypes

LEMMA CaptureKeeps ==
    ASSUME UploadInv, NEW w \in Runners, NEW d \in Dates, Capture(w, d)
    PROVE  UploadInv' /\ HeadsAdvance
<1> DEFINE x == [Idle EXCEPT !.at = "captured", !.date = d, !.account = day[d]]
<1>1. /\ run' = [run EXCEPT ![w] = x] /\ UNCHANGED <<device, worker, late, left>>
  BY DEF Capture
<1>2. day[d] \in Account /\ d \in Nat
  BY DatesAreOrdered DEF UploadInv, DeviceTypes
<1>3. /\ x \in RunType /\ x.at = "captured" /\ x.date = d /\ x.account = day[d]
      /\ x.made = 0
  BY <1>2 DEF Idle, RunType
<1> HIDE DEF x
<1>4. /\ run' \in [Runners -> RunType] /\ run'[w] = x
      /\ \A u \in Runners \ {w} : run'[u] = run[u]
  BY <1>1, <1>3, RunGoesOn DEF UploadInv
<1>5. RunInv(w)'
  BY <1>2, <1>3, <1>4 DEF RunInv, Sending
<1> QED
  BY <1>1, <1>4, <1>5, LocalStep DEF UploadInv, DeviceTypes, device

\* A run writes its mark, and goes on or ends.
LEMMA MarkUploadingKeeps ==
    ASSUME UploadInv, NEW w \in Runners, MarkUploading(w)
    PROVE  UploadInv' /\ HeadsAdvance
<1> DEFINE stage == IF run[w].at = "kept" THEN "commit" ELSE "chunk"
<1>1. /\ run[w].at \in Sending /\ Mark(w, "uploading") /\ stage \in Sending
      /\ stage # "published" /\ run' = [run EXCEPT ![w].at = stage]
      /\ UNCHANGED <<day, manifests, worker, late, left>>
  BY DEF MarkUploading, Sending, UploadInv, DeviceTypes
<1> HIDE DEF stage
<1>2. \A x \in Made : Done(x) => Done(x)'
  BY <1>1, WorkerRests DEF UploadInv
<1>3. entry' \in [Dates -> Entry] /\ \A d \in Dates : EntryInv(d)'
  <2>1. "uploading" \in Statuses /\ "uploading" # "published"
    BY DEF Statuses
  <2> QED  BY <1>1, <1>2, <2>1, MarkKeeps DEF UploadInv
<1>4. /\ run' \in [Runners -> RunType] /\ RunInv(w)'
      /\ \A u \in Runners \ {w} : run'[u] = run[u]
  BY <1>1, RunMoves DEF UploadInv
<1> QED
  BY <1>1, <1>3, <1>4, LocalStep DEF UploadInv, DeviceTypes

LEMMA FinishKeeps ==
    ASSUME UploadInv, NEW w \in Runners, Finish(w)
    PROVE  UploadInv' /\ HeadsAdvance
<1> DEFINE status == EndStatus(run[w].at)
<1>1. /\ run[w].at \in Sending /\ Mark(w, status) /\ status \in Statuses
      /\ status = "published" => run[w].at = "published"
      /\ run' = [run EXCEPT ![w] = Idle]
      /\ UNCHANGED <<day, manifests, worker, late, left>>
  BY DEF Finish, Sending, EndStatus, Statuses
<1> HIDE DEF status
<1>2. \A x \in Made : Done(x) => Done(x)'
  BY <1>1, WorkerRests DEF UploadInv
<1>3. \A x : status = "published" /\ x = run[w].made => Done(x)'
  BY <1>1, <1>2 DEF UploadInv, RunInv
<1>4. entry' \in [Dates -> Entry] /\ \A d \in Dates : EntryInv(d)'
  BY <1>1, <1>2, <1>3, MarkKeeps DEF UploadInv
<1>5. /\ run' \in [Runners -> RunType] /\ run'[w] = Idle
      /\ \A u \in Runners \ {w} : run'[u] = run[u]
  BY <1>1, IdleRun, RunGoesOn DEF UploadInv
<1>6. RunInv(w)'
  BY <1>5, IdleRun DEF RunInv, Sending
<1> QED
  BY <1>1, <1>4, <1>5, <1>6, LocalStep DEF UploadInv, DeviceTypes

\* A request is given up by its run, and perhaps still on its way.
LEMMA LoseKeeps ==
    ASSUME UploadInv, NEW w \in Runners, Lose(w)
    PROVE  UploadInv' /\ HeadsAdvance
<1>1. /\ run[w].at \in {"manifest", "chunk", "commit"} /\ run[w].at \in Sending
      /\ "failed" \in Sending /\ run' = [run EXCEPT ![w].at = "failed"]
      /\ UNCHANGED <<device, worker>>
      /\ left["fault"] > 0 /\ left' = [left EXCEPT !["fault"] = @ - 1]
      /\ late' = late \/ late' = late \cup {<<run[w].at, run[w].made>>}
  BY DEF Lose, Sending
<1>2. RunInv(w) /\ run[w].made \in Made
  BY <1>1 DEF UploadInv, RunInv
<1>3. late' \subseteq {"manifest", "chunk", "commit"} \X Made
  BY <1>1, <1>2 DEF UploadInv, DeviceTypes
<1>4. /\ run' \in [Runners -> RunType] /\ RunInv(w)'
      /\ \A u \in Runners \ {w} : run'[u] = run[u]
  BY <1>1, <1>2, RunMoves DEF UploadInv, device
<1>5. left' \in [{"change", "fault"} -> Nat]
  BY <1>1, SpendType DEF UploadInv
<1> QED
  BY <1>1, <1>3, <1>4, <1>5, LocalStep DEF UploadInv, DeviceTypes, device

\* ... and is handled much later.
LEMMA ArriveKeeps ==
    ASSUME UploadInv, NEW q \in late, Arrive(q)
    PROVE  UploadInv' /\ HeadsAdvance
<1>1. q[2] \in Made /\ late' \subseteq late /\ UNCHANGED <<device, run>>
  BY DEF Arrive, UploadInv, DeviceTypes
<1>2. WorkerKeeps
  BY <1>1, HandleKeeps DEF Arrive, UploadInv, device
<1>3. \A u \in Runners : RunInv(u)'
  BY <1>1, <1>2, RunStays DEF UploadInv, WorkerKeeps, device
<1>4. \A d \in Dates : EntryInv(d)'
  BY <1>1, <1>2, EntryStays DEF UploadInv, WorkerKeeps, device
<1> QED
  BY <1>1, <1>2, <1>3, <1>4, SameManifests DEF UploadInv, DeviceTypes, WorkerKeeps, device

LEMMA StopKeeps ==
    ASSUME UploadInv, Stop
    PROVE  UploadInv' /\ HeadsAdvance
<1>1. /\ run' = [w \in Runners |-> Idle] /\ UNCHANGED <<device, worker, late>>
      /\ left["fault"] > 0 /\ left' = [left EXCEPT !["fault"] = @ - 1]
  BY DEF Stop
<1>2. run' \in [Runners -> RunType] /\ \A w \in Runners : RunInv(w)'
  BY <1>1, IdleRun DEF RunInv, Sending
<1>3. left' \in [{"change", "fault"} -> Nat]
  BY <1>1, SpendType DEF UploadInv
<1> QED
  BY <1>1, <1>2, <1>3, LocalStep DEF UploadInv, DeviceTypes, device

(***************************************************************************)
(* The invariant holds initially and every step keeps it.                  *)
(***************************************************************************)
LEMMA UploadInit == Init => UploadInv
<1> SUFFICES ASSUME Init PROVE UploadInv
  OBVIOUS
<1>1. Made = {}
  BY EmptySeq DEF Init, Made
<1>2. NoEntry \in Entry /\ NoEntry.made = 0 /\ NoEntry.status = "none"
  BY DEF NoEntry, Entry, Statuses
<1>3. DeviceTypes
  <2>1. [content |-> 0, facts |-> "all"] \in Account
    BY DEF Account, Facts
  <2>2. manifests \in Seq(Manifest)
    BY EmptySeq DEF Init
  <2> QED
    BY <1>2, <2>1, <2>2, IdleRun, BudgetIsCounts DEF Init, DeviceTypes
<1>4. WorkerInv
  BY DEF Init, WorkerInv
<1>5. \A d \in Dates : EntryInv(d)
  BY <1>2 DEF Init, EntryInv
<1>6. \A w \in Runners : RunInv(w)
  BY IdleRun DEF Init, RunInv, Sending
<1> QED  BY <1>3, <1>4, <1>5, <1>6 DEF UploadInv

\* A run's step keeps the invariant, and no head goes back.
LEMMA RunKeeps ==
    ASSUME UploadInv, NEW w \in Runners,
           (\E d \in Dates : Capture(w, d)) \/ Step(w) \/ Lose(w)
    PROVE  UploadInv' /\ HeadsAdvance
<1>1. CASE \E d \in Dates : Capture(w, d)
  BY <1>1, CaptureKeeps
<1>2. CASE Prepare(w)
  BY <1>2, PrepareKeeps
<1>3. CASE SendManifest(w)
  BY <1>3, SendManifestKeeps
<1>4. CASE MarkUploading(w)
  BY <1>4, MarkUploadingKeeps
<1>5. CASE SendChunks(w)
  BY <1>5, SendChunksKeeps
<1>6. CASE SendCommit(w)
  BY <1>6, SendCommitKeeps
<1>7. CASE Finish(w)
  BY <1>7, FinishKeeps
<1>8. CASE Lose(w)
  BY <1>8, LoseKeeps
<1> QED  BY <1>1, <1>2, <1>3, <1>4, <1>5, <1>6, <1>7, <1>8 DEF Step

LEMMA UploadNext == UploadInv /\ [Next]_vars => UploadInv' /\ HeadsAdvance
<1> SUFFICES ASSUME UploadInv, [Next]_vars PROVE UploadInv' /\ HeadsAdvance
  OBVIOUS
<1>1. CASE \E d \in Dates : Edit(d) \/ DropFacts(d)
  BY <1>1, EditKeeps
<1>2. CASE \E w \in Runners : (\E d \in Dates : Capture(w, d)) \/ Step(w) \/ Lose(w)
  BY <1>2, RunKeeps
<1>3. CASE \E q \in late : Arrive(q)
  BY <1>3, ArriveKeeps
<1>4. CASE Stop
  BY <1>4, StopKeeps
<1>5. CASE UNCHANGED vars
  <2>1. UNCHANGED <<manifests, worker>> /\ UNCHANGED <<day, entry, run, late, left>>
    BY <1>5 DEF vars, device
  <2> QED  BY <2>1, LocalStep DEF UploadInv, DeviceTypes
<1> QED  BY <1>1, <1>2, <1>3, <1>4, <1>5 DEF Next

LEMMA UploadInvariant == Spec => []UploadInv
<1>1. Init => UploadInv
  BY UploadInit
<1>2. UploadInv /\ [Next]_vars => UploadInv'
  BY UploadNext
<1> QED  BY <1>1, <1>2, PTL DEF Spec

(***************************************************************************)
(* While no date's entry is dropped.                                       *)
(***************************************************************************)
\* With room for every date nothing is trimmed: at most all dates but one are
\* newer than a date.
LEMMA NothingTrimmed ==
    ASSUME AllTracked, NEW e, e = [d \in Dates |-> e[d]]
    PROVE  Trim(e) = e
<1>1. ASSUME NEW d \in Dates
      PROVE  Cardinality({t \in Dates : t > d /\ e[t] # NoEntry}) < MaxTracked
  <2> DEFINE newer == {t \in Dates : t > d /\ e[t] # NoEntry}
  <2>1. newer \in SUBSET Dates /\ d \notin newer
    BY DatesAreOrdered
  <2>2. newer # Dates
    BY <2>1
  <2> HIDE DEF newer
  <2>3. /\ IsFiniteSet(newer) /\ Cardinality(newer) <= Cardinality(Dates)
        /\ Cardinality(Dates) = Cardinality(newer) => Dates = newer
    BY <2>1, FS_Subset DEF AllTracked
  <2>4. Cardinality(newer) \in Nat /\ Cardinality(Dates) \in Nat
    BY <2>3, FS_CardinalityType DEF AllTracked
  <2>5. Cardinality(newer) < MaxTracked
    BY <2>2, <2>3, <2>4, BoundIsCount DEF AllTracked
  <2> QED  BY <2>5 DEF newer
<1> QED  BY <1>1 DEF Trim

\* A step that prepares nothing keeps every entry's revision.
LEMMA RevisionsStay ==
    ASSUME UploadInv, NewestInv, manifests' = manifests,
           \A d \in Dates : entry'[d].rev = entry[d].rev
    PROVE  NewestInv'
<1>1. \A m \in Made : manifests[m].date \in Dates
  BY ManifestParts DEF UploadInv
<1> QED  BY <1>1 DEF NewestInv, Made, OneAccountPerRevision, AllTracked

\* A mark changes no revision.
LEMMA MarkRevision ==
    ASSUME DeviceTypes, NEW w \in Runners, NEW status \in Statuses, Mark(w, status)
    PROVE  \A d \in Dates : entry'[d].rev = entry[d].rev
<1>1. \A d \in Dates : entry[d] \in Entry
  BY DEF DeviceTypes
<1>2. \A d \in Dates : entry'[d] = entry[d] \/ entry'[d] = [entry[d] EXCEPT !.status = status]
  BY DEF Mark, DeviceTypes
<1> QED  BY <1>1, <1>2 DEF Entry

\* A new revision is later than any its date had.
LEMMA PrepareIsNewest ==
    ASSUME UploadInv, NewestInv, NEW w \in Runners, Prepare(w)
    PROVE  NewestInv'
<1> DEFINE d == run[w].date
           e == entry[d]
           new == [date |-> d, rev |-> NextRevision(e), content |-> run[w].account.content,
                   facts |-> Evidence(run[w].account, e)]
           unchanged == e.made # 0 /\ manifests[e.made] = [new EXCEPT !.rev = e.rev]
<1>1. /\ run[w] \in RunType /\ d \in Dates /\ run[w].account \in Account
      /\ e \in Entry /\ EntryInv(d) /\ DeviceTypes
  BY DEF Prepare, UploadInv, DeviceTypes, RunInv
<1>2. CASE unchanged
  <2>1. UNCHANGED device
    BY <1>2 DEF Prepare
  <2> QED  BY <2>1, RevisionsStay DEF device
<1>3. CASE ~unchanged
  <2> DEFINE n == [entry EXCEPT ![d] =
                     [rev |-> new.rev, made |-> Len(manifests'), status |-> "pending"]]
  <2>1. /\ manifests' = Append(manifests, new) /\ entry' = Trim(n) /\ UNCHANGED worker
    BY <1>3 DEF Prepare
  <2>2. new \in Manifest
    BY <1>1, EvidenceType DEF Manifest, NextRevision, Entry, Account
  <2>3. new.date = d /\ new.rev = e.rev + 1
    BY DEF NextRevision
  <2> HIDE DEF new, unchanged
  <2>4. /\ Len(manifests') = Len(manifests) + 1 /\ manifests'[Len(manifests')] = new
        /\ \A x \in Made : manifests'[x] = manifests[x]
    BY <2>1, <2>2, ManifestsGrow
  <2>5. Made' = Made \cup {Len(manifests')} /\ Len(manifests') \notin Made
    BY <1>1, <2>4, LenProperties DEF Made, DeviceTypes
  <2>6. ASSUME AllTracked
        PROVE  /\ \A m \in Made' : manifests'[m].rev <= entry'[manifests'[m].date].rev
               /\ OneAccountPerRevision'
    <3>1. entry' = n
      <4>1. n = [t \in Dates |-> n[t]]
        BY <1>1 DEF DeviceTypes
      <4> HIDE DEF n
      <4> QED  BY <2>1, <2>6, <4>1, NothingTrimmed
    <3>2. \A t \in Dates : entry'[t].rev = IF t = d THEN e.rev + 1 ELSE entry[t].rev
      BY <1>1, <2>3, <3>1 DEF DeviceTypes
    <3>3. \A m \in Made : /\ manifests[m].date \in Dates /\ manifests[m].rev \in Nat
                          /\ manifests[m].rev <= entry[manifests[m].date].rev
      BY <1>1, <2>6, ManifestParts DEF NewestInv
    <3>4. \A t \in Dates : entry[t].rev \in Nat
      BY <1>1 DEF DeviceTypes, Entry
    <3>5. \A m \in Made' : manifests'[m].rev <= entry'[manifests'[m].date].rev
      <4>1. ASSUME NEW m \in Made
            PROVE  manifests'[m].rev <= entry'[manifests'[m].date].rev
        <5>1. manifests'[m] = manifests[m] /\ manifests[m].date \in Dates
          BY <2>4, <3>3
        <5>2. /\ manifests[m].rev <= entry[manifests[m].date].rev
              /\ manifests[m].rev \in Nat /\ entry[manifests[m].date].rev \in Nat
          BY <3>3, <3>4, <5>1
        <5>3. \/ entry'[manifests[m].date].rev = entry[manifests[m].date].rev
              \/ entry'[manifests[m].date].rev = entry[manifests[m].date].rev + 1
          BY <3>2, <5>1
        <5> QED  BY <5>1, <5>2, <5>3
      <4>2. manifests'[Len(manifests')].rev <= entry'[d].rev
        BY <1>1, <2>3, <2>4, <3>2, <3>4
      <4> QED  BY <2>3, <2>4, <2>5, <4>1, <4>2
    <3>6. \A m \in Made : manifests[m].date = d => manifests[m].rev # new.rev
      BY <1>1, <2>3, <3>3, <3>4
    <3>7. OneAccountPerRevision
      BY <2>6 DEF NewestInv
    <3>8. OneAccountPerRevision'
      BY <2>3, <2>4, <2>5, <3>6, <3>7 DEF OneAccountPerRevision
    <3> QED  BY <3>5, <3>8
  <2> QED  BY <2>6 DEF NewestInv, AllTracked
<1> QED  BY <1>2, <1>3

LEMMA NewestNext == UploadInv /\ NewestInv /\ [Next]_vars => NewestInv'
<1> SUFFICES ASSUME UploadInv, NewestInv, [Next]_vars PROVE NewestInv'
  OBVIOUS
<1>1. CASE manifests' = manifests /\ entry' = entry
  BY <1>1, RevisionsStay
<1>2. ASSUME NEW w \in Runners, Prepare(w) PROVE NewestInv'
  BY <1>2, PrepareIsNewest
<1>3. ASSUME NEW w \in Runners, MarkUploading(w) \/ Finish(w) PROVE NewestInv'
  <2>1. /\ manifests' = manifests
        /\ Mark(w, "uploading") \/ Mark(w, EndStatus(run[w].at))
        /\ "uploading" \in Statuses /\ EndStatus(run[w].at) \in Statuses
    BY <1>3 DEF MarkUploading, Finish, EndStatus, Statuses
  <2>2. \A d \in Dates : entry'[d].rev = entry[d].rev
    BY <2>1, MarkRevision DEF UploadInv
  <2> QED  BY <2>1, <2>2, RevisionsStay
<1>4. CASE \E d \in Dates : Edit(d) \/ DropFacts(d)
  BY <1>1, <1>4 DEF Edit, DropFacts
<1>5. ASSUME NEW w \in Runners,
             (\E d \in Dates : Capture(w, d)) \/ SendManifest(w) \/ SendChunks(w)
             \/ SendCommit(w) \/ Lose(w)
      PROVE  NewestInv'
  BY <1>1, <1>5 DEF Capture, SendManifest, SendChunks, SendCommit, Lose, device
<1>6. CASE (\E q \in late : Arrive(q)) \/ Stop \/ UNCHANGED vars
  BY <1>1, <1>6 DEF Arrive, Stop, vars, device
<1> QED  BY <1>2, <1>3, <1>4, <1>5, <1>6 DEF Next, Step

LEMMA NewestInvariant == Spec => [](UploadInv /\ NewestInv)
<1>1. Init => NewestInv
  <2> SUFFICES ASSUME Init PROVE NewestInv
    OBVIOUS
  <2>1. Made = {}
    BY EmptySeq DEF Init, Made
  <2> QED  BY <2>1 DEF NewestInv, OneAccountPerRevision
<1>2. UploadInv /\ NewestInv /\ [Next]_vars => NewestInv'
  BY NewestNext
<1> QED  BY <1>1, <1>2, UploadInvariant, PTL DEF Spec

(***************************************************************************)
(* The theorems.                                                           *)
(***************************************************************************)
\* The tables, entries and runs keep their types.
THEOREM UploadTyped == Spec => []TypeOK
<1>1. UploadInv => TypeOK
  <2> SUFFICES ASSUME UploadInv PROVE TypeOK
    OBVIOUS
  <2>1. \A d \in Dates : /\ entry[d].made \in Made \cup {0} /\ head[d] \in Made \cup {0}
                         /\ entry[d].status \in Statuses
                         /\ \A r \in DOMAIN rows[d] : rows[d][r] \in Made
    BY DEF UploadInv, EntryInv, WorkerInv, DeviceTypes, Entry
  <2>2. \A w \in Runners : /\ run[w].at \in Sending \cup {"idle", "captured"}
                           /\ run[w].made \in Made \cup {0}
    BY DEF UploadInv, RunInv, DeviceTypes, RunType
  <2> QED  BY <2>1, <2>2 DEF TypeOK, UploadInv, WorkerInv, DeviceTypes, Statuses, Sending
<1> QED  BY <1>1, UploadInvariant, PTL

\* A date the device calls published is published, with that manifest or a
\* later one, whatever requests were lost, repeated or handled late.
THEOREM MarksAreTrue == Spec => []PublishedMarkIsTrue
<1>1. UploadInv => PublishedMarkIsTrue
  BY DEF UploadInv, EntryInv, Done, PublishedMarkIsTrue
<1> QED  BY <1>1, UploadInvariant, PTL

\* The published revision of a date never goes back.
THEOREM RevisionsAdvance == Spec => PublishedOnlyAdvances
<1>1. UploadInv /\ [Next]_vars =>
        [\A d \in Dates : head[d] # 0 =>
            head'[d] # 0 /\ manifests'[head'[d]].rev >= manifests[head[d]].rev]_vars
  BY UploadNext DEF HeadsAdvance
<1> QED  BY <1>1, UploadInvariant, PTL DEF Spec, PublishedOnlyAdvances

\* As long as no entry is dropped, a date and revision name one account.
THEOREM RevisionsNameAccounts == Spec => [](AllTracked => OneAccountPerRevision)
<1>1. NewestInv => (AllTracked => OneAccountPerRevision)
  BY DEF NewestInv
<1> QED  BY <1>1, NewestInvariant, PTL

\* As long as no entry is dropped, the device has seen every revision the
\* Worker has.
THEOREM DeviceIsAhead == Spec => [](AllTracked => NeverBehindTheWorker)
<1>1. UploadInv /\ NewestInv => (AllTracked => NeverBehindTheWorker)
  <2> SUFFICES ASSUME UploadInv, NewestInv, AllTracked, NEW d \in Dates, NEW r \in DOMAIN rows[d]
               PROVE  r <= entry[d].rev
    BY DEF NeverBehindTheWorker
  <2>1. /\ rows[d][r] \in Made /\ manifests[rows[d][r]].date = d
        /\ manifests[rows[d][r]].rev = r
    BY DEF UploadInv, WorkerInv
  <2> QED  BY <2>1 DEF NewestInv
<1> QED  BY <1>1, NewestInvariant, PTL
=============================================================================
