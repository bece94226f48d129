---------------------- MODULE DeviceAccountProperties ----------------------
(***************************************************************************)
(* What the upload of a device's account promises.                         *)
(***************************************************************************)
EXTENDS DeviceAccount

Made == 1..Len(manifests)

TypeOK ==
    /\ day \in [Dates -> Account]
    /\ manifests \in Seq(Manifest)
    /\ \A d \in Dates :
          /\ entry[d].made \in Made \cup {0} /\ head[d] \in Made \cup {0}
          /\ entry[d].status \in {"none", "pending", "uploading", "publish_pending", "published"}
          /\ \A r \in DOMAIN rows[d] : rows[d][r] \in Made
    /\ \A w \in Runners :
          /\ run[w].at \in {"idle", "captured", "manifest", "accepted", "kept", "chunk", "commit",
                            "published", "received", "failed"}
          /\ run[w].made \in Made \cup {0}
    /\ whole \subseteq Made /\ committed \subseteq whole
    /\ left \in [{"change", "fault"} -> Nat]

\* A date and revision name one account for ever, so that the Worker never
\* holds one account and the device another under the same name.
OneAccountPerRevision ==
    \A i, j \in Made :
        manifests[i].date = manifests[j].date /\ manifests[i].rev = manifests[j].rev => i = j

\* Once the device calls a revision published, the Worker publishes that very
\* manifest or a later one, and holds all of it - whatever was lost, repeated
\* or handled late in between.
PublishedMarkIsTrue ==
    \A d \in Dates : entry[d].status = "published" =>
        /\ head[d] # 0 /\ manifests[head[d]].rev >= entry[d].rev
        /\ entry[d].made \in committed
        /\ RowOf(entry[d].made) = entry[d].made

\* The entry never loses track of what the Worker has: the device's revision
\* is at least the highest the Worker knows, so its next one is never stale.
NeverBehindTheWorker ==
    \A d \in Dates : \A r \in DOMAIN rows[d] : r <= entry[d].rev

\* The published revision of a date never goes back.
PublishedOnlyAdvances ==
    [][\A d \in Dates : head[d] # 0 =>
          head'[d] # 0 /\ manifests'[head'[d]].rev >= manifests[head[d]].rev]_vars

\* When a date stops changing, what is published of it ends up being what the
\* device has, though older captures are sent after newer ones.
NewestIsPublished ==
    <>[](\A d \in Dates : day[d].content > 0 =>
            head[d] # 0 /\ manifests[head[d]].content = day[d].content)
=============================================================================
