---------------------------- MODULE ArtifactStore ----------------------------
(***************************************************************************)
(* The content-addressed IPA store (src/internal/artifacts/store.go) and   *)
(* everything that writes to it: uploads (api/artifacts.go), downloads     *)
(* from catalogs (api/store.go, api/accounts.go), signed derivatives       *)
(* (api/signing.go) and retention (retention/prune.go).                    *)
(*                                                                         *)
(* Bytes live on disk under their hash; rows that name them live in        *)
(* PostgreSQL.  Uploads, derivatives and retention take an advisory lock   *)
(* on the hash for the length of their transaction; downloads do not.      *)
(* Every statement and every file operation is a step.                     *)
(*                                                                         *)
(* A failed statement, or a failed COMMIT, ends the transaction on the     *)
(* server: its rows and its locks are gone before the handler goes on.     *)
(* Temporary files are private to a request and left out.                  *)
(***************************************************************************)
EXTENDS Naturals

CONSTANTS Hashes,       \* contents, named by their sha256
          NoHash,       \* an idle request works on nothing
          Requests,     \* handlers that may run at the same time
          Free,         \* the advisory lock of a hash is not held
          Pruner,       \* the retention goroutine as a lock holder
          Kinds,        \* what the requests may be
          MaxRestarts   \* bound: restarts of the control plane

LockedKinds == {"upload", "signed"}
ImportKinds == {"import"}

ASSUME StoreAssumptions ==
    /\ NoHash \notin Hashes
    /\ Free \notin Requests /\ Pruner \notin Requests /\ Free # Pruner
    /\ Kinds \subseteq LockedKinds \union ImportKinds
    /\ MaxRestarts \in Nat

VARIABLES files,     \* hashes whose <sha256>.ipa is on disk
          originals, \* [Hashes -> quarantine_state], the artifacts table
          derived,   \* [Hashes -> SUBSET], ages of the signed_artifacts rows
          lock,      \* [Hashes -> holder of pg_advisory_xact_lock]
          requests,  \* [Requests -> request]
          pruner,    \* progress of PruneSignedArtifacts
          exposed,   \* history: hashes on which a step without lock overlapped
          litter,    \* history: hashes abandoned by an upload, import or crash
          wronged,   \* history: hashes whose file a failed request went on to
                     \* remove although a row named it
          restarts

tables == <<originals, derived>>
history == <<exposed, litter, wronged>>
vars == <<files, originals, derived, lock, requests, pruner, exposed, litter,
          wronged, restarts>>

Verdicts == {"quarantined", "approved", "rejected"}

\* existing: the lookup found a row;  created: Publish reported a new file.
Request == [kind: LockedKinds \union ImportKinds \union {"none"},
            step: {"idle", "saved", "locked", "renaming", "published",
                   "inserted", "removing"},
            hash: Hashes \union {NoHash},
            existing: BOOLEAN, created: BOOLEAN]

IdleRequest == [kind |-> "none", step |-> "idle", hash |-> NoHash,
                existing |-> FALSE, created |-> FALSE]

\* kept: rows of the hash are younger than the retention;  drop: remove the file.
PrunerState == [step: {"idle", "next", "counted", "removed"}, todo: SUBSET Hashes,
                hash: Hashes \union {NoHash}, kept: BOOLEAN, drop: BOOLEAN]

IdlePruner == [step |-> "idle", todo |-> {}, hash |-> NoHash,
               kept |-> FALSE, drop |-> FALSE]

\* Tables, locks, requests and the retention pass keep their types; a request
\* has a known kind, an artifact one of the verdicts of quarantine_state.
TypeOK ==
    /\ files \subseteq Hashes
    /\ originals \in [Hashes -> Verdicts \union {"none"}]
    /\ derived \in [Hashes -> SUBSET {"fresh", "expired"}]
    /\ lock \in [Hashes -> Requests \union {Free, Pruner}]
    /\ requests \in [Requests -> Request]
    /\ pruner \in PrunerState
    /\ exposed \subseteq Hashes /\ litter \subseteq Hashes /\ wronged \subseteq Hashes
    /\ restarts \in Nat

Init ==
    /\ files = {}
    /\ originals = [h \in Hashes |-> "none"]
    /\ derived = [h \in Hashes |-> {}]
    /\ lock = [h \in Hashes |-> Free]
    /\ requests = [r \in Requests |-> IdleRequest]
    /\ pruner = IdlePruner
    /\ exposed = {} /\ litter = {} /\ wronged = {}
    /\ restarts = 0

-------------------------------------------------------------------------------
(***************************************************************************)
(* Who works on a hash, and who does so without its lock.                  *)
(***************************************************************************)
Busy(req, h) == req.hash = h /\ req.step \notin {"idle", "saved"}

Unlocked(req, h) ==
    Busy(req, h) /\ (req.kind \in ImportKinds \/ req.step = "removing")

Overlap(h, reqs, prn) ==
    \E r \in Requests :
        /\ Unlocked(reqs[r], h)
        /\ \/ \E q \in Requests \ {r} : Busy(reqs[q], h)
           \/ prn.hash = h

\* The hashes exposed after a step that leads to these requests and pruner.
Expose(reqs, prn) ==
    exposed' = exposed \union {h \in Hashes : Overlap(h, reqs, prn)}

\* An answered request; its lock, if it has one, goes with the transaction.
Ended(r) == [requests EXCEPT ![r] = IdleRequest]

Unlock(h, holder) ==
    lock' = [lock EXCEPT ![h] = IF @ = holder THEN Free ELSE @]

\* A row somebody may still ask the bytes of.
Served(h) == originals[h] # "none" \/ "fresh" \in derived[h]

HasRow(h) == originals[h] # "none" \/ derived[h] # {}

Abandon(h) == litter' = IF HasRow(h) THEN litter ELSE litter \union {h}

-------------------------------------------------------------------------------
(***************************************************************************)
(* The requests.                                                           *)
(***************************************************************************)

\* The body has been streamed to a temporary file and inspected.  A body that
\* is too large or malformed ends the request here.
SaveToTemp(r, kind, h) ==
    /\ requests[r].step = "idle"
    /\ requests' = [requests EXCEPT ![r] = [IdleRequest EXCEPT
                      !.kind = kind, !.step = "saved", !.hash = h]]
    /\ UNCHANGED <<files, tables, lock, pruner, history, restarts>>

\* BEGIN, the advisory lock and, for an upload, the lookup of a known artifact.
TakeLock(r) ==
    LET h == requests[r].hash IN
    /\ requests[r].step = "saved" /\ requests[r].kind \in LockedKinds
    /\ lock[h] = Free
    /\ lock' = [lock EXCEPT ![h] = r]
    /\ requests' = [requests EXCEPT
                      ![r].step = "locked",
                      ![r].existing = requests[r].kind = "upload"
                                        /\ originals[h] # "none"]
    /\ Expose(requests', pruner)
    /\ UNCHANGED <<files, tables, pruner, litter, wronged, restarts>>

ReadyToPublish(r) ==
    \/ requests[r].step = "locked"
    \/ requests[r].step = "saved" /\ requests[r].kind \in ImportKinds

\* Publish: a file that exists is borrowed and the temporary one discarded ...
PublishStat(r) ==
    /\ ReadyToPublish(r)
    /\ requests' = [requests EXCEPT
                      ![r].step = IF requests[r].hash \in files THEN "published"
                                                                ELSE "renaming"]
    /\ Expose(requests', pruner)
    /\ UNCHANGED <<files, tables, lock, pruner, litter, wronged, restarts>>

\* ... otherwise the temporary file is renamed, over a file that came meanwhile.
PublishRename(r) ==
    /\ requests[r].step = "renaming"
    /\ files' = files \union {requests[r].hash}
    /\ requests' = [requests EXCEPT ![r].step = "published", ![r].created = TRUE]
    /\ UNCHANGED <<tables, lock, pruner, history, restarts>>

\* BEGIN, the lock, the lookup or the rename fails: nothing has been published.
PublishFails(r) ==
    /\ requests[r].step \in {"saved", "locked", "renaming"}
    /\ requests' = Ended(r)
    /\ Unlock(requests[r].hash, r)
    /\ UNCHANGED <<files, tables, pruner, history, restarts>>

\* An upload of known bytes has nothing left to write.
UploadExisting(r) ==
    LET req == requests[r] IN
    /\ req.step = "published" /\ req.kind = "upload" /\ req.existing
    /\ requests' = Ended(r)
    /\ Unlock(req.hash, r)
    /\ UNCHANGED <<files, tables, pruner, history, restarts>>

\* The INSERT of an upload, which a download may have overtaken, or the
\* statements of a derivative.
InsertRow(r) ==
    LET req == requests[r] IN
    /\ req.step = "published"
    /\ \/ req.kind = "signed"
       \/ req.kind = "upload" /\ ~req.existing /\ originals[req.hash] = "none"
    /\ requests' = [requests EXCEPT ![r].step = "inserted"]
    /\ UNCHANGED <<files, tables, lock, pruner, history, restarts>>

\* The INSERT of an upload fails: sha256 is UNIQUE, and a download may have
\* committed its row first; or it fails for its own reasons.  The file goes, also
\* one that the upload only borrowed from a derivative.
UploadInsertFails(r) ==
    LET req == requests[r] IN
    /\ req.step = "published" /\ req.kind = "upload" /\ ~req.existing
    /\ requests' = [requests EXCEPT ![r].step = "removing"]
    /\ Unlock(req.hash, r)
    /\ Expose(requests', pruner)
    /\ wronged' = IF originals[req.hash] = "none" /\ Served(req.hash)
                  THEN wronged \union {req.hash} ELSE wronged
    /\ UNCHANGED <<files, tables, pruner, litter, restarts>>

StoreRow(req) ==
    IF req.kind = "upload"
    THEN originals' = [originals EXCEPT ![req.hash] = "quarantined"] /\ UNCHANGED derived
    ELSE derived' = [derived EXCEPT ![req.hash] = @ \union {"fresh"}] /\ UNCHANGED originals

CommitRow(r) ==
    /\ requests[r].step = "inserted"
    /\ StoreRow(requests[r])
    /\ requests' = Ended(r)
    /\ Unlock(requests[r].hash, r)
    /\ UNCHANGED <<files, pruner, history, restarts>>

\* The audit event or the COMMIT of an upload fails; the file is left behind.
UploadAborts(r) ==
    LET req == requests[r] IN
    /\ req.step = "inserted" /\ req.kind = "upload"
    /\ requests' = Ended(r)
    /\ Unlock(req.hash, r)
    /\ Abandon(req.hash)
    /\ UNCHANGED <<files, tables, pruner, exposed, wronged, restarts>>

\* Mutant: a failed derivative leaves its file where it is.
AfterFail_Keeps(r) == Ended(r)

\* fail: only a file this request created is removed.
AfterFail(r) ==
    IF requests[r].created THEN [requests EXCEPT ![r].step = "removing"] ELSE Ended(r)

\* A statement of a derivative fails, or its COMMIT does ...
SignedFails(r) ==
    LET req == requests[r] IN
    /\ req.kind = "signed" /\ req.step \in {"published", "inserted"}
    /\ requests' = AfterFail(r)
    /\ Unlock(req.hash, r)
    /\ Expose(requests', pruner)
    /\ UNCHANGED <<files, tables, pruner, litter, wronged, restarts>>

\* ... or the COMMIT takes effect and its answer is lost.
SignedAnswerLost(r) ==
    LET req == requests[r] IN
    /\ req.kind = "signed" /\ req.step = "inserted"
    /\ StoreRow(req)
    /\ requests' = AfterFail(r)
    /\ Unlock(req.hash, r)
    /\ Expose(requests', pruner)
    /\ wronged' = IF req.created THEN wronged \union {req.hash} ELSE wronged
    /\ UNCHANGED <<files, pruner, litter, restarts>>

\* The cleanup of a failed request, after its transaction is over.
Remove(r) ==
    /\ requests[r].step = "removing"
    /\ files' = files \ {requests[r].hash}
    /\ requests' = Ended(r)
    /\ UNCHANGED <<tables, lock, pruner, history, restarts>>

\* A download: its upsert is a transaction of its own and waits for the
\* uncommitted INSERT of an upload.  A known artifact keeps its verdict, unless
\* the download is LiveContainer.
ImportUpsert(r) ==
    LET req == requests[r] IN
    /\ req.step = "published" /\ req.kind \in ImportKinds
    /\ \A q \in Requests : ~(/\ requests[q].step = "inserted"
                             /\ requests[q].kind = "upload"
                             /\ requests[q].hash = req.hash)
    /\ \E livecontainer \in BOOLEAN :
          originals' = [originals EXCEPT ![req.hash] =
                          IF livecontainer THEN "approved"
                          ELSE IF @ = "none" THEN "quarantined" ELSE @]
    /\ requests' = Ended(r)
    /\ UNCHANGED <<files, derived, lock, pruner, history, restarts>>

ImportFails(r) ==
    LET req == requests[r] IN
    /\ req.step = "published" /\ req.kind \in ImportKinds
    /\ requests' = Ended(r)
    /\ Abandon(req.hash)
    /\ UNCHANGED <<files, tables, lock, pruner, exposed, wronged, restarts>>

\* handleSetArtifactState, and the approvals of the deploy and push handlers.
SetArtifactState(h, verdict) ==
    /\ originals[h] # "none"
    /\ originals' = [originals EXCEPT ![h] = verdict]
    /\ UNCHANGED <<files, derived, lock, requests, pruner, history, restarts>>

-------------------------------------------------------------------------------
(***************************************************************************)
(* Retention.                                                              *)
(***************************************************************************)

\* The profile of the derivatives expired longer ago than the retention.
Expire(h) ==
    /\ "fresh" \in derived[h]
    /\ derived' = [derived EXCEPT ![h] = {"expired"}]
    /\ UNCHANGED <<files, originals, lock, requests, pruner, history, restarts>>

PruneScan ==
    /\ pruner.step = "idle"
    /\ \E h \in Hashes : "expired" \in derived[h]
    /\ pruner' = [IdlePruner EXCEPT !.step = "next",
                    !.todo = {h \in Hashes : "expired" \in derived[h]}]
    /\ UNCHANGED <<files, tables, lock, requests, history, restarts>>

\* Mutant: originals with the same bytes are not counted.
Unreferenced_IgnoresOriginals(h) == "fresh" \notin derived[h]

\* No committed row but the ones just deleted references the hash.
Unreferenced(h) == originals[h] = "none" /\ "fresh" \notin derived[h]

\* The lock, the DELETE and the count.
PruneCount(h) ==
    /\ pruner.step = "next" /\ h \in pruner.todo
    /\ lock[h] = Free
    /\ lock' = [lock EXCEPT ![h] = Pruner]
    /\ pruner' = [pruner EXCEPT !.step = "counted", !.hash = h,
                    !.kept = "fresh" \in derived[h], !.drop = Unreferenced(h)]
    /\ Expose(requests, pruner')
    /\ UNCHANGED <<files, tables, requests, litter, wronged, restarts>>

PruneRemove ==
    /\ pruner.step = "counted"
    /\ files' = IF pruner.drop THEN files \ {pruner.hash} ELSE files
    /\ pruner' = [pruner EXCEPT !.step = "removed"]
    /\ UNCHANGED <<tables, lock, requests, history, restarts>>

\* Mutant: rows whose file is gone are skipped.
Survivors_NeedFile(h) == IF h \in files /\ ~pruner.kept THEN {} ELSE derived[h]

\* What the DELETE left: rows that were fresh then, whatever they are now.
Survivors(h) ==
    IF ~pruner.kept THEN {}
    ELSE IF "fresh" \in derived[h] THEN {"fresh"} ELSE {"expired"}

PruneCommit ==
    LET h == pruner.hash IN
    /\ pruner.step = "removed"
    /\ derived' = [derived EXCEPT ![h] = Survivors(h)]
    /\ Unlock(h, Pruner)
    /\ pruner' = IF pruner.todo = {h} THEN IdlePruner
                 ELSE [IdlePruner EXCEPT !.step = "next", !.todo = pruner.todo \ {h}]
    /\ UNCHANGED <<files, originals, requests, history, restarts>>

\* A statement or the COMMIT fails: the pass ends, the rows stay.
PruneFails ==
    /\ pruner.step # "idle"
    /\ lock' = [h \in Hashes |-> IF lock[h] = Pruner THEN Free ELSE lock[h]]
    /\ pruner' = IdlePruner
    /\ UNCHANGED <<files, tables, requests, history, restarts>>

\* The control plane dies: transactions roll back, files stay.
Restart ==
    /\ restarts < MaxRestarts
    /\ restarts' = restarts + 1
    /\ lock' = [h \in Hashes |-> Free]
    /\ requests' = [r \in Requests |-> IdleRequest]
    /\ pruner' = IdlePruner
    /\ litter' = litter \union {h \in files : ~HasRow(h)}
    /\ UNCHANGED <<files, tables, exposed, wronged>>

-------------------------------------------------------------------------------
RequestStep(r) ==
    \/ TakeLock(r) \/ PublishStat(r) \/ PublishRename(r) \/ PublishFails(r)
    \/ UploadExisting(r) \/ InsertRow(r) \/ UploadInsertFails(r)
    \/ CommitRow(r) \/ UploadAborts(r) \/ SignedFails(r) \/ SignedAnswerLost(r)
    \/ Remove(r) \/ ImportUpsert(r) \/ ImportFails(r)

Next ==
    \/ \E r \in Requests :
         \/ \E kind \in Kinds, h \in Hashes : SaveToTemp(r, kind, h)
         \/ RequestStep(r)
    \/ \E h \in Hashes :
         \/ \E verdict \in Verdicts : SetArtifactState(h, verdict)
         \/ Expire(h)
         \/ PruneCount(h)
    \/ PruneScan \/ PruneRemove \/ PruneCommit \/ PruneFails
    \/ Restart

Spec == Init /\ [][Next]_vars

\* Handlers run to their end and do not fail every time before they publish; the
\* retention loop comes back, waits its turn for the lock, and does not fail every
\* time either.
FairSpec ==
    /\ Spec
    /\ \A r \in Requests : WF_vars(RequestStep(r))
    /\ SF_vars(\E r \in Requests : PublishStat(r))
    /\ SF_vars(\E r \in Requests : PublishRename(r))
    /\ WF_vars(PruneScan) /\ SF_vars(PruneRemove) /\ SF_vars(PruneCommit)
    /\ \A h \in Hashes : SF_vars(PruneCount(h))

-------------------------------------------------------------------------------
(***************************************************************************)
(* Properties.                                                             *)
(***************************************************************************)

\* Every artifact, and every derivative that has not outlived its retention, has
\* its bytes on disk, for every hash on which no step without the lock ever
\* overlapped the work of somebody else, and whose file no failed request went on
\* to remove although a row named it.  Restarts, a retention pass that removes a
\* file and then fails to commit, other failures of uploads and derivatives, and
\* uploads of bytes under retention do not take the bytes of a row.
LockedRowsNameFiles == \A h \in Hashes \ (exposed \union wronged) : Served(h) => h \in files

\* The package comment of artifacts/store.go (lines 6-13) derives from the advisory
\* lock that retention "cannot delete a blob between publication and the row
\* commit".  Downloads publish without it: TLC refutes this invariant, which
\* excuses the failed requests only, under import_race.cfg.
RowsNameFiles == \A h \in Hashes \ wronged : Served(h) => h \in files

\* "drop the blob only if nothing references it (it cannot, we hold the lock and no
\* row exists yet)" (api/artifacts.go:117-118): what a failed upload is about to
\* remove is not served.  A derivative may name the bytes: TLC refutes this
\* invariant under failed_upload.cfg.
DroppedIsUnreferenced ==
    \A r \in Requests : requests[r].step = "removing" /\ requests[r].kind = "upload"
                           => ~Served(requests[r].hash)

\* "We still hold the advisory lock, so removal is race-free ... Only remove what
\* this request created" (api/signing.go:419-422): what a failed derivative is
\* about to remove is not served.  Its COMMIT may have taken effect: TLC refutes
\* this invariant under lost_commit.cfg.
RemovalIsRaceFree ==
    \A r \in Requests : requests[r].step = "removing" /\ requests[r].kind = "signed"
                           => ~Served(requests[r].hash)

\* A file without a row, on which nobody works, was abandoned by an upload, a
\* download or a restart: neither retention nor a failed derivative leaves one
\* behind ("must not leave an unreferenced file behind", signing.go).
OrphansHaveCause ==
    \A h \in files \ (exposed \union litter) :
        HasRow(h) \/ pruner.hash = h \/ \E r \in Requests : Busy(requests[r], h)

\* An expired derivative whose file retention has removed without being able to
\* commit does not stay: a later pass deletes the row, or an upload brings the
\* bytes back.
RetentionCompletes ==
    \A h \in Hashes : (derived[h] = {"expired"} /\ h \notin files) ~>
                          (derived[h] # {"expired"} \/ h \in files)
===============================================================================
