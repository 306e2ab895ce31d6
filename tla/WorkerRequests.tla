---------------------------- MODULE WorkerRequests ----------------------------
(***************************************************************************)
(* Certificate downloads that wait for the signing worker: the handlers    *)
(* around awaitExportP12 (src/internal/api/certstore.go and the P12 push   *)
(* of src/internal/api/accounts.go), the worker's runExportP12Job          *)
(* (src/cmd/signing-worker/main.go), and the reaper, for one Apple         *)
(* account.                                                                *)
(*                                                                         *)
(* All requests share one job row, stored under the key                    *)
(* "export_p12:<apple id>".  A request polls by row id, but purges a       *)
(* broken row by key, so a row carries the number of its insertion.        *)
(*                                                                         *)
(* A worker that has lost its answer, or was killed, is gone from its job; *)
(* the lease of the row runs out.                                          *)
(***************************************************************************)
EXTENDS JobRow, FiniteSets

CONSTANTS Requests,       \* downloads and pushes, each made once
          Worker,         \* the signing worker
          ExportBudget    \* max_attempts of an export job

ASSUME RequestAssumptions ==
    /\ Worker \in Agents
    /\ ExportBudget \in Nat

VARIABLES row,      \* the row under the key
          id,       \* its number, 0 without a row
          archive,  \* does its result hold a PKCS#12 archive?
          inserted, \* number of insertions so far
          waiting,  \* [Requests -> request]
          worker,   \* number of the row the worker works on, 0 for none
          purgers   \* history: requests that have purged the key

jobVars == <<row, id, archive, inserted>>
vars == <<jobVars, waiting, worker, purgers>>

\* id, state, archive: the snapshot of the row;  retried: the purge is behind it;
\* unpurged: the DELETE of the purge failed;  tried: the broken rows this request
\* has judged (history).
Request == [step: {"new", "insert", "reread", "judge", "done"},
            id: Nat, state: States, archive: BOOLEAN, retried: BOOLEAN,
            unpurged: BOOLEAN, tried: SUBSET Nat,
            answer: {"none", "archive", "failed", "pending", "error"}]

NewRequest == [step |-> "new", id |-> 0, state |-> "pending", archive |-> FALSE,
               retried |-> FALSE, unpurged |-> FALSE, tried |-> {}, answer |-> "none"]

\* The row, its number and the requests keep their types; nobody works on a row
\* that was never inserted.
TypeOK ==
    /\ row \in Row
    /\ id \in 0..inserted
    /\ archive \in BOOLEAN
    /\ inserted \in Nat
    /\ waiting \in [Requests -> Request]
    /\ worker \in 0..inserted
    /\ purgers \subseteq Requests

Init ==
    /\ row = NoRow /\ id = 0 /\ archive = FALSE /\ inserted = 0
    /\ waiting = [w \in Requests |-> NewRequest]
    /\ worker = 0
    /\ purgers = {}

Broken == {"failed", "dead"}

-------------------------------------------------------------------------------
(***************************************************************************)
(* A request.                                                              *)
(***************************************************************************)

\* Mutant: the number of the first row is polled for ever.
Seen_FirstId(req, i, r, a) ==
    [req EXCEPT !.step = "judge", !.id = IF req.id = 0 THEN i ELSE @,
                !.state = r.state, !.archive = a,
                !.tried = IF r.state \in Broken THEN @ \union {i} ELSE @]

\* exportJobSnapshot: what a request knows after reading the row.
Seen(req, i, r, a) ==
    [req EXCEPT !.step = "judge", !.id = i, !.state = r.state, !.archive = a,
                !.tried = IF r.state \in Broken THEN @ \union {i} ELSE @]

Answered(req, answer) == [req EXCEPT !.step = "done", !.answer = answer]

\* Create: the INSERT, which does nothing when the key is taken ...
CreateInsert(w) ==
    /\ waiting[w].step \in {"new", "insert"}
    /\ IF row.state = "absent"
       THEN /\ row' = CreatedRow("now")
            /\ inserted' = inserted + 1 /\ id' = inserted' /\ archive' = FALSE
            /\ waiting' = [waiting EXCEPT ![w] = Seen(@, id', row', FALSE)]
       ELSE /\ waiting' = [waiting EXCEPT ![w].step = "reread"]
            /\ UNCHANGED jobVars
    /\ UNCHANGED <<worker, purgers>>

\* ... and the SELECT by key that follows then.
CreateReread(w) ==
    /\ waiting[w].step = "reread"
    /\ waiting' = [waiting EXCEPT ![w] = IF row.state = "absent"
                                         THEN Answered(@, "error")
                                         ELSE Seen(@, id, row, archive)]
    /\ UNCHANGED <<jobVars, worker, purgers>>

Judges(w, states) == waiting[w].step = "judge" /\ waiting[w].state \in states

Serve(w) ==
    /\ Judges(w, {"completed"}) /\ waiting[w].archive
    /\ waiting' = [waiting EXCEPT ![w] = Answered(@, "archive")]
    /\ UNCHANGED <<jobVars, worker, purgers>>

\* The row under the key is deleted, whichever it is by now.
Purge(w) ==
    /\ Judges(w, Broken) /\ ~waiting[w].retried
    /\ row' = NoRow /\ id' = 0 /\ archive' = FALSE
    /\ waiting' = [waiting EXCEPT ![w].step = "insert", ![w].retried = TRUE]
    /\ purgers' = purgers \union {w}
    /\ UNCHANGED <<inserted, worker>>

\* The DELETE fails; its error is ignored, and the same row is read again.
PurgeFails(w) ==
    /\ Judges(w, Broken) /\ ~waiting[w].retried
    /\ waiting' = [waiting EXCEPT ![w].step = "insert", ![w].retried = TRUE,
                                  ![w].unpurged = TRUE]
    /\ UNCHANGED <<jobVars, worker, purgers>>

\* Mutant: the first broken row is reported.
GiveUp_AtOnce(w) ==
    /\ Judges(w, Broken)
    /\ waiting' = [waiting EXCEPT ![w] = Answered(@, "failed")]
    /\ UNCHANGED <<jobVars, worker, purgers>>

GiveUp(w) ==
    /\ Judges(w, Broken) /\ waiting[w].retried
    /\ waiting' = [waiting EXCEPT ![w] = Answered(@, "failed")]
    /\ UNCHANGED <<jobVars, worker, purgers>>

Waits(w) == Judges(w, States \ Broken) /\ ~(waiting[w].state = "completed" /\ waiting[w].archive)

\* Two seconds later the row is read by its id.
Poll(w) ==
    /\ Waits(w)
    /\ waiting' = [waiting EXCEPT ![w] = IF id = waiting[w].id
                                         THEN Seen(@, id, row, archive)
                                         ELSE Answered(@, "error")]
    /\ UNCHANGED <<jobVars, worker, purgers>>

Timeout(w) ==
    /\ Waits(w)
    /\ waiting' = [waiting EXCEPT ![w] = Answered(@, "pending")]
    /\ UNCHANGED <<jobVars, worker, purgers>>

-------------------------------------------------------------------------------
(***************************************************************************)
(* The signing worker and the reaper.  The worker reports progress once,   *)
(* when it begins, so the lease may lapse at any time.                     *)
(***************************************************************************)
ClaimExport ==
    /\ worker = 0 /\ Claimable(row)
    /\ row' = ClaimedRow(row, Worker)
    /\ worker' = id
    /\ UNCHANGED <<id, archive, inserted, waiting, purgers>>

\* runExportP12Job ends; the report of a row that was taken away is refused.  A
\* helper that succeeds may leave an empty archive, which is completed all the
\* same.
ExportEnds(to, category, found) ==
    /\ worker # 0
    /\ worker' = 0
    /\ IF worker = id /\ row.state \in Active
       THEN row' = UpdatedRow(row, to, category) /\ archive' = found
       ELSE UNCHANGED <<row, archive>>
    /\ UNCHANGED <<id, inserted, waiting, purgers>>

Completes == \E found \in BOOLEAN : ExportEnds("completed", "", found)

\* Unknown account or failed login; unreadable state; anything else.
Fails == \E category \in {"auth", "certificate", "network"} :
            ExportEnds("failed", category, FALSE)

\* The worker is killed or its report is lost.
WorkerLost ==
    /\ worker # 0
    /\ worker' = 0
    /\ UNCHANGED <<jobVars, waiting, purgers>>

Lapsed(r) == IF r.state \in Active THEN [r EXCEPT !.lease = "expired"] ELSE r

Reap ==
    /\ Reapable(Lapsed(row), "export_p12")
    /\ row' = ReapedRow(Lapsed(row), ExportBudget)
    /\ UNCHANGED <<id, archive, inserted, waiting, worker, purgers>>

RetryComesDue ==
    /\ row.retryAt = "later"
    /\ row' = [row EXCEPT !.retryAt = "now"]
    /\ UNCHANGED <<id, archive, inserted, waiting, worker, purgers>>

-------------------------------------------------------------------------------
RequestStep(w) ==
    \/ CreateInsert(w) \/ CreateReread(w) \/ Serve(w) \/ Purge(w) \/ PurgeFails(w)
    \/ GiveUp(w) \/ Poll(w) \/ Timeout(w)

WorkerStep == Completes \/ Fails \/ WorkerLost

Next ==
    \/ \E w \in Requests : RequestStep(w)
    \/ ClaimExport \/ WorkerStep
    \/ Reap \/ RetryComesDue

Spec == Init /\ [][Next]_vars

\* The worker polls, its helper has a timeout, and the reaper runs; the breaker
\* closes again (BlockedIsTemporary of AppleGuard).
FairSpec ==
    /\ Spec
    /\ WF_vars(ClaimExport) /\ WF_vars(WorkerStep)
    /\ WF_vars(Reap) /\ WF_vars(RetryComesDue)

-------------------------------------------------------------------------------
(***************************************************************************)
(* Properties.                                                             *)
(***************************************************************************)

\* A row that a request has judged broken stays broken as long as it is stored,
\* so the purge of its own row never destroys live work: no reaper pass revives
\* a failed export between the read and the DELETE.
JudgedRowsStayBroken ==
    \A w \in Requests :
        Judges(w, Broken) /\ waiting[w].id = id => row.state \in Broken

\* A request reports a failed export only after it has seen two rows fail, unless
\* its own DELETE of the first one failed.
FailsAfterSecondTry ==
    \A w \in Requests :
        waiting[w].answer = "failed" /\ ~waiting[w].unpurged
            => Cardinality(waiting[w].tried) >= 2

\* "A failed/dead job is purged and recreated once so a transient failure can be
\* retried by the caller" (certstore.go:86-87), without the exception: refuted
\* (unpurged_export.cfg), since the error of the DELETE is ignored.
FailedJobIsRecreated ==
    \A w \in Requests : waiting[w].answer = "failed" => Cardinality(waiting[w].tried) >= 2

\* A request loses sight of its row only because another request purged the key.
LostOnlyToOthers ==
    \A w \in Requests : waiting[w].answer = "error" => purgers \ {w} # {}

\* An export comes to an end, however often workers die over it.
ExportSettles ==
    row.state \in Active \union {"pending"} ~> row.state \in {"completed", "failed", "dead", "absent"}
===============================================================================
