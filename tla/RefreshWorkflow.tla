---------------------------- MODULE RefreshWorkflow ----------------------------
(***************************************************************************)
(* One refresh job carried out: the device service orchestrates a sign     *)
(* child and an install child (_run_refresh_ios of                         *)
(* src/scripts/sidey-device.py), the control plane creates and hands out   *)
(* the children (src/internal/api/device_refresh.go), the signing worker   *)
(* signs and uploads (src/cmd/signing-worker/main.go,                      *)
(* src/internal/api/signing.go), and the reaper retries what fails.        *)
(*                                                                         *)
(* Device service and signing worker are one process each, working through *)
(* one job at a time; either may crash at any step, and any request or     *)
(* response between them and the control plane may be lost.  A lost report *)
(* of a process that then goes on with its next job is a crash.            *)
(*                                                                         *)
(* Heartbeats are left out: a lease may lapse at any step, late heartbeats *)
(* included, so renewing one allows nothing new; claimed and in_progress,  *)
(* which the workflow does not tell apart, are both "claimed".             *)
(***************************************************************************)
EXTENDS JobRow, Sequences

CONSTANTS DeviceService,  \* the agent that holds refresh and install jobs
          SigningWorker,  \* the agent that holds sign jobs
          UpdateChoices,  \* answers resolveUpdateArtifact may give
          RefreshBudget, SignBudget, InstallBudget,  \* max_attempts
          MaxSigned       \* bound: signed derivatives of the refresh

ASSUME WorkflowAssumptions ==
    /\ DeviceService \in Agents /\ SigningWorker \in Agents
    /\ DeviceService # SigningWorker
    /\ UpdateChoices \subseteq BOOLEAN
    /\ RefreshBudget \in Nat /\ SignBudget \in Nat /\ InstallBudget \in Nat
    /\ MaxSigned \in Nat

\* Source artifacts: the one the refresh names, and a newer approved one.
Original == 1
Newer == 2
Sources == {Original, Newer}

\* Signed derivatives are numbered in the order of their upload.
Derivatives == 1..MaxSigned
None == 0

\* The jobs of the workflow, by what their idempotency keys are made of.
Refresh == <<"refresh", None>>
Sign(s) == <<"sign", s>>
Install(d) == <<"install", d>>

JobIds == {Refresh} \union {Sign(s) : s \in Sources}
                    \union {Install(d) : d \in Derivatives}

Type(k) == k[1]

Budget(k) == CASE Type(k) = "refresh" -> RefreshBudget
               [] Type(k) = "sign" -> SignBudget
               [] OTHER -> InstallBudget

VARIABLES jobs,      \* [JobIds -> Row]
          children,  \* the sign children in the order of created_at
          derived,   \* the source of each signed artifact
          output,    \* [Sources -> ...], signed_artifact_id of a sign result
          service,   \* the device service
          worker,    \* the signing worker
          device,    \* the derivative on the device
          installed, \* every derivative that was ever put on the device
          record     \* what the completed refresh recorded

vars == <<jobs, children, derived, output, service, worker, device, installed, record>>

\* fallback: the second sign round;  updating: update_attempted;
\* source, signed, install: sign_id, signed_id and install_id.
Service == [step: {"idle", "sign", "await", "ensure", "install", "installed",
                   "complete", "polled", "polledInstalled"},
            fallback: BOOLEAN, updating: BOOLEAN,
            source: Sources \union {None},
            signed: Derivatives \union {None}, install: Derivatives \union {None}]

IdleService == [step |-> "idle", fallback |-> FALSE, updating |-> FALSE,
                source |-> None, signed |-> None, install |-> None]

Worker == [step: {"idle", "sign", "upload", "publish", "failing", "report"},
           source: Sources \union {None}, signed: Derivatives \union {None}]

IdleWorker == [step |-> "idle", source |-> None, signed |-> None]

\* The scheduler has just created the refresh job.
Init ==
    /\ jobs = [k \in JobIds |-> IF k = Refresh THEN CreatedRow("now") ELSE NoRow]
    /\ children = <<>>
    /\ derived = <<>>
    /\ output = [s \in Sources |-> None]
    /\ service = IdleService
    /\ worker = IdleWorker
    /\ device = None
    /\ installed = {}
    /\ record = [signed |-> None, install |-> None]

-------------------------------------------------------------------------------
(***************************************************************************)
(* The job service, as far as this workflow uses it.                       *)
(***************************************************************************)
Holds(rows, a, k) == rows[k].state \in Active /\ rows[k].claimedBy = a

\* Update accepts the report of the holder and refuses every other.
Reported(rows, a, k, to, category) ==
    IF Holds(rows, a, k) THEN [rows EXCEPT ![k] = UpdatedRow(@, to, category)] ELSE rows

\* A lease may have run out without anybody noticing.
Lapsed(row) == IF row.state \in Active THEN [row EXCEPT !.lease = "expired"] ELSE row

Reap(k) ==
    /\ Reapable(Lapsed(jobs[k]), Type(k))
    /\ jobs' = [jobs EXCEPT ![k] = ReapedRow(Lapsed(@), Budget(k))]
    /\ UNCHANGED <<children, derived, output, service, worker, device, installed, record>>

RetryComesDue(k) ==
    /\ jobs[k].retryAt = "later"
    /\ jobs' = [jobs EXCEPT ![k].retryAt = "now"]
    /\ UNCHANGED <<children, derived, output, service, worker, device, installed, record>>

-------------------------------------------------------------------------------
(***************************************************************************)
(* The device service: polling.  The device's oldest job is claimed first; *)
(* the refresh is older than its installs, which are created in order.     *)
(***************************************************************************)
PollRefresh ==
    /\ service.step = "idle" /\ Claimable(jobs[Refresh])
    /\ jobs' = [jobs EXCEPT ![Refresh] = ClaimedRow(@, DeviceService)]
    /\ service' = [IdleService EXCEPT !.step = "sign"]
    /\ UNCHANGED <<children, derived, output, worker, device, installed, record>>

PollInstall(d) ==
    /\ service.step = "idle" /\ ~Claimable(jobs[Refresh])
    /\ Claimable(jobs[Install(d)])
    /\ \A e \in 1 .. d - 1 : ~Claimable(jobs[Install(e)])
    /\ jobs' = [jobs EXCEPT ![Install(d)] = ClaimedRow(@, DeviceService)]
    /\ service' = [IdleService EXCEPT !.step = "polled", !.install = d]
    /\ UNCHANGED <<children, derived, output, worker, device, installed, record>>

\* A wrapper that fails or is killed may have put its artifact on the device.
WrapperFails(d) ==
    \/ UNCHANGED <<device, installed>>
    \/ device' = d /\ installed' = installed \union {d}

\* run_intent for a polled install: the wrapper installs the job's own artifact.
RunPolled ==
    /\ service.step = "polled"
    /\ device' = service.install
    /\ installed' = installed \union {service.install}
    /\ service' = [service EXCEPT !.step = "polledInstalled"]
    /\ UNCHANGED <<jobs, children, derived, output, worker, record>>

ReportPolled ==
    /\ \/ /\ service.step = "polledInstalled"
          /\ jobs' = Reported(jobs, DeviceService, Install(service.install), "completed", "")
          /\ UNCHANGED <<device, installed>>
       \/ /\ service.step = "polled"
          /\ WrapperFails(service.install)
          /\ jobs' = Reported(jobs, DeviceService, Install(service.install), "failed", "network")
    /\ service' = IdleService
    /\ UNCHANGED <<children, derived, output, worker, record>>

(***************************************************************************)
(* The device service: _run_refresh_ios.                                   *)
(***************************************************************************)

\* _fail_refresh, from the rows an earlier report of the same step left.
FailRefresh(rows, category) ==
    /\ jobs' = Reported(rows, DeviceService, Refresh, "failed", category)
    /\ service' = IdleService

\* handleDeviceRefreshSign: one sign child per source, created once.  The
\* fallback round names the original.
SignSource(updating) == IF updating /\ ~service.fallback THEN Newer ELSE Original

\* Mutant: a finished sign child is started afresh.
EnsureSign_Afresh(s) ==
    /\ jobs' = [jobs EXCEPT ![Sign(s)] =
                  IF @.state \in {"absent", "completed"} THEN CreatedRow("now") ELSE @]
    /\ children' = IF jobs[Sign(s)].state = "absent" THEN Append(children, s) ELSE children

EnsureSign(s) ==
    IF jobs[Sign(s)].state = "absent"
    THEN /\ jobs' = [jobs EXCEPT ![Sign(s)] = CreatedRow("now")]
         /\ children' = Append(children, s)
    ELSE UNCHANGED <<jobs, children>>

RequestSign ==
    /\ service.step = "sign"
    /\ jobs[Refresh].state \in Active
    /\ \E updating \in UpdateChoices :
          /\ EnsureSign(SignSource(updating))
          /\ service' = [service EXCEPT !.step = "await",
                           !.updating = IF service.fallback THEN @ ELSE updating,
                           !.source = SignSource(updating)]
    /\ UNCHANGED <<derived, output, worker, device, installed, record>>

\* Refused: the refresh is not active any more, the artifact is not approved,
\* no account resolves; or the request is lost.
SignRefused ==
    /\ service.step = "sign"
    /\ FailRefresh(jobs, "network")
    /\ UNCHANGED <<children, derived, output, worker, device, installed, record>>

\* _await_sign, the sign child is done.
SignArrived ==
    /\ service.step = "await"
    /\ jobs[Sign(service.source)].state = "completed"
    /\ service' = [IdleService EXCEPT !.step = "ensure", !.signed = output[service.source]]
    /\ UNCHANGED <<jobs, children, derived, output, worker, device, installed, record>>

\* Mutant: giving up is reported as an authentication failure.
AwaitFailures_Auth(row) ==
    {"auth"} \union (IF row.state \in {"failed", "dead"} THEN {row.category} ELSE {})

\* The categories _await_sign gives up with: the child's own, or that of a
\* timeout.
AwaitFailures(row) ==
    {"network"} \union (IF row.state \in {"failed", "dead"} THEN {row.category} \ {""} ELSE {})

SignGivenUp(category) ==
    /\ service.step = "await"
    /\ category \in AwaitFailures(jobs[Sign(service.source)])
    /\ IF service.updating /\ ~service.fallback
       THEN /\ service' = [service EXCEPT !.step = "sign", !.fallback = TRUE]
            /\ UNCHANGED jobs
       ELSE FailRefresh(jobs, category)
    /\ UNCHANGED <<children, derived, output, worker, device, installed, record>>

\* The status request fails: the refresh is failed without a fallback round.
AwaitInterrupted ==
    /\ service.step = "await"
    /\ FailRefresh(jobs, "network")
    /\ UNCHANGED <<children, derived, output, worker, device, installed, record>>

(***************************************************************************)
(* handleDeviceEnsureInstall: the newest sign child must be completed; its *)
(* install child is handed out.  The device service is the only claimant   *)
(* of installs here, so the statements of ClaimSpecific are one step.      *)
(***************************************************************************)
NewestChild == children[Len(children)]

InstallReady == /\ jobs[Refresh].state \in Active
                /\ jobs[Sign(NewestChild)].state = "completed"

EnsureInstall ==
    /\ service.step = "ensure" /\ InstallReady
    /\ LET d == output[NewestChild]
           row == jobs[Install(d)]
       IN  /\ jobs' = [jobs EXCEPT ![Install(d)] =
                         CASE row.state = "completed" \/ row.state \in Active -> @
                           [] row.state = "pending" -> ClaimedRow(@, DeviceService)
                           [] row.state = "absent" ->
                                ClaimedRow(CreatedRow("now"), DeviceService)
                           [] OTHER -> ClaimedRow(RequeuedRow(@), DeviceService)]
           /\ service' = [service EXCEPT !.install = d,
                            !.step = IF row.state = "completed" THEN "complete" ELSE "install"]
    /\ UNCHANGED <<children, derived, output, worker, device, installed, record>>

EnsureRefused ==
    /\ service.step = "ensure"
    /\ FailRefresh(jobs, "network")
    /\ UNCHANGED <<children, derived, output, worker, device, installed, record>>

\* Mutant: the wrapper's exit code is not looked at.
RunWrapper_AnyExit ==
    /\ service.step = "install"
    /\ service' = [service EXCEPT !.step = "installed"]
    /\ UNCHANGED <<jobs, children, derived, output, worker, device, installed, record>>

\* The artifact that is downloaded and installed is signed_id.
RunWrapper ==
    /\ service.step = "install"
    /\ device' = service.signed
    /\ installed' = installed \union {service.signed}
    /\ service' = [service EXCEPT !.step = "installed"]
    /\ UNCHANGED <<jobs, children, derived, output, worker, record>>

\* No tunnel, or the wrapper fails: both jobs are failed.  A failed download, or
\* a lost report of the failure, leaves the install job to its lease.
InstallFailed ==
    /\ service.step = "install"
    /\ WrapperFails(service.signed)
    /\ \E rows \in {jobs, Reported(jobs, DeviceService, Install(service.install),
                                   "failed", "network")} :
          FailRefresh(rows, "network")
    /\ UNCHANGED <<children, derived, output, worker, record>>

\* _report: an exception, from a refusal or a lost response, fails the refresh.
ReportInstalled ==
    /\ service.step = "installed"
    /\ LET rows == Reported(jobs, DeviceService, Install(service.install), "completed", "")
       IN  \/ /\ Holds(jobs, DeviceService, Install(service.install))
              /\ jobs' = rows
              /\ service' = [service EXCEPT !.step = "complete"]
           \/ FailRefresh(rows, "network")
    /\ UNCHANGED <<children, derived, output, worker, device, installed, record>>

\* _complete_refresh; a refusal is logged.
CompleteRefresh ==
    /\ service.step = "complete"
    /\ jobs' = Reported(jobs, DeviceService, Refresh, "completed", "")
    /\ record' = IF Holds(jobs, DeviceService, Refresh)
                 THEN [signed |-> service.signed, install |-> service.install] ELSE record
    /\ service' = IdleService
    /\ UNCHANGED <<children, derived, output, worker, device, installed>>

CrashService ==
    /\ service.step # "idle"
    /\ service' = IdleService
    /\ UNCHANGED <<jobs, children, derived, output, worker, device, installed, record>>

-------------------------------------------------------------------------------
(***************************************************************************)
(* The signing worker: runSignJob.                                         *)
(***************************************************************************)
ClaimSign(s) ==
    /\ worker.step = "idle" /\ Claimable(jobs[Sign(s)])
    /\ \A i, j \in DOMAIN children :
          i < j /\ children[j] = s => ~Claimable(jobs[Sign(children[i])])
    /\ jobs' = [jobs EXCEPT ![Sign(s)] = ClaimedRow(@, SigningWorker)]
    /\ worker' = [step |-> "sign", source |-> s, signed |-> None]
    /\ UNCHANGED <<children, derived, output, service, device, installed, record>>

\* Download, decryption, credentials or signonly fail; or the upload did.
SignFailed(category) ==
    /\ worker.step \in {"sign", "failing"}
    /\ worker.step = "failing" => category = "network"
    /\ jobs' = Reported(jobs, SigningWorker, Sign(worker.source), "failed", category)
    /\ worker' = IdleWorker
    /\ UNCHANGED <<children, derived, output, service, device, installed, record>>

Signed ==
    /\ worker.step = "sign"
    /\ worker' = [worker EXCEPT !.step = "upload"]
    /\ UNCHANGED <<jobs, children, derived, output, service, device, installed, record>>

\* handleUploadSignedArtifact: validateSignUploadBinding, before the file is stored.
ValidateUpload ==
    /\ worker.step = "upload"
    /\ worker' = [worker EXCEPT !.step = IF Holds(jobs, SigningWorker, Sign(worker.source))
                                         THEN "publish" ELSE "failing"]
    /\ UNCHANGED <<jobs, children, derived, output, service, device, installed, record>>

\* The inspection of the signed file finds fault, or a statement fails.
UploadRefused ==
    /\ worker.step = "publish"
    /\ worker' = [worker EXCEPT !.step = "failing"]
    /\ UNCHANGED <<jobs, children, derived, output, service, device, installed, record>>

\* The transaction: the derivative and its install child.  The worker reads the
\* answer, or loses it and takes the upload for failed.
PublishUpload ==
    /\ worker.step = "publish" /\ Len(derived) < MaxSigned
    /\ LET d == Len(derived) + 1
       IN  /\ derived' = Append(derived, worker.source)
           /\ jobs' = [jobs EXCEPT ![Install(d)] = CreatedRow("now")]
           /\ \/ worker' = [worker EXCEPT !.step = "report", !.signed = d]
              \/ worker' = [worker EXCEPT !.step = "failing"]
    /\ UNCHANGED <<children, output, service, device, installed, record>>

ReportSigned ==
    /\ worker.step = "report"
    /\ jobs' = Reported(jobs, SigningWorker, Sign(worker.source), "completed", "")
    /\ output' = IF Holds(jobs, SigningWorker, Sign(worker.source))
                 THEN [output EXCEPT ![worker.source] = worker.signed] ELSE output
    /\ worker' = IdleWorker
    /\ UNCHANGED <<children, derived, service, device, installed, record>>

CrashWorker ==
    /\ worker.step # "idle"
    /\ worker' = IdleWorker
    /\ UNCHANGED <<jobs, children, derived, output, service, device, installed, record>>

-------------------------------------------------------------------------------
\* One category that is retried and one that is terminal.
Failures == {"network", "auth"}

Next ==
    \/ \E k \in JobIds : Reap(k)
    \/ \E k \in JobIds : RetryComesDue(k)
    \/ PollRefresh
    \/ \E d \in Derivatives : PollInstall(d)
    \/ RunPolled
    \/ ReportPolled
    \/ RequestSign
    \/ SignRefused
    \/ SignArrived
    \/ \E category \in Failures : SignGivenUp(category)
    \/ AwaitInterrupted
    \/ EnsureInstall
    \/ EnsureRefused
    \/ RunWrapper
    \/ InstallFailed
    \/ ReportInstalled
    \/ CompleteRefresh
    \/ CrashService
    \/ \E s \in Sources : ClaimSign(s)
    \/ \E category \in Failures : SignFailed(category)
    \/ Signed
    \/ ValidateUpload
    \/ UploadRefused
    \/ PublishUpload
    \/ ReportSigned
    \/ CrashWorker

Spec == Init /\ [][Next]_vars

-------------------------------------------------------------------------------
(***************************************************************************)
(* Properties.                                                             *)
(***************************************************************************)

\* The variables keep the types of rows, ids and program counters.
TypeOK ==
    /\ jobs \in [JobIds -> Row]
    /\ children \in Seq(Sources) /\ Len(children) <= 2
    /\ derived \in Seq(Sources) /\ Len(derived) <= MaxSigned
    /\ output \in [Sources -> Derivatives \union {None}]
    /\ service \in Service
    /\ worker \in Worker
    /\ device \in installed \union {None}
    /\ installed \subseteq Derivatives
    /\ record \in [signed: Derivatives \union {None}, install: Derivatives \union {None}]

\* Comment of applyRefreshOutcome: "The completed refresh names the exact signed
\* artifact installed and the install job that installed it".  The recorded
\* derivative was put on the device, and the recorded install job is the one of
\* that derivative and is completed, through every crash, lost report, repeated
\* upload and retried install.  It holds where the refresh has one sign child;
\* with an update and a fallback TLC refutes it under wrong_derivative.cfg.
CompletedNamesInstalled ==
    jobs[Refresh].state = "completed" =>
        /\ record.signed \in installed
        /\ record.install = record.signed
        /\ jobs[Install(record.install)].state = "completed"

\* A completed sign child is reused, never run again: Apple is not asked a
\* second time and no second derivative appears, whatever the refresh retries
\* (handleDeviceRefreshSign: "a completed sign is reused rather than re-run").
CompletedSignIsReused ==
    [][\A s \in Sources :
         /\ jobs[Sign(s)].state = "completed" =>
              jobs'[Sign(s)] = jobs[Sign(s)] /\ output'[s] = output[s]
         /\ Len(derived') > Len(derived) /\ derived'[Len(derived')] = s =>
              jobs[Sign(s)].state # "completed"]_vars

\* A refresh dies of a terminal error only when its signing did: device and
\* tunnel failures, timeouts and refusals stay retryable (_fail_refresh).
TerminalRefreshHasCause ==
    jobs[Refresh].state = "dead" /\ jobs[Refresh].deadReason = "terminal_error" =>
        \E s \in Sources : /\ jobs[Sign(s)].state \in {"failed", "dead"}
                           /\ jobs[Sign(s)].category \in terminalErrorCategories

\* The installation record is "the authoritative install state the next refresh
\* resolves through": once the refresh is completed, the device carries the
\* recorded derivative.  A repeated upload leaves an install job behind: TLC
\* refutes this invariant under leftover_install.cfg.
DeviceMatchesRecord ==
    jobs[Refresh].state = "completed" => device = record.signed
===============================================================================
