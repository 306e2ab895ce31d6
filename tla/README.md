# Verification of sidey

Sidey keeps sideloaded apps signed.  A control plane written in Go holds a job
queue in PostgreSQL; agents (a device service beside the devices, device agents, a
signing worker that talks to Apple) poll it over HTTP; a scheduler enqueues a
refresh before the provisioning profile of an installed app expires.  This
directory holds TLA+ models of that machinery and of what surrounds it (the artifact
store, enrolment, certificate export, the app catalog), the TLC configurations that
check them on small instances, and TLAPS proofs of their main safety properties.

Paths below are relative to `src/`.

## 1. The system

### Parts

| part | state it keeps | operations | what is hard |
|---|---|---|---|
| job queue, `internal/jobs/jobs.go` | `jobs` rows: state, claim, lease, attempt, retry time, error category, reason of death | Create, CreateRefresh, Claim, ClaimSpecific, Update, Reap | agents vanish, answer late and twice; the reaper runs beside them; ClaimSpecific is three statements without a transaction |
| agent endpoints, `internal/api/jobs.go`, `agents.go` | role of an agent, owner of a device | claim with filters, update, device report | a filter decides both what is claimed and whether the device scope applies |
| refresh scheduler, `internal/scheduler/scheduler.go` | snapshots of due deployments | markUnrefreshable, createRefreshJob, deadCycleTerminal, releaseDeadCycle, expiryGuard | a tick is a series of statements over a stale snapshot; a restart cuts it anywhere |
| outcome bookkeeping, `applyRefreshOutcome` | due date, expiry, result and linkage of a deployment | on completed and failed updates | runs inside the update transaction: one failing statement undoes the report |
| manual refresh `internal/api/accounts.go`, retention `internal/retention/prune.go` | keys of manual jobs, linkage of records | handleManualRefresh, PruneSignedArtifacts | act between any two statements of a tick |
| refresh workflow, `internal/api/device_refresh.go`, `scripts/sidey-device.py` | sign and install children of a refresh; what is on the device | refresh-sign, await, fallback, ensure-install, install, complete | three processes, each may crash or be reaped between any two requests |
| signed uploads, `internal/api/signing.go` | signed derivatives, install jobs | handleUploadSignedArtifact | checked first, committed later; a repeated upload makes a second derivative |
| signing worker, `cmd/signing-worker/main.go` | breaker and attempts in `apple_guard.json` | allow, noteRun, runSignJob, runExportP12Job, runAppIDsJob | restarts; the file is written when a run ends |
| artifact store and retention, `internal/artifacts`, `internal/api/artifacts.go`, `internal/retention` | content-addressed files beside rows, an advisory lock per hash | upload, signed upload, download, verdict, prune | files and rows are not one transaction; downloads take no lock; a failed statement ends the lock before the cleanup |
| enrolment, `internal/api/agents.go`, `ensureAgent` of the worker | single-use tokens, agent rows, the worker's key and id files | issue, enrol, heartbeat, which may change the role, offline mark | two uses of one token; the key is answered once and kept in two files |
| certificate export, `internal/api/certstore.go`, P12 push | one cached export job per account | wait for the export, purge a failed one, retry once | rows are polled by id and purged by key; requests share the row; the lease is shorter than the helper's timeout |
| source list and catalog, `internal/api/store.go` | two copies of a file, removed feeds, ten-minute cache | add, delete, mirror, list | nothing locks the files; one copy does not survive a replacement of the container |
| updates, `internal/api/store.go` | listings per source, subscriptions | snapshot, compare, subscribe, import | a version order that is numeric or textual per segment, rows in no order |
| dashboard, audit, discovery, authentication, clients, vendored tools | none that the others depend on | | I/O |

### How they interact

Everything goes through the `jobs` table.  The scheduler, the dashboard and the
upload handler insert rows; agents claim and report them; the reaper re-queues or
buries what they abandon; a reported refresh outcome is written to the deployment
in the same transaction.  A refresh on the control plane's own host has children:
the device service asks for a sign child, waits for the signing worker to upload
a derivative and complete it, has the install child handed to it, installs, and
reports both jobs.

### What makes each part correct

* queue: no job is lost, retried beyond its budget, handed to somebody not
  entitled to it, revived after a terminal failure or taken from a live holder;
* scheduler: due deployments are served, only exhausted cycles are restarted, the
  operator is told the truth, outcomes are never lost;
* workflow: a completed refresh names what was installed, signing is not repeated,
  only a terminal signing error is terminal for the refresh;
* artifact store: a row that may be asked for has its bytes, a file without a row has
  a known cause, retention completes;
* enrolment: a token enrols one agent, a running worker has a working key, a worker
  serves in the end;
* certificate export: a failed export is retried once, live work is not purged, an
  export comes to an end;
* sources and updates: what the operator added stays and what was deleted stays away,
  the offered version is the newest, an imported one does not surface again;
* guard: Apple is never asked more often than cap and breaker allow, and the
  worker is never shut out for good.

Several of these the code keeps only as long as nothing uncommon happens in the wrong place.
The models let it happen all the same, and the properties name the event that excuses a state;
section 4 has the same claims without the excuse, and what refutes them.

`PROJECT.json` lists the hazards line by line, with the properties that cover them.

## 2. Modules

| module | models | composed of |
|---|---|---|
| `JobRow` | one row of `jobs` and what each SQL statement does to it; pure operators | |
| `JobQueue` | the job service behind the agent endpoints | `JobRow` |
| `JobContract` | abstract: the life cycle the queue promises for each job | |
| `RefreshScheduler` | scheduler tick, manual refresh, outcome bookkeeping, retention of derivatives | `JobRow` |
| `RefreshWorkflow` | one refresh with its children, device service, signing worker, upload | `JobRow` |
| `AppleGuard` | circuit breaker, rate cap and their state file | |
| `ArtifactStore` | file store, uploads, signed uploads, downloads, retention | |
| `WorkerRequests` | certificate requests that wait for one export job, the worker, the reaper | `JobRow` |
| `Enrolment` | tokens, enrolment, the worker's files, heartbeats and the role they decide | |
| `SourceList` | the source list on disk, the mirror, the cached catalog | |
| `UpdateWatch` | listings, version order, update offers, subscriptions | |
| `JobQueueProofs` (also `JobRow`, `JobContract`), `RefreshSchedulerProofs`, `RefreshWorkflowProofs`, `AppleGuardProofs`, `ArtifactStoreProofs`, `WorkerRequestsProofs`, `EnrolmentProofs`, `CatalogProofs` (`SourceList`, `UpdateWatch`) | theorems | |
| `MCJobQueue`, `MCRefreshScheduler`, `MCUpdateWatch` | instances for TLC | |

### JobRow, JobQueue

A row is named by its idempotency key, which is UNIQUE.  A transaction is one
action.  Time is abstracted to what the statements compare with `now()`: a lease
is none, running or expired; a retry time is now or later.  "network" stands for
every error category that is retried.

`Create`, `Claim`, `Update` and `Reap` are one action each.  `ClaimSpecific` is
three (`Read`, `Requeue`, `Claim`) since it uses no transaction; `Abort` is a caller
that leaves in between.  `Claim` takes any filter of types and devices, visits the
devices in the order of their ids and may stop after any of them (the limit).
`Reap` takes any set of reapable rows (`SKIP LOCKED`).  Agents may send any request
at any time; refused requests change nothing.

`JobContract` says the same without rows and leases: a job is offered, held by one
worker at a time, done for good, or withdrawn; sign and refresh jobs, once closed,
stay closed.  `JobQueue!Phase` and `Holder` are the refinement mapping.

### RefreshScheduler

The tick is a program counter with snapshots; each statement is an action, and
agents, reaper, operator, retention and restarts act in between.  Days are the unit
of time, as in the idempotency keys.  `deployments` joins the deployment with its
installation record.  `RollbackRecordFails` is the foreign key of
`deployments.rollback_artifact_id`, which references another table than the id
written into it.  A finished refresh reports the expiry of a new profile, or any of `OddExpiries`:
nothing checks it (`jobs.go:708`); `stale` is the history of a report that left its deployment
due.  `deadCycleUnread` is the failed read of a dead row, which counts as "not terminal"
(`scheduler.go:374`); `unread` remembers that a row was deleted after one.

### RefreshWorkflow

Jobs are named by what their keys are made of: the refresh, a sign child per source
artifact, an install child per derivative.  The device service and the signing
worker are one process each; `Crash*` loses their local state, leases may lapse at
any step (`Lapsed`), so heartbeats need no action.  `record` is what the completed
refresh stored, `device` what is on the device, `installed` what ever was.  The
statements of ClaimSpecific are one step here, because the device service is the only
claimant of installs; their interleavings are checked in `JobQueue`.

### AppleGuard

Instants are ages, so time goes on for ever in finitely many states.  The attempts are
kept by the name of their run: their order in the file only matters for a log line.  There
is a name for each run below the cap and for each of the `MaxUncounted` the guard may not know
of; `GuardTypes` proves that one is always free.  `noteRun`
includes `save`: the file is either the new state or unreadable.  `streak`, `latest`,
`starts` and `uncounted` are histories the properties are stated about.  `starts` holds every
helper run that began within the hour, `uncounted` the ones of them that the guard does not
know of: the worker was killed before their end, the output of an export could not be read
(`main.go:706-713` returns without `noteRun`), or they were forgotten with an unreadable file.
`RateCap` allows that many runs more than the cap and no others.  `streak` begins anew with an
unreadable file, as the count of the guard does.  It is assumed that the state directory
stays writable and the clock does not jump.

### ArtifactStore

Each statement and each file operation of a handler is a step, for one hash per request.
Rows become visible at COMMIT.  The advisory lock belongs to the transaction: it is gone
when a statement fails, which is before `fail` and the upload's cleanup remove the file.
`exposed` collects the hashes on which a step without lock (a download, or such a cleanup)
overlapped somebody else's work, `wronged` the ones whose file a failed request goes on to remove
although a row names it (an upload whose INSERT failed and that had borrowed the file of a
derivative; a derivative whose COMMIT took effect while its answer was lost), `litter` the ones
whose file was abandoned.  Derivatives
are fresh or expired beyond the retention.  Whether an archive passes inspection is left
to the environment.

### WorkerRequests

One Apple account, hence one key.  A row carries the number of its insertion, because
requests poll by id and purge by key.  `Create` is its INSERT and the SELECT that follows a
conflict.  `PurgeFails` is the DELETE whose error is ignored (`certstore.go:133`): the request
goes on and reads the failed row again (`unpurged`).  The lease may lapse whenever a row is active: the worker reports progress once
and the helper may run longer than the lease.

### Enrolment

`Found`, `Consume`, `Commit` are the statements of handleEnrolAgent; `locked` is FOR UPDATE,
which for a legacy token covers every unused legacy row.  The worker's process writes the key
file and then the id file; a crash may leave either missing, the first one truncated.
`faults` bounds crashes, lost answers, failing statements, expiries and server restarts
together.  The operator gives a worker that is down a new token once its own cannot work.

### SourceList, UpdateWatch

A file of `SourceList` is a set of entries (a URL and an id, which for a mirrored feed is a mark).
Nothing serialises the handlers and the mirror, so edits interleave step by step: the read of what was
removed, the read of the list, and each of the four file writes (two copies of the removed URLs, two
of the list), any of which may fail without the handler noticing.  A restart of the process keeps the
files, one of the container loses those under `/var/lib/sidey`; both drop the edits in progress.  A
file write is whole or does not happen, and a read of both copies of a file is one step.  `listed` and
`banned` are histories of what the operator was told is added or deleted; `excused` has the entries whose
own edit ran beside another one or failed to write a file, and the ones an addition overlooked because
it reads the ephemeral copy only.

`UpdateWatch` keeps compareVersions as pure operators over sequences of ranks and checks
what handleListUpdates may answer against the order its comment gives, for every order of the rows.  The scan
of the rows and the number that digits stand for are recursive functions.  Segments are arbitrary
sequences, and the instance has one that mixes digits and letters.  A version is `Plain` when none of
its segments does so from a digit on.  On others the comparison is not transitive (9 < 10 as numbers,
10 < 1a < 9 as text), and the order of the rows decides what is offered (section 4).  An import whose
UPDATE of the baseline fails, which handleStoreInstall ignores, is a step that changes nothing.

## 3. Runs

| run | instance | shows |
|---|---|---|
| `queue_lifecycle` | one device with a refresh (budget 2) and an install (budget 1), device service and device agent, one ClaimSpecific call | types, no lost job, retry budget, entitled holders, truthful deaths, broken work stops, stable claims, the contract as a refinement, and that refresh jobs settle |
| `scheduler_safety` | one deployment, restarts, failing reads, two odd expiries, one automatic and two manual attempts, one manual refresh | due date and cycle key stay in step, only exhausted cycles are deleted, flags are justified, but for the named exceptions |
| `scheduler_liveness` | one attempt, three days, pruning, no manual refresh | a due deployment is served, released or flagged, unless a completed refresh left it due |
| `bookkeeping_lost` | one deployment | violation: a success is rolled back |
| `workflow` | update and fallback rounds; budgets 2, 1, 2; two derivatives | a finished signing is never repeated; only terminal signing errors are terminal |
| `workflow_resign` | no update; budgets 2, 2, 2; two derivatives | a completed refresh names what was installed |
| `apple_guard` | threshold 3, cooldown and window 2 units, cap 3, a run begins while at most one is uncounted | cap and breaker hold through restarts but for uncounted runs; the guard opens again |
| `artifact_store` | one hash, two handlers of all kinds, retention, a restart, failing INSERTs, lost COMMIT answers | no row loses its file but for the named exceptions; files without rows have a cause; retention completes |
| `source_list` | two URLs (a feed, a repository), one operator, the mirror, one reader, failing writes, two restarts | undisturbed additions stay, undisturbed deletions last, the catalog forgets deleted sources |
| `update_watch` | three sources, five versions, two days | offers are newest while listings are plain and always newer than what is deployed; imports do not resurface |
| `worker_requests` | two requests, budget 2, failing purges | no live work purged by its judge, one retry where the purge works, rows lost only to the other request, exports settle |
| `enrolment` | one worker, three tokens (one legacy), two handlers, two faults | one agent per token, working keys, the worker serves, lost agents go offline |

Bounds.  Two jobs and two agents are enough for every pairwise conflict over a row or a
device, and the properties of rows quantify over one row each; the theorems lift
the bounds of the queue and of every other module that has a proof (section 5).  A budget of 2 has a first, a repeated and an exhausted attempt.
`RequeueCap` bounds the installs ClaimSpecific requeues without limit.  `Horizon` and
`MaxManual` bound days and manual refreshes; a horizon of 1 or 2 lets a deployment fall
due, expire and have its derivative pruned.  `MaxSigned` 2 allows one repeated upload or
one fallback.  `OddExpiries` are the reported expiries that keep or set back a cycle.  In the guard, a
window of 2 units and a cap of 3 let runs begin before, at and after the boundary of the window while the threshold is that of the code.  Requests of
the artifact store on different hashes share nothing but the retention pass, which the proof
covers; two handlers and the pruner give every pairwise overlap on one hash.  Two certificate
requests are enough for one to purge what the other waits for.  An operator's request and the
mirror are two edits that overlap in every way; two restarts cut an edit and then replace the container.  Three tokens let a worker
lose one to a crash and one to an expiry and still enrol.

Deadlock is not checked where the system may stop: all jobs settled, all requests answered,
the horizon reached.

### Fairness

* `JobQueue!FairSpec`: time passes (leases run out, retries come due), the reaper's ticker
  never stops, agents poll for ever, and a claim is not renewed for ever, since every
  executor has a timeout (`JOB_TIMEOUT_SECONDS`, `jobTimeout`, `SIDEY_REFRESH_TIMEOUT`).
  Nothing is assumed about what agents report.
* `RefreshScheduler!FairSpec`: the scheduler goroutine goes on while the control plane
  stays up.  Agents may do nothing.
* `AppleGuard!FairSpec`: time passes.
* `ArtifactStore!FairSpec`: handlers run to their end and do not fail every time before they
  publish; the daily retention loop comes back, gets the lock in the end (PostgreSQL queues
  waiters) and does not fail every time.
* `SourceList!FairSpec`: a fetch ends (its client has a timeout) and ten minutes pass.
* `WorkerRequests!FairSpec`: the worker polls, its helper has a timeout, the reaper runs and
  retries come due.  Nothing is assumed about the requests.
* `Enrolment!FairSpec`: Docker restarts the worker (`restart: unless-stopped`), handlers end, a
  running worker sends heartbeats, the reaper runs, and the operator
  replaces dead tokens.

## 4. Disagreements between code and comments

`bookkeeping_lost` is a run of its own and quoted in `PROJECT.json`: a refresh that installs a new
derivative writes a `signed_artifacts` id into a column that references `artifacts`; the completed
report is rolled back.

The following claims are stated as properties beside the ones that hold.  Each has a
configuration under which TLC shows a counterexample (`tlc -config <cfg> <module>`):

| configuration | module | property | the code | the comment |
|---|---|---|---|---|
| `claim_specific_race.cfg` | `MCJobQueue` | `ClaimsAreStable` | ClaimSpecific requeues by id alone, also a row claimed meanwhile (`jobs.go:328`) | "active ones are an error" (`jobs.go:307`) |
| `device_exclusive.cfg` | `MCJobQueue` | `DeviceExclusive` | claims are serialised per device, the jobs themselves are not (`jobs.go:540`) | "two agents can never execute conflicting jobs for the same device" (`jobs.go:6`) |
| `terminal_stops.cfg` | `MCRefreshScheduler` | `TerminalFailureStops` | the guard inserts from a snapshot taken while the job was still failed (`scheduler.go:337`) | "no new work is created on later ticks" (`scheduler.go:40`) |
| `wrong_derivative.cfg` | `RefreshWorkflow` | `CompletedNamesInstalled` | ensure-install picks the newest sign child, the device service installs the one it waited for (`device_refresh.go:343`) | "names the exact signed artifact installed and the install job that installed it" (`jobs.go:723`) |
| `leftover_install.cfg` | `RefreshWorkflow` | `DeviceMatchesRecord` | each repeated upload leaves an install job that is carried out later (`signing.go:521`) | "the orchestrator finds exactly one install" (`signing.go:490`) |
| `foreign_device.cfg` | `MCJobQueue` | `OwnersOnly` | Claim counts the device service among the agents with no device restriction (`jobs.go:415-417`), ClaimSpecific asks for no owner | "other types remain restricted to the agent's own devices" (`jobs.go:393-395`); "executes on devices it owns" (`api/jobs.go:72-73`) |
| `role_by_name.cfg` | `Enrolment` | `RoleIsIssued` | an agent that enrolled under the name signing-worker becomes one at its first heartbeat, whatever its token says (`agents.go:285-287`) | a role is "bound to the admin-issued enrolment token" (`agents.go:14-17`, also 117) |
| `spent_cycle.cfg` | `MCRefreshScheduler` | `CompletionStartsCycle` | a completed refresh stores whatever expiry is reported (`jobs.go:708`); an old one leaves the deployment due under a key that is taken | "a completed refresh (which advances the expiry and therefore the key) starts a new cycle" (`scheduler.go:167-169`) |
| `unread_cycle.cfg` | `MCRefreshScheduler` | `TerminalCyclesAreKept` | a failed read of the dead row counts as "not terminal" (`scheduler.go:371-375`) | "removed so the cycle can be retried - unless the death was terminal" (`scheduler.go:173-177`) |
| `uncounted_runs.cfg` | `AppleGuard` | `AppleRunsAreCapped` | a run is noted when it ends, and an export whose output cannot be read never (`main.go:590`, `706-713`) | "at most maxAppleRunsPerHour Apple-touching helper runs" (`main.go:255-263`) |
| `unpurged_export.cfg` | `WorkerRequests` | `FailedJobIsRecreated` | the error of the DELETE is ignored and the same failed row is read again (`certstore.go:133`) | "A failed/dead job is purged and recreated once" (`certstore.go:86-87`) |
| `failed_upload.cfg` | `ArtifactStore` | `DroppedIsUnreferenced` | a failed INSERT removes the file although a derivative may name it (`artifacts.go:116-119`) | "drop the blob only if nothing references it (it cannot ...)" (`artifacts.go:117-118`) |
| `lost_commit.cfg` | `ArtifactStore` | `RemovalIsRaceFree` | a COMMIT that took effect and whose answer is lost is followed by the removal of the file (`signing.go:535`) | "removal is race-free" (`signing.go:419-422`) |
| `import_race.cfg` | `ArtifactStore` | `RowsNameFiles` | downloads publish and insert without the lock (`store.go:1278`); retention removes the file in between | "Callers hold the advisory lock for the hash while publishing" (`artifacts/store.go:91`) |
| `lost_sources.cfg` | `SourceList` | `SourcesAreKept` | an addition reads the ephemeral copy only and overwrites the persistent one (`store.go:453`) | "/run/sidey is the persistent copy" (`store.go:481`) |
| `resurrected_feed.cfg` | `SourceList` | `DeletedFeedsAreGone` | a mirror run that read the list before a deletion writes the feed back: no lock (`store.go:335-384`) | "feeds the operator deleted stay deleted" (`store.go:313-315`) |
| `mixed_versions.cfg` | `MCUpdateWatch` | `TakesTheBestRow` | with 1.9, 1.10 and 1.1b listed, none is newer than both others; the order of the rows decides (`store.go:677`, `880-891`) | "take the best row directly" (`store.go:726`); versions with a b are expected (`store.go:925`) |

Two more were met on the way and have no configuration: the comment of `fail` in `signing.go:420`
("We still hold the advisory lock") does not hold once a statement has failed, and
handleListUpdates answers with no updates when nothing is deployed (`store.go:644`), although
subscriptions are for bundles that "are not necessarily deployed" (`store.go:713`).

## 5. Proofs

All theorems hold for every value of the constants that satisfies the named assumptions.

`JobQueueProofs` (assumptions `NoAgentAssumption`, `QueueAssumptions`).  The inductive
invariant `IInv` is `TypeOK`, `RowsOK`, `HolderEntitled` and `CallsNameInstalls`.  The first
safety properties are about single rows, so `RowOK` collects what every statement keeps true
of a row, and the module begins with its proof, statement by statement.  The budget is not inductive
for installs, which ClaimSpecific requeues; `CallsNameInstalls` says that calls in flight touch
nothing else.  From `IInv` follow `TypeCorrect`, `NoJobLost`, `ClaimsAreEntitled`, `RetryIsFinite`,
`DeathsAreExplained` and, as an action property, `BrokenWorkIsNotRetried`.

For the contract it adds `RequeueSeesFailure` and the assumption `SerialCalls`: ClaimSpecific
calls do not overlap.  Then no step can move a row between the read and the requeue of a call,
each step moves each row along one statement (`StepMovesRows`), and `SerialClaimsAreStable` and
the refinement `SerialQueueKeepsContract` follow.  Without the assumption both are false, which
`claim_specific_race` shows.

`RefreshSchedulerProofs`.  `BaseInv` has the types, that every row is well formed, that the due date
follows the expiry (`DueFollowsExpiry`), that the cycle of a snapshot was due when it was taken
(`CyclesAreDue`), and that a cycle the tick found dead stays stored and dead until the tick is done
with it (`CycleStaysDead`).  A lemma per action shows that it keeps `BaseInv` and has one of a few
effects on rows, tick and deployments (`Effects`); the properties follow from the effects alone.
`OnlyExhaustedAreDeleted` and `FlagsAreJustified` need `VerdictStands`: between the SELECT of
deadCycleTerminal and the statement that acts on it, nobody changes the reason of death, because
no statement of agents, reaper or operator touches a dead row.  A verdict that comes from a failed
read is marked in the tick, and the deletion it leads to is marked in the deployment (`unread`).
`CompletedCyclesAreOver` rests on `CompletedArePast`: a completed cycle lies before the due date of
its deployment, unless the last report was `stale`.  None of them assumes that reads succeed or that
reported expiries are new.

`RefreshWorkflowProofs`.  `Inv` collects the types and the way jobs, children, derivatives and the two
processes refer to each other: the children are the sign jobs that exist, each once, every derivative
has its install job, a completed sign job names a derivative, and each process knows what its step needs.  `WorkflowStep` shows
once for all actions that `Inv` is kept and what a step may do (`Effects`): rows move along the
statements of the queue, a sign job is completed only by its worker, a derivative is added only at an
upload, an install job is completed only by the service that ran it, a refresh gets a
terminal category only while a sign child has one.  `FinishedSigningIsFinal` adds `SignInv` (a worker at
work is at work on a job that is not completed), `TerminalErrorsComeFromSigning` adds `CauseInv`
(already the category of a refresh has its cause, not only its death), and `RefreshNamesInstalled` adds
`OneSourceInv`: the service's picture of the sign and install jobs is true at each of its steps.  The
last one assumes `NoUpdate` (`UpdateChoices` offers no update), as `workflow_resign` does; with an
update it is false (`wrong_derivative.cfg`).

`AppleGuardProofs` proves `BreakerIsObeyed`, `GuardTypes` and `RateIsCapped`.  `BreakerInv` says that the
guard of a running worker and every readable file know the streak of failures and stay open until
the cooldown of the latest one is over; a crash passes this knowledge from memory to file, a restart
back.  `RateInv` says that guard and readable file cover the starts within the window: each is noted, at
an age that is at most its own, except the one in progress and the uncounted ones.  So pruning drops no attempt whose start
still counts, a worker that found room below the cap has room for one more start, and the cap follows
with facts about the cardinality of finite sets.

`ArtifactStoreProofs`.  `LockInv` joins the types with: a request at work has a hash and a kind
(`Working`); who works under the lock holds it (`LocksHeld`); every overlap with a step without lock is
recorded (`OverlapsExposed`).  It holds whatever fails, and `StoreTypes` with it.  `IInv` adds, for each
hash that is neither exposed nor wronged, what its rows and the progress of its request or of the pruner
say about the file (`HashesOK`): a request that has published relies on nobody removing the file until it
commits, and a pruner that has counted relies on nobody adding a row.  `LockProtectsRows` follows from it
for any number of hashes and handlers, whatever fails.  `NoUnexplainedOrphans` adds `OrphanInv` to `LockInv`:
what the pruner has counted and an upload has found is still so, and a file without a row on a hash that
is neither exposed nor litter has its creator at work.  It is this last part the pruner and a rejected derivative
could break by removing rows and keeping the file.

`WorkerRequestsProofs` strengthens `JudgedRowsStayBroken` by what requests know: numbers of rows only
grow, a request's snapshot is of a row that was stored, a broken export row has no lease and is not
reapable, so it stays broken until it is purged; a request that retried has judged an earlier row, or
its purge failed.
`EnrolmentProofs`: handlers that have found a token hold its lock and the token is unused, so two of
them never share one; used tokens and agents name each other; a key in a file whose id file exists,
or in a running process, belongs to a stored agent.

`CatalogProofs`.  `AddedSourcesStay` and `DeletedFeedsStayAway` hold however edits overlap, fail to write
and are cut off.  `Sound` is the heart of the invariant: an edit whose entry is not excused is the only one
at work, so what it carries is what is on disk, up to the copies it has not yet written; an edit that begins
beside it excuses it.  What was added or deleted undisturbed is in every list that is on disk or about to
be written, and in no list respectively (`ListedOK`, `BannedOK`), so later edits may overlap as they
like: each of them carries it on, except an addition that reads a missing copy.

The theorems about updates assume `WatchAssumptions`: finitely many sources, versions without empty
segments.  They are about what loops compute, so they need induction over data.  It is taken
from the library's fact that `<` on the naturals is well founded: a set of naturals that is not empty has a smallest
element (`SmallestElement`), so a set that holds 0 and with each number the next holds them all
(`SetInduction`).  The argument goes up in four steps.  Digits: leading zeros add nothing, a digit that
is not zero counts, and what is smaller stays smaller whatever follows, hence trimming zeros and
comparing lengths, then text, compares the numbers (`NumbersCompare`).  Segments: compareVersionSegment
decides `SegmentBefore`, of which at most one direction holds (`SegmentsCompare`, `SegmentAsym`), and which
on plain segments is a strict weak order (`SegmentOrder`).  Versions: the first segment that differs
decides, nothing is before the empty version, compareVersions answers 1 exactly when the other version is
before (`VersionsCompare`), and `Before` is transitive on plain versions (`BeforeOrder`); `CompareVersionsIsAnOrder`
collects this.  The scan: after each row no row
read so far is newer than the best one while listings are plain (`ScanNewest`), and an order of the rows leaves none out because an
injection between finite sets of one size is onto (`OrderIsOnto`).  `NewestIsOffered` follows from the types
alone; `ImportStopsSurfacing` adds `ImportIsSeen`: while there is a last import the bundle is watched
and the import is the baseline.

Model-checked only: liveness (`SignAndRefreshSettle`, `DueIsServed`, `BlockedIsTemporary`,
`RetentionCompletes`, `CatalogForgets`, `ExportSettles`, `WorkersServe`, `LostAgentsGoOffline`), which is out of
the prover's reach.  Every safety property a passing run checks has a theorem.

## 6. Not modelled

* The legacy one-step refresh of tvOS devices and remote nodes, and the other executors of the
  device service (uninstall, inventory, LiveContainer push): single jobs without children.
* A wrapper that outlives a crashed device service and installs later.
* Account, deployment and device administration, apart from the manual refresh and the approvals
  of artifacts: single statements on single rows.  Two-factor codes are a file that is passed on.
* The encrypted signing state of the worker (AES over whole files), the IPA cache, the inspection
  of archives and provisioning profiles: pure data transformations.
* Device tokens and pairing: issue, revocation and lookup of one row.
* The GitHub feed and the self-hosted source document: renderings that nothing compares or stores.
* Half-written source files; in the worker's files they are modelled.
* Dashboard, audit log, discovery, admin sessions, the iOS app, the web dashboard, the Rust
  experiments and vendored tools: I/O, read-only views, or no shared state.

What a further development would add: deletion of deployments under a running tick.
