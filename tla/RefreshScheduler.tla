--------------------------- MODULE RefreshScheduler ---------------------------
(***************************************************************************)
(* The refresh cycle of a deployment: the scheduler tick                   *)
(* (src/internal/scheduler/scheduler.go), the manual refresh of the        *)
(* dashboard (src/internal/api/accounts.go), the bookkeeping a finished    *)
(* refresh job does on its deployment (applyRefreshOutcome in              *)
(* src/internal/jobs/jobs.go) and the retention of signed derivatives      *)
(* (src/internal/retention/prune.go), over the job rows of JobRow.         *)
(*                                                                         *)
(* The tick is a goroutine that issues one statement after the other       *)
(* without a transaction, working from snapshots; every statement is a     *)
(* step, and agents, the reaper and the operator act in between.  The      *)
(* control plane may restart at any point of a tick.                       *)
(*                                                                         *)
(* Time is counted in days, the granularity of the idempotency keys.       *)
(* Which refresh job an agent is handed first is the subject of JobQueue;  *)
(* here an agent may take any claimable one.                               *)
(***************************************************************************)
EXTENDS JobRow

CONSTANTS Deployments,         \* deployments whose device has an agent
          DeviceOf,            \* [Deployments -> Nat], the device of each
          Lead,                \* days before expiry at which a refresh is due
          expiryGuardLead,     \* days before expiry at which the guard acts
          refreshProfileValidity, \* days a fresh profile is valid
          Retention,           \* days an expired derivative is kept
          refreshMaxAttempts,  \* max_attempts of the scheduler's jobs
          manualMaxAttempts,   \* max_attempts of a manual refresh
          OddExpiries,         \* bound: other expiries an agent may report
          Horizon,             \* bound: the last day
          MaxManual            \* bound: manual refreshes of a deployment

ASSUME SchedulerAssumptions ==
    /\ DeviceOf \in [Deployments -> Nat]
    /\ Lead \in Nat /\ expiryGuardLead \in 0..Lead
    /\ refreshProfileValidity \in Nat /\ Lead < refreshProfileValidity
    /\ Retention \in Nat
    /\ refreshMaxAttempts \in Nat /\ manualMaxAttempts \in Nat
    /\ Horizon \in Nat /\ MaxManual \in Nat
    /\ OddExpiries \subseteq Lead .. Horizon + refreshProfileValidity

VARIABLES today,        \* the current day
          deployments,  \* the deployments row with its installation record
          jobs,         \* the stored refresh jobs, by idempotency key
          tick          \* progress of the scheduler goroutine

vars == <<today, deployments, jobs, tick>>

Days == 0 .. Horizon + refreshProfileValidity

\* due       next_refresh_due_at (or, while NULL, the expiry minus the lead)
\* expiry    provisioning_expiry_at
\* profile   profile_expiry_at of the recorded derivative
\* result    last_refresh_result;  error names who wrote last_refresh_error
\* linked    signed_artifact_id IS NOT NULL (and its account resolves)
\* Histories:
\* lost      a completion report was rolled back and none was stored since
\* stale     the expiry of the last completed refresh left the deployment due
\* unread    its dead cycle was deleted by a tick that could not read it, and it
\*           was not flagged since
Deployment == [due: Days, expiry: Days, profile: Days,
               result: {"none", "ok", "failed", "attention"},
               error: {"none", "unlinked", "terminal", "agent"},
               linked: BOOLEAN, lost: BOOLEAN, stale: BOOLEAN, unread: BOOLEAN]

\* What dueDeployments and expiryGuard read of a deployment.
Snapshot == {s \in [dep: Deployments, due: Days, expiry: Days] : s.due + Lead = s.expiry}

CycleKey(s) == <<"refresh", s.dep, s.due, s.expiry>>
GuardKey(s) == <<"refresh-guard", s.dep, 0, s.expiry>>
ManualKey(d, n) == <<"manual", d, 0, n>>

JobKeys == {CycleKey(s) : s \in Snapshot} \union {GuardKey(s) : s \in Snapshot}
             \union {ManualKey(d, n) : d \in Deployments, n \in 1..MaxManual}

Dep(k) == k[2]

\* marks: deployments markUnrefreshable has still to flag;  todo: snapshots the
\* running loop has still to visit;  cur: the one whose dead cycle is handled;
\* unread: deadCycleTerminal could not read that cycle.
Tick == [step: {"idle", "mark", "due", "judge", "flag", "release", "recreate", "guard"},
         marks: SUBSET Deployments, todo: SUBSET Snapshot, cur: SUBSET Snapshot,
         unread: BOOLEAN]

IdleTick == [step |-> "idle", marks |-> {}, todo |-> {}, cur |-> {},
             unread |-> FALSE]

\* Day 0 is the day the deployments fall due.
Init ==
    /\ today = 0
    /\ deployments = [d \in Deployments |->
                        [due |-> 0, expiry |-> Lead, profile |-> Lead,
                         result |-> "none", error |-> "none",
                         linked |-> TRUE, lost |-> FALSE, stale |-> FALSE, unread |-> FALSE]]
    /\ jobs = [k \in {} |-> NoRow]
    /\ tick = IdleTick

-------------------------------------------------------------------------------
(***************************************************************************)
(* The jobs table.                                                         *)
(***************************************************************************)
Stored(k) == k \in DOMAIN jobs

\* CreateRefresh: a taken key returns its row unchanged.
CreateRefresh(k) ==
    IF Stored(k) THEN UNCHANGED jobs
    ELSE jobs' = [j \in DOMAIN jobs \union {k} |->
                    IF j = k THEN CreatedRow("now") ELSE jobs[j]]

\* States the guard takes for a refresh in flight.
InFlight == {"pending", "claimed", "in_progress"}

RefreshInFlight(d) ==
    \E k \in DOMAIN jobs : DeviceOf[Dep(k)] = DeviceOf[d] /\ jobs[k].state \in InFlight

-------------------------------------------------------------------------------
(***************************************************************************)
(* tick: markUnrefreshable, then createRefreshJob for every due            *)
(* deployment, then the expiry guard.                                      *)
(***************************************************************************)
Due(d) == deployments[d].due <= today

Take(d) == [dep |-> d, due |-> deployments[d].due, expiry |-> deployments[d].expiry]

\* Mutant: the two columns are swapped.
Flag_Swapped(d, reason) ==
    deployments' = [deployments EXCEPT ![d].result = reason, ![d].error = "attention"]

\* Sets last_refresh_result = 'attention' with the given reason.
Flag(d, reason) ==
    deployments' = [deployments EXCEPT ![d].result = "attention", ![d].error = reason,
                                       ![d].unread = FALSE]

\* markUnrefreshable: the SELECT.
TickStart ==
    /\ tick.step = "idle"
    /\ tick' = [IdleTick EXCEPT !.step = "mark",
                  !.marks = {d \in Deployments : Due(d) /\ ~deployments[d].linked}]
    /\ UNCHANGED <<today, deployments, jobs>>

\* markUnrefreshable: one UPDATE, skipped by a row that carries the reason.
markUnrefreshable(d) ==
    /\ tick.step = "mark" /\ d \in tick.marks
    /\ IF deployments[d].error = "unlinked" THEN UNCHANGED deployments
                                            ELSE Flag(d, "unlinked")
    /\ tick' = [tick EXCEPT !.marks = @ \ {d}]
    /\ UNCHANGED <<today, jobs>>

dueDeployments ==
    /\ tick.step = "mark" /\ tick.marks = {}
    /\ tick' = [tick EXCEPT !.step = "due",
                  !.todo = {Take(d) : d \in {e \in Deployments :
                                               Due(e) /\ deployments[e].linked}}]
    /\ UNCHANGED <<today, deployments, jobs>>

\* The loop over the due deployments goes on with the next one.
Visited(s) == tick' = [tick EXCEPT !.step = "due", !.todo = @ \ {s}, !.cur = {},
                                      !.unread = FALSE]

createRefreshJob(s) ==
    /\ tick.step = "due" /\ s \in tick.todo
    /\ CreateRefresh(CycleKey(s))
    /\ IF Stored(CycleKey(s)) /\ jobs[CycleKey(s)].state = "dead"
       THEN tick' = [tick EXCEPT !.step = "judge", !.cur = {s}]
       ELSE Visited(s)
    /\ UNCHANGED <<today, deployments>>

\* Mutants: the reason prefix is never found; every death counts as terminal.
DiedTerminally_Never(k) == FALSE

DiedTerminally_AnyDeath(k) == Stored(k) /\ jobs[k].state = "dead"

\* The reason of the dead row under the key begins with "terminal_error:".
DiedTerminally(k) ==
    Stored(k) /\ jobs[k].state = "dead" /\ jobs[k].deadReason = "terminal_error"

deadCycleTerminal(s) ==
    /\ tick.step = "judge" /\ s \in tick.cur
    /\ tick' = [tick EXCEPT !.step = IF DiedTerminally(CycleKey(s)) THEN "flag" ELSE "release"]
    /\ UNCHANGED <<today, deployments, jobs>>

\* The SELECT of deadCycleTerminal fails, which counts as "not terminal".
deadCycleUnread(s) ==
    /\ tick.step = "judge" /\ s \in tick.cur
    /\ tick' = [tick EXCEPT !.step = "release", !.unread = TRUE]
    /\ UNCHANGED <<today, deployments, jobs>>

flagAttention(s) ==
    /\ tick.step = "flag" /\ s \in tick.cur
    /\ Flag(s.dep, "terminal")
    /\ Visited(s)
    /\ UNCHANGED <<today, jobs>>

\* Mutant: the DELETE matches nothing.
releaseDeadCycle_NoOp(s) ==
    /\ tick.step = "release" /\ s \in tick.cur
    /\ tick' = [tick EXCEPT !.step = "recreate"]
    /\ UNCHANGED <<today, deployments, jobs>>

\* DELETE ... WHERE idempotency_key = $1 AND state = 'dead'.
releaseDeadCycle(s) ==
    /\ tick.step = "release" /\ s \in tick.cur
    /\ jobs' = [k \in {j \in DOMAIN jobs : j = CycleKey(s) => jobs[j].state # "dead"}
                  |-> jobs[k]]
    /\ tick' = [tick EXCEPT !.step = "recreate"]
    /\ deployments' = [deployments EXCEPT ![s.dep].unread = @ \/ tick.unread]
    /\ UNCHANGED today

RecreateRefreshJob(s) ==
    /\ tick.step = "recreate" /\ s \in tick.cur
    /\ CreateRefresh(CycleKey(s))
    /\ Visited(s)
    /\ UNCHANGED <<today, deployments>>

\* Deployments about to expire with no refresh in flight on their device.
AtRisk == {d \in Deployments : /\ deployments[d].linked
                               /\ deployments[d].expiry <= today + expiryGuardLead
                               /\ deployments[d].result # "attention"
                               /\ ~RefreshInFlight(d)}

expiryGuard ==
    /\ tick.step = "due" /\ tick.todo = {}
    /\ tick' = [tick EXCEPT !.step = "guard", !.todo = {Take(d) : d \in AtRisk}]
    /\ UNCHANGED <<today, deployments, jobs>>

ForceRefresh(s) ==
    /\ tick.step = "guard" /\ s \in tick.todo
    /\ CreateRefresh(GuardKey(s))
    /\ tick' = [tick EXCEPT !.todo = @ \ {s}]
    /\ UNCHANGED <<today, deployments>>

TickEnd ==
    /\ tick.step = "guard" /\ tick.todo = {}
    /\ tick' = IdleTick
    /\ UNCHANGED <<today, deployments, jobs>>

\* The control plane stops and starts again: the tick is forgotten.
Restart ==
    /\ tick.step # "idle"
    /\ tick' = IdleTick
    /\ UNCHANGED <<today, deployments, jobs>>

-------------------------------------------------------------------------------
(***************************************************************************)
(* The operator, the agents and the reaper.                                *)
(***************************************************************************)

\* handleManualRefresh; the key is a fresh uuid.
ManualRefresh(d, n) ==
    /\ deployments[d].linked
    /\ ~Stored(ManualKey(d, n))
    /\ \A m \in 1 .. n - 1 : Stored(ManualKey(d, m))
    /\ CreateRefresh(ManualKey(d, n))
    /\ UNCHANGED <<today, deployments, tick>>

SetRow(k, row) ==
    /\ jobs' = [jobs EXCEPT ![k] = row]
    /\ UNCHANGED <<today, tick>>

Claim(k, a) ==
    /\ Stored(k) /\ Claimable(jobs[k])
    /\ SetRow(k, ClaimedRow(jobs[k], a))
    /\ UNCHANGED deployments

\* Mutant: next_refresh_due_at is not moved.
CompletedDeployment_KeepsDue(dep, named, expiry) ==
    [dep EXCEPT !.expiry = expiry, !.result = "ok", !.error = "none",
                !.linked = @ \/ named = "new", !.lost = FALSE,
                !.stale = expiry - Lead <= today]

\* Update to completed with applyRefreshOutcome.  The result names no derivative
\* ("legacy"), the recorded one ("same") or another ("new").
CompletedDeployment(dep, named, expiry) ==
    [dep EXCEPT !.due = expiry - Lead, !.expiry = expiry,
                !.result = "ok", !.error = "none",
                !.linked = @ \/ named = "new",
                !.profile = IF named = "new" THEN expiry ELSE @,
                !.lost = FALSE, !.stale = expiry - Lead <= today]

\* A fresh profile is valid for refreshProfileValidity, which is also assumed when
\* the agent reports no expiry; but whatever it reports is stored, and nobody
\* compares it with the recorded expiry or with the date.
ReportedExpiries == {today + refreshProfileValidity} \union OddExpiries

\* The previous derivative becomes the rollback candidate.  That column
\* references artifacts(id), the derivative is a row of signed_artifacts: the
\* statement fails.
RollbackRecordFails(dep, named) == dep.linked /\ named = "new"

ReportCompleted(k, named, expiry) ==
    /\ Stored(k) /\ validTransition(jobs[k].state, "completed")
    /\ named = "same" => deployments[Dep(k)].linked
    /\ ~RollbackRecordFails(deployments[Dep(k)], named)
    /\ SetRow(k, UpdatedRow(jobs[k], "completed", ""))
    /\ deployments' = [deployments EXCEPT ![Dep(k)] = CompletedDeployment(@, named, expiry)]

\* The transaction of Update is rolled back; the agent logs the error and goes on.
ReportRolledBack(k) ==
    /\ Stored(k) /\ validTransition(jobs[k].state, "completed")
    /\ RollbackRecordFails(deployments[Dep(k)], "new")
    /\ deployments' = [deployments EXCEPT ![Dep(k)].lost = TRUE]
    /\ UNCHANGED <<today, jobs, tick>>

ReportFailed(k, category) ==
    /\ Stored(k) /\ validTransition(jobs[k].state, "failed")
    /\ SetRow(k, UpdatedRow(jobs[k], "failed", category))
    /\ deployments' = [deployments EXCEPT ![Dep(k)].result = "failed",
                                          ![Dep(k)].error = "agent"]

Heartbeat(k) ==
    /\ Stored(k) /\ validTransition(jobs[k].state, "in_progress")
    /\ SetRow(k, UpdatedRow(jobs[k], "in_progress", ""))
    /\ UNCHANGED deployments

Budget(k) == IF k[1] = "manual" THEN manualMaxAttempts ELSE refreshMaxAttempts

Reap(k) ==
    /\ Stored(k) /\ Reapable(jobs[k], "refresh")
    /\ SetRow(k, ReapedRow(jobs[k], Budget(k)))
    /\ UNCHANGED deployments

LeaseRunsOut(k) ==
    /\ Stored(k) /\ jobs[k].lease = "running"
    /\ SetRow(k, [jobs[k] EXCEPT !.lease = "expired"])
    /\ UNCHANGED deployments

RetryComesDue(k) ==
    /\ Stored(k) /\ jobs[k].retryAt = "later"
    /\ SetRow(k, [jobs[k] EXCEPT !.retryAt = "now"])
    /\ UNCHANGED deployments

NextDay ==
    /\ today < Horizon
    /\ today' = today + 1
    /\ UNCHANGED <<deployments, jobs, tick>>

\* PruneSignedArtifacts: the record's link is ON DELETE SET NULL.
PruneSignedArtifacts(d) ==
    /\ deployments[d].linked /\ deployments[d].profile + Retention < today
    /\ deployments' = [deployments EXCEPT ![d].linked = FALSE]
    /\ UNCHANGED <<today, jobs, tick>>

-------------------------------------------------------------------------------
TickStep ==
    \/ TickStart \/ dueDeployments \/ expiryGuard \/ TickEnd
    \/ \E d \in tick.marks : markUnrefreshable(d)
    \/ \E s \in tick.todo : createRefreshJob(s) \/ ForceRefresh(s)
    \/ \E s \in tick.cur : \/ deadCycleTerminal(s) \/ deadCycleUnread(s) \/ flagAttention(s)
                           \/ releaseDeadCycle(s) \/ RecreateRefreshJob(s)

Report(k) ==
    \/ \E named \in {"legacy", "same", "new"}, expiry \in ReportedExpiries :
          ReportCompleted(k, named, expiry)
    \/ ReportRolledBack(k)
    \/ \E category \in {"network", "auth"} : ReportFailed(k, category)

\* What happens while the control plane stays up.
UpNext ==
    \/ TickStep
    \/ \E d \in Deployments, n \in 1..MaxManual : ManualRefresh(d, n)
    \/ \E k \in DOMAIN jobs, a \in Agents : Claim(k, a)
    \/ \E k \in DOMAIN jobs : Heartbeat(k)
    \/ \E k \in DOMAIN jobs : Report(k)
    \/ \E k \in DOMAIN jobs : Reap(k)
    \/ \E k \in DOMAIN jobs : LeaseRunsOut(k)
    \/ \E k \in DOMAIN jobs : RetryComesDue(k)
    \/ NextDay
    \/ \E d \in Deployments : PruneSignedArtifacts(d)

Next == UpNext \/ Restart

Spec == Init /\ [][Next]_vars

(***************************************************************************)
(* Progress is stated for a control plane that stays up.  The scheduler    *)
(* goroutine runs for ever.                                                *)
(***************************************************************************)
FairSpec == Init /\ [][UpNext]_vars /\ WF_vars(TickStep)

-------------------------------------------------------------------------------
(***************************************************************************)
(* Properties.                                                             *)
(***************************************************************************)

\* The variables keep the types of their columns.
TypeOK ==
    /\ today \in 0..Horizon
    /\ deployments \in [Deployments -> Deployment]
    /\ DOMAIN jobs \subseteq JobKeys
    /\ \A k \in DOMAIN jobs : jobs[k] \in Row \ {NoRow}
    /\ tick \in Tick

CompletedHoldsCycle(d) ==
    Stored(CycleKey(Take(d))) /\ jobs[CycleKey(Take(d))].state = "completed"

\* Automatic refreshes are not starved by their own bookkeeping: the due date
\* stays exactly the lead before the recorded expiry, and a deployment is not
\* due while its cycle key is held by a completed job, unless the expiry reported
\* last left it due.
CompletedCycleIsOver ==
    \A d \in Deployments :
        /\ deployments[d].due = deployments[d].expiry - Lead
        /\ CompletedHoldsCycle(d) /\ ~deployments[d].stale => ~Due(d)

\* Comment of tick (scheduler.go:167-169): "a completed refresh (which advances
\* the expiry and therefore the key) starts a new cycle".  TLC refutes this
\* property under spent_cycle.cfg: a reported expiry need not be a newer one.
CompletionStartsCycle == \A d \in Deployments : CompletedHoldsCycle(d) => ~Due(d)

\* The scheduler deletes a job row only when it is dead, and for want of attempts
\* unless the read of that very cycle failed: a row an agent works on, a completed
\* one and a terminally dead one keep their key, whatever happened since
\* releaseDeadCycle was decided.
OnlyExhaustedCyclesRestart ==
    [][\A k \in DOMAIN jobs :
         k \notin DOMAIN jobs' =>
            /\ jobs[k].state = "dead"
            /\ jobs[k].deadReason = "max_attempts" \/ tick.unread]_vars

\* Comment of tick (scheduler.go:173-177): "the stale row is removed so the cycle
\* can be retried - unless the death was terminal (auth, certificate)".  TLC
\* refutes this property under unread_cycle.cfg: a failed read counts as an
\* exhausted cycle.
TerminalCyclesAreKept ==
    [][\A k \in DOMAIN jobs :
         k \notin DOMAIN jobs' => jobs[k].deadReason # "terminal_error"]_vars

\* A deployment flagged for a terminal failure has one: the dead row that the
\* operator is told about is still in the table, unless a tick that could not
\* read the row has deleted it.
AttentionIsJustified ==
    \A d \in Deployments : deployments[d].error = "terminal" /\ ~deployments[d].unread =>
        \E k \in DOMAIN jobs : /\ Dep(k) = d /\ jobs[k].state = "dead"
                               /\ jobs[k].deadReason = "terminal_error"

\* The app is kept signed: a due deployment eventually is not due any more, has
\* a live refresh job, is flagged for the operator, or its cycle is spent: a
\* completed refresh that left it due holds the key.
Live == InFlight \union {"failed"}

DueIsServed ==
    \A d \in Deployments :
        Due(d) ~> \/ ~Due(d)
                  \/ deployments[d].result = "attention"
                  \/ \E k \in DOMAIN jobs : Dep(k) = d /\ jobs[k].state \in Live
                  \/ CompletedHoldsCycle(d) /\ deployments[d].stale

\* Comment of applyRefreshOutcome: "Runs inside the job update transaction so
\* the bookkeeping can never be lost".  No success the holder of a refresh job
\* reports is dropped.
BookkeepingNeverLost == \A d \in Deployments : ~deployments[d].lost

\* Comment of the scheduler: "Terminal refresh failures (auth, certificate)
\* never auto-recover ... so no new work is created on later ticks".  While a
\* cycle is terminally dead the scheduler adds no job for it.  The guard works
\* from a snapshot: TLC refutes this property under terminal_stops.cfg.
TerminalFailureStops ==
    [][\A k \in DOMAIN jobs' \ DOMAIN jobs :
         k[1] \in {"refresh", "refresh-guard"} =>
            ~\E j \in DOMAIN jobs : /\ Dep(j) = Dep(k) /\ j[4] = k[4]
                                    /\ j[1] = "refresh"
                                    /\ jobs[j].state = "dead"
                                    /\ jobs[j].deadReason = "terminal_error"]_vars
===============================================================================
