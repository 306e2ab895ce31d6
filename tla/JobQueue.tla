------------------------------- MODULE JobQueue -------------------------------
(***************************************************************************)
(* The PostgreSQL job queue of the control plane: the job service          *)
(* (src/internal/jobs/jobs.go) behind the agent endpoints                  *)
(* (src/internal/api/jobs.go, device_refresh.go, agents.go).               *)
(*                                                                         *)
(* Rows are named by their idempotency key, which is UNIQUE.  A SQL        *)
(* transaction is one step; ClaimSpecific issues three statements without  *)
(* one, so each of them is a step and calls overlap.  Agents are remote:   *)
(* any agent may send any request at any time, late and repeated requests  *)
(* included, and may fall silent for ever.  A refused request (409, 403)   *)
(* changes nothing and is a stuttering step.                               *)
(*                                                                         *)
(* What a finished refresh does to its deployment (applyRefreshOutcome) is *)
(* the subject of RefreshScheduler.                                        *)
(***************************************************************************)
EXTENDS JobRow

CONSTANTS Keys,         \* idempotency keys
          Devices,      \* devices, numbered in the order of their ids
          NoDevice,     \* device_id IS NULL
          JobType,      \* [Keys -> JobTypes], fixed when the row is inserted
          JobDevice,    \* [Keys -> Devices \union {NoDevice}]
          MaxAttempts,  \* [Keys -> Nat], the max_attempts column
          Role,         \* [Agents -> Roles]
          LocalService, \* the same-host device service, caller of ClaimSpecific
          Calls,        \* concurrent ClaimSpecific requests the server handles
          NoKey,        \* an idle call names no job
          RequeueCap    \* bound: rows claimed this often are not requeued

Roles == {"signing_worker", "refresh_agent", "device_service", "device_agent"}

ASSUME QueueAssumptions ==
    /\ Devices \subseteq Nat
    /\ NoDevice \notin Devices
    /\ NoKey \notin Keys
    /\ JobType \in [Keys -> JobTypes]
    /\ JobDevice \in [Keys -> Devices \union {NoDevice}]
    /\ MaxAttempts \in [Keys -> Nat]
    /\ Role \in [Agents -> Roles]
    /\ LocalService \in Agents
    /\ Role[LocalService] = "device_service"
    /\ RequeueCap \in Nat

VARIABLES jobs,    \* [Keys -> Row], the jobs table
          born,    \* [Keys -> Nat], created_at as an order; 0 while absent
          created, \* Nat, rows inserted so far
          owner,   \* [Devices -> Agents \union {NoAgent}], devices.agent_id
          calls    \* [Calls -> call], ClaimSpecific requests in flight

vars == <<jobs, born, created, owner, calls>>

Call == [step: {"idle", "requeue", "claim"}, job: Keys \union {NoKey}]

IdleCall == [step |-> "idle", job |-> NoKey]

Init ==
    /\ jobs = [k \in Keys |-> NoRow]
    /\ born = [k \in Keys |-> 0]
    /\ created = 0
    /\ owner = [d \in Devices |-> NoAgent]
    /\ calls = [c \in Calls |-> IdleCall]

-------------------------------------------------------------------------------
(***************************************************************************)
(* Who may claim what.                                                     *)
(***************************************************************************)

allowedJobTypesForRole(role) ==
    CASE role = "signing_worker" -> {"sign", "export_p12", "appids"}
      [] role = "refresh_agent"  -> {"refresh"}
      [] role = "device_service" -> {"install", "verify", "refresh", "uninstall",
                                     "inventory", "livecontainer_push",
                                     "installed_apps"}
      [] OTHER -> {"install", "verify", "uninstall", "inventory"}

\* Agents that serve every device, whoever reported it.
IsGlobalAgent(a) == Role[a] \in {"device_service", "signing_worker"}

globalTypes(types) == types \subseteq {"sign", "export_p12", "appids"}

Unscoped(a, types) == IsGlobalAgent(a) \/ globalTypes(types)

-------------------------------------------------------------------------------
(***************************************************************************)
(* Create, CreateRefresh and the INSERTs of the upload and deploy          *)
(* handlers.  A key that is taken returns its row unchanged.               *)
(***************************************************************************)
Create(k, retryAt) ==
    /\ jobs[k].state = "absent"
    /\ jobs' = [jobs EXCEPT ![k] = CreatedRow(retryAt)]
    /\ created' = created + 1
    /\ born' = [born EXCEPT ![k] = created + 1]
    /\ UNCHANGED <<owner, calls>>

(***************************************************************************)
(* Claim, reached through handleClaimJobs: types is the request's filter   *)
(* or the whole set of the role, deviceIDs the optional device filter ({}  *)
(* for none).  Devices are visited in the order of their ids until the     *)
(* limit is met, one job each, so every limit serves a prefix of them.     *)
(* Candidate rows are locked and re-read before they are written: the      *)
(* transaction is one step.                                                *)
(***************************************************************************)
ClaimableOn(d, types) ==
    {k \in Keys : Claimable(jobs[k]) /\ JobDevice[k] = d /\ JobType[k] \in types}

Oldest(S) == {k \in S : \A j \in S : born[k] <= born[j]}

\* Mutant: the type filter becomes a scoping escape hatch.
EligibleDevices_AnyOwner(a, types, deviceIDs) ==
    {d \in Devices : /\ ClaimableOn(d, types) # {}
                     /\ deviceIDs = {} \/ d \in deviceIDs}

EligibleDevices(a, types, deviceIDs) ==
    {d \in Devices : /\ ClaimableOn(d, types) # {}
                     /\ Unscoped(a, types) \/ owner[d] = a
                     /\ deviceIDs = {} \/ d \in deviceIDs}

DevicelessPick(a, types, deviceIDs) ==
    IF deviceIDs = {} /\ Unscoped(a, types) THEN Oldest(ClaimableOn(NoDevice, types))
    ELSE {}

PrefixesOf(D) == {P \in SUBSET D : \A d \in P, e \in D : e < d => e \in P}

Claim(a, types, deviceIDs) ==
    /\ types \subseteq allowedJobTypesForRole(Role[a])
    /\ \E served \in PrefixesOf(EligibleDevices(a, types, deviceIDs)) :
         LET picked == DevicelessPick(a, types, deviceIDs)
                         \union UNION {Oldest(ClaimableOn(d, types)) : d \in served}
         IN  /\ picked # {}
             /\ jobs' = [k \in Keys |-> IF k \in picked THEN ClaimedRow(jobs[k], a)
                                                        ELSE jobs[k]]
    /\ UNCHANGED <<born, created, owner, calls>>

(***************************************************************************)
(* ClaimSpecific, called by handleDeviceEnsureInstall for an install child *)
(* on behalf of the local device service.  A completed row, an own claim   *)
(* and a foreign claim end the call at the read.                           *)
(***************************************************************************)
\* Mutant: a completed row is requeued like a failed one.
ClaimSpecificRead_Completed(c, k) ==
    /\ calls[c].step = "idle"
    /\ JobType[k] = "install"
    /\ jobs[k].state \in {"failed", "dead", "completed"}
    /\ calls' = [calls EXCEPT ![c] = [step |-> "requeue", job |-> k]]
    /\ UNCHANGED <<jobs, born, created, owner>>

ClaimSpecificRead(c, k) ==
    /\ calls[c].step = "idle"
    /\ JobType[k] = "install"
    /\ \/ /\ jobs[k].state \in {"failed", "dead"}
          /\ calls' = [calls EXCEPT ![c] = [step |-> "requeue", job |-> k]]
       \/ /\ jobs[k].state = "pending"
          /\ calls' = [calls EXCEPT ![c] = [step |-> "claim", job |-> k]]
    /\ UNCHANGED <<jobs, born, created, owner>>

\* UPDATE ... WHERE id = $2: the state read before is not checked again.
ClaimSpecificRequeue(c) ==
    /\ calls[c].step = "requeue"
    /\ jobs[calls[c].job].attempt < RequeueCap
    /\ jobs' = [jobs EXCEPT ![calls[c].job] = RequeuedRow(@)]
    /\ calls' = [calls EXCEPT ![c].step = "claim"]
    /\ UNCHANGED <<born, created, owner>>

\* UPDATE ... WHERE id = $4 AND state = 'pending'; no row is an error.
ClaimSpecificClaim(c) ==
    /\ calls[c].step = "claim"
    /\ LET k == calls[c].job
       IN  \/ /\ jobs[k].state = "pending"
              /\ jobs' = [jobs EXCEPT ![k] = ClaimedRow(@, LocalService)]
           \/ /\ jobs[k].state # "pending"
              /\ UNCHANGED jobs
    /\ calls' = [calls EXCEPT ![c] = IdleCall]
    /\ UNCHANGED <<born, created, owner>>

\* The caller disconnects or the server stops between two statements.
ClaimSpecificAbort(c) ==
    /\ calls[c].step # "idle"
    /\ calls' = [calls EXCEPT ![c] = IdleCall]
    /\ UNCHANGED <<jobs, born, created, owner>>

(***************************************************************************)
(* Update: only the agent in claimed_by, only from an active state.  The   *)
(* lease is not consulted, so a late update of a row that nobody reaped is *)
(* accepted.  A completed update that carries an error category assigns    *)
(* the column twice and is refused by the database.                        *)
(***************************************************************************)
Update(a, k, to, category) ==
    /\ jobs[k].claimedBy = a
    /\ validTransition(jobs[k].state, to)
    /\ to = "completed" => category = ""
    /\ jobs' = [jobs EXCEPT ![k] = UpdatedRow(@, to, category)]
    /\ UNCHANGED <<born, created, owner, calls>>

(***************************************************************************)
(* Reap, every 15 seconds.  SKIP LOCKED leaves out the rows another        *)
(* transaction holds, so any subset of the reapable rows may be taken.     *)
(* (Its last statement marks silent agents offline; nothing here reads     *)
(* that column.)                                                           *)
(***************************************************************************)
Reap(S) ==
    /\ S # {}
    /\ \A k \in S : Reapable(jobs[k], JobType[k])
    /\ jobs' = [k \in Keys |-> IF k \in S THEN ReapedRow(jobs[k], MaxAttempts[k])
                                          ELSE jobs[k]]
    /\ UNCHANGED <<born, created, owner, calls>>

\* An agent reports a device it sees; the first to report it owns it.
ReportDevice(a, d) ==
    /\ owner[d] = NoAgent
    /\ owner' = [owner EXCEPT ![d] = a]
    /\ UNCHANGED <<jobs, born, created, calls>>

\* Time passes.
LeaseRunsOut(k) ==
    /\ jobs[k].lease = "running"
    /\ jobs' = [jobs EXCEPT ![k].lease = "expired"]
    /\ UNCHANGED <<born, created, owner, calls>>

RetryComesDue(k) ==
    /\ jobs[k].retryAt = "later"
    /\ jobs' = [jobs EXCEPT ![k].retryAt = "now"]
    /\ UNCHANGED <<born, created, owner, calls>>

-------------------------------------------------------------------------------
\* The filters that can be told apart by the rows in the table.
TypeFilters(a) ==
    SUBSET (allowedJobTypesForRole(Role[a]) \intersect {JobType[k] : k \in Keys})

\* The categories an agent reports.
Reports == {"", "network", "auth"}

Next ==
    \/ \E k \in Keys, retryAt \in {"now", "later"} : Create(k, retryAt)
    \/ \E a \in Agents, deviceIDs \in SUBSET Devices :
          \E types \in TypeFilters(a) : Claim(a, types, deviceIDs)
    \/ \E c \in Calls, k \in Keys : ClaimSpecificRead(c, k)
    \/ \E c \in Calls : ClaimSpecificRequeue(c)
    \/ \E c \in Calls : ClaimSpecificClaim(c)
    \/ \E c \in Calls : ClaimSpecificAbort(c)
    \/ \E a \in Agents, k \in Keys, to \in States, category \in Reports :
          Update(a, k, to, category)
    \/ \E S \in SUBSET Keys : Reap(S)
    \/ \E a \in Agents, d \in Devices : ReportDevice(a, d)
    \/ \E k \in Keys : LeaseRunsOut(k)
    \/ \E k \in Keys : RetryComesDue(k)

Spec == Init /\ [][Next]_vars

(***************************************************************************)
(* Scheduling the code justifies.  Time passes; the reaper ticker never    *)
(* stops; agents poll for ever with their role's types.  An agent that     *)
(* holds a claim does not renew it for ever: every executor has a timeout, *)
(* after which the agent reports an outcome or falls silent and is reaped. *)
(***************************************************************************)
Poll(a) == Claim(a, allowedJobTypesForRole(Role[a]), {})

Finish(k) ==
    \E a \in Agents, to \in {"completed", "failed"}, category \in Reports :
        Update(a, k, to, category)

Fairness ==
    /\ \A k \in Keys : /\ WF_vars(LeaseRunsOut(k))
                       /\ WF_vars(RetryComesDue(k))
                       /\ WF_vars(Reap({k}))
                       /\ WF_vars(Finish(k) \/ Reap({k}))
    /\ \A a \in Agents : WF_vars(Poll(a))

FairSpec == Spec /\ Fairness

-------------------------------------------------------------------------------
(***************************************************************************)
(* Properties.                                                             *)
(***************************************************************************)

\* The variables keep the types of their columns.
TypeOK ==
    /\ jobs \in [Keys -> Row]
    /\ born \in [Keys -> Nat]
    /\ created \in Nat
    /\ owner \in [Devices -> Agents \union {NoAgent}]
    /\ calls \in [Calls -> Call]

\* No job can be lost: a row is active exactly while it carries a lease, so
\* the lease scan of Reap finds every job an agent may have abandoned, and a
\* row that waits for an agent or is dead has no claimant who could still
\* move it with a late Update.
LeaseTracksClaim == \A k \in Keys : Consistent(jobs[k])

\* A ClaimSpecific call in flight is about an install job.
CallsNameInstalls ==
    \A c \in Calls : calls[c].step # "idle" =>
        calls[c].job \in Keys /\ JobType[calls[c].job] = "install"

\* A call that is about to requeue a row read it failed or dead, and finds it
\* so while no other call is in flight.
RequeueSeesFailure ==
    \A c \in Calls : calls[c].step = "requeue" =>
        jobs[calls[c].job].state \in {"failed", "dead"}

\* Whoever holds a job was entitled to it: the role permits the type, and an
\* agent the code binds to its own devices holds jobs of devices it still owns.
\* Claim checks this once; no later step may invalidate it (handleClaimJobs,
\* handleReportDevices, ClaimSpecific).  Claim does not bind the device service
\* to its devices, against the comments quoted at OwnersOnly.
Entitled(a, k) ==
    /\ JobType[k] \in allowedJobTypesForRole(Role[a])
    /\ \/ IsGlobalAgent(a)
       \/ JobDevice[k] \in Devices /\ owner[JobDevice[k]] = a

HolderEntitled ==
    \A k \in Keys : jobs[k].state \in Active => Entitled(jobs[k].claimedBy, k)

\* Retry is finite: a job the reaper alone re-queues (every type but install)
\* is claimed at most its attempt budget, and waits only while it has budget.
RetryBudget ==
    \A k \in Keys : JobType[k] # "install" => WithinBudget(jobs[k], MaxAttempts[k])

\* A dead row says truthfully why it died; the scheduler decides from it
\* whether a refresh cycle may be retried (deadCycleTerminal).
DeadIsExplained == \A k \in Keys : Explained(jobs[k], MaxAttempts[k])

\* Permanently broken sign and refresh work is never handed out again: after a
\* terminal failure the row only becomes dead, and dead it stays.
BrokenWorkStops ==
    [][\A k \in Keys :
         JobType[k] \in {"refresh", "sign"} =>
           /\ FailedTerminally(jobs[k]) => jobs'[k].state \in {"failed", "dead"}
           /\ jobs[k].state = "dead" => jobs'[k].state = "dead"]_vars

\* A claim is taken from its holder by the reaper alone, after the lease ran
\* out; ClaimSpecific documents that active jobs "are an error".  It holds for one
\* call at a time; for two TLC refutes it under claim_specific_race.cfg.
ClaimsAreStable ==
    [][\A k \in Keys :
         jobs[k].state \in Active /\ jobs'[k].claimedBy # jobs[k].claimedBy
           => jobs[k].lease = "expired"]_vars

\* The queue keeps the life cycle of JobContract: rows move between agents
\* only through the pending state, a completed job is final, and dead sign and
\* refresh jobs stay dead, whatever late requests and reaper passes interleave.
Phase(row) ==
    CASE row.state = "pending" -> "open"
      [] row.state \in Active -> "held"
      [] row.state = "completed" -> "done"
      [] row.state = "dead" -> "closed"
      [] OTHER -> row.state

Holder(row) == IF row.state \in Active THEN row.claimedBy ELSE NoAgent

Contract == INSTANCE JobContract WITH
    Jobs <- Keys, Workers <- Agents, Nobody <- NoAgent,
    NoReturn <- {k \in Keys : JobType[k] \in {"refresh", "sign"}},
    phase <- [k \in Keys |-> Phase(jobs[k])],
    holder <- [k \in Keys |-> Holder(jobs[k])]

KeepsContract == Contract!Spec

\* Every sign and refresh job is eventually completed or dead: neither a
\* silent agent, nor a lost response, nor a string of failures leaves it
\* pending, claimed or failed for ever.
SignAndRefreshSettle ==
    \A k \in Keys : JobType[k] \in {"refresh", "sign"} =>
        (jobs[k].state # "absent" ~> jobs[k].state \in {"completed", "dead"})

\* Comment of Claim (jobs.go): sign jobs are claimable by any agent, "while other
\* types remain restricted to the agent's own devices"; of the roles
\* (api/jobs.go): "Every device-scoped role executes on devices it owns".  Claim
\* counts the device service among the global agents, and ClaimSpecific asks for
\* no owner: TLC refutes OwnersOnly under foreign_device.cfg.
OwnersOnly ==
    \A k \in Keys :
        (/\ jobs[k].state \in Active
         /\ JobDevice[k] \in Devices
         /\ ~globalTypes({JobType[k]}))
        => owner[JobDevice[k]] = jobs[k].claimedBy

\* Package comment of the job service: "two agents can never execute
\* conflicting jobs for the same device".  Two jobs that change what is
\* installed conflict.  The lock on the device ends with the claim, not with the
\* job: TLC refutes DeviceExclusive under device_exclusive.cfg.
ChangesDevice == {"install", "uninstall", "refresh"}

DeviceExclusive ==
    \A j, k \in Keys :
        (/\ j # k
         /\ JobDevice[j] = JobDevice[k] /\ JobDevice[j] \in Devices
         /\ JobType[j] \in ChangesDevice /\ JobType[k] \in ChangesDevice
         /\ jobs[j].state \in Active /\ jobs[k].state \in Active)
        => jobs[j].claimedBy = jobs[k].claimedBy
===============================================================================
