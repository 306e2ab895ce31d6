-------------------------------- MODULE JobRow --------------------------------
(***************************************************************************)
(* One row of the jobs table (src/internal/jobs/jobs.go) and what each     *)
(* statement of the job service does to it.  The operators are pure: a     *)
(* state machine that owns rows (JobQueue, RefreshScheduler) applies them. *)
(*                                                                         *)
(* Time is abstracted to what the statements compare with now():           *)
(*   lease   "none"    lease_expires_at IS NULL                            *)
(*           "running" lease_expires_at in the future                      *)
(*           "expired" lease_expires_at < now()                            *)
(*   retryAt "now"     retry_at IS NULL or due                             *)
(*           "later"   retry_at in the future                              *)
(* requires_attention and last_failure_class are written together with     *)
(* dead_reason and read by nothing, so dead_reason stands for the three.   *)
(* Progress, details and result payloads are left out.                     *)
(***************************************************************************)
EXTENDS Naturals

CONSTANTS Agents,      \* ids of agents that authenticate to the control plane
          NoAgent      \* claimed_by IS NULL

ASSUME NoAgentAssumption == NoAgent \notin Agents

JobTypes == {"install", "verify", "refresh", "sign", "uninstall", "inventory",
             "export_p12", "appids", "livecontainer_push", "installed_apps"}

States == {"pending", "claimed", "in_progress", "completed", "failed", "dead"}

Active == {"claimed", "in_progress"}

\* Failures that retrying cannot fix.
terminalErrorCategories ==
    {"auth", "certificate", "provisioning", "entitlement", "unsupported_job_type"}

\* What agents report; "" is a NULL error_category, "network" stands for every
\* category that is not terminal.
Categories == terminalErrorCategories \union {"", "network"}

\* "absent" marks an idempotency key under which no row is stored.
Row == [state: States \union {"absent"},
        attempt: Nat,
        claimedBy: Agents \union {NoAgent},
        lease: {"none", "running", "expired"},
        retryAt: {"now", "later"},
        category: Categories,
        deadReason: {"none", "terminal_error", "max_attempts"}]

NoRow == [state |-> "absent", attempt |-> 0, claimedBy |-> NoAgent,
          lease |-> "none", retryAt |-> "now", category |-> "",
          deadReason |-> "none"]

-------------------------------------------------------------------------------
\* INSERT: the column defaults, with the retry_at of the request.
CreatedRow(retryAt) ==
    [NoRow EXCEPT !.state = "pending", !.retryAt = retryAt]

\* A pending row whose retry_at lets it be claimed.
Claimable(row) == row.state = "pending" /\ row.retryAt = "now"

\* The claiming UPDATE shared by Claim and ClaimSpecific.
ClaimedRow(row, agent) ==
    [row EXCEPT !.state = "claimed", !.claimedBy = agent,
                !.attempt = @ + 1, !.lease = "running", !.retryAt = "now"]

\* ClaimSpecific's requeue of a failed or dead row; also the first half of
\* Reap's.
RequeuedRow(row) ==
    [row EXCEPT !.state = "pending", !.claimedBy = NoAgent,
                !.lease = "none", !.retryAt = "now"]

\* All three targets are reached from an active state only.
validTransition(from, to) ==
    /\ to \in {"in_progress", "completed", "failed"}
    /\ from \in Active

\* The category an UPDATE leaves: untouched when the request names none ("").
\* A completed update clears it.
UpdatedCategory(row, to, category) ==
    IF to = "completed" THEN ""
    ELSE IF category = "" THEN row.category ELSE category

\* Mutants: the two columns are swapped; an outcome keeps the lease.
UpdatedRow_Swapped(row, to, category) ==
    [row EXCEPT !.state = IF category = "" THEN @ ELSE category, !.category = to]

UpdatedRow_KeepsLease(row, to, category) ==
    [row EXCEPT !.state = to, !.category = UpdatedCategory(row, to, category)]

\* Update: in_progress renews the lease, an outcome drops it; claimed_by stays.
UpdatedRow(row, to, category) ==
    [row EXCEPT !.state = to,
                !.lease = IF to = "in_progress" THEN "running" ELSE "none",
                !.category = UpdatedCategory(row, to, category)]

\* Mutants: the lease is not looked at; failed refresh jobs are forgotten; jobs
\* of every type are revived; silent holders are left alone.
Reapable_AnyLease(row, type) ==
    row.state \in Active \/ (row.state = "failed" /\ type \in {"refresh", "sign"})

Reapable_SignOnly(row, type) ==
    \/ row.state \in Active /\ row.lease = "expired"
    \/ row.state = "failed" /\ type = "sign"

Reapable_AnyType(row, type) ==
    \/ row.state \in Active /\ row.lease = "expired"
    \/ row.state = "failed"

Reapable_OnlyFailed(row, type) ==
    row.state = "failed" /\ type \in {"refresh", "sign"}

\* The rows Reap selects.
Reapable(row, type) ==
    \/ row.state \in Active /\ row.lease = "expired"
    \/ row.state = "failed" /\ type \in {"refresh", "sign"}

\* Only a reported failure is terminal; an expired lease never is.
FailedTerminally(row) ==
    row.state = "failed" /\ row.category \in terminalErrorCategories

\* Mutant: the category is cleared with the claim.
DeadRow_Forgets(row, reason) ==
    [row EXCEPT !.state = "dead", !.claimedBy = NoAgent, !.lease = "none",
                !.retryAt = "now", !.category = "", !.deadReason = reason]

DeadRow(row, reason) ==
    [row EXCEPT !.state = "dead", !.claimedBy = NoAgent, !.lease = "none",
                !.retryAt = "now", !.deadReason = reason]

defaultMaxAttempts == 5

\* A max_attempts column of zero stands for the default.
AttemptBudget(maxAttempts) ==
    IF maxAttempts = 0 THEN defaultMaxAttempts ELSE maxAttempts

\* Mutants: one attempt too many; the terminal categories are not looked at.
ReapedRow_OffByOne(row, maxAttempts) ==
    IF FailedTerminally(row) THEN DeadRow(row, "terminal_error")
    ELSE IF row.attempt > AttemptBudget(maxAttempts) THEN DeadRow(row, "max_attempts")
    ELSE [RequeuedRow(row) EXCEPT !.retryAt = "later"]

ReapedRow_AlwaysRetries(row, maxAttempts) ==
    IF row.attempt >= AttemptBudget(maxAttempts) THEN DeadRow(row, "max_attempts")
    ELSE [RequeuedRow(row) EXCEPT !.retryAt = "later"]

\* Reap: dead when the failure is terminal or the attempts are used up,
\* otherwise back to pending with a delay.
ReapedRow(row, maxAttempts) ==
    IF FailedTerminally(row) THEN DeadRow(row, "terminal_error")
    ELSE IF row.attempt >= AttemptBudget(maxAttempts) THEN DeadRow(row, "max_attempts")
    ELSE [RequeuedRow(row) EXCEPT !.retryAt = "later"]

-------------------------------------------------------------------------------
(***************************************************************************)
(* What the statements keep true of a row; JobQueue states the properties. *)
(***************************************************************************)

\* Active exactly while leased, claimed while active, unclaimed while waiting.
Consistent(row) ==
    /\ row.state \in Active <=> row.lease # "none"
    /\ row.state \in Active => row.claimedBy \in Agents
    /\ row.state \in {"absent", "pending", "dead"} => row.claimedBy = NoAgent
    /\ row.retryAt = "later" => row.state = "pending"

\* Claimed at most the budget, and waiting only with budget left.
WithinBudget(row, maxAttempts) ==
    /\ row.attempt <= AttemptBudget(maxAttempts)
    /\ row.state = "pending" => row.attempt < AttemptBudget(maxAttempts)

\* A dead row has the reason it names.
Explained(row, maxAttempts) ==
    row.state = "dead" =>
        \/ /\ row.deadReason = "terminal_error"
           /\ row.category \in terminalErrorCategories
        \/ /\ row.deadReason = "max_attempts"
           /\ row.attempt >= AttemptBudget(maxAttempts)
===============================================================================
