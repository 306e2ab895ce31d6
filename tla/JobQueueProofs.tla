---------------------------- MODULE JobQueueProofs ----------------------------
(***************************************************************************)
(* The safety properties of JobQueue and its refinement of JobContract, for *)
(* any number of jobs, agents, devices and concurrent calls.               *)
(***************************************************************************)
EXTENDS JobQueue, TLAPS

-------------------------------------------------------------------------------
(***************************************************************************)
(* What each statement of the job service does to a well-formed row.       *)
(***************************************************************************)

\* A row with everything the queue's invariant says of a row by itself, for a
\* job the reaper alone re-queues (bounded) or one ClaimSpecific may re-queue.
RowOK(row, maxAttempts, bounded) ==
    /\ row \in Row
    /\ Consistent(row)
    /\ bounded => WithinBudget(row, maxAttempts)
    /\ Explained(row, maxAttempts)

\* A budget is never zero: a max_attempts of zero means the default.
LEMMA BudgetIsPositive ==
    ASSUME NEW n \in Nat
    PROVE  AttemptBudget(n) \in Nat /\ AttemptBudget(n) > 0
  BY DEF AttemptBudget, defaultMaxAttempts

\* An absent key is well-formed: nobody claims it and it has no lease.
LEMMA NoRowOK ==
    ASSUME NEW n \in Nat, NEW b \in BOOLEAN
    PROVE  RowOK(NoRow, n, b)
  <1>1. NoRow \in Row
    BY DEF Row, NoRow, Categories
  <1>2. AttemptBudget(n) \in Nat /\ AttemptBudget(n) > 0
    BY BudgetIsPositive
  <1>3. Consistent(NoRow) /\ WithinBudget(NoRow, n) /\ Explained(NoRow, n)
    BY <1>2 DEF NoRow, Consistent, WithinBudget, Explained, Active
  <1> QED
    BY <1>1, <1>3 DEF RowOK

\* Create stores a well-formed row: pending, unclaimed, with its whole budget.
LEMMA CreatedRowOK ==
    ASSUME NEW n \in Nat, NEW b \in BOOLEAN, NEW retryAt \in {"now", "later"}
    PROVE  RowOK(CreatedRow(retryAt), n, b)
  <1>1. CreatedRow(retryAt) \in Row
    BY DEF Row, CreatedRow, NoRow, Categories, States
  <1>2. AttemptBudget(n) \in Nat /\ AttemptBudget(n) > 0
    BY BudgetIsPositive
  <1>3. Consistent(CreatedRow(retryAt)) /\ WithinBudget(CreatedRow(retryAt), n)
          /\ Explained(CreatedRow(retryAt), n)
    BY <1>2 DEF CreatedRow, NoRow, Consistent, WithinBudget, Explained, Active
  <1> QED
    BY <1>1, <1>3 DEF RowOK

\* Claiming a pending row uses one attempt of a budget that has one left.
LEMMA ClaimedRowOK ==
    ASSUME NEW n \in Nat, NEW b \in BOOLEAN, NEW row, RowOK(row, n, b),
           row.state = "pending", NEW a \in Agents
    PROVE  RowOK(ClaimedRow(row, a), n, b)
  <1> DEFINE new == ClaimedRow(row, a)
  <1>1. row \in Row /\ row.attempt + 1 \in Nat
    BY DEF RowOK, Row
  <1>2. new \in Row
    BY <1>1 DEF Row, ClaimedRow, States
  <1>3. /\ new.state = "claimed" /\ new.claimedBy = a /\ new.attempt = row.attempt + 1
        /\ new.lease = "running" /\ new.retryAt = "now"
    BY <1>1 DEF Row, ClaimedRow
  <1>4. b => row.attempt + 1 <= AttemptBudget(n)
    BY BudgetIsPositive DEF RowOK, Row, WithinBudget
  <1> HIDE DEF new
  <1>5. RowOK(new, n, b)
    BY <1>2, <1>3, <1>4 DEF RowOK, Consistent, WithinBudget, Explained, Active
  <1> QED
    BY <1>5 DEF new

\* ClaimSpecific's requeue keeps everything but the budget.
LEMMA RequeuedRowOK ==
    ASSUME NEW n \in Nat, NEW row, RowOK(row, n, FALSE)
    PROVE  RowOK(RequeuedRow(row), n, FALSE)
  BY DEF RowOK, Row, RequeuedRow, Consistent, Explained, Active, States

\* An accepted Update leaves a leased row in progress or an unleased outcome.
LEMMA UpdatedRowOK ==
    ASSUME NEW n \in Nat, NEW b \in BOOLEAN, NEW row, RowOK(row, n, b),
           NEW to, validTransition(row.state, to), NEW category \in Categories
    PROVE  RowOK(UpdatedRow(row, to, category), n, b)
  <1>1. UpdatedCategory(row, to, category) \in Categories
    BY DEF UpdatedCategory, RowOK, Row, Categories
  <1> QED
    BY <1>1, BudgetIsPositive
       DEF RowOK, Row, UpdatedRow, Consistent, WithinBudget, Explained, Active, States,
           validTransition

\* The dead state is entered with the reason that led to it.
LEMMA DeadRowOK ==
    ASSUME NEW n \in Nat, NEW b \in BOOLEAN, NEW row, RowOK(row, n, b),
           NEW reason \in {"terminal_error", "max_attempts"},
           reason = "terminal_error" => row.category \in terminalErrorCategories,
           reason = "max_attempts" => row.attempt >= AttemptBudget(n)
    PROVE  RowOK(DeadRow(row, reason), n, b)
  BY BudgetIsPositive
     DEF RowOK, Row, DeadRow, Consistent, WithinBudget, Explained, Active, States

\* Reap leaves a row with budget waiting and every other one dead.
LEMMA ReapedRowOK ==
    ASSUME NEW n \in Nat, NEW b \in BOOLEAN, NEW row, RowOK(row, n, b)
    PROVE  RowOK(ReapedRow(row, n), n, b)
  <1>1. CASE FailedTerminally(row)
    BY <1>1, DeadRowOK DEF ReapedRow, FailedTerminally
  <1>2. CASE ~FailedTerminally(row) /\ row.attempt >= AttemptBudget(n)
    BY <1>2, DeadRowOK DEF ReapedRow
  <1>3. CASE ~FailedTerminally(row) /\ ~(row.attempt >= AttemptBudget(n))
    <2> DEFINE new == [RequeuedRow(row) EXCEPT !.retryAt = "later"]
    <2>1. ReapedRow(row, n) = new
      BY <1>3 DEF ReapedRow
    <2>2. new \in Row /\ new.state = "pending" /\ new.attempt = row.attempt
            /\ new.claimedBy = NoAgent /\ new.lease = "none"
      BY DEF RequeuedRow, RowOK, Row, States
    <2>3. row.attempt < AttemptBudget(n)
      BY <1>3, BudgetIsPositive DEF RowOK, Row
    <2> HIDE DEF new
    <2>4. RowOK(new, n, b)
      BY <2>2, <2>3, BudgetIsPositive
         DEF RowOK, Row, Consistent, WithinBudget, Explained, Active
    <2> QED
      BY <2>1, <2>4
  <1> QED
    BY <1>1, <1>2, <1>3

\* A lease that runs out stays a lease.
LEMMA ExpiredRowOK ==
    ASSUME NEW n \in Nat, NEW b \in BOOLEAN, NEW row, RowOK(row, n, b),
           row.lease = "running"
    PROVE  RowOK([row EXCEPT !.lease = "expired"], n, b)
  BY DEF RowOK, Row, Consistent, WithinBudget, Explained, Active

\* A retry delay that is over changes nothing else.
LEMMA DueRowOK ==
    ASSUME NEW n \in Nat, NEW b \in BOOLEAN, NEW row, RowOK(row, n, b)
    PROVE  RowOK([row EXCEPT !.retryAt = "now"], n, b)
  BY DEF RowOK, Row, Consistent, WithinBudget, Explained, Active

-------------------------------------------------------------------------------
(***************************************************************************)
(* The invariant of the queue and what follows from it.                    *)
(***************************************************************************)

\* Jobs that only the reaper re-queues.
Bounded(k) == JobType[k] # "install"

RowsOK == \A k \in Keys : RowOK(jobs[k], MaxAttempts[k], Bounded(k))

\* The inductive invariant: the rows are well-formed one by one, the holders
\* are entitled, and calls in flight are about installs, so that their requeue
\* cannot refill the budget of other jobs.
IInv == TypeOK /\ RowsOK /\ HolderEntitled /\ CallsNameInstalls

-------------------------------------------------------------------------------
\* A step that leaves devices alone and writes well-formed rows with entitled
\* holders keeps the invariant; every action but ReportDevice is of this kind.
LEMMA RowsStep ==
    ASSUME IInv,
           jobs' = [k \in Keys |-> jobs'[k]],
           \A k \in Keys :
              \/ jobs'[k] = jobs[k]
              \/ /\ RowOK(jobs'[k], MaxAttempts[k], Bounded(k))
                 /\ jobs'[k].state \in Active => Entitled(jobs'[k].claimedBy, k),
           born' \in [Keys -> Nat], created' \in Nat, owner' = owner,
           calls' \in [Calls -> Call], CallsNameInstalls'
    PROVE  IInv'
  <1>1. RowsOK'
    BY DEF IInv, RowsOK, Bounded
  <1>2. TypeOK'
    BY <1>1 DEF IInv, TypeOK, RowsOK, RowOK
  <1>3. HolderEntitled'
    BY DEF IInv, HolderEntitled, Entitled
  <1> QED
    BY <1>1, <1>2, <1>3 DEF IInv

\* The same for a step that writes one row.
LEMMA OneRowStep ==
    ASSUME IInv, NEW k \in Keys, NEW row,
           jobs' = [jobs EXCEPT ![k] = row],
           RowOK(row, MaxAttempts[k], Bounded(k)),
           row.state \in Active => Entitled(row.claimedBy, k),
           born' \in [Keys -> Nat], created' \in Nat, owner' = owner,
           calls' \in [Calls -> Call], CallsNameInstalls'
    PROVE  IInv'
  <1>1. jobs \in [Keys -> Row]
    BY DEF IInv, TypeOK
  <1>2. jobs' = [j \in Keys |-> jobs'[j]]
    BY <1>1
  <1>3. \A j \in Keys : \/ jobs'[j] = jobs[j]
                        \/ /\ RowOK(jobs'[j], MaxAttempts[j], Bounded(j))
                           /\ jobs'[j].state \in Active => Entitled(jobs'[j].claimedBy, j)
    BY <1>1
  <1> QED
    BY <1>2, <1>3, RowsStep

\* The empty queue satisfies the invariant.
LEMMA InitInv == Init => IInv
  <1> SUFFICES ASSUME Init PROVE IInv
    OBVIOUS
  <1>1. RowsOK
    BY NoRowOK, QueueAssumptions DEF Init, RowsOK, Bounded
  <1>2. TypeOK
    BY NoRowOK, QueueAssumptions DEF Init, TypeOK, IdleCall, Call, RowOK
  <1>3. HolderEntitled
    BY DEF Init, HolderEntitled, NoRow, Active
  <1>4. CallsNameInstalls
    BY DEF Init, CallsNameInstalls, IdleCall
  <1> QED
    BY <1>1, <1>2, <1>3, <1>4 DEF IInv

-------------------------------------------------------------------------------
(***************************************************************************)
(* The actions keep the invariant.                                         *)
(***************************************************************************)

\* Create stores a pending row.
LEMMA CreateInv ==
    ASSUME IInv, NEW k \in Keys, NEW retryAt \in {"now", "later"}, Create(k, retryAt)
    PROVE  IInv'
  <1>1. RowOK(CreatedRow(retryAt), MaxAttempts[k], Bounded(k))
    BY CreatedRowOK, QueueAssumptions DEF Bounded
  <1>2. CreatedRow(retryAt).state \notin Active
    BY DEF CreatedRow, NoRow, Active
  <1>3. born' \in [Keys -> Nat] /\ created' \in Nat
    BY DEF Create, IInv, TypeOK
  <1>4. calls' \in [Calls -> Call] /\ CallsNameInstalls'
    BY DEF Create, IInv, TypeOK, CallsNameInstalls
  <1> QED
    BY <1>1, <1>2, <1>3, <1>4, OneRowStep DEF Create

\* An agent that a claim does not bind to its devices serves every device: the
\* types that are global belong to the signing worker.
LEMMA UnscopedIsGlobal ==
    ASSUME NEW a \in Agents, NEW types, types \subseteq allowedJobTypesForRole(Role[a]),
           Unscoped(a, types), NEW t \in types
    PROVE  IsGlobalAgent(a)
  <1>1. Role[a] \in Roles
    BY QueueAssumptions
  <1>2. CASE globalTypes(types)
    <2>1. t \in {"sign", "export_p12", "appids"} /\ t \in allowedJobTypesForRole(Role[a])
      BY <1>2 DEF globalTypes
    <2> QED
      BY <1>1, <2>1 DEF allowedJobTypesForRole, IsGlobalAgent, Roles
  <1> QED
    BY <1>2 DEF Unscoped

\* What a claim picks is claimable, and the claimant is entitled to it.
LEMMA PickedIsEntitled ==
    ASSUME NEW a \in Agents, NEW types, types \subseteq allowedJobTypesForRole(Role[a]),
           NEW deviceIDs, NEW served \in SUBSET EligibleDevices(a, types, deviceIDs),
           NEW k \in DevicelessPick(a, types, deviceIDs)
                        \union UNION {Oldest(ClaimableOn(d, types)) : d \in served}
    PROVE  k \in Keys /\ Claimable(jobs[k]) /\ Entitled(a, k)
  <1>1. CASE k \in DevicelessPick(a, types, deviceIDs)
    <2>1. Unscoped(a, types) /\ k \in ClaimableOn(NoDevice, types)
      BY <1>1 DEF DevicelessPick, Oldest
    <2>2. k \in Keys /\ Claimable(jobs[k]) /\ JobType[k] \in types
      BY <2>1 DEF ClaimableOn
    <2>3. IsGlobalAgent(a)
      BY <2>1, <2>2, UnscopedIsGlobal
    <2> QED
      BY <2>2, <2>3 DEF Entitled
  <1>2. ASSUME NEW d \in served, k \in Oldest(ClaimableOn(d, types))
        PROVE  k \in Keys /\ Claimable(jobs[k]) /\ Entitled(a, k)
    <2>1. d \in Devices /\ (Unscoped(a, types) \/ owner[d] = a)
      BY DEF EligibleDevices
    <2>2. k \in Keys /\ Claimable(jobs[k]) /\ JobType[k] \in types /\ JobDevice[k] = d
      BY <1>2 DEF Oldest, ClaimableOn
    <2>3. CASE Unscoped(a, types)
      BY <2>2, <2>3, UnscopedIsGlobal DEF Entitled
    <2>4. CASE owner[d] = a
      BY <2>1, <2>2, <2>4 DEF Entitled
    <2> QED
      BY <2>1, <2>3, <2>4
  <1> QED
    BY <1>1, <1>2

\* Claim hands out pending rows to an entitled agent.
LEMMA ClaimInv ==
    ASSUME IInv, NEW a \in Agents, NEW types, NEW deviceIDs, Claim(a, types, deviceIDs)
    PROVE  IInv'
  <1>1. types \subseteq allowedJobTypesForRole(Role[a])
    BY DEF Claim
  <1>2. PICK served \in PrefixesOf(EligibleDevices(a, types, deviceIDs)) :
          jobs' = [k \in Keys |->
                     IF k \in DevicelessPick(a, types, deviceIDs)
                                \union UNION {Oldest(ClaimableOn(d, types)) : d \in served}
                     THEN ClaimedRow(jobs[k], a) ELSE jobs[k]]
    BY DEF Claim
  <1> DEFINE picked == DevicelessPick(a, types, deviceIDs)
                         \union UNION {Oldest(ClaimableOn(d, types)) : d \in served}
  <1>3. served \in SUBSET EligibleDevices(a, types, deviceIDs)
    BY <1>2 DEF PrefixesOf
  <1>4. \A k \in picked : k \in Keys /\ Claimable(jobs[k]) /\ Entitled(a, k)
    BY <1>1, <1>3, PickedIsEntitled
  <1>5. jobs' = [k \in Keys |-> IF k \in picked THEN ClaimedRow(jobs[k], a) ELSE jobs[k]]
    BY <1>2
  <1> HIDE DEF picked
  <1>6. ASSUME NEW k \in Keys, k \in picked
        PROVE  /\ RowOK(ClaimedRow(jobs[k], a), MaxAttempts[k], Bounded(k))
               /\ Entitled(ClaimedRow(jobs[k], a).claimedBy, k)
    <2>1. jobs[k] \in Row /\ jobs[k].state = "pending"
      BY <1>4, <1>6 DEF IInv, TypeOK, Claimable
    <2>2. RowOK(ClaimedRow(jobs[k], a), MaxAttempts[k], Bounded(k))
      BY <2>1, ClaimedRowOK, QueueAssumptions DEF IInv, RowsOK, Bounded
    <2>3. ClaimedRow(jobs[k], a).claimedBy = a
      BY <2>1 DEF ClaimedRow, Row
    <2> QED
      BY <1>4, <1>6, <2>2, <2>3
  <1>7. \A k \in Keys : \/ jobs'[k] = jobs[k]
                        \/ /\ RowOK(jobs'[k], MaxAttempts[k], Bounded(k))
                           /\ jobs'[k].state \in Active => Entitled(jobs'[k].claimedBy, k)
    BY <1>5, <1>6
  <1>8. jobs' = [k \in Keys |-> jobs'[k]]
    BY <1>5
  <1>9. born' \in [Keys -> Nat] /\ created' \in Nat /\ owner' = owner
          /\ calls' \in [Calls -> Call] /\ CallsNameInstalls'
    BY DEF Claim, IInv, TypeOK, CallsNameInstalls
  <1> QED
    BY <1>7, <1>8, <1>9, RowsStep

\* The steps of ClaimSpecific that only move the call.
LEMMA ClaimSpecificCallInv ==
    ASSUME IInv, NEW c \in Calls,
           (\E k \in Keys : ClaimSpecificRead(c, k)) \/ ClaimSpecificAbort(c)
    PROVE  IInv'
  <1>1. UNCHANGED <<jobs, born, created, owner>>
    BY DEF ClaimSpecificRead, ClaimSpecificAbort
  <1>2. calls' \in [Calls -> Call] /\ CallsNameInstalls'
    <2>1. CASE ClaimSpecificAbort(c)
      BY <2>1 DEF ClaimSpecificAbort, IInv, TypeOK, CallsNameInstalls, Call, IdleCall
    <2>2. ASSUME NEW k \in Keys, ClaimSpecificRead(c, k)
          PROVE  calls' \in [Calls -> Call] /\ CallsNameInstalls'
      <3>1. PICK step \in {"requeue", "claim"} :
              calls' = [calls EXCEPT ![c] = [step |-> step, job |-> k]]
        BY <2>2 DEF ClaimSpecificRead
      <3>2. JobType[k] = "install"
        BY <2>2 DEF ClaimSpecificRead
      <3> QED
        BY <3>1, <3>2 DEF IInv, TypeOK, CallsNameInstalls, Call
    <2> QED
      BY <2>1, <2>2
  <1>3. jobs' = [k \in Keys |-> jobs'[k]]
    BY <1>1 DEF IInv, TypeOK
  <1> QED
    BY <1>1, <1>2, <1>3, RowsStep DEF IInv, TypeOK

\* The requeue of ClaimSpecific, whatever became of the row it read.
LEMMA ClaimSpecificRequeueInv ==
    ASSUME IInv, NEW c \in Calls, ClaimSpecificRequeue(c)
    PROVE  IInv'
  <1> DEFINE k == calls[c].job
  <1>1. k \in Keys /\ JobType[k] = "install" /\ jobs[k] \in Row
    BY DEF ClaimSpecificRequeue, IInv, CallsNameInstalls, TypeOK
  <1>2. RowOK(jobs[k], MaxAttempts[k], FALSE) /\ MaxAttempts[k] \in Nat
    BY <1>1, QueueAssumptions DEF IInv, RowsOK, RowOK
  <1>3. RowOK(RequeuedRow(jobs[k]), MaxAttempts[k], Bounded(k))
    BY <1>1, <1>2, RequeuedRowOK DEF Bounded, RowOK
  <1>4. RequeuedRow(jobs[k]).state \notin Active
    BY <1>1 DEF RequeuedRow, Row, Active
  <1>5. calls' \in [Calls -> Call] /\ CallsNameInstalls'
    BY DEF ClaimSpecificRequeue, IInv, TypeOK, CallsNameInstalls, Call
  <1>6. jobs' = [jobs EXCEPT ![k] = RequeuedRow(jobs[k])]
    BY DEF ClaimSpecificRequeue
  <1>7. born' \in [Keys -> Nat] /\ created' \in Nat /\ owner' = owner
    BY DEF ClaimSpecificRequeue, IInv, TypeOK
  <1> HIDE DEF k
  <1> QED
    BY <1>1, <1>3, <1>4, <1>5, <1>6, <1>7, OneRowStep

\* The claim of ClaimSpecific hands the install to the local device service.
LEMMA ClaimSpecificClaimInv ==
    ASSUME IInv, NEW c \in Calls, ClaimSpecificClaim(c)
    PROVE  IInv'
  <1> DEFINE k == calls[c].job
  <1>1. k \in Keys /\ JobType[k] = "install" /\ jobs[k] \in Row
    BY DEF ClaimSpecificClaim, IInv, CallsNameInstalls, TypeOK
  <1>2. calls' \in [Calls -> Call] /\ CallsNameInstalls'
    BY DEF ClaimSpecificClaim, IInv, TypeOK, CallsNameInstalls, Call, IdleCall
  <1>3. born' \in [Keys -> Nat] /\ created' \in Nat /\ owner' = owner
    BY DEF ClaimSpecificClaim, IInv, TypeOK
  <1>4. \/ jobs[k].state = "pending"
           /\ jobs' = [jobs EXCEPT ![k] = ClaimedRow(jobs[k], LocalService)]
        \/ jobs' = jobs
    BY DEF ClaimSpecificClaim
  <1> HIDE DEF k
  <1>5. CASE jobs' = jobs
    <2>1. jobs' = [j \in Keys |-> jobs'[j]]
      BY <1>5 DEF IInv, TypeOK
    <2> QED
      BY <1>2, <1>3, <1>5, <2>1, RowsStep
  <1>6. CASE jobs[k].state = "pending"
             /\ jobs' = [jobs EXCEPT ![k] = ClaimedRow(jobs[k], LocalService)]
    <2>1. RowOK(ClaimedRow(jobs[k], LocalService), MaxAttempts[k], Bounded(k))
      BY <1>1, <1>6, ClaimedRowOK, QueueAssumptions DEF IInv, RowsOK, Bounded
    <2>2. ClaimedRow(jobs[k], LocalService).claimedBy = LocalService
      BY <1>1 DEF ClaimedRow, Row
    <2>3. Entitled(LocalService, k)
      BY <1>1, QueueAssumptions DEF Entitled, IsGlobalAgent, allowedJobTypesForRole
    <2> QED
      BY <1>1, <1>2, <1>3, <1>6, <2>1, <2>2, <2>3, OneRowStep
  <1> QED
    BY <1>4, <1>5, <1>6

\* Update changes what the holder's row says, never who holds it.
LEMMA UpdateInv ==
    ASSUME IInv, NEW a \in Agents, NEW k \in Keys, NEW to, NEW category \in Reports,
           Update(a, k, to, category)
    PROVE  IInv'
  <1> DEFINE row == UpdatedRow(jobs[k], to, category)
  <1>1. category \in Categories
    BY DEF Reports, Categories, terminalErrorCategories
  <1>2. validTransition(jobs[k].state, to) /\ jobs[k].state \in Active /\ jobs[k] \in Row
    BY DEF Update, validTransition, IInv, TypeOK
  <1>3. RowOK(row, MaxAttempts[k], Bounded(k))
    BY <1>1, <1>2, UpdatedRowOK, QueueAssumptions DEF IInv, RowsOK, Bounded
  <1>4. row.claimedBy = jobs[k].claimedBy
    BY <1>2 DEF UpdatedRow, Row
  <1>5. Entitled(row.claimedBy, k)
    BY <1>2, <1>4 DEF IInv, HolderEntitled
  <1>6. jobs' = [jobs EXCEPT ![k] = row]
    BY DEF Update
  <1>7. born' \in [Keys -> Nat] /\ created' \in Nat /\ owner' = owner
          /\ calls' \in [Calls -> Call] /\ CallsNameInstalls'
    BY DEF Update, IInv, TypeOK, CallsNameInstalls
  <1> HIDE DEF row
  <1> QED
    BY <1>3, <1>5, <1>6, <1>7, OneRowStep

\* A reaped row is pending or dead.
LEMMA ReapedState ==
    ASSUME NEW row \in Row, NEW n \in Nat
    PROVE  ReapedRow(row, n).state \in {"pending", "dead"}
  BY DEF ReapedRow, DeadRow, RequeuedRow, Row

\* Reap leaves nobody holding what it takes.
LEMMA ReapInv ==
    ASSUME IInv, NEW S \in SUBSET Keys, Reap(S)
    PROVE  IInv'
  <1>1. jobs' = [k \in Keys |-> IF k \in S THEN ReapedRow(jobs[k], MaxAttempts[k])
                                            ELSE jobs[k]]
    BY DEF Reap
  <1>2. ASSUME NEW k \in Keys
        PROVE  /\ RowOK(ReapedRow(jobs[k], MaxAttempts[k]), MaxAttempts[k], Bounded(k))
               /\ ReapedRow(jobs[k], MaxAttempts[k]).state \notin Active
    <2>1. jobs[k] \in Row /\ MaxAttempts[k] \in Nat
      BY QueueAssumptions DEF IInv, TypeOK
    <2> QED
      BY <2>1, ReapedRowOK, ReapedState DEF IInv, RowsOK, Bounded, Active
  <1>3. jobs' = [k \in Keys |-> jobs'[k]]
    BY <1>1
  <1>4. born' \in [Keys -> Nat] /\ created' \in Nat /\ owner' = owner
          /\ calls' \in [Calls -> Call] /\ CallsNameInstalls'
    BY DEF Reap, IInv, TypeOK, CallsNameInstalls
  <1> QED
    BY <1>1, <1>2, <1>3, <1>4, RowsStep

\* Time keeps a row's holder.
LEMMA TimeInv ==
    ASSUME IInv, NEW k \in Keys, LeaseRunsOut(k) \/ RetryComesDue(k)
    PROVE  IInv'
  <1> DEFINE expired == [jobs[k] EXCEPT !.lease = "expired"]
             due == [jobs[k] EXCEPT !.retryAt = "now"]
  <1>1. jobs[k] \in Row /\ MaxAttempts[k] \in Nat
          /\ RowOK(jobs[k], MaxAttempts[k], Bounded(k))
    BY QueueAssumptions DEF IInv, TypeOK, RowsOK
  <1>2. born' \in [Keys -> Nat] /\ created' \in Nat /\ owner' = owner
          /\ calls' \in [Calls -> Call] /\ CallsNameInstalls'
    BY DEF LeaseRunsOut, RetryComesDue, IInv, TypeOK, CallsNameInstalls
  <1>3. CASE LeaseRunsOut(k)
    <2>1. RowOK(expired, MaxAttempts[k], Bounded(k))
      BY <1>1, <1>3, ExpiredRowOK DEF LeaseRunsOut, Bounded
    <2>2. expired.state = jobs[k].state /\ expired.claimedBy = jobs[k].claimedBy
      BY <1>1 DEF Row
    <2>3. jobs' = [jobs EXCEPT ![k] = expired]
      BY <1>3 DEF LeaseRunsOut
    <2> HIDE DEF expired
    <2> QED
      BY <1>2, <2>1, <2>2, <2>3, OneRowStep DEF IInv, HolderEntitled
  <1>4. CASE RetryComesDue(k)
    <2>1. RowOK(due, MaxAttempts[k], Bounded(k))
      BY <1>1, DueRowOK DEF Bounded
    <2>2. due.state = jobs[k].state /\ due.claimedBy = jobs[k].claimedBy
      BY <1>1 DEF Row
    <2>3. jobs' = [jobs EXCEPT ![k] = due]
      BY <1>4 DEF RetryComesDue
    <2> HIDE DEF due
    <2> QED
      BY <1>2, <2>1, <2>2, <2>3, OneRowStep DEF IInv, HolderEntitled
  <1> QED
    BY <1>3, <1>4

\* A device gets its first owner: nobody could hold its jobs as its owner yet.
LEMMA ReportDeviceInv ==
    ASSUME IInv, NEW a \in Agents, NEW d \in Devices, ReportDevice(a, d)
    PROVE  IInv'
  <1>1. TypeOK'
    BY DEF ReportDevice, IInv, TypeOK
  <1>2. RowsOK' /\ CallsNameInstalls'
    BY DEF ReportDevice, IInv, RowsOK, Bounded, CallsNameInstalls
  <1>3. HolderEntitled'
    <2> SUFFICES ASSUME NEW k \in Keys, jobs[k].state \in Active
                 PROVE  Entitled(jobs[k].claimedBy, k)'
      BY DEF ReportDevice, HolderEntitled
    <2>1. Entitled(jobs[k].claimedBy, k) /\ jobs[k].claimedBy \in Agents
      BY DEF IInv, HolderEntitled, RowsOK, RowOK, Consistent
    <2>2. \A e \in Devices : owner[e] \in Agents => owner'[e] = owner[e]
      BY NoAgentAssumption DEF ReportDevice, IInv, TypeOK
    <2>3. jobs' = jobs
      BY DEF ReportDevice
    <2> QED
      BY <2>1, <2>2, <2>3 DEF Entitled
  <1> QED
    BY <1>1, <1>2, <1>3 DEF IInv

\* Every step keeps the invariant.
LEMMA NextInv == IInv /\ [Next]_vars => IInv'
  <1> SUFFICES ASSUME IInv, [Next]_vars PROVE IInv'
    OBVIOUS
  <1>1. CASE UNCHANGED vars
    BY <1>1 DEF vars, IInv, TypeOK, RowsOK, Bounded, HolderEntitled, Entitled,
                CallsNameInstalls
  <1>2. ASSUME NEW k \in Keys, NEW retryAt \in {"now", "later"}, Create(k, retryAt)
        PROVE  IInv'
    BY <1>2, CreateInv
  <1>3. ASSUME NEW a \in Agents, NEW deviceIDs \in SUBSET Devices,
               NEW types \in TypeFilters(a), Claim(a, types, deviceIDs)
        PROVE  IInv'
    BY <1>3, ClaimInv
  <1>4. ASSUME NEW c \in Calls, NEW k \in Keys, ClaimSpecificRead(c, k)
        PROVE  IInv'
    BY <1>4, ClaimSpecificCallInv
  <1>5. ASSUME NEW c \in Calls, ClaimSpecificRequeue(c)
        PROVE  IInv'
    BY <1>5, ClaimSpecificRequeueInv
  <1>6. ASSUME NEW c \in Calls, ClaimSpecificClaim(c)
        PROVE  IInv'
    BY <1>6, ClaimSpecificClaimInv
  <1>7. ASSUME NEW c \in Calls, ClaimSpecificAbort(c)
        PROVE  IInv'
    BY <1>7, ClaimSpecificCallInv
  <1>8. ASSUME NEW a \in Agents, NEW k \in Keys, NEW to \in States,
               NEW category \in Reports, Update(a, k, to, category)
        PROVE  IInv'
    BY <1>8, UpdateInv
  <1>9. ASSUME NEW S \in SUBSET Keys, Reap(S)
        PROVE  IInv'
    BY <1>9, ReapInv
  <1>10. ASSUME NEW a \in Agents, NEW d \in Devices, ReportDevice(a, d)
         PROVE  IInv'
    BY <1>10, ReportDeviceInv
  <1>11. ASSUME NEW k \in Keys, LeaseRunsOut(k) \/ RetryComesDue(k)
         PROVE  IInv'
    BY <1>11, TimeInv
  <1> QED
    BY <1>1, <1>2, <1>3, <1>4, <1>5, <1>6, <1>7, <1>8, <1>9, <1>10, <1>11 DEF Next

-------------------------------------------------------------------------------
(***************************************************************************)
(* The theorems.                                                           *)
(***************************************************************************)

\* The inductive invariant holds in every reachable state.
THEOREM InvariantHolds == Spec => []IInv
  BY InitInv, NextInv, PTL DEF Spec

\* The columns keep their types, whatever requests arrive in whatever order.
THEOREM TypeCorrect == Spec => []TypeOK
  <1>1. IInv => TypeOK
    BY DEF IInv
  <1> QED
    BY <1>1, InvariantHolds, PTL

\* No job is lost between its claimant and the reaper (LeaseTracksClaim).
THEOREM NoJobLost == Spec => []LeaseTracksClaim
  <1>1. IInv => LeaseTracksClaim
    BY DEF IInv, RowsOK, RowOK, LeaseTracksClaim
  <1> QED
    BY <1>1, InvariantHolds, PTL

\* Claims stay within the claimant's role and devices (HolderEntitled).
THEOREM ClaimsAreEntitled == Spec => []HolderEntitled
  <1>1. IInv => HolderEntitled
    BY DEF IInv
  <1> QED
    BY <1>1, InvariantHolds, PTL

\* Reaping, late updates and re-claims never exceed max_attempts (RetryBudget).
THEOREM RetryIsFinite == Spec => []RetryBudget
  <1>1. IInv => RetryBudget
    BY DEF IInv, RowsOK, RowOK, Bounded, RetryBudget
  <1> QED
    BY <1>1, InvariantHolds, PTL

\* Dead rows carry a true reason (DeadIsExplained).
THEOREM DeathsAreExplained == Spec => []DeadIsExplained
  <1>1. IInv => DeadIsExplained
    BY DEF IInv, RowsOK, RowOK, DeadIsExplained
  <1> QED
    BY <1>1, InvariantHolds, PTL

-------------------------------------------------------------------------------
\* What a step may do to a job that only the reaper re-queues, row by row.
RowMoves(k) ==
    \/ jobs'[k].state = jobs[k].state
    \/ jobs[k].state \in {"absent", "pending"} \union Active
    \/ Reapable(jobs[k], JobType[k]) /\ jobs'[k] = ReapedRow(jobs[k], MaxAttempts[k])

\* No statement but Reap's takes a bounded job out of failed, dead or completed.
LEMMA BoundedRowMoves ==
    ASSUME IInv, [Next]_vars, NEW k \in Keys, Bounded(k)
    PROVE  RowMoves(k)
  <1>0. jobs \in [Keys -> Row] /\ jobs[k] \in Row
    BY DEF IInv, TypeOK
  <1>1. CASE UNCHANGED vars
    BY <1>1 DEF vars, RowMoves
  <1>2. ASSUME NEW j \in Keys, NEW retryAt \in {"now", "later"}, Create(j, retryAt)
        PROVE  RowMoves(k)
    BY <1>0, <1>2 DEF Create, RowMoves
  <1>3. ASSUME NEW a \in Agents, NEW deviceIDs \in SUBSET Devices,
               NEW types \in TypeFilters(a), Claim(a, types, deviceIDs)
        PROVE  RowMoves(k)
    <2>1. types \subseteq allowedJobTypesForRole(Role[a])
      BY <1>3 DEF Claim
    <2>2. PICK served \in PrefixesOf(EligibleDevices(a, types, deviceIDs)) :
            jobs' = [j \in Keys |->
                       IF j \in DevicelessPick(a, types, deviceIDs)
                                  \union UNION {Oldest(ClaimableOn(d, types)) : d \in served}
                       THEN ClaimedRow(jobs[j], a) ELSE jobs[j]]
      BY <1>3 DEF Claim
    <2>3. served \in SUBSET EligibleDevices(a, types, deviceIDs)
      BY <2>2 DEF PrefixesOf
    <2>4. \/ Claimable(jobs[k])
          \/ jobs'[k] = jobs[k]
      BY <2>1, <2>2, <2>3, PickedIsEntitled
    <2> QED
      BY <2>4 DEF Claimable, RowMoves
  <1>4. ASSUME NEW c \in Calls, NEW j \in Keys, ClaimSpecificRead(c, j)
        PROVE  RowMoves(k)
    BY <1>4 DEF ClaimSpecificRead, RowMoves
  <1>5. ASSUME NEW c \in Calls,
               ClaimSpecificRequeue(c) \/ ClaimSpecificClaim(c) \/ ClaimSpecificAbort(c)
        PROVE  RowMoves(k)
    <2>1. calls[c].step # "idle"
      BY <1>5 DEF ClaimSpecificRequeue, ClaimSpecificClaim, ClaimSpecificAbort
    <2>2. calls[c].job \in Keys /\ calls[c].job # k
      BY <2>1 DEF IInv, CallsNameInstalls, Bounded
    <2>3. jobs'[k] = jobs[k]
      BY <1>0, <1>5, <2>2 DEF ClaimSpecificRequeue, ClaimSpecificClaim, ClaimSpecificAbort
    <2> QED
      BY <2>3 DEF RowMoves
  <1>6. ASSUME NEW a \in Agents, NEW j \in Keys, NEW to \in States,
               NEW category \in Reports, Update(a, j, to, category)
        PROVE  RowMoves(k)
    BY <1>0, <1>6 DEF Update, validTransition, RowMoves
  <1>7. ASSUME NEW S \in SUBSET Keys, Reap(S)
        PROVE  RowMoves(k)
    BY <1>7 DEF Reap, RowMoves
  <1>8. ASSUME NEW a \in Agents, NEW d \in Devices, ReportDevice(a, d)
        PROVE  RowMoves(k)
    BY <1>8 DEF ReportDevice, RowMoves
  <1>9. ASSUME NEW j \in Keys, LeaseRunsOut(j) \/ RetryComesDue(j)
        PROVE  RowMoves(k)
    <2>1. jobs'[k].state = jobs[k].state
      BY <1>0, <1>9 DEF LeaseRunsOut, RetryComesDue, Row
    <2> QED
      BY <2>1 DEF RowMoves
  <1> QED
    BY <1>1, <1>2, <1>3, <1>4, <1>5, <1>6, <1>7, <1>8, <1>9 DEF Next

\* A sign or refresh job that failed terminally is never handed out again, and
\* a dead one stays dead (BrokenWorkStops).
THEOREM BrokenWorkIsNotRetried == Spec => BrokenWorkStops
  <1> DEFINE Stops == \A k \in Keys : JobType[k] \in {"refresh", "sign"} =>
                        /\ FailedTerminally(jobs[k]) => jobs'[k].state \in {"failed", "dead"}
                        /\ jobs[k].state = "dead" => jobs'[k].state = "dead"
  <1>1. IInv /\ [Next]_vars => Stops
    <2> SUFFICES ASSUME IInv, [Next]_vars, NEW k \in Keys, JobType[k] \in {"refresh", "sign"}
                 PROVE  /\ FailedTerminally(jobs[k]) => jobs'[k].state \in {"failed", "dead"}
                        /\ jobs[k].state = "dead" => jobs'[k].state = "dead"
      OBVIOUS
    <2>1. RowMoves(k)
      BY BoundedRowMoves DEF Bounded
    <2>2. jobs[k].state = "dead" => ~Reapable(jobs[k], JobType[k])
      BY DEF Reapable, Active
    <2>3. jobs[k] \in Row
      BY DEF IInv, TypeOK
    <2>4. FailedTerminally(jobs[k]) => ReapedRow(jobs[k], MaxAttempts[k]).state = "dead"
      BY <2>3 DEF ReapedRow, DeadRow, Row
    <2> QED
      BY <2>1, <2>2, <2>4 DEF RowMoves, FailedTerminally, Active
  <1>2. IInv /\ [Next]_vars => [Stops]_vars
    BY <1>1
  <1> QED
    BY <1>2, InvariantHolds, PTL DEF Spec, BrokenWorkStops

-------------------------------------------------------------------------------
(***************************************************************************)
(* The queue implements JobContract, and claims are stable, as long as     *)
(* ClaimSpecific calls do not overlap.                                     *)
(***************************************************************************)

\* The server handles one ClaimSpecific call at a time.
SerialCalls == \A c, d \in Calls : c = d

SerialInv == IInv /\ RequeueSeesFailure

\* What a step may do to a row, statement by statement.
Kept(k) == jobs'[k].state = jobs[k].state /\ jobs'[k].claimedBy = jobs[k].claimedBy

Inserted(k) == /\ jobs[k].state = "absent"
               /\ jobs'[k].state = "pending" /\ jobs'[k].claimedBy = NoAgent

Claimed(k) == /\ jobs[k].state = "pending"
              /\ \E a \in Agents : jobs'[k] = ClaimedRow(jobs[k], a)

Updated(k) == /\ jobs[k].state \in Active
              /\ \E to \in {"in_progress", "completed", "failed"}, category \in Reports :
                    jobs'[k] = UpdatedRow(jobs[k], to, category)

Reaped(k) == /\ Reapable(jobs[k], JobType[k])
             /\ jobs'[k] = ReapedRow(jobs[k], MaxAttempts[k])

Requeued(k) == /\ JobType[k] = "install" /\ jobs[k].state \in {"failed", "dead"}
               /\ jobs'[k] = RequeuedRow(jobs[k])
               /\ \E c \in Calls : calls[c].step = "requeue" /\ calls'[c].step = "claim"

RowStep(k) ==
    Kept(k) \/ Inserted(k) \/ Claimed(k) \/ Updated(k) \/ Reaped(k) \/ Requeued(k)

-------------------------------------------------------------------------------
\* Every step moves every row along one of the statements.
LEMMA StepMovesRows ==
    ASSUME SerialInv, [Next]_vars, NEW k \in Keys
    PROVE  RowStep(k)
  <1>0. /\ IInv /\ RequeueSeesFailure
        /\ jobs \in [Keys -> Row] /\ jobs[k] \in Row
        /\ calls \in [Calls -> Call]
    BY DEF SerialInv, IInv, TypeOK
  <1>1. CASE UNCHANGED vars
    BY <1>1 DEF vars, RowStep, Kept
  <1>2. ASSUME NEW j \in Keys, NEW retryAt \in {"now", "later"}, Create(j, retryAt)
        PROVE  RowStep(k)
    BY <1>0, <1>2 DEF Create, RowStep, Kept, Inserted, CreatedRow, NoRow
  <1>3. ASSUME NEW a \in Agents, NEW deviceIDs \in SUBSET Devices,
               NEW types \in TypeFilters(a), Claim(a, types, deviceIDs)
        PROVE  RowStep(k)
    <2>1. types \subseteq allowedJobTypesForRole(Role[a])
      BY <1>3 DEF Claim
    <2>2. PICK served \in PrefixesOf(EligibleDevices(a, types, deviceIDs)) :
            jobs' = [j \in Keys |->
                       IF j \in DevicelessPick(a, types, deviceIDs)
                                  \union UNION {Oldest(ClaimableOn(d, types)) : d \in served}
                       THEN ClaimedRow(jobs[j], a) ELSE jobs[j]]
      BY <1>3 DEF Claim
    <2>3. served \in SUBSET EligibleDevices(a, types, deviceIDs)
      BY <2>2 DEF PrefixesOf
    <2>4. \/ Claimable(jobs[k]) /\ jobs'[k] = ClaimedRow(jobs[k], a)
          \/ jobs'[k] = jobs[k]
      BY <1>0, <2>1, <2>2, <2>3, PickedIsEntitled
    <2> QED
      BY <2>4 DEF Claimable, RowStep, Kept, Claimed
  <1>4. ASSUME NEW c \in Calls, NEW j \in Keys, ClaimSpecificRead(c, j)
        PROVE  RowStep(k)
    BY <1>4 DEF ClaimSpecificRead, RowStep, Kept
  <1>5. ASSUME NEW c \in Calls, ClaimSpecificRequeue(c)
        PROVE  RowStep(k)
    <2>1. calls[c].job \in Keys /\ JobType[calls[c].job] = "install"
      BY <1>0, <1>5 DEF IInv, CallsNameInstalls, ClaimSpecificRequeue
    <2>2. jobs[calls[c].job].state \in {"failed", "dead"}
      BY <1>0, <1>5 DEF RequeueSeesFailure, ClaimSpecificRequeue
    <2>3. calls[c].step = "requeue" /\ calls'[c].step = "claim"
      BY <1>0, <1>5 DEF ClaimSpecificRequeue, Call
    <2> QED
      BY <1>0, <1>5, <2>1, <2>2, <2>3 DEF ClaimSpecificRequeue, RowStep, Kept, Requeued
  <1>6. ASSUME NEW c \in Calls, ClaimSpecificClaim(c)
        PROVE  RowStep(k)
    BY <1>0, <1>6, QueueAssumptions DEF ClaimSpecificClaim, RowStep, Kept, Claimed
  <1>7. ASSUME NEW c \in Calls, ClaimSpecificAbort(c)
        PROVE  RowStep(k)
    BY <1>7 DEF ClaimSpecificAbort, RowStep, Kept
  <1>8. ASSUME NEW a \in Agents, NEW j \in Keys, NEW to \in States,
               NEW category \in Reports, Update(a, j, to, category)
        PROVE  RowStep(k)
    BY <1>0, <1>8 DEF Update, validTransition, RowStep, Kept, Updated
  <1>9. ASSUME NEW S \in SUBSET Keys, Reap(S)
        PROVE  RowStep(k)
    BY <1>9 DEF Reap, RowStep, Kept, Reaped
  <1>10. ASSUME NEW a \in Agents, NEW d \in Devices, ReportDevice(a, d)
         PROVE  RowStep(k)
    BY <1>10 DEF ReportDevice, RowStep, Kept
  <1>11. ASSUME NEW j \in Keys, LeaseRunsOut(j) \/ RetryComesDue(j)
         PROVE  RowStep(k)
    <2>1. Kept(k)
      BY <1>0, <1>11 DEF LeaseRunsOut, RetryComesDue, Kept, Row
    <2> QED
      BY <2>1 DEF RowStep
  <1> QED
    BY <1>1, <1>2, <1>3, <1>4, <1>5, <1>6, <1>7, <1>8, <1>9, <1>10, <1>11 DEF Next

\* A call that is about to requeue was about to before, or has just read the row.
LEMMA RequeueOrigin ==
    ASSUME SerialInv, [Next]_vars, NEW c \in Calls, calls'[c].step = "requeue"
    PROVE  \/ calls[c] = calls'[c]
           \/ jobs' = jobs /\ jobs[calls'[c].job].state \in {"failed", "dead"}
  <1>0. calls \in [Calls -> Call]
    BY DEF SerialInv, IInv, TypeOK
  <1>1. ASSUME NEW d \in Calls, NEW k \in Keys, ClaimSpecificRead(d, k), calls[c] # calls'[c]
        PROVE  jobs' = jobs /\ jobs[calls'[c].job].state \in {"failed", "dead"}
    BY <1>0, <1>1 DEF ClaimSpecificRead, Call
  <1>2. ASSUME NEW d \in Calls,
               ClaimSpecificRequeue(d) \/ ClaimSpecificClaim(d) \/ ClaimSpecificAbort(d)
        PROVE  calls[c] = calls'[c]
    BY <1>0, <1>2 DEF ClaimSpecificRequeue, ClaimSpecificClaim, ClaimSpecificAbort,
                      IdleCall, Call
  <1> QED
    BY <1>1, <1>2 DEF Next, vars, Create, Claim, Update, Reap, ReportDevice,
                      LeaseRunsOut, RetryComesDue

\* While calls do not overlap, the row of a pending requeue stays as it was read.
LEMMA SerialStep ==
    ASSUME SerialCalls
    PROVE  SerialInv /\ [Next]_vars => SerialInv'
  <1> SUFFICES ASSUME SerialInv, [Next]_vars PROVE SerialInv'
    OBVIOUS
  <1>1. IInv'
    BY NextInv DEF SerialInv
  <1>2. ASSUME NEW c \in Calls, calls'[c].step = "requeue"
        PROVE  jobs'[calls'[c].job].state \in {"failed", "dead"}
    <2>1. CASE jobs' = jobs /\ jobs[calls'[c].job].state \in {"failed", "dead"}
      BY <2>1
    <2>2. CASE calls[c] = calls'[c]
      <3> DEFINE k == calls[c].job
      <3>1. k \in Keys /\ JobType[k] = "install" /\ jobs[k].state \in {"failed", "dead"}
        BY <1>2, <2>2 DEF SerialInv, IInv, CallsNameInstalls, RequeueSeesFailure
      <3>2. RowStep(k)
        BY <3>1, StepMovesRows
      <3>3. ~Requeued(k)
        BY <1>2, <2>2, SerialCalls DEF Requeued, SerialCalls
      <3>4. Kept(k)
        BY <3>1, <3>2, <3>3 DEF RowStep, Inserted, Claimed, Updated, Reaped, Reapable, Active
      <3> QED
        BY <2>2, <3>1, <3>4 DEF Kept
    <2> QED
      BY <1>2, <2>1, <2>2, RequeueOrigin
  <1> QED
    BY <1>1, <1>2 DEF SerialInv, RequeueSeesFailure

LEMMA SerialInit == Init => SerialInv
  BY InitInv DEF SerialInv, RequeueSeesFailure, Init, IdleCall

-------------------------------------------------------------------------------
\* A live claim is never taken from its holder (ClaimsAreStable): Update and
\* ClaimSpecific leave it alone, Reap waits for the lease.
THEOREM SerialClaimsAreStable ==
    ASSUME SerialCalls
    PROVE  Spec => ClaimsAreStable
  <1> DEFINE Stable == \A k \in Keys :
                         jobs[k].state \in Active /\ jobs'[k].claimedBy # jobs[k].claimedBy
                           => jobs[k].lease = "expired"
  <1>1. SerialInv /\ [Next]_vars => [Stable]_vars
    <2> SUFFICES ASSUME SerialInv, [Next]_vars, NEW k \in Keys, jobs[k].state \in Active,
                        jobs'[k].claimedBy # jobs[k].claimedBy
                 PROVE  jobs[k].lease = "expired"
      OBVIOUS
    <2>1. RowStep(k)
      BY StepMovesRows
    <2>2. jobs[k] \in Row
      BY DEF SerialInv, IInv, TypeOK
    <2>3. ~Updated(k)
      BY <2>2 DEF Updated, UpdatedRow, Row
    <2> QED
      BY <2>1, <2>3 DEF RowStep, Kept, Inserted, Claimed, Reaped, Reapable, Requeued, Active
  <1> QED
    BY <1>1, SerialInit, SerialStep, PTL DEF Spec, ClaimsAreStable

\* The queue implements the life cycle of JobContract (KeepsContract): every
\* step of Claim, ClaimSpecific, Update and Reap moves each job along it.
THEOREM SerialQueueKeepsContract ==
    ASSUME SerialCalls
    PROVE  Spec => KeepsContract
  <1>1. Init => Contract!Init
    <2>1. Phase(NoRow) = "absent" /\ Holder(NoRow) = NoAgent
      BY DEF Phase, Holder, NoRow, Active
    <2>2. ASSUME Init, NEW k \in Keys PROVE jobs[k] = NoRow
      BY <2>2 DEF Init
    <2> QED
      BY <2>1, <2>2 DEF Contract!Init
  <1>2. SerialInv /\ [Next]_vars => [Contract!Next]_(Contract!contractVars)
    <2> SUFFICES ASSUME SerialInv, [Next]_vars, NEW k \in Keys
                 PROVE  Contract!JobStep(k)
      BY DEF Contract!Next
    <2>0. jobs[k] \in Row /\ jobs'[k] \in Row
      BY NextInv DEF SerialInv, IInv, TypeOK
    <2> DEFINE Moves(p, q, w) == /\ Phase(jobs[k]) = p /\ Phase(jobs'[k]) = q
                                 /\ Holder(jobs'[k]) = w
    <2>1. \A p, q, w : Contract!Move(k, p, q, w) <=> Moves(p, q, w)
      BY DEF Contract!Move
    <2>2. Contract!Stay(k) <=> /\ Phase(jobs'[k]) = Phase(jobs[k])
                              /\ Holder(jobs'[k]) = Holder(jobs[k])
      BY DEF Contract!Stay
    <2>3. CASE Kept(k)
      <3>1. Contract!Stay(k)
        BY <2>2, <2>3 DEF Kept, Phase, Holder
      <3> QED
        BY <3>1 DEF Contract!JobStep
    <2>4. CASE Inserted(k)
      <3>1. Moves("absent", "open", NoAgent)
        BY <2>4 DEF Inserted, Phase, Holder, Active
      <3> QED
        BY <2>1, <3>1 DEF Contract!JobStep, Contract!Offer
    <2>5. CASE Claimed(k)
      <3>1. PICK a \in Agents : jobs'[k] = ClaimedRow(jobs[k], a)
        BY <2>5 DEF Claimed
      <3>2. jobs'[k].state = "claimed" /\ jobs'[k].claimedBy = a
        BY <2>0, <3>1 DEF ClaimedRow, Row
      <3>3. Moves("open", "held", a)
        BY <2>5, <3>2 DEF Claimed, Phase, Holder, Active
      <3> QED
        BY <2>1, <3>3 DEF Contract!JobStep, Contract!Take
    <2>6. CASE Updated(k)
      <3>1. PICK to \in {"in_progress", "completed", "failed"} :
              jobs'[k].state = to /\ jobs'[k].claimedBy = jobs[k].claimedBy
        BY <2>0, <2>6 DEF Updated, UpdatedRow, Row
      <3>2. CASE to = "in_progress"
        <4>1. Contract!Stay(k)
          BY <2>2, <2>6, <3>1, <3>2 DEF Updated, Phase, Holder, Active
        <4> QED
          BY <4>1 DEF Contract!JobStep
      <3>3. CASE to # "in_progress"
        <4>1. Moves("held", "done", NoAgent) \/ Moves("held", "failed", NoAgent)
          BY <2>6, <3>1, <3>3 DEF Updated, Phase, Holder, Active
        <4> QED
          BY <2>1, <4>1 DEF Contract!JobStep, Contract!Report
      <3> QED
        BY <3>2, <3>3
    <2>7. CASE Reaped(k)
      <3>1. jobs'[k].state \in {"pending", "dead"}
        BY <2>0, <2>7 DEF Reaped, ReapedRow, DeadRow, RequeuedRow, Row
      <3>2. jobs[k].state \in Active \union {"failed"}
        BY <2>7 DEF Reaped, Reapable
      <3>3. \/ Moves("held", "open", NoAgent) \/ Moves("held", "closed", NoAgent)
            \/ Moves("failed", "open", NoAgent) \/ Moves("failed", "closed", NoAgent)
        BY <3>1, <3>2 DEF Phase, Holder, Active
      <3> QED
        BY <2>1, <3>3 DEF Contract!JobStep, Contract!TakeBack, Contract!Retry
    <2>8. CASE Requeued(k)
      <3>1. jobs'[k].state = "pending"
        BY <2>0, <2>8 DEF Requeued, RequeuedRow, Row
      <3>2. Moves("failed", "open", NoAgent) \/ Moves("closed", "open", NoAgent)
        BY <2>8, <3>1 DEF Requeued, Phase, Holder, Active
      <3>3. k \notin {j \in Keys : JobType[j] \in {"refresh", "sign"}}
        BY <2>8 DEF Requeued
      <3> QED
        BY <2>1, <3>2, <3>3 DEF Contract!JobStep, Contract!Retry, Contract!Reopen
    <2> QED
      BY <2>3, <2>4, <2>5, <2>6, <2>7, <2>8, StepMovesRows DEF RowStep
  <1> QED
    BY <1>1, <1>2, SerialInit, SerialStep, PTL DEF Spec, KeepsContract, Contract!Spec
===============================================================================
