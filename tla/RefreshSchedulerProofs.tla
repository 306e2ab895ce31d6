------------------------ MODULE RefreshSchedulerProofs ------------------------
(***************************************************************************)
(* The scheduler's tick beside agents, reaper, operator and retention, for *)
(* any number of deployments, agents, days and manual refreshes, and a     *)
(* control plane that restarts at any point.                               *)
(***************************************************************************)
EXTENDS RefreshScheduler, TLAPS

\* What every statement keeps true of a stored row: a lease is for active rows,
\* a delay for pending ones, and a dead row has a reason.
RowOK(row) ==
    /\ row \in Row /\ row.state # "absent"
    /\ row.lease # "none" => row.state \in Active
    /\ row.retryAt = "later" => row.state = "pending"
    /\ row.state = "dead" => row.deadReason \in {"terminal_error", "max_attempts"}

RowsOK == DOMAIN jobs \subseteq JobKeys /\ \A k \in DOMAIN jobs : RowOK(jobs[k])

StateOK ==
    /\ today \in 0..Horizon
    /\ deployments \in [Deployments -> Deployment]
    /\ tick \in Tick

\* Due date and expiry move together.
DueFollowsExpiry == \A d \in Deployments : deployments[d].due + Lead = deployments[d].expiry

\* A cycle is visited, and stored, on the day it falls due or later.
CyclesAreDue ==
    /\ \A k \in DOMAIN jobs : k[1] = "refresh" => k[3] <= today
    /\ \A s \in tick.todo \union tick.cur : s.due <= today

\* A tick that handles a dead cycle still finds it dead.
CycleStaysDead ==
    tick.step \in {"judge", "flag", "release"} =>
        \A s \in tick.cur : Stored(CycleKey(s)) /\ jobs[CycleKey(s)].state = "dead"

BaseInv == RowsOK /\ StateOK /\ DueFollowsExpiry /\ CyclesAreDue /\ CycleStaysDead

\* One dead cycle is handled at a time, and a verdict that was read, and that the
\* tick acts on, is still true of its row.
VerdictStands ==
    /\ \A s, t \in tick.cur : s = t
    /\ \A s \in tick.cur :
         /\ tick.step = "flag" => jobs[CycleKey(s)].deadReason = "terminal_error"
         /\ tick.step = "release" /\ ~tick.unread =>
                jobs[CycleKey(s)].deadReason = "max_attempts"

VerdictInv == VerdictStands /\ AttentionIsJustified

\* A completed cycle is one the deployment has left behind, if its last refresh
\* did not leave it due.
CompletedArePast ==
    \A k \in DOMAIN jobs :
        k[1] = "refresh" /\ jobs[k].state = "completed" /\ ~deployments[Dep(k)].stale =>
            k[3] < deployments[Dep(k)].due

-------------------------------------------------------------------------------
(***************************************************************************)
(* Keys, and rows after each statement.                                    *)
(***************************************************************************)

\* The parts of a key that the scheduler reads back.
LEMMA KeyParts ==
    /\ \A k \in JobKeys : Dep(k) \in Deployments
    /\ \A k \in JobKeys : k[1] = "refresh" => \E s \in Snapshot : k = CycleKey(s)
    /\ \A s \in Snapshot : /\ CycleKey(s) \in JobKeys /\ GuardKey(s) \in JobKeys
                           /\ CycleKey(s)[1] = "refresh" /\ GuardKey(s)[1] # "refresh"
                           /\ CycleKey(s)[3] = s.due /\ Dep(CycleKey(s)) = s.dep
                           /\ s.dep \in Deployments
    /\ \A d \in Deployments, n \in 1..MaxManual :
          ManualKey(d, n) \in JobKeys /\ ManualKey(d, n)[1] # "refresh"
  BY DEF JobKeys, Dep, CycleKey, GuardKey, ManualKey, Snapshot

\* CreateRefresh inserts a pending row.
LEMMA CreatedRowOK == RowOK(CreatedRow("now")) /\ CreatedRow("now").state = "pending"
  BY DEF RowOK, Row, CreatedRow, NoRow, Categories, States

LEMMA ClaimedRowOK ==
    ASSUME NEW row, RowOK(row), NEW a \in Agents
    PROVE  RowOK(ClaimedRow(row, a)) /\ ClaimedRow(row, a).state = "claimed"
  <1> DEFINE new == ClaimedRow(row, a)
  <1>1. row \in Row /\ row.attempt + 1 \in Nat
    BY DEF RowOK, Row
  <1>2. new \in Row /\ new.state = "claimed" /\ new.retryAt = "now"
    BY <1>1 DEF Row, ClaimedRow, States
  <1> HIDE DEF new
  <1>3. RowOK(new) /\ new.state = "claimed"
    BY <1>2 DEF RowOK, Active
  <1> QED
    BY <1>3 DEF new

\* An accepted report: only in_progress keeps a lease.
LEMMA UpdatedRowOK ==
    ASSUME NEW row, RowOK(row), NEW to, validTransition(row.state, to),
           NEW category \in Categories
    PROVE  RowOK(UpdatedRow(row, to, category)) /\ UpdatedRow(row, to, category).state = to
  <1>1. UpdatedCategory(row, to, category) \in Categories
    BY DEF UpdatedCategory, RowOK, Row, Categories
  <1> QED
    BY <1>1 DEF RowOK, Row, UpdatedRow, States, Active, validTransition

LEMMA ReapedRowOK ==
    ASSUME NEW row, RowOK(row), NEW n
    PROVE  RowOK(ReapedRow(row, n)) /\ ReapedRow(row, n).state \in {"dead", "pending"}
  <1>1. ASSUME NEW reason \in {"terminal_error", "max_attempts"}
        PROVE  RowOK(DeadRow(row, reason)) /\ DeadRow(row, reason).state = "dead"
    BY DEF RowOK, Row, DeadRow, States
  <1>2. /\ RowOK([RequeuedRow(row) EXCEPT !.retryAt = "later"])
        /\ [RequeuedRow(row) EXCEPT !.retryAt = "later"].state = "pending"
    BY DEF RowOK, Row, RequeuedRow, States
  <1> QED
    BY <1>1, <1>2 DEF ReapedRow

\* Time: a lease runs out, a delay is over.
LEMMA TimedRowOK ==
    ASSUME NEW row, RowOK(row)
    PROVE  /\ row.lease = "running" =>
                /\ RowOK([row EXCEPT !.lease = "expired"])
                /\ [row EXCEPT !.lease = "expired"].state = row.state
           /\ RowOK([row EXCEPT !.retryAt = "now"])
           /\ [row EXCEPT !.retryAt = "now"].state = row.state
  BY DEF RowOK, Row

-------------------------------------------------------------------------------
(***************************************************************************)
(* What a step does to the jobs table.                                     *)
(***************************************************************************)

\* New rows are pending and, if they are of a cycle, of one that is due; rows
\* that are dead or completed do not change; only the release of a dead cycle
\* removes one, and its deployment keeps track of one that was not read.
Added == \A k \in DOMAIN jobs' \ DOMAIN jobs :
            jobs'[k].state = "pending" /\ (k[1] = "refresh" => k[3] <= today)

Settled == \A k \in DOMAIN jobs \intersect DOMAIN jobs' :
              jobs[k].state \in {"dead", "completed"} => jobs'[k] = jobs[k]

Removed == \A k \in DOMAIN jobs \ DOMAIN jobs' :
              /\ tick.step = "release" /\ \E s \in tick.cur : k = CycleKey(s)
              /\ jobs[k].state = "dead"
              /\ tick.unread => deployments'[Dep(k)].unread

JobsStep == RowsOK' /\ Added /\ Settled /\ Removed

LEMMA UnchangedJobs == RowsOK /\ UNCHANGED jobs => JobsStep
  BY DEF RowsOK, JobsStep, Added, Settled, Removed

LEMMA CreateStep ==
    ASSUME RowsOK, NEW k \in JobKeys, CreateRefresh(k), k[1] = "refresh" => k[3] <= today
    PROVE  /\ JobsStep
           /\ DOMAIN jobs' = DOMAIN jobs \union {k}
           /\ \A j \in DOMAIN jobs : jobs'[j] = jobs[j]
  <1>1. CASE Stored(k)
    BY <1>1, UnchangedJobs DEF CreateRefresh, Stored
  <1>2. CASE ~Stored(k)
    <2>1. /\ DOMAIN jobs' = DOMAIN jobs \union {k} /\ jobs'[k] = CreatedRow("now")
          /\ \A j \in DOMAIN jobs : jobs'[j] = jobs[j]
      BY <1>2 DEF CreateRefresh, Stored
    <2> QED
      BY <2>1, CreatedRowOK DEF RowsOK, JobsStep, Added, Settled, Removed
  <1> QED
    BY <1>1, <1>2

LEMMA SetRowStep ==
    ASSUME RowsOK, NEW k \in DOMAIN jobs, NEW row, SetRow(k, row), RowOK(row),
           jobs[k].state \notin {"dead", "completed"}
    PROVE  /\ JobsStep
           /\ DOMAIN jobs' = DOMAIN jobs /\ jobs'[k] = row
           /\ \A j \in DOMAIN jobs \ {k} : jobs'[j] = jobs[j]
           /\ tick' = tick /\ today' = today
  <1>1. /\ DOMAIN jobs' = DOMAIN jobs /\ jobs'[k] = row
        /\ \A j \in DOMAIN jobs \ {k} : jobs'[j] = jobs[j]
    BY DEF SetRow
  <1> QED
    BY <1>1 DEF RowsOK, JobsStep, Added, Settled, Removed, SetRow

LEMMA ReleaseStep ==
    ASSUME BaseInv, NEW s \in tick.cur, releaseDeadCycle(s)
    PROVE  /\ JobsStep
           /\ DOMAIN jobs' \subseteq DOMAIN jobs
           /\ \A j \in DOMAIN jobs' : jobs'[j] = jobs[j]
  <1>1. /\ DOMAIN jobs' = {j \in DOMAIN jobs : j = CycleKey(s) => jobs[j].state # "dead"}
        /\ \A j \in DOMAIN jobs' : jobs'[j] = jobs[j]
    BY DEF releaseDeadCycle
  <1>2. /\ s \in Snapshot /\ s.dep \in Deployments /\ Dep(CycleKey(s)) = s.dep
        /\ deployments[s.dep] \in Deployment
    BY KeyParts DEF BaseInv, StateOK, Tick
  <1>3. tick.unread => deployments'[s.dep].unread
    BY <1>2 DEF releaseDeadCycle, BaseInv, StateOK, Deployment
  <1>4. \A k \in DOMAIN jobs \ DOMAIN jobs' : k = CycleKey(s) /\ jobs[k].state = "dead"
    BY <1>1
  <1>5. Removed
    BY <1>2, <1>3, <1>4 DEF Removed, releaseDeadCycle
  <1> QED
    BY <1>1, <1>5 DEF BaseInv, RowsOK, JobsStep, Added, Settled

\* The release of a dead cycle records only how it was judged.
LEMMA ReleasedDeployments ==
    ASSUME BaseInv, NEW s \in tick.cur, releaseDeadCycle(s)
    PROVE  /\ deployments' \in [Deployments -> Deployment]
           /\ \A d \in Deployments : /\ deployments'[d].due = deployments[d].due
                                     /\ deployments'[d].expiry = deployments[d].expiry
                                     /\ deployments'[d].error = deployments[d].error
                                     /\ deployments'[d].stale = deployments[d].stale
                                     /\ deployments[d].unread => deployments'[d].unread
  <1>1. /\ s.dep \in Deployments /\ deployments \in [Deployments -> Deployment]
        /\ tick.unread \in BOOLEAN
    BY KeyParts DEF BaseInv, StateOK, Tick
  <1> DEFINE new == [deployments[s.dep] EXCEPT !.unread = @ \/ tick.unread]
  <1>2. deployments' = [deployments EXCEPT ![s.dep] = new]
    BY <1>1 DEF releaseDeadCycle
  <1>3. deployments[s.dep] \in Deployment
    BY <1>1
  <1>4. (deployments[s.dep].unread \/ tick.unread) \in BOOLEAN
    OBVIOUS
  <1>5. /\ new \in Deployment /\ new.due = deployments[s.dep].due
        /\ new.expiry = deployments[s.dep].expiry /\ new.error = deployments[s.dep].error
        /\ new.stale = deployments[s.dep].stale
        /\ deployments[s.dep].unread => new.unread
    BY <1>3, <1>4 DEF Deployment
  <1> HIDE DEF new
  <1> QED
    BY <1>1, <1>2, <1>5

-------------------------------------------------------------------------------
(***************************************************************************)
(* The invariant, one lemma per action.                                    *)
(***************************************************************************)
DeploymentsOK == /\ deployments \in [Deployments -> Deployment]
                 /\ DueFollowsExpiry

\* A step of the tick.
LEMMA TickFrame ==
    ASSUME BaseInv, JobsStep, today' = today, DeploymentsOK', tick' \in Tick,
           \A s \in tick'.todo \union tick'.cur : s.due <= today,
           CycleStaysDead'
    PROVE  BaseInv'
  <1>1. CyclesAreDue'
    BY DEF BaseInv, CyclesAreDue, JobsStep, Added
  <1> QED
    BY <1>1 DEF BaseInv, StateOK, JobsStep, DeploymentsOK

\* A step of anybody else.
LEMMA OtherFrame ==
    ASSUME BaseInv, JobsStep, tick' = tick, DOMAIN jobs \subseteq DOMAIN jobs',
           today' \in 0..Horizon, today <= today', DeploymentsOK'
    PROVE  BaseInv'
  <1>1. CyclesAreDue'
    <2>1. \A k \in JobKeys : k[1] = "refresh" => k[3] \in Nat
      BY KeyParts, SchedulerAssumptions DEF CycleKey, Snapshot, Days
    <2>2. \A s \in tick.todo \union tick.cur : s.due \in Nat
      BY SchedulerAssumptions DEF BaseInv, StateOK, Tick, Snapshot, Days
    <2>3. today \in Nat /\ today' \in Nat
      BY SchedulerAssumptions DEF BaseInv, StateOK
    <2>4. \A k \in DOMAIN jobs' : k[1] = "refresh" => k[3] <= today
      BY DEF BaseInv, CyclesAreDue, JobsStep, Added
    <2>5. DOMAIN jobs' \subseteq JobKeys
      BY DEF JobsStep, RowsOK
    <2> QED
      BY <2>1, <2>2, <2>3, <2>4, <2>5 DEF BaseInv, CyclesAreDue
  <1>2. CycleStaysDead'
    BY DEF BaseInv, CycleStaysDead, JobsStep, Settled, Stored
  <1> QED
    BY <1>1, <1>2 DEF BaseInv, StateOK, JobsStep, DeploymentsOK

\* A flag changes neither due date nor expiry.
LEMMA FlagOK ==
    ASSUME BaseInv, NEW d \in Deployments, NEW reason \in {"unlinked", "terminal"},
           Flag(d, reason)
    PROVE  DeploymentsOK'
  <1> DEFINE new == [deployments[d] EXCEPT !.result = "attention", !.error = reason,
                                          !.unread = FALSE]
  <1>0. deployments \in [Deployments -> Deployment] /\ deployments[d] \in Deployment
    BY DEF BaseInv, StateOK
  <1>1. deployments' \in [Deployments -> Deployment]
    <2>1. new \in Deployment
      BY <1>0 DEF Deployment
    <2>2. deployments' = [deployments EXCEPT ![d] = new]
      BY <1>0 DEF Flag
    <2> HIDE DEF new
    <2> QED
      BY <1>0, <2>1, <2>2
  <1>2. \A e \in Deployments : /\ deployments'[e].due = deployments[e].due
                               /\ deployments'[e].expiry = deployments[e].expiry
    BY DEF BaseInv, StateOK, Flag, Deployment
  <1> QED
    BY <1>1, <1>2 DEF BaseInv, DueFollowsExpiry, DeploymentsOK

\* What dueDeployments and expiryGuard take is a snapshot.
LEMMA TakeIsSnapshot ==
    ASSUME BaseInv, NEW d \in Deployments
    PROVE  Take(d) \in Snapshot /\ Take(d).due = deployments[d].due
  <1>1. deployments[d] \in Deployment
    BY DEF BaseInv, StateOK
  <1> QED
    BY <1>1 DEF BaseInv, DueFollowsExpiry, Take, Snapshot, Deployment

LEMMA BaseInit == Init => BaseInv
  <1> SUFFICES ASSUME Init PROVE BaseInv
    OBVIOUS
  <1>1. StateOK
    BY SchedulerAssumptions DEF Init, StateOK, Deployment, Days, Tick, IdleTick
  <1>2. RowsOK /\ DueFollowsExpiry /\ CyclesAreDue /\ CycleStaysDead
    BY SchedulerAssumptions
       DEF Init, RowsOK, DueFollowsExpiry, CyclesAreDue, CycleStaysDead, IdleTick
  <1> QED
    BY <1>1, <1>2 DEF BaseInv

\* The statements that only read: their snapshots are due.
LEMMA BaseReads ==
    ASSUME BaseInv, TickStart \/ dueDeployments \/ expiryGuard \/ TickEnd \/ Restart
    PROVE  BaseInv'
  <1>0. /\ JobsStep /\ DeploymentsOK' /\ today' = today
        /\ tick \in Tick /\ today \in Nat
    BY UnchangedJobs, SchedulerAssumptions
       DEF BaseInv, StateOK, DeploymentsOK, DueFollowsExpiry,
           TickStart, dueDeployments, expiryGuard, TickEnd, Restart
  <1>1. CASE TickStart
    <2>1. tick' = [step |-> "mark", marks |-> {d \in Deployments : Due(d) /\ ~deployments[d].linked},
                   todo |-> {}, cur |-> {}, unread |-> FALSE]
      BY <1>1 DEF TickStart, IdleTick
    <2> QED
      BY <1>0, <2>1, TickFrame DEF CycleStaysDead, Tick
  <1>2. CASE dueDeployments
    <2> DEFINE taken == {Take(d) : d \in {e \in Deployments : Due(e) /\ deployments[e].linked}}
    <2>1. \A t \in taken : t \in Snapshot /\ t.due <= today
      BY TakeIsSnapshot DEF Due
    <2>2. tick' = [tick EXCEPT !.step = "due", !.todo = taken]
      BY <1>2 DEF dueDeployments
    <2> HIDE DEF taken
    <2> QED
      BY <1>0, <2>1, <2>2, TickFrame DEF BaseInv, CyclesAreDue, CycleStaysDead, Tick
  <1>3. CASE expiryGuard
    <2> DEFINE taken == {Take(d) : d \in AtRisk}
    <2>1. ASSUME NEW d \in AtRisk PROVE Take(d) \in Snapshot /\ Take(d).due <= today
      <3>1. d \in Deployments /\ deployments[d].expiry <= today + expiryGuardLead
        BY DEF AtRisk
      <3>2. deployments[d].due \in Nat /\ deployments[d].due + Lead = deployments[d].expiry
        BY <3>1, SchedulerAssumptions DEF BaseInv, StateOK, Deployment, Days, DueFollowsExpiry
      <3> QED
        BY <1>0, <3>1, <3>2, TakeIsSnapshot, SchedulerAssumptions
    <2>2. \A t \in taken : t \in Snapshot /\ t.due <= today
      BY <2>1
    <2>3. tick' = [tick EXCEPT !.step = "guard", !.todo = taken]
      BY <1>3 DEF expiryGuard
    <2> HIDE DEF taken
    <2> QED
      BY <1>0, <2>2, <2>3, TickFrame DEF BaseInv, CyclesAreDue, CycleStaysDead, Tick
  <1>4. CASE TickEnd \/ Restart
    <2>1. tick' = IdleTick
      BY <1>4 DEF TickEnd, Restart
    <2> QED
      BY <1>0, <2>1, TickFrame DEF CycleStaysDead, Tick, IdleTick
  <1> QED
    BY <1>1, <1>2, <1>3, <1>4

LEMMA BaseMark ==
    ASSUME BaseInv, NEW d \in tick.marks, markUnrefreshable(d)
    PROVE  BaseInv'
  <1>1. d \in Deployments /\ tick \in Tick
    BY DEF BaseInv, StateOK, Tick
  <1>2. DeploymentsOK'
    BY <1>1, FlagOK DEF markUnrefreshable, BaseInv, StateOK, DeploymentsOK, DueFollowsExpiry
  <1>3. JobsStep /\ today' = today
    BY UnchangedJobs DEF BaseInv, markUnrefreshable
  <1>4. tick' = [tick EXCEPT !.marks = @ \ {d}] /\ tick.step = "mark"
    BY DEF markUnrefreshable
  <1> QED
    BY <1>1, <1>2, <1>3, <1>4, TickFrame DEF BaseInv, CyclesAreDue, CycleStaysDead, Tick

\* The visit of a due deployment.
LEMMA BaseVisit ==
    ASSUME BaseInv, NEW s \in tick.todo, createRefreshJob(s)
    PROVE  BaseInv'
  <1>1. s \in Snapshot /\ s.due <= today /\ tick \in Tick
    BY DEF BaseInv, StateOK, Tick, CyclesAreDue
  <1>2. JobsStep /\ \A j \in DOMAIN jobs : j \in DOMAIN jobs' /\ jobs'[j] = jobs[j]
    BY <1>1, KeyParts, CreateStep DEF createRefreshJob, BaseInv
  <1>3. today' = today /\ DeploymentsOK'
    BY DEF createRefreshJob, BaseInv, StateOK, DeploymentsOK, DueFollowsExpiry
  <1>4. CASE Stored(CycleKey(s)) /\ jobs[CycleKey(s)].state = "dead"
    <2>1. tick' = [tick EXCEPT !.step = "judge", !.cur = {s}]
      BY <1>4 DEF createRefreshJob
    <2>2. tick' \in Tick /\ tick'.cur = {s} /\ tick'.todo = tick.todo
      BY <1>1, <2>1 DEF Tick
    <2>3. CycleStaysDead'
      BY <1>2, <1>4, <2>2 DEF CycleStaysDead, Stored
    <2> QED
      BY <1>1, <1>2, <1>3, <2>2, <2>3, TickFrame DEF BaseInv, CyclesAreDue
  <1>5. CASE ~(Stored(CycleKey(s)) /\ jobs[CycleKey(s)].state = "dead")
    <2>1. tick' = [tick EXCEPT !.step = "due", !.todo = @ \ {s}, !.cur = {}, !.unread = FALSE]
      BY <1>5 DEF createRefreshJob, Visited
    <2> QED
      BY <1>1, <1>2, <1>3, <2>1, TickFrame DEF BaseInv, CyclesAreDue, CycleStaysDead, Tick
  <1> QED
    BY <1>4, <1>5

LEMMA BaseForce ==
    ASSUME BaseInv, NEW s \in tick.todo, ForceRefresh(s)
    PROVE  BaseInv'
  <1>1. s \in Snapshot /\ tick \in Tick
    BY DEF BaseInv, StateOK, Tick
  <1>2. JobsStep
    BY <1>1, KeyParts, CreateStep DEF ForceRefresh, BaseInv
  <1>3. today' = today /\ DeploymentsOK'
    BY DEF ForceRefresh, BaseInv, StateOK, DeploymentsOK, DueFollowsExpiry
  <1>4. tick' = [tick EXCEPT !.todo = @ \ {s}] /\ tick.step = "guard"
    BY DEF ForceRefresh
  <1> QED
    BY <1>1, <1>2, <1>3, <1>4, TickFrame DEF BaseInv, CyclesAreDue, CycleStaysDead, Tick

\* The steps of a dead cycle.
LEMMA BaseDead ==
    ASSUME BaseInv, NEW s \in tick.cur,
           \/ deadCycleTerminal(s) \/ deadCycleUnread(s) \/ flagAttention(s)
           \/ releaseDeadCycle(s) \/ RecreateRefreshJob(s)
    PROVE  BaseInv'
  <1>1. s \in Snapshot /\ s.due <= today /\ tick \in Tick
    BY DEF BaseInv, StateOK, Tick, CyclesAreDue
  <1>2. s.dep \in Deployments
    BY <1>1, KeyParts
  <1>3. CASE deadCycleTerminal(s) \/ deadCycleUnread(s)
    <2>1. /\ tick' \in Tick /\ tick'.todo = tick.todo /\ tick'.cur = tick.cur
          /\ tick.step = "judge"
      BY <1>1, <1>3 DEF Tick, deadCycleTerminal, deadCycleUnread
    <2>2. JobsStep /\ today' = today /\ DeploymentsOK' /\ CycleStaysDead'
      BY <1>3, <2>1, UnchangedJobs
         DEF deadCycleTerminal, deadCycleUnread, BaseInv, StateOK, DeploymentsOK,
             DueFollowsExpiry, CycleStaysDead, Stored
    <2> QED
      BY <2>1, <2>2, TickFrame DEF BaseInv, CyclesAreDue
  <1>4. ASSUME Visited(s), JobsStep, today' = today, DeploymentsOK'
        PROVE  BaseInv'
    <2>1. tick' \in Tick /\ tick'.step = "due" /\ tick'.cur = {} /\ tick'.todo = tick.todo \ {s}
      BY <1>1, <1>4 DEF Visited, Tick
    <2>2. CycleStaysDead'
      BY <2>1 DEF CycleStaysDead
    <2> QED
      BY <1>4, <2>1, <2>2, TickFrame DEF BaseInv, CyclesAreDue
  <1>5. CASE flagAttention(s)
    BY <1>2, <1>4, <1>5, FlagOK, UnchangedJobs DEF flagAttention, BaseInv
  <1>6. CASE releaseDeadCycle(s)
    <2>1. tick' \in Tick /\ tick'.step = "recreate" /\ tick'.todo = tick.todo /\ tick'.cur = tick.cur
      BY <1>1, <1>6 DEF releaseDeadCycle, Tick
    <2>2. today' = today /\ DeploymentsOK' /\ CycleStaysDead'
      <3>1. DeploymentsOK'
        <4>1. \A d \in Deployments : deployments'[d].due + Lead = deployments'[d].expiry
          BY <1>6, ReleasedDeployments DEF BaseInv, DueFollowsExpiry
        <4> QED
          BY <1>6, <4>1, ReleasedDeployments DEF DeploymentsOK, DueFollowsExpiry
      <3> QED
        BY <1>6, <2>1, <3>1 DEF releaseDeadCycle, CycleStaysDead
    <2> QED
      BY <1>6, <2>1, <2>2, ReleaseStep, TickFrame DEF BaseInv, CyclesAreDue
  <1>7. CASE RecreateRefreshJob(s)
    <2>1. JobsStep
      BY <1>1, <1>7, KeyParts, CreateStep DEF RecreateRefreshJob, BaseInv
    <2>2. Visited(s) /\ today' = today /\ DeploymentsOK'
      BY <1>7 DEF RecreateRefreshJob, BaseInv, StateOK, DeploymentsOK, DueFollowsExpiry
    <2> QED
      BY <1>4, <2>1, <2>2
  <1> QED
    BY <1>3, <1>5, <1>6, <1>7

\* The operator, the day and the retention.
LEMMA BaseOthers ==
    ASSUME BaseInv,
           \/ \E d \in Deployments, n \in 1..MaxManual : ManualRefresh(d, n)
           \/ NextDay
           \/ \E d \in Deployments : PruneSignedArtifacts(d)
    PROVE  BaseInv'
  <1>0. /\ RowsOK /\ today \in 0..Horizon /\ Horizon \in Nat
        /\ deployments \in [Deployments -> Deployment] /\ DueFollowsExpiry
    BY SchedulerAssumptions DEF BaseInv, StateOK
  <1>1. ASSUME NEW d \in Deployments, NEW n \in 1..MaxManual, ManualRefresh(d, n)
        PROVE  BaseInv'
    <2>1. JobsStep /\ DOMAIN jobs \subseteq DOMAIN jobs'
      BY <1>0, <1>1, KeyParts, CreateStep DEF ManualRefresh
    <2> QED
      BY <1>0, <1>1, <2>1, OtherFrame DEF ManualRefresh, DeploymentsOK, DueFollowsExpiry
  <1>2. CASE NextDay
    BY <1>0, <1>2, UnchangedJobs, OtherFrame DEF NextDay, DeploymentsOK, DueFollowsExpiry
  <1>3. ASSUME NEW d \in Deployments, PruneSignedArtifacts(d)
        PROVE  BaseInv'
    <2> DEFINE new == [deployments[d] EXCEPT !.linked = FALSE]
    <2>0. new \in Deployment /\ deployments' = [deployments EXCEPT ![d] = new]
      <3>1. deployments[d] \in Deployment
        BY <1>0
      <3>2. new \in Deployment
        BY <3>1 DEF Deployment
      <3> QED
        BY <1>0, <1>3, <3>2 DEF PruneSignedArtifacts
    <2>1. deployments' \in [Deployments -> Deployment]
      <3> HIDE DEF new
      <3> QED
        BY <1>0, <2>0
    <2>2. \A e \in Deployments : /\ deployments'[e].due = deployments[e].due
                                 /\ deployments'[e].expiry = deployments[e].expiry
      BY <1>0, <1>3 DEF PruneSignedArtifacts, Deployment
    <2>3. DeploymentsOK'
      BY <1>0, <2>1, <2>2 DEF DeploymentsOK, DueFollowsExpiry
    <2> QED
      BY <1>0, <1>3, <2>3, UnchangedJobs, OtherFrame DEF PruneSignedArtifacts
  <1> QED
    BY <1>1, <1>2, <1>3

\* Agents, reaper and clock move one row that is neither dead nor completed;
\* only a completion makes a row completed.
Moves(k) ==
    /\ JobsStep /\ DOMAIN jobs' = DOMAIN jobs /\ tick' = tick /\ today' = today
    /\ jobs[k].state \notin {"dead", "completed"}
    /\ \A j \in DOMAIN jobs \ {k} : jobs'[j] = jobs[j]

LEMMA AgentMoves ==
    ASSUME RowsOK, NEW k \in DOMAIN jobs,
           \/ \E a \in Agents : Claim(k, a)
           \/ Heartbeat(k)
           \/ Reap(k)
           \/ LeaseRunsOut(k)
           \/ RetryComesDue(k)
    PROVE  Moves(k) /\ jobs'[k].state # "completed" /\ deployments' = deployments
  <1>0. RowOK(jobs[k])
    BY DEF RowsOK
  <1>1. ASSUME NEW a \in Agents, Claim(k, a)
        PROVE  Moves(k) /\ jobs'[k].state # "completed" /\ deployments' = deployments
    BY <1>0, <1>1, ClaimedRowOK, SetRowStep DEF Claim, Claimable, Moves
  <1>2. CASE Heartbeat(k)
    <2>1. "" \in Categories
      BY DEF Categories
    <2>2. validTransition(jobs[k].state, "in_progress") /\ jobs[k].state \in Active
      BY <1>2 DEF Heartbeat, validTransition
    <2>3. /\ RowOK(UpdatedRow(jobs[k], "in_progress", ""))
          /\ UpdatedRow(jobs[k], "in_progress", "").state = "in_progress"
      BY <1>0, <2>1, <2>2, UpdatedRowOK
    <2> QED
      BY <1>2, <2>2, <2>3, SetRowStep DEF Heartbeat, Active, Moves
  <1>3. CASE Reap(k)
    <2>1. jobs[k].state \notin {"dead", "completed"}
      BY <1>3 DEF Reap, Reapable, Active
    <2> QED
      BY <1>0, <1>3, <2>1, ReapedRowOK, SetRowStep DEF Reap, Moves
  <1>4. CASE LeaseRunsOut(k)
    <2>1. jobs[k].lease = "running" /\ jobs[k].state \in Active
      BY <1>0, <1>4 DEF LeaseRunsOut, RowOK
    <2> DEFINE new == [jobs[k] EXCEPT !.lease = "expired"]
    <2>2. SetRow(k, new) /\ deployments' = deployments /\ RowOK(new) /\ new.state \in Active
      BY <1>0, <1>4, <2>1, TimedRowOK DEF LeaseRunsOut
    <2> HIDE DEF new
    <2> QED
      BY <2>1, <2>2, SetRowStep DEF Moves, Active
  <1>5. CASE RetryComesDue(k)
    <2>1. jobs[k].state = "pending"
      BY <1>0, <1>5 DEF RetryComesDue, RowOK
    <2> DEFINE new == [jobs[k] EXCEPT !.retryAt = "now"]
    <2>2. SetRow(k, new) /\ deployments' = deployments /\ RowOK(new) /\ new.state = "pending"
      BY <1>0, <1>5, <2>1, TimedRowOK DEF RetryComesDue
    <2> HIDE DEF new
    <2> QED
      BY <2>1, <2>2, SetRowStep DEF Moves
  <1> QED
    BY <1>1, <1>2, <1>3, <1>4, <1>5

\* The reports that change the deployment.
LEMMA ReportMoves ==
    ASSUME RowsOK, NEW k \in DOMAIN jobs,
           \/ \E named \in {"legacy", "same", "new"}, expiry \in ReportedExpiries :
                 ReportCompleted(k, named, expiry)
           \/ \E category \in {"network", "auth"} : ReportFailed(k, category)
    PROVE  Moves(k)
  <1>0. RowOK(jobs[k])
    BY DEF RowsOK
  <1>1. ASSUME NEW to \in {"completed", "failed"}, NEW category \in Categories,
               validTransition(jobs[k].state, to), SetRow(k, UpdatedRow(jobs[k], to, category))
        PROVE  Moves(k)
    <2>1. jobs[k].state \in Active
      BY <1>1 DEF validTransition
    <2>2. RowOK(UpdatedRow(jobs[k], to, category))
      BY <1>0, <1>1, UpdatedRowOK
    <2> QED
      BY <1>1, <2>1, <2>2, SetRowStep DEF Active, Moves
  <1>2. {"", "network", "auth"} \subseteq Categories
    BY DEF Categories, terminalErrorCategories
  <1>3. ASSUME NEW named \in {"legacy", "same", "new"}, NEW expiry \in ReportedExpiries,
               ReportCompleted(k, named, expiry)
        PROVE  Moves(k)
    BY <1>1, <1>2, <1>3 DEF ReportCompleted
  <1>4. ASSUME NEW category \in {"network", "auth"}, ReportFailed(k, category)
        PROVE  Moves(k)
    BY <1>1, <1>2, <1>4 DEF ReportFailed
  <1> QED
    BY <1>3, <1>4

\* The deployment after a completion: a new cycle, the lead before the expiry.
LEMMA CompletedOK ==
    ASSUME BaseInv, NEW k \in DOMAIN jobs, NEW named,
           NEW expiry \in ReportedExpiries, ReportCompleted(k, named, expiry)
    PROVE  /\ Dep(k) \in Deployments /\ DeploymentsOK'
           /\ expiry \in Nat /\ deployments'[Dep(k)].due = expiry - Lead
           /\ deployments'[Dep(k)].error = "none"
           /\ deployments'[Dep(k)].stale = (deployments'[Dep(k)].due <= today)
           /\ \A d \in Deployments \ {Dep(k)} : deployments'[d] = deployments[d]
  <1> DEFINE d == Dep(k)
             new == CompletedDeployment(deployments[d], named, expiry)
  <1>1. d \in Deployments /\ deployments \in [Deployments -> Deployment]
    BY KeyParts DEF BaseInv, RowsOK, StateOK
  <1>2. expiry \in Days /\ expiry - Lead \in Days /\ expiry \in Nat /\ Lead \in Nat
    <2>1. /\ deployments[d].due \in Nat /\ deployments[d].expiry \in Days
          /\ deployments[d].due + Lead = deployments[d].expiry
          /\ today \in 0..Horizon
      BY <1>1, SchedulerAssumptions DEF BaseInv, StateOK, Deployment, Days, DueFollowsExpiry
    <2> QED
      BY <2>1, SchedulerAssumptions DEF ReportedExpiries, Days
  <1>3a. today \in Nat
    BY SchedulerAssumptions DEF BaseInv, StateOK
  <1>3. /\ new \in Deployment /\ new.due = expiry - Lead /\ new.expiry = expiry
        /\ new.error = "none" /\ new.stale = (expiry - Lead <= today)
    <2>1. PICK dep \in Deployment : dep = deployments[d]
      BY <1>1
    <2>a. PICK profile \in Days : profile = IF named = "new" THEN expiry ELSE dep.profile
      BY <1>2, <2>1 DEF Deployment
    <2>b. PICK linked \in BOOLEAN : linked = (dep.linked \/ named = "new")
      BY Zenon
    <2>c. PICK stale \in BOOLEAN : stale = (expiry - Lead <= today)
      <3>1. CASE expiry - Lead <= today
        <4>1. (expiry - Lead <= today) = TRUE
          BY <1>2, <1>3a, <3>1, SMT
        <4> QED
          BY <4>1, Zenon
      <3>2. CASE ~(expiry - Lead <= today)
        <4>1. (expiry - Lead <= today) = FALSE
          BY <1>2, <1>3a, <3>2, SMT
        <4> QED
          BY <4>1, Zenon
      <3> QED
        BY <3>1, <3>2
    <2>2. /\ linked = (dep.linked \/ named = "new") /\ stale = (expiry - Lead <= today)
          /\ profile = IF named = "new" THEN expiry ELSE dep.profile
      BY <2>a, <2>b, <2>c
    <2>3. new = [dep EXCEPT !.due = expiry - Lead, !.expiry = expiry, !.result = "ok",
                            !.error = "none", !.linked = linked, !.profile = profile,
                            !.lost = FALSE, !.stale = stale]
      BY <2>1, <2>2 DEF CompletedDeployment
    <2> HIDE DEF new
    <2>4. /\ new \in Deployment /\ new.due = expiry - Lead /\ new.expiry = expiry
          /\ new.error = "none" /\ new.stale = stale
      BY <1>2, <2>1, <2>3 DEF Deployment
    <2> QED
      BY <2>2, <2>4
  <1>4. deployments' = [deployments EXCEPT ![d] = new]
    BY <1>1 DEF ReportCompleted
  <1> HIDE DEF new, d
  <1>5. /\ deployments' \in [Deployments -> Deployment] /\ deployments'[d] = new
        /\ \A e \in Deployments \ {d} : deployments'[e] = deployments[e]
    BY <1>1, <1>3, <1>4
  <1>6. DueFollowsExpiry'
    BY <1>2, <1>3, <1>5 DEF BaseInv, DueFollowsExpiry
  <1> QED
    BY <1>1, <1>2, <1>3, <1>5, <1>6 DEF DeploymentsOK, d

\* After a failure, or a report that was rolled back, the cycle stays.
LEMMA FailedOK ==
    ASSUME BaseInv, NEW k \in DOMAIN jobs,
           \/ ReportRolledBack(k)
           \/ \E category \in {"network", "auth"} : ReportFailed(k, category)
    PROVE  /\ DeploymentsOK'
           /\ \A d \in Deployments : /\ deployments'[d].due = deployments[d].due
                                     /\ deployments'[d].error \in {deployments[d].error, "agent"}
                                     /\ deployments'[d].stale = deployments[d].stale
                                     /\ deployments'[d].unread = deployments[d].unread
  <1>1. Dep(k) \in Deployments /\ deployments \in [Deployments -> Deployment]
    BY KeyParts DEF BaseInv, RowsOK, StateOK
  <1>2. PICK new :
          /\ deployments' = [deployments EXCEPT ![Dep(k)] = new]
          /\ \/ new = [deployments[Dep(k)] EXCEPT !.lost = TRUE]
             \/ new = [deployments[Dep(k)] EXCEPT !.result = "failed", !.error = "agent"]
    BY <1>1 DEF ReportRolledBack, ReportFailed
  <1>3. /\ new \in Deployment /\ new.due = deployments[Dep(k)].due
        /\ new.expiry = deployments[Dep(k)].expiry
        /\ new.error \in {deployments[Dep(k)].error, "agent"}
        /\ new.stale = deployments[Dep(k)].stale /\ new.unread = deployments[Dep(k)].unread
    BY <1>1, <1>2 DEF Deployment
  <1> QED
    BY <1>1, <1>2, <1>3 DEF BaseInv, DueFollowsExpiry, DeploymentsOK

LEMMA BaseStep == BaseInv /\ [Next]_vars => BaseInv'
  <1> SUFFICES ASSUME BaseInv, [Next]_vars PROVE BaseInv'
    OBVIOUS
  <1>0. RowsOK /\ today \in 0..Horizon /\ DeploymentsOK /\ today <= today
    BY SchedulerAssumptions DEF BaseInv, StateOK, DeploymentsOK
  <1>1. CASE TickStep
    BY <1>1, BaseReads, BaseMark, BaseVisit, BaseForce, BaseDead DEF TickStep
  <1>2. CASE Restart
    BY <1>2, BaseReads
  <1>3. ASSUME NEW k \in DOMAIN jobs,
               \/ \E a \in Agents : Claim(k, a)
               \/ Heartbeat(k) \/ Reap(k) \/ LeaseRunsOut(k) \/ RetryComesDue(k)
        PROVE  BaseInv'
    <2>1. Moves(k) /\ deployments' = deployments
      BY <1>0, <1>3, AgentMoves
    <2> QED
      BY <1>0, <2>1, OtherFrame DEF Moves, DeploymentsOK, DueFollowsExpiry
  <1>4. ASSUME NEW k \in DOMAIN jobs, Report(k)
        PROVE  BaseInv'
    <2>1. CASE ReportRolledBack(k)
      BY <1>0, <2>1, FailedOK, UnchangedJobs, OtherFrame DEF ReportRolledBack
    <2>2. CASE \E category \in {"network", "auth"} : ReportFailed(k, category)
      BY <1>0, <2>2, FailedOK, ReportMoves, OtherFrame DEF Moves
    <2>3. ASSUME NEW named \in {"legacy", "same", "new"},
                 NEW expiry \in ReportedExpiries, ReportCompleted(k, named, expiry)
          PROVE  BaseInv'
      BY <1>0, <2>3, CompletedOK, ReportMoves, OtherFrame DEF Moves
    <2> QED
      BY <1>4, <2>1, <2>2, <2>3 DEF Report
  <1>5. CASE UNCHANGED vars
    BY <1>0, <1>5, UnchangedJobs, OtherFrame DEF vars, DeploymentsOK, DueFollowsExpiry
  <1> QED
    BY <1>1, <1>2, <1>3, <1>4, <1>5, BaseOthers DEF Next, UpNext

-------------------------------------------------------------------------------
(***************************************************************************)
(* What a step does beyond the invariant.                                  *)
(***************************************************************************)

\* One dead cycle is handled at a time, and the verdict on it is that of the row.
TickEffect ==
    /\ tick'.cur \in {tick.cur, {}} \/ \E s : tick'.cur = {s}
    /\ tick'.step \in {"flag", "release"} =>
         \/ tick' = tick
         \/ \E s \in tick.cur : deadCycleTerminal(s)
         \/ tick'.step = "release" /\ tick'.unread

\* Only flagAttention says "terminal"; due dates move past today, or a completed
\* refresh left its deployment due.
DeploymentEffect ==
    \A d \in Deployments :
        /\ deployments'[d].error = "terminal" /\ ~deployments'[d].unread =>
             \/ deployments[d].error = "terminal" /\ ~deployments[d].unread
             \/ \E s \in tick.cur : flagAttention(s) /\ s.dep = d
        /\ \/ /\ deployments'[d].due = deployments[d].due
              /\ deployments'[d].stale = deployments[d].stale
           \/ deployments'[d].stale \/ deployments'[d].due > today

\* A job is completed together with its cycle.
CompletionEffect ==
    \A k \in DOMAIN jobs \intersect DOMAIN jobs' :
        jobs'[k].state = "completed" =>
            \/ jobs[k].state = "completed"
            \/ deployments'[Dep(k)].stale \/ deployments'[Dep(k)].due > today

Effects == JobsStep /\ TickEffect /\ DeploymentEffect /\ CompletionEffect

\* Steps that leave rows and deployments alone, but for new rows.
LEMMA QuietEffects ==
    ASSUME BaseInv, JobsStep, deployments' = deployments, TickEffect,
           \A k \in DOMAIN jobs \intersect DOMAIN jobs' : jobs'[k] = jobs[k]
    PROVE  Effects
  BY DEF Effects, DeploymentEffect, CompletionEffect

LEMMA FlagEffects ==
    ASSUME BaseInv, NEW d \in Deployments, NEW reason \in {"unlinked", "terminal"},
           Flag(d, reason), UNCHANGED jobs, TickEffect,
           reason = "terminal" => \E s \in tick.cur : flagAttention(s) /\ s.dep = d
    PROVE  Effects
  <1>1. deployments \in [Deployments -> Deployment] /\ RowsOK
    BY DEF BaseInv, StateOK
  <1>2. \A e \in Deployments : /\ deployments'[e].due = deployments[e].due
                               /\ deployments'[e].stale = deployments[e].stale
                               /\ e # d => deployments'[e] = deployments[e]
                               /\ e = d => deployments'[e].error = reason
    BY <1>1 DEF Flag, Deployment
  <1>3. DeploymentEffect
    BY <1>2 DEF DeploymentEffect
  <1> QED
    BY <1>1, <1>3, UnchangedJobs DEF Effects, CompletionEffect

LEMMA TickEffects ==
    ASSUME BaseInv, TickStep \/ Restart
    PROVE  Effects
  <1>0. tick \in Tick /\ RowsOK /\ deployments \in [Deployments -> Deployment]
    BY DEF BaseInv, StateOK
  <1>1. CASE TickStart \/ dueDeployments \/ expiryGuard \/ TickEnd \/ Restart
    <2>1. tick'.step \in {"idle", "mark", "due", "guard"} /\ tick'.cur \in {tick.cur, {}}
      <3>1. CASE TickStart
        BY <3>1 DEF TickStart, IdleTick
      <3>2. CASE dueDeployments
        BY <1>0, <3>2 DEF dueDeployments, Tick
      <3>3. CASE expiryGuard
        BY <1>0, <3>3 DEF expiryGuard, Tick
      <3>4. CASE TickEnd \/ Restart
        BY <3>4 DEF TickEnd, Restart, IdleTick
      <3> QED
        BY <1>1, <3>1, <3>2, <3>3, <3>4
    <2>3. TickEffect
      BY <2>1 DEF TickEffect
    <2>2. deployments' = deployments /\ jobs' = jobs
      BY <1>1 DEF TickStart, dueDeployments, expiryGuard, TickEnd, Restart
    <2> QED
      BY <1>0, <2>2, <2>3, UnchangedJobs, QuietEffects
  <1>2. ASSUME NEW d \in tick.marks, markUnrefreshable(d) PROVE Effects
    <2>1. TickEffect /\ UNCHANGED jobs
      BY <1>0, <1>2 DEF TickEffect, markUnrefreshable, Tick
    <2>2. d \in Deployments
      BY <1>0 DEF Tick
    <2>3. CASE UNCHANGED deployments
      BY <1>0, <2>1, <2>3, UnchangedJobs, QuietEffects
    <2>4. CASE Flag(d, "unlinked")
      BY <2>1, <2>2, <2>4, FlagEffects
    <2> QED
      BY <1>2, <2>3, <2>4 DEF markUnrefreshable
  <1>3. ASSUME NEW s \in tick.todo, createRefreshJob(s) \/ ForceRefresh(s) PROVE Effects
    <2>1. s \in Snapshot /\ s.due <= today
      BY <1>0 DEF BaseInv, Tick, CyclesAreDue
    <2>2. JobsStep /\ \A j \in DOMAIN jobs : jobs'[j] = jobs[j]
      BY <1>0, <1>3, <2>1, KeyParts, CreateStep DEF createRefreshJob, ForceRefresh
    <2>3. TickEffect
      BY <1>0, <1>3 DEF TickEffect, createRefreshJob, ForceRefresh, Visited, Tick
    <2> QED
      BY <1>3, <2>2, <2>3, QuietEffects DEF createRefreshJob, ForceRefresh
  <1>4. ASSUME NEW s \in tick.cur, deadCycleTerminal(s) \/ deadCycleUnread(s) PROVE Effects
    <2>1. TickEffect
      BY <1>0, <1>4 DEF TickEffect, deadCycleTerminal, deadCycleUnread, Tick
    <2> QED
      BY <1>0, <1>4, <2>1, UnchangedJobs, QuietEffects DEF deadCycleTerminal, deadCycleUnread
  <1>5. ASSUME NEW s \in tick.cur, flagAttention(s) PROVE Effects
    <2>1. TickEffect
      BY <1>0, <1>5 DEF TickEffect, flagAttention, Visited, Tick
    <2>2. s.dep \in Deployments
      BY <1>0, KeyParts DEF Tick
    <2> QED
      BY <1>5, <2>1, <2>2, FlagEffects DEF flagAttention
  <1>6. ASSUME NEW s \in tick.cur, releaseDeadCycle(s) PROVE Effects
    <2>1. TickEffect
      BY <1>0, <1>6 DEF TickEffect, releaseDeadCycle, Tick
    <2>2. DeploymentEffect
      BY <1>6, ReleasedDeployments DEF DeploymentEffect
    <2>3. CompletionEffect
      BY <1>6, ReleaseStep DEF CompletionEffect
    <2> QED
      BY <1>6, <2>1, <2>2, <2>3, ReleaseStep DEF Effects
  <1>7. ASSUME NEW s \in tick.cur, RecreateRefreshJob(s) PROVE Effects
    <2>1. s \in Snapshot /\ s.due <= today
      BY <1>0 DEF BaseInv, Tick, CyclesAreDue
    <2>2. JobsStep /\ \A j \in DOMAIN jobs : jobs'[j] = jobs[j]
      BY <1>0, <1>7, <2>1, KeyParts, CreateStep DEF RecreateRefreshJob
    <2>3. TickEffect
      BY <1>0, <1>7 DEF TickEffect, RecreateRefreshJob, Visited, Tick
    <2> QED
      BY <1>7, <2>2, <2>3, QuietEffects DEF RecreateRefreshJob
  <1> QED
    BY <1>1, <1>2, <1>3, <1>4, <1>5, <1>6, <1>7 DEF TickStep

LEMMA StepEffects ==
    ASSUME BaseInv, [Next]_vars
    PROVE  Effects
  <1>0. RowsOK /\ today \in Nat /\ deployments \in [Deployments -> Deployment]
    BY SchedulerAssumptions DEF BaseInv, StateOK
  <1>1. tick' = tick => TickEffect
    BY DEF TickEffect
  <1>2. ASSUME NEW d \in Deployments, NEW n \in 1..MaxManual, ManualRefresh(d, n)
        PROVE  Effects
    <2>1. JobsStep /\ \A j \in DOMAIN jobs : jobs'[j] = jobs[j]
      BY <1>0, <1>2, KeyParts, CreateStep DEF ManualRefresh
    <2> QED
      BY <1>1, <1>2, <2>1, QuietEffects DEF ManualRefresh
  <1>3. CASE NextDay \/ UNCHANGED vars
    BY <1>0, <1>1, <1>3, UnchangedJobs, QuietEffects DEF NextDay, vars
  <1>4. ASSUME NEW d \in Deployments, PruneSignedArtifacts(d) PROVE Effects
    <2>1. DeploymentEffect
      BY <1>0, <1>4 DEF PruneSignedArtifacts, DeploymentEffect, Deployment
    <2> QED
      BY <1>0, <1>1, <1>4, <2>1, UnchangedJobs DEF PruneSignedArtifacts, Effects, CompletionEffect
  <1>5. ASSUME NEW k \in DOMAIN jobs,
               \/ \E a \in Agents : Claim(k, a)
               \/ Heartbeat(k) \/ Reap(k) \/ LeaseRunsOut(k) \/ RetryComesDue(k)
        PROVE  Effects
    <2>1. Moves(k) /\ jobs'[k].state # "completed" /\ deployments' = deployments
      BY <1>0, <1>5, AgentMoves
    <2> QED
      BY <1>1, <2>1 DEF Moves, Effects, DeploymentEffect, CompletionEffect
  <1>6. ASSUME NEW k \in DOMAIN jobs, ReportRolledBack(k) PROVE Effects
    <2>1. DeploymentEffect
      BY <1>6, FailedOK DEF DeploymentEffect
    <2> QED
      BY <1>0, <1>1, <1>6, <2>1, UnchangedJobs DEF ReportRolledBack, Effects, CompletionEffect
  <1>7. ASSUME NEW k \in DOMAIN jobs, NEW category \in {"network", "auth"},
               ReportFailed(k, category)
        PROVE  Effects
    <2>1. DeploymentEffect
      BY <1>7, FailedOK DEF DeploymentEffect
    <2>2. Moves(k)
      BY <1>0, <1>7, ReportMoves
    <2>3. jobs'[k].state = "failed"
      <3>1. RowOK(jobs[k]) /\ jobs' = [jobs EXCEPT ![k] = UpdatedRow(jobs[k], "failed", category)]
        BY <1>0, <1>7 DEF ReportFailed, SetRow, RowsOK
      <3> QED
        BY <3>1 DEF UpdatedRow, RowOK, Row
    <2> QED
      BY <1>1, <2>1, <2>2, <2>3 DEF Moves, Effects, CompletionEffect
  <1>8. ASSUME NEW k \in DOMAIN jobs, NEW named \in {"legacy", "same", "new"},
               NEW expiry \in ReportedExpiries, ReportCompleted(k, named, expiry)
        PROVE  Effects
    <2>0. /\ Dep(k) \in Deployments /\ deployments' \in [Deployments -> Deployment]
          /\ deployments'[Dep(k)].stale = (deployments'[Dep(k)].due <= today)
      BY <1>8, CompletedOK DEF DeploymentsOK
    <2>1. deployments'[Dep(k)].stale \/ deployments'[Dep(k)].due > today
      <3>1. deployments'[Dep(k)].due \in Nat
        BY <2>0, SchedulerAssumptions DEF Deployment, Days
      <3>2. CASE deployments'[Dep(k)].due <= today
        BY <2>0, <3>2
      <3>3. CASE ~(deployments'[Dep(k)].due <= today)
        BY <1>0, <3>1, <3>3
      <3> QED
        BY <3>2, <3>3
    <2>2. DeploymentEffect
      BY <1>8, <2>1, CompletedOK DEF DeploymentEffect
    <2>3. Moves(k)
      BY <1>0, <1>8, ReportMoves
    <2> QED
      BY <1>1, <2>1, <2>2, <2>3 DEF Moves, Effects, CompletionEffect
  <1> QED
    BY <1>2, <1>3, <1>4, <1>5, <1>6, <1>7, <1>8, TickEffects DEF Next, UpNext, Report

-------------------------------------------------------------------------------
(***************************************************************************)
(* The theorems.                                                           *)
(***************************************************************************)

LEMMA BaseInvariant == Spec => []BaseInv
  BY BaseInit, BaseStep, PTL DEF Spec

\* Rows the tick removes had used up their attempts, if the tick could read them:
\* nothing happens to a dead row between the verdict on it and its deletion.
LEMMA RemovedAreExhausted ==
    ASSUME BaseInv, VerdictStands, Removed, NEW k \in DOMAIN jobs \ DOMAIN jobs'
    PROVE  /\ jobs[k].state = "dead"
           /\ \/ jobs[k].deadReason = "max_attempts"
              \/ tick.unread /\ deployments'[Dep(k)].unread
  BY DEF Removed, VerdictStands

LEMMA VerdictStep ==
    ASSUME BaseInv, BaseInv', VerdictInv, Effects
    PROVE  VerdictInv'
  <1>0. VerdictStands /\ AttentionIsJustified /\ JobsStep /\ TickEffect /\ DeploymentEffect
    BY DEF VerdictInv, Effects
  <1>1. VerdictStands'
    <2>1. \A s, t \in tick'.cur : s = t
      BY <1>0 DEF VerdictStands, TickEffect
    <2>2. ASSUME tick'.step \in {"flag", "release"}, tick' = tick, NEW s \in tick'.cur
          PROVE  /\ tick'.step = "flag" => jobs'[CycleKey(s)].deadReason = "terminal_error"
                 /\ tick'.step = "release" /\ ~tick'.unread =>
                        jobs'[CycleKey(s)].deadReason = "max_attempts"
      <3>1. CycleKey(s) \in DOMAIN jobs /\ jobs[CycleKey(s)].state = "dead"
        BY <2>2 DEF BaseInv, CycleStaysDead, Stored
      <3>2. CycleKey(s) \in DOMAIN jobs'
        BY <2>2 DEF BaseInv, CycleStaysDead, Stored
      <3>3. jobs'[CycleKey(s)] = jobs[CycleKey(s)]
        BY <1>0, <3>1, <3>2 DEF JobsStep, Settled
      <3> QED
        BY <1>0, <2>2, <3>3 DEF VerdictStands
    <2>3. ASSUME NEW t \in tick.cur, deadCycleTerminal(t), NEW s \in tick'.cur
          PROVE  /\ tick'.step = "flag" => jobs'[CycleKey(s)].deadReason = "terminal_error"
                 /\ tick'.step = "release" /\ ~tick'.unread =>
                        jobs'[CycleKey(s)].deadReason = "max_attempts"
      <3>2. /\ tick'.cur = tick.cur
            /\ tick'.step = IF DiedTerminally(CycleKey(t)) THEN "flag" ELSE "release"
            /\ tick.step = "judge" /\ jobs' = jobs
        BY <2>3 DEF deadCycleTerminal, BaseInv, StateOK, Tick
      <3>3. s = t
        BY <1>0, <2>3, <3>2 DEF VerdictStands
      <3>4. Stored(CycleKey(t)) /\ jobs[CycleKey(t)].state = "dead"
        BY <3>2, <2>3 DEF BaseInv, CycleStaysDead
      <3>5. DiedTerminally(CycleKey(t)) <=> jobs[CycleKey(t)].deadReason = "terminal_error"
        BY <3>4 DEF DiedTerminally
      <3>6. jobs[CycleKey(t)].deadReason \in {"terminal_error", "max_attempts"}
        BY <3>4 DEF BaseInv, RowsOK, RowOK, Stored
      <3> QED
        BY <3>2, <3>3, <3>5, <3>6
    <2> QED
      BY <1>0, <2>1, <2>2, <2>3 DEF VerdictStands, TickEffect
  <1>2. ASSUME NEW d \in Deployments, deployments'[d].error = "terminal", ~deployments'[d].unread
        PROVE  \E k \in DOMAIN jobs' : /\ Dep(k) = d /\ jobs'[k].state = "dead"
                                       /\ jobs'[k].deadReason = "terminal_error"
    <2>1. PICK k \in DOMAIN jobs : /\ Dep(k) = d /\ jobs[k].state = "dead"
                                   /\ jobs[k].deadReason = "terminal_error"
      <3>1. CASE deployments[d].error = "terminal" /\ ~deployments[d].unread
        BY <1>0, <3>1 DEF AttentionIsJustified
      <3>2. ASSUME NEW s \in tick.cur, flagAttention(s), s.dep = d
            PROVE  \E k \in DOMAIN jobs : /\ Dep(k) = d /\ jobs[k].state = "dead"
                                          /\ jobs[k].deadReason = "terminal_error"
        <4>1. tick.step = "flag" /\ s \in Snapshot
          BY <3>2 DEF flagAttention, BaseInv, StateOK, Tick
        <4>2. /\ CycleKey(s) \in DOMAIN jobs /\ jobs[CycleKey(s)].state = "dead"
              /\ jobs[CycleKey(s)].deadReason = "terminal_error" /\ Dep(CycleKey(s)) = d
          BY <1>0, <3>2, <4>1, KeyParts DEF BaseInv, CycleStaysDead, Stored, VerdictStands
        <4> QED
          BY <4>2
      <3> QED
        BY <1>0, <1>2, <3>1, <3>2 DEF DeploymentEffect
    <2>2. k \in DOMAIN jobs'
      BY <1>0, <1>2, <2>1, RemovedAreExhausted DEF JobsStep
    <2>3. jobs'[k] = jobs[k]
      BY <1>0, <2>1, <2>2 DEF JobsStep, Settled
    <2> QED
      BY <2>1, <2>2, <2>3
  <1>3. AttentionIsJustified'
    BY <1>2 DEF AttentionIsJustified
  <1> QED
    BY <1>1, <1>3 DEF VerdictInv

LEMMA VerdictInvariant ==
    Spec => [](BaseInv /\ VerdictInv)
  <1>1. Init => BaseInv /\ VerdictInv
    BY BaseInit DEF Init, VerdictInv, VerdictStands, AttentionIsJustified, IdleTick
  <1>2. BaseInv /\ VerdictInv /\ [Next]_vars => (BaseInv /\ VerdictInv)'
    BY BaseStep, StepEffects, VerdictStep
  <1> QED
    BY <1>1, <1>2, PTL DEF Spec

\* Columns, keys and the tick of the scheduler keep their types through every
\* interleaving of a tick with agents, reaper, operator, retention and restarts.
THEOREM SchedulerTypes == Spec => []TypeOK
  <1>1. NoRow.state = "absent"
    BY DEF NoRow
  <1>2. BaseInv => TypeOK
    BY <1>1 DEF BaseInv, RowsOK, RowOK, StateOK, TypeOK
  <1> QED
    BY <1>2, BaseInvariant, PTL

\* The scheduler deletes a job row only when it is dead for want of attempts, or
\* dead and the SELECT of deadCycleTerminal for this very row failed, however much
\* time passes between createRefreshJob, deadCycleTerminal and releaseDeadCycle.
THEOREM OnlyExhaustedAreDeleted ==
    Spec => OnlyExhaustedCyclesRestart
  <1>1. BaseInv /\ VerdictInv /\ [Next]_vars =>
          [\A k \in DOMAIN jobs :
             k \notin DOMAIN jobs' =>
                /\ jobs[k].state = "dead"
                /\ jobs[k].deadReason = "max_attempts" \/ tick.unread]_vars
    BY StepEffects, RemovedAreExhausted DEF Effects, JobsStep, VerdictInv
  <1> QED
    BY <1>1, VerdictInvariant, PTL DEF Spec, OnlyExhaustedCyclesRestart

\* Who is told that a refresh failed terminally finds the dead job in the table
\* (flagAttention): no later step of any tick, agent or reaper takes it away but
\* the release of the cycle by a tick whose deadCycleTerminal could not read it.
THEOREM FlagsAreJustified ==
    Spec => []AttentionIsJustified
  BY VerdictInvariant, PTL DEF VerdictInv

LEMMA CompletedStep ==
    ASSUME BaseInv, BaseInv', CompletedArePast, Effects
    PROVE  CompletedArePast'
  <1> SUFFICES ASSUME NEW k \in DOMAIN jobs', k[1] = "refresh", jobs'[k].state = "completed",
                      ~deployments'[Dep(k)].stale
               PROVE  k[3] < deployments'[Dep(k)].due
    BY DEF CompletedArePast, Dep
  <1>1. k \in DOMAIN jobs
    BY DEF Effects, JobsStep, Added
  <1>2. k \in JobKeys /\ Dep(k) \in Deployments
    BY <1>1, KeyParts DEF BaseInv, RowsOK
  <1>3. /\ k[3] <= today /\ k[3] \in Nat /\ today \in Nat
        /\ deployments'[Dep(k)].due \in Nat /\ deployments[Dep(k)].due \in Nat
    <2>1. k[3] \in Nat
      BY <1>2, KeyParts, SchedulerAssumptions DEF CycleKey, Snapshot, Days
    <2> QED
      BY <1>1, <1>2, <2>1, SchedulerAssumptions
         DEF BaseInv, CyclesAreDue, StateOK, Deployment, Days
  <1>4. \/ deployments'[Dep(k)].due > today
        \/ /\ jobs[k].state = "completed" /\ ~deployments[Dep(k)].stale
           /\ deployments'[Dep(k)].due = deployments[Dep(k)].due
    BY <1>1, <1>2 DEF Effects, CompletionEffect, DeploymentEffect
  <1> QED
    BY <1>1, <1>3, <1>4 DEF CompletedArePast

\* A refresh that completed advances its deployment past the cycle: the due date
\* stays the lead before the expiry, and no deployment is due under a key that a
\* completed job holds (createRefreshJob, applyRefreshOutcome), unless the expiry
\* that was reported last left it due.
THEOREM CompletedCyclesAreOver ==
    Spec => []CompletedCycleIsOver
  <1>1. Init => BaseInv /\ CompletedArePast
    BY BaseInit DEF Init, CompletedArePast
  <1>2. BaseInv /\ CompletedArePast /\ [Next]_vars => (BaseInv /\ CompletedArePast)'
    BY BaseStep, StepEffects, CompletedStep
  <1>3. BaseInv /\ CompletedArePast => CompletedCycleIsOver
    <2> SUFFICES ASSUME BaseInv, CompletedArePast, NEW d \in Deployments
                 PROVE  /\ deployments[d].due = deployments[d].expiry - Lead
                        /\ CompletedHoldsCycle(d) /\ ~deployments[d].stale => ~Due(d)
      BY DEF CompletedCycleIsOver
    <2>1. /\ deployments[d].due \in Nat /\ deployments[d].expiry \in Nat /\ Lead \in Nat
          /\ deployments[d].due + Lead = deployments[d].expiry
      BY SchedulerAssumptions DEF BaseInv, StateOK, Deployment, Days, DueFollowsExpiry
    <2>2. /\ CycleKey(Take(d))[1] = "refresh" /\ CycleKey(Take(d))[3] = deployments[d].due
          /\ Dep(CycleKey(Take(d))) = d
      BY DEF CycleKey, Take, Dep
    <2> QED
      BY <2>1, <2>2 DEF CompletedArePast, CompletedHoldsCycle, Stored
  <1> QED
    BY <1>1, <1>2, <1>3, PTL DEF Spec
===============================================================================
