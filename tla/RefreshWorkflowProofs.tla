------------------------- MODULE RefreshWorkflowProofs -------------------------
(***************************************************************************)
(* One refresh with its children, for every budget, every number of        *)
(* repeated uploads and every interleaving of device service, signing      *)
(* worker, reaper and crashes.                                             *)
(***************************************************************************)
EXTENDS RefreshWorkflow, TLAPS

\* What every statement keeps true of a row: a lease is for active rows, a
\* delay for pending ones.
RowOK(row) ==
    /\ row \in Row
    /\ row.lease # "none" => row.state \in Active
    /\ row.retryAt = "later" => row.state = "pending"

JobsOK == jobs \in [JobIds -> Row] /\ \A k \in JobIds : RowOK(jobs[k])

\* The children are the sign jobs that exist, each one once.
ChildrenOK ==
    /\ children \in Seq(Sources)
    /\ \A i, j \in DOMAIN children : children[i] = children[j] => i = j
    /\ \A s \in Sources :
         jobs[Sign(s)].state # "absent" <=> \E i \in DOMAIN children : children[i] = s

\* Every derivative has its install job.
DerivedOK ==
    /\ derived \in Seq(Sources) /\ Len(derived) <= MaxSigned
    /\ \A d \in Derivatives : jobs[Install(d)].state = "absent" <=> d > Len(derived)

\* A completed sign job names a derivative.
OutputOK ==
    /\ output \in [Sources -> Derivatives \union {None}]
    /\ \A s \in Sources : /\ output[s] <= Len(derived)
                          /\ jobs[Sign(s)].state = "completed" => output[s] # None

\* What the device service has learned by the time it is at a step.
ServiceOK ==
    /\ service \in Service
    /\ service.step = "await" => service.source # None
    /\ service.step \in {"await", "ensure"} => children # <<>>
    /\ service.step \in {"ensure", "install", "installed", "complete"} => service.signed # None
    /\ service.step \in {"install", "installed", "complete", "polled", "polledInstalled"} =>
         service.install # None

WorkerOK ==
    /\ worker \in Worker
    /\ worker.step # "idle" => worker.source # None
    /\ worker.signed <= Len(derived)
    /\ worker.step = "report" => worker.signed # None

DeviceOK ==
    /\ device \in installed \union {None} /\ installed \subseteq Derivatives
    /\ record \in [signed: Derivatives \union {None}, install: Derivatives \union {None}]

Inv == JobsOK /\ ChildrenOK /\ DerivedOK /\ OutputOK /\ ServiceOK /\ WorkerOK /\ DeviceOK

-------------------------------------------------------------------------------
(***************************************************************************)
(* Job ids, and rows after each statement.                                 *)
(***************************************************************************)

\* The jobs of the workflow are told apart by their ids.
LEMMA Ids ==
    /\ Refresh \in JobIds /\ Type(Refresh) = "refresh"
    /\ \A s \in Sources : /\ Sign(s) \in JobIds /\ Sign(s) # Refresh /\ Type(Sign(s)) = "sign"
                          /\ \A t \in Sources : Sign(s) = Sign(t) => s = t
    /\ \A d \in Derivatives : /\ Install(d) \in JobIds /\ Install(d) # Refresh
                              /\ Type(Install(d)) = "install"
                              /\ \A e \in Derivatives : Install(d) = Install(e) => d = e
                              /\ \A s \in Sources : Install(d) # Sign(s)
    /\ \A k \in JobIds : \/ k = Refresh \/ \E s \in Sources : k = Sign(s)
                         \/ \E d \in Derivatives : k = Install(d)
  BY DEF JobIds, Refresh, Sign, Install, Type

LEMMA Numbers ==
    /\ None \notin Derivatives /\ None \notin Sources /\ Derivatives \subseteq Nat
    /\ None \in Nat /\ Original \in Sources /\ Newer \in Sources
  BY WorkflowAssumptions DEF None, Derivatives, Sources, Original, Newer

LEMMA CreatedRowOK ==
    /\ RowOK(CreatedRow("now")) /\ CreatedRow("now").state = "pending"
    /\ Claimable(CreatedRow("now")) /\ CreatedRow("now").category = ""
  BY DEF RowOK, Row, CreatedRow, NoRow, Categories, States, Claimable

LEMMA NoRowOK == RowOK(NoRow) /\ NoRow.state = "absent"
  BY DEF RowOK, Row, NoRow, Categories

LEMMA ClaimedRowOK ==
    ASSUME NEW row, RowOK(row), NEW a \in Agents
    PROVE  LET new == ClaimedRow(row, a)
           IN  /\ RowOK(new) /\ new.state = "claimed"
               /\ new.category = row.category /\ new.deadReason = row.deadReason
  <1> DEFINE new == ClaimedRow(row, a)
  <1>1. row \in Row /\ row.attempt + 1 \in Nat
    BY DEF RowOK, Row
  <1>2. /\ new \in Row /\ new.state = "claimed" /\ new.retryAt = "now"
        /\ new.category = row.category /\ new.deadReason = row.deadReason
    BY <1>1 DEF Row, ClaimedRow, States
  <1> HIDE DEF new
  <1>3. RowOK(new)
    BY <1>2 DEF RowOK, Active
  <1> QED
    BY <1>2, <1>3 DEF new

LEMMA RequeuedRowOK ==
    ASSUME NEW row, RowOK(row)
    PROVE  RowOK(RequeuedRow(row))
  BY DEF RowOK, Row, RequeuedRow, States

\* A report of the holder.
LEMMA UpdatedRowOK ==
    ASSUME NEW row, RowOK(row), row.state \in Active,
           NEW to \in {"completed", "failed"}, NEW category \in Categories
    PROVE  LET new == UpdatedRow(row, to, category)
           IN  /\ RowOK(new) /\ new.state = to /\ new.deadReason = row.deadReason
               /\ new.category = UpdatedCategory(row, to, category)
  <1>1. UpdatedCategory(row, to, category) \in Categories
    BY DEF UpdatedCategory, RowOK, Row, Categories
  <1> QED
    BY <1>1 DEF RowOK, Row, UpdatedRow, States, Active

\* The reaper, on a row whose lease may have lapsed.
LEMMA ReapedRowOK ==
    ASSUME NEW row, RowOK(row), NEW type, NEW n, Reapable(Lapsed(row), type)
    PROVE  LET new == ReapedRow(Lapsed(row), n)
           IN  /\ RowOK(new) /\ new.state \in {"dead", "pending"}
               /\ new.category = row.category
               /\ row.state \in Active \union {"failed"}
               /\ FailedTerminally(row) => new.state = "dead"
               /\ new.deadReason = "terminal_error" =>
                    \/ row.deadReason = "terminal_error"
                    \/ new.state = "dead" /\ new.category \in terminalErrorCategories
  <1> DEFINE old == Lapsed(row)
  <1>1. /\ RowOK(old) /\ old.state = row.state /\ old.category = row.category
        /\ old.deadReason = row.deadReason
    BY DEF Lapsed, RowOK, Row, Active
  <1>2. row.state \in Active \union {"failed"}
    BY <1>1 DEF Reapable
  <1> HIDE DEF old
  <1>3. ASSUME NEW reason \in {"terminal_error", "max_attempts"}
        PROVE  /\ RowOK(DeadRow(old, reason)) /\ DeadRow(old, reason).state = "dead"
               /\ DeadRow(old, reason).category = old.category
               /\ DeadRow(old, reason).deadReason = reason
    BY <1>1 DEF RowOK, Row, DeadRow, States, Active
  <1>4. LET new == [RequeuedRow(old) EXCEPT !.retryAt = "later"]
        IN  /\ RowOK(new) /\ new.state = "pending" /\ new.category = old.category
            /\ new.deadReason = old.deadReason
    BY <1>1 DEF RowOK, Row, RequeuedRow, States
  <1>5. FailedTerminally(old) <=> FailedTerminally(row)
    BY <1>1 DEF FailedTerminally
  <1>6. CASE FailedTerminally(row)
    <2>1. ReapedRow(old, n) = DeadRow(old, "terminal_error")
      BY <1>5, <1>6 DEF ReapedRow
    <2> QED
      BY <1>1, <1>2, <1>3, <1>6, <2>1 DEF old, FailedTerminally
  <1>7. CASE ~FailedTerminally(row)
    BY <1>1, <1>2, <1>3, <1>4, <1>5, <1>7 DEF ReapedRow, old
  <1> QED
    BY <1>6, <1>7

\* Reported, on the rows of a map that is well-formed.
RowsOK(rows) == rows \in [JobIds -> Row] /\ \A k \in JobIds : RowOK(rows[k])

LEMMA ReportedOK ==
    ASSUME NEW rows, RowsOK(rows), NEW a \in Agents, NEW k \in JobIds,
           NEW to \in {"completed", "failed"}, NEW category \in Categories
    PROVE  LET new == Reported(rows, a, k, to, category)
           IN  /\ RowsOK(new)
               /\ \A j \in JobIds \ {k} : new[j] = rows[j]
               /\ Holds(rows, a, k) =>
                    /\ new[k].state = to /\ new[k].deadReason = rows[k].deadReason
                    /\ new[k].category = UpdatedCategory(rows[k], to, category)
               /\ ~Holds(rows, a, k) => new = rows
  <1>1. CASE ~Holds(rows, a, k)
    BY <1>1 DEF Reported
  <1>2. CASE Holds(rows, a, k)
    <2> DEFINE row == UpdatedRow(rows[k], to, category)
    <2>1. /\ RowOK(row) /\ row.state = to /\ row.deadReason = rows[k].deadReason
          /\ row.category = UpdatedCategory(rows[k], to, category)
      BY <1>2, UpdatedRowOK DEF Holds, RowsOK
    <2>2. Reported(rows, a, k, to, category) = [rows EXCEPT ![k] = row]
      BY <1>2 DEF Reported
    <2> HIDE DEF row
    <2> QED
      BY <1>2, <2>1, <2>2 DEF RowsOK, RowOK
  <1> QED
    BY <1>1, <1>2

\* A step that writes one row.
LEMMA OneRow ==
    ASSUME JobsOK, NEW k \in JobIds, NEW row, RowOK(row), jobs' = [jobs EXCEPT ![k] = row]
    PROVE  /\ JobsOK' /\ jobs'[k] = row
           /\ \A j \in JobIds \ {k} : jobs'[j] = jobs[j]
  BY DEF JobsOK, RowOK

-------------------------------------------------------------------------------
(***************************************************************************)
(* What a step may do, apart from keeping Inv.                             *)
(***************************************************************************)

\* A failure that retrying cannot fix.
Condemned(row) == row.state \in {"failed", "dead"} /\ row.category \in terminalErrorCategories

\* A completed row is final, a terminal failure of a sign or refresh job stays
\* one, and only such a failure gives a row its dead_reason terminal_error.
LegalRow(k, old, new) ==
    /\ old.state = "completed" => new = old
    /\ Type(k) # "install" /\ Condemned(old) => Condemned(new)
    /\ new.deadReason = "terminal_error" => old.deadReason = "terminal_error" \/ Condemned(new)

JobsStep == JobsOK' /\ \A k \in JobIds : LegalRow(k, jobs[k], jobs'[k])

\* No job is created, and none removed.
SameJobs == \A k \in JobIds : jobs'[k].state = "absent" <=> jobs[k].state = "absent"

Completes(k) == jobs'[k].state = "completed" /\ jobs[k].state # "completed"

\* A sign job is completed by the worker that signed, which is done with it.
SignsDone ==
    \A s \in Sources :
        /\ Completes(Sign(s)) => /\ worker.step = "report" /\ worker.source = s
                                 /\ worker'.step = "idle"
        /\ jobs[Sign(s)].state = "completed" => output'[s] = output[s]

\* A derivative comes from the source the worker has in hand.
DerivedGrows ==
    \/ derived' = derived
    \/ worker.step = "publish" /\ derived' = Append(derived, worker.source)

\* The worker goes on with its job, is done, or takes up one that is claimable.
WorkerMoves ==
    worker'.step # "idle" =>
        \/ worker.step # "idle" /\ worker'.source = worker.source
        \/ jobs'[Sign(worker'.source)].state = "claimed"

\* An install job is completed by the service that ran it.
InstallsDone ==
    \A d \in Derivatives :
        Completes(Install(d)) => /\ service.step \in {"installed", "polledInstalled"}
                                 /\ service.install = d

\* The refresh is completed with a record, which is final.
RefreshDone ==
    /\ Completes(Refresh) =>
         /\ service.step = "complete"
         /\ record' = [signed |-> service.signed, install |-> service.install]
    /\ jobs[Refresh].state = "completed" => record' = record

Cause == \E s \in Sources : Condemned(jobs[Sign(s)])

\* The refresh takes over a terminal category from a sign job.
CategoryHasCause ==
    jobs'[Refresh].category \in terminalErrorCategories =>
        jobs[Refresh].category \in terminalErrorCategories \/ Cause

Effects ==
    /\ JobsStep /\ SignsDone /\ DerivedGrows /\ WorkerMoves
    /\ InstallsDone /\ RefreshDone /\ CategoryHasCause
    /\ installed \subseteq installed'

-------------------------------------------------------------------------------
(***************************************************************************)
(* The statements are legal.                                               *)
(***************************************************************************)
LEMMA SameRowLegal == ASSUME NEW k, NEW row PROVE LegalRow(k, row, row)
  BY DEF LegalRow

LEMMA CreateLegal ==
    ASSUME NEW k, NEW row, row.state = "absent"
    PROVE  LegalRow(k, row, CreatedRow("now"))
  BY DEF LegalRow, CreatedRow, NoRow, Condemned

LEMMA ClaimLegal ==
    ASSUME NEW k, NEW row, RowOK(row), NEW a \in Agents, row.state = "pending"
    PROVE  LegalRow(k, row, ClaimedRow(row, a))
  BY ClaimedRowOK DEF LegalRow, Condemned

LEMMA ReapLegal ==
    ASSUME NEW k, NEW row, RowOK(row), NEW n, Reapable(Lapsed(row), Type(k))
    PROVE  LegalRow(k, row, ReapedRow(Lapsed(row), n))
  BY ReapedRowOK DEF LegalRow, Condemned, FailedTerminally, Active

LEMMA OneRowStep ==
    ASSUME JobsOK, NEW k \in JobIds, NEW row, RowOK(row), LegalRow(k, jobs[k], row),
           jobs' = [jobs EXCEPT ![k] = row]
    PROVE  /\ JobsStep /\ jobs'[k] = row
           /\ \A j \in JobIds \ {k} : jobs'[j] = jobs[j]
  <1>1. JobsOK' /\ jobs'[k] = row /\ \A j \in JobIds \ {k} : jobs'[j] = jobs[j]
    BY OneRow
  <1> QED
    BY <1>1, SameRowLegal DEF JobsStep

LEMMA SameJobsStep == JobsOK /\ UNCHANGED jobs => JobsStep /\ SameJobs
  BY SameRowLegal DEF JobsOK, JobsStep, SameJobs, RowOK

\* Rows that a report makes of the stored ones: none created, none removed.
FromJobs(rows) ==
    /\ RowsOK(rows)
    /\ \A k \in JobIds : /\ LegalRow(k, jobs[k], rows[k])
                         /\ rows[k].state = "absent" <=> jobs[k].state = "absent"

\* A report, accepted or refused.
LEMMA ReportLegal ==
    ASSUME JobsOK, NEW a \in Agents, NEW k \in JobIds, NEW to \in {"completed", "failed"},
           NEW category \in Categories
    PROVE  LET rows == Reported(jobs, a, k, to, category)
           IN  /\ FromJobs(rows)
               /\ \A j \in JobIds \ {k} : rows[j] = jobs[j]
               /\ Holds(jobs, a, k) =>
                    /\ rows[k].state = to
                    /\ rows[k].category = UpdatedCategory(jobs[k], to, category)
               /\ ~Holds(jobs, a, k) => rows = jobs
  <1> DEFINE rows == Reported(jobs, a, k, to, category)
  <1>1. /\ RowsOK(rows)
        /\ \A j \in JobIds \ {k} : rows[j] = jobs[j]
        /\ Holds(jobs, a, k) =>
             /\ rows[k].state = to /\ rows[k].deadReason = jobs[k].deadReason
             /\ rows[k].category = UpdatedCategory(jobs[k], to, category)
        /\ ~Holds(jobs, a, k) => rows = jobs
    BY ReportedOK DEF JobsOK, RowsOK
  <1> HIDE DEF rows
  <1>2. /\ LegalRow(k, jobs[k], rows[k])
        /\ rows[k].state = "absent" <=> jobs[k].state = "absent"
    BY <1>1, SameRowLegal DEF Holds, Active, LegalRow, Condemned
  <1>3. FromJobs(rows)
    BY <1>1, <1>2, SameRowLegal DEF FromJobs
  <1> QED
    BY <1>1, <1>3 DEF rows

LEMMA FromJobsStep ==
    ASSUME FromJobs(jobs')
    PROVE  JobsStep /\ SameJobs
  BY DEF FromJobs, RowsOK, JobsStep, JobsOK, SameJobs, RowOK

-------------------------------------------------------------------------------
(***************************************************************************)
(* Frames: a step of the reaper, of the device service, of the worker.     *)
(***************************************************************************)
LEMMA ServiceFrame ==
    ASSUME Inv, JobsStep, SameJobs, \A s \in Sources : ~Completes(Sign(s)),
           InstallsDone, RefreshDone, CategoryHasCause,
           UNCHANGED <<children, derived, output, worker>>,
           ServiceOK', DeviceOK', installed \subseteq installed'
    PROVE  Inv' /\ Effects
  <1>1. JobsOK'
    BY DEF JobsStep
  <1>2. ChildrenOK'
    BY Ids DEF Inv, ChildrenOK, SameJobs
  <1>3. DerivedOK'
    BY Ids DEF Inv, DerivedOK, SameJobs
  <1>4. OutputOK'
    BY DEF Inv, OutputOK, Completes
  <1>5. WorkerOK'
    BY DEF Inv, WorkerOK
  <1>6. SignsDone /\ DerivedGrows /\ WorkerMoves
    BY DEF SignsDone, DerivedGrows, WorkerMoves
  <1> QED
    BY <1>1, <1>2, <1>3, <1>4, <1>5, <1>6 DEF Inv, Effects

LEMMA WorkerFrame ==
    ASSUME Inv, JobsStep, ChildrenOK', DerivedOK', OutputOK', WorkerOK',
           jobs'[Refresh] = jobs[Refresh], \A d \in Derivatives : ~Completes(Install(d)),
           children' = children,
           SignsDone, DerivedGrows, WorkerMoves,
           UNCHANGED <<service, device, installed, record>>
    PROVE  Inv' /\ Effects
  <1>1. ServiceOK' /\ DeviceOK'
    BY DEF Inv, ServiceOK, DeviceOK
  <1>2. InstallsDone /\ RefreshDone /\ CategoryHasCause
    BY DEF InstallsDone, RefreshDone, CategoryHasCause, Completes
  <1> QED
    BY <1>1, <1>2 DEF Inv, Effects, JobsStep

LEMMA WorkflowInit == Init => Inv
  <1> SUFFICES ASSUME Init PROVE Inv
    OBVIOUS
  <1>1. /\ jobs \in [JobIds -> Row] /\ \A k \in JobIds : RowOK(jobs[k])
        /\ \A k \in JobIds \ {Refresh} : jobs[k].state = "absent"
    BY CreatedRowOK, NoRowOK DEF Init, RowOK
  <1>2. JobsOK
    BY <1>1 DEF JobsOK
  <1>3. ChildrenOK
    BY <1>1, Ids DEF Init, ChildrenOK
  <1>4. DerivedOK /\ OutputOK
    <2>1. derived = <<>> /\ Len(derived) = 0 /\ derived \in Seq(Sources)
      BY DEF Init
    <2>2. DerivedOK
      BY <1>1, <2>1, Ids, WorkflowAssumptions DEF DerivedOK, Derivatives
    <2>3. OutputOK
      BY <1>1, <2>1, Ids, Numbers DEF Init, OutputOK, None
    <2> QED
      BY <2>2, <2>3
  <1>5. ServiceOK /\ WorkerOK /\ DeviceOK
    BY Numbers DEF Init, ServiceOK, WorkerOK, DeviceOK, Service, IdleService, Worker, IdleWorker, None
  <1> QED
    BY <1>2, <1>3, <1>4, <1>5 DEF Inv

\* _fail_refresh, after a report on an install job.
LEMMA FailStep ==
    ASSUME Inv, NEW rows, FromJobs(rows), NEW category \in Categories,
           rows[Refresh] = jobs[Refresh],
           \A s \in Sources : rows[Sign(s)] = jobs[Sign(s)],
           \A d \in Derivatives :
              rows[Install(d)].state = "completed" /\ jobs[Install(d)].state # "completed" =>
                service.step \in {"installed", "polledInstalled"} /\ service.install = d,
           category \in terminalErrorCategories => Cause,
           FailRefresh(rows, category),
           UNCHANGED <<children, derived, output, worker, record>>,
           DeviceOK', installed \subseteq installed'
    PROVE  Inv' /\ Effects
  <1>1. /\ RowsOK(jobs')
        /\ \A k \in JobIds \ {Refresh} : jobs'[k] = rows[k]
        /\ Holds(rows, DeviceService, Refresh) =>
             /\ jobs'[Refresh].state = "failed"
             /\ jobs'[Refresh].deadReason = jobs[Refresh].deadReason
             /\ jobs'[Refresh].category = UpdatedCategory(jobs[Refresh], "failed", category)
        /\ ~Holds(rows, DeviceService, Refresh) => jobs'[Refresh] = jobs[Refresh]
    BY ReportedOK, Ids, WorkflowAssumptions DEF FailRefresh, FromJobs
  <1>2. /\ LegalRow(Refresh, jobs[Refresh], jobs'[Refresh])
        /\ jobs'[Refresh].state = "absent" <=> jobs[Refresh].state = "absent"
        /\ ~Completes(Refresh)
    BY <1>1, SameRowLegal DEF Holds, Active, LegalRow, Condemned, Completes
  <1>3. FromJobs(jobs')
    BY <1>1, <1>2 DEF FromJobs
  <1>4. JobsStep /\ SameJobs
    BY <1>3, FromJobsStep
  <1>5. CategoryHasCause
    BY <1>1 DEF CategoryHasCause, UpdatedCategory
  <1>6. InstallsDone /\ RefreshDone /\ \A s \in Sources : ~Completes(Sign(s))
    BY <1>1, <1>2, Ids DEF InstallsDone, RefreshDone, Completes
  <1>7. ServiceOK'
    BY DEF FailRefresh, ServiceOK, Service, IdleService
  <1> QED
    BY <1>4, <1>5, <1>6, <1>7, ServiceFrame

\* _fail_refresh alone.
LEMMA FailAlone ==
    ASSUME Inv, NEW category \in Categories,
           category \in terminalErrorCategories => Cause,
           FailRefresh(jobs, category),
           UNCHANGED <<children, derived, output, worker, device, installed, record>>
    PROVE  Inv' /\ Effects
  <1>1. FromJobs(jobs)
    BY SameRowLegal DEF Inv, JobsOK, FromJobs, RowsOK
  <1>2. DeviceOK' /\ installed \subseteq installed'
    BY DEF Inv, DeviceOK
  <1> QED
    BY <1>1, <1>2, FailStep

\* One row moves on without being completed.
LEMMA RowMoves ==
    ASSUME Inv, NEW k \in JobIds, NEW row, RowOK(row), LegalRow(k, jobs[k], row),
           row.state \notin {"absent", "completed"}, jobs[k].state # "absent",
           row.category = jobs[k].category,
           jobs' = [jobs EXCEPT ![k] = row],
           UNCHANGED <<children, derived, output, worker, device, installed, record>>,
           ServiceOK'
    PROVE  Inv' /\ Effects
  <1>1. /\ JobsStep /\ jobs'[k] = row
        /\ \A j \in JobIds \ {k} : jobs'[j] = jobs[j]
    BY OneRowStep DEF Inv
  <1>2. SameJobs /\ \A j \in JobIds : ~Completes(j)
    BY <1>1 DEF SameJobs, Completes
  <1>3. InstallsDone /\ RefreshDone /\ CategoryHasCause
    BY <1>1, <1>2, Ids DEF InstallsDone, RefreshDone, CategoryHasCause
  <1>4. DeviceOK'
    BY DEF Inv, DeviceOK
  <1> QED
    BY <1>1, <1>2, <1>3, <1>4, Ids, ServiceFrame

\* A step of the device service that writes no job.
LEMMA ServiceMoves ==
    ASSUME Inv, UNCHANGED <<jobs, children, derived, output, worker, record>>,
           ServiceOK', DeviceOK', installed \subseteq installed'
    PROVE  Inv' /\ Effects
  <1>1. JobsStep /\ SameJobs /\ \A k : ~Completes(k)
    BY SameJobsStep DEF Inv, Completes
  <1>2. InstallsDone /\ RefreshDone /\ CategoryHasCause
    BY <1>1 DEF InstallsDone, RefreshDone, CategoryHasCause
  <1> QED
    BY <1>1, <1>2, ServiceFrame

\* The report of the device service on an install job.
LEMMA InstallReport ==
    ASSUME Inv, service.install \in Derivatives,
           NEW to \in {"completed", "failed"}, NEW category \in Categories,
           to = "completed" => service.step \in {"installed", "polledInstalled"}
    PROVE  LET rows == Reported(jobs, DeviceService, Install(service.install), to, category)
           IN  /\ FromJobs(rows)
               /\ rows[Refresh] = jobs[Refresh]
               /\ \A s \in Sources : rows[Sign(s)] = jobs[Sign(s)]
               /\ \A d \in Derivatives :
                    rows[Install(d)].state = "completed" /\ jobs[Install(d)].state # "completed" =>
                      service.step \in {"installed", "polledInstalled"} /\ service.install = d
  <1> DEFINE k == Install(service.install)
             rows == Reported(jobs, DeviceService, k, to, category)
  <1>1. k \in JobIds /\ JobsOK /\ DeviceService \in Agents
    BY Ids, WorkflowAssumptions DEF Inv
  <1>2. /\ FromJobs(rows)
        /\ \A j \in JobIds \ {k} : rows[j] = jobs[j]
        /\ Holds(jobs, DeviceService, k) => rows[k].state = to
        /\ ~Holds(jobs, DeviceService, k) => rows = jobs
    BY <1>1, ReportLegal
  <1>3. \A d \in Derivatives : d # service.install => Install(d) \in JobIds \ {k}
    BY Ids
  <1>4. Refresh \in JobIds \ {k} /\ \A s \in Sources : Sign(s) \in JobIds \ {k}
    BY Ids
  <1> HIDE DEF rows, k
  <1>5. \A d \in Derivatives :
          rows[Install(d)].state = "completed" /\ jobs[Install(d)].state # "completed" =>
            service.step \in {"installed", "polledInstalled"} /\ service.install = d
    BY <1>2, <1>3 DEF k
  <1> QED
    BY <1>2, <1>4, <1>5 DEF rows, k

-------------------------------------------------------------------------------
(***************************************************************************)
(* One lemma per action: Inv is kept, and the step has the Effects.        *)
(***************************************************************************)
LEMMA ReapStep ==
    ASSUME Inv, NEW k \in JobIds, Reap(k)
    PROVE  Inv' /\ Effects
  <1> DEFINE row == ReapedRow(Lapsed(jobs[k]), Budget(k))
  <1>1. RowOK(jobs[k]) /\ jobs' = [jobs EXCEPT ![k] = row]
    BY DEF Inv, JobsOK, Reap
  <1>2. /\ RowOK(row) /\ row.state \in {"dead", "pending"} /\ row.category = jobs[k].category
        /\ jobs[k].state \in Active \union {"failed"}
    BY <1>1, ReapedRowOK DEF Reap
  <1>3. LegalRow(k, jobs[k], row)
    BY <1>1, ReapLegal DEF Reap
  <1>4. ServiceOK'
    BY DEF Reap, Inv, ServiceOK
  <1> HIDE DEF row
  <1> QED
    BY <1>1, <1>2, <1>3, <1>4, RowMoves DEF Reap, Active

LEMMA RetryStep ==
    ASSUME Inv, NEW k \in JobIds, RetryComesDue(k)
    PROVE  Inv' /\ Effects
  <1> DEFINE row == [jobs[k] EXCEPT !.retryAt = "now"]
  <1>1. RowOK(jobs[k]) /\ jobs' = [jobs EXCEPT ![k] = row] /\ jobs[k].retryAt = "later"
    BY DEF Inv, JobsOK, RetryComesDue
  <1>2. /\ RowOK(row) /\ row.state = "pending" /\ jobs[k].state = "pending"
        /\ row.category = jobs[k].category /\ row.deadReason = jobs[k].deadReason
    BY <1>1 DEF RowOK, Row
  <1> HIDE DEF row
  <1>3. LegalRow(k, jobs[k], row)
    BY <1>2 DEF LegalRow, Condemned
  <1>4. ServiceOK'
    BY DEF RetryComesDue, Inv, ServiceOK
  <1> QED
    BY <1>1, <1>2, <1>3, <1>4, RowMoves DEF RetryComesDue

LEMMA PollRefreshStep ==
    ASSUME Inv, PollRefresh
    PROVE  Inv' /\ Effects
  <1> DEFINE row == ClaimedRow(jobs[Refresh], DeviceService)
  <1>1. /\ RowOK(jobs[Refresh]) /\ jobs' = [jobs EXCEPT ![Refresh] = row]
        /\ jobs[Refresh].state = "pending"
    BY Ids DEF Inv, JobsOK, PollRefresh, Claimable
  <1>2. /\ RowOK(row) /\ row.state = "claimed" /\ row.category = jobs[Refresh].category
        /\ LegalRow(Refresh, jobs[Refresh], row)
    BY <1>1, ClaimedRowOK, ClaimLegal, WorkflowAssumptions
  <1>3. ServiceOK'
    BY DEF PollRefresh, ServiceOK, Service, IdleService
  <1> HIDE DEF row
  <1> QED
    BY <1>1, <1>2, <1>3, Ids, RowMoves DEF PollRefresh

LEMMA PollInstallStep ==
    ASSUME Inv, NEW d \in Derivatives, PollInstall(d)
    PROVE  Inv' /\ Effects
  <1> DEFINE k == Install(d)
             row == ClaimedRow(jobs[k], DeviceService)
  <1>1. /\ k \in JobIds /\ RowOK(jobs[k]) /\ jobs' = [jobs EXCEPT ![k] = row]
        /\ jobs[k].state = "pending"
    BY Ids DEF Inv, JobsOK, PollInstall, Claimable
  <1>2. /\ RowOK(row) /\ row.state = "claimed" /\ row.category = jobs[k].category
        /\ LegalRow(k, jobs[k], row)
    BY <1>1, ClaimedRowOK, ClaimLegal, WorkflowAssumptions
  <1>3. ServiceOK'
    BY Numbers DEF PollInstall, ServiceOK, Service, IdleService
  <1> HIDE DEF row, k
  <1> QED
    BY <1>1, <1>2, <1>3, RowMoves DEF PollInstall


\* A wrapper that failed leaves the device consistent.
LEMMA WrapperDevice ==
    ASSUME Inv, NEW d \in Derivatives, record' = record,
           \/ WrapperFails(d)
           \/ device' = d /\ installed' = installed \union {d}
    PROVE  DeviceOK' /\ installed \subseteq installed'
  BY DEF Inv, DeviceOK, WrapperFails

LEMMA RunPolledStep ==
    ASSUME Inv, RunPolled
    PROVE  Inv' /\ Effects
  <1>1. service \in Service /\ service.install \in Derivatives
    BY DEF Inv, ServiceOK, Service, RunPolled
  <1>2. ServiceOK'
    BY <1>1, Numbers DEF ServiceOK, Service, RunPolled
  <1> QED
    BY <1>1, <1>2, WrapperDevice, ServiceMoves DEF RunPolled

LEMMA ReportPolledStep ==
    ASSUME Inv, ReportPolled
    PROVE  Inv' /\ Effects
  <1>1. service.step \in {"polled", "polledInstalled"} /\ service.install \in Derivatives
    BY DEF Inv, ServiceOK, Service, ReportPolled
  <1>2. PICK to \in {"completed", "failed"}, category \in Categories :
          /\ jobs' = Reported(jobs, DeviceService, Install(service.install), to, category)
          /\ to = "completed" => service.step = "polledInstalled"
    BY DEF ReportPolled, Categories
  <1>3. DeviceOK' /\ installed \subseteq installed'
    BY <1>1, WrapperDevice DEF ReportPolled, WrapperFails
  <1>4. /\ FromJobs(jobs')
        /\ jobs'[Refresh] = jobs[Refresh]
        /\ \A s \in Sources : jobs'[Sign(s)] = jobs[Sign(s)]
        /\ \A d \in Derivatives :
             jobs'[Install(d)].state = "completed" /\ jobs[Install(d)].state # "completed" =>
               service.step \in {"installed", "polledInstalled"} /\ service.install = d
    BY <1>1, <1>2, InstallReport
  <1>5. ServiceOK'
    BY DEF ReportPolled, ServiceOK, Service, IdleService
  <1>6. InstallsDone /\ RefreshDone /\ CategoryHasCause /\ \A s \in Sources : ~Completes(Sign(s))
    BY <1>4 DEF InstallsDone, RefreshDone, CategoryHasCause, Completes, ReportPolled
  <1> QED
    BY <1>3, <1>4, <1>5, <1>6, FromJobsStep, ServiceFrame DEF ReportPolled

\* The ways to fail a refresh that have no cause in signing.
LEMMA FailingStep ==
    ASSUME Inv, SignRefused \/ AwaitInterrupted \/ EnsureRefused
    PROVE  Inv' /\ Effects
  <1>1. FailRefresh(jobs, "network") /\ "network" \in Categories
    BY DEF SignRefused, AwaitInterrupted, EnsureRefused, Categories
  <1>2. "network" \notin terminalErrorCategories
    BY DEF terminalErrorCategories
  <1> QED
    BY <1>1, <1>2, FailAlone DEF SignRefused, AwaitInterrupted, EnsureRefused

LEMMA SignGivenUpStep ==
    ASSUME Inv, NEW category \in Failures, SignGivenUp(category)
    PROVE  Inv' /\ Effects
  <1>1. /\ service \in Service /\ service.source \in Sources /\ children # <<>>
        /\ category \in AwaitFailures(jobs[Sign(service.source)])
    BY DEF Inv, ServiceOK, Service, SignGivenUp
  <1>2. CASE service.updating /\ ~service.fallback
    <2>1. service' = [service EXCEPT !.step = "sign", !.fallback = TRUE] /\ UNCHANGED jobs
      BY <1>2 DEF SignGivenUp
    <2>2. ServiceOK' /\ DeviceOK' /\ installed \subseteq installed'
      BY <1>1, <2>1 DEF SignGivenUp, Inv, ServiceOK, Service, DeviceOK
    <2> QED
      BY <2>1, <2>2, ServiceMoves DEF SignGivenUp
  <1>3. CASE ~(service.updating /\ ~service.fallback)
    <2>1. FailRefresh(jobs, category)
      BY <1>3 DEF SignGivenUp
    <2>2. category \in Categories /\ "network" \notin terminalErrorCategories
      BY DEF Failures, Categories, terminalErrorCategories
    <2>3. category \in terminalErrorCategories => Cause
      BY <1>1, <2>2 DEF AwaitFailures, Cause, Condemned
    <2> QED
      BY <2>1, <2>2, <2>3, FailAlone DEF SignGivenUp
  <1> QED
    BY <1>2, <1>3

LEMMA SignArrivedStep ==
    ASSUME Inv, SignArrived
    PROVE  Inv' /\ Effects
  <1>1. /\ service.source \in Sources /\ children # <<>>
        /\ jobs[Sign(service.source)].state = "completed"
    BY DEF Inv, ServiceOK, Service, SignArrived
  <1>2. output[service.source] \in Derivatives
    BY <1>1 DEF Inv, OutputOK
  <1>3. ServiceOK'
    BY <1>1, <1>2, Numbers DEF SignArrived, ServiceOK, Service, IdleService
  <1>4. DeviceOK' /\ installed \subseteq installed'
    BY DEF SignArrived, Inv, DeviceOK
  <1> QED
    BY <1>3, <1>4, ServiceMoves DEF SignArrived

LEMMA CrashServiceStep ==
    ASSUME Inv, CrashService
    PROVE  Inv' /\ Effects
  <1>1. ServiceOK' /\ DeviceOK' /\ installed \subseteq installed'
    BY DEF CrashService, Inv, DeviceOK, ServiceOK, Service, IdleService
  <1> QED
    BY <1>1, ServiceMoves DEF CrashService

LEMMA RunWrapperStep ==
    ASSUME Inv, RunWrapper
    PROVE  Inv' /\ Effects
  <1>1. service \in Service /\ service.signed \in Derivatives /\ service.install # None
    BY DEF Inv, ServiceOK, Service, RunWrapper
  <1>2. ServiceOK'
    BY <1>1, Numbers DEF ServiceOK, Service, RunWrapper
  <1> QED
    BY <1>1, <1>2, WrapperDevice, ServiceMoves DEF RunWrapper

\* The failed install, with or without a report of its own.
LEMMA InstallFailedStep ==
    ASSUME Inv, InstallFailed
    PROVE  Inv' /\ Effects
  <1>1. /\ service.step = "install"
        /\ service.signed \in Derivatives /\ service.install \in Derivatives
    BY DEF Inv, ServiceOK, Service, InstallFailed
  <1>2. DeviceOK' /\ installed \subseteq installed'
    BY <1>1, WrapperDevice DEF InstallFailed
  <1>3. "network" \in Categories \ terminalErrorCategories
    BY DEF Categories, terminalErrorCategories
  <1>4. PICK rows \in {jobs, Reported(jobs, DeviceService, Install(service.install),
                                      "failed", "network")} :
          FailRefresh(rows, "network")
    BY DEF InstallFailed
  <1>5. CASE rows = jobs
    <2>1. FromJobs(jobs)
      BY SameRowLegal DEF Inv, JobsOK, FromJobs, RowsOK
    <2> QED
      BY <1>2, <1>3, <1>4, <1>5, <2>1, FailStep DEF InstallFailed
  <1>6. CASE rows = Reported(jobs, DeviceService, Install(service.install), "failed", "network")
    <2>1. /\ FromJobs(rows) /\ rows[Refresh] = jobs[Refresh]
          /\ \A s \in Sources : rows[Sign(s)] = jobs[Sign(s)]
          /\ \A d \in Derivatives :
               rows[Install(d)].state = "completed" /\ jobs[Install(d)].state # "completed" =>
                 service.step \in {"installed", "polledInstalled"} /\ service.install = d
      BY <1>1, <1>3, <1>6, InstallReport
    <2> QED
      BY <1>2, <1>3, <1>4, <2>1, FailStep DEF InstallFailed
  <1> QED
    BY <1>4, <1>5, <1>6

LEMMA ReportInstalledStep ==
    ASSUME Inv, ReportInstalled
    PROVE  Inv' /\ Effects
  <1> DEFINE rows == Reported(jobs, DeviceService, Install(service.install), "completed", "")
  <1>1. /\ service \in Service /\ service.step = "installed"
        /\ service.signed \in Derivatives /\ service.install \in Derivatives
    BY DEF Inv, ServiceOK, Service, ReportInstalled
  <1>2. "" \in Categories /\ "network" \in Categories \ terminalErrorCategories
    BY DEF Categories, terminalErrorCategories
  <1>3. /\ FromJobs(rows) /\ rows[Refresh] = jobs[Refresh]
        /\ \A s \in Sources : rows[Sign(s)] = jobs[Sign(s)]
        /\ \A d \in Derivatives :
             rows[Install(d)].state = "completed" /\ jobs[Install(d)].state # "completed" =>
               service.step \in {"installed", "polledInstalled"} /\ service.install = d
    BY <1>1, <1>2, InstallReport
  <1>4. DeviceOK' /\ installed \subseteq installed'
    BY DEF ReportInstalled, Inv, DeviceOK
  <1>5. \/ jobs' = rows /\ service' = [service EXCEPT !.step = "complete"]
        \/ FailRefresh(rows, "network")
    BY DEF ReportInstalled
  <1> HIDE DEF rows
  <1>6. CASE jobs' = rows /\ service' = [service EXCEPT !.step = "complete"]
    <2>1. ServiceOK'
      BY <1>1, <1>6, Numbers DEF ServiceOK, Service
    <2>2. InstallsDone /\ RefreshDone /\ CategoryHasCause /\ \A s \in Sources : ~Completes(Sign(s))
      BY <1>3, <1>6 DEF InstallsDone, RefreshDone, CategoryHasCause, Completes, ReportInstalled
    <2>3. JobsStep /\ SameJobs
      BY <1>3, <1>6, FromJobsStep
    <2> QED
      BY <1>4, <2>1, <2>2, <2>3, ServiceFrame DEF ReportInstalled
  <1>7. CASE FailRefresh(rows, "network")
    BY <1>2, <1>3, <1>4, <1>7, FailStep DEF ReportInstalled
  <1> QED
    BY <1>5, <1>6, <1>7

LEMMA CompleteRefreshStep ==
    ASSUME Inv, CompleteRefresh
    PROVE  Inv' /\ Effects
  <1>1. service \in Service /\ service.step = "complete"
    BY DEF Inv, ServiceOK, CompleteRefresh
  <1>2. "" \in Categories /\ "" \notin terminalErrorCategories
    BY DEF Categories, terminalErrorCategories
  <1>3. /\ FromJobs(jobs')
        /\ \A k \in JobIds \ {Refresh} : jobs'[k] = jobs[k]
        /\ Holds(jobs, DeviceService, Refresh) =>
             jobs'[Refresh].state = "completed" /\ jobs'[Refresh].category = ""
        /\ ~Holds(jobs, DeviceService, Refresh) => jobs' = jobs
    <2>1. UpdatedCategory(jobs[Refresh], "completed", "") = ""
      BY DEF UpdatedCategory
    <2> DEFINE rows == Reported(jobs, DeviceService, Refresh, "completed", "")
    <2>2. jobs' = rows /\ JobsOK /\ Refresh \in JobIds /\ DeviceService \in Agents
      BY Ids, WorkflowAssumptions DEF Inv, CompleteRefresh
    <2>3. /\ FromJobs(rows)
          /\ \A k \in JobIds \ {Refresh} : rows[k] = jobs[k]
          /\ Holds(jobs, DeviceService, Refresh) =>
               /\ rows[Refresh].state = "completed"
               /\ rows[Refresh].category = UpdatedCategory(jobs[Refresh], "completed", "")
          /\ ~Holds(jobs, DeviceService, Refresh) => rows = jobs
      BY <1>2, <2>2, ReportLegal
    <2> QED
      BY <2>1, <2>2, <2>3
  <1>4. RefreshDone
    BY <1>1, <1>3 DEF RefreshDone, CompleteRefresh, Completes, Holds, Active
  <1>5. InstallsDone /\ CategoryHasCause /\ \A s \in Sources : ~Completes(Sign(s))
    BY <1>2, <1>3, Ids DEF InstallsDone, CategoryHasCause, Completes
  <1>6. ServiceOK'
    BY DEF CompleteRefresh, ServiceOK, Service, IdleService
  <1>7. DeviceOK' /\ installed \subseteq installed'
    BY <1>1 DEF Inv, DeviceOK, CompleteRefresh, Service
  <1> QED
    BY <1>3, <1>4, <1>5, <1>6, <1>7, FromJobsStep, ServiceFrame DEF CompleteRefresh

\* The newest sign child, once there is one.
LEMMA NewestIsSource == Inv /\ children # <<>> => NewestChild \in Sources
  BY DEF Inv, ChildrenOK, NewestChild

\* The requeued and claimed row of a failed or dead install.
LEMMA ReclaimedRowOK ==
    ASSUME NEW row, RowOK(row), NEW a \in Agents, row.state \notin {"absent", "completed"}
    PROVE  LET new == ClaimedRow(RequeuedRow(row), a)
           IN  /\ RowOK(new) /\ new.state = "claimed"
               /\ new.category = row.category /\ new.deadReason = row.deadReason
  <1>1. RowOK(RequeuedRow(row))
    BY RequeuedRowOK
  <1>2. RequeuedRow(row).category = row.category /\ RequeuedRow(row).deadReason = row.deadReason
    BY DEF RequeuedRow, RowOK, Row
  <1> QED
    BY <1>1, <1>2, ClaimedRowOK

LEMMA EnsureInstallStep ==
    ASSUME Inv, EnsureInstall
    PROVE  Inv' /\ Effects
  <1> DEFINE d == output[NewestChild]
             k == Install(d)
             old == jobs[k]
  <1>1. /\ service \in Service /\ service.step = "ensure" /\ service.signed # None
        /\ NewestChild \in Sources /\ jobs[Sign(NewestChild)].state = "completed"
    BY NewestIsSource DEF Inv, ServiceOK, EnsureInstall, InstallReady
  <1>2. d \in Derivatives /\ d <= Len(derived) /\ Len(derived) \in Nat
    BY <1>1 DEF Inv, OutputOK, DerivedOK
  <1>3. k \in JobIds /\ RowOK(old) /\ Type(k) = "install"
    BY <1>2, Ids DEF Inv, JobsOK
  <1>4. old.state # "absent"
    <2> HIDE DEF d
    <2>1. d \in Nat /\ ~(d > Len(derived))
      BY <1>2 DEF Derivatives
    <2> QED
      BY <1>2, <2>1 DEF Inv, DerivedOK
  <1>5. PICK step \in {"complete", "install"} :
           service' = [service EXCEPT !.install = d, !.step = step]
    BY DEF EnsureInstall
  <1>6. ServiceOK'
    BY <1>1, <1>2, <1>5, Numbers DEF ServiceOK, Service
  <1>7. DeviceOK' /\ installed \subseteq installed'
    BY DEF EnsureInstall, Inv, DeviceOK
  <1>8. CASE old.state = "completed" \/ old.state \in Active
    <2>1. jobs' = [jobs EXCEPT ![k] = jobs[k]]
      BY <1>8 DEF EnsureInstall, Active
    <2>2. jobs' = jobs
      BY <2>1 DEF Inv, JobsOK
    <2> QED
      BY <1>6, <1>7, <2>2, ServiceMoves DEF EnsureInstall
  <1>9. CASE ~(old.state = "completed" \/ old.state \in Active)
    <2>1. PICK row \in {ClaimedRow(old, DeviceService),
                        ClaimedRow(RequeuedRow(old), DeviceService)} :
             jobs' = [jobs EXCEPT ![k] = row]
      BY <1>4, <1>9 DEF EnsureInstall
    <2>2. /\ RowOK(row) /\ row.state = "claimed"
          /\ row.category = old.category /\ row.deadReason = old.deadReason
      BY <1>3, <1>4, <1>9, ClaimedRowOK, ReclaimedRowOK, WorkflowAssumptions
    <2>3. LegalRow(k, old, row)
      BY <1>3, <1>9, <2>2 DEF LegalRow
    <2> HIDE DEF old, k, d
    <2> QED
      BY <1>3, <1>4, <1>6, <2>1, <2>2, <2>3, RowMoves DEF EnsureInstall, old
  <1> QED
    BY <1>8, <1>9

\* A sign child is created once, at the end of the children.
LEMMA RequestSignStep ==
    ASSUME Inv, RequestSign
    PROVE  Inv' /\ Effects
  <1>1. PICK updating \in UpdateChoices :
          /\ EnsureSign(SignSource(updating))
          /\ service' = [service EXCEPT !.step = "await",
                           !.updating = IF service.fallback THEN @ ELSE updating,
                           !.source = SignSource(updating)]
    BY DEF RequestSign
  <1> DEFINE s == SignSource(updating)
             k == Sign(s)
  <1>2. s \in Sources /\ k \in JobIds /\ k # Refresh
    BY Numbers, Ids DEF SignSource
  <1>3. service \in Service /\ updating \in BOOLEAN
    BY WorkflowAssumptions DEF Inv, ServiceOK
  <1>4. children' # <<>> => ServiceOK'
    BY <1>1, <1>2, <1>3, Numbers DEF ServiceOK, Service
  <1>5. DeviceOK' /\ installed \subseteq installed'
    BY DEF RequestSign, Inv, DeviceOK
  <1>6. CASE jobs[k].state # "absent"
    <2>1. UNCHANGED <<jobs, children>>
      BY <1>1, <1>6 DEF EnsureSign
    <2>2. children' # <<>>
      BY <1>2, <1>6, <2>1 DEF Inv, ChildrenOK
    <2> QED
      BY <1>4, <1>5, <2>1, <2>2, ServiceMoves DEF RequestSign
  <1>7. CASE jobs[k].state = "absent"
    <2>1. jobs' = [jobs EXCEPT ![k] = CreatedRow("now")] /\ children' = Append(children, s)
      BY <1>1, <1>7 DEF EnsureSign
    <2> HIDE DEF k
    <2>2. /\ JobsStep /\ jobs'[k] = CreatedRow("now")
          /\ \A j \in JobIds \ {k} : jobs'[j] = jobs[j]
      BY <1>2, <1>7, <2>1, CreateLegal, CreatedRowOK, OneRowStep DEF Inv
    <2> HIDE DEF s
    <2>3. children \in Seq(Sources) /\ \A i \in DOMAIN children : children[i] # s
      BY <1>2, <1>7 DEF Inv, ChildrenOK, k
    <2>4. /\ children' \in Seq(Sources) /\ children' # <<>>
          /\ DOMAIN children' = DOMAIN children \union {Len(children) + 1}
          /\ children'[Len(children) + 1] = s
          /\ Len(children) + 1 \notin DOMAIN children
          /\ \A i \in DOMAIN children : children'[i] = children[i]
      BY <1>2, <2>1, <2>3
    <2>5. \A t \in Sources : t # s => jobs'[Sign(t)] = jobs[Sign(t)]
      BY <1>2, <2>2, Ids DEF k
    <2>6. jobs'[k].state = "pending"
      BY <2>2, CreatedRowOK
    <2>7. ChildrenOK'
      <3>1. \A i, j \in DOMAIN children' : children'[i] = children'[j] => i = j
        BY <2>3, <2>4 DEF Inv, ChildrenOK
      <3>2. ASSUME NEW t \in Sources
            PROVE  jobs'[Sign(t)].state # "absent" <=> \E i \in DOMAIN children' : children'[i] = t
        BY <1>2, <2>4, <2>5, <2>6 DEF Inv, ChildrenOK, k
      <3> QED
        BY <2>4, <3>1, <3>2 DEF ChildrenOK
    <2>8. \A d \in Derivatives : jobs'[Install(d)] = jobs[Install(d)]
      BY <1>2, <2>2, Ids DEF k
    <2>9. jobs'[Refresh] = jobs[Refresh]
      BY <1>2, <2>2, Ids
    <2>10. DerivedOK' /\ OutputOK' /\ WorkerOK'
      BY <1>2, <2>5, <2>6, <2>8 DEF RequestSign, Inv, DerivedOK, OutputOK, WorkerOK, k
    <2>11. \A j \in JobIds : ~Completes(j)
      BY <2>2, <2>6 DEF Completes
    <2>12. SignsDone /\ DerivedGrows /\ WorkerMoves /\ InstallsDone /\ RefreshDone /\ CategoryHasCause
      BY <2>9, <2>11, Ids DEF RequestSign, SignsDone, DerivedGrows, WorkerMoves, InstallsDone,
                              RefreshDone, CategoryHasCause
    <2> QED
      BY <1>4, <1>5, <2>2, <2>4, <2>7, <2>10, <2>12 DEF Inv, Effects, JobsStep
  <1> QED
    BY <1>6, <1>7

\* The steps of the worker that leave its sign job uncompleted.
LEMMA WorkerMovesOn ==
    ASSUME Inv, JobsStep, SameJobs, \A s \in Sources : ~Completes(Sign(s)),
           jobs'[Refresh] = jobs[Refresh],
           \A d \in Derivatives : jobs'[Install(d)] = jobs[Install(d)],
           WorkerOK', WorkerMoves,
           UNCHANGED <<children, derived, output, service, device, installed, record>>
    PROVE  Inv' /\ Effects
  <1>1. ChildrenOK'
    BY Ids DEF Inv, ChildrenOK, SameJobs
  <1>2. DerivedOK' /\ OutputOK'
    BY DEF Inv, DerivedOK, OutputOK, Completes
  <1>3. SignsDone /\ DerivedGrows /\ \A d \in Derivatives : ~Completes(Install(d))
    BY DEF SignsDone, DerivedGrows, Completes
  <1> QED
    BY <1>1, <1>2, <1>3, WorkerFrame

LEMMA ClaimSignStep ==
    ASSUME Inv, NEW s \in Sources, ClaimSign(s)
    PROVE  Inv' /\ Effects
  <1> DEFINE k == Sign(s)
             row == ClaimedRow(jobs[k], SigningWorker)
  <1>1. /\ k \in JobIds /\ RowOK(jobs[k]) /\ jobs' = [jobs EXCEPT ![k] = row]
        /\ jobs[k].state = "pending" /\ worker' = [step |-> "sign", source |-> s, signed |-> None]
    BY Ids DEF Inv, JobsOK, ClaimSign, Claimable
  <1>2. RowOK(row) /\ row.state = "claimed" /\ LegalRow(k, jobs[k], row)
    BY <1>1, ClaimedRowOK, ClaimLegal, WorkflowAssumptions
  <1> HIDE DEF row
  <1>3. /\ JobsStep /\ jobs'[k] = row
        /\ \A j \in JobIds \ {k} : jobs'[j] = jobs[j]
    BY <1>1, <1>2, OneRowStep DEF Inv
  <1>4. SameJobs /\ \A j \in JobIds : ~Completes(j)
    BY <1>1, <1>2, <1>3 DEF SameJobs, Completes
  <1>5. jobs'[Refresh] = jobs[Refresh] /\ \A d \in Derivatives : jobs'[Install(d)] = jobs[Install(d)]
    BY <1>3, Ids
  <1>6. WorkerMoves
    BY <1>1, <1>2, <1>3 DEF WorkerMoves
  <1>7. WorkerOK'
    BY <1>1, Numbers DEF ClaimSign, Inv, DerivedOK, WorkerOK, Worker, None
  <1> QED
    BY <1>3, <1>4, <1>5, <1>6, <1>7, Ids, WorkerMovesOn DEF ClaimSign

LEMMA IdleWorkerOK == Inv /\ worker' = IdleWorker /\ derived' = derived => WorkerOK' /\ WorkerMoves
  BY Numbers DEF Inv, DerivedOK, WorkerOK, Worker, IdleWorker, WorkerMoves, None

\* The report of the worker on its sign job.
LEMMA SignReport ==
    ASSUME Inv, worker.step # "idle",
           NEW to \in {"completed", "failed"}, NEW category \in Categories,
           jobs' = Reported(jobs, SigningWorker, Sign(worker.source), to, category)
    PROVE  /\ JobsStep /\ SameJobs
           /\ jobs'[Refresh] = jobs[Refresh]
           /\ \A d \in Derivatives : jobs'[Install(d)] = jobs[Install(d)]
           /\ \A s \in Sources : s # worker.source => jobs'[Sign(s)] = jobs[Sign(s)]
           /\ worker.source \in Sources
           /\ Holds(jobs, SigningWorker, Sign(worker.source)) => jobs'[Sign(worker.source)].state = to
           /\ ~Holds(jobs, SigningWorker, Sign(worker.source)) => jobs' = jobs
  <1> DEFINE k == Sign(worker.source)
             rows == Reported(jobs, SigningWorker, k, to, category)
  <1>1. /\ worker.source \in Sources /\ k \in JobIds /\ JobsOK
        /\ SigningWorker \in Agents /\ jobs' = rows
    BY Ids, WorkflowAssumptions DEF Inv, WorkerOK, Worker
  <1>2. /\ FromJobs(rows)
        /\ \A j \in JobIds \ {k} : rows[j] = jobs[j]
        /\ Holds(jobs, SigningWorker, k) => rows[k].state = to
        /\ ~Holds(jobs, SigningWorker, k) => rows = jobs
    BY <1>1, ReportLegal
  <1>3. /\ Refresh \in JobIds \ {k} /\ \A d \in Derivatives : Install(d) \in JobIds \ {k}
        /\ \A s \in Sources : s # worker.source => Sign(s) \in JobIds \ {k}
    BY <1>1, Ids
  <1>4. JobsStep /\ SameJobs
    BY <1>1, <1>2, FromJobsStep
  <1> HIDE DEF rows, k
  <1> QED
    BY <1>1, <1>2, <1>3, <1>4 DEF k

LEMMA SignFailedStep ==
    ASSUME Inv, NEW category \in Failures, SignFailed(category)
    PROVE  Inv' /\ Effects
  <1>1. category \in Categories /\ worker.step # "idle"
    BY DEF SignFailed, Failures, Categories, terminalErrorCategories
  <1>2. jobs' = Reported(jobs, SigningWorker, Sign(worker.source), "failed", category)
    BY DEF SignFailed
  <1>3. /\ JobsStep /\ SameJobs
        /\ jobs'[Refresh] = jobs[Refresh]
        /\ \A d \in Derivatives : jobs'[Install(d)] = jobs[Install(d)]
        /\ \A s \in Sources : s # worker.source => jobs'[Sign(s)] = jobs[Sign(s)]
        /\ Holds(jobs, SigningWorker, Sign(worker.source)) =>
             jobs'[Sign(worker.source)].state = "failed"
        /\ ~Holds(jobs, SigningWorker, Sign(worker.source)) => jobs' = jobs
    BY <1>1, <1>2, SignReport
  <1>4. \A s \in Sources : ~Completes(Sign(s))
    BY <1>3 DEF Completes
  <1> QED
    BY <1>3, <1>4, IdleWorkerOK, WorkerMovesOn DEF SignFailed

\* The steps of the worker that write nothing.
LEMMA WorkerOnlyStep ==
    ASSUME Inv, Signed \/ ValidateUpload \/ UploadRefused \/ CrashWorker
    PROVE  Inv' /\ Effects
  <1>1. /\ UNCHANGED <<jobs, children, derived, output, service, device, installed, record>>
        /\ worker \in Worker /\ worker.step # "idle"
    BY DEF Inv, WorkerOK, Signed, ValidateUpload, UploadRefused, CrashWorker
  <1>2. JobsStep /\ SameJobs /\ \A s \in Sources : ~Completes(Sign(s))
    BY <1>1, SameJobsStep DEF Inv, Completes
  <1>3. WorkerOK' /\ WorkerMoves
    <2>1. CASE CrashWorker
      BY <1>1, <2>1, IdleWorkerOK DEF CrashWorker
    <2>2. CASE Signed \/ ValidateUpload \/ UploadRefused
      <3>1. PICK step \in {"upload", "publish", "failing"} :
              worker' = [worker EXCEPT !.step = step]
        BY <2>2 DEF Signed, ValidateUpload, UploadRefused
      <3> QED
        BY <1>1, <3>1 DEF Inv, WorkerOK, Worker, WorkerMoves
    <2> QED
      BY <2>1, <2>2
  <1> QED
    BY <1>1, <1>2, <1>3, WorkerMovesOn

\* The upload: a derivative and, in the same transaction, its install job.
LEMMA PublishUploadStep ==
    ASSUME Inv, PublishUpload
    PROVE  Inv' /\ Effects
  <1> DEFINE d == Len(derived) + 1
             k == Install(d)
  <1>1. /\ worker \in Worker /\ worker.step = "publish" /\ worker.source \in Sources
        /\ derived \in Seq(Sources) /\ Len(derived) \in Nat /\ Len(derived) < MaxSigned
    BY DEF Inv, WorkerOK, Worker, DerivedOK, PublishUpload
  <1>2. d \in Derivatives /\ d \in Nat
    BY <1>1, WorkflowAssumptions DEF Derivatives
  <1>3. /\ derived' = Append(derived, worker.source)
        /\ jobs' = [jobs EXCEPT ![k] = CreatedRow("now")]
        /\ \/ worker' = [worker EXCEPT !.step = "report", !.signed = d]
           \/ worker' = [worker EXCEPT !.step = "failing"]
        /\ UNCHANGED <<children, output, service, device, installed, record>>
    BY DEF PublishUpload
  <1>4. derived' \in Seq(Sources) /\ Len(derived') = d
    BY <1>1, <1>3
  <1>5. k \in JobIds /\ jobs[k].state = "absent"
    BY <1>1, <1>2, Ids DEF Inv, DerivedOK
  <1> HIDE DEF k
  <1>6. /\ JobsStep /\ jobs'[k] = CreatedRow("now")
        /\ \A j \in JobIds \ {k} : jobs'[j] = jobs[j]
    BY <1>3, <1>5, CreateLegal, CreatedRowOK, OneRowStep DEF Inv
  <1>7. jobs'[k].state = "pending"
    BY <1>6, CreatedRowOK
  <1>8. /\ jobs'[Refresh] = jobs[Refresh]
        /\ \A s \in Sources : jobs'[Sign(s)] = jobs[Sign(s)]
        /\ \A e \in Derivatives : e # d => jobs'[Install(e)] = jobs[Install(e)]
    BY <1>2, <1>6, Ids DEF k
  <1>9. ChildrenOK'
    BY <1>3, <1>8 DEF Inv, ChildrenOK
  <1>10. DerivedOK'
    <2>1. ASSUME NEW e \in Derivatives
          PROVE  jobs'[Install(e)].state = "absent" <=> e > Len(derived')
      <3>1. CASE e = d
        BY <1>2, <1>4, <1>7, <3>1 DEF k
      <3>2. CASE e # d
        <4>1. e \in Nat
          BY Numbers
        <4> QED
          BY <1>1, <1>4, <1>8, <3>2, <4>1 DEF Inv, DerivedOK
      <3> QED
        BY <3>1, <3>2
    <2> QED
      BY <1>1, <1>4, <2>1, WorkflowAssumptions DEF DerivedOK
  <1>11. OutputOK'
    <2>1. ASSUME NEW s \in Sources PROVE output[s] \in Nat /\ output[s] <= Len(derived)
      <3>1. output[s] \in Derivatives \union {None} /\ output[s] <= Len(derived)
        BY DEF Inv, OutputOK
      <3> QED
        BY <3>1, Numbers
    <2> QED
      BY <1>1, <1>3, <1>4, <1>8, <2>1 DEF Inv, OutputOK
  <1>12. WorkerOK'
    <2>1. worker.signed \in Nat /\ worker.signed <= Len(derived)
      BY <1>1, Numbers DEF Inv, WorkerOK, Worker
    <2> HIDE DEF d
    <2>2. /\ worker' \in Worker /\ worker'.source = worker.source
          /\ \/ worker'.step = "report" /\ worker'.signed = d
             \/ worker'.step = "failing" /\ worker'.signed = worker.signed
      BY <1>1, <1>2, <1>3 DEF Worker
    <2>3. worker'.signed <= Len(derived')
      BY <1>1, <1>2, <1>4, <2>1, <2>2 DEF d
    <2>4. worker'.step = "report" => worker'.signed # None
      BY <1>2, <2>2, Numbers
    <2> QED
      BY <1>1, <2>2, <2>3, <2>4, Numbers DEF WorkerOK
  <1>13. SignsDone /\ DerivedGrows /\ WorkerMoves
    BY <1>1, <1>3, <1>8 DEF SignsDone, DerivedGrows, WorkerMoves, Completes, Worker
  <1>14. \A e \in Derivatives : ~Completes(Install(e))
    BY <1>7, <1>8 DEF Completes, k
  <1> QED
    BY <1>3, <1>6, <1>8, <1>9, <1>10, <1>11, <1>12, <1>13, <1>14, WorkerFrame

LEMMA ReportSignedStep ==
    ASSUME Inv, ReportSigned
    PROVE  Inv' /\ Effects
  <1>1. /\ worker.step = "report" /\ worker.signed \in Derivatives
        /\ worker.signed <= Len(derived) /\ "" \in Categories
    BY DEF Inv, WorkerOK, Worker, ReportSigned, Categories
  <1>2. jobs' = Reported(jobs, SigningWorker, Sign(worker.source), "completed", "")
    BY DEF ReportSigned
  <1>3. /\ JobsStep /\ SameJobs
        /\ jobs'[Refresh] = jobs[Refresh]
        /\ \A d \in Derivatives : jobs'[Install(d)] = jobs[Install(d)]
        /\ \A s \in Sources : s # worker.source => jobs'[Sign(s)] = jobs[Sign(s)]
        /\ worker.source \in Sources
        /\ ~Holds(jobs, SigningWorker, Sign(worker.source)) => jobs' = jobs
    BY <1>1, <1>2, SignReport
  <1>4. /\ output' \in [Sources -> Derivatives \union {None}]
        /\ \A s \in Sources : s # worker.source => output'[s] = output[s]
        /\ Holds(jobs, SigningWorker, Sign(worker.source)) => output'[worker.source] = worker.signed
        /\ ~Holds(jobs, SigningWorker, Sign(worker.source)) => output' = output
    BY <1>1, <1>3 DEF ReportSigned, Inv, OutputOK
  <1>5. OutputOK'
    BY <1>1, <1>3, <1>4, Numbers DEF ReportSigned, Inv, OutputOK
  <1>6. SignsDone
    BY <1>1, <1>3, <1>4 DEF ReportSigned, SignsDone, Completes, IdleWorker, Holds, Active
  <1>7. ChildrenOK' /\ DerivedOK'
    BY <1>3, Ids DEF ReportSigned, Inv, ChildrenOK, DerivedOK, SameJobs
  <1>8. DerivedGrows /\ \A d \in Derivatives : ~Completes(Install(d))
    BY <1>3 DEF ReportSigned, DerivedGrows, Completes
  <1> QED
    BY <1>3, <1>5, <1>6, <1>7, <1>8, IdleWorkerOK, WorkerFrame DEF ReportSigned

\* Every step.
LEMMA WorkflowStep ==
    ASSUME Inv, Next
    PROVE  Inv' /\ Effects
  BY ReapStep, RetryStep, PollRefreshStep, PollInstallStep, RunPolledStep, ReportPolledStep,
     RequestSignStep, FailingStep, SignArrivedStep, SignGivenUpStep, EnsureInstallStep,
     RunWrapperStep, InstallFailedStep, ReportInstalledStep, CompleteRefreshStep,
     CrashServiceStep, ClaimSignStep, SignFailedStep, WorkerOnlyStep, PublishUploadStep,
     ReportSignedStep
     DEF Next

LEMMA Workflow == Spec => []Inv
  <1>1. ASSUME Inv, UNCHANGED vars PROVE Inv'
    BY <1>1 DEF vars, Inv, JobsOK, ChildrenOK, DerivedOK, OutputOK, ServiceOK, WorkerOK, DeviceOK
  <1> QED
    BY <1>1, WorkflowInit, WorkflowStep, PTL DEF Spec

-------------------------------------------------------------------------------
(***************************************************************************)
(* The theorems.                                                           *)
(***************************************************************************)

\* The variables of the workflow keep their types; in particular a refresh has at
\* most one sign child per source, and every install job has its derivative.
THEOREM WorkflowTypes == Spec => []TypeOK
  <1>1. ASSUME Inv PROVE Len(children) <= 2
    <2>1. /\ children \in Seq(Sources) /\ Len(children) \in Nat
          /\ \A i \in 1 .. Len(children) : children[i] \in {1, 2}
          /\ \A i, j \in 1 .. Len(children) : children[i] = children[j] => i = j
      BY <1>1 DEF Inv, ChildrenOK, Sources, Original, Newer
    <2>2. ~(3 <= Len(children))
      <3>1. SUFFICES ASSUME 3 <= Len(children) PROVE FALSE
        OBVIOUS
      <3>2. 1 \in 1 .. Len(children) /\ 2 \in 1 .. Len(children) /\ 3 \in 1 .. Len(children)
        BY <2>1, <3>1
      <3>3. children[1] # children[2] /\ children[1] # children[3] /\ children[2] # children[3]
        BY <2>1, <3>2
      <3> QED
        BY <2>1, <3>2, <3>3
    <2> QED
      BY <2>1, <2>2
  <1>2. Inv => TypeOK
    BY <1>1 DEF Inv, TypeOK, JobsOK, ChildrenOK, DerivedOK, OutputOK, ServiceOK, WorkerOK, DeviceOK
  <1> QED
    BY <1>2, Workflow, PTL

\* The worker never has a job in hand that is already completed.
SignInv == worker.step # "idle" => jobs[Sign(worker.source)].state # "completed"

LEMMA SignInvStep ==
    ASSUME Inv, Inv', Effects, SignInv
    PROVE  SignInv'
  <1> SUFFICES ASSUME worker'.step # "idle" PROVE jobs'[Sign(worker'.source)].state # "completed"
    BY DEF SignInv
  <1>1. worker'.source \in Sources
    BY DEF Inv, WorkerOK, Worker
  <1>2. ~Completes(Sign(worker'.source))
    BY <1>1 DEF Effects, SignsDone
  <1> QED
    BY <1>1, <1>2 DEF Effects, WorkerMoves, SignInv, Completes

\* A finished signing is not repeated: the completed sign job and the derivative
\* it names are final, and no further derivative of that source is uploaded,
\* however often the refresh is retried, the upload repeated or a process killed
\* (handleDeviceRefreshSign, validateSignUploadBinding).
THEOREM FinishedSigningIsFinal == Spec => CompletedSignIsReused
  <1> DEFINE A == \A s \in Sources :
                    /\ jobs[Sign(s)].state = "completed" =>
                         jobs'[Sign(s)] = jobs[Sign(s)] /\ output'[s] = output[s]
                    /\ Len(derived') > Len(derived) /\ derived'[Len(derived')] = s =>
                         jobs[Sign(s)].state # "completed"
  <1>1. Init => SignInv
    BY DEF Init, SignInv, IdleWorker
  <1>2. Inv /\ Inv' /\ SignInv /\ [Next]_vars => SignInv'
    BY WorkflowStep, SignInvStep DEF vars, SignInv
  <1>3. ASSUME Inv, SignInv, Next PROVE A
    <2>1. Effects /\ derived \in Seq(Sources) /\ Len(derived) \in Nat
      BY <1>3, WorkflowStep DEF Inv, DerivedOK
    <2>2. ASSUME NEW s \in Sources, jobs[Sign(s)].state = "completed"
          PROVE  jobs'[Sign(s)] = jobs[Sign(s)] /\ output'[s] = output[s]
      BY <2>1, <2>2, Ids DEF Effects, JobsStep, LegalRow, SignsDone
    <2>3. ASSUME NEW s \in Sources, Len(derived') > Len(derived), derived'[Len(derived')] = s
          PROVE  jobs[Sign(s)].state # "completed"
      <3>1. worker.step = "publish" /\ derived' = Append(derived, worker.source)
        BY <2>1, <2>3 DEF Effects, DerivedGrows
      <3>2. worker.source \in Sources
        BY <1>3, <3>1 DEF Inv, WorkerOK, Worker
      <3>3. derived'[Len(derived')] = worker.source
        BY <2>1, <3>1, <3>2
      <3> QED
        BY <1>3, <2>3, <3>1, <3>3 DEF SignInv
    <2> QED
      BY <2>2, <2>3
  <1>4. Inv /\ SignInv /\ [Next]_vars => [A]_vars
    BY <1>3
  <1> QED
    BY <1>1, <1>2, <1>4, Workflow, PTL DEF Spec, CompletedSignIsReused

\* A terminal category of the refresh comes from a sign job that failed with one.
CauseInv ==
    /\ jobs[Refresh].deadReason = "terminal_error" => Condemned(jobs[Refresh])
    /\ jobs[Refresh].category \in terminalErrorCategories => Cause

LEMMA CauseInvStep ==
    ASSUME Effects, CauseInv
    PROVE  CauseInv'
  <1>1. Cause => Cause'
    BY Ids DEF Effects, JobsStep, LegalRow, Cause
  <1>2. jobs'[Refresh].deadReason = "terminal_error" => Condemned(jobs'[Refresh])
    BY Ids DEF Effects, JobsStep, LegalRow, CauseInv
  <1>3. jobs'[Refresh].category \in terminalErrorCategories => Cause'
    BY <1>1 DEF Effects, CategoryHasCause, CauseInv
  <1> QED
    BY <1>2, <1>3 DEF CauseInv

\* A refresh dies of a terminal error only when its signing did: an authentication
\* or certificate failure is never invented on the way (_fail_refresh, _await_sign,
\* ReapedRow), so the operator is asked only where signing asks for one.
THEOREM TerminalErrorsComeFromSigning == Spec => []TerminalRefreshHasCause
  <1>1. Init => CauseInv
    <2>1. /\ CreatedRow("now").deadReason # "terminal_error"
          /\ CreatedRow("now").category \notin terminalErrorCategories
      BY DEF CreatedRow, NoRow, terminalErrorCategories
    <2> QED
      BY <2>1, Ids DEF Init, CauseInv
  <1>2. Inv /\ CauseInv /\ [Next]_vars => CauseInv'
    BY WorkflowStep, CauseInvStep DEF vars, CauseInv, Cause
  <1>3. CauseInv => TerminalRefreshHasCause
    BY DEF CauseInv, Cause, Condemned, TerminalRefreshHasCause
  <1> QED
    BY <1>1, <1>2, <1>3, Workflow, PTL DEF Spec

-------------------------------------------------------------------------------
(***************************************************************************)
(* A refresh without an update round.                                      *)
(***************************************************************************)

\* resolveUpdateArtifact offers no newer artifact.
NoUpdate == UpdateChoices \subseteq {FALSE}

\* The one source is the one the refresh names.
OneSource ==
    /\ \A i \in DOMAIN children : children[i] = Original
    /\ ~service.updating /\ ~service.fallback
    /\ service.source \in {Original, None}

\* A completed install job reached the device.
InstallsReached ==
    \A d \in Derivatives : jobs[Install(d)].state = "completed" => d \in installed

\* What the service believes of sign and install job is so.
ServiceKnows ==
    /\ service.step \in {"ensure", "install", "installed", "complete"} =>
         jobs[Sign(Original)].state = "completed" /\ service.signed = output[Original]
    /\ service.step \in {"install", "installed", "complete"} => service.install = service.signed
    /\ service.step \in {"installed", "complete"} => service.signed \in installed
    /\ service.step = "complete" => jobs[Install(service.install)].state = "completed"
    /\ service.step = "polledInstalled" => service.install \in installed

OneSourceInv == OneSource /\ InstallsReached /\ ServiceKnows /\ CompletedNamesInstalled

\* What the effects of any step keep.
LEMMA OneSourceFrame ==
    ASSUME Inv, Effects, OneSourceInv
    PROVE  /\ InstallsReached' /\ CompletedNamesInstalled'
           /\ \A d \in Derivatives : jobs[Install(d)].state = "completed" =>
                                        jobs'[Install(d)].state = "completed"
           /\ jobs[Sign(Original)].state = "completed" =>
                jobs'[Sign(Original)].state = "completed" /\ output'[Original] = output[Original]
  <1>1. \A d \in Derivatives : jobs[Install(d)].state = "completed" =>
                                 jobs'[Install(d)].state = "completed"
    BY Ids DEF Effects, JobsStep, LegalRow
  <1>2. jobs[Sign(Original)].state = "completed" =>
          jobs'[Sign(Original)].state = "completed" /\ output'[Original] = output[Original]
    BY Ids, Numbers DEF Effects, JobsStep, LegalRow, SignsDone
  <1>3. InstallsReached'
    <2>1. ASSUME NEW d \in Derivatives, jobs'[Install(d)].state = "completed"
          PROVE  d \in installed'
      <3>1. CASE jobs[Install(d)].state = "completed"
        BY <3>1 DEF OneSourceInv, InstallsReached, Effects
      <3>2. CASE jobs[Install(d)].state # "completed"
        <4>1. service.step \in {"installed", "polledInstalled"} /\ service.install = d
          BY <2>1, <3>2 DEF Effects, InstallsDone, Completes
        <4> QED
          BY <4>1 DEF OneSourceInv, ServiceKnows, Effects
      <3> QED
        BY <3>1, <3>2
    <2> QED
      BY <2>1 DEF InstallsReached
  <1>4. CompletedNamesInstalled'
    <2> SUFFICES ASSUME jobs'[Refresh].state = "completed"
                 PROVE  /\ record'.signed \in installed'
                        /\ record'.install = record'.signed
                        /\ jobs'[Install(record'.install)].state = "completed"
      BY DEF CompletedNamesInstalled
    <2>1. CASE jobs[Refresh].state = "completed"
      <3>1. record' = record
        BY <2>1 DEF Effects, RefreshDone
      <3>2. /\ record.signed \in installed /\ record.install = record.signed
            /\ jobs[Install(record.install)].state = "completed"
        BY <2>1 DEF OneSourceInv, CompletedNamesInstalled
      <3>3. record.install \in Derivatives
        BY <3>2 DEF Inv, DeviceOK
      <3> QED
        BY <1>1, <3>1, <3>2, <3>3 DEF Effects
    <2>2. CASE jobs[Refresh].state # "completed"
      <3>1. /\ service.step = "complete"
            /\ record' = [signed |-> service.signed, install |-> service.install]
        BY <2>2 DEF Effects, RefreshDone, Completes
      <3>2. /\ service.signed \in installed /\ service.install = service.signed
            /\ jobs[Install(service.install)].state = "completed"
        BY <3>1 DEF OneSourceInv, ServiceKnows
      <3>3. service.install \in Derivatives
        BY <3>2 DEF Inv, DeviceOK
      <3> QED
        BY <1>1, <3>1, <3>2, <3>3 DEF Effects
    <2> QED
      BY <2>1, <2>2
  <1> QED
    BY <1>1, <1>2, <1>3, <1>4

\* A step after which the service is where it was, or idle.
LEMMA ServiceStays ==
    ASSUME Inv, Effects, OneSourceInv, children' = children,
           service' = service \/ service' = IdleService
    PROVE  OneSourceInv'
  <1>1. OneSource'
    BY DEF OneSourceInv, OneSource, IdleService
  <1>2. ServiceKnows'
    <2>1. CASE service' = IdleService
      BY <2>1 DEF ServiceKnows, IdleService
    <2>2. CASE service' = service
      <3>1. service.step = "complete" => service.install \in Derivatives
        BY DEF Inv, ServiceOK, Service
      <3> QED
        BY <2>2, <3>1, OneSourceFrame DEF OneSourceInv, ServiceKnows, Effects
    <2> QED
      BY <2>1, <2>2
  <1> QED
    BY <1>1, <1>2, OneSourceFrame DEF OneSourceInv

\* The request names the original artifact.
LEMMA RequestsOriginal ==
    ASSUME NoUpdate, Inv, Effects, OneSourceInv, RequestSign
    PROVE  OneSourceInv'
  <1>1. PICK updating \in UpdateChoices :
          /\ EnsureSign(SignSource(updating))
          /\ service' = [service EXCEPT !.step = "await",
                           !.updating = IF service.fallback THEN @ ELSE updating,
                           !.source = SignSource(updating)]
    BY DEF RequestSign
  <1>2. ~updating /\ SignSource(updating) = Original /\ ~service.fallback
    BY DEF NoUpdate, SignSource, OneSourceInv, OneSource
  <1>3. service' = [service EXCEPT !.step = "await", !.updating = updating, !.source = Original]
    BY <1>1, <1>2
  <1>4. /\ service'.step = "await" /\ ~service'.updating /\ ~service'.fallback
        /\ service'.source = Original
    BY <1>2, <1>3 DEF Inv, ServiceOK, Service
  <1>5. children' = children \/ children' = Append(children, Original)
    BY <1>1, <1>2 DEF EnsureSign
  <1>6. \A i \in DOMAIN children' : children'[i] = Original
    BY <1>5, Numbers DEF OneSourceInv, OneSource, Inv, ChildrenOK
  <1> QED
    BY <1>4, <1>6, OneSourceFrame DEF OneSourceInv, OneSource, ServiceKnows

\* The newest sign child is the one the service waited for.
LEMMA EnsuresSigned ==
    ASSUME Inv, Effects, OneSourceInv, EnsureInstall
    PROVE  OneSourceInv'
  <1>1. /\ service \in Service /\ service.step = "ensure" /\ children # <<>>
        /\ jobs[Sign(Original)].state = "completed" /\ service.signed = output[Original]
    BY DEF Inv, ServiceOK, EnsureInstall, OneSourceInv, ServiceKnows
  <1>2. NewestChild = Original
    BY <1>1 DEF Inv, ChildrenOK, OneSourceInv, OneSource, NewestChild
  <1>3. output[Original] \in Derivatives
    BY <1>1, Numbers DEF Inv, OutputOK
  <1> DEFINE d == output[Original]
             done == jobs[Install(d)].state = "completed"
  <1>4. service' = [service EXCEPT !.install = d, !.step = IF done THEN "complete" ELSE "install"]
    BY <1>2 DEF EnsureInstall
  <1> HIDE DEF d, done
  <1>5. /\ service'.install = d /\ service'.signed = service.signed
        /\ service'.step = IF done THEN "complete" ELSE "install"
        /\ service'.updating = service.updating /\ service'.fallback = service.fallback
        /\ service'.source = service.source
    BY <1>1, <1>4 DEF Service
  <1>6. OneSource'
    BY <1>5 DEF OneSourceInv, OneSource, EnsureInstall
  <1>7. done => d \in installed' /\ jobs'[Install(d)].state = "completed"
    BY <1>3, OneSourceFrame DEF done, d, OneSourceInv, InstallsReached, Effects
  <1>8. ServiceKnows'
    BY <1>1, <1>5, <1>7, OneSourceFrame DEF ServiceKnows, d
  <1> QED
    BY <1>6, <1>8, OneSourceFrame DEF OneSourceInv

\* The other moves of the device service.
LEMMA ServiceLearns ==
    ASSUME Inv, Effects, OneSourceInv,
           \/ PollRefresh \/ \E d \in Derivatives : PollInstall(d)
           \/ RunPolled \/ SignArrived \/ RunWrapper
           \/ ReportInstalled \/ \E category \in Failures : SignGivenUp(category)
    PROVE  OneSourceInv'
  <1>1. service \in Service
    BY DEF Inv, ServiceOK
  <1>2. CASE PollRefresh \/ \E d \in Derivatives : PollInstall(d)
    <2>1. /\ service'.step \in {"sign", "polled"} /\ service'.source = None
          /\ ~service'.updating /\ ~service'.fallback /\ children' = children
      BY <1>2 DEF PollRefresh, PollInstall, IdleService
    <2>2. OneSource' /\ ServiceKnows'
      BY <2>1 DEF OneSourceInv, OneSource, ServiceKnows
    <2> QED
      BY <2>2, OneSourceFrame DEF OneSourceInv
  <1>3. CASE RunPolled
    <2>1. OneSource' /\ ServiceKnows'
      BY <1>1, <1>3 DEF RunPolled, OneSourceInv, OneSource, ServiceKnows, Service
    <2> QED
      BY <2>1, OneSourceFrame DEF OneSourceInv
  <1>4. CASE SignArrived
    <2>1. service.source = Original
      BY <1>4, Numbers DEF SignArrived, Inv, ServiceOK, OneSourceInv, OneSource
    <2>2. OneSource' /\ ServiceKnows'
      BY <1>4, <2>1 DEF SignArrived, OneSourceInv, OneSource, ServiceKnows, IdleService
    <2> QED
      BY <2>2, OneSourceFrame DEF OneSourceInv
  <1>5. CASE RunWrapper
    <2>1. OneSource' /\ ServiceKnows'
      BY <1>1, <1>5 DEF RunWrapper, OneSourceInv, OneSource, ServiceKnows, Service
    <2> QED
      BY <2>1, OneSourceFrame DEF OneSourceInv
  <1>6. CASE ReportInstalled
    <2> DEFINE k == Install(service.install)
    <2>1. service.step = "installed" /\ service.install \in Derivatives /\ children' = children
      BY <1>1, <1>6 DEF ReportInstalled, Inv, ServiceOK, Service
    <2>2. CASE service' = IdleService
      BY <2>1, <2>2, ServiceStays
    <2>3. CASE service' # IdleService
      <3>1. /\ Holds(jobs, DeviceService, k)
            /\ jobs' = Reported(jobs, DeviceService, k, "completed", "")
            /\ service' = [service EXCEPT !.step = "complete"]
        BY <1>6, <2>3 DEF ReportInstalled, FailRefresh
      <3>2. jobs'[k].state = "completed"
        <4>1. k \in JobIds /\ JobsOK /\ DeviceService \in Agents /\ "" \in Categories
          BY <2>1, Ids, WorkflowAssumptions DEF Inv, Categories
        <4>2. Reported(jobs, DeviceService, k, "completed", "")[k].state = "completed"
          BY <3>1, <4>1, ReportLegal
        <4> QED
          BY <3>1, <4>2
      <3>3. OneSource' /\ ServiceKnows'
        BY <1>1, <2>1, <3>1, <3>2, OneSourceFrame
           DEF OneSourceInv, OneSource, ServiceKnows, Service, Effects
      <3> QED
        BY <3>3, OneSourceFrame DEF OneSourceInv
    <2> QED
      BY <2>2, <2>3
  <1>7. CASE \E category \in Failures : SignGivenUp(category)
    <2>1. service' = IdleService /\ children' = children
      BY <1>7 DEF SignGivenUp, FailRefresh, OneSourceInv, OneSource
    <2> QED
      BY <2>1, ServiceStays
  <1> QED
    BY <1>2, <1>3, <1>4, <1>5, <1>6, <1>7

LEMMA OneSourceStep ==
    ASSUME NoUpdate, Inv, Next, OneSourceInv
    PROVE  OneSourceInv'
  <1>1. Effects
    BY WorkflowStep
  <1>2. \/ children' = children /\ (service' = service \/ service' = IdleService)
        \/ RequestSign \/ EnsureInstall
        \/ PollRefresh \/ \E d \in Derivatives : PollInstall(d)
        \/ RunPolled \/ SignArrived \/ RunWrapper
        \/ ReportInstalled \/ \E category \in Failures : SignGivenUp(category)
    BY DEF Next, Reap, RetryComesDue, ReportPolled, SignRefused, AwaitInterrupted, EnsureRefused,
           InstallFailed, CompleteRefresh, CrashService, ClaimSign, SignFailed, Signed,
           ValidateUpload, UploadRefused, PublishUpload, ReportSigned, CrashWorker, FailRefresh
  <1> QED
    BY <1>1, <1>2, ServiceStays, RequestsOriginal, EnsuresSigned, ServiceLearns

\* Comment of applyRefreshOutcome: "The completed refresh names the exact signed
\* artifact installed and the install job that installed it".  Where no update is
\* offered this holds through every crash, lost report, repeated upload and
\* retried install; with an update and a fallback it does not (wrong_derivative.cfg).
THEOREM RefreshNamesInstalled ==
    ASSUME NoUpdate
    PROVE  Spec => []CompletedNamesInstalled
  <1>1. Init => OneSourceInv
    <2> SUFFICES ASSUME Init PROVE OneSourceInv
      OBVIOUS
    <2>1. \A d \in Derivatives : jobs[Install(d)].state = "absent"
      BY Ids, NoRowOK DEF Init
    <2>2. jobs[Refresh].state = "pending"
      BY Ids, CreatedRowOK DEF Init
    <2> QED
      BY <2>1, <2>2 DEF Init, OneSourceInv, OneSource, InstallsReached, ServiceKnows,
                        CompletedNamesInstalled, IdleService
  <1>2. Inv /\ OneSourceInv /\ [Next]_vars => OneSourceInv'
    <2>1. ASSUME OneSourceInv, UNCHANGED vars PROVE OneSourceInv'
      BY <2>1 DEF vars, OneSourceInv, OneSource, InstallsReached, ServiceKnows,
                  CompletedNamesInstalled
    <2> QED
      BY <2>1, OneSourceStep
  <1>3. OneSourceInv => CompletedNamesInstalled
    BY DEF OneSourceInv
  <1> QED
    BY <1>1, <1>2, <1>3, Workflow, PTL DEF Spec
===============================================================================
