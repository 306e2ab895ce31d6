------------------------- MODULE WorkerRequestsProofs -------------------------
(***************************************************************************)
(* What requests that share one export job may rely on, for any number of  *)
(* requests and any budget.                                                *)
(***************************************************************************)
EXTENDS WorkerRequests, FiniteSetTheorems, TLAPS

\* What holds of the request w in the state q.  Its row is the stored one unless
\* another request has purged the key; after its own purge it has seen a row
\* that is neither stored nor polled any more.
Sound(w, q) ==
    /\ q.step = "judge" => q.id \in 1..inserted
    /\ q.tried \subseteq 1..inserted
    /\ q.step # "done" => q.answer = "none"
    /\ q.step = "judge" /\ q.state \in Broken => q.id \in q.tried
    /\ q.step = "judge" /\ q.state \in Broken /\ q.id = id => row.state \in Broken
    /\ q.retried /\ ~q.unpurged =>
            \E t \in q.tried : t # id /\ (q.step = "judge" => t # q.id)
    /\ q.answer = "failed" /\ ~q.unpurged => \E t, u \in q.tried : t # u
    /\ q.step = "reread" => row.state # "absent" \/ purgers \ {w} # {}
    /\ q.step = "judge" => q.id = id \/ purgers \ {w} # {}
    /\ q.answer = "error" => purgers \ {w} # {}

IInv ==
    /\ TypeOK
    /\ row.state = "absent" <=> id = 0
    /\ \A w \in Requests : Sound(w, waiting[w])

-------------------------------------------------------------------------------
(***************************************************************************)
(* Rows.                                                                   *)
(***************************************************************************)
LEMMA NewRowType ==
    /\ NoRow \in Row /\ NoRow.state = "absent"
    /\ CreatedRow("now") \in Row /\ CreatedRow("now").state = "pending"
  <1>1. NoRow \in Row /\ NoRow.state = "absent"
    BY DEF NoRow, Row, Categories
  <1>2. CreatedRow("now") \in Row /\ CreatedRow("now").state = "pending"
    BY DEF NoRow, CreatedRow, Row, States, Categories
  <1> QED
    BY <1>1, <1>2

LEMMA ClaimedRowType ==
    ASSUME NEW r \in Row, NEW a \in Agents
    PROVE  ClaimedRow(r, a) \in Row /\ ClaimedRow(r, a).state = "claimed"
  <1>1. r.attempt + 1 \in Nat
    BY DEF Row
  <1> QED
    BY <1>1 DEF ClaimedRow, Row, States

LEMMA UpdatedRowType ==
    ASSUME NEW r \in Row, NEW to \in {"completed", "failed"}, NEW category \in Categories
    PROVE  UpdatedRow(r, to, category) \in Row /\ UpdatedRow(r, to, category).state = to
  <1>1. UpdatedCategory(r, to, category) \in Categories
    BY DEF UpdatedCategory, Row, Categories
  <1> QED
    BY <1>1 DEF UpdatedRow, Row, States

\* The reaper takes an export from a silent holder and from nobody else.
LEMMA ReapedRowType ==
    ASSUME NEW r \in Row, Reapable(Lapsed(r), "export_p12")
    PROVE  /\ r.state \in Active
           /\ ReapedRow(Lapsed(r), ExportBudget) \in Row
           /\ ReapedRow(Lapsed(r), ExportBudget).state \in {"pending", "dead"}
  <1>1. r.state \in Active
    BY DEF Reapable, Lapsed
  <1>2. PICK l \in Row : l = Lapsed(r)
    BY <1>1 DEF Lapsed, Row
  <1>3. CASE FailedTerminally(l)
    BY <1>1, <1>2, <1>3 DEF ReapedRow, DeadRow, Row, States
  <1>4. CASE ~FailedTerminally(l) /\ l.attempt >= AttemptBudget(ExportBudget)
    BY <1>1, <1>2, <1>4 DEF ReapedRow, DeadRow, Row, States
  <1>5. CASE ~FailedTerminally(l) /\ ~(l.attempt >= AttemptBudget(ExportBudget))
    BY <1>1, <1>2, <1>5 DEF ReapedRow, RequeuedRow, Row, States
  <1> QED
    BY <1>3, <1>4, <1>5

-------------------------------------------------------------------------------
LEMMA InitInv == Init => IInv
  <1> SUFFICES ASSUME Init PROVE IInv
    OBVIOUS
  <1>1. NewRequest \in Request
    <2>1. {} \in SUBSET Nat /\ 0 \in Nat /\ "pending" \in States
      BY DEF States
    <2> QED
      BY <2>1 DEF NewRequest, Request
  <1>2. TypeOK
    <2>1. waiting \in [Requests -> Request] /\ row \in Row
      BY <1>1, NewRowType DEF Init
    <2>2. inserted \in Nat /\ id \in 0..inserted /\ worker \in 0..inserted
      BY DEF Init
    <2> QED
      BY <2>1, <2>2 DEF Init, TypeOK
  <1>3. row.state = "absent" /\ id = 0
    BY NewRowType DEF Init
  <1>4. \A w \in Requests : Sound(w, waiting[w])
    BY DEF Init, Sound, NewRequest
  <1> QED
    BY <1>2, <1>3, <1>4 DEF IInv

\* A step that leaves the stored row in place, or breaks it for good.
LEMMA SameRow ==
    ASSUME NEW w, NEW q, Sound(w, q),
           id' = id, inserted' = inserted, purgers' = purgers,
           row.state \in Broken => row'.state \in Broken,
           row.state # "absent" => row'.state # "absent"
    PROVE  Sound(w, q)'
  BY DEF Sound

\* A step of the worker, the reaper or the clock.
LEMMA RowStep ==
    ASSUME IInv, UNCHANGED <<id, inserted, waiting, purgers>>,
           row' \in Row, archive' \in BOOLEAN, worker' \in 0..inserted,
           row.state \in Broken => row'.state \in Broken,
           row.state = "absent" <=> row'.state = "absent"
    PROVE  IInv'
  <1>1. TypeOK'
    BY DEF IInv, TypeOK
  <1>2. \A w \in Requests : Sound(w, waiting[w])'
    <2> TAKE w \in Requests
    <2>1. PICK q : q = waiting[w]
      OBVIOUS
    <2>2. Sound(w, q)'
      BY <2>1, SameRow DEF IInv
    <2> QED
      BY <2>1, <2>2 DEF Sound
  <1> QED
    BY <1>1, <1>2 DEF IInv

\* A step of the request w to the state new that leaves the row alone.
LEMMA ReadStep ==
    ASSUME IInv, NEW w \in Requests, NEW new \in Request,
           waiting' = [waiting EXCEPT ![w] = new],
           UNCHANGED <<row, id, archive, inserted, worker, purgers>>,
           Sound(w, new)
    PROVE  IInv'
  <1>1. TypeOK'
    BY DEF IInv, TypeOK
  <1>2. \A v \in Requests : Sound(v, waiting'[v])
    BY DEF IInv, TypeOK
  <1>3. \A v \in Requests : Sound(v, waiting[v])'
    BY <1>2 DEF Sound
  <1> QED
    BY <1>1, <1>3 DEF IInv

-------------------------------------------------------------------------------
(***************************************************************************)
(* The requests.                                                           *)
(***************************************************************************)

Snapshot(q, i, state, a, tried) ==
    [q EXCEPT !.step = "judge", !.id = i, !.state = state, !.archive = a, !.tried = tried]

\* A snapshot replaces what the request knew, and nothing else.
LEMMA SnapshotType ==
    ASSUME NEW q \in Request, NEW i \in Nat, NEW state \in States, NEW a \in BOOLEAN,
           NEW tried \in SUBSET Nat, NEW new, new = Snapshot(q, i, state, a, tried)
    PROVE  /\ new \in Request
           /\ new.step = "judge" /\ new.id = i /\ new.state = state
           /\ new.tried = tried /\ new.retried = q.retried /\ new.answer = q.answer
           /\ new.unpurged = q.unpurged
  BY DEF Request, Snapshot

\* What a request knows after it has read the stored row.
LEMMA SeenSound ==
    ASSUME IInv, NEW w \in Requests, row.state # "absent", waiting[w].step # "done"
    PROVE  /\ Seen(waiting[w], id, row, archive) \in Request
           /\ Sound(w, Seen(waiting[w], id, row, archive))
  <1> DEFINE q == waiting[w]
             new == Seen(q, id, row, archive)
             tried == IF row.state \in Broken THEN q.tried \union {id} ELSE q.tried
  <1>1. q \in Request /\ Sound(w, q) /\ archive \in BOOLEAN
    BY DEF IInv, TypeOK
  <1>2. row.state \in States
    BY DEF IInv, TypeOK, Row
  <1>3. inserted \in Nat /\ id \in 1..inserted
    BY DEF IInv, TypeOK
  <1>4. tried \in SUBSET Nat /\ tried \subseteq 1..inserted /\ q.tried \subseteq tried
        /\ (row.state \in Broken => id \in tried)
    <2>1. q.tried \subseteq 1..inserted
      BY <1>1 DEF Sound
    <2>2. tried \subseteq 1..inserted
      BY <1>3, <2>1
    <2> QED
      BY <1>3, <2>2
  <1>5. new = Snapshot(q, id, row.state, archive, tried)
    BY <1>1 DEF Seen, Snapshot, Request
  <1> HIDE DEF new, tried
  <1>6. /\ new \in Request
        /\ new.step = "judge" /\ new.id = id /\ new.state = row.state
        /\ new.tried = tried /\ new.retried = q.retried /\ new.answer = q.answer
        /\ new.unpurged = q.unpurged
    <2>1. id \in Nat
      BY <1>3
    <2> HIDE DEF q
    <2> QED
      BY <1>1, <1>2, <1>4, <1>5, <2>1, SnapshotType
  <1>7. /\ new.retried /\ ~new.unpurged => \E t \in new.tried : t # id
        /\ new.answer = "none"
    BY <1>1, <1>4, <1>6 DEF Sound
  <1>8. Sound(w, new)
    BY <1>3, <1>4, <1>6, <1>7 DEF Sound
  <1> QED
    BY <1>6, <1>8 DEF new

\* An answer changes nothing else.
LEMMA AnsweredType ==
    ASSUME NEW q \in Request,
           NEW answer \in {"none", "archive", "failed", "pending", "error"}
    PROVE  /\ Answered(q, answer) \in Request
           /\ Answered(q, answer).step = "done" /\ Answered(q, answer).answer = answer
           /\ Answered(q, answer).tried = q.tried
           /\ Answered(q, answer).retried = q.retried
           /\ Answered(q, answer).unpurged = q.unpurged
  BY DEF Answered, Request

\* A request that answers, with a reason for the answers that need one.
LEMMA AnswerStep ==
    ASSUME IInv, NEW w \in Requests,
           NEW answer \in {"none", "archive", "failed", "pending", "error"},
           waiting' = [waiting EXCEPT ![w] = Answered(waiting[w], answer)],
           UNCHANGED <<row, id, archive, inserted, worker, purgers>>,
           answer = "failed" /\ ~waiting[w].unpurged => \E t, u \in waiting[w].tried : t # u,
           answer = "error" => purgers \ {w} # {}
    PROVE  IInv'
  <1>1. waiting[w] \in Request /\ Sound(w, waiting[w])
    BY DEF IInv, TypeOK
  <1>2. PICK q \in Request : q = Answered(waiting[w], answer)
    BY <1>1, AnsweredType
  <1>3. /\ q.step = "done" /\ q.answer = answer
        /\ q.tried = waiting[w].tried /\ q.retried = waiting[w].retried
        /\ q.unpurged = waiting[w].unpurged
    BY <1>1, <1>2, AnsweredType
  <1>4. Sound(w, q)
    BY <1>1, <1>3 DEF Sound
  <1> QED
    BY <1>2, <1>4, ReadStep

\* Two sightings of broken rows, before and after the purge, if it was one.
LEMMA GiveUpInv ==
    ASSUME IInv, NEW w \in Requests, GiveUp(w)
    PROVE  IInv'
  <1>1. ~waiting[w].unpurged => \E t, u \in waiting[w].tried : t # u
    BY DEF IInv, Sound, GiveUp, Judges
  <1> QED
    BY <1>1, AnswerStep DEF GiveUp, jobVars

LEMMA QuietAnswersInv ==
    ASSUME IInv, NEW w \in Requests, Serve(w) \/ Timeout(w)
    PROVE  IInv'
  BY AnswerStep DEF Serve, Timeout, jobVars

LEMMA CreateRereadInv ==
    ASSUME IInv, NEW w \in Requests, CreateReread(w)
    PROVE  IInv'
  <1>1. UNCHANGED <<row, id, archive, inserted, worker, purgers>>
        /\ waiting[w].step = "reread"
    BY DEF CreateReread, jobVars
  <1>2. CASE row.state = "absent"
    <2>1. purgers \ {w} # {}
      BY <1>1, <1>2 DEF IInv, Sound
    <2> QED
      BY <1>1, <1>2, <2>1, AnswerStep DEF CreateReread
  <1>3. CASE row.state # "absent"
    BY <1>1, <1>3, SeenSound, ReadStep DEF CreateReread
  <1> QED
    BY <1>2, <1>3

LEMMA PollInv ==
    ASSUME IInv, NEW w \in Requests, Poll(w)
    PROVE  IInv'
  <1>1. UNCHANGED <<row, id, archive, inserted, worker, purgers>>
        /\ waiting[w].step = "judge"
    BY DEF Poll, Waits, Judges, jobVars
  <1>2. CASE id # waiting[w].id
    <2>1. purgers \ {w} # {}
      BY <1>1, <1>2 DEF IInv, Sound
    <2> QED
      BY <1>1, <1>2, <2>1, AnswerStep DEF Poll
  <1>3. CASE id = waiting[w].id
    <2>1. row.state # "absent"
      BY <1>1, <1>3 DEF IInv, Sound
    <2> QED
      BY <1>1, <1>3, <2>1, SeenSound, ReadStep DEF Poll
  <1> QED
    BY <1>2, <1>3

\* The key was taken: nothing is known yet.
LEMMA CreateTakenInv ==
    ASSUME IInv, NEW w \in Requests, CreateInsert(w), row.state # "absent"
    PROVE  IInv'
  <1> DEFINE new == [waiting[w] EXCEPT !.step = "reread"]
  <1>1. /\ UNCHANGED <<row, id, archive, inserted, worker, purgers>>
        /\ waiting' = [waiting EXCEPT ![w] = new]
        /\ waiting[w].step \in {"new", "insert"}
    BY DEF CreateInsert, jobVars, IInv, TypeOK
  <1>2. waiting[w] \in Request /\ Sound(w, waiting[w])
    BY DEF IInv, TypeOK
  <1>3. /\ new \in Request /\ new.step = "reread" /\ new.tried = waiting[w].tried
        /\ new.retried = waiting[w].retried /\ new.answer = waiting[w].answer
        /\ new.unpurged = waiting[w].unpurged
    BY <1>2 DEF Request
  <1> HIDE DEF new
  <1>4. Sound(w, new)
    BY <1>1, <1>2, <1>3 DEF Sound
  <1> QED
    BY <1>1, <1>3, <1>4, ReadStep

\* A new row has a number no request has seen.
LEMMA CreateFreshInv ==
    ASSUME IInv, NEW w \in Requests, CreateInsert(w), row.state = "absent"
    PROVE  IInv'
  <1> DEFINE new == Seen(waiting[w], id', row', FALSE)
  <1>1. /\ row' = CreatedRow("now") /\ inserted' = inserted + 1 /\ id' = inserted'
        /\ archive' = FALSE /\ waiting' = [waiting EXCEPT ![w] = new]
        /\ UNCHANGED <<worker, purgers>> /\ waiting[w].step \in {"new", "insert"}
    BY DEF CreateInsert
  <1>2. /\ waiting[w] \in Request /\ Sound(w, waiting[w])
        /\ inserted \in Nat /\ id = 0 /\ worker \in 0..inserted
    BY DEF IInv, TypeOK
  <1>3. row' \in Row /\ row'.state = "pending" /\ row'.state \in States
    BY <1>1, NewRowType DEF States
  <1>4. /\ inserted' \in Nat /\ id' \in 1..inserted' /\ id' \in Nat /\ id' \notin 1..inserted
        /\ \A m : m \in 0..inserted => m \in 0..inserted'
        /\ \A m : m \in 1..inserted => m \in 1..inserted'
    BY <1>1, <1>2
  <1>5. new = Snapshot(waiting[w], id', row'.state, FALSE, waiting[w].tried)
    BY <1>2, <1>3 DEF Seen, Snapshot, Request, Broken
  <1> HIDE DEF new
  <1>6. /\ new \in Request
        /\ new.step = "judge" /\ new.id = id' /\ new.state = "pending"
        /\ new.tried = waiting[w].tried /\ new.retried = waiting[w].retried
        /\ new.answer = waiting[w].answer /\ new.unpurged = waiting[w].unpurged
    <2>1. waiting[w].tried \in SUBSET Nat
      BY <1>2 DEF Request
    <2>2. PICK q \in Request, i \in Nat, state \in States, a \in BOOLEAN,
               tried \in SUBSET Nat, n \in {new} :
            /\ q = waiting[w] /\ i = id' /\ a = FALSE /\ state = row'.state
            /\ tried = waiting[w].tried /\ n = new
      BY <1>2, <1>3, <1>4, <2>1
    <2>3. n = Snapshot(q, i, state, a, tried)
      BY <1>5, <2>2
    <2>4. /\ n \in Request /\ n.step = "judge" /\ n.id = i /\ n.state = state
          /\ n.tried = tried /\ n.retried = q.retried /\ n.answer = q.answer
          /\ n.unpurged = q.unpurged
      BY <2>3, SnapshotType
    <2> QED
      BY <1>3, <2>2, <2>4
  <1>7. TypeOK'
    <2>1. waiting' \in [Requests -> Request]
      BY <1>1, <1>6 DEF IInv, TypeOK
    <2>2. id' \in 0..inserted' /\ worker' \in 0..inserted'
      BY <1>1, <1>2, <1>4
    <2> QED
      BY <1>1, <1>3, <1>4, <2>1, <2>2 DEF IInv, TypeOK
  <1>8. ASSUME NEW v \in Requests PROVE Sound(v, waiting[v])'
    <2>1. CASE v = w
      <3>1. waiting'[v] = new
        BY <1>1, <2>1 DEF IInv, TypeOK
      <3>2. new.retried /\ ~new.unpurged => \E t \in new.tried : t # id'
        BY <1>2, <1>4, <1>6 DEF Sound
      <3>3. new.answer = "none" /\ new.tried \subseteq 1..inserted'
        BY <1>1, <1>2, <1>4, <1>6 DEF Sound
      <3> QED
        BY <1>1, <1>3, <1>4, <1>6, <2>1, <3>1, <3>2, <3>3 DEF Sound, Broken
    <2>2. CASE v # w
      <3>1. PICK q : q = waiting[v] /\ q = waiting'[v]
        BY <1>1, <2>2 DEF IInv, TypeOK
      <3>2. Sound(v, q)
        BY <3>1 DEF IInv
      <3>3. q.step = "judge" => q.id \in 1..inserted /\ q.id # id' /\ q.id # id
        BY <1>2, <1>4, <3>2 DEF Sound
      <3>4. q.tried \subseteq 1..inserted /\ q.tried \subseteq 1..inserted'
            /\ \A t \in q.tried : t # id'
        BY <1>4, <3>2 DEF Sound
      <3>5. Sound(v, q)'
        BY <1>1, <1>3, <1>4, <3>2, <3>3, <3>4 DEF Sound
      <3> QED
        BY <3>1, <3>5 DEF Sound
    <2> QED
      BY <2>1, <2>2
  <1>9. row'.state = "absent" <=> id' = 0
    BY <1>3, <1>4
  <1> QED
    BY <1>7, <1>8, <1>9 DEF IInv

\* The purged row is one the request has seen, and the others lose theirs to it.
LEMMA PurgeInv ==
    ASSUME IInv, NEW w \in Requests, Purge(w)
    PROVE  IInv'
  <1> DEFINE new == [waiting[w] EXCEPT !.step = "insert", !.retried = TRUE]
  <1>1. /\ row' = NoRow /\ id' = 0 /\ archive' = FALSE
        /\ purgers' = purgers \union {w} /\ UNCHANGED <<inserted, worker>>
        /\ waiting[w].step = "judge" /\ waiting[w].state \in Broken
    BY DEF Purge, Judges
  <1>2. waiting[w] \in Request /\ Sound(w, waiting[w]) /\ inserted \in Nat
    BY DEF IInv, TypeOK
  <1>3. waiting' = [waiting EXCEPT ![w] = new]
    BY DEF Purge, IInv, TypeOK
  <1>4. /\ new \in Request /\ new.step = "insert" /\ new.tried = waiting[w].tried
        /\ new.answer = waiting[w].answer
    BY <1>2 DEF Request
  <1>5. row' \in Row /\ row'.state = "absent"
    BY <1>1, NewRowType
  <1> HIDE DEF new
  <1>6. TypeOK'
    <2>1. waiting' \in [Requests -> Request]
      BY <1>3, <1>4 DEF IInv, TypeOK
    <2>2. id' \in 0..inserted' /\ worker' \in 0..inserted' /\ inserted' \in Nat
      BY <1>1, <1>2 DEF IInv, TypeOK
    <2> QED
      BY <1>1, <1>5, <2>1, <2>2 DEF IInv, TypeOK
  <1>7. ASSUME NEW v \in Requests PROVE Sound(v, waiting[v])'
    <2>1. CASE v = w
      <3>1. waiting'[v] = new
        BY <1>3, <2>1 DEF IInv, TypeOK
      <3>2. \E t \in new.tried : t # 0
        BY <1>1, <1>2, <1>4 DEF Sound
      <3>3. new.answer = "none" /\ new.tried \subseteq 1..inserted
        BY <1>1, <1>2, <1>4 DEF Sound
      <3> QED
        BY <1>1, <1>4, <2>1, <3>1, <3>2, <3>3 DEF Sound
    <2>2. CASE v # w
      <3>1. PICK q : q = waiting[v] /\ q = waiting'[v]
        BY <1>3, <2>2 DEF IInv, TypeOK
      <3>2. Sound(v, q)
        BY <3>1 DEF IInv
      <3>3. q.step = "judge" => q.id # 0
        BY <1>2, <3>2 DEF Sound
      <3>4. q.retried /\ ~q.unpurged => \E t \in q.tried : t # 0 /\ (q.step = "judge" => t # q.id)
        BY <1>2, <3>2 DEF Sound
      <3>5. purgers' \ {v} # {}
        BY <1>1, <2>2
      <3>6. Sound(v, q)'
        BY <1>1, <3>2, <3>3, <3>4, <3>5 DEF Sound
      <3> QED
        BY <3>1, <3>6 DEF Sound
    <2> QED
      BY <2>1, <2>2
  <1> QED
    BY <1>1, <1>5, <1>6, <1>7 DEF IInv

\* A purge that fails leaves the row, and the request remembers it.
LEMMA PurgeFailsInv ==
    ASSUME IInv, NEW w \in Requests, PurgeFails(w)
    PROVE  IInv'
  <1> DEFINE new == [waiting[w] EXCEPT !.step = "insert", !.retried = TRUE, !.unpurged = TRUE]
  <1>1. /\ UNCHANGED <<row, id, archive, inserted, worker, purgers>>
        /\ waiting' = [waiting EXCEPT ![w] = new]
        /\ waiting[w].step = "judge"
    BY DEF PurgeFails, Judges, jobVars, IInv, TypeOK
  <1>2. waiting[w] \in Request /\ Sound(w, waiting[w])
    BY DEF IInv, TypeOK
  <1>3. /\ new \in Request /\ new.step = "insert" /\ new.tried = waiting[w].tried
        /\ new.unpurged /\ new.answer = waiting[w].answer
    BY <1>2 DEF Request
  <1> HIDE DEF new
  <1>4. Sound(w, new)
    BY <1>1, <1>2, <1>3 DEF Sound
  <1> QED
    BY <1>1, <1>3, <1>4, ReadStep

-------------------------------------------------------------------------------
(***************************************************************************)
(* The worker, the reaper and the clock.                                   *)
(***************************************************************************)
LEMMA ExportEndsInv ==
    ASSUME IInv, NEW to \in {"completed", "failed"}, NEW category \in Categories,
           NEW found \in BOOLEAN, ExportEnds(to, category, found)
    PROVE  IInv'
  <1>1. UNCHANGED <<id, inserted, waiting, purgers>> /\ worker' \in 0..inserted
    BY DEF ExportEnds, IInv, TypeOK
  <1>2. CASE worker = id /\ row.state \in Active
    <2>1. row' = UpdatedRow(row, to, category) /\ archive' = found
      BY <1>2 DEF ExportEnds
    <2>2. row' \in Row /\ row'.state = to
      BY <2>1, UpdatedRowType DEF IInv, TypeOK
    <2> QED
      BY <1>1, <1>2, <2>1, <2>2, RowStep DEF Active, Broken
  <1>3. CASE ~(worker = id /\ row.state \in Active)
    <2>1. row' = row /\ archive' = archive
      BY <1>3 DEF ExportEnds
    <2>2. row' \in Row /\ archive' \in BOOLEAN
      BY <2>1 DEF IInv, TypeOK
    <2> QED
      BY <1>1, <2>1, <2>2, RowStep
  <1> QED
    BY <1>2, <1>3

LEMMA WorkerInv ==
    ASSUME IInv, ClaimExport \/ WorkerStep
    PROVE  IInv'
  <1>1. CASE ClaimExport
    <2>1. row \in Row /\ row' = ClaimedRow(row, Worker) /\ row.state = "pending"
          /\ archive' \in BOOLEAN /\ worker' \in 0..inserted
          /\ UNCHANGED <<id, inserted, waiting, purgers>>
      BY <1>1 DEF ClaimExport, Claimable, IInv, TypeOK
    <2>2. row' \in Row /\ row'.state = "claimed"
      BY <2>1, ClaimedRowType, RequestAssumptions
    <2> QED
      BY <2>1, <2>2, RowStep DEF Broken
  <1>2. CASE Completes
    BY <1>2, ExportEndsInv DEF Completes, Categories
  <1>3. CASE Fails
    BY <1>3, ExportEndsInv DEF Fails, Categories, terminalErrorCategories
  <1>4. CASE WorkerLost
    <2>1. row' \in Row /\ archive' \in BOOLEAN /\ worker' \in 0..inserted
      BY <1>4 DEF WorkerLost, jobVars, IInv, TypeOK
    <2> QED
      BY <1>4, <2>1, RowStep DEF WorkerLost, jobVars
  <1> QED
    BY <1>1, <1>2, <1>3, <1>4 DEF WorkerStep

LEMMA ReapInv ==
    ASSUME IInv, Reap
    PROVE  IInv'
  <1>1. /\ row \in Row /\ archive' \in BOOLEAN /\ worker' \in 0..inserted
        /\ UNCHANGED <<id, inserted, waiting, purgers>>
        /\ row' = ReapedRow(Lapsed(row), ExportBudget)
        /\ Reapable(Lapsed(row), "export_p12")
    BY DEF Reap, IInv, TypeOK
  <1>2. row.state \in Active /\ row' \in Row /\ row'.state \in {"pending", "dead"}
    BY <1>1, ReapedRowType
  <1> QED
    BY <1>1, <1>2, RowStep DEF Active, Broken

LEMMA RetryInv ==
    ASSUME IInv, RetryComesDue
    PROVE  IInv'
  <1>1. /\ row \in Row /\ archive' \in BOOLEAN /\ worker' \in 0..inserted
        /\ UNCHANGED <<id, inserted, waiting, purgers>>
        /\ row' = [row EXCEPT !.retryAt = "now"]
    BY DEF RetryComesDue, IInv, TypeOK
  <1>2. row' \in Row /\ row'.state = row.state
    BY <1>1 DEF Row
  <1> QED
    BY <1>1, <1>2, RowStep

-------------------------------------------------------------------------------
LEMMA NextInv == IInv /\ [Next]_vars => IInv'
  <1> SUFFICES ASSUME IInv, [Next]_vars PROVE IInv'
    OBVIOUS
  <1>1. ASSUME NEW w \in Requests, RequestStep(w) PROVE IInv'
    <2>1. CASE CreateInsert(w)
      BY <2>1, CreateTakenInv, CreateFreshInv
    <2>2. CASE CreateReread(w)
      BY <2>2, CreateRereadInv
    <2>3. CASE Purge(w) \/ PurgeFails(w) \/ GiveUp(w)
      BY <2>3, PurgeInv, PurgeFailsInv, GiveUpInv
    <2>4. CASE Serve(w) \/ Timeout(w)
      BY <2>4, QuietAnswersInv
    <2>5. CASE Poll(w)
      BY <2>5, PollInv
    <2> QED
      BY <1>1, <2>1, <2>2, <2>3, <2>4, <2>5 DEF RequestStep
  <1>2. CASE UNCHANGED vars
    <2>1. UNCHANGED <<row, id, archive, inserted, waiting, worker, purgers>>
      BY <1>2 DEF vars, jobVars
    <2>2. TypeOK'
      BY <2>1 DEF IInv, TypeOK
    <2> QED
      BY <2>1, <2>2, RowStep DEF TypeOK
  <1> QED
    BY <1>1, <1>2, WorkerInv, ReapInv, RetryInv DEF Next

LEMMA RequestsInvariant == Spec => []IInv
  BY InitInv, NextInv, PTL DEF Spec

\* The row, the requests and the numbers of rows keep their types (Create,
\* exportJobSnapshot, Update and Reap).
THEOREM RequestTypes == Spec => []TypeOK
  <1>1. IInv => TypeOK
    BY DEF IInv
  <1> QED
    BY <1>1, RequestsInvariant, PTL

\* No claim, report or reaper pass revives a row that a request has judged
\* broken, so awaitExportP12 never deletes the live work it was waiting for.
THEOREM JudgementsStand == Spec => []JudgedRowsStayBroken
  <1>1. IInv => JudgedRowsStayBroken
    BY DEF IInv, Sound, JudgedRowsStayBroken, Judges
  <1> QED
    BY <1>1, RequestsInvariant, PTL

\* Two different members make a finite set of at least two.
LEMMA TwoMembers ==
    ASSUME NEW n \in Nat, NEW S \in SUBSET (1..n), NEW t \in S, NEW u \in S, t # u
    PROVE  Cardinality(S) >= 2
  <1>1. IsFiniteSet(1..n)
    BY FS_Interval
  <1>2. IsFiniteSet(S)
    BY <1>1, FS_Subset
  <1>3. IsFiniteSet({t}) /\ Cardinality({t}) = 1
    BY FS_Singleton
  <1>4. IsFiniteSet({t} \union {u}) /\ Cardinality({t} \union {u}) = 2
    BY <1>3, FS_AddElement
  <1>5. {t} \union {u} \in SUBSET S
    OBVIOUS
  <1>6. Cardinality({t} \union {u}) <= Cardinality(S)
    BY <1>2, <1>5, FS_Subset
  <1>7. Cardinality(S) \in Nat
    BY <1>2, FS_CardinalityType
  <1> QED
    BY <1>4, <1>6, <1>7

\* awaitExportP12 reports a failed export only after two rows have failed, or one
\* that its own DELETE failed to remove.
THEOREM FailureIsRetried == Spec => []FailsAfterSecondTry
  <1>1. IInv => FailsAfterSecondTry
    <2> SUFFICES ASSUME IInv, NEW w \in Requests, waiting[w].answer = "failed", ~waiting[w].unpurged
                 PROVE  Cardinality(waiting[w].tried) >= 2
      BY DEF FailsAfterSecondTry
    <2>1. inserted \in Nat /\ Sound(w, waiting[w])
      BY DEF IInv, TypeOK
    <2>2. waiting[w].tried \in SUBSET (1..inserted)
      BY <2>1 DEF Sound
    <2>3. PICK t, u \in waiting[w].tried : t # u
      BY <2>1 DEF Sound
    <2> QED
      BY <2>1, <2>2, <2>3, TwoMembers
  <1> QED
    BY <1>1, RequestsInvariant, PTL

\* A request whose row is gone lost it to the purge of another request.
THEOREM RowsAreLostToOthers == Spec => []LostOnlyToOthers
  <1>1. IInv => LostOnlyToOthers
    BY DEF IInv, Sound, LostOnlyToOthers
  <1> QED
    BY <1>1, RequestsInvariant, PTL
===============================================================================
