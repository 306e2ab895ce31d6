------------------------------ MODULE JobContract ------------------------------
(***************************************************************************)
(* What the queue promises about each job, independent of rows, leases and *)
(* SQL: a job is offered, held by one agent at a time, and either done for *)
(* good, or withdrawn.  A withdrawn job may be offered again unless it is  *)
(* a job of NoReturn, which the queue re-offers only before it has been    *)
(* closed.  Several jobs may move in one step (a claim or a reaper pass    *)
(* covers many rows), each along its own life cycle.                       *)
(***************************************************************************)
CONSTANTS Jobs,      \* the jobs
          Workers,   \* who may hold a job
          Nobody,    \* the holder of a job nobody holds
          NoReturn   \* jobs that stay closed once closed

VARIABLES phase,     \* "absent", "open", "held", "failed", "closed" or "done"
          holder     \* the worker that holds a held job

contractVars == <<phase, holder>>

Init ==
    /\ phase = [j \in Jobs |-> "absent"]
    /\ holder = [j \in Jobs |-> Nobody]

\* Job j moves from phase p to phase q and is then held by w.
Move(j, p, q, w) == phase[j] = p /\ phase'[j] = q /\ holder'[j] = w

Offer(j) == Move(j, "absent", "open", Nobody)

Take(j) == \E w \in Workers : Move(j, "open", "held", w)

\* A held job ends by its holder's report, or is taken back by the queue.
Report(j) == Move(j, "held", "done", Nobody) \/ Move(j, "held", "failed", Nobody)

TakeBack(j) == Move(j, "held", "open", Nobody) \/ Move(j, "held", "closed", Nobody)

\* A failed job is offered again or closed.
Retry(j) == Move(j, "failed", "open", Nobody) \/ Move(j, "failed", "closed", Nobody)

Reopen(j) == j \notin NoReturn /\ Move(j, "closed", "open", Nobody)

Stay(j) == phase'[j] = phase[j] /\ holder'[j] = holder[j]

JobStep(j) ==
    \/ Offer(j) \/ Take(j) \/ Report(j) \/ TakeBack(j) \/ Retry(j) \/ Reopen(j)
    \/ Stay(j)

Next == \A j \in Jobs : JobStep(j)

Spec == Init /\ [][Next]_contractVars
===============================================================================
