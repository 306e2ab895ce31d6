------------------------------ MODULE AppleGuard ------------------------------
(***************************************************************************)
(* The circuit breaker and rate cap in front of Apple: appleGuard of       *)
(* src/cmd/signing-worker/main.go, the claim loop that asks it, the three  *)
(* kinds of helper runs that report to it, and its state file through      *)
(* crashes and restarts of the worker.                                     *)
(*                                                                         *)
(* Instants are kept as ages, so time goes on for ever in finitely many    *)
(* states: an attempt is the number of time units since it was noted, the  *)
(* breaker the number of units it stays open.  The clock does not jump.    *)
(* The order of the noted attempts is used for a log line only, so they    *)
(* are kept by the name of their run.                                      *)
(***************************************************************************)
EXTENDS Integers, FiniteSets

CONSTANTS breakerAuthThreshold,
          breakerCooldown,      \* in time units
          Hour,                 \* the window of the rate cap, in time units
          maxAppleRunsPerHour,
          MaxUncounted          \* bound: no helper run begins while more runs of
                                \* the window are unknown to the guard

ASSUME GuardAssumptions ==
    /\ breakerAuthThreshold \in Nat \ {0}
    /\ breakerCooldown \in Nat \ {0}
    /\ Hour \in Nat
    /\ maxAppleRunsPerHour \in Nat \ {0}
    /\ MaxUncounted \in Nat

\* Ages beyond the window and the cooldown are not told apart.
Old == Hour + breakerCooldown + 1
Ages == 0 .. Old
Aged(age) == IF age < Old THEN age + 1 ELSE Old

\* Names of helper runs, enough for those the guard counts and those it does not;
\* a run that has left the window gives its name back.
Runs == 1 .. maxAppleRunsPerHour + MaxUncounted
NoRunName == 0

\* The ages of some runs.
RunAges == UNION {[names -> Ages] : names \in SUBSET Runs}
NoRuns == [r \in {} |-> 0]

Recent(ages, limit) == [r \in {q \in DOMAIN ages : ages[q] <= limit} |-> ages[r]]
Begun(ages, name) == [r \in DOMAIN ages \union {name} |-> IF r = name THEN 0 ELSE ages[r]]

\* appleGuardState.  The count of failures is only compared with the threshold
\* and stays there.
GuardState == [failures: 0 .. breakerAuthThreshold,
               breaker: 0 .. breakerCooldown,
               attempts: RunAges]

Zero == [failures |-> 0, breaker |-> 0, attempts |-> NoRuns]

VARIABLES step,   \* the claim loop: down, idle, claiming, running
          run,    \* the name of the helper run in progress
          guard,  \* the state in memory
          file,   \* apple_guard.json; Zero where it cannot be read
          streak, \* history: auth failures since the last success
          latest, \* history: age of the latest auth failure
          starts, \* history: ages of the starts of helper runs
          uncounted \* history: those the guard does not know of, or has forgotten

vars == <<step, run, guard, file, streak, latest, starts, uncounted>>

Init ==
    /\ step = "idle" /\ run = NoRunName
    /\ guard = Zero
    /\ file = Zero
    /\ streak = 0
    /\ latest = Old
    /\ starts = NoRuns
    /\ uncounted = {}

-------------------------------------------------------------------------------
\* Mutant: attempts drop out of the window too early.
prune_Early(state) ==
    [state EXCEPT !.attempts = Recent(@, Hour - 1)]

\* Mutant: attempts are never dropped.
prune_Never(state) == state

prune(state) == [state EXCEPT !.attempts = Recent(@, Hour)]

Allowed == /\ guard.breaker = 0
           /\ Cardinality(DOMAIN prune(guard).attempts) < maxAppleRunsPerHour

\* allow, then claimAndRun asks for a job.  An open breaker returns before
\* the attempts are pruned.
Allow ==
    /\ step = "idle" /\ guard.breaker = 0
    /\ guard' = prune(guard)
    /\ step' = IF Allowed THEN "claiming" ELSE "idle"
    /\ UNCHANGED <<run, file, streak, latest, starts, uncounted>>

\* No job, or one that ends before its helper runs: bad parameters, a failed
\* download, no account.
NoRun ==
    /\ step = "claiming"
    /\ step' = "idle"
    /\ UNCHANGED <<run, guard, file, streak, latest, starts, uncounted>>

NewName == CHOOSE r \in Runs : r \notin DOMAIN guard.attempts \union DOMAIN starts

StartHelper ==
    /\ step = "claiming"
    /\ Cardinality(uncounted) <= MaxUncounted
    /\ step' = "running" /\ run' = NewName
    /\ starts' = Begun(starts, NewName)
    /\ UNCHANGED <<guard, file, streak, latest, uncounted>>

Outcomes == {"success", "auth", "other"}

Counted(failures) == IF failures < breakerAuthThreshold THEN failures + 1 ELSE failures

\* Mutant: the failure that reaches the threshold does not open the breaker.
Reopened_Late(state) ==
    IF state.failures >= breakerAuthThreshold THEN breakerCooldown ELSE state.breaker

\* Mutant: the cooldown grows with the failures.
Reopened_Growing(state) == breakerCooldown * Counted(state.failures)

\* The breaker after one more auth failure.
Reopened(state) ==
    IF Counted(state.failures) >= breakerAuthThreshold THEN breakerCooldown ELSE state.breaker

\* noteRun on the state in memory.
Noted(state, outcome) ==
    [failures |-> CASE outcome = "success" -> 0
                    [] outcome = "auth" -> Counted(state.failures)
                    [] OTHER -> state.failures,
     breaker |-> IF outcome = "auth" THEN Reopened(state) ELSE state.breaker,
     attempts |-> Begun(state.attempts, run)]

\* noteRun, and save: a write that fails or is cut off leaves a file that
\* cannot be read.
noteRun(outcome) ==
    /\ step = "running"
    /\ guard' = Noted(guard, outcome)
    /\ file' \in {guard', Zero}
    /\ step' = "idle" /\ run' = NoRunName
    /\ streak' = CASE outcome = "success" -> 0
                   [] outcome = "auth" -> Counted(streak)
                   [] OTHER -> streak
    /\ latest' = IF outcome = "auth" THEN 0 ELSE latest
    /\ UNCHANGED <<starts, uncounted>>

\* The helper of runExportP12Job succeeded and its output cannot be read: the
\* handler returns without noteRun.
UnreadExport ==
    /\ step = "running"
    /\ step' = "idle" /\ run' = NoRunName
    /\ uncounted' = uncounted \union ({run} \intersect DOMAIN starts)
    /\ UNCHANGED <<guard, file, streak, latest, starts>>

\* The worker dies; a helper run in progress is not noted.
Crash ==
    /\ step # "down"
    /\ step' = "down" /\ run' = NoRunName
    /\ guard' = Zero
    /\ uncounted' = uncounted \union ({run} \intersect DOMAIN starts)
    /\ UNCHANGED <<file, streak, latest, starts>>

\* newAppleGuard.  Where the file cannot be read the guard begins anew: it
\* forgets the failures and all runs.
Restart ==
    /\ step = "down"
    /\ step' = "idle"
    /\ guard' = file
    /\ streak' = IF file = Zero THEN 0 ELSE streak
    /\ latest' = IF file = Zero THEN Old ELSE latest
    /\ uncounted' = IF file = Zero THEN DOMAIN starts ELSE uncounted
    /\ UNCHANGED <<run, file, starts>>

AgedState(state) ==
    [failures |-> state.failures,
     breaker |-> IF state.breaker > 0 THEN state.breaker - 1 ELSE 0,
     attempts |-> [r \in DOMAIN state.attempts |-> Aged(state.attempts[r])]]

\* A unit of time passes.  Starts outside the window are forgotten.
Tick ==
    /\ guard' = AgedState(guard)
    /\ file' = AgedState(file)
    /\ latest' = Aged(latest)
    /\ starts' = LET recent == Recent(starts, Hour - 1)
                 IN  [r \in DOMAIN recent |-> recent[r] + 1]
    /\ uncounted' = uncounted \intersect DOMAIN starts'
    /\ UNCHANGED <<step, run, streak>>

Next ==
    \/ Allow
    \/ NoRun
    \/ StartHelper
    \/ \E outcome \in Outcomes : noteRun(outcome)
    \/ UnreadExport
    \/ Crash
    \/ Restart
    \/ Tick

Spec == Init /\ [][Next]_vars

\* Time passes.
FairSpec == Spec /\ WF_vars(Tick)

-------------------------------------------------------------------------------
(***************************************************************************)
(* Properties.                                                             *)
(***************************************************************************)

\* Guard, file and histories keep their types.
TypeOK ==
    /\ step \in {"down", "idle", "claiming", "running"}
    /\ guard \in GuardState /\ file \in GuardState
    /\ streak \in 0 .. breakerAuthThreshold
    /\ latest \in Ages
    /\ starts \in RunAges /\ uncounted \subseteq DOMAIN starts
    /\ run \in Runs \union {NoRunName} /\ (step = "running" <=> run # NoRunName)

\* How often Apple is asked: of the helper runs that began within any hour, the
\* one in progress included, at most maxAppleRunsPerHour are known to the guard,
\* although allow counts the ends of runs and the file is only written when one
\* ends.  Each run that is over the cap has a run of the same hour that was cut
\* off by a crash, whose export could not be read, or that was forgotten with an
\* unreadable file.
RateCap ==
    Cardinality(DOMAIN starts) <= maxAppleRunsPerHour + Cardinality(uncounted)

\* "Rate cap: at most maxAppleRunsPerHour Apple-touching helper runs" (comment of
\* the guard), of whatever end.  A run is noted when it ends, and an export whose
\* output cannot be read is not: TLC refutes AppleRunsAreCapped under
\* uncounted_runs.cfg.
AppleRunsAreCapped == Cardinality(DOMAIN starts) <= maxAppleRunsPerHour

\* "breakerAuthThreshold consecutive Apple-auth failures open the breaker for
\* breakerCooldown": no helper run begins within the cooldown of the failure
\* that completed or prolonged such a streak, restarts in between or not; a
\* failed probe re-opens the breaker at once.
BreakerHolds ==
    [][step # "running" /\ step' = "running" =>
         ~(streak = breakerAuthThreshold /\ latest < breakerCooldown)]_vars

\* "jobs wait safely in pending": the guard never shuts the worker out for ever.
BlockedIsTemporary ==
    step = "idle" /\ ~Allowed ~> Allowed \/ step = "down"
===============================================================================
