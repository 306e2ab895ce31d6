--------------------------- MODULE AppleGuardProofs ---------------------------
(***************************************************************************)
(* The breaker and the rate cap hold for every threshold, cooldown, window *)
(* and cap.                                                                *)
(***************************************************************************)
EXTENDS AppleGuard, FiniteSetTheorems, TLAPS

\* A state that knows the history: it counts the streak, and its breaker stays
\* open at least until the cooldown of the latest failure is over.
Knows(state) ==
    /\ state.failures = streak
    /\ state.breaker \in Int
    /\ streak = breakerAuthThreshold => state.breaker >= breakerCooldown - latest

\* A file that can be read knows the history, and so does the guard of a
\* worker that is up; a worker that claims or runs has passed the breaker.
BreakerInv ==
    /\ guard = [failures |-> guard.failures, breaker |-> guard.breaker,
                attempts |-> guard.attempts]
    /\ file = [failures |-> file.failures, breaker |-> file.breaker,
               attempts |-> file.attempts]
    /\ streak \in 0 .. breakerAuthThreshold
    /\ latest \in Ages
    /\ step # "down" => Knows(guard)
    /\ file = Zero \/ Knows(file)
    /\ step \in {"claiming", "running"} => guard.breaker <= 0

LEMMA BreakerInit == Init => BreakerInv
  BY GuardAssumptions DEF Init, BreakerInv, Knows, Zero, Ages, Old

LEMMA BreakerStep == BreakerInv /\ [Next]_vars => BreakerInv'
  <1> SUFFICES ASSUME BreakerInv, [Next]_vars PROVE BreakerInv'
    OBVIOUS
  <1> USE GuardAssumptions
  <1>1. CASE Allow
    BY <1>1 DEF BreakerInv, Knows, Allow, prune
  <1>2. CASE NoRun
    BY <1>2 DEF BreakerInv, Knows, NoRun
  <1>3. CASE StartHelper
    BY <1>3 DEF BreakerInv, Knows, StartHelper
  <1>4. ASSUME NEW outcome \in Outcomes, noteRun(outcome) PROVE BreakerInv'
    <2>1. Knows(guard)'
      BY <1>4 DEF BreakerInv, Knows, noteRun, Noted, Reopened, Counted, Outcomes, Ages, Old
    <2>2. /\ guard' = [failures |-> guard'.failures, breaker |-> guard'.breaker,
                       attempts |-> guard'.attempts]
          /\ file' \in {guard', Zero}
          /\ streak' \in 0 .. breakerAuthThreshold
          /\ latest' \in Ages
          /\ step' = "idle"
      BY <1>4 DEF BreakerInv, noteRun, Noted, Counted, Ages, Old
    <2> QED
      BY <2>1, <2>2 DEF BreakerInv, Knows, Zero
  <1>5. CASE UnreadExport
    BY <1>5 DEF BreakerInv, Knows, UnreadExport
  <1>6. CASE Crash
    BY <1>6 DEF BreakerInv, Knows, Crash, Zero
  <1>7. CASE Restart
    BY <1>7 DEF BreakerInv, Knows, Restart, Zero, Ages, Old
  <1>8. CASE Tick
    <2>1. ASSUME NEW state, state = [failures |-> state.failures, breaker |-> state.breaker,
                                     attempts |-> state.attempts]
          PROVE  /\ AgedState(state).failures = state.failures
                 /\ AgedState(state).breaker = IF state.breaker > 0 THEN state.breaker - 1 ELSE 0
                 /\ AgedState(state) = [failures |-> AgedState(state).failures,
                                        breaker |-> AgedState(state).breaker,
                                        attempts |-> AgedState(state).attempts]
      BY <2>1 DEF AgedState
    <2>2. latest' \in Ages /\ latest' <= latest + 1 /\ latest' >= latest
          /\ (latest' = latest => latest > breakerCooldown)
      BY <1>8 DEF BreakerInv, Tick, Aged, Ages, Old
    <2>3. step # "down" => Knows(guard)'
      BY <1>8, <2>1, <2>2 DEF BreakerInv, Knows, Tick, Ages
    <2>4. file = Zero => file' = Zero
      <3>1. [r \in DOMAIN NoRuns |-> Aged(NoRuns[r])] = NoRuns
        BY DEF NoRuns
      <3> QED
        BY <1>8, <3>1 DEF Tick, AgedState, Zero
    <2>5. file # Zero => Knows(file)'
      BY <1>8, <2>1, <2>2 DEF BreakerInv, Knows, Tick, Ages
    <2> QED
      BY <1>8, <2>1, <2>2, <2>3, <2>4, <2>5 DEF BreakerInv, Knows, Tick
  <1>9. CASE UNCHANGED vars
    BY <1>9 DEF BreakerInv, Knows, vars
  <1> QED
    BY <1>1, <1>2, <1>3, <1>4, <1>5, <1>6, <1>7, <1>8, <1>9 DEF Next

LEMMA BreakerAction ==
    BreakerInv /\ [Next]_vars =>
      [step # "running" /\ step' = "running" =>
         ~(streak = breakerAuthThreshold /\ latest < breakerCooldown)]_vars
  <1> SUFFICES ASSUME BreakerInv, Next, step # "running", step' = "running"
               PROVE  ~(streak = breakerAuthThreshold /\ latest < breakerCooldown)
    BY DEF vars
  <1>1. StartHelper
    BY DEF Next, Allow, NoRun, noteRun, UnreadExport, Crash, Restart, Tick
  <1> QED
    BY <1>1, GuardAssumptions DEF BreakerInv, Knows, StartHelper, Ages, Old

\* No helper run begins within the cooldown of the last of breakerAuthThreshold
\* consecutive auth failures (allow, noteRun, newAppleGuard of the signing
\* worker), through any sequence of crashes, restarts and lost saves.
THEOREM BreakerIsObeyed == Spec => BreakerHolds
  BY BreakerInit, BreakerStep, BreakerAction, PTL DEF Spec, BreakerHolds

-------------------------------------------------------------------------------
(***************************************************************************)
(* The rate cap.                                                           *)
(***************************************************************************)

\* The starts the guard is to know of.
Counting == DOMAIN starts \ uncounted

\* Each of them, but that of the run in progress, is an attempt the state has
\* noted, and at most as old: a run ends after it began.
Covers(state) ==
    \A r \in Counting :
        \/ r \in DOMAIN state.attempts /\ state.attempts[r] <= starts[r]
        \/ step = "running" /\ r = run

\* What RateCap needs to be inductive: the guard of a worker that is up and a
\* file that can be read cover the starts, the starts are within the window,
\* and a worker that claims or runs has found room in the guard.
RateInv ==
    /\ TypeOK
    /\ step # "down" => Covers(guard)
    /\ file = Zero \/ Covers(file)
    /\ \A r \in DOMAIN starts : starts[r] <= Hour
    /\ step \in {"claiming", "running"} =>
         Cardinality(DOMAIN guard.attempts) < maxAppleRunsPerHour
    /\ Cardinality(Counting) <= maxAppleRunsPerHour

LEMMA RunAgesType ==
    ASSUME NEW f
    PROVE  f \in RunAges <=> /\ DOMAIN f \subseteq Runs
                             /\ f = [r \in DOMAIN f |-> f[r]]
                             /\ \A r \in DOMAIN f : f[r] \in Ages
  <1>1. ASSUME f \in RunAges
        PROVE  /\ DOMAIN f \subseteq Runs
               /\ f = [r \in DOMAIN f |-> f[r]]
               /\ \A r \in DOMAIN f : f[r] \in Ages
    <2>1. PICK names \in SUBSET Runs : f \in [names -> Ages]
      BY <1>1 DEF RunAges
    <2> QED
      BY <2>1
  <1>2. ASSUME DOMAIN f \subseteq Runs, f = [r \in DOMAIN f |-> f[r]],
               \A r \in DOMAIN f : f[r] \in Ages
        PROVE  f \in RunAges
    <2>1. f \in [DOMAIN f -> Ages]
      BY <1>2
    <2> QED
      <3>1. [DOMAIN f -> Ages] \in {[names -> Ages] : names \in SUBSET Runs}
        BY <1>2
      <3> QED
        BY <2>1, <3>1 DEF RunAges
  <1> QED
    BY <1>1, <1>2

LEMMA RunsAreFinite ==
    /\ IsFiniteSet(Runs)
    /\ Cardinality(Runs) = maxAppleRunsPerHour + MaxUncounted
    /\ \A S \in SUBSET Runs : IsFiniteSet(S) /\ Cardinality(S) \in Nat
  <1>1. IsFiniteSet(Runs) /\ Cardinality(Runs) = maxAppleRunsPerHour + MaxUncounted
    <2>1. \A n \in Int : IsFiniteSet(1 .. n) /\ Cardinality(1 .. n) = IF 1 > n THEN 0 ELSE n - 1 + 1
      BY FS_Interval
    <2>2. /\ maxAppleRunsPerHour + MaxUncounted \in Int
          /\ maxAppleRunsPerHour + MaxUncounted - 1 + 1 = maxAppleRunsPerHour + MaxUncounted
      BY GuardAssumptions
    <2>3. ~(1 > maxAppleRunsPerHour + MaxUncounted)
      BY GuardAssumptions
    <2> QED
      BY <2>1, <2>2, <2>3 DEF Runs
  <1> QED
    BY <1>1, FS_Subset, FS_CardinalityType

\* The operators on ages: they return ages, of which runs, and at which age.
LEMMA RecentType ==
    ASSUME NEW f \in RunAges, NEW limit
    PROVE  Recent(f, limit) \in RunAges
  BY RunAgesType DEF Recent

LEMMA BegunType ==
    ASSUME NEW f \in RunAges, NEW name \in Runs
    PROVE  /\ Begun(f, name) \in RunAges
           /\ DOMAIN Begun(f, name) = DOMAIN f \union {name}
           /\ \A r \in DOMAIN Begun(f, name) :
                Begun(f, name)[r] = IF r = name THEN 0 ELSE f[r]
  <1>1. 0 \in Ages
    BY GuardAssumptions DEF Ages, Old
  <1> QED
    BY <1>1, RunAgesType DEF Begun

LEMMA AgedType ==
    ASSUME NEW age \in Ages
    PROVE  Aged(age) \in Ages /\ Aged(age) <= age + 1
  BY GuardAssumptions DEF Ages, Aged, Old

LEMMA NoRunsType == NoRuns \in RunAges /\ DOMAIN NoRuns = {}
  BY RunAgesType DEF NoRuns

\* A state is a record of its parts.
LEMMA StateParts ==
    ASSUME NEW state
    PROVE  state \in GuardState <=>
             /\ state = [failures |-> state.failures, breaker |-> state.breaker,
                         attempts |-> state.attempts]
             /\ state.failures \in 0 .. breakerAuthThreshold
             /\ state.breaker \in 0 .. breakerCooldown
             /\ state.attempts \in RunAges
  BY DEF GuardState

LEMMA ZeroType == Zero \in GuardState /\ DOMAIN Zero.attempts = {}
  BY NoRunsType, GuardAssumptions DEF Zero, GuardState

LEMMA PruneType ==
    ASSUME NEW state \in GuardState
    PROVE  /\ prune(state) \in GuardState
           /\ prune(state).breaker = state.breaker
           /\ DOMAIN prune(state).attempts =
                {r \in DOMAIN state.attempts : state.attempts[r] <= Hour}
           /\ \A r \in DOMAIN prune(state).attempts :
                prune(state).attempts[r] = state.attempts[r]
  <1>1. /\ prune(state) = [failures |-> state.failures, breaker |-> state.breaker,
                           attempts |-> Recent(state.attempts, Hour)]
        /\ state.attempts \in RunAges
    BY StateParts DEF prune, GuardState
  <1>2. /\ Recent(state.attempts, Hour) \in RunAges
        /\ DOMAIN Recent(state.attempts, Hour) =
             {r \in DOMAIN state.attempts : state.attempts[r] <= Hour}
        /\ \A r \in DOMAIN Recent(state.attempts, Hour) :
             Recent(state.attempts, Hour)[r] = state.attempts[r]
    <2>1. Recent(state.attempts, Hour) \in RunAges
      BY <1>1, RecentType
    <2> QED
      BY <2>1 DEF Recent
  <1>3. /\ prune(state).attempts = Recent(state.attempts, Hour)
        /\ prune(state).breaker = state.breaker
    BY <1>1
  <1>4. prune(state) \in GuardState
    BY <1>1, <1>2 DEF GuardState
  <1> QED
    BY <1>2, <1>3, <1>4

LEMMA AgedStateType ==
    ASSUME NEW state \in GuardState
    PROVE  /\ AgedState(state) \in GuardState
           /\ DOMAIN AgedState(state).attempts = DOMAIN state.attempts
           /\ \A r \in DOMAIN state.attempts :
                AgedState(state).attempts[r] <= state.attempts[r] + 1
  <1> DEFINE attempts == [r \in DOMAIN state.attempts |-> Aged(state.attempts[r])]
  <1>1. /\ state.attempts \in RunAges
        /\ state.failures \in 0 .. breakerAuthThreshold
        /\ state.breaker \in 0 .. breakerCooldown
    BY StateParts
  <1>2. \A r \in DOMAIN state.attempts : state.attempts[r] \in Ages
    BY <1>1, RunAgesType
  <1>3. /\ attempts \in RunAges
        /\ \A r \in DOMAIN state.attempts : attempts[r] <= state.attempts[r] + 1
    BY <1>1, <1>2, RunAgesType, AgedType
  <1>4. (IF state.breaker > 0 THEN state.breaker - 1 ELSE 0) \in 0 .. breakerCooldown
    BY <1>1, GuardAssumptions
  <1> QED
    BY <1>1, <1>3, <1>4 DEF AgedState, GuardState

LEMMA NotedType ==
    ASSUME NEW state \in GuardState, NEW outcome \in Outcomes, run \in Runs
    PROVE  /\ Noted(state, outcome) \in GuardState
           /\ Noted(state, outcome).attempts = Begun(state.attempts, run)
  <1>1. /\ state.attempts \in RunAges
        /\ state.failures \in 0 .. breakerAuthThreshold
        /\ state.breaker \in 0 .. breakerCooldown
    BY StateParts
  <1>2. Counted(state.failures) \in 0 .. breakerAuthThreshold
    BY <1>1, GuardAssumptions DEF Counted
  <1>3. Reopened(state) \in 0 .. breakerCooldown
    BY <1>1, GuardAssumptions DEF Reopened
  <1>4. Begun(state.attempts, run) \in RunAges
    BY <1>1, BegunType
  <1> QED
    BY <1>1, <1>2, <1>3, <1>4, GuardAssumptions DEF Noted, GuardState, Outcomes

LEMMA RateInit == Init => RateInv
  <1> SUFFICES ASSUME Init PROVE RateInv
    OBVIOUS
  <1>1. TypeOK
    BY ZeroType, NoRunsType, GuardAssumptions DEF Init, TypeOK, Ages, Old
  <1>2. Cardinality(Counting) = 0 /\ DOMAIN starts = {} /\ Counting = {}
    BY NoRunsType, FS_EmptySet DEF Init, Counting
  <1> QED
    BY <1>1, <1>2, GuardAssumptions DEF Init, RateInv, Covers

\* A worker that claims covers every start that counts, so it has room for one
\* more, and a name is free.
LEMMA RoomForOne ==
    ASSUME RateInv, step = "claiming", Cardinality(uncounted) <= MaxUncounted
    PROVE  /\ NewName \in Runs
           /\ NewName \notin DOMAIN starts
           /\ Cardinality(Counting) < maxAppleRunsPerHour
  <1> DEFINE noted == DOMAIN guard.attempts
  <1>1. Counting \subseteq noted /\ Cardinality(noted) < maxAppleRunsPerHour
    BY DEF RateInv, Covers
  <1>2. noted \subseteq Runs /\ uncounted \subseteq Runs
    BY StateParts, RunAgesType DEF RateInv, TypeOK
  <1>3. Cardinality(Counting) <= Cardinality(noted)
    BY <1>1, <1>2, RunsAreFinite, FS_Subset
  <1>4. /\ Cardinality(Counting) \in Nat /\ Cardinality(noted) \in Nat
        /\ Cardinality(uncounted) \in Nat
    BY <1>1, <1>2, RunsAreFinite
  <1>5. noted \union uncounted # Runs
    <2>1. Cardinality(noted \union uncounted) =
            Cardinality(noted) + Cardinality(uncounted) - Cardinality(noted \intersect uncounted)
      BY <1>2, RunsAreFinite, FS_Union
    <2>2. Cardinality(noted \intersect uncounted) \in Nat
      BY <1>2, RunsAreFinite
    <2>3. Cardinality(noted \union uncounted) < maxAppleRunsPerHour + MaxUncounted
      BY <1>1, <1>4, <2>1, <2>2, GuardAssumptions
    <2>4. maxAppleRunsPerHour + MaxUncounted \in Nat
      BY GuardAssumptions
    <2>5. ASSUME noted \union uncounted = Runs PROVE FALSE
      <3>1. Cardinality(Runs) < maxAppleRunsPerHour + MaxUncounted
        BY <2>3, <2>5
      <3> QED
        BY <2>4, <3>1, RunsAreFinite
    <2> QED
      BY <2>5
  <1>6. DOMAIN starts \subseteq noted \union uncounted
    BY <1>1 DEF Counting
  <1>7. \E r \in Runs : r \notin noted \union DOMAIN starts
    BY <1>2, <1>5, <1>6 DEF RateInv, TypeOK
  <1>8. NewName \in Runs /\ NewName \notin noted \union DOMAIN starts
    BY <1>7 DEF NewName
  <1> QED
    BY <1>1, <1>3, <1>4, <1>8, GuardAssumptions

\* Fewer starts that count are within the cap as well.
LEMMA FewerStarts ==
    ASSUME RateInv, Counting' \subseteq Counting
    PROVE  Cardinality(Counting') <= maxAppleRunsPerHour
  <1>1. Counting \subseteq Runs
    BY RunAgesType DEF RateInv, TypeOK, Counting
  <1>2. Cardinality(Counting') <= Cardinality(Counting)
    BY <1>1, RunsAreFinite, FS_Subset
  <1>3. Cardinality(Counting') \in Nat /\ Cardinality(Counting) \in Nat
    BY <1>1, RunsAreFinite
  <1> QED
    BY <1>2, <1>3, GuardAssumptions DEF RateInv

LEMMA RateStep == RateInv /\ [Next]_vars => RateInv'
  <1> SUFFICES ASSUME RateInv, [Next]_vars PROVE RateInv'
    OBVIOUS
  <1> USE GuardAssumptions
  <1>t. /\ guard \in GuardState /\ file \in GuardState /\ starts \in RunAges
        /\ guard.attempts \in RunAges /\ file.attempts \in RunAges
        /\ DOMAIN starts \subseteq Runs
        /\ \A r \in DOMAIN starts : starts[r] \in Int
        /\ \A r \in DOMAIN guard.attempts : guard.attempts[r] \in Int
        /\ \A r \in DOMAIN file.attempts : file.attempts[r] \in Int
    <2>1. guard \in GuardState /\ file \in GuardState /\ starts \in RunAges
      BY DEF RateInv, TypeOK
    <2>2. guard.attempts \in RunAges /\ file.attempts \in RunAges
      BY <2>1, StateParts
    <2>3. \A a \in Ages : a \in Int
      BY DEF Ages
    <2> QED
      BY <2>1, <2>2, <2>3, RunAgesType
  <1>1. CASE Allow
    <2>1. /\ guard' \in GuardState
          /\ DOMAIN guard'.attempts = {r \in DOMAIN guard.attempts : guard.attempts[r] <= Hour}
          /\ \A r \in DOMAIN guard'.attempts : guard'.attempts[r] = guard.attempts[r]
      BY <1>1, <1>t, PruneType DEF Allow
    <2>2. TypeOK'
      BY <1>1, <2>1 DEF Allow, RateInv, TypeOK
    <2>3. Covers(guard)'
      BY <1>1, <1>t, <2>1 DEF Allow, RateInv, Covers, Counting
    <2>4. step' = "claiming" => Cardinality(DOMAIN guard'.attempts) < maxAppleRunsPerHour
      BY <1>1 DEF Allow, Allowed
    <2>5. file' = Zero \/ Covers(file)'
      BY <1>1 DEF Allow, RateInv, Covers, Counting
    <2> QED
      BY <1>1, <2>2, <2>3, <2>4, <2>5 DEF Allow, RateInv, Counting
  <1>2. CASE NoRun
    BY <1>2 DEF NoRun, RateInv, TypeOK, Covers, Counting
  <1>3. CASE StartHelper
    <2>1. /\ NewName \in Runs
          /\ NewName \notin DOMAIN starts
          /\ Cardinality(Counting) < maxAppleRunsPerHour
      BY <1>3, RoomForOne DEF StartHelper
    <2>2. /\ starts' \in RunAges
          /\ DOMAIN starts' = DOMAIN starts \union {NewName}
          /\ \A r \in DOMAIN starts' : starts'[r] = IF r = NewName THEN 0 ELSE starts[r]
      BY <1>3, <1>t, <2>1, BegunType DEF StartHelper
    <2>3. TypeOK'
      BY <1>3, <2>1, <2>2 DEF StartHelper, RateInv, TypeOK, NoRunName, Runs
    <2>4. Covers(guard)' /\ (file' = Zero \/ Covers(file)')
      BY <1>3, <2>2 DEF StartHelper, RateInv, Covers, Counting
    <2>5. \A r \in DOMAIN starts' : starts'[r] <= Hour
      BY <2>2 DEF RateInv
    <2>6. Counting \subseteq Runs /\ NewName \notin Counting /\ Counting' = Counting \union {NewName}
      BY <1>3, <1>t, <2>1, <2>2 DEF StartHelper, RateInv, TypeOK, Counting
    <2>7. Cardinality(Counting') <= maxAppleRunsPerHour
      <3>1. Cardinality(Counting') = Cardinality(Counting) + 1 /\ Cardinality(Counting) \in Nat
        BY <2>6, RunsAreFinite, FS_AddElement
      <3> QED
        BY <2>1, <3>1
    <2> QED
      BY <1>3, <2>3, <2>4, <2>5, <2>7 DEF StartHelper, RateInv
  <1>4. ASSUME NEW outcome \in Outcomes, noteRun(outcome) PROVE RateInv'
    <2>1. run \in Runs
      BY <1>4 DEF noteRun, RateInv, TypeOK
    <2>2. /\ guard' \in GuardState
          /\ guard'.attempts = Begun(guard.attempts, run)
      BY <1>4, <1>t, <2>1, NotedType DEF noteRun
    <2>3. /\ DOMAIN guard'.attempts = DOMAIN guard.attempts \union {run}
          /\ \A r \in DOMAIN guard'.attempts :
               guard'.attempts[r] = IF r = run THEN 0 ELSE guard.attempts[r]
      BY <2>2 DEF Begun
    <2>4. /\ starts' = starts /\ uncounted' = uncounted
          /\ step' = "idle" /\ run' = NoRunName /\ file' \in {guard', Zero}
      BY <1>4 DEF noteRun
    <2>5. streak' \in 0 .. breakerAuthThreshold /\ latest' \in Ages
      BY <1>4 DEF noteRun, RateInv, TypeOK, Counted, Ages, Old, Outcomes
    <2>6. TypeOK'
      BY <1>t, <2>2, <2>4, <2>5, ZeroType DEF RateInv, TypeOK
    <2>7. \A r \in DOMAIN starts : starts[r] \in Nat
      BY <1>t, RunAgesType DEF Ages
    <2>8. Covers(guard)'
      BY <1>4, <2>3, <2>4, <2>7 DEF RateInv, Covers, Counting, noteRun
    <2>9. file' = Zero \/ Covers(file)'
      BY <2>4, <2>8 DEF Covers
    <2> QED
      BY <2>4, <2>6, <2>8, <2>9 DEF RateInv, Counting
  <1>5. CASE UnreadExport
    <2>1. TypeOK'
      BY <1>5 DEF UnreadExport, RateInv, TypeOK
    <2>2. Counting' = Counting \ {run}
      BY <1>5 DEF UnreadExport, Counting
    <2>3. Covers(guard)' /\ (file' = Zero \/ Covers(file)')
      BY <1>5, <2>2 DEF UnreadExport, RateInv, Covers
    <2>4. Cardinality(Counting') <= maxAppleRunsPerHour
      BY <2>2, FewerStarts
    <2> QED
      BY <1>5, <2>1, <2>3, <2>4 DEF UnreadExport, RateInv
  <1>6. CASE Crash
    <2>1. TypeOK'
      BY <1>6, ZeroType DEF Crash, RateInv, TypeOK
    <2>2. Counting' = Counting \ {run}
      BY <1>6 DEF Crash, Counting
    <2>3. file' = Zero \/ Covers(file)'
      BY <1>6, <2>2 DEF Crash, RateInv, Covers
    <2>4. Cardinality(Counting') <= maxAppleRunsPerHour
      BY <2>2, FewerStarts
    <2> QED
      BY <1>6, <2>1, <2>3, <2>4 DEF Crash, RateInv
  <1>7. CASE Restart
    <2>1. Old \in Ages /\ 0 \in 0 .. breakerAuthThreshold
      BY DEF Ages, Old
    <2>2. TypeOK'
      BY <1>7, <2>1 DEF Restart, RateInv, TypeOK
    <2>3. Counting' = IF file = Zero THEN {} ELSE Counting
      BY <1>7 DEF Restart, Counting
    <2>4. Covers(guard)' /\ (file' = Zero \/ Covers(file)')
      BY <1>7, <2>3 DEF Restart, RateInv, Covers
    <2>5. Cardinality(Counting') <= maxAppleRunsPerHour
      BY <2>3, FewerStarts
    <2> QED
      BY <1>7, <2>2, <2>4, <2>5 DEF Restart, RateInv
  <1>8. CASE Tick
    <2>1. /\ guard' \in GuardState /\ file' \in GuardState
          /\ DOMAIN guard'.attempts = DOMAIN guard.attempts
          /\ DOMAIN file'.attempts = DOMAIN file.attempts
          /\ \A r \in DOMAIN guard.attempts : guard'.attempts[r] <= guard.attempts[r] + 1
          /\ \A r \in DOMAIN file.attempts : file'.attempts[r] <= file.attempts[r] + 1
      BY <1>8, <1>t, AgedStateType DEF Tick
    <2>2. /\ \A r \in DOMAIN guard.attempts : guard'.attempts[r] \in Int
          /\ \A r \in DOMAIN file.attempts : file'.attempts[r] \in Int
      BY <2>1, StateParts, RunAgesType DEF Ages
    <2> DEFINE recent == Recent(starts, Hour - 1)
    <2>3. /\ DOMAIN recent = {r \in DOMAIN starts : starts[r] <= Hour - 1}
          /\ \A r \in DOMAIN recent : recent[r] = starts[r]
      BY DEF Recent
    <2>4. starts' = [r \in DOMAIN recent |-> recent[r] + 1]
      BY <1>8 DEF Tick
    <2>5. /\ DOMAIN starts' \subseteq DOMAIN starts
          /\ \A r \in DOMAIN starts' : starts'[r] = starts[r] + 1 /\ starts'[r] <= Hour
      BY <1>t, <2>3, <2>4
    <2>6. starts' \in RunAges
      <3>1. \A r \in DOMAIN starts' : starts'[r] \in Ages
        BY <1>t, <2>5, RunAgesType DEF Ages, Old
      <3> QED
        BY <1>t, <2>4, <2>5, <3>1, RunAgesType
    <2>7. latest' \in Ages
      BY <1>8, AgedType DEF Tick, RateInv, TypeOK
    <2>8. TypeOK'
      BY <1>8, <2>1, <2>6, <2>7 DEF Tick, RateInv, TypeOK
    <2>13. Counting' \subseteq Counting
      BY <1>8, <2>5 DEF Tick, Counting
    <2>9. step' # "down" => Covers(guard)'
      BY <1>8, <1>t, <2>1, <2>2, <2>5, <2>13 DEF Tick, RateInv, Covers, Counting
    <2>10. file = Zero => file' = Zero
      <3>1. [r \in DOMAIN NoRuns |-> Aged(NoRuns[r])] = NoRuns
        BY DEF NoRuns
      <3> QED
        BY <1>8, <3>1 DEF Tick, AgedState, Zero
    <2>11. file' = Zero \/ Covers(file)'
      BY <1>8, <1>t, <2>1, <2>2, <2>5, <2>10, <2>13 DEF Tick, RateInv, Covers, Counting
    <2>12. Cardinality(Counting') <= maxAppleRunsPerHour
      BY <2>13, FewerStarts
    <2> QED
      BY <1>8, <2>1, <2>5, <2>8, <2>9, <2>11, <2>12 DEF Tick, RateInv
  <1>9. CASE UNCHANGED vars
    BY <1>9 DEF RateInv, TypeOK, Covers, Counting, vars
  <1> QED
    BY <1>1, <1>2, <1>3, <1>4, <1>5, <1>6, <1>7, <1>8, <1>9 DEF Next

\* The guard, its state file and the histories keep their types, through every
\* noted run, crash and restart: a free name is found whenever a helper starts.
THEOREM GuardTypes == Spec => []TypeOK
  <1>1. RateInv => TypeOK
    BY DEF RateInv
  <1> QED
    BY RateInit, RateStep, <1>1, PTL DEF Spec

\* However the worker is killed, however exports end and whatever becomes of the
\* state file: of the helper runs that begin within any hour at most
\* maxAppleRunsPerHour are known to the guard (allow, prune, noteRun, newAppleGuard
\* of the signing worker), although a run is counted by its end: with one run at a
\* time, the one in progress is the only start the guard has still to note.
THEOREM RateIsCapped == Spec => []RateCap
  <1>1. ASSUME RateInv PROVE RateCap
    <2>1. uncounted \subseteq DOMAIN starts /\ DOMAIN starts \subseteq Runs
      BY <1>1, RunAgesType DEF RateInv, TypeOK
    <2>2. Cardinality(DOMAIN starts \ uncounted) =
            Cardinality(DOMAIN starts) - Cardinality(DOMAIN starts \intersect uncounted)
      BY <2>1, RunsAreFinite, FS_Difference
    <2>3. DOMAIN starts \intersect uncounted = uncounted
      BY <2>1
    <2>4. Cardinality(DOMAIN starts) \in Nat /\ Cardinality(uncounted) \in Nat
      BY <2>1, RunsAreFinite
    <2> QED
      BY <1>1, <2>2, <2>3, <2>4, GuardAssumptions DEF RateInv, RateCap, Counting
  <1> QED
    BY RateInit, RateStep, <1>1, PTL DEF Spec
===============================================================================
