-------------------------- MODULE ArtifactStoreProofs --------------------------
(***************************************************************************)
(* The advisory lock protects every hash on which nobody works without it, *)
(* for any number of hashes, requests and restarts.                        *)
(***************************************************************************)
EXTENDS ArtifactStore, TLAPS

\* A request that is under way has a kind and a hash, and has created no file
\* before it publishes.
WorkOK(req) ==
    /\ req.step # "idle" => req.kind # "none" /\ req.hash \in Hashes
    /\ req.step \in {"saved", "locked", "renaming"} => ~req.created

Working == \A r \in Requests : WorkOK(requests[r])

UnderLock == {"locked", "renaming", "published", "inserted"}

\* Uploads, derivatives and retention hold the lock of the hash they work on.
LocksHeld ==
    /\ \A r \in Requests :
         requests[r].kind \in LockedKinds /\ requests[r].step \in UnderLock =>
             lock[requests[r].hash] = r
    /\ pruner.hash \in Hashes => lock[pruner.hash] = Pruner

\* The history misses no overlap.
OverlapsExposed == \A h \in Hashes : Overlap(h, requests, pruner) => h \in exposed

\* What a request relies on.  A new row waits for its file; a file that will be
\* removed, or may be, is not served.
ReqOK(req, h) ==
    /\ req.step = "renaming" => h \notin files
    /\ req.step \in {"published", "inserted"} => h \in files /\ (req.created => ~Served(h))
    /\ req.step = "removing" => ~Served(h)
    /\ req.kind = "upload" /\ ~req.existing /\ req.step \in UnderLock => originals[h] = "none"

HashOK(h) ==
    /\ Served(h) => h \in files
    /\ \A r \in Requests : Busy(requests[r], h) => ReqOK(requests[r], h)
    /\ pruner.hash = h /\ pruner.drop => ~Served(h)

\* The hashes whose bytes the code does not vouch for.
Doubtful == exposed \union wronged

USE DEF Doubtful

HashesOK == \A h \in Hashes : h \notin Doubtful => HashOK(h)

\* What the locks guarantee, and what follows from it for files and rows.
LockInv == TypeOK /\ Working /\ LocksHeld /\ OverlapsExposed

IInv == LockInv /\ HashesOK

-------------------------------------------------------------------------------
(***************************************************************************)
(* Facts about overlaps.                                                   *)
(***************************************************************************)

\* On a hash that is not exposed nobody works beside a busy request.
LEMMA Alone ==
    ASSUME LockInv, NEW h \in Hashes, h \notin exposed,
           NEW r \in Requests, Busy(requests[r], h)
    PROVE  pruner.hash # h /\ \A q \in Requests \ {r} : ~Busy(requests[q], h)
  <1>1. ~Overlap(h, requests, pruner)
    BY DEF LockInv, OverlapsExposed
  <1>2. ASSUME NEW q \in Requests, Busy(requests[q], h)
        PROVE  \/ Unlocked(requests[q], h)
               \/ requests[q].kind \in LockedKinds /\ requests[q].step \in UnderLock
    <2>1. requests[q] \in Request /\ requests[q].kind # "none"
      BY <1>2 DEF LockInv, TypeOK, Working, WorkOK, Busy
    <2> QED
      BY <1>2, <2>1 DEF Request, Unlocked, Busy, UnderLock
  <1>3. CASE Unlocked(requests[r], h)
    BY <1>1, <1>3 DEF Overlap
  <1>4. CASE ~Unlocked(requests[r], h)
    <2>1. lock[h] = r
      BY <1>2, <1>4 DEF LockInv, LocksHeld, Busy
    <2>2. pruner.hash # h
      BY <2>1, StoreAssumptions DEF LockInv, LocksHeld
    <2>3. ASSUME NEW q \in Requests \ {r}, Busy(requests[q], h) PROVE FALSE
      <3>1. ~Unlocked(requests[q], h)
        BY <1>1, <2>3 DEF Overlap
      <3>2. lock[h] = q
        BY <1>2, <2>3, <3>1 DEF LockInv, LocksHeld, Busy
      <3> QED
        BY <2>1, <2>3, <3>2
    <2> QED
      BY <2>2, <2>3
  <1> QED
    BY <1>3, <1>4

\* Nor beside retention.
LEMMA PrunerAlone ==
    ASSUME LockInv, NEW h \in Hashes, h \notin exposed, pruner.hash = h
    PROVE  \A q \in Requests : ~Busy(requests[q], h)
  BY Alone

\* A step that makes nobody busy and nobody unlocked keeps the overlaps.
LEMMA OverlapMono ==
    ASSUME NEW h, NEW reqs, NEW prn, NEW reqs2, NEW prn2,
           \A r \in Requests : /\ Busy(reqs2[r], h) => Busy(reqs[r], h)
                               /\ Unlocked(reqs2[r], h) => Unlocked(reqs[r], h),
           prn2.hash = h => prn.hash = h
    PROVE  Overlap(h, reqs2, prn2) => Overlap(h, reqs, prn)
  BY DEF Overlap

\* The overlaps after a step that records them.
LEMMA ExposeAll == Expose(requests', pruner') => OverlapsExposed'
  BY DEF Expose, OverlapsExposed

\* The overlaps after a step that need not.
LEMMA ExposeNone ==
    ASSUME LockInv, exposed' = exposed,
           \A h \in Hashes, r \in Requests :
              /\ Busy(requests'[r], h) => Busy(requests[r], h)
              /\ Unlocked(requests'[r], h) => Unlocked(requests[r], h),
           \A h \in Hashes : pruner'.hash = h => pruner.hash = h
    PROVE  OverlapsExposed'
  <1> SUFFICES ASSUME NEW h \in Hashes, Overlap(h, requests', pruner') PROVE h \in exposed
    BY DEF OverlapsExposed
  <1>1. Overlap(h, requests, pruner)
    BY OverlapMono
  <1> QED
    BY <1>1 DEF LockInv, OverlapsExposed

-------------------------------------------------------------------------------
LEMMA InitInv == Init => IInv
  <1> SUFFICES ASSUME Init PROVE IInv
    OBVIOUS
  <1> USE StoreAssumptions
  <1>1. TypeOK
    BY DEF Init, TypeOK, IdleRequest, IdlePruner, Request, PrunerState
  <1>2. Working /\ LocksHeld
    BY DEF Init, Working, WorkOK, LocksHeld, IdleRequest, IdlePruner, UnderLock
  <1>3. OverlapsExposed
    BY DEF Init, OverlapsExposed, Overlap, Unlocked, Busy, IdleRequest
  <1>4. HashesOK
    BY DEF Init, HashesOK, HashOK, Served, Busy, IdleRequest, IdlePruner
  <1> QED
    BY <1>1, <1>2, <1>3, <1>4 DEF IInv, LockInv

LEMMA SaveInv ==
    ASSUME LockInv, NEW r \in Requests, NEW kind \in Kinds, NEW h \in Hashes,
           SaveToTemp(r, kind, h)
    PROVE  LockInv' /\ (HashesOK => HashesOK')
  <1> USE StoreAssumptions
  <1> DEFINE new == [IdleRequest EXCEPT !.kind = kind, !.step = "saved", !.hash = h]
  <1>1. /\ new \in Request /\ new.step = "saved" /\ new.kind # "none" /\ new.hash = h
        /\ ~new.created
    BY DEF Request, IdleRequest, LockedKinds, ImportKinds
  <1>2. requests' = [requests EXCEPT ![r] = new]
        /\ UNCHANGED <<files, originals, derived, lock, pruner, exposed, litter, wronged, restarts>>
    BY DEF SaveToTemp, tables, history
  <1> HIDE DEF new
  <1>3. TypeOK'
    BY <1>1, <1>2 DEF LockInv, TypeOK
  <1>4. Working' /\ LocksHeld'
    BY <1>1, <1>2 DEF LockInv, TypeOK, Working, WorkOK, LocksHeld, UnderLock
  <1>5. \A g \in Hashes, q \in Requests : Busy(requests'[q], g) => requests'[q] = requests[q]
    BY <1>1, <1>2 DEF LockInv, TypeOK, Busy
  <1>6. OverlapsExposed'
    BY <1>2, <1>5, ExposeNone DEF Unlocked
  <1>7. HashesOK => HashesOK'
    BY <1>2, <1>5 DEF HashesOK, HashOK, ReqOK, Served
  <1> QED
    BY <1>3, <1>4, <1>6, <1>7 DEF LockInv

-------------------------------------------------------------------------------
(***************************************************************************)
(* A step of the request r to the state new.                               *)
(***************************************************************************)

\* Locks of others are left alone.
LEMMA Frame ==
    ASSUME LockInv, NEW r \in Requests, NEW new \in Request,
           requests' = [requests EXCEPT ![r] = new], pruner' = pruner,
           WorkOK(new),
           lock' \in [Hashes -> Requests \union {Free, Pruner}],
           \A h \in Hashes : lock'[h] = lock[h] \/ lock[h] \in {r, Free},
           new.kind \in LockedKinds /\ new.step \in UnderLock => lock'[new.hash] = r
    PROVE  requests' \in [Requests -> Request] /\ Working' /\ LocksHeld'
  <1> USE StoreAssumptions
  <1>1. requests' \in [Requests -> Request] /\ Working'
    BY DEF LockInv, TypeOK, Working
  <1>2. ASSUME NEW q \in Requests, requests'[q].kind \in LockedKinds,
               requests'[q].step \in UnderLock
        PROVE  lock'[requests'[q].hash] = q
    <2>1. CASE q = r
      BY <1>2, <2>1 DEF LockInv, TypeOK
    <2>2. CASE q # r
      <3>1. requests'[q] = requests[q] /\ requests[q].hash \in Hashes
        BY <1>2, <2>2 DEF LockInv, TypeOK, Working, WorkOK, UnderLock
      <3>2. lock[requests[q].hash] = q
        BY <1>2, <3>1 DEF LockInv, LocksHeld
      <3> QED
        BY <2>2, <3>1, <3>2
    <2> QED
      BY <2>1, <2>2
  <1>3. pruner'.hash \in Hashes => lock'[pruner'.hash] = Pruner
    BY DEF LockInv, LocksHeld
  <1> QED
    BY <1>1, <1>2, <1>3 DEF LocksHeld

\* A step that changes neither files nor tables.
LEMMA QuietStep ==
    ASSUME LockInv, HashesOK, NEW r \in Requests, NEW new \in Request,
           requests' = [requests EXCEPT ![r] = new],
           UNCHANGED <<files, originals, derived, pruner>>,
           Doubtful \subseteq Doubtful',
           \A h \in Hashes : h \notin Doubtful' /\ Busy(new, h) => ReqOK(new, h)
    PROVE  HashesOK'
  <1> SUFFICES ASSUME NEW h \in Hashes, h \notin Doubtful' PROVE HashOK(h)'
    BY DEF HashesOK
  <1>1. HashOK(h)
    BY DEF HashesOK
  <1>2. ASSUME NEW q \in Requests, Busy(requests'[q], h) PROVE ReqOK(requests'[q], h)
    BY <1>1, <1>2 DEF LockInv, TypeOK, HashOK
  <1>3. ASSUME NEW req, ReqOK(req, h) PROVE ReqOK(req, h)'
    BY <1>3 DEF ReqOK, Served
  <1>4. \A q \in Requests : Busy(requests[q], h)' => ReqOK(requests[q], h)'
    BY <1>2 DEF ReqOK, Served, Busy
  <1> QED
    BY <1>1, <1>4 DEF HashOK, Served

LEMMA TakeLockInv ==
    ASSUME LockInv, NEW r \in Requests, TakeLock(r)
    PROVE  LockInv' /\ (HashesOK => HashesOK')
  <1> USE StoreAssumptions
  <1> DEFINE h == requests[r].hash
             new == [requests[r] EXCEPT !.step = "locked",
                       !.existing = requests[r].kind = "upload" /\ originals[h] # "none"]
  <1>1. requests[r] \in Request /\ h \in Hashes /\ requests[r].kind # "none"
    BY DEF LockInv, TypeOK, Working, WorkOK, TakeLock
  <1>2. /\ new \in Request /\ new.step = "locked" /\ new.hash = h
        /\ new.kind = requests[r].kind
        /\ new.existing <=> requests[r].kind = "upload" /\ originals[h] # "none"
        /\ ~new.created
    BY <1>1 DEF Request, LockInv, Working, WorkOK, TakeLock
  <1>3. requests' = [requests EXCEPT ![r] = new]
    BY <1>1 DEF LockInv, TypeOK, TakeLock
  <1>4. /\ lock' = [lock EXCEPT ![h] = r] /\ lock[h] = Free
        /\ Expose(requests', pruner)
        /\ UNCHANGED <<files, originals, derived, pruner, litter, wronged, restarts>>
    BY DEF TakeLock, tables
  <1>5. lock' \in [Hashes -> Requests \union {Free, Pruner}] /\ lock'[h] = r
        /\ \A g \in Hashes : lock'[g] = lock[g] \/ lock[g] \in {r, Free}
    BY <1>1, <1>4 DEF LockInv, TypeOK
  <1> HIDE DEF new
  <1>6. requests' \in [Requests -> Request] /\ Working' /\ LocksHeld'
    BY <1>1, <1>2, <1>3, <1>4, <1>5, Frame DEF WorkOK
  <1>7. TypeOK'
    BY <1>4, <1>5, <1>6 DEF LockInv, TypeOK, Expose
  <1>8. OverlapsExposed'
    BY <1>4, ExposeAll
  <1>9. HashesOK => HashesOK'
    <2> SUFFICES ASSUME HashesOK PROVE HashesOK'
      OBVIOUS
    <2>1. \A g \in Hashes : Busy(new, g) => ReqOK(new, g)
      BY <1>2 DEF Busy, ReqOK
    <2> QED
      BY <1>2, <1>3, <1>4, <2>1, QuietStep DEF Expose
  <1> QED
    BY <1>6, <1>7, <1>8, <1>9 DEF LockInv

LEMMA PublishStatInv ==
    ASSUME LockInv, NEW r \in Requests, PublishStat(r)
    PROVE  LockInv' /\ (HashesOK => HashesOK')
  <1> USE StoreAssumptions
  <1> DEFINE h == requests[r].hash
             new == [requests[r] EXCEPT !.step =
                       IF h \in files THEN "published" ELSE "renaming"]
  <1>1. requests[r] \in Request /\ h \in Hashes /\ requests[r].kind # "none"
    BY DEF LockInv, TypeOK, Working, WorkOK, PublishStat, ReadyToPublish
  <1>2. /\ new \in Request /\ new.hash = h /\ new.kind = requests[r].kind
        /\ new.existing = requests[r].existing /\ new.created = requests[r].created
        /\ new.step = IF h \in files THEN "published" ELSE "renaming"
    BY <1>1 DEF Request
  <1>3. requests' = [requests EXCEPT ![r] = new]
    BY <1>1 DEF LockInv, TypeOK, PublishStat
  <1>4. /\ Expose(requests', pruner)
        /\ UNCHANGED <<files, originals, derived, lock, pruner, litter, wronged, restarts>>
    BY DEF PublishStat, tables
  <1> HIDE DEF new
  <1>5. new.kind \in LockedKinds => lock[h] = r
    BY <1>2 DEF LockInv, LocksHeld, UnderLock, PublishStat, ReadyToPublish, LockedKinds, ImportKinds
  <1>6. requests' \in [Requests -> Request] /\ Working' /\ LocksHeld'
    <2>1. lock' \in [Hashes -> Requests \union {Free, Pruner}]
      BY <1>4 DEF LockInv, TypeOK
    <2>2. WorkOK(new)
      BY <1>1, <1>2 DEF WorkOK, LockInv, Working, PublishStat, ReadyToPublish
    <2> QED
      BY <1>2, <1>3, <1>4, <1>5, <2>1, <2>2, Frame
  <1>7. TypeOK'
    BY <1>4, <1>6 DEF LockInv, TypeOK, Expose
  <1>8. OverlapsExposed'
    BY <1>4, ExposeAll
  <1>9. HashesOK => HashesOK'
    <2> SUFFICES ASSUME HashesOK PROVE HashesOK'
      OBVIOUS
    <2>1. ASSUME NEW g \in Hashes, g \notin Doubtful', Busy(new, g) PROVE ReqOK(new, g)
      <3>1. g = h /\ g \notin Doubtful
        BY <2>1, <1>2, <1>4 DEF Busy, Expose
      <3>2. requests[r].created = FALSE
        BY <1>1 DEF LockInv, Working, WorkOK, PublishStat, ReadyToPublish, Request
      <3>3. requests[r].kind = "upload" => requests[r].step = "locked"
        BY DEF PublishStat, ReadyToPublish, ImportKinds
      <3>4. requests[r].step = "locked" => ReqOK(requests[r], h)
        BY <3>1 DEF HashesOK, HashOK, Busy
      <3> QED
        BY <1>2, <3>1, <3>2, <3>3, <3>4 DEF ReqOK, UnderLock
    <2> QED
      BY <1>2, <1>3, <1>4, <2>1, QuietStep DEF Expose
  <1> QED
    BY <1>6, <1>7, <1>8, <1>9 DEF LockInv

\* A request that ends, whatever it did to its lock.
LEMMA EndedFrame ==
    ASSUME LockInv, NEW r \in Requests, requests' = Ended(r), pruner' = pruner,
           exposed' = exposed,
           lock' = lock \/ Unlock(requests[r].hash, r)
    PROVE  /\ requests' \in [Requests -> Request] /\ Working' /\ LocksHeld'
           /\ lock' \in [Hashes -> Requests \union {Free, Pruner}]
           /\ OverlapsExposed'
           /\ \A q \in Requests : q # r => requests'[q] = requests[q]
           /\ \A h : ~Busy(requests'[r], h)
  <1> USE StoreAssumptions
  <1>1. IdleRequest \in Request /\ IdleRequest.step = "idle" /\ IdleRequest.kind = "none"
    BY DEF IdleRequest, Request
  <1>2. requests' = [requests EXCEPT ![r] = IdleRequest]
    BY DEF Ended
  <1>3. /\ lock' \in [Hashes -> Requests \union {Free, Pruner}]
        /\ \A h \in Hashes : lock'[h] = lock[h] \/ lock[h] \in {r, Free}
    BY DEF LockInv, TypeOK, Unlock
  <1>4. WorkOK(IdleRequest) /\ IdleRequest.step \notin UnderLock
    BY <1>1 DEF WorkOK, UnderLock
  <1>5. requests' \in [Requests -> Request] /\ Working' /\ LocksHeld'
    BY <1>1, <1>2, <1>3, <1>4, Frame
  <1>6. /\ \A q \in Requests : q # r => requests'[q] = requests[q]
        /\ \A h : ~Busy(requests'[r], h)
    BY <1>1, <1>2 DEF LockInv, TypeOK, Busy
  <1>7. OverlapsExposed'
    BY <1>6, ExposeNone DEF Unlocked
  <1> QED
    BY <1>3, <1>5, <1>6, <1>7

\* One that ends without a change of files and tables.
LEMMA EndInv ==
    ASSUME LockInv, NEW r \in Requests, requests' = Ended(r),
           lock' = lock \/ Unlock(requests[r].hash, r),
           UNCHANGED <<files, pruner, exposed, restarts>>,
           originals' \in [Hashes -> Verdicts \union {"none"}],
           derived' \in [Hashes -> SUBSET {"fresh", "expired"}],
           litter' \subseteq Hashes, wronged' = wronged
    PROVE  LockInv' /\ (HashesOK /\ UNCHANGED <<originals, derived>> => HashesOK')
  <1>1. /\ requests' \in [Requests -> Request] /\ Working' /\ LocksHeld' /\ OverlapsExposed'
        /\ lock' \in [Hashes -> Requests \union {Free, Pruner}]
    BY EndedFrame
  <1>2. TypeOK'
    BY <1>1 DEF LockInv, TypeOK
  <1>3. HashesOK /\ UNCHANGED <<originals, derived>> => HashesOK'
    <2> SUFFICES ASSUME HashesOK, UNCHANGED <<originals, derived>> PROVE HashesOK'
      OBVIOUS
    <2>1. IdleRequest \in Request /\ \A h : ~Busy(IdleRequest, h)
      BY StoreAssumptions DEF IdleRequest, Request, Busy
    <2> QED
      BY <2>1, QuietStep DEF Ended
  <1> QED
    BY <1>1, <1>2, <1>3 DEF LockInv

LEMMA PublishRenameInv ==
    ASSUME LockInv, NEW r \in Requests, PublishRename(r)
    PROVE  LockInv' /\ (HashesOK => HashesOK')
  <1> USE StoreAssumptions
  <1> DEFINE h == requests[r].hash
             new == [requests[r] EXCEPT !.step = "published", !.created = TRUE]
  <1>1. /\ requests[r] \in Request /\ h \in Hashes /\ requests[r].kind # "none"
        /\ requests[r].step = "renaming"
    BY DEF LockInv, TypeOK, Working, WorkOK, PublishRename
  <1>2. /\ new \in Request /\ new.hash = h /\ new.kind = requests[r].kind
        /\ new.existing = requests[r].existing /\ new.step = "published"
    BY <1>1 DEF Request
  <1>3. /\ requests' = [requests EXCEPT ![r] = new] /\ files' = files \union {h}
        /\ UNCHANGED <<originals, derived, lock, pruner, exposed, litter, wronged, restarts>>
    BY <1>1 DEF LockInv, TypeOK, PublishRename, tables, history
  <1> HIDE DEF new
  <1>4. WorkOK(new) /\ (new.kind \in LockedKinds => lock[h] = r)
    BY <1>1, <1>2 DEF WorkOK, LockInv, LocksHeld, UnderLock
  <1>5. requests' \in [Requests -> Request] /\ Working' /\ LocksHeld'
    <2>1. lock' \in [Hashes -> Requests \union {Free, Pruner}]
      BY <1>3 DEF LockInv, TypeOK
    <2> QED
      BY <1>2, <1>3, <1>4, <2>1, Frame
  <1>6. TypeOK'
    BY <1>1, <1>3, <1>5 DEF LockInv, TypeOK
  <1>7. \A g, q : q \in Requests => /\ Busy(requests'[q], g) <=> Busy(requests[q], g)
                                    /\ Unlocked(requests'[q], g) <=> Unlocked(requests[q], g)
    BY <1>1, <1>2, <1>3 DEF LockInv, TypeOK, Busy, Unlocked
  <1>8. OverlapsExposed'
    BY <1>3, <1>7, ExposeNone
  <1>9. HashesOK => HashesOK'
    <2> SUFFICES ASSUME HashesOK PROVE HashesOK'
      OBVIOUS
    <2> SUFFICES ASSUME NEW g \in Hashes, g \notin Doubtful PROVE HashOK(g)'
      BY <1>3 DEF HashesOK
    <2>1. HashOK(g)
      BY DEF HashesOK
    <2>2. CASE g # h
      <3>1. \A q \in Requests : Busy(requests'[q], g) => requests'[q] = requests[q]
        BY <1>2, <1>3, <2>2 DEF LockInv, TypeOK, Busy
      <3> QED
        BY <1>3, <1>7, <2>1, <2>2, <3>1 DEF HashOK, ReqOK, Served, Busy
    <2>3. CASE g = h
      <3>1. Busy(requests[r], h) /\ ReqOK(requests[r], h)
        BY <1>1, <2>1, <2>3 DEF HashOK, Busy
      <3>2. pruner.hash # h /\ \A q \in Requests \ {r} : ~Busy(requests[q], h)
        BY <1>1, <2>3, <3>1, Alone
      <3>3. h \notin files /\ ~Served(h)
        BY <1>1, <2>1, <2>3, <3>1 DEF ReqOK, HashOK
      <3>4. requests'[r] = new
        BY <1>3 DEF LockInv, TypeOK
      <3>5. ReqOK(requests[r], g)'
        BY <1>1, <1>2, <1>3, <2>3, <3>1, <3>3, <3>4 DEF ReqOK, Served, UnderLock
      <3>6. \A q \in Requests : Busy(requests'[q], g) => q = r
        BY <1>7, <2>3, <3>2
      <3>7. ~Served(g)' /\ g \in files' /\ pruner'.hash # g
        BY <1>3, <2>3, <3>2, <3>3 DEF Served
      <3> QED
        BY <3>5, <3>6, <3>7 DEF HashOK, Busy
    <2> QED
      BY <2>2, <2>3
  <1> QED
    BY <1>5, <1>6, <1>8, <1>9 DEF LockInv

LEMMA InsertRowInv ==
    ASSUME LockInv, NEW r \in Requests, InsertRow(r)
    PROVE  LockInv' /\ (HashesOK => HashesOK')
  <1> USE StoreAssumptions
  <1> DEFINE h == requests[r].hash
             new == [requests[r] EXCEPT !.step = "inserted"]
  <1>1. /\ requests[r] \in Request /\ h \in Hashes /\ requests[r].kind # "none"
        /\ requests[r].step = "published"
    BY DEF LockInv, TypeOK, Working, WorkOK, InsertRow
  <1>2. /\ new \in Request /\ new.hash = h /\ new.kind = requests[r].kind
        /\ new.existing = requests[r].existing /\ new.step = "inserted"
        /\ new.created = requests[r].created
    BY <1>1 DEF Request
  <1>3. /\ requests' = [requests EXCEPT ![r] = new]
        /\ UNCHANGED <<files, originals, derived, lock, pruner, exposed, litter, wronged, restarts>>
    BY <1>1 DEF LockInv, TypeOK, InsertRow, tables, history
  <1> HIDE DEF new
  <1>4. WorkOK(new) /\ (new.kind \in LockedKinds => lock[h] = r)
    BY <1>1, <1>2 DEF WorkOK, LockInv, LocksHeld, UnderLock
  <1>5. requests' \in [Requests -> Request] /\ Working' /\ LocksHeld'
    <2>1. lock' \in [Hashes -> Requests \union {Free, Pruner}]
      BY <1>3 DEF LockInv, TypeOK
    <2> QED
      BY <1>2, <1>3, <1>4, <2>1, Frame
  <1>6. TypeOK'
    BY <1>1, <1>3, <1>5 DEF LockInv, TypeOK
  <1>7. \A g, q : q \in Requests => /\ Busy(requests'[q], g) <=> Busy(requests[q], g)
                                    /\ Unlocked(requests'[q], g) <=> Unlocked(requests[q], g)
    BY <1>1, <1>2, <1>3 DEF LockInv, TypeOK, Busy, Unlocked
  <1>8. OverlapsExposed'
    BY <1>3, <1>7, ExposeNone
  <1>9. HashesOK => HashesOK'
    <2> SUFFICES ASSUME HashesOK PROVE HashesOK'
      OBVIOUS
    <2>1. ASSUME NEW g \in Hashes, g \notin Doubtful', Busy(new, g) PROVE ReqOK(new, g)
      <3>1. g = h /\ ReqOK(requests[r], h)
        BY <1>1, <1>2, <1>3, <2>1 DEF HashesOK, HashOK, Busy
      <3> QED
        BY <1>1, <1>2, <3>1 DEF ReqOK, UnderLock
    <2> QED
      BY <1>2, <1>3, <2>1, QuietStep
  <1> QED
    BY <1>5, <1>6, <1>8, <1>9 DEF LockInv

\* A request that ends and changes the rows or the file of its hash, which is
\* served afterwards only if the file is there.
LEMMA EndServing ==
    ASSUME LockInv, NEW r \in Requests, NEW h \in Hashes, Busy(requests[r], h),
           requests' = Ended(r), lock' = lock \/ Unlock(requests[r].hash, r),
           UNCHANGED <<pruner, exposed, litter, wronged, restarts>>,
           files' \subseteq Hashes,
           originals' \in [Hashes -> Verdicts \union {"none"}],
           derived' \in [Hashes -> SUBSET {"fresh", "expired"}],
           \A g \in Hashes \ {h} : /\ g \in files' <=> g \in files
                                   /\ originals'[g] = originals[g]
                                   /\ derived'[g] = derived[g],
           HashesOK /\ h \notin Doubtful => (Served(h)' => h \in files')
    PROVE  LockInv' /\ (HashesOK => HashesOK')
  <1>1. /\ requests' \in [Requests -> Request] /\ Working' /\ LocksHeld' /\ OverlapsExposed'
        /\ lock' \in [Hashes -> Requests \union {Free, Pruner}]
        /\ \A q \in Requests : q # r => requests'[q] = requests[q]
        /\ \A g : ~Busy(requests'[r], g)
    BY EndedFrame
  <1>2. TypeOK'
    BY <1>1 DEF LockInv, TypeOK
  <1>3. HashesOK => HashesOK'
    <2> SUFFICES ASSUME HashesOK PROVE HashesOK'
      OBVIOUS
    <2> SUFFICES ASSUME NEW g \in Hashes, g \notin Doubtful PROVE HashOK(g)'
      BY DEF HashesOK
    <2>1. HashOK(g)
      BY DEF HashesOK
    <2>2. CASE g # h
      <3>1. /\ Served(g)' <=> Served(g)
            /\ \A req : ReqOK(req, g) =>
                 /\ req.step = "renaming" => g \notin files'
                 /\ req.step \in {"published", "inserted"} =>
                      g \in files' /\ (req.created => ~Served(g)')
                 /\ req.step = "removing" => ~Served(g)'
                 /\ req.kind = "upload" /\ ~req.existing /\ req.step \in UnderLock =>
                      originals'[g] = "none"
        BY <2>2 DEF Served, ReqOK
      <3>2. ASSUME NEW q \in Requests, Busy(requests'[q], g)
            PROVE  requests'[q] = requests[q] /\ ReqOK(requests[q], g)
        BY <1>1, <2>1, <3>2 DEF HashOK
      <3>3. \A q \in Requests : Busy(requests[q], g)' => ReqOK(requests[q], g)'
        BY <3>1, <3>2 DEF Busy, ReqOK
      <3> QED
        BY <2>1, <2>2, <3>1, <3>3 DEF HashOK
    <2>3. CASE g = h
      <3>1. pruner.hash # h /\ \A q \in Requests \ {r} : ~Busy(requests[q], h)
        BY <2>3, Alone
      <3>2. \A q \in Requests : ~Busy(requests'[q], h)
        BY <1>1, <3>1
      <3> QED
        BY <2>3, <3>1, <3>2 DEF HashOK, Busy
    <2> QED
      BY <2>2, <2>3
  <1> QED
    BY <1>1, <1>2, <1>3 DEF LockInv

\* A committed row finds its file.
LEMMA CommitRowInv ==
    ASSUME LockInv, NEW r \in Requests, CommitRow(r)
    PROVE  LockInv' /\ (HashesOK => HashesOK')
  <1> USE StoreAssumptions
  <1> DEFINE h == requests[r].hash
  <1>1. /\ h \in Hashes /\ Busy(requests[r], h) /\ requests[r].step = "inserted"
    BY DEF LockInv, TypeOK, Working, WorkOK, CommitRow, Busy
  <1>2. HashesOK /\ h \notin Doubtful => h \in files
    BY <1>1 DEF HashesOK, HashOK, ReqOK
  <1>3. /\ originals' \in [Hashes -> Verdicts \union {"none"}]
        /\ derived' \in [Hashes -> SUBSET {"fresh", "expired"}]
        /\ \A g \in Hashes \ {h} : originals'[g] = originals[g] /\ derived'[g] = derived[g]
    BY <1>1 DEF LockInv, TypeOK, CommitRow, StoreRow, Verdicts
  <1>4. /\ requests' = Ended(r) /\ Unlock(requests[r].hash, r)
        /\ UNCHANGED <<files, pruner, exposed, litter, wronged, restarts>>
    BY DEF CommitRow, history
  <1>5. files' \subseteq Hashes
    BY <1>4 DEF LockInv, TypeOK
  <1> HIDE DEF h
  <1> QED
    BY <1>1, <1>2, <1>3, <1>4, <1>5, EndServing

LEMMA ImportUpsertInv ==
    ASSUME LockInv, NEW r \in Requests, ImportUpsert(r)
    PROVE  LockInv' /\ (HashesOK => HashesOK')
  <1> USE StoreAssumptions
  <1> DEFINE h == requests[r].hash
  <1>1. /\ h \in Hashes /\ Busy(requests[r], h) /\ requests[r].step = "published"
    BY DEF LockInv, TypeOK, Working, WorkOK, ImportUpsert, Busy
  <1>2. HashesOK /\ h \notin Doubtful => h \in files
    BY <1>1 DEF HashesOK, HashOK, ReqOK
  <1>3. /\ originals' \in [Hashes -> Verdicts \union {"none"}]
        /\ derived' \in [Hashes -> SUBSET {"fresh", "expired"}]
        /\ \A g \in Hashes \ {h} : originals'[g] = originals[g] /\ derived'[g] = derived[g]
    BY <1>1 DEF LockInv, TypeOK, ImportUpsert, Verdicts
  <1>4. /\ requests' = Ended(r) /\ lock' = lock
        /\ UNCHANGED <<files, pruner, exposed, litter, wronged, restarts>>
    BY DEF ImportUpsert, history
  <1>5. files' \subseteq Hashes
    BY <1>4 DEF LockInv, TypeOK
  <1> HIDE DEF h
  <1> QED
    BY <1>1, <1>2, <1>3, <1>4, <1>5, EndServing

LEMMA RemoveInv ==
    ASSUME LockInv, NEW r \in Requests, Remove(r)
    PROVE  LockInv' /\ (HashesOK => HashesOK')
  <1> USE StoreAssumptions
  <1> DEFINE h == requests[r].hash
  <1>1. /\ h \in Hashes /\ Busy(requests[r], h) /\ requests[r].step = "removing"
    BY DEF LockInv, TypeOK, Working, WorkOK, Remove, Busy
  <1>2. HashesOK /\ h \notin Doubtful => ~Served(h)
    BY <1>1 DEF HashesOK, HashOK, ReqOK
  <1>3. /\ requests' = Ended(r) /\ lock' = lock /\ files' = files \ {h}
        /\ UNCHANGED <<originals, derived, pruner, exposed, litter, wronged, restarts>>
    BY DEF Remove, tables, history
  <1>4. files' \subseteq Hashes /\ originals' \in [Hashes -> Verdicts \union {"none"}]
        /\ derived' \in [Hashes -> SUBSET {"fresh", "expired"}]
    BY <1>3 DEF LockInv, TypeOK
  <1>5. ASSUME NEW g, g = h PROVE Served(g)' <=> Served(g)
    BY <1>3 DEF Served
  <1> HIDE DEF h
  <1> QED
    <2>1. PICK g \in Hashes : g = h
      BY <1>1
    <2> QED
      BY <1>1, <1>2, <1>3, <1>4, <1>5, <2>1, EndServing

\* A failed request goes on to remove a file, which is not served or counted as
\* wronged.
LEMMA FailInv ==
    ASSUME LockInv, NEW r \in Requests,
           requests[r].step \in {"published", "inserted"},
           requests' = [requests EXCEPT ![r].step = "removing"],
           Unlock(requests[r].hash, r), Expose(requests', pruner),
           originals' \in [Hashes -> Verdicts \union {"none"}],
           derived' \in [Hashes -> SUBSET {"fresh", "expired"}],
           \A g \in Hashes \ {requests[r].hash} :
              originals'[g] = originals[g] /\ derived'[g] = derived[g],
           wronged \subseteq wronged', wronged' \subseteq Hashes,
           UNCHANGED <<files, pruner, litter, restarts>>,
           HashesOK => \/ requests[r].hash \in exposed \union wronged'
                       \/ /\ ~Served(requests[r].hash)
                          /\ originals'[requests[r].hash] = originals[requests[r].hash]
                          /\ derived'[requests[r].hash] = derived[requests[r].hash]
    PROVE  LockInv' /\ (HashesOK => HashesOK')
  <1> USE StoreAssumptions
  <1> DEFINE h == requests[r].hash
             new == [requests[r] EXCEPT !.step = "removing"]
  <1>1. requests[r] \in Request /\ h \in Hashes /\ requests[r].kind # "none"
    BY DEF LockInv, TypeOK, Working, WorkOK
  <1>2. new \in Request /\ new.hash = h /\ new.kind = requests[r].kind /\ new.step = "removing"
    BY <1>1 DEF Request
  <1>3. requests' = [requests EXCEPT ![r] = new]
    BY <1>1 DEF LockInv, TypeOK
  <1>4. /\ lock' \in [Hashes -> Requests \union {Free, Pruner}]
        /\ \A g \in Hashes : lock'[g] = lock[g] \/ lock[g] \in {r, Free}
    BY <1>1 DEF LockInv, TypeOK, Unlock
  <1>5. WorkOK(new) /\ new.step \notin UnderLock
    BY <1>1, <1>2 DEF WorkOK, UnderLock
  <1> HIDE DEF new
  <1>6. requests' \in [Requests -> Request] /\ Working' /\ LocksHeld'
    BY <1>2, <1>3, <1>4, <1>5, Frame
  <1>7. TypeOK'
    BY <1>4, <1>6 DEF LockInv, TypeOK, Expose
  <1>8. OverlapsExposed'
    BY ExposeAll
  <1>9. ASSUME HashesOK PROVE HashesOK'
    <2> SUFFICES ASSUME NEW g \in Hashes, g \notin Doubtful' PROVE HashOK(g)'
      BY DEF HashesOK
    <2>1. g \notin Doubtful /\ HashOK(g)
      BY <1>9 DEF HashesOK, Expose
    <2>2. /\ originals'[g] = originals[g] /\ derived'[g] = derived[g]
          /\ g = h => ~Served(g)
      BY <1>9, <2>1 DEF Expose
    <2>3. Served(g)' <=> Served(g)
      BY <2>2 DEF Served
    <2>4. ASSUME NEW q \in Requests, Busy(requests'[q], g) PROVE ReqOK(requests'[q], g)
      <3>1. CASE q = r
        BY <1>2, <1>3, <2>2, <2>4, <3>1 DEF LockInv, TypeOK, Busy, ReqOK, UnderLock
      <3>2. CASE q # r
        BY <1>3, <2>1, <2>4, <3>2 DEF LockInv, TypeOK, HashOK
      <3> QED
        BY <3>1, <3>2
    <2>5. \A q \in Requests : Busy(requests[q], g)' => ReqOK(requests[q], g)'
      BY <2>2, <2>3, <2>4 DEF Busy, ReqOK
    <2> QED
      BY <2>1, <2>3, <2>5 DEF HashOK
  <1> QED
    BY <1>6, <1>7, <1>8, <1>9 DEF LockInv

\* A download that overtook an upload has overlapped with it; a derivative that
\* names the file of the upload is wronged.
LEMMA UploadInsertFailsInv ==
    ASSUME LockInv, NEW r \in Requests, UploadInsertFails(r)
    PROVE  LockInv' /\ (HashesOK => HashesOK')
  <1> DEFINE h == requests[r].hash
  <1>1. h \in Hashes /\ Busy(requests[r], h)
    BY DEF LockInv, Working, WorkOK, UploadInsertFails, Busy
  <1>2. UNCHANGED <<originals, derived>>
    BY DEF UploadInsertFails, tables
  <1>3. /\ originals' \in [Hashes -> Verdicts \union {"none"}]
        /\ derived' \in [Hashes -> SUBSET {"fresh", "expired"}]
    BY <1>2 DEF LockInv, TypeOK
  <1>4. wronged \subseteq wronged' /\ wronged' \subseteq Hashes
    BY <1>1 DEF UploadInsertFails, LockInv, TypeOK
  <1>5. HashesOK /\ h \notin Doubtful => originals[h] = "none"
    BY <1>1 DEF HashesOK, HashOK, ReqOK, UnderLock, UploadInsertFails
  <1>6. HashesOK => h \in exposed \union wronged' \/ ~Served(h)
    BY <1>4, <1>5 DEF UploadInsertFails
  <1>7. /\ requests[r].step \in {"published", "inserted"}
        /\ requests' = [requests EXCEPT ![r].step = "removing"]
        /\ Unlock(requests[r].hash, r) /\ Expose(requests', pruner)
        /\ UNCHANGED <<files, pruner, litter, restarts>>
    BY DEF UploadInsertFails
  <1> QED
    BY <1>2, <1>3, <1>4, <1>6, <1>7, FailInv

\* The row of a request is a row of its hash.
LEMMA StoredType ==
    ASSUME TypeOK, NEW r \in Requests, requests[r].hash \in Hashes,
           StoreRow(requests[r])
    PROVE  /\ originals' \in [Hashes -> Verdicts \union {"none"}]
           /\ derived' \in [Hashes -> SUBSET {"fresh", "expired"}]
           /\ \A g \in Hashes \ {requests[r].hash} :
                originals'[g] = originals[g] /\ derived'[g] = derived[g]
  BY DEF TypeOK, StoreRow, Verdicts

\* A failed request that created no file ends; no overlap is new.
LEMMA EndedExposes ==
    ASSUME LockInv, NEW r \in Requests, requests' = Ended(r), Expose(requests', pruner)
    PROVE  exposed' = exposed
  <1>1. \A g, q : q \in Requests => /\ Busy(requests'[q], g) => Busy(requests[q], g)
                                    /\ Unlocked(requests'[q], g) => Unlocked(requests[q], g)
    BY DEF LockInv, TypeOK, Ended, IdleRequest, Busy, Unlocked
  <1>2. \A g \in Hashes : Overlap(g, requests', pruner) => g \in exposed
    <2> SUFFICES ASSUME NEW g \in Hashes, Overlap(g, requests', pruner) PROVE g \in exposed
      OBVIOUS
    <2>1. Overlap(g, requests, pruner)
      BY <1>1, OverlapMono
    <2> QED
      BY <2>1 DEF LockInv, OverlapsExposed
  <1> QED
    BY <1>2 DEF Expose

LEMMA SignedFailsInv ==
    ASSUME LockInv, NEW r \in Requests, SignedFails(r)
    PROVE  LockInv' /\ (HashesOK => HashesOK')
  <1> DEFINE h == requests[r].hash
  <1>1. h \in Hashes /\ Busy(requests[r], h)
    BY DEF LockInv, Working, WorkOK, SignedFails, Busy
  <1>2. /\ UNCHANGED <<files, originals, derived, pruner, litter, wronged, restarts>>
        /\ Unlock(h, r) /\ Expose(requests', pruner) /\ requests' = AfterFail(r)
        /\ requests[r].step \in {"published", "inserted"}
    BY DEF SignedFails, tables
  <1>3. /\ originals' \in [Hashes -> Verdicts \union {"none"}]
        /\ derived' \in [Hashes -> SUBSET {"fresh", "expired"}]
        /\ litter' \subseteq Hashes /\ wronged' \subseteq Hashes
    BY <1>2 DEF LockInv, TypeOK
  <1>4. CASE requests[r].created
    <2>1. HashesOK /\ h \notin Doubtful => ~Served(h)
      BY <1>1, <1>2, <1>4 DEF HashesOK, HashOK, ReqOK
    <2> QED
      BY <1>2, <1>3, <1>4, <2>1, FailInv DEF AfterFail
  <1>5. CASE ~requests[r].created
    <2>1. requests' = Ended(r)
      BY <1>2, <1>5 DEF AfterFail
    <2>2. exposed' = exposed
      BY <1>2, <2>1, EndedExposes
    <2> QED
      BY <1>2, <1>3, <2>1, <2>2, EndInv
  <1> QED
    BY <1>4, <1>5

\* A derivative whose COMMIT took effect unseen keeps a file it only borrowed.
LEMMA SignedAnswerLostInv ==
    ASSUME LockInv, NEW r \in Requests, SignedAnswerLost(r)
    PROVE  LockInv' /\ (HashesOK => HashesOK')
  <1> DEFINE h == requests[r].hash
  <1>1. h \in Hashes /\ Busy(requests[r], h) /\ requests[r].step = "inserted"
    BY DEF LockInv, Working, WorkOK, SignedAnswerLost, Busy
  <1>2. /\ UNCHANGED <<files, pruner, litter, restarts>>
        /\ Unlock(h, r) /\ Expose(requests', pruner) /\ requests' = AfterFail(r)
        /\ wronged' = IF requests[r].created THEN wronged \union {h} ELSE wronged
        /\ StoreRow(requests[r])
    BY DEF SignedAnswerLost
  <1>3. /\ originals' \in [Hashes -> Verdicts \union {"none"}]
        /\ derived' \in [Hashes -> SUBSET {"fresh", "expired"}]
        /\ \A g \in Hashes \ {h} : originals'[g] = originals[g] /\ derived'[g] = derived[g]
    BY <1>1, <1>2, StoredType DEF LockInv
  <1>4. /\ wronged \subseteq wronged' /\ wronged' \subseteq Hashes /\ files' \subseteq Hashes
    BY <1>1, <1>2 DEF LockInv, TypeOK
  <1>5. CASE requests[r].created
    <2>1. h \in exposed \union wronged' /\ requests' = [requests EXCEPT ![r].step = "removing"]
      BY <1>2, <1>5 DEF AfterFail
    <2> QED
      BY <1>1, <1>2, <1>3, <1>4, <2>1, FailInv
  <1>6. CASE ~requests[r].created
    <2>1. requests' = Ended(r) /\ wronged' = wronged
      BY <1>2, <1>6 DEF AfterFail
    <2>2. exposed' = exposed
      BY <1>2, <2>1, EndedExposes
    <2>3. HashesOK /\ h \notin Doubtful => h \in files'
      BY <1>1, <1>2 DEF HashesOK, HashOK, ReqOK
    <2> QED
      BY <1>1, <1>2, <1>3, <1>4, <2>1, <2>2, <2>3, EndServing
  <1> QED
    BY <1>5, <1>6

\* A history of abandoned files names hashes.
LEMMA AbandonType ==
    ASSUME TypeOK, NEW h \in Hashes, Abandon(h)
    PROVE  litter' \subseteq Hashes
  BY DEF TypeOK, Abandon

LEMMA RequestsEndInv ==
    ASSUME LockInv, NEW r \in Requests,
           PublishFails(r) \/ UploadExisting(r) \/ UploadAborts(r) \/ ImportFails(r)
    PROVE  LockInv' /\ (HashesOK => HashesOK')
  <1>0. /\ UNCHANGED <<originals, derived>>
        /\ originals' \in [Hashes -> Verdicts \union {"none"}]
        /\ derived' \in [Hashes -> SUBSET {"fresh", "expired"}]
    BY DEF PublishFails, UploadExisting, UploadAborts, ImportFails, tables, LockInv, TypeOK
  <1>1. CASE UploadExisting(r)
    <2>1. litter' \subseteq Hashes
      BY <1>1 DEF UploadExisting, history, LockInv, TypeOK
    <2> QED
      BY <1>0, <1>1, <2>1, EndInv DEF UploadExisting, tables, history
  <1>2. CASE UploadAborts(r)
    <2>1. requests[r].hash \in Hashes
      BY <1>2 DEF UploadAborts, LockInv, Working, WorkOK
    <2>2. litter' \subseteq Hashes
      BY <1>2, <2>1, AbandonType DEF UploadAborts, LockInv
    <2> QED
      BY <1>0, <1>2, <2>2, EndInv DEF UploadAborts, tables
  <1>3. CASE ImportFails(r)
    <2>1. requests[r].hash \in Hashes
      BY <1>3 DEF ImportFails, LockInv, Working, WorkOK
    <2>2. litter' \subseteq Hashes
      BY <1>3, <2>1, AbandonType DEF ImportFails, LockInv
    <2> QED
      BY <1>0, <1>3, <2>2, EndInv DEF ImportFails, tables
  <1>4. CASE PublishFails(r)
    <2>1. litter' \subseteq Hashes
      BY <1>4 DEF PublishFails, history, LockInv, TypeOK
    <2> QED
      BY <1>0, <1>4, <2>1, EndInv DEF PublishFails, tables, history
  <1> QED
    BY <1>1, <1>2, <1>3, <1>4

-------------------------------------------------------------------------------
(***************************************************************************)
(* Verdicts, time and retention.                                           *)
(***************************************************************************)

\* Rows may go while the files stay; retention may let go of its hash.
LEMMA Shrink ==
    ASSUME LockInv, UNCHANGED <<files, requests, exposed, litter, wronged, restarts>>,
           originals' \in [Hashes -> Verdicts \union {"none"}],
           derived' \in [Hashes -> SUBSET {"fresh", "expired"}],
           \A h \in Hashes : /\ originals'[h] = "none" <=> originals[h] = "none"
                             /\ Served(h)' => Served(h),
           pruner' \in PrunerState, lock' \in [Hashes -> Requests \union {Free, Pruner}],
           \/ pruner' = pruner /\ lock' = lock
           \/ /\ pruner'.hash = NoHash
              /\ \A h \in Hashes : lock'[h] = lock[h] \/ lock[h] = Pruner
    PROVE  LockInv' /\ (HashesOK => HashesOK')
  <1> USE StoreAssumptions
  <1>1. TypeOK'
    BY DEF LockInv, TypeOK
  <1>2. Working'
    BY DEF LockInv, Working
  <1>3. LocksHeld'
    <2>1. ASSUME NEW q \in Requests, requests[q].kind \in LockedKinds,
                 requests[q].step \in UnderLock
          PROVE  lock'[requests[q].hash] = q
      <3>1. requests[q].hash \in Hashes /\ lock[requests[q].hash] = q
        BY <2>1 DEF LockInv, Working, WorkOK, LocksHeld, UnderLock
      <3> QED
        BY <3>1
    <2>2. pruner'.hash \in Hashes => lock'[pruner'.hash] = Pruner
      BY DEF LockInv, LocksHeld
    <2> QED
      BY <2>1, <2>2 DEF LocksHeld
  <1>4. \A h \in Hashes : pruner'.hash = h => pruner' = pruner
    OBVIOUS
  <1>5. OverlapsExposed'
    BY <1>4, ExposeNone
  <1>6. HashesOK => HashesOK'
    <2> SUFFICES ASSUME HashesOK PROVE HashesOK'
      OBVIOUS
    <2> SUFFICES ASSUME NEW h \in Hashes, h \notin Doubtful PROVE HashOK(h)'
      BY DEF HashesOK
    <2>1. HashOK(h)
      BY DEF HashesOK
    <2>2. ASSUME NEW q \in Requests, Busy(requests[q], h) PROVE ReqOK(requests[q], h)'
      <3>1. ReqOK(requests[q], h)
        BY <2>1, <2>2 DEF HashOK
      <3> QED
        BY <3>1 DEF ReqOK
    <2>3. \A q \in Requests : Busy(requests[q], h)' => ReqOK(requests[q], h)'
      BY <2>2 DEF Busy
    <2> QED
      BY <1>4, <2>1, <2>3 DEF HashOK
  <1> QED
    BY <1>1, <1>2, <1>3, <1>5, <1>6 DEF LockInv

LEMMA SetStateInv ==
    ASSUME LockInv, NEW h \in Hashes, NEW verdict \in Verdicts, SetArtifactState(h, verdict)
    PROVE  LockInv' /\ (HashesOK => HashesOK')
  <1>1. /\ UNCHANGED <<files, requests, exposed, litter, wronged, restarts, derived, pruner, lock>>
        /\ originals' = [originals EXCEPT ![h] = verdict] /\ originals[h] # "none"
    BY DEF SetArtifactState, history
  <1>2. verdict # "none"
    BY DEF Verdicts
  <1>3. /\ originals' \in [Hashes -> Verdicts \union {"none"}]
        /\ derived' \in [Hashes -> SUBSET {"fresh", "expired"}]
        /\ pruner' \in PrunerState /\ lock' \in [Hashes -> Requests \union {Free, Pruner}]
    BY <1>1 DEF LockInv, TypeOK
  <1>4. \A g \in Hashes : /\ originals'[g] = "none" <=> originals[g] = "none"
                          /\ Served(g)' => Served(g)
    BY <1>1, <1>2 DEF LockInv, TypeOK, Served
  <1> QED
    BY <1>1, <1>3, <1>4, Shrink

LEMMA ExpireInv ==
    ASSUME LockInv, NEW h \in Hashes, Expire(h)
    PROVE  LockInv' /\ (HashesOK => HashesOK')
  <1>1. /\ UNCHANGED <<files, requests, exposed, litter, wronged, restarts, originals, pruner, lock>>
        /\ derived' = [derived EXCEPT ![h] = {"expired"}]
    BY DEF Expire, history
  <1>2. /\ originals' \in [Hashes -> Verdicts \union {"none"}]
        /\ derived' \in [Hashes -> SUBSET {"fresh", "expired"}]
        /\ pruner' \in PrunerState /\ lock' \in [Hashes -> Requests \union {Free, Pruner}]
    BY <1>1 DEF LockInv, TypeOK
  <1>3. \A g \in Hashes : Served(g)' => Served(g)
    BY <1>1 DEF LockInv, TypeOK, Served
  <1> QED
    BY <1>1, <1>2, <1>3, Shrink

LEMMA PruneScanInv ==
    ASSUME LockInv, PruneScan
    PROVE  LockInv' /\ (HashesOK => HashesOK')
  <1>1. /\ UNCHANGED <<files, requests, exposed, litter, wronged, restarts, originals, derived, lock>>
        /\ pruner' = [IdlePruner EXCEPT !.step = "next",
                        !.todo = {h \in Hashes : "expired" \in derived[h]}]
    BY DEF PruneScan, history, tables
  <1>2. pruner' \in PrunerState /\ pruner'.hash = NoHash
    BY <1>1 DEF PrunerState, IdlePruner
  <1>3. /\ originals' \in [Hashes -> Verdicts \union {"none"}]
        /\ derived' \in [Hashes -> SUBSET {"fresh", "expired"}]
        /\ lock' \in [Hashes -> Requests \union {Free, Pruner}]
    BY <1>1 DEF LockInv, TypeOK
  <1>4. \A g \in Hashes : Served(g)' => Served(g)
    BY <1>1 DEF Served
  <1> QED
    BY <1>1, <1>2, <1>3, <1>4, Shrink

LEMMA PruneFailsInv ==
    ASSUME LockInv, PruneFails
    PROVE  LockInv' /\ (HashesOK => HashesOK')
  <1>1. /\ UNCHANGED <<files, requests, exposed, litter, wronged, restarts, originals, derived>>
        /\ pruner' = IdlePruner
        /\ lock' = [h \in Hashes |-> IF lock[h] = Pruner THEN Free ELSE lock[h]]
    BY DEF PruneFails, history, tables
  <1>2. pruner' \in PrunerState /\ pruner'.hash = NoHash
    BY <1>1 DEF PrunerState, IdlePruner
  <1>3. /\ originals' \in [Hashes -> Verdicts \union {"none"}]
        /\ derived' \in [Hashes -> SUBSET {"fresh", "expired"}]
        /\ lock' \in [Hashes -> Requests \union {Free, Pruner}]
        /\ \A h \in Hashes : lock'[h] = lock[h] \/ lock[h] = Pruner
    BY <1>1 DEF LockInv, TypeOK
  <1>4. \A g \in Hashes : Served(g)' => Served(g)
    BY <1>1 DEF Served
  <1> QED
    BY <1>1, <1>2, <1>3, <1>4, Shrink

\* The rows that survive the DELETE were there before it.
LEMMA PruneCommitInv ==
    ASSUME LockInv, PruneCommit
    PROVE  LockInv' /\ (HashesOK => HashesOK')
  <1> DEFINE h == pruner.hash
  <1>1. /\ UNCHANGED <<files, requests, exposed, litter, wronged, restarts, originals>>
        /\ derived' = [derived EXCEPT ![h] = Survivors(h)]
        /\ Unlock(h, Pruner)
        /\ \/ pruner' = IdlePruner
           \/ pruner' = [IdlePruner EXCEPT !.step = "next", !.todo = pruner.todo \ {h}]
    BY DEF PruneCommit, history
  <1>2. pruner' \in PrunerState /\ pruner'.hash = NoHash
    <2>1. pruner.todo \ {h} \in SUBSET Hashes
      BY DEF LockInv, TypeOK, PrunerState
    <2>2. CASE pruner' = IdlePruner
      BY <2>2 DEF PrunerState, IdlePruner
    <2>3. CASE pruner' = [IdlePruner EXCEPT !.step = "next", !.todo = pruner.todo \ {h}]
      <3> DEFINE rest == pruner.todo \ {h}
      <3>1. pruner' = [IdlePruner EXCEPT !.step = "next", !.todo = rest] /\ rest \in SUBSET Hashes
        BY <2>1, <2>3
      <3> HIDE DEF rest
      <3> QED
        BY <3>1 DEF PrunerState, IdlePruner
    <2> QED
      BY <1>1, <2>2, <2>3
  <1>3. /\ originals' \in [Hashes -> Verdicts \union {"none"}]
        /\ derived' \in [Hashes -> SUBSET {"fresh", "expired"}]
        /\ lock' \in [Hashes -> Requests \union {Free, Pruner}]
        /\ \A g \in Hashes : lock'[g] = lock[g] \/ lock[g] = Pruner
    BY <1>1 DEF LockInv, TypeOK, Survivors, Unlock
  <1>4. \A g \in Hashes : Served(g)' => Served(g)
    BY <1>1 DEF LockInv, TypeOK, Served, Survivors
  <1> QED
    BY <1>1, <1>2, <1>3, <1>4, Shrink

\* Retention works on a hash only under its lock, and drops only what is not
\* served.
LEMMA PruneCountInv ==
    ASSUME LockInv, NEW h \in Hashes, PruneCount(h)
    PROVE  LockInv' /\ (HashesOK => HashesOK')
  <1> USE StoreAssumptions
  <1>1. /\ UNCHANGED <<files, originals, derived, requests, litter, wronged, restarts>>
        /\ lock[h] = Free /\ lock' = [lock EXCEPT ![h] = Pruner]
        /\ pruner' = [pruner EXCEPT !.step = "counted", !.hash = h,
                        !.kept = "fresh" \in derived[h], !.drop = Unreferenced(h)]
        /\ Expose(requests', pruner')
    BY DEF PruneCount, tables
  <1>2. pruner' \in PrunerState /\ pruner'.hash = h /\ (pruner'.drop => ~Served(h))
    <2>1. Unreferenced(h) \in BOOLEAN /\ (Unreferenced(h) => ~Served(h))
      BY DEF Unreferenced, Served
    <2>2. pruner \in PrunerState
      BY DEF LockInv, TypeOK
    <2>3. ("fresh" \in derived[h]) \in BOOLEAN
      OBVIOUS
    <2> QED
      BY <1>1, <2>1, <2>2, <2>3 DEF PrunerState
  <1>3. TypeOK'
    BY <1>1, <1>2 DEF LockInv, TypeOK, Expose
  <1>4. Working'
    BY <1>1 DEF LockInv, Working
  <1>5. LocksHeld'
    <2>1. ASSUME NEW q \in Requests, requests[q].kind \in LockedKinds,
                 requests[q].step \in UnderLock
          PROVE  lock'[requests[q].hash] = q
      <3>1. requests[q].hash \in Hashes /\ lock[requests[q].hash] = q
        BY <2>1 DEF LockInv, Working, WorkOK, LocksHeld, UnderLock
      <3> QED
        BY <1>1, <3>1 DEF LockInv, TypeOK
    <2>2. lock'[pruner'.hash] = Pruner
      BY <1>1, <1>2 DEF LockInv, TypeOK
    <2> QED
      BY <1>1, <2>1, <2>2 DEF LocksHeld
  <1>6. OverlapsExposed'
    BY <1>1, ExposeAll
  <1>7. HashesOK => HashesOK'
    <2> SUFFICES ASSUME HashesOK PROVE HashesOK'
      OBVIOUS
    <2> SUFFICES ASSUME NEW g \in Hashes, g \notin Doubtful' PROVE HashOK(g)'
      BY DEF HashesOK
    <2>1. HashOK(g)
      BY <1>1 DEF HashesOK, Expose
    <2>2. Served(g)' <=> Served(g)
      BY <1>1 DEF Served
    <2>3. \A q \in Requests : Busy(requests[q], g)' => ReqOK(requests[q], g)'
      BY <1>1, <2>1, <2>2 DEF HashOK, Busy, ReqOK
    <2> QED
      BY <1>1, <1>2, <2>1, <2>2, <2>3 DEF HashOK
  <1> QED
    BY <1>3, <1>4, <1>5, <1>6, <1>7 DEF LockInv

LEMMA PruneRemoveInv ==
    ASSUME LockInv, PruneRemove
    PROVE  LockInv' /\ (HashesOK => HashesOK')
  <1> USE StoreAssumptions
  <1>1. /\ UNCHANGED <<originals, derived, lock, requests, exposed, litter, wronged, restarts>>
        /\ files' = IF pruner.drop THEN files \ {pruner.hash} ELSE files
        /\ pruner' = [pruner EXCEPT !.step = "removed"]
    BY DEF PruneRemove, tables, history
  <1>2. pruner' \in PrunerState /\ pruner'.hash = pruner.hash /\ pruner'.drop = pruner.drop
    BY <1>1 DEF LockInv, TypeOK, PrunerState
  <1>3. TypeOK' /\ Working' /\ LocksHeld'
    BY <1>1, <1>2 DEF LockInv, TypeOK, Working, LocksHeld
  <1>4. OverlapsExposed'
    BY <1>1, <1>2, ExposeNone
  <1>5. HashesOK => HashesOK'
    <2> SUFFICES ASSUME HashesOK PROVE HashesOK'
      OBVIOUS
    <2> SUFFICES ASSUME NEW g \in Hashes, g \notin Doubtful PROVE HashOK(g)'
      BY <1>1 DEF HashesOK
    <2>1. HashOK(g)
      BY DEF HashesOK
    <2>2. Served(g)' <=> Served(g)
      BY <1>1 DEF Served
    <2>3. CASE pruner.hash = g
      <3>1. \A q \in Requests : ~Busy(requests[q], g)'
        BY <1>1, <2>3, PrunerAlone DEF Busy
      <3> QED
        BY <1>1, <1>2, <2>1, <2>2, <2>3, <3>1 DEF HashOK
    <2>4. CASE pruner.hash # g
      <3>1. g \in files' <=> g \in files
        BY <1>1, <2>4
      <3>2. \A q \in Requests : Busy(requests[q], g)' => ReqOK(requests[q], g)'
        BY <1>1, <2>1, <2>2, <3>1 DEF HashOK, Busy, ReqOK
      <3> QED
        BY <1>2, <2>1, <2>2, <2>4, <3>1, <3>2 DEF HashOK
    <2> QED
      BY <2>3, <2>4
  <1> QED
    BY <1>3, <1>4, <1>5 DEF LockInv

LEMMA RestartInv ==
    ASSUME LockInv, Restart
    PROVE  LockInv' /\ (HashesOK => HashesOK')
  <1> USE StoreAssumptions
  <1>1. /\ UNCHANGED <<files, originals, derived, exposed, wronged>>
        /\ requests' = [r \in Requests |-> IdleRequest] /\ pruner' = IdlePruner
    BY DEF Restart, tables
  <1>2. IdleRequest \in Request /\ IdleRequest.step = "idle" /\ IdleRequest.kind = "none"
        /\ IdlePruner \in PrunerState /\ IdlePruner.hash = NoHash
    BY DEF IdleRequest, Request, IdlePruner, PrunerState
  <1>3. TypeOK'
    BY <1>1, <1>2 DEF LockInv, TypeOK, Restart
  <1>4. Working' /\ LocksHeld'
    BY <1>1, <1>2 DEF Working, WorkOK, LocksHeld, UnderLock
  <1>5. \A q \in Requests : \A h : ~Busy(requests'[q], h)
    BY <1>1, <1>2 DEF Busy
  <1>6. OverlapsExposed'
    BY <1>5 DEF OverlapsExposed, Overlap, Unlocked
  <1>7. HashesOK => HashesOK'
    <2> SUFFICES ASSUME HashesOK PROVE HashesOK'
      OBVIOUS
    <2> SUFFICES ASSUME NEW g \in Hashes, g \notin Doubtful PROVE HashOK(g)'
      BY <1>1 DEF HashesOK
    <2>1. \A q \in Requests : ~Busy(requests[q], g)'
      BY <1>5 DEF Busy
    <2>2. Served(g)' => g \in files'
      BY <1>1 DEF HashesOK, HashOK, Served
    <2> QED
      BY <1>1, <1>2, <2>1, <2>2 DEF HashOK
  <1> QED
    BY <1>3, <1>4, <1>6, <1>7 DEF LockInv

-------------------------------------------------------------------------------
LEMMA NextKeeps ==
    ASSUME LockInv, [Next]_vars
    PROVE  LockInv' /\ (HashesOK => HashesOK')
  <1> DEFINE Keeps == LockInv' /\ (HashesOK => HashesOK')
  <1>1. CASE UNCHANGED vars
    <2>1. UNCHANGED <<files, originals, derived, lock, requests, pruner, exposed, litter, wronged, restarts>>
      BY <1>1 DEF vars
    <2>2. TypeOK'
      BY <2>1 DEF LockInv, TypeOK
    <2>3. \A h \in Hashes : Served(h)' => Served(h)
      BY <2>1 DEF Served
    <2> QED
      BY <2>1, <2>2, <2>3, Shrink DEF TypeOK
  <1>2. ASSUME NEW r \in Requests, NEW kind \in Kinds, NEW h \in Hashes, SaveToTemp(r, kind, h)
        PROVE  Keeps
    BY <1>2, SaveInv
  <1>3. ASSUME NEW r \in Requests, RequestStep(r) PROVE Keeps
    BY <1>3, TakeLockInv, PublishStatInv, PublishRenameInv, InsertRowInv, CommitRowInv,
       ImportUpsertInv, RemoveInv, UploadInsertFailsInv, SignedFailsInv,
       SignedAnswerLostInv, RequestsEndInv
       DEF RequestStep
  <1>4. ASSUME NEW h \in Hashes, NEW verdict \in Verdicts, SetArtifactState(h, verdict)
        PROVE  Keeps
    BY <1>4, SetStateInv
  <1>5. ASSUME NEW h \in Hashes, Expire(h) \/ PruneCount(h) PROVE Keeps
    BY <1>5, ExpireInv, PruneCountInv
  <1>6. CASE PruneScan \/ PruneRemove \/ PruneCommit \/ PruneFails \/ Restart
    BY <1>6, PruneScanInv, PruneRemoveInv, PruneCommitInv, PruneFailsInv, RestartInv
  <1> QED
    BY <1>1, <1>2, <1>3, <1>4, <1>5, <1>6 DEF Next

\* Locks are held and overlaps recorded whatever fails.
LEMMA LockInvariant == Spec => []LockInv
  <1>1. Init => LockInv
    BY InitInv DEF IInv
  <1>2. LockInv /\ [Next]_vars => LockInv'
    BY NextKeeps
  <1> QED
    BY <1>1, <1>2, PTL DEF Spec

\* The full invariant.
LEMMA StoreInvariant == Spec => []IInv
  <1>1. Init => IInv
    BY InitInv
  <1>2. IInv /\ [Next]_vars => IInv'
    BY NextKeeps DEF IInv
  <1> QED
    BY <1>1, <1>2, PTL DEF Spec

\* The tables, the locks and the requests keep their types, whatever fails.
THEOREM StoreTypes == Spec => []TypeOK
  <1>1. LockInv => TypeOK
    BY DEF LockInv
  <1> QED
    BY <1>1, LockInvariant, PTL

\* Every row that may be asked for has its bytes on disk, for any number of
\* hashes, handlers and restarts, whatever fails, as long as nobody works on the
\* hash beside a step that does not hold its advisory lock, and no failed request
\* goes on to remove a file that a row names (artifacts.go:116-119, signing.go:423).
THEOREM LockProtectsRows == Spec => []LockedRowsNameFiles
  <1>1. IInv => LockedRowsNameFiles
    BY DEF IInv, HashesOK, HashOK, LockedRowsNameFiles
  <1> QED
    BY <1>1, StoreInvariant, PTL

-------------------------------------------------------------------------------
(***************************************************************************)
(* Files without a row.                                                    *)
(***************************************************************************)

\* Retention works on hashes that have rows; when it keeps a file it has seen a
\* row that stays, and when it has dropped one nobody brought it back.
PrunerKnows ==
    /\ \A h \in pruner.todo : derived[h] # {}
    /\ pruner.step \in {"counted", "removed"} => pruner.hash \in pruner.todo
    /\ pruner.step \in {"idle", "next"} => pruner.hash = NoHash
    /\ pruner.hash \in Hashes /\ ~pruner.drop => originals[pruner.hash] # "none" \/ pruner.kept
    /\ pruner.step = "removed" /\ pruner.drop /\ pruner.hash \notin exposed =>
         pruner.hash \notin files

\* An upload that found its artifact still finds it.
UploadKnows ==
    \A r \in Requests :
        /\ requests[r].step = "saved" => ~requests[r].existing
        /\ requests[r].existing /\ requests[r].step \in UnderLock =>
             originals[requests[r].hash] # "none"

\* A file without a row is one whose creator is still at work.
CreatorAtWork ==
    \A h \in files \ (exposed \union litter) :
        HasRow(h) \/ \E r \in Requests : Busy(requests[r], h) /\ requests[r].created

OrphanInv == PrunerKnows /\ UploadKnows /\ CreatorAtWork

\* No row goes.
RowsStay ==
    \A h \in Hashes : /\ originals[h] # "none" => originals'[h] # "none"
                      /\ derived[h] # {} => derived'[h] # {}

LEMMA SameRowsStay == UNCHANGED <<originals, derived>> => RowsStay
  BY DEF RowsStay

LEMMA PrunerKnowsFrame ==
    ASSUME LockInv, PrunerKnows, pruner' = pruner, RowsStay, exposed \subseteq exposed',
           \A h \in files' \ files : \E r \in Requests : Busy(requests[r], h)
    PROVE  PrunerKnows'
  <1>1. pruner \in PrunerState
    BY DEF LockInv, TypeOK
  <1>2. pruner.todo \subseteq Hashes /\ pruner.hash \in Hashes \union {NoHash}
    BY <1>1 DEF PrunerState
  <1>3. ASSUME pruner.step = "removed", pruner.drop, pruner.hash \notin exposed'
        PROVE  pruner.hash \notin files'
    <2>1. pruner.hash \in Hashes /\ pruner.hash \notin files
      BY <1>2, <1>3 DEF PrunerKnows
    <2> QED
      BY <1>3, <2>1, PrunerAlone
  <1> QED
    BY <1>2, <1>3 DEF PrunerKnows, RowsStay

\* A step of the request r, which lets go of a file it created only when the file
\* has a row, is removed or is counted as litter.
LEMMA OrphanFrame ==
    ASSUME LockInv, OrphanInv, NEW r \in Requests, NEW new \in Request,
           requests' = [requests EXCEPT ![r] = new],
           pruner' = pruner, RowsStay, exposed \subseteq exposed', litter \subseteq litter',
           files' \subseteq Hashes,
           \A h \in files' \ files : Busy(requests[r], h) /\ Busy(new, h) /\ new.created,
           \A h \in files' \ (exposed' \union litter') :
              Busy(requests[r], h) /\ requests[r].created =>
                HasRow(h)' \/ (Busy(new, h) /\ new.created),
           new.step = "saved" => ~new.existing,
           new.existing /\ new.step \in UnderLock => originals'[new.hash] # "none"
    PROVE  OrphanInv'
  <1>1. PrunerKnows'
    BY PrunerKnowsFrame DEF OrphanInv
  <1>2. requests'[r] = new /\ \A q \in Requests \ {r} : requests'[q] = requests[q]
    BY DEF LockInv, TypeOK
  <1>3. UploadKnows'
    <2>1. ASSUME NEW q \in Requests \ {r}, requests[q].existing,
                 requests[q].step \in UnderLock
          PROVE  originals'[requests[q].hash] # "none"
      <3>1. requests[q].hash \in Hashes /\ originals[requests[q].hash] # "none"
        BY <2>1 DEF LockInv, Working, WorkOK, UnderLock, OrphanInv, UploadKnows
      <3> QED
        BY <3>1 DEF RowsStay
    <2> QED
      BY <1>2, <2>1 DEF OrphanInv, UploadKnows
  <1>4. ASSUME NEW h \in files' \ (exposed' \union litter'), ~HasRow(h)'
        PROVE  \E q \in Requests : Busy(requests'[q], h) /\ requests'[q].created
    <2>1. CASE h \notin files
      BY <1>2, <1>4, <2>1
    <2>2. CASE h \in files
      <3>1. ~HasRow(h)
        BY <1>4 DEF HasRow, RowsStay
      <3>2. PICK q \in Requests : Busy(requests[q], h) /\ requests[q].created
        BY <1>4, <2>2, <3>1 DEF OrphanInv, CreatorAtWork
      <3> QED
        BY <1>2, <1>4, <3>2
    <2> QED
      BY <2>1, <2>2
  <1>5. CreatorAtWork'
    BY <1>4 DEF CreatorAtWork, Busy
  <1> QED
    BY <1>1, <1>3, <1>5 DEF OrphanInv

\* The steps that begin or go on with a request.
LEMMA OrphanGoOn ==
    ASSUME LockInv, OrphanInv, NEW r \in Requests,
           \/ \E kind \in Kinds, h \in Hashes : SaveToTemp(r, kind, h)
           \/ TakeLock(r) \/ PublishStat(r) \/ PublishRename(r) \/ InsertRow(r)
    PROVE  OrphanInv'
  <1> USE StoreAssumptions
  <1>1. requests \in [Requests -> Request] /\ requests[r] \in Request /\ WorkOK(requests[r])
        /\ files \subseteq Hashes
    BY DEF LockInv, TypeOK, Working
  <1>2. RowsStay
    BY SameRowsStay
       DEF SaveToTemp, TakeLock, PublishStat, PublishRename, InsertRow, tables
  <1>3. ASSUME NEW kind \in Kinds, NEW h \in Hashes, SaveToTemp(r, kind, h) PROVE OrphanInv'
    <2> DEFINE new == [IdleRequest EXCEPT !.kind = kind, !.step = "saved", !.hash = h]
    <2>1. new \in Request /\ new.step = "saved" /\ ~new.existing
      BY DEF Request, IdleRequest, LockedKinds, ImportKinds
    <2>2. /\ requests' = [requests EXCEPT ![r] = new] /\ requests[r].step = "idle"
          /\ UNCHANGED <<files, pruner, exposed, litter>>
      BY <1>3 DEF SaveToTemp, history
    <2> HIDE DEF new
    <2> QED
      BY <1>1, <1>2, <2>1, <2>2, OrphanFrame DEF Busy, UnderLock
  <1>4. CASE TakeLock(r)
    <2> DEFINE found == requests[r].kind = "upload" /\ originals[requests[r].hash] # "none"
               new == [requests[r] EXCEPT !.step = "locked", !.existing = found]
    <2>1. found \in BOOLEAN
      OBVIOUS
    <2>2. /\ requests' = [requests EXCEPT ![r] = new] /\ requests[r].step = "saved"
          /\ UNCHANGED <<files, originals, pruner, litter>> /\ exposed \subseteq exposed'
      BY <1>1, <1>4 DEF TakeLock, tables, Expose
    <2> HIDE DEF found
    <2>3. /\ new \in Request /\ new.hash = requests[r].hash /\ new.step = "locked"
          /\ new.existing => originals[requests[r].hash] # "none"
      BY <1>1, <2>1 DEF Request, found
    <2> HIDE DEF new
    <2> QED
      BY <1>1, <1>2, <2>2, <2>3, OrphanFrame DEF Busy
  <1>5. ASSUME NEW step \in {"published", "renaming", "inserted"},
               NEW created \in {requests[r].created, TRUE},
               requests' = [requests EXCEPT ![r] =
                              [requests[r] EXCEPT !.step = step, !.created = created]],
               requests[r].step \in UnderLock \union {"saved"},
               UNCHANGED <<originals, pruner, litter>>, exposed \subseteq exposed',
               \/ files' = files
               \/ /\ created /\ requests[r].step \in UnderLock
                  /\ files' = files \union {requests[r].hash}
        PROVE  OrphanInv'
    <2> DEFINE new == [requests[r] EXCEPT !.step = step, !.created = created]
    <2>1. /\ new \in Request /\ new.hash = requests[r].hash /\ new.step = step
          /\ new.created = created /\ new.existing = requests[r].existing
      BY <1>1 DEF Request
    <2>2. requests' = [requests EXCEPT ![r] = new]
      BY <1>5
    <2> HIDE DEF new
    <2>3. requests[r].hash \in Hashes
      BY <1>1, <1>5 DEF WorkOK, UnderLock
    <2>4. requests[r].existing => originals[requests[r].hash] # "none"
      BY <1>5 DEF OrphanInv, UploadKnows
    <2>5. /\ files' \subseteq Hashes
          /\ \A h \in files' \ files : Busy(requests[r], h) /\ Busy(new, h) /\ new.created
      BY <1>1, <1>5, <2>1, <2>3 DEF Busy, UnderLock
    <2>6. \A h : Busy(requests[r], h) /\ requests[r].created => Busy(new, h) /\ new.created
      BY <1>5, <2>1 DEF Busy
    <2> QED
      BY <1>2, <1>5, <2>1, <2>2, <2>4, <2>5, <2>6, OrphanFrame
  <1>6. ASSUME NEW step, requests' = [requests EXCEPT ![r].step = step]
        PROVE  requests' = [requests EXCEPT ![r] =
                              [requests[r] EXCEPT !.step = step, !.created = requests[r].created]]
    BY <1>1, <1>6 DEF Request
  <1>7. CASE PublishStat(r)
    <2>1. PICK step \in {"published", "renaming"} : requests' = [requests EXCEPT ![r].step = step]
      BY <1>7 DEF PublishStat
    <2>2. /\ requests[r].step \in UnderLock \union {"saved"}
          /\ UNCHANGED <<originals, pruner, litter, files>> /\ exposed \subseteq exposed'
      BY <1>7 DEF PublishStat, ReadyToPublish, tables, Expose, UnderLock
    <2>3. requests' = [requests EXCEPT ![r] =
                         [requests[r] EXCEPT !.step = step, !.created = requests[r].created]]
      BY <1>6, <2>1
    <2> QED
      BY <1>5, <2>2, <2>3
  <1>8. CASE PublishRename(r)
    <2>1. requests' = [requests EXCEPT ![r] =
                         [requests[r] EXCEPT !.step = "published", !.created = TRUE]]
      BY <1>1, <1>8 DEF PublishRename
    <2> QED
      BY <1>5, <1>8, <2>1 DEF PublishRename, tables, history, UnderLock
  <1>9. CASE InsertRow(r)
    <2>1. /\ requests[r].step \in UnderLock \union {"saved"}
          /\ UNCHANGED <<originals, pruner, litter, files, exposed>>
      BY <1>9 DEF InsertRow, tables, history, UnderLock
    <2>2. requests' = [requests EXCEPT ![r] =
                         [requests[r] EXCEPT !.step = "inserted", !.created = requests[r].created]]
      BY <1>6, <1>9 DEF InsertRow
    <2> QED
      BY <1>5, <2>1, <2>2
  <1> QED
    BY <1>3, <1>4, <1>7, <1>8, <1>9

\* A request that ends.
LEMMA OrphanEnds ==
    ASSUME LockInv, OrphanInv, NEW r \in Requests, requests' = Ended(r), pruner' = pruner,
           RowsStay, exposed \subseteq exposed', litter \subseteq litter', files' \subseteq files,
           \A h \in files' \ (exposed' \union litter') :
              Busy(requests[r], h) /\ requests[r].created => HasRow(h)'
    PROVE  OrphanInv'
  <1>1. IdleRequest \in Request /\ IdleRequest.step = "idle"
    BY DEF IdleRequest, Request
  <1>2. files \subseteq Hashes
    BY DEF LockInv, TypeOK
  <1> QED
    BY <1>1, <1>2, OrphanFrame DEF Ended, UnderLock

\* A committed row is a row.
LEMMA StoredRow ==
    ASSUME LockInv, NEW r \in Requests, NEW h \in Hashes, requests[r].hash = h,
           StoreRow(requests[r])
    PROVE  RowsStay /\ HasRow(h)'
  <1>1. /\ originals \in [Hashes -> Verdicts \union {"none"}]
        /\ derived \in [Hashes -> SUBSET {"fresh", "expired"}]
    BY DEF LockInv, TypeOK
  <1>2. CASE requests[r].kind = "upload"
    <2>1. originals' = [originals EXCEPT ![h] = "quarantined"] /\ derived' = derived
      BY <1>2 DEF StoreRow
    <2>2. originals'[h] = "quarantined"
          /\ \A g \in Hashes \ {h} : originals'[g] = originals[g]
      BY <1>1, <2>1
    <2> QED
      BY <2>1, <2>2 DEF RowsStay, HasRow
  <1>3. CASE requests[r].kind # "upload"
    <2>1. derived' = [derived EXCEPT ![h] = @ \union {"fresh"}] /\ originals' = originals
      BY <1>3 DEF StoreRow
    <2>2. "fresh" \in derived'[h] /\ \A g \in Hashes \ {h} : derived'[g] = derived[g]
      BY <1>1, <2>1
    <2>3. derived'[h] # {}
      BY <2>2
    <2> QED
      BY <2>1, <2>2, <2>3 DEF RowsStay, HasRow
  <1> QED
    BY <1>2, <1>3

LEMMA OrphanRequestEnds ==
    ASSUME LockInv, OrphanInv, NEW r \in Requests,
           \/ PublishFails(r) \/ UploadExisting(r) \/ CommitRow(r) \/ UploadAborts(r)
           \/ Remove(r) \/ ImportUpsert(r) \/ ImportFails(r)
    PROVE  OrphanInv'
  <1>1. /\ requests[r] \in Request /\ WorkOK(requests[r])
        /\ originals \in [Hashes -> Verdicts \union {"none"}]
    BY DEF LockInv, TypeOK, Working
  <1>2. \A h : Busy(requests[r], h) => h = requests[r].hash
    BY DEF Busy
  <1>3. CASE PublishFails(r)
    BY <1>1, <1>3, SameRowsStay, OrphanEnds DEF PublishFails, tables, history, WorkOK
  <1>4. CASE UploadExisting(r)
    <2>1. originals[requests[r].hash] # "none" /\ originals' = originals
      BY <1>4 DEF UploadExisting, tables, OrphanInv, UploadKnows, UnderLock
    <2>2. \A h : Busy(requests[r], h) => HasRow(h)'
      BY <1>2, <2>1 DEF HasRow
    <2> QED
      BY <1>4, <2>2, SameRowsStay, OrphanEnds DEF UploadExisting, tables, history
  <1>5. CASE CommitRow(r)
    <2>1. PICK h \in Hashes : requests[r].hash = h
      BY <1>1, <1>5 DEF CommitRow, WorkOK
    <2>2. RowsStay /\ HasRow(h)'
      BY <1>5, <2>1, StoredRow DEF CommitRow
    <2> QED
      BY <1>2, <1>5, <2>1, <2>2, OrphanEnds DEF CommitRow, history
  <1>6. CASE UploadAborts(r) \/ ImportFails(r)
    <2>1. Abandon(requests[r].hash) /\ UNCHANGED <<files, originals, derived, pruner, exposed>>
      BY <1>6 DEF UploadAborts, ImportFails, tables
    <2>2. ASSUME NEW h, h \notin litter', Busy(requests[r], h) PROVE HasRow(h)'
      BY <1>2, <2>1, <2>2 DEF Abandon, HasRow
    <2>3. litter \subseteq litter'
      BY <2>1 DEF Abandon
    <2> QED
      BY <1>6, <2>1, <2>2, <2>3, SameRowsStay, OrphanEnds DEF UploadAborts, ImportFails
  <1>7. CASE Remove(r)
    BY <1>2, <1>7, SameRowsStay, OrphanEnds DEF Remove, tables, history
  <1>8. CASE ImportUpsert(r)
    <2>1. PICK h \in Hashes : requests[r].hash = h
      BY <1>1, <1>8 DEF ImportUpsert, WorkOK
    <2>2. /\ originals'[h] # "none" /\ derived' = derived
          /\ \A g \in Hashes \ {h} : originals'[g] = originals[g]
      BY <1>1, <1>8, <2>1 DEF ImportUpsert
    <2>3. RowsStay /\ HasRow(h)'
      BY <2>2 DEF RowsStay, HasRow
    <2> QED
      BY <1>2, <1>8, <2>1, <2>3, OrphanEnds DEF ImportUpsert, history
  <1> QED
    BY <1>3, <1>4, <1>5, <1>6, <1>7, <1>8

\* A failed request keeps at the file it created until it is removed.
LEMMA OrphanFails ==
    ASSUME LockInv, OrphanInv, NEW r \in Requests,
           UploadInsertFails(r) \/ SignedFails(r) \/ SignedAnswerLost(r)
    PROVE  OrphanInv'
  <1>1. /\ requests[r] \in Request /\ WorkOK(requests[r]) /\ files \subseteq Hashes
        /\ requests \in [Requests -> Request]
    BY DEF LockInv, TypeOK, Working
  <1>2. RowsStay
    <2>1. CASE UNCHANGED <<originals, derived>>
      BY <2>1, SameRowsStay
    <2>2. CASE StoreRow(requests[r])
      <3>1. PICK h \in Hashes : requests[r].hash = h
        BY <1>1 DEF UploadInsertFails, SignedFails, SignedAnswerLost, WorkOK
      <3> QED
        BY <2>2, <3>1, StoredRow
    <2> QED
      BY <2>1, <2>2 DEF UploadInsertFails, SignedFails, SignedAnswerLost, tables
  <1>3. /\ UNCHANGED <<files, pruner, litter>> /\ exposed \subseteq exposed'
        /\ requests[r].step \in {"published", "inserted"}
    BY DEF UploadInsertFails, SignedFails, SignedAnswerLost, Expose
  <1>4. CASE requests' = [requests EXCEPT ![r].step = "removing"]
    <2> DEFINE new == [requests[r] EXCEPT !.step = "removing"]
    <2>1. /\ new \in Request /\ new.step = "removing" /\ new.hash = requests[r].hash
          /\ new.created = requests[r].created
      BY <1>1 DEF Request
    <2>2. requests' = [requests EXCEPT ![r] = new]
      BY <1>1, <1>4
    <2> HIDE DEF new
    <2> QED
      BY <1>1, <1>2, <1>3, <2>1, <2>2, OrphanFrame DEF Busy, UnderLock
  <1>5. CASE requests' = Ended(r) /\ ~requests[r].created
    BY <1>2, <1>3, <1>5, OrphanEnds
  <1> QED
    BY <1>4, <1>5 DEF UploadInsertFails, SignedFails, SignedAnswerLost, AfterFail

\* Verdicts and time leave rows where they are.
LEMMA OrphanRows ==
    ASSUME LockInv, OrphanInv, UNCHANGED <<files, requests, pruner, exposed, litter>>, RowsStay
    PROVE  OrphanInv'
  <1>1. PrunerKnows'
    BY PrunerKnowsFrame DEF OrphanInv
  <1>2. UploadKnows'
    BY DEF LockInv, Working, WorkOK, UnderLock, OrphanInv, UploadKnows, RowsStay
  <1>3. CreatorAtWork'
    <2>1. \A h \in Hashes : HasRow(h) => HasRow(h)'
      BY DEF RowsStay, HasRow
    <2>2. \A h, q : Busy(requests[q], h) <=> Busy(requests[q], h)'
      BY DEF Busy
    <2> QED
      BY <2>1, <2>2 DEF LockInv, TypeOK, OrphanInv, CreatorAtWork
  <1> QED
    BY <1>1, <1>2, <1>3 DEF OrphanInv

LEMMA OrphanVerdictOrTime ==
    ASSUME LockInv, OrphanInv, NEW h \in Hashes,
           Expire(h) \/ \E verdict \in Verdicts : SetArtifactState(h, verdict)
    PROVE  OrphanInv'
  <1>1. /\ originals \in [Hashes -> Verdicts \union {"none"}] /\ "none" \notin Verdicts
        /\ derived \in [Hashes -> SUBSET {"fresh", "expired"}]
    BY DEF LockInv, TypeOK, Verdicts
  <1>2. CASE Expire(h)
    <2>1. RowsStay
      BY <1>1, <1>2 DEF Expire, RowsStay
    <2> QED
      BY <1>2, <2>1, OrphanRows DEF Expire, history
  <1>3. CASE \E verdict \in Verdicts : SetArtifactState(h, verdict)
    <2>1. RowsStay
      BY <1>1, <1>3 DEF SetArtifactState, RowsStay
    <2> QED
      BY <1>3, <2>1, OrphanRows DEF SetArtifactState, history
  <1> QED
    BY <1>2, <1>3

\* Retention and restarts.
LEMMA OrphanPrune ==
    ASSUME LockInv, OrphanInv,
           \/ PruneScan \/ PruneRemove \/ PruneFails \/ \E h \in Hashes : PruneCount(h)
    PROVE  OrphanInv'
  <1>1. /\ UNCHANGED <<requests, originals, derived, litter>> /\ exposed \subseteq exposed'
        /\ files' \subseteq files
    BY DEF PruneScan, PruneRemove, PruneFails, PruneCount, tables, history, Expose
  <1>2. UploadKnows'
    BY <1>1 DEF OrphanInv, UploadKnows
  <1>3. CreatorAtWork'
    BY <1>1 DEF OrphanInv, CreatorAtWork, HasRow, Busy
  <1>4. pruner \in PrunerState /\ derived \in [Hashes -> SUBSET {"fresh", "expired"}]
    BY DEF LockInv, TypeOK
  <1>5. PrunerKnows'
    <2>1. CASE PruneScan
      <3> DEFINE found == {h \in Hashes : "expired" \in derived[h]}
      <3>1. pruner' = [IdlePruner EXCEPT !.step = "next", !.todo = found]
        BY <2>1 DEF PruneScan
      <3>2. \A h \in found : derived[h] # {}
        OBVIOUS
      <3> HIDE DEF found
      <3>3. /\ pruner'.step = "next" /\ pruner'.todo = found /\ pruner'.hash = NoHash
        BY <3>1 DEF IdlePruner
      <3> QED
        BY <1>1, <3>2, <3>3, StoreAssumptions DEF PrunerKnows
    <2>2. CASE PruneFails
      <3>1. pruner'.step = "idle" /\ pruner'.todo = {} /\ pruner'.hash = NoHash
        BY <2>2 DEF PruneFails, IdlePruner
      <3> QED
        BY <3>1, StoreAssumptions DEF PrunerKnows
    <2>3. CASE PruneRemove
      <3>1. /\ pruner'.step = "removed" /\ pruner.step = "counted"
            /\ pruner'.todo = pruner.todo /\ pruner'.hash = pruner.hash
            /\ pruner'.drop = pruner.drop /\ pruner'.kept = pruner.kept
            /\ files' = IF pruner.drop THEN files \ {pruner.hash} ELSE files
        BY <1>4, <2>3 DEF PruneRemove, PrunerState
      <3> QED
        BY <1>1, <3>1 DEF OrphanInv, PrunerKnows
    <2>4. ASSUME NEW h \in Hashes, PruneCount(h) PROVE PrunerKnows'
      <3> DEFINE kept == "fresh" \in derived[h]
                 drop == Unreferenced(h)
      <3>1. /\ pruner' = [pruner EXCEPT !.step = "counted", !.hash = h, !.kept = kept, !.drop = drop]
            /\ h \in pruner.todo
        BY <2>4 DEF PruneCount
      <3>2. ~drop => originals[h] # "none" \/ kept
        BY DEF Unreferenced
      <3> HIDE DEF kept, drop
      <3>3. /\ pruner'.step = "counted" /\ pruner'.todo = pruner.todo /\ pruner'.hash = h
            /\ pruner'.drop = drop /\ pruner'.kept = kept
        BY <1>4, <3>1 DEF PrunerState
      <3> QED
        BY <1>1, <3>1, <3>2, <3>3 DEF OrphanInv, PrunerKnows
    <2> QED
      BY <2>1, <2>2, <2>3, <2>4
  <1> QED
    BY <1>2, <1>3, <1>5 DEF OrphanInv

\* The DELETE takes the last row of a hash only together with its file.
LEMMA OrphanPruneCommit ==
    ASSUME LockInv, OrphanInv, PruneCommit
    PROVE  OrphanInv'
  <1>1. pruner \in PrunerState /\ derived \in [Hashes -> SUBSET {"fresh", "expired"}]
    BY DEF LockInv, TypeOK
  <1>2. PICK h \in Hashes : pruner.hash = h /\ h \in pruner.todo
    BY <1>1 DEF PruneCommit, OrphanInv, PrunerKnows, PrunerState
  <1>3. /\ UNCHANGED <<files, originals, requests, exposed, litter>>
        /\ derived' = [derived EXCEPT ![h] = Survivors(h)]
        /\ pruner.step = "removed"
    BY <1>2 DEF PruneCommit, history
  <1>4. pruner' = IdlePruner \/ pruner' = [IdlePruner EXCEPT !.step = "next", !.todo = pruner.todo \ {h}]
    BY <1>2 DEF PruneCommit
  <1>5. \A g \in Hashes \ {h} : derived'[g] = derived[g]
    BY <1>1, <1>3
  <1>6. pruner.kept => derived'[h] # {}
    <2>1. derived'[h] = Survivors(h)
      BY <1>1, <1>2, <1>3
    <2> QED
      BY <2>1 DEF Survivors
  <1>7. PrunerKnows'
    <2> DEFINE rest == pruner.todo \ {h}
    <2>1. \A g \in rest : derived'[g] # {}
      BY <1>1, <1>5 DEF OrphanInv, PrunerKnows, PrunerState
    <2>2. pruner' = IdlePruner \/ pruner' = [IdlePruner EXCEPT !.step = "next", !.todo = rest]
      BY <1>4
    <2> HIDE DEF rest
    <2>3. /\ pruner'.step \in {"idle", "next"} /\ pruner'.hash = NoHash
          /\ pruner'.todo = {} \/ pruner'.todo = rest
      <3>1. CASE pruner' = IdlePruner
        BY <3>1 DEF IdlePruner
      <3>2. CASE pruner' = [IdlePruner EXCEPT !.step = "next", !.todo = rest]
        BY <3>2 DEF IdlePruner
      <3> QED
        BY <2>2, <3>1, <3>2
    <2>4. \A g \in pruner'.todo : derived'[g] # {}
      BY <2>1, <2>3
    <2> QED
      BY <2>3, <2>4, StoreAssumptions DEF PrunerKnows
  <1>8. UploadKnows'
    BY <1>3 DEF OrphanInv, UploadKnows
  <1>9. ASSUME NEW g \in files \ (exposed \union litter)
        PROVE  HasRow(g)' \/ \E r \in Requests : Busy(requests'[r], g) /\ requests'[r].created
    <2>1. CASE g # h
      <3>1. HasRow(g) => HasRow(g)'
        BY <1>3, <1>5, <2>1 DEF HasRow, LockInv, TypeOK
      <3> QED
        BY <1>3, <1>9, <3>1 DEF OrphanInv, CreatorAtWork
    <2>2. CASE g = h
      <3>1. ~pruner.drop
        BY <1>2, <1>3, <1>9, <2>2 DEF OrphanInv, PrunerKnows
      <3>2. originals[h] # "none" \/ pruner.kept
        BY <1>2, <3>1 DEF OrphanInv, PrunerKnows
      <3> QED
        BY <1>3, <1>6, <2>2, <3>2 DEF HasRow
    <2> QED
      BY <2>1, <2>2
  <1>10. CreatorAtWork'
    BY <1>3, <1>9 DEF CreatorAtWork, Busy
  <1> QED
    BY <1>7, <1>8, <1>10 DEF OrphanInv

LEMMA OrphanRestart ==
    ASSUME LockInv, OrphanInv, Restart
    PROVE  OrphanInv'
  <1>1. /\ UNCHANGED <<files, originals, derived, exposed>> /\ pruner' = IdlePruner
        /\ requests' = [r \in Requests |-> IdleRequest]
        /\ litter' = litter \union {h \in files : ~HasRow(h)}
    BY DEF Restart, tables
  <1>2. PrunerKnows'
    BY <1>1, StoreAssumptions DEF PrunerKnows, IdlePruner
  <1>3. UploadKnows'
    BY <1>1 DEF UploadKnows, IdleRequest
  <1>4. CreatorAtWork'
    BY <1>1 DEF CreatorAtWork, HasRow
  <1> QED
    BY <1>2, <1>3, <1>4 DEF OrphanInv

\* Neither retention nor a failed derivative leaves a file behind that no row
\* names ("must not leave an unreferenced file behind", signing.go): a file without
\* a row, on a hash that only lock holders touched at a time, comes from an upload
\* or download that was given up or from a restart, or somebody still works on it.
\* This holds whatever INSERT fails and whatever COMMIT loses its answer.
THEOREM NoUnexplainedOrphans == Spec => []OrphansHaveCause
  <1>1. Init => OrphanInv
    BY StoreAssumptions
       DEF Init, OrphanInv, PrunerKnows, UploadKnows, CreatorAtWork, IdlePruner, IdleRequest
  <1>2. LockInv /\ OrphanInv /\ [Next]_vars => OrphanInv'
    <2> SUFFICES ASSUME LockInv, OrphanInv, [Next]_vars PROVE OrphanInv'
      OBVIOUS
    <2>1. CASE UNCHANGED vars
      <3>1. UNCHANGED <<files, originals, derived, requests, pruner, exposed, litter>>
        BY <2>1 DEF vars
      <3> QED
        BY <3>1, SameRowsStay, OrphanRows
    <2>2. CASE Next
      BY <2>2, OrphanGoOn, OrphanRequestEnds, OrphanFails, OrphanVerdictOrTime, OrphanPrune,
         OrphanPruneCommit, OrphanRestart
         DEF Next, RequestStep
    <2> QED
      BY <2>1, <2>2
  <1>3. OrphanInv => OrphansHaveCause
    BY DEF OrphanInv, CreatorAtWork, OrphansHaveCause
  <1> QED
    BY <1>1, <1>2, <1>3, LockInvariant, PTL DEF Spec
===============================================================================
