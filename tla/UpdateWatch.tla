----------------------------- MODULE UpdateWatch -----------------------------
(***************************************************************************)
(* Update detection (src/internal/api/store.go): feeds are reduced to one  *)
(* listing per source, listings are kept in app_source_listings, and       *)
(* handleListUpdates compares them with the deployed version and with the  *)
(* version a subscription has seen.                                        *)
(*                                                                         *)
(* Everything is about one bundle identifier.  Some other bundle is        *)
(* deployed: without any deployment handleListUpdates answers with no      *)
(* updates before it looks at a subscription.  A version is the sequence   *)
(* of segments that splitVersion makes of the string, a segment the        *)
(* sequence of the ranks of its characters: 0..9 for digits, larger ones   *)
(* for letters.  The empty version is the empty string of the columns.     *)
(***************************************************************************)
EXTENDS Naturals, Sequences, SequencesExt

CONSTANTS Sources,
          NoSource,
          Versions,   \* versions the feeds publish
          MaxDate     \* bound: versionDate, as a day

NoVersion == <<>>

isVersionDigits(s) == s # <<>> /\ \A i \in 1..Len(s) : s[i] <= 9

\* splitVersion yields no empty segment.
ASSUME WatchAssumptions ==
    /\ NoSource \notin Sources /\ IsFiniteSet(Sources)
    /\ MaxDate \in Nat
    /\ \A v \in Versions : /\ v \in Seq(Seq(Nat)) /\ v # NoVersion
                           /\ \A i \in 1..Len(v) : v[i] # <<>>

VARIABLES listings,   \* [Sources -> latest_version], NoVersion without a row
          lastSeen,   \* the source whose row has the newest seen_at
          watched,    \* is there a row in app_subscriptions?
          seen,       \* its seen_version
          deployed,   \* version of the deployment's source artifact
          imported    \* history: the last version imported and recorded as seen

watchVars == <<listings, lastSeen, watched, seen, deployed, imported>>

\* Listings and baselines are versions of the catalog.
WatchTypeOK ==
    /\ listings \in [Sources -> Versions \union {NoVersion}]
    /\ lastSeen \in Sources \union {NoSource}
    /\ watched \in BOOLEAN
    /\ seen \in Versions \union {NoVersion}
    /\ deployed \in Versions \union {NoVersion}
    /\ imported \in Versions \union {NoVersion}

WatchInit ==
    /\ listings = [s \in Sources |-> NoVersion]
    /\ lastSeen = NoSource
    /\ watched = FALSE /\ seen = NoVersion
    /\ deployed = NoVersion
    /\ imported = NoVersion

-------------------------------------------------------------------------------
(***************************************************************************)
(* compareVersions.  Comparisons answer 0, 1 or 2 for Go's 0, 1 and -1.    *)
(***************************************************************************)
Sign(a, b) == IF a = b THEN 0 ELSE IF a > b THEN 1 ELSE 2

\* strings.Compare
Lexical(a, b) ==
    LET differ == {i \in 1..Min({Len(a), Len(b)}) : a[i] # b[i]}
    IN IF differ = {} THEN Sign(Len(a), Len(b))
                      ELSE Sign(a[Min(differ)], b[Min(differ)])

TrimZeros(s) ==
    LET kept == {i \in 1..Len(s) : s[i] # 0}
    IN IF kept = {} THEN <<>> ELSE SubSeq(s, Min(kept), Len(s))

\* Mutant: digits are compared as text.
compareVersionSegment_Text(a, b) == Lexical(a, b)

compareVersionSegment(a, b) ==
    IF isVersionDigits(a) /\ isVersionDigits(b)
    THEN LET x == TrimZeros(a)
             y == TrimZeros(b)
         IN IF Len(x) # Len(y) THEN Sign(Len(x), Len(y)) ELSE Lexical(x, y)
    ELSE Lexical(a, b)

\* A version that has run out of segments goes on with "0".
Segment(v, i) == IF i <= Len(v) THEN v[i] ELSE <<0>>

compareVersions(a, b) ==
    LET differ == {i \in 1..Max({Len(a), Len(b)}) :
                     compareVersionSegment(Segment(a, i), Segment(b, i)) # 0}
    IN IF differ = {} THEN 0
       ELSE compareVersionSegment(Segment(a, Min(differ)), Segment(b, Min(differ)))

-------------------------------------------------------------------------------
(***************************************************************************)
(* Feeds and listings.                                                     *)
(***************************************************************************)

\* What a feed publishes of the bundle; detectChannel tells stable versions.
Published == [version: Versions, stable: BOOLEAN, date: 1..MaxDate]

\* Mutant: the date is listed instead of the version.
Primary_Date(feed) == {<<<<v.date>>>> : v \in feed}

\* The versions that sort.Slice may put first: stable ones before others, then
\* the newest date; ties are in any order.
Primary(feed) ==
    LET stable == {v \in feed : v.stable}
        first == IF stable = {} THEN feed ELSE stable
    IN {v.version : v \in {p \in first : \A q \in first : q.date <= p.date}}

\* fetchAltStoreApps and the upsert of snapshotListings.  A source that does not
\* answer keeps the row it has; no row is ever deleted.
Snapshot(s, feed) ==
    /\ \E v \in Primary(feed) : listings' = [listings EXCEPT ![s] = v]
    /\ lastSeen' = s
    /\ UNCHANGED <<watched, seen, deployed, imported>>

-------------------------------------------------------------------------------
(***************************************************************************)
(* handleListUpdates, which changes nothing: what it may answer.           *)
(***************************************************************************)
Keep(best, version) ==
    IF best = NoVersion \/ compareVersions(version, best) = 1 THEN version ELSE best

\* The scan of the rows in some order: the best version after so many of them.
Scan(order) ==
    LET best[i \in 0..Len(order)] ==
            IF i = 0 THEN NoVersion ELSE Keep(best[i - 1], listings[order[i]])
    IN best

\* The rows come in no particular order.
BestListings ==
    {Scan(order)[Len(order)] :
        order \in SetToSeqs({s \in Sources : listings[s] # NoVersion})}

DeploymentOffers ==
    {v \in BestListings \ {NoVersion} :
        deployed # NoVersion /\ compareVersions(v, deployed) = 1}

SubscriptionOffers ==
    {v \in BestListings \ {NoVersion} :
        watched /\ (seen = NoVersion \/ compareVersions(v, seen) = 1)}

-------------------------------------------------------------------------------
(***************************************************************************)
(* Subscriptions, imports and deployments.                                 *)
(***************************************************************************)

\* handleAddSubscription: the row with the newest seen_at is the baseline of a
\* new subscription; one that exists keeps its own.
Baseline == IF lastSeen = NoSource THEN NoVersion ELSE listings[lastSeen]

\* Mutant: subscribing again starts from the listing.
AddSubscription_Anew ==
    /\ watched' = TRUE
    /\ seen' = Baseline
    /\ UNCHANGED <<listings, lastSeen, deployed, imported>>

AddSubscription ==
    /\ watched' = TRUE
    /\ seen' = IF watched THEN seen ELSE Baseline
    /\ UNCHANGED <<listings, lastSeen, deployed, imported>>

DeleteSubscription ==
    /\ watched
    /\ watched' = FALSE
    /\ seen' = NoVersion /\ imported' = NoVersion
    /\ UNCHANGED <<listings, lastSeen, deployed>>

\* handleStoreInstall makes the version of the imported archive the baseline.  It
\* ignores the error of that UPDATE: such an import changes nothing here.
Import(v) ==
    /\ seen' = IF watched THEN v ELSE seen
    /\ imported' = IF watched THEN v ELSE imported
    /\ UNCHANGED <<listings, lastSeen, watched, deployed>>

\* A derivative of an imported archive reaches the device.
Deploy(v) ==
    /\ deployed' = v
    /\ UNCHANGED <<listings, lastSeen, watched, seen, imported>>

WatchNext ==
    \/ \E s \in Sources, p, q \in Published : Snapshot(s, {p, q})
    \/ AddSubscription \/ DeleteSubscription
    \/ \E v \in Versions : Import(v) \/ Deploy(v)

WatchSpec == WatchInit /\ [][WatchNext]_watchVars

-------------------------------------------------------------------------------
(***************************************************************************)
(* Properties.  The reference order is the one the comment of              *)
(* compareVersions gives: "Numeric segments compare numerically, others    *)
(* lexically", and a missing segment is zero.                              *)
(***************************************************************************)
\* The numbers that the beginnings of a sequence of digits stand for.
Value(s) ==
    LET value[i \in 0..Len(s)] == IF i = 0 THEN 0 ELSE 10 * value[i - 1] + s[i]
    IN value

Number(s) == Value(s)[Len(s)]

SegmentBefore(a, b) ==
    IF isVersionDigits(a) /\ isVersionDigits(b) THEN Number(a) < Number(b)
                                                ELSE Lexical(a, b) = 2

Before(a, b) ==
    \E i \in 1..Max({Len(a), Len(b)}) :
        /\ SegmentBefore(Segment(a, i), Segment(b, i))
        /\ \A j \in 1..(i - 1) : /\ ~SegmentBefore(Segment(a, j), Segment(b, j))
                                 /\ ~SegmentBefore(Segment(b, j), Segment(a, j))

\* Each segment is a number or begins with a letter.  Where a segment mixes the
\* two, as in 1.0b2, Before has cycles: 9 < 10 < 1a < 9.
Plain(v) == \A i \in 1..Len(v) : isVersionDigits(v[i]) \/ v[i][1] > 9

\* While every source lists a plain version of the bundle, no listing is newer
\* than the one the scan of handleListUpdates ends with, whatever the order of
\* the rows.  And an offer for a deployment is newer than what is deployed,
\* plain or not.
OffersAreNewest ==
    /\ (\A s \in Sources : Plain(listings[s])) =>
            \A v \in BestListings, s \in Sources : ~Before(v, listings[s])
    /\ \A v \in DeploymentOffers : Before(deployed, v)

\* The same without the condition: handleListUpdates takes "the best row"
\* (store.go:726).  It does not hold: with a version that mixes digits and
\* letters the order of the rows decides what is offered (mixed_versions.cfg).
TakesTheBestRow ==
    \A v \in BestListings, s \in Sources : ~Before(v, listings[s])

\* An imported version "stops surfacing as an update" (store.go): while a bundle
\* is watched only something newer than the last recorded import is offered,
\* whatever the sources list later and however often the operator subscribes again.
OnlyNewerSurfaces ==
    imported # NoVersion => \A v \in SubscriptionOffers : Before(imported, v)
===============================================================================
