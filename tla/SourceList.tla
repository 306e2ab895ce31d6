------------------------------ MODULE SourceList ------------------------------
(***************************************************************************)
(* The list of app sources (src/internal/api/store.go): the operator adds  *)
(* and deletes entries, a weekly goroutine mirrors a community list, and   *)
(* the catalog built from the sources is cached for ten minutes.           *)
(*                                                                         *)
(* The list is a file in two copies.  /var/lib/sidey is gone when the      *)
(* container is replaced, /run/sidey stays.  Nothing locks the files: an   *)
(* edit reads, changes and writes them in separate steps.                  *)
(*                                                                         *)
(* An entry is its URL and its id; the mirror gives all its entries the    *)
(* same mark, the operator's get fresh ids.  A file is written as a whole  *)
(* or, when the ignored error of the write says so, not at all; a read of  *)
(* both copies is one step.                                                *)
(***************************************************************************)
EXTENDS Naturals

CONSTANTS URLs,
          Defaults,     \* built-in sources, which no file holds
          Feeds,        \* https URLs, the only ones the mirror takes
          Ids,          \* ids of entries the operator adds
          Discovered,   \* discoveredManagedBy, the mark of a mirrored entry
          Operators,    \* requests of the operator that may run at the same time
          Mirror,       \* the goroutine of SyncDiscoveredSources
          Readers,      \* callers of getStoreApps
          MaxRestarts   \* bound: restarts of the process or the container

Editors == Operators \union {Mirror}

ASSUME SourceAssumptions ==
    /\ Defaults \subseteq URLs /\ Feeds \subseteq URLs
    /\ Discovered \notin Ids
    /\ Mirror \notin Operators
    /\ MaxRestarts \in Nat

Entry == [url: URLs, id: Ids \union {Discovered}]

Mirrored(x) == x.id = Discovered

VARIABLES varlib, run,    \* the two copies: [here, list]
          tombVar, tombRun, \* the two copies of the removed URLs
          edits,          \* [Editors -> edit]
          cache,          \* globalStoreCache: the sources its apps are from
          readers,        \* [Readers -> read]
          listed,         \* history: entries the operator has and wants
          banned,         \* history: mirrored entries the operator deleted
          excused,        \* history: entries added or deleted beside another edit
                          \* or with a failed write, or overlooked by an addition
          failed,         \* history: some write has failed
          restarts

disk == <<varlib, run, tombVar, tombRun>>
history == <<listed, banned, excused, failed>>
vars == <<disk, edits, cache, readers, history, restarts>>

File == [here: BOOLEAN, list: SUBSET Entry]
NoFile == [here |-> FALSE, list |-> {}]

\* custom, removed: what was read and is going to be written;  entry: what the
\* request adds, or the mirrored entry it deletes.
Edit == [step: {"idle", "listing", "remember", "tombVar", "tombRun", "saveVar", "saveRun"},
         custom: SUBSET Entry, removed: SUBSET URLs, entry: SUBSET Entry,
         deleting: BOOLEAN]

NoEdit == [step |-> "idle", custom |-> {}, removed |-> {}, entry |-> {},
           deleting |-> FALSE]

\* Cache and read name sources by URL.
Cache == [of: SUBSET URLs, fresh: BOOLEAN]
Empty == [of |-> {}, fresh |-> FALSE]
Read == [fetching: BOOLEAN, sources: SUBSET URLs]
NoRead == [fetching |-> FALSE, sources |-> {}]

\* Files, edits, cache and histories keep their types.
TypeOK ==
    /\ varlib \in File /\ run \in File
    /\ tombVar \subseteq URLs /\ tombRun \subseteq URLs
    /\ edits \in [Editors -> Edit]
    /\ cache \in Cache
    /\ readers \in [Readers -> Read]
    /\ listed \subseteq Entry /\ banned \subseteq Entry
    /\ excused \subseteq Entry /\ failed \in BOOLEAN
    /\ restarts \in Nat

Init ==
    /\ varlib = NoFile /\ run = NoFile
    /\ tombVar = {} /\ tombRun = {}
    /\ edits = [e \in Editors |-> NoEdit]
    /\ cache = Empty
    /\ readers = [r \in Readers |-> NoRead]
    /\ listed = {} /\ banned = {} /\ excused = {} /\ failed = FALSE
    /\ restarts = 0

-------------------------------------------------------------------------------
(***************************************************************************)
(* Reading.                                                                *)
(***************************************************************************)

UrlsOf(entries) == {x.url : x \in entries}

\* Mutant: the mirror does not consult the persistent copy.
loadCustomSourcesFile_VarOnly == varlib.list

\* What the mirror appends to.
loadCustomSourcesFile == IF varlib.here THEN varlib.list ELSE run.list

\* handleDeleteStoreSource goes on to the second copy when the first is empty.
CustomForDelete == IF varlib.list # {} THEN varlib.list ELSE run.list

loadDiscoveredRemoved == tombVar \union tombRun

\* What the listing of the sources and the catalog are made of: the defaults, and
\* the entries of the file that are not among them.
Shown == {x \in IF varlib.here THEN varlib.list ELSE run.list : x.url \notin Defaults}

loadStoreSources == Defaults \union UrlsOf(Shown)

-------------------------------------------------------------------------------
(***************************************************************************)
(* Editing.  Nothing keeps the handlers and the mirror from interleaving.  *)
(***************************************************************************)
Busy(e) == edits[e].step # "idle"

Begin(e, edit) == ~Busy(e) /\ edits' = [edits EXCEPT ![e] = edit]

\* The entries of edits that run beside each other once e begins with this entry.
Beside(e, entry) ==
    IF \E f \in Editors \ {e} : Busy(f)
    THEN entry \union UNION {edits[f].entry : f \in Editors} ELSE {}

\* A uuid has not been seen before.
Seen == varlib.list \union run.list \union listed
          \union UNION {edits[e].custom \union edits[e].entry : e \in Editors}

\* handleAddStoreSource reads the first copy only.
Add(e, x) ==
    /\ ~Mirrored(x) /\ \A y \in Seen : y.id # x.id
    /\ Begin(e, [NoEdit EXCEPT !.step = "saveVar",
                   !.custom = varlib.list \union {x}, !.entry = {x}])
    /\ excused' = (excused \ {x}) \union Beside(e, {x})
                    \union (IF varlib.here THEN {} ELSE listed \intersect run.list)
    /\ UNCHANGED <<disk, cache, readers, listed, banned, failed, restarts>>

\* handleDeleteStoreSource, also of an entry that is not there.
Delete(e, x) ==
    LET found == {y \in CustomForDelete : y = x /\ Mirrored(y)} IN
    /\ Begin(e, [NoEdit EXCEPT !.step = IF found # {} THEN "remember" ELSE "saveVar",
                   !.custom = CustomForDelete \ {x}, !.entry = found, !.deleting = TRUE])
    /\ listed' = listed \ {x} /\ banned' = banned \ found
    /\ excused' = (excused \ (found \union (listed \intersect {x}))) \union Beside(e, found)
    /\ UNCHANGED <<disk, cache, readers, failed, restarts>>

\* A mirrored entry is remembered as removed: the set is read ...
Remember(e) ==
    /\ edits[e].step = "remember"
    /\ edits' = [edits EXCEPT ![e].step = "tombVar",
                   ![e].removed = loadDiscoveredRemoved \union UrlsOf(edits[e].entry)]
    /\ UNCHANGED <<disk, cache, readers, history, restarts>>

\* ... and saveDiscoveredRemoved writes its two copies one after the other.
TombstoneVar(e) ==
    /\ edits[e].step = "tombVar"
    /\ tombVar' = edits[e].removed
    /\ edits' = [edits EXCEPT ![e].step = "tombRun"]
    /\ UNCHANGED <<varlib, run, tombRun, cache, readers, history, restarts>>

\* Mutant: the removed URLs are written to the first copy only.
TombstoneRun_Skipped(e) ==
    /\ edits[e].step = "tombRun"
    /\ edits' = [edits EXCEPT ![e].step = "saveVar", ![e].removed = {}]
    /\ UNCHANGED <<disk, cache, readers, history, restarts>>

TombstoneRun(e) ==
    /\ edits[e].step = "tombRun"
    /\ tombRun' = edits[e].removed
    /\ edits' = [edits EXCEPT ![e].step = "saveVar", ![e].removed = {}]
    /\ UNCHANGED <<varlib, run, tombVar, cache, readers, history, restarts>>

\* SyncDiscoveredSources, once it has the community list, reads what was removed ...
SyncDiscoveredSources ==
    /\ Begin(Mirror, [NoEdit EXCEPT !.step = "listing", !.removed = loadDiscoveredRemoved])
    /\ excused' = excused \union Beside(Mirror, {})
    /\ UNCHANGED <<disk, cache, readers, listed, banned, failed, restarts>>

\* ... then the list, and appends what is neither known nor removed.
AppendDiscovered(feeds) ==
    LET custom == loadCustomSourcesFile
        new == feeds \ (Defaults \union UrlsOf(custom) \union edits[Mirror].removed)
    IN
    /\ edits[Mirror].step = "listing"
    /\ edits' = [edits EXCEPT ![Mirror] =
                   IF new = {} THEN NoEdit
                   ELSE [@ EXCEPT !.step = "saveVar", !.removed = {},
                           !.custom = custom \union [url: new, id: {Discovered}]]]
    /\ UNCHANGED <<disk, cache, readers, history, restarts>>

\* saveCustomSources writes the two copies one after the other ...
SaveVar(e) ==
    /\ edits[e].step = "saveVar"
    /\ varlib' = [here |-> TRUE, list |-> edits[e].custom]
    /\ edits' = [edits EXCEPT ![e].step = "saveRun"]
    /\ UNCHANGED <<run, tombVar, tombRun, cache, readers, history, restarts>>

\* ... then the handler empties the cache and answers.
Answer(e) ==
    LET edit == edits[e] IN
    /\ cache' = Empty
    /\ edits' = [edits EXCEPT ![e] = NoEdit]
    /\ listed' = IF edit.deleting THEN listed ELSE listed \union edit.entry
    /\ banned' = IF edit.deleting THEN banned \union edit.entry ELSE banned

SaveRun(e) ==
    /\ edits[e].step = "saveRun"
    /\ run' = [here |-> TRUE, list |-> edits[e].custom]
    /\ Answer(e)
    /\ UNCHANGED <<varlib, tombVar, tombRun, readers, excused, failed, restarts>>

\* The error of a write is ignored: the request goes on and answers all the same.
SaveRunFails(e) ==
    /\ edits[e].step = "saveRun"
    /\ Answer(e)
    /\ excused' = excused \union edits[e].entry /\ failed' = TRUE
    /\ UNCHANGED <<disk, readers, restarts>>

WriteFails(e) ==
    /\ edits[e].step \in {"tombVar", "tombRun", "saveVar"}
    /\ edits' = [edits EXCEPT ![e].step = CASE @ = "tombVar" -> "tombRun"
                                            [] @ = "tombRun" -> "saveVar"
                                            [] @ = "saveVar" -> "saveRun"]
    /\ excused' = excused \union edits[e].entry /\ failed' = TRUE
    /\ UNCHANGED <<disk, cache, readers, listed, banned, restarts>>

-------------------------------------------------------------------------------
(***************************************************************************)
(* The catalog.                                                            *)
(***************************************************************************)

\* Mutant: a cache that has apps is used whatever its age.
Usable_Forever == cache.of # {}

\* getStoreApps answers from the cache.
Usable == cache.of # {} /\ cache.fresh

LoadSources(r) ==
    /\ ~readers[r].fetching /\ ~Usable
    /\ readers' = [readers EXCEPT ![r] = [fetching |-> TRUE, sources |-> loadStoreSources]]
    /\ UNCHANGED <<disk, edits, cache, history, restarts>>

\* The sources that answered are merged and stored, whatever happened since
\* they were read.
StoreCache(r, answered) ==
    /\ readers[r].fetching /\ answered \subseteq readers[r].sources
    /\ cache' = [of |-> answered, fresh |-> TRUE]
    /\ readers' = [readers EXCEPT ![r] = NoRead]
    /\ UNCHANGED <<disk, edits, history, restarts>>

\* Ten minutes pass.
CacheAges ==
    /\ cache.fresh
    /\ cache' = [cache EXCEPT !.fresh = FALSE]
    /\ UNCHANGED <<disk, edits, readers, history, restarts>>

\* The process restarts, in its container or in a new one.
Restart(replaced) ==
    /\ restarts < MaxRestarts
    /\ restarts' = restarts + 1
    /\ varlib' = IF replaced THEN NoFile ELSE varlib
    /\ tombVar' = IF replaced THEN {} ELSE tombVar
    /\ edits' = [e \in Editors |-> NoEdit]
    /\ cache' = Empty
    /\ readers' = [r \in Readers |-> NoRead]
    /\ excused' = excused \intersect (listed \union banned)
    /\ UNCHANGED <<run, tombRun, listed, banned, failed>>

-------------------------------------------------------------------------------
ReaderStep(r) == LoadSources(r) \/ \E answered \in SUBSET URLs : StoreCache(r, answered)

Next ==
    \/ \E e \in Operators :
         \/ \E x \in Entry : Add(e, x) \/ Delete(e, x)
         \/ Remember(e) \/ TombstoneVar(e) \/ TombstoneRun(e)
    \/ SyncDiscoveredSources
    \/ \E feeds \in SUBSET Feeds : AppendDiscovered(feeds)
    \/ \E e \in Editors : SaveVar(e) \/ SaveRun(e) \/ SaveRunFails(e) \/ WriteFails(e)
    \/ \E r \in Readers : ReaderStep(r)
    \/ CacheAges
    \/ \E replaced \in BOOLEAN : Restart(replaced)

Spec == Init /\ [][Next]_vars

\* Time passes, a fetch has a timeout, and the snapshot loop keeps asking for
\* the catalog.
FairSpec ==
    /\ Spec
    /\ WF_vars(CacheAges)
    /\ \A r \in Readers : WF_vars(ReaderStep(r))

-------------------------------------------------------------------------------
(***************************************************************************)
(* Properties.                                                             *)
(***************************************************************************)

\* A source the operator added is listed, by its entry or as a default, until the
\* operator deletes it.
Kept(x) == x \in Shown \/ x.url \in Defaults

\* An addition whose writes succeeded and beside which no other edit ran keeps its
\* source listed through later edits, which may overlap, fail to write or be cut
\* by a restart, and through container replacements, until an addition overlooks
\* the persistent copy because the container has just been replaced.
SeenSourcesAreKept == \A x \in listed \ excused : Kept(x)

\* store.go calls /run/sidey the persistent copy, and says of the mirror that
\* user-added entries are never modified.  An addition reads the ephemeral copy
\* only, and edits overwrite each other: TLC refutes this invariant, which excuses
\* failed writes only, under lost_sources.cfg.
SourcesAreKept == ~failed => \A x \in listed : Kept(x)

\* A mirrored feed whose deletion wrote its files and ran beside no other edit is
\* not mirrored again, whatever the community list says later, however later edits
\* overlap, fail or are cut by a restart, and however often the container is
\* replaced.
DeletedStaysDeleted == banned \intersect Shown \subseteq excused

\* "feeds the operator deleted stay deleted" (store.go:313-315).  A mirror run that
\* read the list before a deletion writes the feed back: TLC refutes this
\* invariant, which excuses failed writes only, under resurrected_feed.cfg.
DeletedFeedsAreGone == ~failed => banned \intersect Shown = {}

\* A source that is gone for good leaves the catalog the server answers with,
\* even when a fetch that began before its deletion stores its apps afterwards.
CatalogForgets ==
    \A u \in URLs : <>[](u \notin loadStoreSources) => <>[](~Usable \/ u \notin cache.of)
===============================================================================
