---------------------------- MODULE CatalogProofs -----------------------------
(***************************************************************************)
(* What edits keep of the source list, however they overlap and fail, for  *)
(* any set of URLs, operators and readers and any number of restarts; and  *)
(* what the scan of the listings finds, for any sources and versions.      *)
(***************************************************************************)
EXTENDS SourceList, UpdateWatch, FiniteSetTheorems, WellFoundedInduction, TLAPS

HasCustom(q) == q.step \in {"remember", "tombVar", "tombRun", "saveVar", "saveRun"}

HasRemoved(q) == q.step \in {"listing", "tombVar", "tombRun"}

\* What an edit under way is about.
Shape(q) ==
    /\ q.step \in {"idle", "listing"} => q.custom = {} /\ q.entry = {}
    /\ q.step \in {"remember", "tombVar", "tombRun"} => q.deleting
    /\ \A x \in q.entry : IF q.deleting THEN Mirrored(x) /\ x \notin q.custom
                                        ELSE ~Mirrored(x) /\ x \in q.custom

\* An edit whose entry is not excused runs alone, what it has written is there,
\* and what it deletes is remembered before the list is written.
Sound(e, q) ==
    \A x \in q.entry : x \notin excused =>
        /\ \A f \in Editors \ {e} : edits[f].step = "idle"
        /\ q.step = "saveRun" => varlib.here /\ varlib.list = q.custom
        /\ q.step \in {"tombVar", "tombRun"} => x.url \in q.removed
        /\ q.deleting /\ q.step \in {"saveVar", "saveRun"} => x.url \in tombRun

EditsOK == \A e \in Editors : Shape(edits[e]) /\ Sound(e, edits[e])

FilesOK ==
    /\ ~varlib.here => varlib.list = {}
    /\ \A x \in listed : ~Mirrored(x)
    /\ \A x \in banned : Mirrored(x)

\* The files and every edit that has read them hold what the operator wants ...
ListedOK ==
    \A x \in listed \ excused :
        /\ x \in run.list /\ (varlib.here => x \in varlib.list)
        /\ \A e \in Editors : HasCustom(edits[e]) => x \in edits[e].custom

\* ... and none of them a feed that was deleted.
BannedOK ==
    \A x \in banned \ excused :
        /\ x.url \in tombRun /\ x \notin run.list /\ x \notin varlib.list
        /\ \A e \in Editors : /\ x \notin edits[e].custom
                              /\ HasRemoved(edits[e]) => x.url \in edits[e].removed

IInv == TypeOK /\ FilesOK /\ EditsOK /\ ListedOK /\ BannedOK

-------------------------------------------------------------------------------
LEMMA NoEditType ==
    NoEdit \in Edit /\ NoEdit.step = "idle" /\ NoEdit.custom = {} /\ NoEdit.entry = {}
  BY DEF NoEdit, Edit

LEMMA InitInv == Init => IInv
  <1> SUFFICES ASSUME Init PROVE IInv
    OBVIOUS
  <1>1. TypeOK
    BY NoEditType, SourceAssumptions
       DEF Init, TypeOK, File, NoFile, Cache, Empty, Read, NoRead
  <1>2. EditsOK
    BY NoEditType DEF Init, EditsOK, Shape, Sound
  <1>3. FilesOK /\ ListedOK /\ BannedOK
    BY DEF Init, FilesOK, ListedOK, BannedOK, NoFile
  <1> QED
    BY <1>1, <1>2, <1>3 DEF IInv

\* A step that leaves lists, edits and histories alone.
LEMMA QuietStep ==
    ASSUME IInv,
           UNCHANGED <<varlib, run, tombVar, tombRun, edits, listed, banned, excused, failed>>,
           cache' \in Cache, readers' \in [Readers -> Read], restarts' \in Nat
    PROVE  IInv'
  <1>1. TypeOK'
    BY DEF IInv, TypeOK
  <1>2. FilesOK' /\ ListedOK' /\ BannedOK'
    BY DEF IInv, FilesOK, ListedOK, BannedOK
  <1>3. EditsOK'
    BY DEF IInv, EditsOK, Shape, Sound
  <1> QED
    BY <1>1, <1>2, <1>3 DEF IInv

\* A step of the edit e, while the entries of the others are excused.
LEMMA EditStep ==
    ASSUME IInv, NEW e \in Editors, NEW new \in Edit, edits' = [edits EXCEPT ![e] = new],
           \A f \in Editors \ {e} : edits[f].entry \subseteq excused',
           Shape(new), Sound(e, new)',
           varlib' \in File, run' \in File, tombVar' \subseteq URLs, tombRun' \subseteq URLs,
           cache' \in Cache, UNCHANGED <<readers, restarts>>,
           listed' \subseteq Entry, banned' \subseteq Entry, excused' \subseteq Entry,
           failed' \in BOOLEAN, FilesOK',
           \A x \in listed' \ excused' :
              /\ x \in run'.list /\ (varlib'.here => x \in varlib'.list)
              /\ HasCustom(new) => x \in new.custom
              /\ x \in listed \ excused \/ \A f \in Editors \ {e} : edits[f].step = "idle",
           \A x \in banned' \ excused' :
              /\ x.url \in tombRun' /\ x \notin run'.list /\ x \notin varlib'.list
              /\ x \notin new.custom
              /\ HasRemoved(new) => x.url \in new.removed
              /\ x \in banned \ excused \/ \A f \in Editors \ {e} : edits[f].step = "idle"
    PROVE  IInv'
  <1>1. /\ edits' \in [Editors -> Edit] /\ edits'[e] = new
        /\ \A f \in Editors \ {e} : edits'[f] = edits[f]
    BY DEF IInv, TypeOK
  <1>2. TypeOK'
    BY <1>1 DEF IInv, TypeOK
  <1>3. EditsOK'
    <2>1. ASSUME NEW f \in Editors \ {e} PROVE Shape(edits'[f]) /\ Sound(f, edits[f])'
      BY <1>1 DEF IInv, EditsOK, Sound
    <2>2. Shape(edits'[e]) /\ Sound(e, edits[e])'
      BY <1>1 DEF Sound
    <2> QED
      BY <2>1, <2>2 DEF EditsOK, Shape
  <1>4. ListedOK'
    <2> SUFFICES ASSUME NEW x \in listed' \ excused', NEW f \in Editors, HasCustom(edits'[f])
                 PROVE  x \in edits'[f].custom
      BY DEF ListedOK, HasCustom
    <2>1. CASE f = e
      BY <1>1, <2>1
    <2>2. CASE f # e
      BY <1>1, <2>2 DEF IInv, ListedOK, HasCustom
    <2> QED
      BY <2>1, <2>2
  <1>5. BannedOK'
    <2> SUFFICES ASSUME NEW x \in banned' \ excused', NEW f \in Editors
                 PROVE  /\ x \notin edits'[f].custom
                        /\ HasRemoved(edits'[f]) => x.url \in edits'[f].removed
      BY DEF BannedOK, HasRemoved
    <2>1. CASE f = e
      BY <1>1, <2>1
    <2>2. CASE f # e /\ x \in banned \ excused
      BY <1>1, <2>2 DEF IInv, BannedOK
    <2>3. CASE f # e /\ edits[f].step = "idle"
      BY <1>1, <2>3 DEF IInv, EditsOK, Shape, HasRemoved
    <2> QED
      BY <2>1, <2>2, <2>3
  <1> QED
    BY <1>2, <1>3, <1>4, <1>5 DEF IInv

\* What a beginning edit finds beside it is excused.
LEMMA BesideExcused ==
    ASSUME IInv, NEW e \in Editors, NEW entry, Beside(e, entry) \subseteq excused'
    PROVE  /\ \A f \in Editors \ {e} : edits[f].entry \subseteq excused'
           /\ entry \subseteq excused' \/ \A f \in Editors \ {e} : edits[f].step = "idle"
  <1>1. CASE \E f \in Editors \ {e} : Busy(f)
    BY <1>1 DEF Beside
  <1>2. CASE \A f \in Editors \ {e} : edits[f].step = "idle"
    BY <1>2 DEF IInv, EditsOK, Shape
  <1> QED
    BY <1>1, <1>2 DEF Busy

\* Entries beside a busy edit are excused already.
LEMMA OthersExcused ==
    ASSUME IInv, NEW e \in Editors, edits[e].step # "idle"
    PROVE  \A f \in Editors \ {e} : edits[f].entry \subseteq excused
  BY DEF IInv, EditsOK, Sound

\* An addition excuses what it overlooks.
LEMMA AddInv ==
    ASSUME IInv, NEW e \in Operators, NEW x \in Entry, Add(e, x)
    PROVE  IInv'
  <1> DEFINE custom == varlib.list \union {x}
             over == IF varlib.here THEN {} ELSE listed \intersect run.list
  <1>1. e \in Editors /\ custom \in SUBSET Entry /\ {x} \in SUBSET Entry
    BY DEF IInv, TypeOK, File, Editors
  <1>2. PICK new : new = [NoEdit EXCEPT !.step = "saveVar", !.custom = custom, !.entry = {x}]
    OBVIOUS
  <1>3. /\ edits' = [edits EXCEPT ![e] = new] /\ ~Mirrored(x)
        /\ excused' = (excused \ {x}) \union Beside(e, {x}) \union over
        /\ UNCHANGED <<varlib, run, tombVar, tombRun, cache, readers, listed, banned, failed,
                       restarts>>
    BY <1>2 DEF Add, Begin, disk
  <1>4. x \notin listed /\ x \notin banned
    BY <1>3 DEF Add, Seen, IInv, FilesOK
  <1>5. \A y \in listed \ excused' : y \in listed \ excused /\ y \in custom
    BY <1>3, <1>4 DEF IInv, ListedOK
  <1>6. \A y \in banned \ excused' : y \in banned \ excused /\ y \notin custom
    BY <1>3, <1>4 DEF IInv, BannedOK
  <1>7. Beside(e, {x}) \subseteq Entry /\ over \subseteq Entry
    BY <1>1 DEF Beside, IInv, TypeOK, Edit
  <1>8. /\ new \in Edit /\ new.step = "saveVar" /\ new.custom = custom /\ new.entry = {x}
        /\ ~new.deleting
    <2>1. {} \in SUBSET URLs
      OBVIOUS
    <2> HIDE DEF custom
    <2> QED
      BY <1>1, <1>2, <2>1 DEF NoEdit, Edit
  <1>9. x \in custom
    OBVIOUS
  <1>10. /\ \A f \in Editors \ {e} : edits[f].entry \subseteq excused'
         /\ x \in excused' \/ \A f \in Editors \ {e} : edits[f].step = "idle"
    BY <1>1, <1>3, BesideExcused
  <1> HIDE DEF custom, over
  <1>11. Shape(new)
    BY <1>3, <1>8, <1>9 DEF Shape
  <1>12. Sound(e, new)'
    <2>1. \A f \in Editors \ {e} : edits'[f] = edits[f]
      BY <1>3 DEF IInv, TypeOK
    <2> QED
      BY <1>8, <1>10, <2>1 DEF Sound
  <1>13. excused' \subseteq Entry
    BY <1>3, <1>7 DEF IInv, TypeOK
  <1>14. FilesOK'
    BY <1>3 DEF IInv, FilesOK
  <1>15. \A y \in listed' \ excused' :
            /\ y \in run'.list /\ (varlib'.here => y \in varlib'.list)
            /\ HasCustom(new) => y \in new.custom
            /\ y \in listed \ excused
    BY <1>3, <1>5, <1>8 DEF IInv, ListedOK
  <1>16. \A y \in banned' \ excused' :
            /\ y.url \in tombRun' /\ y \notin run'.list /\ y \notin varlib'.list
            /\ y \notin new.custom /\ ~HasRemoved(new) /\ y \in banned \ excused
    BY <1>3, <1>6, <1>8 DEF IInv, BannedOK, HasRemoved
  <1> QED
    BY <1>1, <1>3, <1>8, <1>10, <1>11, <1>12, <1>13, <1>14, <1>15, <1>16, EditStep
       DEF IInv, TypeOK

LEMMA DeleteInv ==
    ASSUME IInv, NEW e \in Operators, NEW x \in Entry, Delete(e, x)
    PROVE  IInv'
  <1> DEFINE found == {y \in CustomForDelete : y = x /\ Mirrored(y)}
             custom == CustomForDelete \ {x}
             step == IF found # {} THEN "remember" ELSE "saveVar"
  <1>1. /\ e \in Editors /\ custom \in SUBSET Entry /\ found \in SUBSET Entry
        /\ step \in {"remember", "saveVar"}
    BY DEF IInv, TypeOK, File, Editors, CustomForDelete
  <1>2. PICK new : new = [NoEdit EXCEPT !.step = step, !.custom = custom, !.entry = found,
                            !.deleting = TRUE]
    OBVIOUS
  <1>3. /\ edits' = [edits EXCEPT ![e] = new]
        /\ listed' = listed \ {x} /\ banned' = banned \ found
        /\ excused' = (excused \ (found \union (listed \intersect {x}))) \union Beside(e, found)
        /\ UNCHANGED <<varlib, run, tombVar, tombRun, cache, readers, failed, restarts>>
    BY <1>2 DEF Delete, Begin, disk
  <1>4. \A y \in found : Mirrored(y) /\ y \notin custom
    OBVIOUS
  <1>5. \A y \in listed' \ excused' : y \in listed \ excused /\ y \in custom
    <2>1. \A y \in listed' \ excused' : y \in listed \ excused /\ y # x
      BY <1>3, <1>4 DEF IInv, FilesOK
    <2> QED
      BY <2>1 DEF IInv, ListedOK, FilesOK, CustomForDelete
  <1>6. \A y \in banned' \ excused' : y \in banned \ excused /\ y \notin custom
    <2>1. \A y \in banned' \ excused' : y \in banned \ excused
      BY <1>3, <1>4 DEF IInv, FilesOK
    <2> QED
      BY <2>1 DEF IInv, BannedOK, CustomForDelete
  <1>7. Beside(e, found) \subseteq Entry
    BY <1>1 DEF Beside, IInv, TypeOK, Edit
  <1>8. step = "saveVar" => found = {}
    OBVIOUS
  <1> HIDE DEF custom, step, found
  <1>9. /\ new \in Edit /\ new.step = step /\ new.custom = custom /\ new.entry = found
        /\ new.deleting
    <2>1. {} \in SUBSET URLs
      OBVIOUS
    <2> QED
      BY <1>1, <1>2, <2>1 DEF NoEdit, Edit
  <1>10. /\ \A f \in Editors \ {e} : edits[f].entry \subseteq excused'
         /\ found \subseteq excused' \/ \A f \in Editors \ {e} : edits[f].step = "idle"
    BY <1>1, <1>3, BesideExcused
  <1>11. Shape(new)
    BY <1>1, <1>4, <1>9 DEF Shape
  <1>12. Sound(e, new)'
    <2>1. \A f \in Editors \ {e} : edits'[f] = edits[f]
      BY <1>3 DEF IInv, TypeOK
    <2> QED
      BY <1>1, <1>8, <1>9, <1>10, <2>1 DEF Sound
  <1>13. excused' \subseteq Entry /\ listed' \subseteq Entry /\ banned' \subseteq Entry
    BY <1>3, <1>7 DEF IInv, TypeOK
  <1>14. FilesOK'
    BY <1>3 DEF IInv, FilesOK
  <1>15. \A y \in listed' \ excused' :
            /\ y \in run'.list /\ (varlib'.here => y \in varlib'.list)
            /\ HasCustom(new) => y \in new.custom
            /\ y \in listed \ excused
    BY <1>3, <1>5, <1>9 DEF IInv, ListedOK
  <1>16. \A y \in banned' \ excused' :
            /\ y.url \in tombRun' /\ y \notin run'.list /\ y \notin varlib'.list
            /\ y \notin new.custom /\ ~HasRemoved(new) /\ y \in banned \ excused
    BY <1>1, <1>3, <1>6, <1>9 DEF IInv, BannedOK, HasRemoved
  <1> QED
    BY <1>1, <1>3, <1>9, <1>10, <1>11, <1>12, <1>13, <1>14, <1>15, <1>16, EditStep
       DEF IInv, TypeOK

LEMMA SyncInv ==
    ASSUME IInv, SyncDiscoveredSources
    PROVE  IInv'
  <1>1. Mirror \in Editors /\ loadDiscoveredRemoved \in SUBSET URLs
    BY DEF Editors, IInv, TypeOK, loadDiscoveredRemoved
  <1>2. PICK new : new = [NoEdit EXCEPT !.step = "listing", !.removed = loadDiscoveredRemoved]
    OBVIOUS
  <1>3. /\ edits' = [edits EXCEPT ![Mirror] = new]
        /\ excused' = excused \union Beside(Mirror, {})
        /\ UNCHANGED <<varlib, run, tombVar, tombRun, cache, readers, listed, banned, failed,
                       restarts>>
    BY <1>2 DEF SyncDiscoveredSources, Begin, disk
  <1>4. /\ new \in Edit /\ new.step = "listing" /\ new.custom = {} /\ new.entry = {}
        /\ new.removed = loadDiscoveredRemoved
    BY <1>1, <1>2 DEF NoEdit, Edit
  <1>5. \A f \in Editors \ {Mirror} : edits[f].entry \subseteq excused'
    BY <1>1, <1>3, BesideExcused
  <1>6. Shape(new) /\ Sound(Mirror, new)'
    BY <1>4 DEF Shape, Sound
  <1>7. excused' \subseteq Entry
    BY <1>3 DEF Beside, IInv, TypeOK, Edit
  <1>8. FilesOK'
    BY <1>3 DEF IInv, FilesOK
  <1>9. \A y \in listed' \ excused' :
            /\ y \in run'.list /\ (varlib'.here => y \in varlib'.list)
            /\ ~HasCustom(new) /\ y \in listed \ excused
    BY <1>3, <1>4 DEF IInv, ListedOK, HasCustom
  <1>10. \A y \in banned' \ excused' :
            /\ y.url \in tombRun' /\ y \notin run'.list /\ y \notin varlib'.list
            /\ y \notin new.custom /\ y.url \in new.removed /\ y \in banned \ excused
    BY <1>3, <1>4 DEF IInv, BannedOK, loadDiscoveredRemoved
  <1> QED
    BY <1>1, <1>3, <1>4, <1>5, <1>6, <1>7, <1>8, <1>9, <1>10, EditStep DEF IInv, TypeOK

-------------------------------------------------------------------------------
(***************************************************************************)
(* An edit goes on.                                                        *)
(***************************************************************************)

\* Only the mirror lists.
LEMMA GoOn ==
    ASSUME IInv, NEW e \in Editors, edits[e].step # "idle", NEW new \in Edit,
           edits' = [edits EXCEPT ![e] = new], excused' = excused,
           Shape(new), Sound(e, new)',
           varlib' \in File, run' \in File, tombVar' \subseteq URLs, tombRun' \subseteq URLs,
           UNCHANGED <<cache, readers, restarts, listed, banned, failed>>,
           ~varlib'.here => varlib'.list = {},
           \A x \in listed \ excused :
              /\ x \in run'.list /\ (varlib'.here => x \in varlib'.list)
              /\ HasCustom(new) => x \in new.custom,
           \A x \in banned \ excused :
              /\ x.url \in tombRun' /\ x \notin run'.list /\ x \notin varlib'.list
              /\ x \notin new.custom
              /\ HasRemoved(new) => x.url \in new.removed
    PROVE  IInv'
  <1>1. \A f \in Editors \ {e} : edits[f].entry \subseteq excused'
    BY OthersExcused
  <1>2. FilesOK'
    BY DEF IInv, FilesOK
  <1> QED
    BY <1>1, <1>2, EditStep DEF IInv, TypeOK

\* The others of an edit are the same afterwards.
LEMMA SameOthers ==
    ASSUME IInv, NEW e \in Editors, NEW new, edits' = [edits EXCEPT ![e] = new]
    PROVE  \A f \in Editors \ {e} : edits'[f] = edits[f]
  BY DEF IInv, TypeOK

LEMMA RememberInv ==
    ASSUME IInv, NEW e \in Editors, Remember(e)
    PROVE  IInv'
  <1>1. PICK q \in Edit : q = edits[e] /\ Shape(q) /\ Sound(e, q) /\ q.step = "remember"
    BY DEF IInv, TypeOK, EditsOK, Remember
  <1> DEFINE removed == loadDiscoveredRemoved \union UrlsOf(q.entry)
  <1>2. removed \in SUBSET URLs /\ \A x \in q.entry : x.url \in removed
    BY DEF IInv, TypeOK, loadDiscoveredRemoved, UrlsOf, Edit, Entry
  <1>3. PICK new : new = [q EXCEPT !.step = "tombVar", !.removed = removed]
    OBVIOUS
  <1>4. /\ edits' = [edits EXCEPT ![e] = new]
        /\ UNCHANGED <<varlib, run, tombVar, tombRun, cache, readers, listed, banned, excused,
                       failed, restarts>>
    BY <1>1, <1>3 DEF Remember, disk, history, IInv, TypeOK
  <1>5. \A x \in banned \ excused : x.url \in removed
    BY DEF IInv, BannedOK, loadDiscoveredRemoved
  <1> HIDE DEF removed
  <1>6. /\ new \in Edit /\ new.step = "tombVar" /\ new.custom = q.custom
        /\ new.entry = q.entry /\ new.deleting = q.deleting /\ new.removed = removed
    BY <1>1, <1>2, <1>3 DEF Edit
  <1>7. Shape(new)
    BY <1>1, <1>6 DEF Shape
  <1>8. Sound(e, new)'
    BY <1>1, <1>2, <1>4, <1>6, SameOthers DEF Sound
  <1>9. HasCustom(q) /\ q \in {edits[f] : f \in Editors}
    BY <1>1 DEF HasCustom
  <1> QED
    BY <1>1, <1>4, <1>5, <1>6, <1>7, <1>8, <1>9, GoOn
       DEF IInv, TypeOK, FilesOK, ListedOK, BannedOK

LEMMA TombstoneInv ==
    ASSUME IInv, NEW e \in Editors, TombstoneVar(e) \/ TombstoneRun(e)
    PROVE  IInv'
  <1>1. PICK q \in Edit : /\ q = edits[e] /\ Shape(q) /\ Sound(e, q)
                          /\ q.step \in {"tombVar", "tombRun"}
    BY DEF IInv, TypeOK, EditsOK, TombstoneVar, TombstoneRun
  <1>2. /\ HasCustom(q) /\ HasRemoved(q) /\ q.deleting /\ q.removed \subseteq URLs
        /\ q.removed \in SUBSET URLs
    BY <1>1 DEF HasCustom, HasRemoved, Shape, Edit
  <1>3. CASE TombstoneVar(e)
    <2>1. PICK new : new = [q EXCEPT !.step = "tombRun"]
      OBVIOUS
    <2>2. /\ edits' = [edits EXCEPT ![e] = new] /\ tombVar' = q.removed /\ q.step = "tombVar"
          /\ UNCHANGED <<varlib, run, tombRun, cache, readers, listed, banned, excused,
                         failed, restarts>>
      BY <1>1, <1>3, <2>1 DEF TombstoneVar, history, IInv, TypeOK
    <2>3. /\ new \in Edit /\ new.step = "tombRun" /\ new.custom = q.custom
          /\ new.entry = q.entry /\ new.deleting = q.deleting /\ new.removed = q.removed
      BY <1>1, <2>1 DEF Edit
    <2>4. Shape(new)
      BY <1>1, <1>2, <2>3 DEF Shape
    <2>5. Sound(e, new)'
      BY <1>1, <2>2, <2>3, SameOthers DEF Sound
    <2> QED
      BY <1>1, <1>2, <2>2, <2>3, <2>4, <2>5, GoOn
         DEF IInv, TypeOK, FilesOK, ListedOK, BannedOK
  <1>4. CASE TombstoneRun(e)
    <2>1. PICK new : new = [q EXCEPT !.step = "saveVar", !.removed = {}]
      OBVIOUS
    <2>2. /\ edits' = [edits EXCEPT ![e] = new] /\ tombRun' = q.removed /\ q.step = "tombRun"
          /\ UNCHANGED <<varlib, run, tombVar, cache, readers, listed, banned, excused,
                         failed, restarts>>
      BY <1>1, <1>4, <2>1 DEF TombstoneRun, history, IInv, TypeOK
    <2>3. /\ new \in Edit /\ new.step = "saveVar" /\ new.custom = q.custom
          /\ new.entry = q.entry /\ new.deleting = q.deleting
      <3>1. {} \in SUBSET URLs
        OBVIOUS
      <3> QED
        BY <1>1, <2>1, <3>1 DEF Edit
    <2>4. Shape(new)
      BY <1>1, <1>2, <2>3 DEF Shape
    <2>5. Sound(e, new)'
      BY <1>1, <2>2, <2>3, SameOthers DEF Sound
    <2>6. ~HasRemoved(new)
      BY <2>3 DEF HasRemoved
    <2> QED
      BY <1>1, <1>2, <2>2, <2>3, <2>4, <2>5, <2>6, GoOn
         DEF IInv, TypeOK, FilesOK, ListedOK, BannedOK
  <1> QED
    BY <1>3, <1>4

\* The mirror adds nothing the operator deleted.
LEMMA AppendInv ==
    ASSUME IInv, NEW feeds \in SUBSET Feeds, AppendDiscovered(feeds)
    PROVE  IInv'
  <1> USE SourceAssumptions
  <1>0. Mirror \in Editors
    BY DEF Editors
  <1>1. PICK q \in Edit : /\ q = edits[Mirror] /\ Shape(q) /\ q.step = "listing"
    BY <1>0 DEF IInv, TypeOK, EditsOK, AppendDiscovered
  <1> DEFINE fresh == feeds \ (Defaults \union UrlsOf(loadCustomSourcesFile) \union q.removed)
             entries == [url: fresh, id: {Discovered}]
             custom == loadCustomSourcesFile \union entries
  <1>2. fresh \subseteq URLs /\ \A u \in fresh : u \notin q.removed
    OBVIOUS
  <1>3. /\ edits' = [edits EXCEPT ![Mirror] =
                       IF fresh = {} THEN NoEdit
                       ELSE [q EXCEPT !.step = "saveVar", !.removed = {}, !.custom = custom]]
        /\ UNCHANGED <<varlib, run, tombVar, tombRun, cache, readers, listed, banned, excused,
                       failed, restarts>>
    BY <1>0, <1>1 DEF AppendDiscovered, disk, history, IInv, TypeOK
  <1> HIDE DEF fresh
  <1>4. entries \in SUBSET Entry /\ \A x \in entries : x.url \in fresh
    BY <1>2 DEF Entry
  <1> HIDE DEF entries
  <1>5. custom \in SUBSET Entry
    BY <1>4 DEF IInv, TypeOK, File, loadCustomSourcesFile
  <1>6. \A x \in listed \ excused : x \in custom
    BY DEF IInv, ListedOK, loadCustomSourcesFile
  <1>7. \A x \in banned \ excused : x \notin custom
    <2>1. \A x \in banned \ excused : x.url \in q.removed /\ x \notin loadCustomSourcesFile
      BY <1>0, <1>1 DEF IInv, BannedOK, HasRemoved, loadCustomSourcesFile
    <2> QED
      BY <1>2, <1>4, <2>1
  <1> HIDE DEF custom
  <1>8. CASE fresh = {}
    <2>1. edits' = [edits EXCEPT ![Mirror] = NoEdit]
      BY <1>3, <1>8
    <2>2. Shape(NoEdit) /\ Sound(Mirror, NoEdit)' /\ ~HasCustom(NoEdit) /\ ~HasRemoved(NoEdit)
      BY NoEditType DEF Shape, Sound, HasCustom, HasRemoved
    <2> QED
      BY <1>0, <1>1, <1>3, <2>1, <2>2, NoEditType, GoOn
         DEF IInv, TypeOK, FilesOK, ListedOK, BannedOK
  <1>9. CASE fresh # {}
    <2>1. PICK new : new = [q EXCEPT !.step = "saveVar", !.removed = {}, !.custom = custom]
      OBVIOUS
    <2>2. edits' = [edits EXCEPT ![Mirror] = new]
      BY <1>3, <1>9, <2>1
    <2>3. /\ new \in Edit /\ new.step = "saveVar" /\ new.custom = custom /\ new.entry = {}
      <3>1. {} \in SUBSET URLs
        OBVIOUS
      <3>2. q.entry = {}
        BY <1>1 DEF Shape
      <3> QED
        BY <1>1, <1>5, <2>1, <3>1, <3>2 DEF Edit
    <2>4. Shape(new) /\ Sound(Mirror, new)' /\ ~HasRemoved(new)
      BY <2>3 DEF Shape, Sound, HasRemoved
    <2> QED
      BY <1>0, <1>1, <1>3, <1>6, <1>7, <2>2, <2>3, <2>4, GoOn
         DEF IInv, TypeOK, FilesOK, ListedOK, BannedOK
  <1> QED
    BY <1>8, <1>9

LEMMA SaveVarInv ==
    ASSUME IInv, NEW e \in Editors, SaveVar(e)
    PROVE  IInv'
  <1>1. PICK q \in Edit : q = edits[e] /\ Shape(q) /\ Sound(e, q) /\ q.step = "saveVar"
    BY DEF IInv, TypeOK, EditsOK, SaveVar
  <1>2. PICK new : new = [q EXCEPT !.step = "saveRun"]
    OBVIOUS
  <1>3. /\ new \in Edit /\ new.step = "saveRun" /\ new.custom = q.custom
        /\ new.entry = q.entry /\ new.deleting = q.deleting
    BY <1>1, <1>2 DEF Edit
  <1>4. /\ edits' = [edits EXCEPT ![e] = new]
        /\ varlib' = [here |-> TRUE, list |-> q.custom]
        /\ UNCHANGED <<run, tombVar, tombRun, cache, readers, listed, banned, excused, failed,
                       restarts>>
    BY <1>1, <1>2 DEF SaveVar, history, IInv, TypeOK
  <1>5. varlib' \in File /\ varlib'.here /\ varlib'.list = q.custom
    BY <1>4 DEF Edit, File
  <1>6. Shape(new)
    BY <1>1, <1>3 DEF Shape
  <1>7. Sound(e, new)'
    BY <1>1, <1>3, <1>4, <1>5, SameOthers DEF Sound
  <1>8. HasCustom(q) /\ ~HasRemoved(new)
    BY <1>1, <1>3 DEF HasCustom, HasRemoved
  <1> QED
    BY <1>1, <1>3, <1>4, <1>5, <1>6, <1>7, <1>8, GoOn
       DEF IInv, TypeOK, FilesOK, ListedOK, BannedOK

\* A failed write excuses the entry.
LEMMA WriteFailsInv ==
    ASSUME IInv, NEW e \in Editors, WriteFails(e)
    PROVE  IInv'
  <1>1. PICK q \in Edit : /\ q = edits[e] /\ Shape(q) /\ Sound(e, q)
                          /\ q.step \in {"tombVar", "tombRun", "saveVar"}
    BY DEF IInv, TypeOK, EditsOK, WriteFails
  <1> DEFINE step == CASE q.step = "tombVar" -> "tombRun"
                       [] q.step = "tombRun" -> "saveVar"
                       [] q.step = "saveVar" -> "saveRun"
  <1>2. /\ step \in {"tombRun", "saveVar", "saveRun"}
        /\ step = "tombRun" => q.step = "tombVar"
    BY <1>1
  <1>3. PICK new : new = [q EXCEPT !.step = step]
    OBVIOUS
  <1>4. /\ edits' = [edits EXCEPT ![e] = new]
        /\ excused' = excused \union q.entry /\ failed' = TRUE
        /\ UNCHANGED <<varlib, run, tombVar, tombRun, cache, readers, listed, banned, restarts>>
    BY <1>1, <1>3 DEF WriteFails, disk, IInv, TypeOK
  <1> HIDE DEF step
  <1>5. /\ new \in Edit /\ new.step = step /\ new.custom = q.custom
        /\ new.entry = q.entry /\ new.deleting = q.deleting /\ new.removed = q.removed
    BY <1>1, <1>2, <1>3 DEF Edit
  <1>6. Shape(new) /\ Sound(e, new)'
    BY <1>1, <1>2, <1>4, <1>5 DEF Shape, Sound
  <1>7. \A f \in Editors \ {e} : edits[f].entry \subseteq excused'
    BY <1>1, <1>4, OthersExcused
  <1>8. FilesOK' /\ excused' \subseteq Entry
    BY <1>4 DEF IInv, FilesOK, TypeOK, Edit
  <1>9. HasCustom(q) /\ (HasRemoved(new) => HasRemoved(q))
    BY <1>1, <1>2, <1>5 DEF HasCustom, HasRemoved
  <1>10. \A y \in listed' \ excused' :
            /\ y \in run'.list /\ (varlib'.here => y \in varlib'.list)
            /\ y \in new.custom /\ y \in listed \ excused
    BY <1>1, <1>4, <1>5, <1>9 DEF IInv, ListedOK
  <1>11. \A y \in banned' \ excused' :
            /\ y.url \in tombRun' /\ y \notin run'.list /\ y \notin varlib'.list
            /\ y \notin new.custom /\ (HasRemoved(new) => y.url \in new.removed)
            /\ y \in banned \ excused
    BY <1>1, <1>4, <1>5, <1>9 DEF IInv, BannedOK
  <1> QED
    BY <1>4, <1>5, <1>6, <1>7, <1>8, <1>10, <1>11, EditStep DEF IInv, TypeOK

\* The edit is over: unless it is excused, what it promised is on disk in both
\* copies.
LEMMA AnswerInv ==
    ASSUME IInv, NEW e \in Editors, SaveRun(e) \/ SaveRunFails(e)
    PROVE  IInv'
  <1>1. PICK q \in Edit : q = edits[e] /\ Shape(q) /\ Sound(e, q) /\ q.step = "saveRun"
    BY DEF IInv, TypeOK, EditsOK, SaveRun, SaveRunFails
  <1>2. q.entry \subseteq Entry /\ q.custom \subseteq Entry /\ HasCustom(q)
    BY <1>1 DEF Edit, HasCustom
  <1>3. /\ edits' = [edits EXCEPT ![e] = NoEdit] /\ cache' = Empty
        /\ listed' = IF q.deleting THEN listed ELSE listed \union q.entry
        /\ banned' = IF q.deleting THEN banned \union q.entry ELSE banned
        /\ UNCHANGED <<varlib, tombVar, tombRun, readers, restarts>>
        /\ \/ run' = [here |-> TRUE, list |-> q.custom] /\ UNCHANGED <<excused, failed>>
           \/ run' = run /\ excused' = excused \union q.entry /\ failed' = TRUE
    BY <1>1 DEF SaveRun, SaveRunFails, Answer, disk
  <1>4. /\ run' \in File /\ excused' \subseteq Entry /\ failed' \in BOOLEAN
        /\ excused \subseteq excused'
        /\ \/ run'.list = q.custom
           \/ run' = run /\ q.entry \subseteq excused'
    <2>1. run \in File /\ excused \subseteq Entry /\ failed \in BOOLEAN
      BY DEF IInv, TypeOK
    <2>2. CASE run' = [here |-> TRUE, list |-> q.custom] /\ UNCHANGED <<excused, failed>>
      <3>1. run' \in File /\ run'.list = q.custom
        BY <1>2, <2>2 DEF File
      <3> QED
        BY <2>1, <2>2, <3>1
    <2>3. CASE run' = run /\ excused' = excused \union q.entry /\ failed' = TRUE
      BY <1>2, <2>1, <2>3
    <2> QED
      BY <1>3, <2>2, <2>3
  <1>5. listed' \subseteq Entry /\ banned' \subseteq Entry /\ cache' \in Cache
    BY <1>2, <1>3 DEF IInv, TypeOK, Cache, Empty
  <1>6. FilesOK'
    BY <1>1, <1>3 DEF IInv, FilesOK, Shape
  <1>7. \A f \in Editors \ {e} : edits[f].entry \subseteq excused'
    BY <1>1, <1>4, OthersExcused
  <1>8. /\ Shape(NoEdit) /\ Sound(e, NoEdit)' /\ ~HasCustom(NoEdit) /\ ~HasRemoved(NoEdit)
    BY NoEditType DEF Shape, Sound, HasCustom, HasRemoved
  <1>9. ASSUME NEW x \in listed' \ excused'
        PROVE  /\ x \in run'.list /\ (varlib'.here => x \in varlib'.list)
               /\ x \in listed \ excused \/ \A f \in Editors \ {e} : edits[f].step = "idle"
    <2>1. CASE x \in listed
      BY <1>1, <1>2, <1>3, <1>4, <1>9, <2>1 DEF IInv, ListedOK
    <2>2. CASE x \notin listed
      <3>1. x \in q.entry /\ x \notin excused /\ ~q.deleting
        BY <1>3, <1>4, <1>9, <2>2
      <3>2. x \in q.custom
        BY <1>1, <3>1 DEF Shape
      <3>3. /\ \A f \in Editors \ {e} : edits[f].step = "idle"
            /\ varlib.list = q.custom
        BY <1>1, <3>1 DEF Sound
      <3> QED
        BY <1>3, <1>4, <1>9, <3>1, <3>2, <3>3
    <2> QED
      BY <2>1, <2>2
  <1>10. ASSUME NEW x \in banned' \ excused'
         PROVE  /\ x.url \in tombRun' /\ x \notin run'.list /\ x \notin varlib'.list
                /\ x \in banned \ excused \/ \A f \in Editors \ {e} : edits[f].step = "idle"
    <2>1. CASE x \in banned
      BY <1>1, <1>2, <1>3, <1>4, <1>10, <2>1 DEF IInv, BannedOK
    <2>2. CASE x \notin banned
      <3>1. x \in q.entry /\ x \notin excused /\ q.deleting
        BY <1>3, <1>4, <1>10, <2>2
      <3>2. x \notin q.custom
        BY <1>1, <3>1 DEF Shape
      <3>3. /\ \A f \in Editors \ {e} : edits[f].step = "idle"
            /\ varlib.list = q.custom /\ x.url \in tombRun
        BY <1>1, <3>1 DEF Sound
      <3> QED
        BY <1>3, <1>4, <1>10, <3>1, <3>2, <3>3
    <2> QED
      BY <2>1, <2>2
  <1>11. varlib' \in File /\ tombVar' \subseteq URLs /\ tombRun' \subseteq URLs
    BY <1>3 DEF IInv, TypeOK
  <1> QED
    BY <1>3, <1>4, <1>5, <1>6, <1>7, <1>8, <1>9, <1>10, <1>11, NoEditType, EditStep

LEMMA RestartInv ==
    ASSUME IInv, NEW replaced \in BOOLEAN, Restart(replaced)
    PROVE  IInv'
  <1>1. /\ varlib' \in {varlib, NoFile} /\ tombVar' \in {tombVar, {}}
        /\ restarts' = restarts + 1 /\ cache' = Empty
        /\ edits' = [e \in Editors |-> NoEdit] /\ readers' = [r \in Readers |-> NoRead]
        /\ excused' = excused \intersect (listed \union banned)
        /\ UNCHANGED <<run, tombRun, listed, banned, failed>>
    BY DEF Restart
  <1>2. NoFile \in File /\ ~NoFile.here /\ NoFile.list = {} /\ Empty \in Cache /\ NoRead \in Read
    BY DEF NoFile, File, Empty, Cache, NoRead, Read
  <1>3. TypeOK'
    BY <1>1, <1>2, NoEditType DEF IInv, TypeOK
  <1>4. EditsOK'
    BY <1>1, NoEditType DEF EditsOK, Shape, Sound
  <1>5. FilesOK'
    BY <1>1, <1>2 DEF IInv, FilesOK
  <1>6. ListedOK'
    BY <1>1, <1>2, NoEditType DEF IInv, ListedOK, HasCustom
  <1>7. BannedOK'
    BY <1>1, <1>2, NoEditType DEF IInv, BannedOK, HasRemoved
  <1> QED
    BY <1>3, <1>4, <1>5, <1>6, <1>7 DEF IInv

LEMMA CatalogInv ==
    ASSUME IInv, NEW r \in Readers, ReaderStep(r)
    PROVE  IInv'
  <1>1. CASE LoadSources(r)
    <2>1. UNCHANGED <<varlib, run, tombVar, tombRun, edits, listed, banned, excused, failed,
                      cache, restarts>>
          /\ readers' = [readers EXCEPT ![r] = [fetching |-> TRUE, sources |-> loadStoreSources]]
      BY <1>1 DEF LoadSources, disk, history
    <2>2. loadStoreSources \subseteq URLs
      <3>1. Shown \subseteq Entry
        BY DEF IInv, TypeOK, File, Shown
      <3> QED
        BY <3>1, SourceAssumptions DEF loadStoreSources, UrlsOf, Entry
    <2>3. readers' \in [Readers -> Read]
      BY <2>1, <2>2 DEF IInv, TypeOK, Read
    <2> QED
      BY <2>1, <2>3, QuietStep DEF IInv, TypeOK
  <1>2. ASSUME NEW answered \in SUBSET URLs, StoreCache(r, answered) PROVE IInv'
    <2>1. UNCHANGED <<varlib, run, tombVar, tombRun, edits, listed, banned, excused, failed,
                      restarts>>
          /\ cache' = [of |-> answered, fresh |-> TRUE]
          /\ readers' = [readers EXCEPT ![r] = NoRead]
      BY <1>2 DEF StoreCache, disk, history
    <2>2. readers' \in [Readers -> Read] /\ cache' \in Cache
      BY <2>1 DEF IInv, TypeOK, Read, NoRead, Cache
    <2> QED
      BY <2>1, <2>2, QuietStep DEF IInv, TypeOK
  <1> QED
    BY <1>1, <1>2 DEF ReaderStep

LEMMA CacheAgesInv ==
    ASSUME IInv, CacheAges
    PROVE  IInv'
  <1>1. UNCHANGED <<varlib, run, tombVar, tombRun, edits, listed, banned, excused, failed,
                    readers, restarts>>
        /\ cache' = [cache EXCEPT !.fresh = FALSE]
    BY DEF CacheAges, disk, history
  <1>2. cache' \in Cache
    BY <1>1 DEF IInv, TypeOK, Cache
  <1> QED
    BY <1>1, <1>2, QuietStep DEF IInv, TypeOK

-------------------------------------------------------------------------------
LEMMA NextInv ==
    ASSUME IInv, [Next]_vars
    PROVE  IInv'
  <1>1. ASSUME NEW e \in Operators, NEW x \in Entry, Add(e, x) \/ Delete(e, x) PROVE IInv'
    BY <1>1, AddInv, DeleteInv
  <1>2. ASSUME NEW e \in Operators, Remember(e) \/ TombstoneVar(e) \/ TombstoneRun(e)
        PROVE  IInv'
    BY <1>2, RememberInv, TombstoneInv DEF Editors
  <1>3. CASE SyncDiscoveredSources
    BY <1>3, SyncInv
  <1>4. ASSUME NEW feeds \in SUBSET Feeds, AppendDiscovered(feeds) PROVE IInv'
    BY <1>4, AppendInv
  <1>5. ASSUME NEW e \in Editors,
               SaveVar(e) \/ SaveRun(e) \/ SaveRunFails(e) \/ WriteFails(e)
        PROVE  IInv'
    BY <1>5, SaveVarInv, AnswerInv, WriteFailsInv
  <1>6. ASSUME NEW r \in Readers, ReaderStep(r) PROVE IInv'
    BY <1>6, CatalogInv
  <1>7. ASSUME NEW replaced \in BOOLEAN, Restart(replaced) PROVE IInv'
    BY <1>7, RestartInv
  <1>8. CASE CacheAges
    BY <1>8, CacheAgesInv
  <1>9. CASE UNCHANGED vars
    BY <1>9, QuietStep DEF vars, disk, history, IInv, TypeOK
  <1> QED
    BY <1>1, <1>2, <1>3, <1>4, <1>5, <1>6, <1>7, <1>8, <1>9 DEF Next

LEMMA SourcesInvariant == Spec => []IInv
  <1>1. IInv /\ [Next]_vars => IInv'
    BY NextInv
  <1> QED
    BY <1>1, InitInv, PTL DEF Spec

\* Files, edits, cache and histories keep their types.
THEOREM SourceTypes == Spec => []TypeOK
  <1>1. IInv => TypeOK
    BY DEF IInv
  <1> QED
    BY <1>1, SourcesInvariant, PTL

\* A source whose addition ran beside no other edit and wrote both files stays
\* listed through later edits, overlapping or not, failed writes, half-finished
\* saves, restarts and container replacements, until it is deleted or an addition
\* overlooks the persistent copy (handleAddStoreSource).
THEOREM AddedSourcesStay == Spec => []SeenSourcesAreKept
  <1>1. IInv => SeenSourcesAreKept
    BY DEF IInv, ListedOK, SeenSourcesAreKept, Kept, Shown
  <1> QED
    BY <1>1, SourcesInvariant, PTL

\* A mirrored feed whose deletion ran beside no other edit and wrote its four files
\* never comes back, however later edits and mirror runs overlap and wherever a
\* restart cuts them (SyncDiscoveredSources, handleDeleteStoreSource).
THEOREM DeletedFeedsStayAway == Spec => []DeletedStaysDeleted
  <1>1. IInv => DeletedStaysDeleted
    BY DEF IInv, BannedOK, DeletedStaysDeleted, Shown
  <1> QED
    BY <1>1, SourcesInvariant, PTL

-------------------------------------------------------------------------------
(***************************************************************************)
(* Updates.  Induction over the naturals, stated for sets, and smallest    *)
(* elements, from the fact that < is well founded.                         *)
(***************************************************************************)
LEMMA SmallestElement ==
    ASSUME NEW T \in SUBSET Nat, T # {}
    PROVE  Min(T) \in T /\ \A y \in T : Min(T) <= y
  <1> DEFINE R == {p \in Nat \X Nat : p[1] < p[2]}
  <1>1. IsWellFoundedOn(R, Nat)
    BY NatLessThanWellFounded DEF OpToRel
  <1>2. \A x, y \in Nat : y < x => <<y, x>> \in R
    OBVIOUS
  <1> HIDE DEF R
  <1>3. PICK x \in T : \A y \in T : ~(<<y, x>> \in R)
    BY <1>1, WFMin
  <1>4. \A y \in T : ~(y < x)
    BY <1>2, <1>3, Zenon
  <1>5. \A y \in T : x <= y
    BY <1>4
  <1> QED
    BY <1>5 DEF Min

LEMMA SetInduction ==
    ASSUME NEW S, 0 \in S, \A n \in Nat : n \in S => n + 1 \in S
    PROVE  \A n \in Nat : n \in S
  <1> DEFINE T == Nat \ S
  <1> SUFFICES ASSUME T # {} PROVE FALSE
    OBVIOUS
  <1>1. Min(T) \in T /\ \A k \in T : Min(T) <= k
    BY SmallestElement
  <1>2. Min(T) - 1 \in Nat /\ Min(T) - 1 \notin T
    BY <1>1
  <1> QED
    BY <1>1, <1>2

LEMMA OfTwo ==
    ASSUME NEW a \in Nat, NEW b \in Nat
    PROVE  /\ Max({a, b}) = IF a >= b THEN a ELSE b
           /\ Min({a, b}) = IF a <= b THEN a ELSE b
  <1>1. Max({a, b}) = IF a >= b THEN a ELSE b
    BY DEF Max
  <1>2. Min({a, b}) = IF a <= b THEN a ELSE b
    BY DEF Min
  <1> QED
    BY <1>1, <1>2

-------------------------------------------------------------------------------
(***************************************************************************)
(* The number that digits stand for.                                       *)
(***************************************************************************)
LEMMA ValueExists ==
    ASSUME NEW s, NEW n \in Nat
    PROVE  \E f : f = [i \in 0 .. n |-> IF i = 0 THEN 0 ELSE 10 * f[i - 1] + s[i]]
  <1> DEFINE Is(f, k) == f = [i \in 0 .. k |-> IF i = 0 THEN 0 ELSE 10 * f[i - 1] + s[i]]
             S == {k \in Nat : \E f : Is(f, k)}
  <1>1. 0 \in S
    <2> DEFINE f == [i \in 0 .. 0 |-> 0]
    <2>1. Is(f, 0)
      OBVIOUS
    <2> QED
      BY <2>1
  <1>2. ASSUME NEW k \in Nat, k \in S PROVE k + 1 \in S
    <2>1. PICK f : Is(f, k)
      BY <1>2
    <2> DEFINE g == [i \in 0 .. k + 1 |-> IF i <= k THEN f[i] ELSE 10 * f[k] + s[k + 1]]
    <2>2. ASSUME NEW i \in 0 .. k + 1
          PROVE  g[i] = IF i = 0 THEN 0 ELSE 10 * g[i - 1] + s[i]
      <3>1. CASE i <= k
        BY <2>1, <3>1
      <3>2. CASE i = k + 1
        BY <3>2
      <3> QED
        BY <3>1, <3>2
    <2>3. Is(g, k + 1)
      BY <2>2
    <2> HIDE DEF Is, g
    <2> QED
      BY <2>3
  <1> HIDE DEF S
  <1>3. n \in S
    BY <1>1, <1>2, SetInduction
  <1> QED
    BY <1>3 DEF S

LEMMA ValueDef ==
    ASSUME NEW s \in Seq(Nat)
    PROVE  /\ Value(s)[0] = 0
           /\ \A i \in 1 .. Len(s) : Value(s)[i] = 10 * Value(s)[i - 1] + s[i]
           /\ \A i \in 0 .. Len(s) : Value(s)[i] \in Nat
  <1> DEFINE Is(f) == f = [i \in 0 .. Len(s) |-> IF i = 0 THEN 0 ELSE 10 * f[i - 1] + s[i]]
  <1>1. \E f : Is(f)
    BY ValueExists
  <1>2. Value(s) = CHOOSE f : Is(f)
    BY DEF Value
  <1> HIDE DEF Is
  <1>3. Is(Value(s))
    BY <1>1, <1>2, Zenon
  <1>4. /\ Value(s)[0] = 0
        /\ \A i \in 1 .. Len(s) : Value(s)[i] = 10 * Value(s)[i - 1] + s[i]
    BY <1>3 DEF Is
  <1> DEFINE S == {i \in Nat : i <= Len(s) => Value(s)[i] \in Nat}
  <1>5. 0 \in S
    BY <1>4
  <1>6. ASSUME NEW i \in Nat, i \in S PROVE i + 1 \in S
    <2> SUFFICES ASSUME i + 1 <= Len(s) PROVE Value(s)[i + 1] \in Nat
      OBVIOUS
    <2>1. i + 1 \in 1 .. Len(s) /\ s[i + 1] \in Nat /\ i + 1 - 1 = i
      OBVIOUS
    <2>2. Value(s)[i] \in Nat
      BY <1>6
    <2>3. Value(s)[i + 1] = 10 * Value(s)[i] + s[i + 1]
      BY <1>4, <2>1
    <2> QED
      BY <2>1, <2>2, <2>3
  <1>7. \A i \in Nat : i \in S
    <2> HIDE DEF S
    <2> QED
      BY <1>5, <1>6, SetInduction
  <1> QED
    BY <1>4, <1>7

Agree(a, p, b, q, n) == \A k \in 1 .. n : a[p + k] = b[q + k]

Zeros(a, z) == \A i \in 1 .. z : a[i] = 0

\* Two numbers that are equal so far stay equal while the digits agree, ...
LEMMA EqualGoesOn ==
    ASSUME NEW a \in Seq(Nat), NEW b \in Seq(Nat), NEW p \in Nat, NEW q \in Nat,
           Value(a)[p] = Value(b)[q], NEW n \in Nat, p + n <= Len(a), q + n <= Len(b),
           Agree(a, p, b, q, n)
    PROVE  Value(a)[p + n] = Value(b)[q + n]
  <1> DEFINE S == {k \in Nat : k <= n => Value(a)[p + k] = Value(b)[q + k]}
  <1>1. 0 \in S
    OBVIOUS
  <1>2. ASSUME NEW k \in Nat, k \in S PROVE k + 1 \in S
    <2> SUFFICES ASSUME k + 1 <= n PROVE Value(a)[p + (k + 1)] = Value(b)[q + (k + 1)]
      OBVIOUS
    <2>1. PICK i \in 1 .. Len(a) : i = p + (k + 1) /\ i - 1 = p + k
      OBVIOUS
    <2>2. PICK j \in 1 .. Len(b) : j = q + (k + 1) /\ j - 1 = q + k
      OBVIOUS
    <2>3. k + 1 \in 1 .. n /\ k <= n
      OBVIOUS
    <2>4. a[i] = b[j]
      BY <2>1, <2>2, <2>3 DEF Agree
    <2>5. Value(a)[i - 1] = Value(b)[j - 1]
      BY <1>2, <2>1, <2>2, <2>3
    <2>6. /\ Value(a)[i] = 10 * Value(a)[i - 1] + a[i]
          /\ Value(b)[j] = 10 * Value(b)[j - 1] + b[j]
      BY ValueDef
    <2>7. Value(a)[i] = Value(b)[j]
      BY <2>4, <2>5, <2>6
    <2> QED
      BY <2>1, <2>2, <2>7
  <1>3. n \in S
    <2> HIDE DEF S
    <2> QED
      BY <1>1, <1>2, SetInduction
  <1> QED
    BY <1>3

LEMMA Carry ==
    ASSUME NEW x \in Nat, NEW y \in Nat, NEW d \in Nat, NEW e \in Nat, x < y, d <= 9
    PROVE  10 * x + d < 10 * y + e
  OBVIOUS

\* ... and one that is smaller stays smaller, whatever digits follow.
LEMMA SmallerGoesOn ==
    ASSUME NEW a \in Seq(Nat), NEW b \in Seq(Nat), NEW p \in Nat, NEW q \in Nat,
           NEW n \in Nat, p + n <= Len(a), q + n <= Len(b),
           Value(a)[p] < Value(b)[q], \A i \in 1 .. Len(a) : a[i] <= 9
    PROVE  Value(a)[p + n] < Value(b)[q + n]
  <1> DEFINE S == {k \in Nat : k <= n => Value(a)[p + k] < Value(b)[q + k]}
  <1>1. 0 \in S
    OBVIOUS
  <1>2. ASSUME NEW k \in Nat, k \in S PROVE k + 1 \in S
    <2> SUFFICES ASSUME k + 1 <= n PROVE Value(a)[p + (k + 1)] < Value(b)[q + (k + 1)]
      OBVIOUS
    <2>1. PICK i \in 1 .. Len(a) : i = p + (k + 1) /\ i - 1 = p + k
      OBVIOUS
    <2>2. PICK j \in 1 .. Len(b) : j = q + (k + 1) /\ j - 1 = q + k
      OBVIOUS
    <2>3. a[i] \in Nat /\ a[i] <= 9 /\ b[j] \in Nat
      OBVIOUS
    <2>4. Value(a)[i - 1] < Value(b)[j - 1]
      BY <1>2, <2>1, <2>2
    <2>5. /\ Value(a)[i] = 10 * Value(a)[i - 1] + a[i]
          /\ Value(b)[j] = 10 * Value(b)[j - 1] + b[j]
      BY ValueDef
    <2>6. Value(a)[i - 1] \in Nat /\ Value(b)[j - 1] \in Nat
      <3>1. i - 1 \in 0 .. Len(a) /\ j - 1 \in 0 .. Len(b)
        OBVIOUS
      <3> QED
        BY <3>1, ValueDef
    <2>7. Value(a)[i] < Value(b)[j]
      BY <2>3, <2>4, <2>5, <2>6, Carry
    <2> QED
      BY <2>1, <2>2, <2>7
  <1>3. n \in S
    <2> HIDE DEF S
    <2> QED
      BY <1>1, <1>2, SetInduction
  <1> QED
    BY <1>3

\* Leading zeros do not count, ...
LEMMA ZerosAreNothing ==
    ASSUME NEW a \in Seq(Nat), NEW z \in 0 .. Len(a), Zeros(a, z)
    PROVE  Value(a)[z] = 0
  <1> DEFINE S == {k \in Nat : k <= z => Value(a)[k] = 0}
  <1>1. 0 \in S
    BY ValueDef
  <1>2. ASSUME NEW k \in Nat, k \in S PROVE k + 1 \in S
    <2> SUFFICES ASSUME k + 1 <= z PROVE Value(a)[k + 1] = 0
      OBVIOUS
    <2>1. k + 1 \in 1 .. Len(a) /\ k + 1 - 1 = k /\ a[k + 1] = 0 /\ Value(a)[k] = 0
      BY <1>2 DEF Zeros
    <2>2. Value(a)[k + 1] = 10 * Value(a)[k] + a[k + 1]
      BY <2>1, ValueDef
    <2> QED
      BY <2>1, <2>2
  <1>3. \A k \in Nat : k \in S
    <2> HIDE DEF S
    <2> QED
      BY <1>1, <1>2, SetInduction
  <1> QED
    BY <1>3

\* ... and a digit that is not zero does.
LEMMA DigitsCount ==
    ASSUME NEW a \in Seq(Nat), NEW p \in 1 .. Len(a), a[p] # 0, NEW n \in Nat, p + n <= Len(a)
    PROVE  Value(a)[p + n] > 0
  <1> DEFINE S == {k \in Nat : k <= n => Value(a)[p + k] > 0}
  <1>1. 0 \in S
    <2>1. Value(a)[p] = 10 * Value(a)[p - 1] + a[p] /\ Value(a)[p - 1] \in Nat
      BY ValueDef
    <2>2. a[p] \in Nat /\ p + 0 = p
      OBVIOUS
    <2> QED
      BY <2>1, <2>2
  <1>2. ASSUME NEW k \in Nat, k \in S PROVE k + 1 \in S
    <2> SUFFICES ASSUME k + 1 <= n PROVE Value(a)[p + (k + 1)] > 0
      OBVIOUS
    <2>1. /\ p + (k + 1) \in 1 .. Len(a) /\ p + (k + 1) - 1 = p + k /\ p + k \in 0 .. Len(a)
          /\ a[p + (k + 1)] \in Nat /\ Value(a)[p + k] > 0
      BY <1>2
    <2>2. Value(a)[p + (k + 1)] = 10 * Value(a)[p + k] + a[p + (k + 1)] /\ Value(a)[p + k] \in Nat
      BY <2>1, ValueDef
    <2> QED
      BY <2>1, <2>2
  <1>3. n \in S
    <2> HIDE DEF S
    <2> QED
      BY <1>1, <1>2, SetInduction
  <1> QED
    BY <1>3

-------------------------------------------------------------------------------
(***************************************************************************)
(* Comparison of segments.                                                 *)
(***************************************************************************)

\* a comes before b in the dictionary: they agree on n characters, then a ends
\* or has the smaller one.
LexAt(a, b, n) ==
    /\ n <= Len(a) /\ n < Len(b)
    /\ \A i \in 1 .. n : a[i] = b[i]
    /\ n < Len(a) => a[n + 1] < b[n + 1]

LexLess(a, b) == \E n \in Nat : LexAt(a, b, n)

LEMMA LexicalIs ==
    ASSUME NEW a \in Seq(Nat), NEW b \in Seq(Nat)
    PROVE  \/ Lexical(a, b) = 0 /\ a = b
           \/ Lexical(a, b) = 1 /\ LexLess(b, a)
           \/ Lexical(a, b) = 2 /\ LexLess(a, b)
  <1> DEFINE m == Min({Len(a), Len(b)})
             differ == {i \in 1 .. m : a[i] # b[i]}
  <1>1. m = IF Len(a) <= Len(b) THEN Len(a) ELSE Len(b)
    <2>1. Len(a) \in Nat /\ Len(b) \in Nat
      OBVIOUS
    <2> QED
      BY <2>1, OfTwo
  <1> HIDE DEF m
  <1>2. CASE differ = {}
    <2>1. Lexical(a, b) = Sign(Len(a), Len(b))
      BY <1>2 DEF Lexical, m
    <2>2. \A i \in 1 .. m : a[i] = b[i]
      BY <1>2
    <2>3. CASE Len(a) = Len(b)
      BY <1>1, <2>1, <2>2, <2>3 DEF Sign
    <2>4. CASE Len(a) > Len(b)
      BY <1>1, <2>1, <2>2, <2>4 DEF Sign, LexLess, LexAt
    <2>5. CASE Len(a) < Len(b)
      BY <1>1, <2>1, <2>2, <2>5 DEF Sign, LexLess, LexAt
    <2> QED
      BY <2>3, <2>4, <2>5
  <1>3. CASE differ # {}
    <2> DEFINE n == Min(differ)
    <2>1. Lexical(a, b) = Sign(a[n], b[n])
      BY <1>3 DEF Lexical, m
    <2>2. n \in differ /\ \A i \in differ : n <= i
      <3>1. differ \in SUBSET Nat
        BY <1>1
      <3> HIDE DEF differ
      <3> QED
        BY <1>3, <3>1, SmallestElement
    <2> HIDE DEF n
    <2>3. /\ n \in 1 .. m /\ a[n] # b[n] /\ a[n] \in Nat /\ b[n] \in Nat
          /\ \A i \in 1 .. n - 1 : a[i] = b[i]
          /\ n - 1 \in Nat /\ n - 1 < Len(a) /\ n - 1 < Len(b) /\ n - 1 + 1 = n
      BY <1>1, <2>2
    <2>4. CASE a[n] > b[n]
      <3>0. LexAt(b, a, n - 1)
        BY <2>3, <2>4 DEF LexAt
      <3>1. LexLess(b, a)
        BY <2>3, <3>0 DEF LexLess
      <3> QED
        BY <2>1, <2>3, <2>4, <3>1 DEF Sign
    <2>5. CASE a[n] < b[n]
      <3>0. LexAt(a, b, n - 1)
        BY <2>3, <2>5 DEF LexAt
      <3>1. LexLess(a, b)
        BY <2>3, <3>0 DEF LexLess
      <3> QED
        BY <2>1, <2>3, <2>5, <3>1 DEF Sign
    <2> QED
      BY <2>3, <2>4, <2>5
  <1> QED
    BY <1>2, <1>3

LEMMA LexLessOrder ==
    ASSUME NEW a \in Seq(Nat), NEW b \in Seq(Nat), NEW c \in Seq(Nat), LexLess(a, b)
    PROVE  /\ a # b /\ ~LexLess(b, a)
           /\ LexLess(b, c) => LexLess(a, c)
  <1>1. PICK n \in Nat : /\ n <= Len(a) /\ n < Len(b)
                         /\ \A i \in 1 .. n : a[i] = b[i]
                         /\ n < Len(a) => a[n + 1] < b[n + 1]
    BY DEF LexLess, LexAt
  <1>2. a # b
    BY <1>1
  <1>3. ~LexLess(b, a)
    <2> SUFFICES ASSUME NEW k \in Nat, k <= Len(b), k < Len(a),
                        \A i \in 1 .. k : b[i] = a[i], k < Len(b) => b[k + 1] < a[k + 1]
                 PROVE  FALSE
      BY DEF LexLess, LexAt
    <2>1. CASE k < n
      BY <1>1, <2>1
    <2>2. CASE k > n
      BY <1>1, <2>2
    <2>3. CASE k = n
      <3>1. a[n + 1] < b[n + 1] /\ b[n + 1] < a[n + 1]
        BY <1>1, <2>3
      <3> QED
        BY <1>1, <2>3, <3>1
    <2> QED
      BY <2>1, <2>2, <2>3
  <1>4. ASSUME LexLess(b, c) PROVE LexLess(a, c)
    <2>1. PICK k \in Nat : /\ k <= Len(b) /\ k < Len(c)
                           /\ \A i \in 1 .. k : b[i] = c[i]
                           /\ k < Len(b) => b[k + 1] < c[k + 1]
      BY <1>4 DEF LexLess, LexAt
    <2>2. CASE k < n
      <3>1. /\ \A i \in 1 .. k : a[i] = c[i]
            /\ a[k + 1] = b[k + 1] /\ b[k + 1] < c[k + 1]
        BY <1>1, <2>1, <2>2
      <3> QED
        <4>1. LexAt(a, c, k)
          BY <1>1, <2>1, <2>2, <3>1 DEF LexAt
        <4> QED
          BY <4>1 DEF LexLess
    <2>3. CASE k >= n
      <3>1. \A i \in 1 .. n : a[i] = c[i]
        BY <1>1, <2>1, <2>3
      <3>2. n < Len(a) => a[n + 1] < c[n + 1]
        <4> SUFFICES ASSUME n < Len(a) PROVE a[n + 1] < c[n + 1]
          OBVIOUS
        <4>1. a[n + 1] \in Nat /\ b[n + 1] \in Nat /\ c[n + 1] \in Nat /\ a[n + 1] < b[n + 1]
          <5>1. n + 1 \in 1 .. Len(a) /\ n + 1 \in 1 .. Len(b) /\ n + 1 \in 1 .. Len(c)
            BY <1>1, <2>1, <2>3
          <5> QED
            BY <1>1, <5>1
        <4>2. b[n + 1] <= c[n + 1]
          <5>1. CASE k = n
            BY <1>1, <2>1, <4>1, <5>1
          <5>2. CASE k > n
            BY <2>1, <4>1, <5>2
          <5> QED
            BY <2>3, <5>1, <5>2
        <4> QED
          BY <4>1, <4>2
      <3> QED
        <4>1. LexAt(a, c, n)
          BY <1>1, <2>1, <2>3, <3>1, <3>2 DEF LexAt
        <4> QED
          BY <4>1 DEF LexLess
    <2> QED
      BY <2>2, <2>3
  <1> QED
    BY <1>2, <1>3, <1>4

\* TrimZeros drops the z zeros in front and keeps the l characters that follow.
Trims(s, z, l) ==
    /\ Len(s) = z + l
    /\ TrimZeros(s) \in Seq(Nat)
    /\ Len(TrimZeros(s)) = l
    /\ \A k \in 1 .. l : TrimZeros(s)[k] = s[z + k]
    /\ Zeros(s, z)
    /\ l # 0 => s[z + 1] # 0

LEMMA TrimZerosIs ==
    ASSUME NEW s \in Seq(Nat)
    PROVE  \E z, l \in Nat : Trims(s, z, l)
  <1> DEFINE kept == {i \in 1 .. Len(s) : s[i] # 0}
  <1>1. CASE kept = {}
    <2>1. TrimZeros(s) = <<>>
      BY <1>1 DEF TrimZeros
    <2>2. Trims(s, Len(s), 0)
      BY <1>1, <2>1 DEF Trims, Zeros
    <2> QED
      BY <2>2
  <1>2. CASE kept # {}
    <2> DEFINE m == Min(kept)
    <2>1. TrimZeros(s) = SubSeq(s, m, Len(s))
      BY <1>2 DEF TrimZeros
    <2>2. m \in kept /\ \A i \in kept : m <= i
      <3>1. kept \in SUBSET Nat
        OBVIOUS
      <3> HIDE DEF kept
      <3> QED
        BY <1>2, <3>1, SmallestElement
    <2> HIDE DEF m
    <2>3. PICK z \in Nat : m = z + 1
      BY <2>2
    <2>4. z < Len(s) /\ s[z + 1] # 0 /\ \A i \in 1 .. z : s[i] = 0
      BY <2>2, <2>3
    <2> DEFINE l == Len(s) - z
    <2>5. l \in Nat /\ Len(s) = z + l /\ l # 0
      BY <2>4
    <2>6. TrimZeros(s) \in Seq(Nat)
      BY <2>1, <2>3, <2>4
    <2>7. Len(TrimZeros(s)) = l
      BY <2>1, <2>3, <2>4
    <2>8. \A k \in 1 .. l : TrimZeros(s)[k] = s[z + k]
      BY <2>1, <2>3, <2>4
    <2> HIDE DEF l
    <2>9. Trims(s, z, l)
      BY <2>4, <2>5, <2>6, <2>7, <2>8 DEF Trims, Zeros
    <2> QED
      BY <2>5, <2>9
  <1> QED
    BY <1>1, <1>2

Digits(s) == \A i \in 1 .. Len(s) : s[i] <= 9

LEMMA FewerDigitsSmaller ==
    ASSUME NEW a \in Seq(Nat), NEW b \in Seq(Nat), Digits(a),
           NEW z \in Nat, NEW l \in Nat, Trims(a, z, l),
           NEW y \in Nat, NEW r \in Nat, Trims(b, y, r), l < r
    PROVE  Number(a) < Number(b)
  <1>1. Len(a) = z + l /\ Len(b) = y + r /\ b[y + 1] # 0
    BY DEF Trims
  <1>2. PICK k \in Nat : r = l + (1 + k)
    <2>1. r - l - 1 \in Nat /\ r = l + (1 + (r - l - 1))
      OBVIOUS
    <2> QED
      BY <2>1
  <1>3. Value(a)[z] = 0
    <2>1. z \in 0 .. Len(a) /\ Zeros(a, z)
      BY <1>1 DEF Trims
    <2> QED
      BY <2>1, ZerosAreNothing
  <1> DEFINE q == (y + 1) + k
  <1>4. Value(b)[q] > 0
    <2>1. y + 1 \in 1 .. Len(b) /\ (y + 1) + k <= Len(b)
      BY <1>1, <1>2
    <2> QED
      BY <1>1, <2>1, DigitsCount
  <1>5. q \in Nat /\ q + l = Len(b)
    BY <1>1, <1>2
  <1> HIDE DEF q
  <1>6. Value(a)[z + l] < Value(b)[q + l]
    <2>1. Value(a)[z] < Value(b)[q]
      BY <1>3, <1>4
    <2>2. z + l <= Len(a) /\ q + l <= Len(b)
      BY <1>1, <1>5
    <2> QED
      BY <1>5, <2>1, <2>2, SmallerGoesOn DEF Digits
  <1> QED
    BY <1>1, <1>5, <1>6 DEF Number

LEMMA SameDigitsEqual ==
    ASSUME NEW a \in Seq(Nat), NEW b \in Seq(Nat),
           NEW z \in Nat, NEW l \in Nat, Trims(a, z, l),
           NEW y \in Nat, NEW r \in Nat, Trims(b, y, r),
           NEW n \in Nat, n <= l, n <= r,
           Agree(TrimZeros(a), 0, TrimZeros(b), 0, n)
    PROVE  Value(a)[z + n] = Value(b)[y + n]
  <1>1. z + n <= Len(a) /\ y + n <= Len(b)
    BY DEF Trims
  <1>2. Value(a)[z] = 0
    <2>1. z \in 0 .. Len(a) /\ Zeros(a, z)
      BY <1>1 DEF Trims
    <2> QED
      BY <2>1, ZerosAreNothing
  <1>3. Value(b)[y] = 0
    <2>1. y \in 0 .. Len(b) /\ Zeros(b, y)
      BY <1>1 DEF Trims
    <2> QED
      BY <2>1, ZerosAreNothing
  <1>4. Agree(a, z, b, y, n)
    <2> SUFFICES ASSUME NEW k \in 1 .. n PROVE a[z + k] = b[y + k]
      BY DEF Agree
    <2>1. TrimZeros(a)[k] = a[z + k]
      BY DEF Trims
    <2>2. TrimZeros(b)[k] = b[y + k]
      BY DEF Trims
    <2>3. TrimZeros(a)[k] = TrimZeros(b)[k]
      BY DEF Agree
    <2> QED
      BY <2>1, <2>2, <2>3
  <1>5. Value(a)[z] = Value(b)[y]
    BY <1>2, <1>3
  <1> QED
    BY <1>1, <1>4, <1>5, EqualGoesOn

LEMMA Larger ==
    ASSUME NEW x \in Nat, NEW d \in Nat, NEW e \in Nat, d < e
    PROVE  10 * x + d < 10 * x + e
  OBVIOUS

LEMMA LexSmaller ==
    ASSUME NEW a \in Seq(Nat), NEW b \in Seq(Nat), Digits(a),
           NEW z \in Nat, NEW y \in Nat, NEW l \in Nat, Trims(a, z, l), Trims(b, y, l),
           LexLess(TrimZeros(a), TrimZeros(b))
    PROVE  Number(a) < Number(b)
  <1>1. Len(a) = z + l /\ Len(b) = y + l /\ Len(TrimZeros(a)) = l /\ Len(TrimZeros(b)) = l
    BY DEF Trims
  <1>2. PICK n \in Nat : LexAt(TrimZeros(a), TrimZeros(b), n)
    BY DEF LexLess
  <1>3. n < l
    BY <1>1, <1>2 DEF LexAt
  <1>4. Agree(TrimZeros(a), 0, TrimZeros(b), 0, n)
    BY <1>2 DEF LexAt, Agree
  <1>5. TrimZeros(a)[n + 1] < TrimZeros(b)[n + 1]
    BY <1>1, <1>2, <1>3 DEF LexAt
  <1>6. Value(a)[z + n] = Value(b)[y + n]
    BY <1>3, <1>4, SameDigitsEqual
  <1>7. PICK m \in Nat : l = (n + 1) + m
    <2>1. l - (n + 1) \in Nat /\ l = (n + 1) + (l - (n + 1))
      BY <1>3
    <2> QED
      BY <2>1
  <1> DEFINE i == z + (n + 1)
             j == y + (n + 1)
  <1>8. i \in 1 .. Len(a) /\ i - 1 = z + n /\ i + m = Len(a)
    BY <1>1, <1>7
  <1>9. j \in 1 .. Len(b) /\ j - 1 = y + n /\ j + m = Len(b)
    BY <1>1, <1>7
  <1>10. a[i] < b[j]
    <2>1. n + 1 \in 1 .. l
      BY <1>3
    <2>2. TrimZeros(a)[n + 1] = a[i]
      BY <2>1 DEF Trims
    <2>3. TrimZeros(b)[n + 1] = b[j]
      BY <2>1 DEF Trims
    <2> QED
      BY <1>5, <2>2, <2>3
  <1> HIDE DEF i, j
  <1>11. Value(a)[i] < Value(b)[j]
    <2>1. PICK u \in Nat : u = Value(b)[j - 1]
      <3>1. j - 1 \in 0 .. Len(b)
        BY <1>9
      <3>2. Value(b)[j - 1] \in Nat
        BY <3>1, ValueDef
      <3> QED
        BY <3>2
    <2>2. Value(a)[i - 1] = u
      BY <1>6, <1>8, <1>9, <2>1
    <2>3. Value(a)[i] = 10 * u + a[i]
      BY <1>8, <2>2, ValueDef
    <2>4. Value(b)[j] = 10 * u + b[j]
      BY <1>9, <2>1, ValueDef
    <2>5. a[i] \in Nat /\ b[j] \in Nat
      BY <1>8, <1>9
    <2> QED
      BY <1>10, <2>3, <2>4, <2>5, Larger
  <1>12. Value(a)[i + m] < Value(b)[j + m]
    <2>1. i \in Nat /\ j \in Nat /\ i + m <= Len(a) /\ j + m <= Len(b)
      BY <1>8, <1>9
    <2> QED
      BY <1>11, <2>1, SmallerGoesOn DEF Digits
  <1> QED
    BY <1>8, <1>9, <1>12 DEF Number

LEMMA NumberNat ==
    ASSUME NEW a \in Seq(Nat)
    PROVE  Number(a) \in Nat
  <1>1. Len(a) \in 0 .. Len(a)
    OBVIOUS
  <1> QED
    BY <1>1, ValueDef DEF Number

\* Digits are compared by the numbers they stand for.
LEMMA NumbersCompare ==
    ASSUME NEW a \in Seq(Nat), NEW b \in Seq(Nat), isVersionDigits(a), isVersionDigits(b)
    PROVE  \/ compareVersionSegment(a, b) = 0 /\ Number(a) = Number(b)
           \/ compareVersionSegment(a, b) = 1 /\ Number(b) < Number(a)
           \/ compareVersionSegment(a, b) = 2 /\ Number(a) < Number(b)
  <1> DEFINE x == TrimZeros(a)
             w == TrimZeros(b)
  <1>1. compareVersionSegment(a, b)
            = IF Len(x) # Len(w) THEN Sign(Len(x), Len(w)) ELSE Lexical(x, w)
    BY DEF compareVersionSegment
  <1>2. PICK z, l \in Nat : Trims(a, z, l)
    BY TrimZerosIs
  <1>3. PICK y, r \in Nat : Trims(b, y, r)
    BY TrimZerosIs
  <1>4. x \in Seq(Nat) /\ w \in Seq(Nat) /\ Len(x) = l /\ Len(w) = r
    BY <1>2, <1>3 DEF Trims
  <1>5. Digits(a) /\ Digits(b)
    BY DEF Digits, isVersionDigits
  <1>6. CASE l < r
    <2>1. Number(a) < Number(b)
      BY <1>2, <1>3, <1>5, <1>6, FewerDigitsSmaller
    <2> HIDE DEF x, w
    <2>2. compareVersionSegment(a, b) = 2
      BY <1>1, <1>4, <1>6 DEF Sign
    <2> QED
      BY <2>1, <2>2
  <1>7. CASE r < l
    <2>1. Number(b) < Number(a)
      BY <1>2, <1>3, <1>5, <1>7, FewerDigitsSmaller
    <2> HIDE DEF x, w
    <2>2. compareVersionSegment(a, b) = 1
      BY <1>1, <1>4, <1>7 DEF Sign
    <2> QED
      BY <2>1, <2>2
  <1>8. CASE l = r
    <2>1. compareVersionSegment(a, b) = Lexical(x, w)
      BY <1>1, <1>4, <1>8
    <2>2. Trims(b, y, l)
      BY <1>3, <1>8
    <2>3. LexLess(x, w) => Number(a) < Number(b)
      BY <1>2, <1>5, <2>2, LexSmaller
    <2>4. LexLess(w, x) => Number(b) < Number(a)
      BY <1>2, <1>5, <2>2, LexSmaller
    <2>5. x = w => Number(a) = Number(b)
      <3> SUFFICES ASSUME x = w PROVE Number(a) = Number(b)
        OBVIOUS
      <3>1. Agree(x, 0, w, 0, l)
        BY DEF Agree
      <3>2. l <= l
        OBVIOUS
      <3>3. Value(a)[z + l] = Value(b)[y + l]
        BY <1>2, <2>2, <3>1, <3>2, SameDigitsEqual
      <3>4. z + l = Len(a) /\ y + l = Len(b)
        BY <1>2, <2>2 DEF Trims
      <3> QED
        BY <3>3, <3>4 DEF Number
    <2> HIDE DEF x, w
    <2> QED
      BY <1>4, <2>1, <2>3, <2>4, <2>5, LexicalIs
  <1> QED
    BY <1>6, <1>7, <1>8

Seg(s) == s \in Seq(Nat) /\ s # <<>>

PlainSeg(s) == Seg(s) /\ (isVersionDigits(s) \/ s[1] > 9)

SegSame(a, b) == ~SegmentBefore(a, b) /\ ~SegmentBefore(b, a)

LEMMA LexicalLess ==
    ASSUME NEW a \in Seq(Nat), NEW b \in Seq(Nat)
    PROVE  /\ Lexical(a, b) = 2 <=> LexLess(a, b)
           /\ Lexical(a, b) = 1 <=> LexLess(b, a)
           /\ Lexical(a, b) = 0 <=> a = b
  <1>1. LexLess(a, b) => a # b /\ ~LexLess(b, a)
    BY LexLessOrder
  <1>2. LexLess(b, a) => a # b /\ ~LexLess(a, b)
    BY LexLessOrder
  <1> QED
    BY <1>1, <1>2, LexicalIs

LEMMA SegmentBeforeIs ==
    ASSUME NEW a, NEW b, Seg(a), Seg(b)
    PROVE  /\ isVersionDigits(a) /\ isVersionDigits(b)
                => (SegmentBefore(a, b) <=> Number(a) < Number(b))
           /\ ~(isVersionDigits(a) /\ isVersionDigits(b))
                => (SegmentBefore(a, b) <=> LexLess(a, b))
  <1>1. isVersionDigits(a) \in BOOLEAN /\ isVersionDigits(b) \in BOOLEAN
    BY DEF isVersionDigits
  <1>2. Lexical(a, b) = 2 <=> LexLess(a, b)
    BY LexicalLess DEF Seg
  <1> QED
    BY <1>1, <1>2 DEF SegmentBefore

\* Of any two segments at most one is before the other.
LEMMA SegmentAsym ==
    ASSUME NEW a, NEW b, Seg(a), Seg(b)
    PROVE  /\ ~SegmentBefore(a, a)
           /\ SegmentBefore(a, b) => ~SegmentBefore(b, a)
  <1>1. Number(a) \in Nat /\ Number(b) \in Nat
    BY NumberNat DEF Seg
  <1>2. LexLess(a, b) => ~LexLess(b, a)
    BY LexLessOrder DEF Seg
  <1>3. ~LexLess(a, a)
    BY LexLessOrder DEF Seg
  <1> QED
    BY <1>1, <1>2, <1>3, SegmentBeforeIs

LEMMA DigitsBeforeWords ==
    ASSUME NEW s, NEW t, PlainSeg(s), PlainSeg(t), isVersionDigits(s), ~isVersionDigits(t)
    PROVE  LexLess(s, t)
  <1>1. /\ s \in Seq(Nat) /\ t \in Seq(Nat) /\ s # <<>> /\ t # <<>>
        /\ s[1] <= 9 /\ t[1] > 9 /\ s[1] < t[1]
    BY DEF isVersionDigits, PlainSeg, Seg
  <1>2. LexAt(s, t, 0)
    BY <1>1 DEF LexAt
  <1> QED
    BY <1>2 DEF LexLess

\* The order of the plain segments is a strict weak order.
LEMMA SegmentOrder ==
    ASSUME NEW a, NEW b, NEW c, PlainSeg(a), PlainSeg(b), PlainSeg(c)
    PROVE  /\ SegmentBefore(a, b) /\ SegmentBefore(b, c) => SegmentBefore(a, c)
           /\ SegmentBefore(a, b) /\ SegSame(b, c) => SegmentBefore(a, c)
           /\ SegSame(a, b) /\ SegmentBefore(b, c) => SegmentBefore(a, c)
           /\ SegSame(a, b) /\ SegSame(b, c) => SegSame(a, c)
  <1> DEFINE D(s) == isVersionDigits(s)
             N(s) == Number(s)
             L(s, t) == LexLess(s, t)
             B(s, t) == SegmentBefore(s, t)
             T == {a, b, c}
  <1>1. \A s \in T : s \in Seq(Nat) /\ Seg(s) /\ PlainSeg(s)
    BY DEF PlainSeg, Seg
  <1>2. \A s \in T : N(s) \in Nat
    BY <1>1, NumberNat
  <1>3. \A s, t \in T : /\ D(s) /\ D(t) => (B(s, t) <=> N(s) < N(t))
                        /\ ~(D(s) /\ D(t)) => (B(s, t) <=> L(s, t))
    BY <1>1, SegmentBeforeIs
  <1>4. \A s, t \in T : D(s) /\ ~D(t) => L(s, t)
    BY <1>1, DigitsBeforeWords
  <1>5. \A s, t \in T : L(s, t) => s # t /\ ~L(t, s)
    BY <1>1, LexLessOrder
  <1>6. \A s, t, u \in T : L(s, t) /\ L(t, u) => L(s, u)
    BY <1>1, LexLessOrder
  <1>7. \A s, t \in T : L(s, t) \/ L(t, s) \/ s = t
    BY <1>1, LexicalIs
  <1> HIDE DEF D, N, L
  <1>8. \A s, t \in T : /\ D(s) /\ D(t) => (B(s, t) <=> N(s) < N(t))
                        /\ D(s) /\ ~D(t) => B(s, t)
                        /\ ~D(s) /\ D(t) => ~B(s, t)
                        /\ ~D(s) /\ ~D(t) => (B(s, t) <=> L(s, t))
    BY <1>3, <1>4, <1>5
  <1>9. B(a, b) /\ B(b, c) => B(a, c)
    BY <1>2, <1>6, <1>8
  <1>10. B(a, b) /\ ~B(b, c) /\ ~B(c, b) => B(a, c)
    BY <1>2, <1>7, <1>8
  <1>11. ~B(a, b) /\ ~B(b, a) /\ B(b, c) => B(a, c)
    BY <1>2, <1>7, <1>8
  <1>12. ~B(a, b) /\ ~B(b, a) /\ ~B(b, c) /\ ~B(c, b) => ~B(a, c) /\ ~B(c, a)
    BY <1>2, <1>7, <1>8
  <1> QED
    BY <1>9, <1>10, <1>11, <1>12 DEF SegSame

\* compareVersionSegment decides SegmentBefore, whatever the segments.
LEMMA SegmentsCompare ==
    ASSUME NEW a, NEW b, Seg(a), Seg(b)
    PROVE  \/ compareVersionSegment(a, b) = 0 /\ SegSame(a, b)
           \/ compareVersionSegment(a, b) = 1 /\ SegmentBefore(b, a)
           \/ compareVersionSegment(a, b) = 2 /\ SegmentBefore(a, b)
  <1>1. a \in Seq(Nat) /\ b \in Seq(Nat)
    BY DEF Seg
  <1>2. CASE isVersionDigits(a) /\ isVersionDigits(b)
    <2>1. Number(a) \in Nat /\ Number(b) \in Nat
      BY <1>1, NumberNat
    <2>2. \/ compareVersionSegment(a, b) = 0 /\ Number(a) = Number(b)
          \/ compareVersionSegment(a, b) = 1 /\ Number(b) < Number(a)
          \/ compareVersionSegment(a, b) = 2 /\ Number(a) < Number(b)
      BY <1>1, <1>2, NumbersCompare
    <2>3. /\ SegmentBefore(a, b) <=> Number(a) < Number(b)
          /\ SegmentBefore(b, a) <=> Number(b) < Number(a)
      BY <1>2, SegmentBeforeIs
    <2> QED
      BY <2>1, <2>2, <2>3 DEF SegSame
  <1>3. CASE ~(isVersionDigits(a) /\ isVersionDigits(b))
    <2>1. compareVersionSegment(a, b) = Lexical(a, b)
      BY <1>3 DEF compareVersionSegment
    <2>2. /\ SegmentBefore(a, b) <=> LexLess(a, b)
          /\ SegmentBefore(b, a) <=> LexLess(b, a)
      BY <1>3, SegmentBeforeIs
    <2>3. LexLess(a, b) => a # b /\ ~LexLess(b, a)
      BY <1>1, LexLessOrder
    <2>4. LexLess(b, a) => a # b /\ ~LexLess(a, b)
      BY <1>1, LexLessOrder
    <2> QED
      BY <1>1, <2>1, <2>2, <2>3, <2>4, LexicalIs DEF SegSame
  <1> QED
    BY <1>2, <1>3

-------------------------------------------------------------------------------
(***************************************************************************)
(* Comparison of versions.                                                 *)
(***************************************************************************)
IsVersion(v) == v \in Seq(Seq(Nat)) /\ \A i \in 1 .. Len(v) : v[i] # <<>>

LEMMA ZeroSegment ==
    /\ PlainSeg(<<0>>)
    /\ \A s : Seg(s) => ~SegmentBefore(s, <<0>>)
  <1>1. <<0>> \in Seq(Nat) /\ isVersionDigits(<<0>>)
    BY DEF isVersionDigits
  <1>2. Seg(<<0>>) /\ PlainSeg(<<0>>)
    BY <1>1 DEF Seg, PlainSeg
  <1>3. Number(<<0>>) = 0
    <2>1. Zeros(<<0>>, 1) /\ 1 \in 0 .. Len(<<0>>) /\ Len(<<0>>) = 1
      BY DEF Zeros
    <2> QED
      BY <1>1, <2>1, ZerosAreNothing DEF Number
  <1>4. ASSUME NEW s, Seg(s) PROVE ~SegmentBefore(s, <<0>>)
    <2>1. Number(s) \in Nat
      BY <1>4, NumberNat DEF Seg
    <2>2. ~LexLess(s, <<0>>)
      <3>1. s \in Seq(Nat) /\ Len(s) >= 1 /\ s[1] \in Nat
        BY <1>4 DEF Seg
      <3>2. \A n \in Nat : ~LexAt(s, <<0>>, n)
        BY <3>1 DEF LexAt
      <3> QED
        BY <3>2 DEF LexLess
    <2> QED
      BY <1>1, <1>2, <1>3, <1>4, <2>1, <2>2, SegmentBeforeIs
  <1> QED
    BY <1>2, <1>4

LEMMA SegmentIs ==
    ASSUME NEW v, IsVersion(v), NEW i \in Nat \ {0}
    PROVE  Seg(Segment(v, i)) /\ (Plain(v) => PlainSeg(Segment(v, i)))
  <1>1. CASE i <= Len(v)
    <2>1. v[i] \in Seq(Nat) /\ v[i] # <<>> /\ Segment(v, i) = v[i] /\ i \in 1 .. Len(v)
      BY <1>1 DEF IsVersion, Segment
    <2> QED
      BY <2>1 DEF Seg, PlainSeg, Plain
  <1>2. CASE ~(i <= Len(v))
    BY <1>2, ZeroSegment DEF Segment, PlainSeg
  <1> QED
    BY <1>1, <1>2

BeforeAt(a, b, i) ==
    /\ SegmentBefore(Segment(a, i), Segment(b, i))
    /\ \A j \in 1 .. i - 1 : SegSame(Segment(a, j), Segment(b, j))

\* The bound on the segment that decides is no restriction.
LEMMA BeforeIs ==
    ASSUME NEW a, NEW b, IsVersion(a), IsVersion(b)
    PROVE  Before(a, b) <=> \E i \in Nat \ {0} : BeforeAt(a, b, i)
  <1> DEFINE m == Max({Len(a), Len(b)})
  <1>1. Len(a) \in Nat /\ Len(b) \in Nat
    BY DEF IsVersion
  <1>2. m = IF Len(a) >= Len(b) THEN Len(a) ELSE Len(b)
    BY <1>1, OfTwo
  <1>3. Before(a, b) <=> \E i \in 1 .. m : BeforeAt(a, b, i)
    BY DEF Before, BeforeAt, SegSame
  <1> HIDE DEF m
  <1>4. ASSUME NEW i \in Nat \ {0}, BeforeAt(a, b, i) PROVE i \in 1 .. m
    <2> SUFFICES ASSUME ~(i <= Len(a)), ~(i <= Len(b)) PROVE FALSE
      BY <1>1, <1>2
    <2>1. SegmentBefore(<<0>>, <<0>>)
      BY <1>4 DEF BeforeAt, Segment
    <2> QED
      BY <2>1, ZeroSegment DEF PlainSeg
  <1>5. m \in Nat
    BY <1>1, <1>2
  <1> QED
    BY <1>3, <1>4, <1>5

LEMMA BeforeIrreflexive ==
    ASSUME NEW a, IsVersion(a)
    PROVE  ~Before(a, a)
  <1> SUFFICES ASSUME NEW i \in Nat \ {0}, BeforeAt(a, a, i) PROVE FALSE
    BY BeforeIs
  <1> QED
    BY SegmentIs, SegmentAsym DEF BeforeAt

LEMMA BeforeOrder ==
    ASSUME NEW a, NEW b, NEW c, IsVersion(a), IsVersion(b), IsVersion(c),
           Plain(a), Plain(b), Plain(c), Before(a, b), Before(b, c)
    PROVE  Before(a, c)
  <1>1. PICK i \in Nat \ {0} : BeforeAt(a, b, i)
    BY BeforeIs
  <1>2. PICK k \in Nat \ {0} : BeforeAt(b, c, k)
    BY BeforeIs
  <1>3. \A j \in Nat \ {0} : /\ PlainSeg(Segment(a, j)) /\ PlainSeg(Segment(b, j))
                          /\ PlainSeg(Segment(c, j))
    BY SegmentIs
  <1>4. ASSUME NEW n \in Nat \ {0}, n <= i, n <= k
        PROVE  \A j \in 1 .. n - 1 : SegSame(Segment(a, j), Segment(c, j))
    <2> SUFFICES ASSUME NEW j \in 1 .. n - 1 PROVE SegSame(Segment(a, j), Segment(c, j))
      OBVIOUS
    <2>1. j \in 1 .. i - 1 /\ j \in 1 .. k - 1 /\ j \in Nat \ {0}
      BY <1>4
    <2>2. SegSame(Segment(a, j), Segment(b, j)) /\ SegSame(Segment(b, j), Segment(c, j))
      BY <1>1, <1>2, <2>1 DEF BeforeAt
    <2> QED
      BY <1>3, <2>1, <2>2, SegmentOrder
  <1>5. CASE i < k
    <2>1. SegmentBefore(Segment(a, i), Segment(b, i)) /\ SegSame(Segment(b, i), Segment(c, i))
      BY <1>1, <1>2, <1>5 DEF BeforeAt
    <2>2. SegmentBefore(Segment(a, i), Segment(c, i))
      BY <1>3, <2>1, SegmentOrder
    <2>3. BeforeAt(a, c, i)
      BY <1>4, <1>5, <2>2 DEF BeforeAt
    <2> QED
      BY <2>3, BeforeIs
  <1>6. CASE k < i
    <2>1. SegSame(Segment(a, k), Segment(b, k)) /\ SegmentBefore(Segment(b, k), Segment(c, k))
      BY <1>1, <1>2, <1>6 DEF BeforeAt
    <2>2. SegmentBefore(Segment(a, k), Segment(c, k))
      BY <1>3, <2>1, SegmentOrder
    <2>3. BeforeAt(a, c, k)
      BY <1>4, <1>6, <2>2 DEF BeforeAt
    <2> QED
      BY <2>3, BeforeIs
  <1>7. CASE k = i
    <2>1. SegmentBefore(Segment(a, i), Segment(b, i)) /\ SegmentBefore(Segment(b, i), Segment(c, i))
      BY <1>1, <1>2, <1>7 DEF BeforeAt
    <2>2. SegmentBefore(Segment(a, i), Segment(c, i))
      BY <1>3, <2>1, SegmentOrder
    <2>3. BeforeAt(a, c, i)
      BY <1>4, <1>7, <2>2 DEF BeforeAt
    <2> QED
      BY <2>3, BeforeIs
  <1> QED
    BY <1>5, <1>6, <1>7

LEMMA NothingBeforeNone ==
    ASSUME NEW v, IsVersion(v)
    PROVE  ~Before(v, NoVersion)
  <1>1. IsVersion(NoVersion)
    BY DEF IsVersion, NoVersion
  <1> SUFFICES ASSUME NEW i \in Nat \ {0}, BeforeAt(v, NoVersion, i) PROVE FALSE
    BY <1>1, BeforeIs
  <1>2. Segment(NoVersion, i) = <<0>>
    BY DEF Segment, NoVersion
  <1> QED
    BY <1>2, SegmentIs, ZeroSegment DEF BeforeAt

\* compareVersions answers 1 exactly when the second version is the older one.
LEMMA VersionsCompare ==
    ASSUME NEW a, NEW b, IsVersion(a), IsVersion(b)
    PROVE  compareVersions(a, b) = 1 <=> Before(b, a)
  <1> DEFINE m == Max({Len(a), Len(b)})
             C(i) == compareVersionSegment(Segment(a, i), Segment(b, i))
             differ == {i \in 1 .. m : C(i) # 0}
  <1>1. m \in Nat /\ m = Max({Len(b), Len(a)})
    <2>1. Len(a) \in Nat /\ Len(b) \in Nat
      BY DEF IsVersion
    <2>2. {Len(a), Len(b)} = {Len(b), Len(a)}
      OBVIOUS
    <2> QED
      BY <2>1, <2>2, OfTwo
  <1>2. \A i \in Nat \ {0} : Seg(Segment(a, i)) /\ Seg(Segment(b, i))
    BY SegmentIs
  <1>3. \A i \in Nat \ {0} : \/ C(i) = 0 /\ SegSame(Segment(a, i), Segment(b, i))
                             \/ C(i) = 1 /\ SegmentBefore(Segment(b, i), Segment(a, i))
                             \/ C(i) = 2 /\ SegmentBefore(Segment(a, i), Segment(b, i))
    BY <1>2, SegmentsCompare
  <1>4. compareVersions(a, b) = IF differ = {} THEN 0 ELSE C(Min(differ))
    BY DEF compareVersions
  <1>5. \A i \in Nat \ {0} : SegmentBefore(Segment(a, i), Segment(b, i))
                               => ~SegmentBefore(Segment(b, i), Segment(a, i))
    BY <1>2, SegmentAsym
  <1>6. Before(b, a) <=> \E i \in 1 .. m : BeforeAt(b, a, i)
    BY <1>1 DEF Before, BeforeAt, SegSame
  <1> HIDE DEF m, C
  <1>7. CASE differ = {}
    <2>1. \A i \in 1 .. m : C(i) = 0
      BY <1>7
    <2>2. \A i \in 1 .. m : SegSame(Segment(a, i), Segment(b, i))
      <3> SUFFICES ASSUME NEW i \in 1 .. m PROVE SegSame(Segment(a, i), Segment(b, i))
        OBVIOUS
      <3>1. i \in Nat \ {0}
        BY <1>1
      <3>2. C(i) = 0
        BY <2>1
      <3> QED
        BY <1>3, <3>1, <3>2
    <2> QED
      BY <1>4, <1>6, <1>7, <2>2 DEF BeforeAt, SegSame
  <1>8. CASE differ # {}
    <2> DEFINE n == Min(differ)
    <2>1. n \in differ /\ \A i \in differ : n <= i
      <3>1. differ \in SUBSET Nat
        BY <1>1
      <3> HIDE DEF differ
      <3> QED
        BY <1>8, <3>1, SmallestElement
    <2>2. compareVersions(a, b) = C(n)
      BY <1>4, <1>8
    <2> HIDE DEF n
    <2>3. n \in 1 .. m /\ n \in Nat \ {0} /\ C(n) # 0
      BY <1>1, <2>1
    <2>4. ASSUME NEW i \in 1 .. n - 1
          PROVE  SegSame(Segment(b, i), Segment(a, i))
      <3>1. i \in 1 .. m /\ i \in Nat \ {0} /\ ~(n <= i)
        BY <1>1, <2>3
      <3>2. C(i) = 0
        BY <2>1, <3>1
      <3> QED
        BY <1>3, <3>1, <3>2 DEF SegSame
    <2>5. ASSUME C(n) = 1 PROVE Before(b, a)
      <3>1. SegmentBefore(Segment(b, n), Segment(a, n))
        BY <1>3, <2>3, <2>5
      <3>2. BeforeAt(b, a, n)
        BY <2>4, <3>1 DEF BeforeAt
      <3> QED
        BY <1>6, <2>3, <3>2
    <2>6. ASSUME Before(b, a) PROVE C(n) = 1
      <3>1. PICK i \in 1 .. m : BeforeAt(b, a, i)
        BY <1>6, <2>6
      <3>2. i = n
        <4>1. CASE i < n
          <5>1. i \in 1 .. n - 1
            BY <1>1, <2>3, <4>1
          <5>2. SegSame(Segment(b, i), Segment(a, i))
            BY <2>4, <5>1
          <5> QED
            BY <3>1, <5>2 DEF BeforeAt, SegSame
        <4>2. CASE n < i
          <5>1. SegSame(Segment(b, n), Segment(a, n))
            BY <2>3, <3>1, <4>2 DEF BeforeAt
          <5> QED
            BY <1>3, <2>3, <5>1 DEF SegSame
        <4> QED
          BY <1>1, <2>3, <4>1, <4>2
      <3>3. SegmentBefore(Segment(b, n), Segment(a, n))
        BY <3>1, <3>2 DEF BeforeAt
      <3> QED
        BY <1>3, <1>5, <2>3, <3>3 DEF SegSame
    <2> QED
      BY <2>2, <2>5, <2>6
  <1> QED
    BY <1>7, <1>8

LEMMA SegmentCompareFlips ==
    ASSUME NEW a, NEW b, Seg(a), Seg(b)
    PROVE  /\ compareVersionSegment(a, b) \in {0, 1, 2}
           /\ compareVersionSegment(a, b) = 0 <=> SegSame(a, b)
           /\ compareVersionSegment(a, b) = 0 <=> compareVersionSegment(b, a) = 0
           /\ compareVersionSegment(a, b) = 1 <=> compareVersionSegment(b, a) = 2
  <1>1. SegmentBefore(a, b) => ~SegmentBefore(b, a)
    BY SegmentAsym
  <1>2. \/ compareVersionSegment(a, b) = 0 /\ SegSame(a, b)
        \/ compareVersionSegment(a, b) = 1 /\ SegmentBefore(b, a)
        \/ compareVersionSegment(a, b) = 2 /\ SegmentBefore(a, b)
    BY SegmentsCompare
  <1>3. \/ compareVersionSegment(b, a) = 0 /\ SegSame(b, a)
        \/ compareVersionSegment(b, a) = 1 /\ SegmentBefore(a, b)
        \/ compareVersionSegment(b, a) = 2 /\ SegmentBefore(b, a)
    BY SegmentsCompare
  <1> QED
    BY <1>1, <1>2, <1>3 DEF SegSame

\* compareVersions does not depend on which version comes first.
LEMMA CompareFlips ==
    ASSUME NEW a, NEW b, IsVersion(a), IsVersion(b)
    PROVE  /\ compareVersions(a, b) \in {0, 1, 2}
           /\ compareVersions(a, b) = 1 <=> compareVersions(b, a) = 2
           /\ compareVersions(a, b) = 0 <=>
                \A i \in Nat \ {0} : SegSame(Segment(a, i), Segment(b, i))
  <1> DEFINE m == Max({Len(a), Len(b)})
             C(i) == compareVersionSegment(Segment(a, i), Segment(b, i))
             D(i) == compareVersionSegment(Segment(b, i), Segment(a, i))
             differ == {i \in 1 .. m : C(i) # 0}
             differ2 == {i \in 1 .. m : D(i) # 0}
  <1>1. Len(a) \in Nat /\ Len(b) \in Nat /\ {Len(a), Len(b)} = {Len(b), Len(a)}
    BY DEF IsVersion
  <1>2. m = Max({Len(b), Len(a)}) /\ m = IF Len(a) >= Len(b) THEN Len(a) ELSE Len(b)
    BY <1>1, OfTwo
  <1>3. \A i \in Nat \ {0} : Seg(Segment(a, i)) /\ Seg(Segment(b, i))
    BY SegmentIs
  <1>4. \A i \in Nat \ {0} : /\ C(i) \in {0, 1, 2}
                             /\ C(i) = 0 <=> SegSame(Segment(a, i), Segment(b, i))
                             /\ C(i) = 0 <=> D(i) = 0
                             /\ C(i) = 1 <=> D(i) = 2
    BY <1>3, SegmentCompareFlips
  <1>5. compareVersions(a, b) = IF differ = {} THEN 0 ELSE C(Min(differ))
    BY DEF compareVersions
  <1>6. compareVersions(b, a) = IF differ2 = {} THEN 0 ELSE D(Min(differ2))
    BY <1>2 DEF compareVersions
  <1>7. ASSUME NEW i \in Nat \ {0}, ~(i \in 1 .. m)
        PROVE  SegSame(Segment(a, i), Segment(b, i))
    <2>1. ~(i <= Len(a)) /\ ~(i <= Len(b))
      BY <1>1, <1>2, <1>7
    <2>2. Segment(a, i) = <<0>> /\ Segment(b, i) = <<0>>
      BY <2>1 DEF Segment
    <2> QED
      BY <2>2, ZeroSegment DEF SegSame, PlainSeg
  <1>8. m \in Nat
    BY <1>1, <1>2
  <1> HIDE DEF m, C, D
  <1>9. \A i \in 1 .. m : i \in Nat \ {0}
    BY <1>8
  <1>10. differ = differ2
    BY <1>4, <1>9
  <1>11. CASE differ = {}
    <2>1. \A i \in 1 .. m : C(i) = 0
      BY <1>11
    <2>2. \A i \in Nat \ {0} : SegSame(Segment(a, i), Segment(b, i))
      BY <1>4, <1>7, <1>9, <2>1
    <2> QED
      BY <1>5, <1>6, <1>10, <1>11, <2>2
  <1>12. CASE differ # {}
    <2> DEFINE n == Min(differ)
    <2>1. n \in differ
      <3>1. differ \in SUBSET Nat
        BY <1>8
      <3> HIDE DEF differ
      <3> QED
        BY <1>12, <3>1, SmallestElement
    <2>2. compareVersions(a, b) = C(n) /\ compareVersions(b, a) = D(n)
      BY <1>5, <1>6, <1>10, <1>12
    <2> HIDE DEF n
    <2>3. n \in Nat \ {0} /\ C(n) # 0
      BY <1>9, <2>1
    <2>4. ~SegSame(Segment(a, n), Segment(b, n))
      BY <1>4, <2>3
    <2> QED
      BY <1>4, <2>2, <2>3, <2>4
  <1> QED
    BY <1>11, <1>12

-------------------------------------------------------------------------------
(***************************************************************************)
(* The scan of the listings.                                               *)
(***************************************************************************)
LEMMA ScanExists ==
    ASSUME NEW order, NEW n \in Nat
    PROVE  \E f : f = [i \in 0 .. n |-> IF i = 0 THEN NoVersion
                                        ELSE Keep(f[i - 1], listings[order[i]])]
  <1> DEFINE Is(f, k) == f = [i \in 0 .. k |-> IF i = 0 THEN NoVersion
                                               ELSE Keep(f[i - 1], listings[order[i]])]
             S == {k \in Nat : \E f : Is(f, k)}
  <1>1. 0 \in S
    <2> DEFINE f == [i \in 0 .. 0 |-> NoVersion]
    <2>1. Is(f, 0)
      OBVIOUS
    <2> QED
      BY <2>1
  <1>2. ASSUME NEW k \in Nat, k \in S PROVE k + 1 \in S
    <2>1. PICK f : Is(f, k)
      BY <1>2
    <2> DEFINE g == [i \in 0 .. k + 1 |-> IF i <= k THEN f[i]
                                          ELSE Keep(f[k], listings[order[k + 1]])]
    <2>2. ASSUME NEW i \in 0 .. k + 1
          PROVE  g[i] = IF i = 0 THEN NoVersion ELSE Keep(g[i - 1], listings[order[i]])
      <3>1. CASE i <= k
        BY <2>1, <3>1
      <3>2. CASE i = k + 1
        BY <3>2
      <3> QED
        BY <3>1, <3>2
    <2>3. Is(g, k + 1)
      BY <2>2
    <2> HIDE DEF Is, g
    <2> QED
      BY <2>3
  <1> HIDE DEF S
  <1>3. n \in S
    BY <1>1, <1>2, SetInduction
  <1> QED
    BY <1>3 DEF S

LEMMA ScanDef ==
    ASSUME NEW order, Len(order) \in Nat
    PROVE  /\ Scan(order)[0] = NoVersion
           /\ \A i \in 1 .. Len(order) :
                Scan(order)[i] = Keep(Scan(order)[i - 1], listings[order[i]])
  <1> DEFINE Is(f) == f = [i \in 0 .. Len(order) |-> IF i = 0 THEN NoVersion
                                                     ELSE Keep(f[i - 1], listings[order[i]])]
  <1>1. \E f : Is(f)
    BY ScanExists
  <1>2. Scan(order) = CHOOSE f : Is(f)
    BY DEF Scan
  <1> HIDE DEF Is
  <1>3. Is(Scan(order))
    BY <1>1, <1>2, Zenon
  <1> QED
    BY <1>3 DEF Is

LEMMA VersionsAre ==
    ASSUME NEW v \in Versions \union {NoVersion}
    PROVE  IsVersion(v)
  <1>1. CASE v \in Versions
    BY <1>1, WatchAssumptions DEF IsVersion
  <1>2. CASE v = NoVersion
    BY <1>2 DEF IsVersion, NoVersion
  <1> QED
    BY <1>1, <1>2

\* compareVersions (store.go), on whatever versions the feeds publish, answers the
\* opposite when its arguments are exchanged.  On plain versions it is a comparison
\* one can sort by and take a maximum with: "newer" is transitive, and so is "the
\* same" (1.10 and 1.10.0, whatever their number of segments).
THEOREM CompareVersionsIsAnOrder ==
    ASSUME NEW a \in Versions \union {NoVersion}, NEW b \in Versions \union {NoVersion},
           NEW c \in Versions \union {NoVersion}
    PROVE  /\ compareVersions(a, b) \in {0, 1, 2}
           /\ compareVersions(a, b) = 1 <=> compareVersions(b, a) = 2
           /\ compareVersions(a, b) = 1 <=> Before(b, a)
           /\ Plain(a) /\ Plain(b) /\ Plain(c) =>
                /\ compareVersions(a, b) = 1 /\ compareVersions(b, c) = 1 =>
                     compareVersions(a, c) = 1
                /\ compareVersions(a, b) = 0 /\ compareVersions(b, c) = 0 =>
                     compareVersions(a, c) = 0
  <1>1. IsVersion(a) /\ IsVersion(b) /\ IsVersion(c)
    BY VersionsAre
  <1>2. /\ compareVersions(a, b) \in {0, 1, 2}
        /\ compareVersions(a, b) = 1 <=> compareVersions(b, a) = 2
        /\ compareVersions(a, b) = 1 <=> Before(b, a)
    BY <1>1, CompareFlips, VersionsCompare
  <1>3. ASSUME Plain(a), Plain(b), Plain(c), compareVersions(a, b) = 1, compareVersions(b, c) = 1
        PROVE  compareVersions(a, c) = 1
    <2>1. Before(b, a) /\ Before(c, b)
      BY <1>1, <1>3, VersionsCompare
    <2>2. Before(c, a)
      BY <1>1, <1>3, <2>1, BeforeOrder
    <2> QED
      BY <1>1, <2>2, VersionsCompare
  <1>4. ASSUME Plain(a), Plain(b), Plain(c), compareVersions(a, b) = 0, compareVersions(b, c) = 0
        PROVE  compareVersions(a, c) = 0
    <2>1. \A i \in Nat \ {0} : /\ SegSame(Segment(a, i), Segment(b, i))
                               /\ SegSame(Segment(b, i), Segment(c, i))
      BY <1>1, <1>4, CompareFlips
    <2>2. \A i \in Nat \ {0} : /\ PlainSeg(Segment(a, i)) /\ PlainSeg(Segment(b, i))
                               /\ PlainSeg(Segment(c, i))
      BY <1>1, <1>4, SegmentIs
    <2>3. \A i \in Nat \ {0} : SegSame(Segment(a, i), Segment(c, i))
      BY <2>1, <2>2, SegmentOrder
    <2> QED
      BY <1>1, <2>3, CompareFlips
  <1> QED
    BY <1>2, <1>3, <1>4

\* After i rows the best version is one of the catalog, none only before the
\* first row; and while all listings are plain, no row that was read is newer.
PlainListings == \A s \in Sources : Plain(listings[s])

BestOf(order, i) ==
    /\ Scan(order)[i] \in Versions \union {NoVersion}
    /\ Scan(order)[i] = NoVersion => i = 0
    /\ PlainListings => /\ Plain(Scan(order)[i])
                        /\ \A j \in 1 .. i : ~Before(Scan(order)[i], listings[order[j]])

LEMMA KeepNewest ==
    ASSUME WatchTypeOK, NEW order \in Seq(Sources), NEW i \in Nat, i + 1 <= Len(order),
           \A j \in 1 .. Len(order) : listings[order[j]] \in Versions,
           BestOf(order, i)
    PROVE  BestOf(order, i + 1)
  <1> DEFINE b == Scan(order)[i]
             v == listings[order[i + 1]]
             c == Scan(order)[i + 1]
  <1>1. c = Keep(b, v)
    <2>1. i + 1 \in 1 .. Len(order) /\ (i + 1) - 1 = i /\ Len(order) \in Nat
      OBVIOUS
    <2> QED
      BY <2>1, ScanDef
  <1>2. v \in Versions /\ v # NoVersion
    <2>1. v \in Versions
      OBVIOUS
    <2> QED
      BY <2>1, WatchAssumptions
  <1>3. b \in Versions \union {NoVersion} /\ IsVersion(b) /\ IsVersion(v)
    BY <1>2, VersionsAre DEF BestOf
  <1>4. ~Before(v, v) /\ (PlainListings => Plain(v))
    <2>1. order[i + 1] \in Sources
      OBVIOUS
    <2> QED
      BY <1>3, <2>1, BeforeIrreflexive DEF PlainListings
  <1>5. ASSUME PlainListings, NEW j \in 1 .. i
        PROVE  /\ IsVersion(listings[order[j]]) /\ Plain(listings[order[j]])
               /\ ~Before(b, listings[order[j]])
    <2>1. j \in 1 .. Len(order)
      OBVIOUS
    <2>2. listings[order[j]] \in Versions /\ order[j] \in Sources
      BY <2>1
    <2> QED
      BY <1>5, <2>2, VersionsAre DEF BestOf, PlainListings
  <1>6. \A j \in 1 .. i + 1 : j = i + 1 \/ j \in 1 .. i
    OBVIOUS
  <1>7. CASE b = NoVersion
    <2>1. c = v
      BY <1>1, <1>7 DEF Keep
    <2>2. i = 0
      BY <1>7 DEF BestOf
    <2>3. \A j \in 1 .. i + 1 : ~Before(c, listings[order[j]])
      BY <1>4, <2>1, <2>2
    <2> QED
      BY <1>2, <1>4, <2>1, <2>3 DEF BestOf
  <1>8. CASE b # NoVersion /\ compareVersions(v, b) = 1
    <2>1. c = v
      BY <1>1, <1>8 DEF Keep
    <2>2. Before(b, v)
      BY <1>3, <1>8, VersionsCompare
    <2>3. ASSUME PlainListings, NEW j \in 1 .. i PROVE ~Before(v, listings[order[j]])
      <3>1. Plain(b) /\ Plain(v)
        BY <1>4, <2>3 DEF BestOf
      <3> QED
        BY <1>3, <1>5, <2>2, <2>3, <3>1, BeforeOrder
    <2>4. PlainListings => \A j \in 1 .. i + 1 : ~Before(c, listings[order[j]])
      BY <1>4, <1>6, <2>1, <2>3
    <2> QED
      BY <1>2, <1>4, <2>1, <2>4 DEF BestOf
  <1>9. CASE b # NoVersion /\ compareVersions(v, b) # 1
    <2>1. c = b
      BY <1>1, <1>9 DEF Keep
    <2>2. ~Before(b, v)
      BY <1>3, <1>9, VersionsCompare
    <2>3. PlainListings => \A j \in 1 .. i + 1 : ~Before(c, listings[order[j]])
      BY <1>5, <1>6, <2>1, <2>2
    <2> QED
      BY <1>3, <1>9, <2>1, <2>3 DEF BestOf
  <1> QED
    BY <1>7, <1>8, <1>9

LEMMA ScanNewest ==
    ASSUME WatchTypeOK, NEW order \in Seq(Sources),
           \A j \in 1 .. Len(order) : listings[order[j]] \in Versions
    PROVE  BestOf(order, Len(order))
  <1> DEFINE S == {i \in Nat : i <= Len(order) => BestOf(order, i)}
  <1>1. 0 \in S
    <2>1. Scan(order)[0] = NoVersion
      BY ScanDef
    <2>2. Plain(NoVersion)
      BY DEF Plain, NoVersion
    <2> QED
      BY <2>1, <2>2 DEF BestOf
  <1>2. ASSUME NEW i \in Nat, i \in S PROVE i + 1 \in S
    <2> SUFFICES ASSUME i + 1 <= Len(order) PROVE BestOf(order, i + 1)
      OBVIOUS
    <2>1. BestOf(order, i)
      BY <1>2
    <2> QED
      BY <2>1, KeepNewest
  <1>3. \A i \in Nat : i \in S
    <2> HIDE DEF S
    <2> QED
      BY <1>1, <1>2, SetInduction
  <1> QED
    BY <1>3

\* An order of the rows leaves none out.
LEMMA OrderIsOnto ==
    ASSUME NEW T, IsFiniteSet(T), NEW order \in SetToSeqs(T)
    PROVE  order \in Seq(T) /\ \A s \in T : \E j \in 1 .. Len(order) : order[j] = s
  <1> DEFINE n == Cardinality(T)
             D == 1 .. n
  <1>1. n \in Nat
    BY FS_CardinalityType
  <1>2. order \in [D -> T] /\ \A i, j \in D : i # j => order[i] # order[j]
    BY DEF SetToSeqs
  <1>3. order \in Injection(D, T)
    BY <1>2 DEF Injection, IsInjective
  <1>4. Cardinality(D) = n
    BY <1>1, FS_Interval
  <1>5. order \in Surjection(D, T)
    <2> HIDE DEF n, D
    <2> QED
      BY <1>3, <1>4, FS_Injection DEF n
  <1>6. \A s \in T : \E j \in D : order[j] = s
    BY <1>5 DEF Surjection
  <1> HIDE DEF n
  <1>7. order \in Seq(T) /\ Len(order) = n
    BY <1>1, <1>2
  <1> QED
    BY <1>6, <1>7

\* Whatever the order of the rows, the scan ends with a listed version, and with a
\* newest one while all listings are plain.
LEMMA BestIsNewest ==
    ASSUME WatchTypeOK, NEW v \in BestListings
    PROVE  /\ v \in Versions \union {NoVersion}
           /\ PlainListings => \A s \in Sources : ~Before(v, listings[s])
  <1> DEFINE T == {s \in Sources : listings[s] # NoVersion}
  <1>1. PICK order \in SetToSeqs(T) : v = Scan(order)[Len(order)]
    BY DEF BestListings
  <1>2. IsFiniteSet(T)
    BY WatchAssumptions, FS_Subset
  <1>3. \A s \in Sources : listings[s] \in Versions \union {NoVersion}
    BY DEF WatchTypeOK
  <1>4. \A s \in T : s \in Sources /\ listings[s] \in Versions
    BY <1>3
  <1>5. \A s \in Sources : s \in T \/ listings[s] = NoVersion
    OBVIOUS
  <1> HIDE DEF T
  <1>6. order \in Seq(T) /\ \A s \in T : \E j \in 1 .. Len(order) : order[j] = s
    BY <1>1, <1>2, OrderIsOnto
  <1>7. order \in Seq(Sources) /\ \A j \in 1 .. Len(order) : listings[order[j]] \in Versions
    BY <1>4, <1>6
  <1>8. BestOf(order, Len(order))
    BY <1>7, ScanNewest
  <1>9. v \in Versions \union {NoVersion}
    BY <1>1, <1>8 DEF BestOf
  <1>10. ASSUME PlainListings, NEW s \in Sources PROVE ~Before(v, listings[s])
    <2>1. CASE s \in T
      <3>1. PICK j \in 1 .. Len(order) : order[j] = s
        BY <1>6, <2>1
      <3> QED
        BY <1>1, <1>8, <1>10, <3>1 DEF BestOf
    <2>2. CASE listings[s] = NoVersion
      <3>1. IsVersion(v)
        BY <1>9, VersionsAre
      <3> QED
        BY <2>2, <3>1, NothingBeforeNone
    <2> QED
      BY <1>5, <2>1, <2>2
  <1> QED
    BY <1>9, <1>10

-------------------------------------------------------------------------------
(***************************************************************************)
(* The invariant: what was imported while watching is the baseline.        *)
(***************************************************************************)
ImportIsSeen == imported # NoVersion => watched /\ seen = imported

WatchInv == WatchTypeOK /\ ImportIsSeen

LEMMA WatchInitInv == WatchInit => WatchInv
  BY DEF WatchInit, WatchInv, WatchTypeOK, ImportIsSeen

LEMMA WatchNextInv ==
    ASSUME WatchInv, [WatchNext]_watchVars
    PROVE  WatchInv'
  <1> USE DEF WatchInv
  <1>1. ASSUME NEW s \in Sources, NEW p \in Published, NEW q \in Published, Snapshot(s, {p, q})
        PROVE  WatchInv'
    <2>1. Primary({p, q}) \subseteq Versions
      BY DEF Primary, Published
    <2>2. PICK v \in Primary({p, q}) : listings' = [listings EXCEPT ![s] = v]
      BY <1>1 DEF Snapshot
    <2>3. v \in Versions
      BY <2>1, <2>2
    <2>4. WatchTypeOK'
      BY <1>1, <2>2, <2>3 DEF Snapshot, WatchTypeOK
    <2>5. ImportIsSeen'
      BY <1>1 DEF Snapshot, ImportIsSeen
    <2> QED
      BY <2>4, <2>5
  <1>2. ASSUME AddSubscription PROVE WatchInv'
    <2>1. Baseline \in Versions \union {NoVersion}
      BY DEF Baseline, WatchTypeOK
    <2> QED
      BY <1>2, <2>1 DEF AddSubscription, WatchTypeOK, ImportIsSeen
  <1>3. ASSUME DeleteSubscription PROVE WatchInv'
    BY <1>3 DEF DeleteSubscription, WatchTypeOK, ImportIsSeen
  <1>4. ASSUME NEW v \in Versions, Import(v) PROVE WatchInv'
    BY <1>4 DEF Import, WatchTypeOK, ImportIsSeen
  <1>5. ASSUME NEW v \in Versions, Deploy(v) PROVE WatchInv'
    BY <1>5 DEF Deploy, WatchTypeOK, ImportIsSeen
  <1>6. ASSUME UNCHANGED watchVars PROVE WatchInv'
    BY <1>6 DEF watchVars, WatchTypeOK, ImportIsSeen
  <1> QED
    BY <1>1, <1>2, <1>3, <1>4, <1>5, <1>6 DEF WatchNext

LEMMA WatchInvariant == WatchSpec => []WatchInv
  <1>1. WatchInv /\ [WatchNext]_watchVars => WatchInv'
    BY WatchNextInv
  <1> QED
    BY <1>1, WatchInitInv, PTL DEF WatchSpec

\* Listings, baselines and deployed versions are versions of the catalog: the
\* statements of snapshotListings, handleStoreInstall and the subscriptions write
\* nothing else.
THEOREM WatchTypes == WatchSpec => []WatchTypeOK
  <1>1. WatchInv => WatchTypeOK
    BY DEF WatchInv
  <1> QED
    BY <1>1, WatchInvariant, PTL

\* While all listings are plain, the scan of handleListUpdates ends with a newest
\* one whatever the order of the rows; what it offers for a deployment is newer
\* than what is deployed, plain or not.
THEOREM NewestIsOffered == WatchSpec => []OffersAreNewest
  <1>1. ASSUME WatchTypeOK PROVE OffersAreNewest
    <2>1. PlainListings => \A v \in BestListings, s \in Sources : ~Before(v, listings[s])
      BY <1>1, BestIsNewest
    <2>2. ASSUME NEW v \in DeploymentOffers PROVE Before(deployed, v)
      <3>1. v \in BestListings /\ compareVersions(v, deployed) = 1
        BY DEF DeploymentOffers
      <3>2. IsVersion(v)
        BY <1>1, <3>1, BestIsNewest, VersionsAre
      <3>3. IsVersion(deployed)
        BY <1>1, VersionsAre DEF WatchTypeOK
      <3> QED
        BY <3>1, <3>2, <3>3, VersionsCompare
    <2> QED
      BY <2>1, <2>2 DEF OffersAreNewest, PlainListings
  <1> QED
    BY <1>1, WatchTypes, PTL

\* An imported version stops surfacing: while the bundle is watched only newer
\* versions are offered, whatever is listed or subscribed to again, plain or not.
THEOREM ImportStopsSurfacing == WatchSpec => []OnlyNewerSurfaces
  <1>1. ASSUME WatchInv PROVE OnlyNewerSurfaces
    <2> SUFFICES ASSUME imported # NoVersion, NEW v \in SubscriptionOffers
                 PROVE  Before(imported, v)
      BY DEF OnlyNewerSurfaces
    <2>1. seen = imported
      BY <1>1 DEF WatchInv, ImportIsSeen
    <2>2. v \in BestListings /\ compareVersions(v, imported) = 1
      BY <2>1 DEF SubscriptionOffers
    <2>3. IsVersion(v)
      BY <1>1, <2>2, BestIsNewest, VersionsAre DEF WatchInv
    <2>4. IsVersion(imported)
      BY <1>1, VersionsAre DEF WatchInv, WatchTypeOK
    <2> QED
      BY <2>2, <2>3, <2>4, VersionsCompare
  <1> QED
    BY <1>1, WatchInvariant, PTL
===============================================================================
