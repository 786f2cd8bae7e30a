----------------------------- MODULE CoverProofs -----------------------------
(***************************************************************************)
(* Events and uploads agree on the covers, and a cover linked in time is   *)
(* an object of the store, for any number of uploads, events and workers.  *)
(***************************************************************************)
EXTENDS CoverStorage, TLAPS

\* An upload has no row before its INSERT, and its object from its PUT on.
UploadInOrder ==
  \A x \in Uploads :
    /\ upload[x] \in {"new", "stored"} => row[x] = None
    /\ upload[x] = "stored" => x \in object

\* Only an upload that succeeded is ever a cover.
CoverIsKnown == \A e \in Events : cover[e] # None => cover[e] \in Known

\* An upload that workers may take, or have taken, the object of: it is too old to be linked
\* without being late.
Doomed(x) ==
  row[x] # None =>
    /\ row[x].created < clock - MaxAge
    /\ row[x].event # None => x \in late

\* Uploads that workers have listed are doomed, and so is every upload whose object is missing.
RemovedIsDoomed ==
  /\ \A w \in Workers : \A x \in list[w] \cup ({erased[w]} \ {None}) :
       upload[x] \notin {"new", "stored"} /\ Doomed(x)
  /\ \A x \in Known \ object : Doomed(x)

CoverInv == TypeOK /\ CoverIsLinked /\ UploadInOrder /\ CoverIsKnown /\ RemovedIsDoomed

\* It holds before the first upload.
LEMMA InitCoverInv == Init => CoverInv
BY CoverAssumption
   DEF Init, CoverInv, TypeOK, Steps, CoverIsLinked, UploadInOrder, CoverIsKnown, Known,
       RemovedIsDoomed

\* What is linked to an event after its cover has been set.
LEMMA SetLinks ==
  ASSUME CoverInv, NEW e \in Events, NEW x \in Uploads \cup {None},
         x # None => row[x] # None /\ row[x].event \in {None, e},
         Set(e, x), exists' = exists \cup {e}
  PROVE  /\ row' \in [Uploads -> UploadRow \cup {None}]
         /\ CoverIsLinked'
         /\ \A y \in Uploads : (row'[y] = None) <=> (row[y] = None)
         /\ \A y \in Uploads : row[y] # None => row'[y].created = row[y].created
         /\ \A y \in Uploads \ {x} : row[y] # None => row'[y].event \in {None, row[y].event}
<1> USE CoverAssumption DEF CoverInv, TypeOK, UploadRow
<1>1. /\ row' = Relinked(e, x) /\ cover' = [cover EXCEPT ![e] = x]
  BY DEF Set
<1>2. ASSUME NEW y \in Uploads
      PROVE  /\ row'[y] \in UploadRow \cup {None}
             /\ (row'[y] = None) <=> (row[y] = None)
             /\ row[y] # None => row'[y].created = row[y].created
             /\ y # x /\ row[y] # None => row'[y].event \in {None, row[y].event}
  BY <1>1 DEF Relinked
<1>3. row' \in [Uploads -> UploadRow \cup {None}]
  BY <1>1, <1>2 DEF Relinked
<1>4. ASSUME NEW f \in Events
      PROVE  {y \in Uploads : row'[y] # None /\ row'[y].event = f}
               = IF f \in exists' THEN {cover'[f]} \ {None} ELSE {}
  <2>1. {y \in Uploads : row[y] # None /\ row[y].event = f}
          = IF f \in exists THEN {cover[f]} \ {None} ELSE {}
    BY DEF CoverIsLinked
  <2>2. ASSUME f # e, NEW y \in Uploads
        PROVE  row'[y] # None /\ row'[y].event = f <=> row[y] # None /\ row[y].event = f
    BY <2>2, <1>1, <1>2, <2>1 DEF Relinked
  <2>3. CASE f # e
    BY <2>1, <2>2, <2>3, <1>1
  <2>4. CASE f = e
    <3>1. ASSUME NEW y \in Uploads
          PROVE  row'[y] # None /\ row'[y].event = e <=> y = x
      <4>1. CASE y = x
        BY <4>1, <1>1 DEF Relinked
      <4>2. CASE y # x /\ row[y] # None /\ row[y].event = e
        <5>1. y = cover[e]
          BY <4>2, <2>1, <2>4
        <5> QED
          BY <5>1, <4>2, <1>1 DEF Relinked
      <4>3. CASE y # x /\ ~(row[y] # None /\ row[y].event = e)
        BY <4>3, <1>1 DEF Relinked
      <4> QED
        BY <4>1, <4>2, <4>3
    <3> QED
      BY <3>1, <2>4, <1>1
  <2> QED
    BY <2>3, <2>4
<1> QED
  BY <1>2, <1>3, <1>4 DEF CoverIsLinked

\* Setting a cover, of a new event or of one that exists, preserves the invariant.
LEMMA SetCoverInv ==
  ASSUME CoverInv, NEW e \in Events, NEW x \in Known \cup {None}, NEW admin \in BOOLEAN,
         x # None => MayAttach(x, e, admin), Set(e, x), exists' = exists \cup {e}
  PROVE  CoverInv'
<1> USE CoverAssumption DEF CoverInv
<1>1. /\ x \in Uploads \cup {None}
      /\ x # None => row[x] # None /\ row[x].event \in {None, e}
  BY DEF Known, MayAttach
<1>2. /\ row' \in [Uploads -> UploadRow \cup {None}]
      /\ CoverIsLinked'
      /\ \A y \in Uploads : (row'[y] = None) <=> (row[y] = None)
      /\ \A y \in Uploads : row[y] # None => row'[y].created = row[y].created
      /\ \A y \in Uploads \ {x} : row[y] # None => row'[y].event \in {None, row[y].event}
  BY <1>1, SetLinks
<1>3. TypeOK'
  BY <1>1, <1>2 DEF TypeOK, Set, workers
<1>4. UploadInOrder'
  BY <1>2 DEF UploadInOrder, Set
<1>5. CoverIsKnown'
  BY DEF CoverIsKnown, Set, Known, TypeOK
<1>6. ASSUME NEW y \in Uploads, Doomed(y) PROVE Doomed(y)'
  <2>1. CASE y = x
    BY <2>1, <1>6, <1>1, <1>2 DEF Doomed, Set, Expired
  <2>2. CASE y # x
    BY <2>2, <1>6, <1>2 DEF Doomed, Set
  <2> QED
    BY <2>1, <2>2
<1>7. RemovedIsDoomed'
  BY <1>6 DEF RemovedIsDoomed, Set, workers, Known, TypeOK
<1> QED
  BY <1>2, <1>3, <1>4, <1>5, <1>7

\* Each step of an upload, of an event's handler or of a worker preserves it.
LEMMA NextCoverInv == CoverInv /\ [Next]_vars => CoverInv'
<1> SUFFICES ASSUME CoverInv, [Next]_vars PROVE CoverInv'
  OBVIOUS
<1> USE CoverAssumption DEF CoverInv, handlers, workers, Goto
<1>1. CASE Tick
  <2>1. TypeOK' /\ CoverIsLinked' /\ UploadInOrder' /\ CoverIsKnown'
    BY <1>1 DEF Tick, TypeOK, CoverIsLinked, UploadInOrder, CoverIsKnown, Known
  <2>2. RemovedIsDoomed'
    BY <1>1 DEF Tick, RemovedIsDoomed, Doomed, Known, TypeOK, UploadRow
  <2> QED
    BY <2>1, <2>2
<1>2. ASSUME NEW x \in Uploads, Put(x) PROVE CoverInv'
  <2>1. TypeOK' /\ CoverIsLinked'
    BY <1>2 DEF Put, TypeOK, Steps, CoverIsLinked
  <2>2. UploadInOrder' /\ CoverIsKnown'
    BY <1>2 DEF Put, TypeOK, UploadInOrder, CoverIsKnown, Known
  <2>3. RemovedIsDoomed'
    BY <1>2 DEF Put, RemovedIsDoomed, Doomed, Known, TypeOK
  <2> QED
    BY <2>1, <2>2, <2>3
<1>3. ASSUME NEW x \in Uploads, PutFails(x) PROVE CoverInv'
  <2>1. TypeOK' /\ CoverIsLinked'
    BY <1>3 DEF PutFails, TypeOK, Steps, CoverIsLinked
  <2>2. UploadInOrder' /\ CoverIsKnown'
    BY <1>3 DEF PutFails, TypeOK, UploadInOrder, CoverIsKnown, Known
  <2>3. RemovedIsDoomed'
    BY <1>3 DEF PutFails, RemovedIsDoomed, Doomed, Known, TypeOK
  <2> QED
    BY <2>1, <2>2, <2>3
<1>4. ASSUME NEW x \in Uploads, Insert(x) PROVE CoverInv'
  <2>1. TypeOK'
    BY <1>4 DEF Insert, Recorded, TypeOK, Steps, UploadRow
  <2>2. CoverIsLinked'
    BY <1>4 DEF Insert, Recorded, CoverIsLinked, UploadInOrder, TypeOK
  <2>3. UploadInOrder' /\ CoverIsKnown'
    BY <1>4 DEF Insert, Recorded, TypeOK, UploadInOrder, CoverIsKnown, Known
  <2>4. RemovedIsDoomed'
    BY <1>4 DEF Insert, Recorded, RemovedIsDoomed, UploadInOrder, Doomed, Known, TypeOK
  <2> QED
    BY <2>1, <2>2, <2>3, <2>4
<1>5. ASSUME NEW x \in Uploads, InsertFails(x) PROVE CoverInv'
  <2>1. TypeOK'
    BY <1>5 DEF InsertFails, Recorded, TypeOK, Steps, UploadRow
  <2>2. CoverIsLinked'
    BY <1>5 DEF InsertFails, Recorded, CoverIsLinked, UploadInOrder, TypeOK
  <2>3. UploadInOrder' /\ CoverIsKnown'
    BY <1>5 DEF InsertFails, Recorded, TypeOK, UploadInOrder, CoverIsKnown, Known
  <2>4. RemovedIsDoomed'
    BY <1>5 DEF InsertFails, Recorded, RemovedIsDoomed, UploadInOrder, Doomed, Known, TypeOK
  <2> QED
    BY <2>1, <2>2, <2>3, <2>4
<1>6. ASSUME NEW x \in Uploads, Discard(x) PROVE CoverInv'
  <2>1. TypeOK' /\ CoverIsLinked'
    BY <1>6 DEF Discard, TypeOK, Steps, CoverIsLinked
  <2>2. UploadInOrder' /\ CoverIsKnown'
    BY <1>6 DEF Discard, TypeOK, UploadInOrder, CoverIsKnown, Known
  <2>3. RemovedIsDoomed'
    BY <1>6 DEF Discard, RemovedIsDoomed, Doomed, Known, TypeOK
  <2> QED
    BY <2>1, <2>2, <2>3
<1>7. ASSUME NEW x \in Uploads, CrashUpload(x) PROVE CoverInv'
  <2>1. TypeOK' /\ CoverIsLinked'
    BY <1>7 DEF CrashUpload, TypeOK, Steps, CoverIsLinked
  <2>2. UploadInOrder' /\ CoverIsKnown'
    BY <1>7 DEF CrashUpload, TypeOK, UploadInOrder, CoverIsKnown, Known
  <2>3. RemovedIsDoomed'
    BY <1>7 DEF CrashUpload, RemovedIsDoomed, Doomed, Known, TypeOK
  <2> QED
    BY <2>1, <2>2, <2>3
<1>8. ASSUME NEW e \in Events, CreateEvent(e) PROVE CoverInv'
  <2>1. PICK x \in Known \cup {None} : (x # None => MayAttach(x, e, FALSE)) /\ Set(e, x)
    BY <1>8 DEF CreateEvent
  <2> QED
    BY <1>8, <2>1, SetCoverInv DEF CreateEvent
<1>9. ASSUME NEW e \in Events, EditCover(e) PROVE CoverInv'
  <2>1. PICK x \in (Known \cup {None}) \ {cover[e]}, admin \in BOOLEAN :
          (x # None => MayAttach(x, e, admin)) /\ Set(e, x)
    BY <1>9 DEF EditCover
  <2>2. exists' = exists \cup {e}
    BY <1>9 DEF EditCover
  <2> QED
    BY <2>1, <2>2, SetCoverInv
<1>10. ASSUME NEW e \in Events, DeleteEvent(e) PROVE CoverInv'
  <2>1. TypeOK'
    BY <1>10 DEF DeleteEvent, Released, TypeOK, UploadRow
  <2>2. CoverIsLinked'
    <3> SUFFICES ASSUME NEW f \in Events
                 PROVE  {y \in Uploads : row'[y] # None /\ row'[y].event = f}
                          = IF f \in exists' THEN {cover'[f]} \ {None} ELSE {}
      BY DEF CoverIsLinked
    <3>1. {y \in Uploads : row[y] # None /\ row[y].event = f}
            = IF f \in exists THEN {cover[f]} \ {None} ELSE {}
      BY DEF CoverIsLinked
    <3>2. ASSUME NEW y \in Uploads
          PROVE  row'[y] # None /\ row'[y].event = f
                   <=> f # e /\ row[y] # None /\ row[y].event = f
      BY <1>10 DEF DeleteEvent, Released, TypeOK, UploadRow
    <3> QED
      BY <1>10, <3>1, <3>2 DEF DeleteEvent
  <2>3. UploadInOrder' /\ CoverIsKnown'
    BY <1>10 DEF DeleteEvent, Released, TypeOK, UploadInOrder, CoverIsKnown, Known
  <2>4. ASSUME NEW y \in Uploads, Doomed(y) PROVE Doomed(y)'
    BY <1>10, <2>4 DEF DeleteEvent, Released, Doomed, TypeOK, UploadRow
  <2>5. RemovedIsDoomed'
    BY <1>10, <2>4 DEF DeleteEvent, RemovedIsDoomed, Known, TypeOK
  <2> QED
    BY <2>1, <2>2, <2>3, <2>5
<1>11. ASSUME NEW w \in Workers, List(w) PROVE CoverInv'
  <2>1. PICK batch \in SUBSET ExpiredUploads : list' = [list EXCEPT ![w] = batch]
    BY <1>11 DEF List
  <2>2. TypeOK' /\ CoverIsLinked' /\ UploadInOrder' /\ CoverIsKnown'
    BY <1>11, <2>1
       DEF List, ExpiredUploads, TypeOK, CoverIsLinked, UploadInOrder, CoverIsKnown, Known
  <2>3. \A x \in batch : x \in Uploads /\ upload[x] \notin {"new", "stored"} /\ Doomed(x)
    BY DEF ExpiredUploads, Expired, UploadInOrder, Doomed
  <2>4. RemovedIsDoomed'
    BY <1>11, <2>1, <2>3 DEF List, RemovedIsDoomed, Doomed, Known, TypeOK
  <2> QED
    BY <2>2, <2>4
<1>12. ASSUME NEW w \in Workers, RemoveObject(w) PROVE CoverInv'
  <2>1. TypeOK' /\ CoverIsLinked'
    BY <1>12 DEF RemoveObject, TypeOK, CoverIsLinked
  <2>2. UploadInOrder' /\ CoverIsKnown'
    BY <1>12 DEF RemoveObject, RemovedIsDoomed, TypeOK, UploadInOrder, CoverIsKnown, Known
  <2>3. RemovedIsDoomed'
    BY <1>12 DEF RemoveObject, RemovedIsDoomed, Doomed, Known, TypeOK
  <2> QED
    BY <2>1, <2>2, <2>3
<1>13. ASSUME NEW w \in Workers, RemoveObjectFails(w) PROVE CoverInv'
  <2>1. TypeOK' /\ CoverIsLinked'
    BY <1>13 DEF RemoveObjectFails, TypeOK, CoverIsLinked
  <2>2. UploadInOrder' /\ CoverIsKnown'
    BY <1>13 DEF RemoveObjectFails, RemovedIsDoomed, TypeOK, UploadInOrder, CoverIsKnown, Known
  <2>3. RemovedIsDoomed'
    BY <1>13 DEF RemoveObjectFails, RemovedIsDoomed, Doomed, Known, TypeOK
  <2> QED
    BY <2>1, <2>2, <2>3
<1>14. ASSUME NEW w \in Workers, DeleteRow(w) PROVE CoverInv'
  <2>0. erased[w] \in Uploads
    BY <1>14 DEF DeleteRow, TypeOK
  <2>1. TypeOK'
    BY <1>14, <2>0 DEF DeleteRow, Deleted, TypeOK
  <2>2. CoverIsLinked'
    BY <1>14, <2>0 DEF DeleteRow, Deleted, CoverIsLinked, TypeOK
  <2>3. UploadInOrder' /\ CoverIsKnown'
    BY <1>14, <2>0 DEF DeleteRow, Deleted, TypeOK, UploadInOrder, CoverIsKnown, Known
  <2>4. RemovedIsDoomed'
    BY <1>14, <2>0 DEF DeleteRow, Deleted, RemovedIsDoomed, Doomed, Known, TypeOK
  <2> QED
    BY <2>1, <2>2, <2>3, <2>4
<1>15. ASSUME NEW w \in Workers, StopWorker(w) PROVE CoverInv'
  <2>1. TypeOK' /\ CoverIsLinked'
    BY <1>15 DEF StopWorker, TypeOK, CoverIsLinked
  <2>2. UploadInOrder' /\ CoverIsKnown'
    BY <1>15 DEF StopWorker, TypeOK, UploadInOrder, CoverIsKnown, Known
  <2>3. RemovedIsDoomed'
    BY <1>15 DEF StopWorker, RemovedIsDoomed, Doomed, Known, TypeOK
  <2> QED
    BY <2>1, <2>2, <2>3
<1>16. CASE UNCHANGED vars
  BY <1>16 DEF vars, TypeOK, CoverIsLinked, UploadInOrder, CoverIsKnown, RemovedIsDoomed, Doomed,
               Known
<1> QED
  BY <1>1, <1>2, <1>3, <1>4, <1>5, <1>6, <1>7, <1>8, <1>9, <1>10, <1>11, <1>12, <1>13, <1>14,
     <1>15, <1>16 DEF Next

\* The tables, the store and the workers' lists keep their shape.
THEOREM CoverTypeCorrect == Spec => []TypeOK
<1>1. CoverInv => TypeOK
  BY DEF CoverInv
<1> QED
  BY <1>1, InitCoverInv, NextCoverInv, PTL DEF Spec

\* events.image_url and event_uploads.event_id agree (attachCover, Delete, DeleteCoverUpload).
THEOREM CoversAreLinked == Spec => []CoverIsLinked
<1>1. CoverInv => CoverIsLinked
  BY DEF CoverInv
<1> QED
  BY <1>1, InitCoverInv, NextCoverInv, PTL DEF Spec

\* A cover linked before its upload had expired is in the store: workers remove the objects of
\* expired uploads only, and a failed INSERT the object of an upload no client knows.
THEOREM PromptCoversExist == Spec => []PromptCoverExists
<1>1. CoverInv => PromptCoverExists
  <2> SUFFICES ASSUME CoverInv, NEW e \in exists, cover[e] # None, cover[e] \notin late
               PROVE  cover[e] \in object
    BY DEF PromptCoverExists
  <2>1. e \in Events /\ cover[e] \in Known
    BY DEF CoverInv, TypeOK, CoverIsKnown
  <2>2. row[cover[e]] # None /\ row[cover[e]].event = e
    BY <2>1 DEF CoverInv, CoverIsLinked
  <2>3. ~Doomed(cover[e])
    BY <2>1, <2>2, CoverAssumption DEF Doomed
  <2> QED
    BY <2>1, <2>3 DEF CoverInv, RemovedIsDoomed
<1> QED
  BY <1>1, InitCoverInv, NextCoverInv, PTL DEF Spec
=============================================================================
