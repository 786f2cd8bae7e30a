---------------------------- MODULE CoverStorage ----------------------------
(***************************************************************************)
(* internal/events: covers of events.  The picture is an object in the     *)
(* store, its upload a row of event_uploads, its use the image_url of an   *)
(* event.  Store and database share no transaction, so uploads, edits of   *)
(* events and the cleanup workers interleave between their steps, and each *)
(* step may fail, or succeed and look failed.                              *)
(***************************************************************************)
EXTENDS Integers, FiniteSets

CONSTANTS
  Uploads,       \* bound: uploads ever begun; each has an object key and a URL of its own
  Events,        \* bound: events at a time
  Users,
  Workers,       \* one cleanup worker per process
  None,
  Owner,         \* who makes an upload or creates an event
  MaxAge,        \* age at which an unlinked upload expires
  Batch,         \* uploads one pass of a worker may take
  LastInstant    \* bound of the clock

ASSUME CoverAssumption ==
  /\ Owner \in [Uploads \cup Events -> Users]
  /\ MaxAge \in Nat /\ Batch \in Nat \ {0} /\ LastInstant \in Nat
  /\ None \notin Uploads \cup Events \cup [event: Events \cup {None}, created: Nat]

VARIABLES
  clock,
  object,    \* keys in the object store
  row,       \* event_uploads: event linked to and time of creation
  cover,     \* image_url of each event
  exists,    \* events created and not deleted
  upload,    \* how far each upload has come
  list,      \* the uploads a worker has still to clean up
  erased,    \* the one among them whose object it has just removed
  late       \* history: uploads linked when they had expired

handlers == <<row, cover, exists, late>>
workers == <<list, erased>>
vars == <<clock, object, handlers, upload, workers>>

Steps == {"new", "stored", "known", "discard", "ended"}
UploadRow == [event: Events \cup {None}, created: Nat]

Init ==
  /\ clock = 0
  /\ object = {}
  /\ row = [x \in Uploads |-> None]
  /\ cover = [e \in Events |-> None]
  /\ exists = {}
  /\ upload = [x \in Uploads |-> "new"]
  /\ list = [w \in Workers |-> {}]
  /\ erased = [w \in Workers |-> None]
  /\ late = {}

Tick == clock < LastInstant /\ clock' = clock + 1 /\ UNCHANGED <<object, handlers, upload, workers>>

-----------------------------------------------------------------------------
(* CoverService.Upload. *)

Goto(x, step) == upload' = [upload EXCEPT ![x] = step]

Put(x) ==
  /\ upload[x] = "new"
  /\ object' = object \cup {x}
  /\ Goto(x, "stored")
  /\ UNCHANGED <<clock, handlers, workers>>

\* The store reports an error, whether or not it has the object; nothing is removed.
PutFails(x) ==
  /\ upload[x] = "new"
  /\ object' \in {object, object \cup {x}}
  /\ Goto(x, "ended")
  /\ UNCHANGED <<clock, handlers, workers>>

Recorded(x) == [row EXCEPT ![x] = [event |-> None, created |-> clock]]

\* CreateCoverUpload; the owner is answered with the URL.
Insert(x) ==
  /\ upload[x] = "stored"
  /\ row' = Recorded(x)
  /\ Goto(x, "known")
  /\ UNCHANGED <<clock, object, cover, exists, late, workers>>

\* The insert fails, or its success is not learnt of.
InsertFails(x) ==
  /\ upload[x] = "stored"
  /\ row' \in {row, Recorded(x)}
  /\ Goto(x, "discard")
  /\ UNCHANGED <<clock, object, cover, exists, late, workers>>

\* The object is removed again; an error of the store is ignored.
Discard(x) ==
  /\ upload[x] = "discard"
  /\ object' \in {object, object \ {x}}
  /\ Goto(x, "ended")
  /\ UNCHANGED <<clock, handlers, workers>>

CrashUpload(x) ==
  /\ upload[x] \in {"stored", "discard"}
  /\ Goto(x, "ended")
  /\ UNCHANGED <<clock, object, handlers, workers>>

-----------------------------------------------------------------------------
(* Events.  A transaction locks the upload's row, so each is one step. *)

\* attachCover: an upload is linked by its owner, or by an administrator, to one event.
MayAttach(x, e, admin) ==
  /\ row[x] # None
  /\ admin \/ Owner[x] = Owner[e]
  /\ row[x].event \in {None, e}

\* Variant: the UPDATE is given the owner's id for the event's.
LinkedToOwner(e, x) ==
  [y \in Uploads |-> IF y = x THEN [row[y] EXCEPT !.event = Owner[e]] ELSE row[y]]

\* The new cover is linked and the one the event had is released.
Relinked(e, x) ==
  [y \in Uploads |->
     CASE y = x -> [row[y] EXCEPT !.event = e]
       [] y # x /\ y = cover[e] /\ row[y] # None /\ row[y].event = e ->
            [row[y] EXCEPT !.event = None]
       [] OTHER -> row[y]]

Expired(x) == row[x] # None /\ row[x].event = None /\ row[x].created < clock - MaxAge

Set(e, x) ==
  /\ row' = Relinked(e, x)
  /\ cover' = [cover EXCEPT ![e] = x]
  /\ late' = late \cup {y \in {x} \cap Uploads : Expired(y)}
  /\ UNCHANGED <<clock, object, upload, workers>>

\* A client knows the URLs of the uploads that succeeded.
Known == {x \in Uploads : upload[x] = "known"}

\* Repository.Create.  The id of a deleted event stands for the next event too.
CreateEvent(e) ==
  /\ e \notin exists
  /\ exists' = exists \cup {e}
  /\ \E x \in Known \cup {None} : (x # None => MayAttach(x, e, FALSE)) /\ Set(e, x)

\* Repository.update.
EditCover(e) ==
  /\ e \in exists
  /\ \E x \in (Known \cup {None}) \ {cover[e]}, admin \in BOOLEAN :
       /\ x # None => MayAttach(x, e, admin)
       /\ Set(e, x)
  /\ UNCHANGED exists

Released(e) ==
  [x \in Uploads |-> IF row[x] # None /\ row[x].event = e
                     THEN [row[x] EXCEPT !.event = None] ELSE row[x]]

\* Repository.Delete: image_url is kept in the row.
DeleteEvent(e) ==
  /\ e \in exists
  /\ exists' = exists \ {e}
  /\ row' = Released(e)
  /\ UNCHANGED <<clock, object, cover, late, upload, workers>>

-----------------------------------------------------------------------------
(* CoverCleanupWorker. *)

\* Variant: the age of an upload is not looked at.
UnlinkedUploads == {x \in Uploads : row[x] # None /\ row[x].event = None}

\* ExpiredCoverUploads, before its ORDER BY and LIMIT.
ExpiredUploads == {x \in Uploads : Expired(x)}

Idle(w) == list[w] = {} /\ erased[w] = None

\* The oldest expired uploads are listed.
List(w) ==
  /\ Idle(w)
  /\ \E batch \in SUBSET ExpiredUploads :
       /\ batch # {} /\ Cardinality(batch) <= Batch
       /\ Cardinality(batch) < Batch => batch = ExpiredUploads
       /\ \A x \in batch, y \in ExpiredUploads \ batch : row[x].created <= row[y].created
       /\ list' = [list EXCEPT ![w] = batch]
  /\ UNCHANGED <<clock, object, handlers, upload, erased>>

RemoveObject(w) ==
  /\ erased[w] = None
  /\ \E x \in list[w] :
       /\ object' = object \ {x}
       /\ erased' = [erased EXCEPT ![w] = x]
       /\ list' = [list EXCEPT ![w] = @ \ {x}]
  /\ UNCHANGED <<clock, handlers, upload>>

\* The store reports an error, whether or not it has removed the object: the row is kept.
RemoveObjectFails(w) ==
  /\ erased[w] = None
  /\ \E x \in list[w] :
       /\ object' \in {object, object \ {x}}
       /\ list' = [list EXCEPT ![w] = @ \ {x}]
  /\ UNCHANGED <<clock, handlers, upload, erased>>

\* Variant: DELETE without "event_id IS NULL".
DeletedAnyway(x) == [row EXCEPT ![x] = None]

\* DeleteCoverUpload: a row that has been linked meanwhile is kept.
Deleted(x) ==
  IF row[x] # None /\ row[x].event = None THEN [row EXCEPT ![x] = None] ELSE row

DeleteRow(w) ==
  /\ erased[w] # None
  /\ row' = Deleted(erased[w])
  /\ erased' = [erased EXCEPT ![w] = None]
  /\ UNCHANGED <<clock, object, cover, exists, late, upload, list>>

\* The DELETE fails and is logged, or the process crashes.
StopWorker(w) ==
  /\ ~Idle(w)
  /\ erased' = [erased EXCEPT ![w] = None]
  /\ list' \in {list, [list EXCEPT ![w] = {}]}
  /\ UNCHANGED <<clock, object, handlers, upload>>

Next ==
  \/ Tick
  \/ \E x \in Uploads : Put(x) \/ PutFails(x) \/ Insert(x) \/ InsertFails(x) \/ Discard(x)
                          \/ CrashUpload(x)
  \/ \E e \in Events : CreateEvent(e) \/ EditCover(e) \/ DeleteEvent(e)
  \/ \E w \in Workers : List(w) \/ RemoveObject(w) \/ RemoveObjectFails(w) \/ DeleteRow(w)
                          \/ StopWorker(w)

Spec == Init /\ [][Next]_vars

-----------------------------------------------------------------------------
(* Properties. *)

\* The tables, the store and the workers' lists have the shape the code gives them.
TypeOK ==
  /\ clock \in 0..LastInstant
  /\ object \subseteq Uploads /\ late \subseteq Uploads /\ exists \subseteq Events
  /\ row \in [Uploads -> UploadRow \cup {None}]
  /\ cover \in [Events -> Uploads \cup {None}]
  /\ upload \in [Uploads -> Steps]
  /\ list \in [Workers -> SUBSET Uploads]
  /\ erased \in [Workers -> Uploads \cup {None}]

\* events.image_url and event_uploads.event_id tell the same story, also while workers delete
\* rows: the cover of an event is an upload linked to it, and no other upload is.
CoverIsLinked ==
  \A e \in Events :
    {x \in Uploads : row[x] # None /\ row[x].event = e}
      = IF e \in exists THEN {cover[e]} \ {None} ELSE {}

\* A cover linked before it expired has its object, whatever uploads and workers do.
PromptCoverExists ==
  \A e \in exists : cover[e] # None /\ cover[e] \notin late => cover[e] \in object

\* openapi.yaml: the URL of an upload may be used in an event, and it is the unlinked uploads
\* that expire.
CoverExists == \A e \in exists : cover[e] # None => cover[e] \in object
=============================================================================
