------------------------------ MODULE Reports ------------------------------
(***************************************************************************)
(* internal/reports: a complaint about a user, a company or an event, its  *)
(* resolution by one of several administrators, and the pages in which one *)
(* of them walks through the list.                                         *)
(***************************************************************************)
EXTENDS Pagination, FiniteSets

CONSTANTS
  Reports,    \* bound: complaints ever sent
  Target,     \* what each is about: "company", "event or user", or "nothing" that exists
  Attended,   \* bound: complaints the administrators ever decide on
  Admins,
  NoAdmin,    \* resolved_by IS NULL
  PageSize,   \* the limit the walk asks for
  LastDate    \* bound of the clock

ASSUME ReportAssumption ==
  IsFiniteSet(Reports) /\ Attended \subseteq Reports /\ PageSize \in Int /\ LastDate \in Nat

VARIABLES
  date,       \* time.Now()
  report,     \* the rows of reports, and how far the POST of the others is
  ids,        \* the number of ids drawn
  deciding,   \* the report each administrator's transaction has locked
  told,       \* history: the reports each administrator was told to have resolved
  walk        \* the walk through the list

reportVars == <<date, report, ids, deciding, told, walk>>

Decisions == {"resolved", "rejected"}
Statuses == {"pending"} \cup Decisions

\* The query of the list: one status, or none for all of them.
Filters == {Statuses} \cup {{s} : s \in Statuses}

\* A walk that has not begun.
NoWalk == [step |-> "none", filter |-> Statuses, page |-> 1, wanted |-> {}, shown |-> {},
           shrunk |-> FALSE]

ReportInit ==
  /\ date = 0
  /\ report = [r \in Reports |-> [status |-> "new", created |-> 0, id |-> 0, by |-> NoAdmin]]
  /\ ids = 0
  /\ deciding = [a \in Admins |-> {}]
  /\ told = [a \in Admins |-> {}]
  /\ walk = NoWalk

-----------------------------------------------------------------------------
(* Create. *)

\* Whether targetExists finds it: a deleted event is still found, a company may be deleted.
TargetExists(r) ==
  CASE Target[r] = "event or user" -> {TRUE}
    [] Target[r] = "company" -> BOOLEAN
    [] Target[r] = "nothing" -> {FALSE}

\* The service samples now; then the repository looks for the target.
LookForTarget(r) ==
  /\ report[r].status = "new"
  /\ \E now \in 0..date, exists \in TargetExists(r) :
       report' = [report EXCEPT ![r].status = IF exists THEN "found" ELSE "refused",
                                ![r].created = IF exists THEN now ELSE 0]
  /\ UNCHANGED <<date, ids, deciding, told, walk>>

InsertReport(r) ==
  /\ report[r].status = "found"
  /\ ids' = ids + 1
  /\ report' = [report EXCEPT ![r].status = "pending", ![r].id = ids + 1]
  /\ UNCHANGED <<date, deciding, told, walk>>

-----------------------------------------------------------------------------
(* Resolve. *)

\* Variant: SELECT without FOR UPDATE.
AnyoneDecides(r) == r \in Reports

Undecided(r) == \A a \in Admins : r \notin deciding[a]

\* A report that is no longer pending is refused: ErrAlreadyResolved.
LockReport(a, r) ==
  /\ r \in Attended /\ deciding[a] = {}
  /\ Undecided(r)
  /\ report[r].status = "pending"
  /\ deciding' = [deciding EXCEPT ![a] = {r}]
  /\ UNCHANGED <<date, report, ids, told, walk>>

\* Status, administrator and instant in one UPDATE.
ResolveReport(a, r) ==
  /\ r \in deciding[a]
  /\ \E decision \in Decisions :
       report' = [report EXCEPT ![r].status = decision, ![r].by = a]
  /\ told' = [told EXCEPT ![a] = @ \cup {r}]
  /\ deciding' = [deciding EXCEPT ![a] = {}]
  /\ walk' = [walk EXCEPT !.shrunk = @ \/ walk.filter = {"pending"}]
  /\ UNCHANGED <<date, ids>>

ResolveFails(a) ==
  /\ deciding[a] # {}
  /\ deciding' = [deciding EXCEPT ![a] = {}]
  /\ UNCHANGED <<date, report, ids, told, walk>>

-----------------------------------------------------------------------------
(* ListAdmin: all reports or those of one status, the newest first, then their number. *)

Listed == {r \in Reports : report[r].status \in walk.filter}

\* ORDER BY created_at DESC, id DESC.
Precedes(q, r) ==
  \/ report[q].created > report[r].created
  \/ report[q].created = report[r].created /\ report[q].id > report[r].id

Rank(r) == Cardinality({q \in Listed : Precedes(q, r)})

BeginWalk ==
  /\ walk.step = "none"
  /\ \E filter \in Filters :
       walk' = [NoWalk EXCEPT !.step = "items", !.filter = filter,
                  !.wanted = {r \in Reports : report[r].status \in filter}]
  /\ UNCHANGED <<date, report, ids, deciding, told>>

\* LIMIT and OFFSET of the page the walk is at.
ReadPage ==
  /\ walk.step = "items"
  /\ \E p \in Parse(walk.page, PageSize) :
       walk' = [walk EXCEPT !.step = "total",
                  !.shown = @ \cup {r \in Listed : Rank(r) \in Offset(p)..(Offset(p) + p.limit - 1)}]
  /\ UNCHANGED <<date, report, ids, deciding, told>>

\* SELECT count(*), a statement of its own; the reader goes on to the last page there is.
ReadTotal ==
  /\ walk.step = "total"
  /\ \E p \in Parse(walk.page, PageSize) :
       walk' = IF walk.page < TotalPages(p, Cardinality(Listed))
               THEN [walk EXCEPT !.step = "items", !.page = @ + 1]
               ELSE [walk EXCEPT !.step = "over"]
  /\ UNCHANGED <<date, report, ids, deciding, told>>

-----------------------------------------------------------------------------

ReportTick ==
  /\ date < LastDate
  /\ date' = date + 1
  /\ UNCHANGED <<report, ids, deciding, told, walk>>

ReportNext ==
  \/ \E r \in Reports : LookForTarget(r) \/ InsertReport(r)
  \/ \E a \in Admins, r \in Reports : LockReport(a, r) \/ ResolveReport(a, r)
  \/ \E a \in Admins : ResolveFails(a)
  \/ BeginWalk \/ ReadPage \/ ReadTotal \/ ReportTick

ReportSpec == ReportInit /\ [][ReportNext]_reportVars

-----------------------------------------------------------------------------
(* Properties. *)

ReportTypeOK ==
  /\ date \in 0..LastDate
  /\ report \in [Reports -> [status : {"new", "found", "refused"} \cup Statuses, created : 0..LastDate,
                             id : 0..Cardinality(Reports), by : Admins \cup {NoAdmin}]]
  /\ ids \in 0..Cardinality(Reports)
  /\ deciding \in [Admins -> SUBSET Reports] /\ told \in [Admins -> SUBSET Reports]
  /\ walk \in [step : {"none", "items", "total", "over"}, filter : Filters,
               page : 1..Cardinality(Reports) + 1, wanted : SUBSET Reports,
               shown : SUBSET Reports, shrunk : BOOLEAN]

\* Two administrators are never both told to have resolved one report, whatever they decide at
\* once, and the row names the one who was (Resolve).
ReportIsResolvedOnce ==
  \A r \in Reports, a \in Admins : r \in told[a] =>
    report[r].by = a /\ report[r].status \in Decisions

\* Whoever reads page after page sees every report there was at the beginning, though others are
\* created meanwhile, also with an earlier created_at, and though items and total are counted in
\* two statements; only resolving pending reports shrinks a list of pending ones under the reader.
WalkMissesNone ==
  walk.step = "over" /\ ~walk.shrunk => walk.wanted \subseteq walk.shown
=============================================================================
