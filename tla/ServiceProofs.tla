---------------------------- MODULE ServiceProofs ----------------------------
(***************************************************************************)
(* Components that share no state with the rest, and their composition.    *)
(*   Pagination: the offset of a page is exact, in integers of any width.  *)
(*   Reports: a report is resolved once, and a walk through the list       *)
(*   misses none, for any number of reports, administrators and pages.     *)
(*   RateLimiter: a client is admitted at most three windows' worth in a   *)
(*   window's length, and refused only when it has used up the limit.      *)
(*   Services: a behaviour of the composition is one of every component.   *)
(***************************************************************************)
EXTENDS Services, AccountProofs, FiniteSetTheorems, SequenceTheorems, TLAPS

\* An integer within the width is what it is.
LEMMA NarrowIsExact ==
  ASSUME NEW n \in 0..MaxInt
  PROVE  Wrapped(n) = n
<1>1. n + MaxInt + 1 \in 0..(2 * (MaxInt + 1) - 1)
  BY PaginationAssumption
<1>2. \A m \in Nat \ {0} : \A k \in 0..(m - 1) : k % m = k
  OBVIOUS
<1>3. (n + MaxInt + 1) % (2 * (MaxInt + 1)) = n + MaxInt + 1
  BY <1>1, <1>2, PaginationAssumption
<1> QED
  BY <1>3, PaginationAssumption DEF Wrapped

\* The check of Parse: a quotient that is not exceeded bounds the product.
LEMMA QuotientBounds ==
  ASSUME NEW k \in Nat, NEW limit \in Nat \ {0}, k <= MaxInt \div limit
  PROVE  k * limit \in 0..MaxInt
<1>1. (MaxInt \div limit) * limit <= MaxInt
  BY PaginationAssumption
<1>2. MaxInt \div limit \in Nat
  BY PaginationAssumption
<1>3. k * limit <= (MaxInt \div limit) * limit
  BY <1>2
<1>4. k * limit \in Nat /\ (MaxInt \div limit) * limit \in Nat
  BY <1>2
<1> QED
  BY <1>1, <1>3, <1>4, PaginationAssumption

\* Whatever page and limit a client sends, those that Parse accepts have an offset that does not
\* wrap around, so that no page is read at a negative or a wrong place (pagination.Parse).
THEOREM OffsetIsExact ==
  ASSUME NEW rawPage \in Int, NEW rawLimit \in Int, NEW p \in Parse(rawPage, rawLimit)
  PROVE  Offset(p) = (p.page - 1) * p.limit /\ Offset(p) \in 0..MaxInt
<1> DEFINE page == ParsePositive(rawPage, 0)
           limit == ParsePositive(rawLimit, MaxLimit)
<1>1. p = [page |-> page, limit |-> limit] /\ Accepts(page, limit)
  BY DEF Parse
<1>2. page \in Nat /\ limit \in Nat
  BY DEF ParsePositive
<1>3. page - 1 \in Nat /\ limit \in Nat \ {0} /\ page - 1 <= MaxInt \div limit
  BY <1>1, <1>2 DEF Accepts
<1>4. (page - 1) * limit \in 0..MaxInt
  BY <1>3, QuotientBounds
<1> QED
  BY <1>1, <1>4, NarrowIsExact DEF Offset

-----------------------------------------------------------------------------

\* The row lock: a report under decision is pending, and one administrator's.
DecidingIsAlone ==
  \A a \in Admins, r \in Reports : r \in deciding[a] =>
    /\ report[r].status = "pending"
    /\ \A b \in Admins : r \in deciding[b] => b = a

ReportRow == [status : {"new", "found", "refused"} \cup Statuses, created : Int, id : Int,
        by : Admins \cup {NoAdmin}]

ReportRows == [Reports -> ReportRow]

ReportInv ==
  /\ date \in Int /\ ids \in Int
  /\ report \in ReportRows
  /\ deciding \in [Admins -> SUBSET Reports] /\ told \in [Admins -> SUBSET Reports]
  /\ DecidingIsAlone /\ ReportIsResolvedOnce

\* A row stays a row when columns of it are written.
LEMMA WrittenRow ==
  ASSUME NEW row \in ReportRow, NEW status \in {"new", "found", "refused"} \cup Statuses,
         NEW n \in Int
  PROVE  /\ [row EXCEPT !.status = status, !.created = n] \in ReportRow
         /\ [row EXCEPT !.status = status, !.id = n] \in ReportRow
         /\ \A a \in Admins : [row EXCEPT !.status = status, !.by = a] \in ReportRow
BY DEF ReportRow

\* It holds before the first report.
LEMMA InitReportInv == ReportInit => ReportInv
BY DEF ReportInit, ReportInv, ReportRows, ReportRow, DecidingIsAlone, ReportIsResolvedOnce, Statuses

\* Each step of a report, an administrator or a reader preserves it.
LEMMA NextReportInv == ReportInv /\ [ReportNext]_reportVars => ReportInv'
<1> SUFFICES ASSUME ReportInv, [ReportNext]_reportVars PROVE ReportInv'
  OBVIOUS
<1> USE DEF ReportInv, ReportRows, Statuses, Decisions, DecidingIsAlone, ReportIsResolvedOnce
<1>1. ASSUME NEW r \in Reports, LookForTarget(r) PROVE ReportInv'
  <2>1. PICK now \in 0..date, exists \in TargetExists(r) :
          report' = [report EXCEPT ![r].status = IF exists THEN "found" ELSE "refused",
                                   ![r].created = IF exists THEN now ELSE 0]
    BY <1>1 DEF LookForTarget
  <2>2. report' \in ReportRows
    <3> DEFINE row == [report[r] EXCEPT !.status = IF exists THEN "found" ELSE "refused",
                                        !.created = IF exists THEN now ELSE 0]
    <3>1. row \in ReportRow
      <4>1. report[r] \in ReportRow /\ (IF exists THEN now ELSE 0) \in Int
        OBVIOUS
      <4> HIDE DEF ReportInv
      <4> QED
        BY <4>1, WrittenRow
    <3>2. report' = [report EXCEPT ![r] = row]
      BY <2>1
    <3> QED
      BY <3>1, <3>2
  <2> QED
    BY <1>1, <2>1, <2>2 DEF LookForTarget
<1>2. ASSUME NEW r \in Reports, InsertReport(r) PROVE ReportInv'
  <2>1. report' \in ReportRows
    <3> DEFINE row == [report[r] EXCEPT !.status = "pending", !.id = ids + 1]
    <3>1. row \in ReportRow
      <4>1. report[r] \in ReportRow /\ ids + 1 \in Int
        OBVIOUS
      <4> HIDE DEF ReportInv
      <4> QED
        BY <4>1, WrittenRow
    <3>2. report' = [report EXCEPT ![r] = row]
      BY <1>2 DEF InsertReport
    <3> QED
      BY <3>1, <3>2
  <2> QED
    BY <1>2, <2>1 DEF InsertReport
<1>3. ASSUME NEW a \in Admins, NEW r \in Reports, LockReport(a, r) PROVE ReportInv'
  BY <1>3 DEF LockReport, Undecided
<1>4. ASSUME NEW a \in Admins, NEW r \in Reports, ResolveReport(a, r) PROVE ReportInv'
  <2>1. PICK decision \in Decisions :
          report' = [report EXCEPT ![r].status = decision, ![r].by = a]
    BY <1>4 DEF ResolveReport
  <2>2. report' \in ReportRows
    <3> DEFINE row == [report[r] EXCEPT !.status = decision, !.by = a]
    <3>1. row \in ReportRow
      BY WrittenRow
    <3>2. report' = [report EXCEPT ![r] = row]
      BY <2>1
    <3> QED
      BY <3>1, <3>2
  <2>3. \A q \in Reports : q # r => report'[q] = report[q]
    BY <2>1
  <2>4. report'[r].by = a /\ report'[r].status \in Decisions
    BY <2>1
  <2>5. DecidingIsAlone'
    BY <1>4, <2>3 DEF ResolveReport
  <2>6. ReportIsResolvedOnce'
    BY <1>4, <2>3, <2>4 DEF ResolveReport
  <2> QED
    BY <1>4, <2>2, <2>5, <2>6 DEF ResolveReport
<1>5. ASSUME NEW a \in Admins, ResolveFails(a) PROVE ReportInv'
  BY <1>5 DEF ResolveFails
<1>6. CASE BeginWalk \/ ReadPage \/ ReadTotal \/ ReportTick
  <2>1. UNCHANGED <<report, ids, deciding, told>> /\ date' \in Int
    <3>1. CASE BeginWalk
      BY <3>1 DEF BeginWalk
    <3>2. CASE ReadPage
      BY <3>2 DEF ReadPage
    <3>3. CASE ReadTotal
      BY <3>3 DEF ReadTotal
    <3>4. CASE ReportTick
      BY <3>4 DEF ReportTick
    <3> QED
      BY <1>6, <3>1, <3>2, <3>3, <3>4
  <2> QED
    BY <2>1
<1>7. CASE UNCHANGED reportVars
  BY <1>7 DEF reportVars
<1> QED
  BY <1>1, <1>2, <1>3, <1>4, <1>5, <1>6, <1>7 DEF ReportNext

\* Two administrators who decide at once are not both told that they have resolved a report, and
\* the row names the one who was told (Resolve).
THEOREM ReportsAreResolvedOnce == ReportSpec => []ReportIsResolvedOnce
<1>1. ReportInv => ReportIsResolvedOnce
  BY DEF ReportInv
<1> QED
  BY <1>1, InitReportInv, NextReportInv, PTL DEF ReportSpec

-----------------------------------------------------------------------------
(* The walk through the list. *)

\* The pages that have been read.
Read == IF walk.step = "items" THEN walk.page - 1 ELSE walk.page

\* What was there at the beginning is still listed, and whatever of it the reader has not seen
\* is behind the pages that have been read.
UnshownIsAhead ==
  walk.step \in {"items", "total"} /\ ~walk.shrunk =>
    /\ walk.wanted \subseteq Listed
    /\ \A r \in walk.wanted \ walk.shown : Rank(r) >= Read * PageSize

WalkShape ==
  walk \in [step : {"none", "items", "total", "over"}, filter : Filters,
            page : Nat \ {0}, wanted : SUBSET Reports, shown : SUBSET Reports, shrunk : BOOLEAN]

WalkInv == ReportInv /\ WalkShape /\ UnshownIsAhead /\ WalkMissesNone

\* A listed report is not before itself.
LEMMA RankIsBelow ==
  ASSUME NEW r \in Listed, ReportInv
  PROVE  /\ IsFiniteSet(Listed) /\ Cardinality(Listed) \in Nat
         /\ Rank(r) \in Nat /\ Rank(r) < Cardinality(Listed)
<1> DEFINE before == {q \in Listed : Precedes(q, r)}
<1>1. IsFiniteSet(Listed)
  BY ReportAssumption, FS_Subset DEF Listed
<1>2. report[r].created \in Int /\ report[r].id \in Int
  BY DEF ReportInv, ReportRows, ReportRow, Listed
<1>3. before \subseteq Listed \ {r}
  BY <1>2 DEF Precedes
<1>4. IsFiniteSet(Listed \ {r}) /\ Cardinality(Listed \ {r}) = Cardinality(Listed) - 1
  BY <1>1, FS_RemoveElement
<1>5. IsFiniteSet(before) /\ Cardinality(before) <= Cardinality(Listed \ {r})
  BY <1>3, <1>4, FS_Subset
<1>6. Cardinality(Listed) \in Nat /\ Cardinality(before) \in Nat
  BY <1>1, <1>5, FS_CardinalityType
<1>7. Rank(r) = Cardinality(before)
  BY DEF Rank
<1> HIDE DEF before
<1> QED
  BY <1>1, <1>4, <1>5, <1>6, <1>7

\* While nothing is taken from the list, the ranks only grow.
LEMMA RankGrows ==
  ASSUME ReportInv, ReportInv', NEW r \in Listed, Listed \subseteq Listed',
         \A q \in Listed : report'[q].created = report[q].created /\ report'[q].id = report[q].id
  PROVE  Rank(r)' >= Rank(r) /\ Rank(r)' \in Nat /\ Rank(r) \in Nat
<1> DEFINE before == {q \in Listed : Precedes(q, r)}
           after == {q \in Listed' : Precedes(q, r)'}
<1>1. before \subseteq after
  BY DEF Precedes
<1>2. IsFiniteSet(after) /\ IsFiniteSet(before)
  BY ReportAssumption, FS_Subset DEF Listed
<1>3. Cardinality(before) <= Cardinality(after)
  BY <1>1, <1>2, FS_Subset
<1>4. Cardinality(before) \in Nat /\ Cardinality(after) \in Nat
  BY <1>2, FS_CardinalityType
<1>5. Rank(r) = Cardinality(before) /\ Rank(r)' = Cardinality(after)
  BY DEF Rank
<1> HIDE DEF before, after
<1> QED
  BY <1>3, <1>4, <1>5

\* A product grows with its factor.
LEMMA ProductGrows ==
  ASSUME NEW limit \in Nat, NEW m \in Nat, NEW n \in Nat, m <= n
  PROVE  m * limit <= n * limit
<1>1. n * limit = m * limit + (n - m) * limit
  OBVIOUS
<1>2. (n - m) * limit \in Nat /\ m * limit \in Nat
  <2>1. n - m \in Nat
    OBVIOUS
  <2> QED
    BY <2>1
<1> QED
  BY <1>1, <1>2

\* A quotient and its rest.
LEMMA Division ==
  ASSUME NEW limit \in Nat \ {0}, NEW total \in Nat
  PROVE  /\ total \div limit \in Nat /\ total % limit \in 0..(limit - 1)
         /\ total = (total \div limit) * limit + (total % limit)
<1>1. total \div limit \in Nat /\ total % limit \in 0..(limit - 1)
  OBVIOUS
<1>2. total = limit * (total \div limit) + (total % limit)
  OBVIOUS
<1>3. limit * (total \div limit) = (total \div limit) * limit
  BY <1>1
<1> QED
  BY <1>1, <1>2, <1>3

\* The same with names for the two.
LEMMA Quotient ==
  ASSUME NEW limit \in Nat \ {0}, NEW total \in Nat
  PROVE  \E full \in Nat, rest \in 0..(limit - 1) :
           full = total \div limit /\ rest = total % limit /\ total = full * limit + rest
<1>1. /\ total \div limit \in Nat /\ total % limit \in 0..(limit - 1)
      /\ total = (total \div limit) * limit + (total % limit)
  BY Division
<1>2. WITNESS total \div limit \in Nat, total % limit \in 0..(limit - 1)
<1> QED
  BY <1>1

\* The pages of NewResponse hold the whole list.
LEMMA PagesSuffice ==
  ASSUME NEW p, NEW limit \in Nat \ {0}, p.limit = limit, NEW total \in Nat, NEW page \in Nat,
         ~(page < TotalPages(p, total))
  PROVE  total <= page * limit
<1>1. PICK full \in Nat, rest \in 0..(limit - 1) :
        full = total \div limit /\ rest = total % limit /\ total = full * limit + rest
  BY Quotient
<1>2. ~(page < full + (IF rest # 0 THEN 1 ELSE 0))
  BY <1>1 DEF TotalPages
<1>3. full * limit \in Nat /\ page * limit \in Nat
  OBVIOUS
<1>4. CASE rest = 0
  <2>1. full * limit <= page * limit
    BY <1>2, <1>4, ProductGrows
  <2> QED
    BY <1>1, <1>3, <1>4, <2>1
<1>5. CASE rest # 0
  <2>1. (full + 1) * limit <= page * limit
    <3>1. full + 1 \in Nat /\ full + 1 <= page
      BY <1>2, <1>5
    <3> QED
      BY <3>1, ProductGrows
  <2>2. (full + 1) * limit = full * limit + limit
    OBVIOUS
  <2> QED
    BY <1>1, <1>3, <2>1, <2>2
<1> QED
  BY <1>4, <1>5

\* Parse keeps a page and a limit as they are, and the page's offset is exact.
LEMMA ParsedPage ==
  ASSUME NEW page \in Nat \ {0}, NEW p \in Parse(page, PageSize)
  PROVE  /\ p.limit = PageSize /\ PageSize \in Nat \ {0}
         /\ Offset(p) = (page - 1) * PageSize
<1>1. p = [page |-> ParsePositive(page, 0), limit |-> ParsePositive(PageSize, MaxLimit)]
        /\ p.page # 0 /\ p.limit # 0
  BY DEF Parse, Accepts
<1>2. p.page = page /\ p.limit = PageSize /\ PageSize \in Nat \ {0}
  BY <1>1, ReportAssumption DEF ParsePositive
<1>3. Offset(p) = (p.page - 1) * p.limit
  BY OffsetIsExact, ReportAssumption
<1> QED
  BY <1>2, <1>3

\* A step that leaves the walk alone and takes nothing from the list keeps what is ahead.
LEMMA ListGrows ==
  ASSUME WalkInv, ReportInv', walk' = walk,
         \A q \in Listed : /\ q \in Listed'
                           /\ report'[q].created = report[q].created /\ report'[q].id = report[q].id
  PROVE  WalkInv'
<1> SUFFICES ASSUME walk.step \in {"items", "total"}, ~walk.shrunk,
                    NEW r \in walk.wanted \ walk.shown
             PROVE  Rank(r)' >= Read * PageSize
  BY DEF WalkInv, WalkShape, UnshownIsAhead, WalkMissesNone, Read
<1>1. r \in Listed /\ Rank(r) >= Read * PageSize
  BY DEF WalkInv, UnshownIsAhead
<1>2. Rank(r)' >= Rank(r) /\ Rank(r)' \in Nat /\ Rank(r) \in Nat
  BY <1>1, RankGrows DEF WalkInv
<1>3. Read * PageSize \in Int
  BY ReportAssumption DEF WalkInv, WalkShape, Read
<1> HIDE DEF Rank
<1> QED
  BY <1>1, <1>2, <1>3

\* Nothing is listed before the first report.
LEMMA InitWalkInv == ReportInit => WalkInv
BY InitReportInv
   DEF ReportInit, WalkInv, WalkShape, UnshownIsAhead, WalkMissesNone, NoWalk, Filters

\* Each step of a report, an administrator or a reader preserves it.
LEMMA NextWalkInv == WalkInv /\ [ReportNext]_reportVars => WalkInv'
<1> SUFFICES ASSUME WalkInv, [ReportNext]_reportVars PROVE WalkInv'
  OBVIOUS
<1>0. ReportInv /\ ReportInv'
  BY NextReportInv DEF WalkInv
<1>1. ASSUME NEW r \in Reports, LookForTarget(r) PROVE WalkInv'
  <2>1. r \notin Listed /\ walk' = walk
    BY <1>1 DEF LookForTarget, Listed, WalkInv, WalkShape, Filters, Statuses, Decisions
  <2>2. \A q \in Reports \ {r} : report'[q] = report[q]
    BY <1>0, <1>1 DEF LookForTarget, ReportInv, ReportRows
  <2>3. \A q \in Listed : q \in Listed' /\ report'[q] = report[q]
    BY <2>1, <2>2 DEF Listed
  <2> QED
    BY <1>0, <2>1, <2>3, ListGrows
<1>2. ASSUME NEW r \in Reports, InsertReport(r) PROVE WalkInv'
  <2>1. r \notin Listed /\ walk' = walk
    BY <1>2 DEF InsertReport, Listed, WalkInv, WalkShape, Filters, Statuses, Decisions
  <2>2. \A q \in Reports \ {r} : report'[q] = report[q]
    BY <1>0, <1>2 DEF InsertReport, ReportInv, ReportRows
  <2>3. \A q \in Listed : q \in Listed' /\ report'[q] = report[q]
    BY <2>1, <2>2 DEF Listed
  <2> QED
    BY <1>0, <2>1, <2>3, ListGrows
<1>3. ASSUME NEW a \in Admins, ResolveFails(a) \/ \E r \in Reports : LockReport(a, r) PROVE WalkInv'
  <2>1. UNCHANGED <<report, walk>>
    BY <1>3 DEF LockReport, ResolveFails
  <2> QED
    BY <1>0, <2>1, ListGrows DEF Listed
<1>4. ASSUME NEW a \in Admins, NEW r \in Reports, ResolveReport(a, r) PROVE WalkInv'
  <2>1. PICK decision \in Decisions :
          report' = [report EXCEPT ![r].status = decision, ![r].by = a]
    BY <1>4 DEF ResolveReport
  <2>2. walk' = [walk EXCEPT !.shrunk = @ \/ walk.filter = {"pending"}]
    BY <1>4 DEF ResolveReport
  <2>3. CASE walk.filter = {"pending"}
    BY <1>0, <2>2, <2>3 DEF WalkInv, WalkShape, UnshownIsAhead, WalkMissesNone
  <2>4. CASE walk.filter # {"pending"}
    <3>1. /\ walk' = walk /\ walk.filter \in Filters
          /\ "pending" \in walk.filter => walk.filter = Statuses
      BY <2>2, <2>4 DEF WalkInv, WalkShape, Filters, Statuses
    <3>2. \A q \in Reports : /\ report'[q].created = report[q].created /\ report'[q].id = report[q].id
                             /\ \/ report'[q].status = report[q].status
                                \/ report[q].status = "pending" /\ report'[q].status \in Decisions
      <4>1. report[r].status = "pending"
        BY <1>0, <1>4 DEF ResolveReport, ReportInv, DecidingIsAlone
      <4> QED
        BY <1>0, <2>1, <4>1 DEF ReportInv, ReportRows, ReportRow
    <3>3. \A q \in Listed : q \in Listed'
      BY <3>1, <3>2 DEF Listed, Statuses
    <3> QED
      BY <1>0, <3>1, <3>2, <3>3, ListGrows DEF Listed
  <2> QED
    BY <2>3, <2>4
<1>5. CASE BeginWalk
  <2>1. PICK filter \in Filters :
          walk' = [NoWalk EXCEPT !.step = "items", !.filter = filter,
                     !.wanted = {r \in Reports : report[r].status \in filter}]
    BY <1>5 DEF BeginWalk
  <2>2. /\ walk'.step = "items" /\ walk'.page = 1 /\ walk'.filter = filter
        /\ walk'.wanted = {r \in Reports : report[r].status \in filter}
        /\ report' = report /\ walk'.shown = {} /\ WalkShape'
    <3>1. {r \in Reports : report[r].status \in filter} \in SUBSET Reports
      OBVIOUS
    <3>2. PICK wanted \in SUBSET Reports : wanted = {r \in Reports : report[r].status \in filter}
      BY <3>1
    <3>3. walk' = [NoWalk EXCEPT !.step = "items", !.filter = filter, !.wanted = wanted]
      BY <2>1, <3>2
    <3>4. /\ walk'.step = "items" /\ walk'.page = 1 /\ walk'.filter = filter
          /\ walk'.wanted = wanted /\ walk'.shown = {} /\ WalkShape'
      <4>1. walk' = [step |-> "items", filter |-> filter, page |-> 1, wanted |-> wanted, shown |-> {},
                     shrunk |-> FALSE]
        BY <3>3 DEF NoWalk
      <4>2. WalkShape'
        BY <4>1 DEF WalkShape
      <4> QED
        BY <4>1, <4>2
    <3>5. report' = report
      BY <1>5 DEF BeginWalk
    <3> QED
      BY <3>2, <3>4, <3>5
  <2>3. walk'.wanted = Listed'
    BY <2>2 DEF Listed
  <2>4. ASSUME NEW r \in walk'.wanted PROVE Rank(r)' \in Nat
    BY <1>0, <2>3, RankGrows, RankIsBelow, FS_CardinalityType, FS_Subset, ReportAssumption
       DEF Rank, Listed
  <2>5. Read' * PageSize = 0
    BY <2>2, ReportAssumption DEF Read
  <2> QED
    BY <1>0, <2>2, <2>3, <2>4, <2>5 DEF WalkInv, UnshownIsAhead, WalkMissesNone
<1>6. CASE ReadPage
  <2>1. PICK p \in Parse(walk.page, PageSize) :
          walk' = [walk EXCEPT !.step = "total",
                     !.shown = @ \cup {r \in Listed : Rank(r) \in Offset(p)..(Offset(p) + p.limit - 1)}]
    BY <1>6 DEF ReadPage
  <2>2. /\ walk'.step = "total" /\ walk'.page = walk.page /\ walk'.filter = walk.filter
        /\ walk'.wanted = walk.wanted /\ walk'.shrunk = walk.shrunk
        /\ walk'.shown =
             walk.shown \cup {r \in Listed : Rank(r) \in Offset(p)..(Offset(p) + p.limit - 1)}
        /\ report' = report /\ walk.step = "items" /\ WalkShape'
    BY <1>6, <2>1 DEF ReadPage, WalkInv, WalkShape, Listed
  <2>3. \A r \in Reports : Rank(r)' = Rank(r)
    BY <2>2 DEF Rank, Listed, Precedes
  <2>4. Listed' = Listed
    BY <2>2 DEF Listed
  <2>5. p.limit = PageSize /\ PageSize \in Nat \ {0} /\ Offset(p) = (walk.page - 1) * PageSize
    BY ParsedPage DEF WalkInv, WalkShape
  <2>6. ASSUME ~walk.shrunk, NEW r \in walk.wanted \ walk'.shown
        PROVE  Rank(r) >= walk.page * PageSize
    <3>1. r \in Listed /\ Rank(r) >= (walk.page - 1) * PageSize
      BY <2>2, <2>6 DEF WalkInv, UnshownIsAhead, Read
    <3>2. Rank(r) \in Nat /\ walk.page \in Nat \ {0}
      BY <1>0, <3>1, RankIsBelow DEF WalkInv, WalkShape
    <3>3. (walk.page - 1) * PageSize + PageSize = walk.page * PageSize
      BY <2>5, <3>2
    <3>4. (walk.page - 1) * PageSize \in Int /\ walk.page * PageSize \in Int
      BY <2>5, <3>2
    <3>5. Rank(r) \notin Offset(p)..(Offset(p) + p.limit - 1)
      BY <2>2, <2>6, <3>1
    <3> QED
      BY <2>5, <3>1, <3>2, <3>3, <3>4, <3>5
  <2>7. Read' = walk.page
    BY <2>2 DEF Read
  <2> QED
    BY <1>0, <2>2, <2>3, <2>4, <2>6, <2>7 DEF WalkInv, WalkShape, UnshownIsAhead, WalkMissesNone
<1>7. CASE ReadTotal
  <2>1. PICK p \in Parse(walk.page, PageSize) :
          walk' = IF walk.page < TotalPages(p, Cardinality(Listed))
                  THEN [walk EXCEPT !.step = "items", !.page = @ + 1]
                  ELSE [walk EXCEPT !.step = "over"]
    BY <1>7 DEF ReadTotal
  <2>2. /\ walk'.filter = walk.filter /\ walk'.wanted = walk.wanted /\ walk'.shrunk = walk.shrunk
        /\ walk'.shown = walk.shown /\ report' = report /\ walk.step = "total" /\ WalkShape'
    <3>1. walk.page + 1 \in Nat \ {0}
      BY DEF WalkInv, WalkShape
    <3>2. /\ [walk EXCEPT !.step = "items", !.page = walk.page + 1] \in
                [step : {"none", "items", "total", "over"}, filter : Filters,
                 page : Nat \ {0}, wanted : SUBSET Reports, shown : SUBSET Reports, shrunk : BOOLEAN]
          /\ [walk EXCEPT !.step = "over"] \in
                [step : {"none", "items", "total", "over"}, filter : Filters,
                 page : Nat \ {0}, wanted : SUBSET Reports, shown : SUBSET Reports, shrunk : BOOLEAN]
      BY <3>1 DEF WalkInv, WalkShape
    <3>3. walk.step = "total" /\ report' = report
      BY <1>7 DEF ReadTotal
    <3>4. CASE walk' = [walk EXCEPT !.step = "items", !.page = walk.page + 1]
      BY <3>2, <3>3, <3>4 DEF WalkInv, WalkShape
    <3>5. CASE walk' = [walk EXCEPT !.step = "over"]
      BY <3>2, <3>3, <3>5 DEF WalkInv, WalkShape
    <3> QED
      BY <2>1, <3>4, <3>5
  <2>3. Listed' = Listed /\ \A r \in Reports : Rank(r)' = Rank(r)
    BY <2>2 DEF Rank, Listed, Precedes
  <2>4. p.limit = PageSize /\ PageSize \in Nat \ {0} /\ walk.page \in Nat \ {0}
    BY ParsedPage DEF WalkInv, WalkShape
  <2>5. ~walk.shrunk => walk.wanted \subseteq Listed
          /\ \A r \in walk.wanted \ walk.shown : Rank(r) >= walk.page * PageSize
    BY <2>2 DEF WalkInv, UnshownIsAhead, Read
  <2>6. CASE walk.page < TotalPages(p, Cardinality(Listed))
    <3>1. walk'.step = "items" /\ walk'.page = walk.page + 1
      BY <2>1, <2>6 DEF WalkInv, WalkShape
    <3>2. Read' = walk.page
      BY <2>4, <3>1 DEF Read
    <3> QED
      BY <1>0, <2>2, <2>3, <2>5, <3>1, <3>2 DEF WalkInv, WalkShape, UnshownIsAhead, WalkMissesNone
  <2>7. CASE ~(walk.page < TotalPages(p, Cardinality(Listed)))
    <3>1. walk'.step = "over"
      BY <2>1, <2>7 DEF WalkInv, WalkShape
    <3>2. ASSUME ~walk.shrunk, NEW r \in walk.wanted \ walk.shown PROVE FALSE
      <4>1. r \in Listed /\ Rank(r) >= walk.page * PageSize
        BY <2>5, <3>2
      <4>2. Cardinality(Listed) \in Nat /\ Rank(r) \in Nat /\ Rank(r) < Cardinality(Listed)
        BY <1>0, <4>1, RankIsBelow
      <4>3. Cardinality(Listed) <= walk.page * PageSize
        BY <2>4, <2>7, <4>2, PagesSuffice, ReportAssumption
      <4>4. walk.page * PageSize \in Int
        BY <2>4
      <4> QED
        BY <4>1, <4>2, <4>3, <4>4
    <3> QED
      BY <1>0, <2>2, <3>1, <3>2 DEF WalkInv, WalkShape, UnshownIsAhead, WalkMissesNone
  <2> QED
    BY <2>6, <2>7
<1>8. CASE ReportTick \/ UNCHANGED reportVars
  <2>1. UNCHANGED <<report, walk>>
    BY <1>8 DEF ReportTick, reportVars
  <2> QED
    BY <1>0, <2>1, ListGrows DEF Listed
<1> QED
  BY <1>1, <1>2, <1>3, <1>4, <1>5, <1>6, <1>7, <1>8 DEF ReportNext

\* Whoever reads page after page sees every report there was at the beginning, whatever is
\* created meanwhile, for any list, any page size and integers of any width (ListAdmin).
THEOREM WalksMissNone == ReportSpec => []WalkMissesNone
<1>1. WalkInv => WalkMissesNone
  BY DEF WalkInv
<1> QED
  BY <1>1, InitWalkInv, NextWalkInv, PTL DEF ReportSpec

-----------------------------------------------------------------------------
(* The types of a report's row and of the walk. *)

\* There are no more pages than there is to show.
LEMMA PagesAreFew ==
  ASSUME NEW p, NEW limit \in Nat \ {0}, p.limit = limit, NEW total \in Nat
  PROVE  TotalPages(p, total) <= total /\ TotalPages(p, total) \in Nat
<1>1. PICK full \in Nat, rest \in 0..(limit - 1) :
        full = total \div limit /\ rest = total % limit /\ total = full * limit + rest
  BY Quotient
<1>2. TotalPages(p, total) = full + (IF rest # 0 THEN 1 ELSE 0)
  BY <1>1 DEF TotalPages
<1>3. full * limit = full + full * (limit - 1)
  OBVIOUS
<1>4. full * (limit - 1) \in Nat
  <2>1. limit - 1 \in Nat
    OBVIOUS
  <2> QED
    BY <2>1
<1> QED
  BY <1>1, <1>2, <1>3, <1>4

\* The reports that have been inserted: each has drawn an id of its own.
Inserted == {r \in Reports : report[r].status \in Statuses}

\* No instant is of the future, no id beyond those drawn, and no page beyond the list's end.
ReportBounds ==
  /\ date \in 0..LastDate
  /\ ids \in Nat /\ ids <= Cardinality(Inserted)
  /\ \A r \in Reports : report[r].created \in 0..date /\ report[r].id \in 0..ids
  /\ walk.page \in 1..(Cardinality(Reports) + 1)

\* The inserted reports are as many as are left when the others are taken away.
LEMMA InsertedAreFew ==
  /\ IsFiniteSet(Inserted) /\ IsFiniteSet(Reports)
  /\ Cardinality(Inserted) \in Nat /\ Cardinality(Reports) \in Nat
  /\ Cardinality(Inserted) <= Cardinality(Reports)
  /\ IsFiniteSet(Listed) /\ Cardinality(Listed) \in Nat
  /\ Cardinality(Listed) <= Cardinality(Reports)
<1>1. Inserted \subseteq Reports /\ Listed \subseteq Reports
  BY DEF Inserted, Listed
<1> QED
  BY <1>1, ReportAssumption, FS_Subset, FS_CardinalityType

\* The rows and the walk of a step that inserts nothing keep their bounds.
LEMMA NothingInserted ==
  ASSUME WalkInv, ReportBounds, UNCHANGED <<date, ids>>, report' \in ReportRows,
         walk'.page \in 1..(Cardinality(Reports) + 1),
         \A r \in Reports :
           /\ report'[r].created \in 0..date /\ report'[r].id = report[r].id
           /\ report[r].status \in Statuses => report'[r].status \in Statuses
  PROVE  ReportBounds'
<1>1. Inserted \subseteq Inserted'
  BY DEF Inserted
<1>2. IsFiniteSet(Inserted') /\ Cardinality(Inserted') \in Nat
  <2>1. Inserted' \subseteq Reports
    BY DEF Inserted
  <2> QED
    BY <2>1, ReportAssumption, FS_Subset, FS_CardinalityType
<1>3. Cardinality(Inserted) <= Cardinality(Inserted')
  BY <1>1, <1>2, FS_Subset
<1>4. Cardinality(Inserted) \in Nat
  BY InsertedAreFew
<1> QED
  BY <1>2, <1>3, <1>4 DEF ReportBounds

\* It holds before the first report.
LEMMA InitReportBounds == ReportInit => ReportBounds
<1> SUFFICES ASSUME ReportInit PROVE ReportBounds
  OBVIOUS
<1>1. date = 0 /\ ids = 0 /\ walk.page = 1
  BY DEF ReportInit, NoWalk
<1>2. \A r \in Reports : report[r].created = 0 /\ report[r].id = 0
  BY DEF ReportInit
<1> QED
  BY <1>1, <1>2, InsertedAreFew, ReportAssumption DEF ReportBounds

\* Each step of a report, an administrator or a reader preserves it.
LEMMA NextReportBounds == WalkInv /\ ReportBounds /\ [ReportNext]_reportVars => ReportBounds'
<1> SUFFICES ASSUME WalkInv, ReportBounds, [ReportNext]_reportVars PROVE ReportBounds'
  OBVIOUS
<1>0. ReportInv /\ ReportInv'
  BY NextReportInv DEF WalkInv
<1>1. ASSUME NEW r \in Reports, LookForTarget(r) PROVE ReportBounds'
  <2>1. /\ UNCHANGED <<date, ids, walk>> /\ report[r].status = "new"
        /\ \A q \in Reports : report'[q].id = report[q].id
        /\ \A q \in Reports : report'[q].created \in 0..date
        /\ \A q \in Reports \ {r} : report'[q] = report[q]
    BY <1>0, <1>1 DEF LookForTarget, ReportInv, ReportRows, ReportRow, ReportBounds
  <2> QED
    BY <1>0, <2>1, NothingInserted DEF ReportInv, ReportBounds, Statuses, Decisions
<1>2. ASSUME NEW r \in Reports, InsertReport(r) PROVE ReportBounds'
  <2>1. /\ UNCHANGED <<date, walk>> /\ report[r].status = "found" /\ ids' = ids + 1
        /\ \A q \in Reports \ {r} : report'[q] = report[q]
        /\ report'[r].created = report[r].created /\ report'[r].id = ids'
        /\ report'[r].status = "pending"
    BY <1>0, <1>2 DEF InsertReport, ReportInv, ReportRows, ReportRow
  <2>2. Inserted' = Inserted \cup {r} /\ r \notin Inserted
    BY <2>1 DEF Inserted, Statuses, Decisions
  <2>3. Cardinality(Inserted') = Cardinality(Inserted) + 1
    BY <2>2, InsertedAreFew, FS_AddElement
  <2>4. Cardinality(Inserted) \in Nat
    BY InsertedAreFew
  <2> HIDE DEF Inserted
  <2> QED
    BY <2>1, <2>3, <2>4 DEF ReportBounds
<1>3. ASSUME NEW a \in Admins, NEW r \in Reports, ResolveReport(a, r) PROVE ReportBounds'
  <2>1. PICK decision \in Decisions :
          report' = [report EXCEPT ![r].status = decision, ![r].by = a]
    BY <1>3 DEF ResolveReport
  <2>2. /\ UNCHANGED <<date, ids>> /\ walk'.page = walk.page
        /\ \A q \in Reports : /\ report'[q].created = report[q].created
                              /\ report'[q].id = report[q].id
                              /\ report'[q].status \in {report[q].status, decision}
    BY <1>0, <1>3, <2>1 DEF ResolveReport, ReportInv, ReportRows, ReportRow, WalkInv, WalkShape
  <2> QED
    BY <1>0, <2>2, NothingInserted DEF ReportInv, ReportBounds, Statuses
<1>4. CASE UNCHANGED <<date, ids, report>> /\ walk'.page \in 1..(Cardinality(Reports) + 1)
  BY <1>0, <1>4, NothingInserted DEF ReportInv, ReportBounds
<1>5. ASSUME NEW a \in Admins, ResolveFails(a) \/ \E r \in Reports : LockReport(a, r)
      PROVE  ReportBounds'
  BY <1>4, <1>5 DEF ResolveFails, LockReport, ReportBounds
<1>6. CASE BeginWalk
  BY <1>4, <1>6, InsertedAreFew DEF BeginWalk, NoWalk
<1>7. CASE ReadPage
  BY <1>4, <1>7 DEF ReadPage, ReportBounds, WalkInv, WalkShape
<1>8. CASE ReadTotal
  <2>1. PICK p \in Parse(walk.page, PageSize) :
          walk' = IF walk.page < TotalPages(p, Cardinality(Listed))
                  THEN [walk EXCEPT !.step = "items", !.page = @ + 1]
                  ELSE [walk EXCEPT !.step = "over"]
    BY <1>8 DEF ReadTotal
  <2>2. p.limit = PageSize /\ PageSize \in Nat \ {0} /\ walk.page \in Nat \ {0}
    BY ParsedPage DEF WalkInv, WalkShape
  <2>3. PICK n \in Nat : n = TotalPages(p, Cardinality(Listed)) /\ n <= Cardinality(Reports)
    BY <2>2, PagesAreFew, InsertedAreFew
  <2>4. \/ walk'.page = walk.page
        \/ walk'.page = walk.page + 1 /\ walk.page < n
    <3>1. CASE walk.page < n
      BY <2>1, <2>3, <3>1 DEF WalkInv, WalkShape
    <3>2. CASE ~(walk.page < n)
      BY <2>1, <2>3, <3>2 DEF WalkInv, WalkShape
    <3> QED
      BY <3>1, <3>2
  <2>5. walk'.page \in 1..(Cardinality(Reports) + 1)
    BY <2>2, <2>3, <2>4, InsertedAreFew DEF ReportBounds
  <2> QED
    BY <1>4, <1>8, <2>5 DEF ReadTotal
<1>9. CASE ReportTick
  BY <1>9, ReportAssumption DEF ReportTick, ReportBounds, Inserted
<1>10. CASE UNCHANGED reportVars
  BY <1>4, <1>10 DEF reportVars, ReportBounds
<1> QED
  BY <1>1, <1>2, <1>3, <1>5, <1>6, <1>7, <1>8, <1>9, <1>10 DEF ReportNext

\* A report's row has the columns the code writes, with an instant of the past and an id that was
\* drawn, and the walk ends after no more pages than there are reports, and one.
THEOREM ReportTypeCorrect == ReportSpec => []ReportTypeOK
<1>1. WalkInv /\ ReportBounds => ReportTypeOK
  <2> SUFFICES ASSUME WalkInv, ReportBounds PROVE ReportTypeOK
    OBVIOUS
  <2>1. report \in [Reports -> [status : {"new", "found", "refused"} \cup Statuses,
                                created : 0..LastDate, id : 0..Cardinality(Reports),
                                by : Admins \cup {NoAdmin}]]
    BY InsertedAreFew, ReportAssumption
       DEF WalkInv, ReportInv, ReportRows, ReportRow, ReportBounds
  <2>2. ids \in 0..Cardinality(Reports)
    BY InsertedAreFew DEF ReportBounds
  <2> QED
    BY <2>1, <2>2 DEF WalkInv, WalkShape, ReportInv, ReportBounds, ReportTypeOK
<1> QED
  BY <1>1, InitWalkInv, NextWalkInv, InitReportBounds, NextReportBounds, PTL DEF ReportSpec

-----------------------------------------------------------------------------
(* The rate limiter. *)

Call ==
  [state : {"waiting"}, client : Clients, now : Nat]
    \cup [state : {"admitted"}, client : Clients, at : Nat] \cup [state : {"refused"}]

\* A request waits for the mutex at most MaxWait, and nothing has an instant of the future.
CallsInTime ==
  \A r \in Calls :
    /\ call[r].state = "waiting" => call[r].now <= time /\ time <= call[r].now + MaxWait
    /\ call[r].state = "admitted" => call[r].at <= time

EntriesInTime ==
  /\ DOMAIN entries \subseteq Clients
  /\ \A c \in DOMAIN entries :
       /\ entries[c] \in [count : 1..Limit, reset : Nat]
       /\ entries[c].reset <= time + Window

\* The requests of client c admitted since instant t.
Since(c, t) == {r \in Admitted(c) : call[r].at >= t}
Number(c, t) == Cardinality(Since(c, t))

\* What client c has used of its last window, as far as the map remembers.
Used(c) == IF c \in DOMAIN entries THEN entries[c].count ELSE Limit

\* The window of an entry counts requests of no earlier than its beginning.
Counted(c) == c \in DOMAIN entries => entries[c].count <= Number(c, entries[c].reset - Window)

\* The last three windows of client c were opened at o, p and q: each admitted no more than the
\* limit before the next was opened, and from one to the next it took at least Gap, even if other
\* clients had the entry removed and a request that had waited opened it anew.
Gap == Window - MaxWait

OpenedAt(c, o, p, q) ==
  /\ o <= time /\ p + Gap <= o /\ q + Gap <= p
  /\ Number(c, o + 1) <= Used(c)
  /\ Number(c, p + 1) <= Limit + Used(c)
  /\ Number(c, q + 1) <= 2 * Limit + Used(c)
  /\ o + Gap <= (IF c \in DOMAIN entries THEN entries[c].reset ELSE time)

ThreeWindows(c) == \E o, p, q \in Int : OpenedAt(c, o, p, q)

Within(c, t) == {r \in Admitted(c) : call[r].at \in t..(t + Window - 1)}

LimiterInv ==
  /\ time \in Nat /\ call \in Seq(Call) /\ CallsInTime /\ EntriesInTime
  /\ \A c \in Clients : Counted(c) /\ ThreeWindows(c)
  /\ \A c \in Clients, t \in Int : Cardinality(Within(c, t)) <= 3 * Limit

\* A waiting request has a client and an instant, and so has an admitted one.
LEMMA CallFields ==
  ASSUME LimiterInv, NEW r \in Calls
  PROVE  /\ Calls = 1..Len(call) /\ Len(call) \in Nat
         /\ call[r] \in Call
         /\ call[r].state = "waiting" => call[r].client \in Clients /\ call[r].now \in Nat
         /\ call[r].state = "admitted" => call[r].client \in Clients /\ call[r].at \in Nat
<1>1. Calls = 1..Len(call) /\ Len(call) \in Nat
  BY LenProperties DEF LimiterInv, Calls
<1>2. call[r] \in Call
  BY <1>1, ElementOfSeq DEF LimiterInv
<1> QED
  BY <1>1, <1>2 DEF Call

\* The requests of a client can be counted.
LEMMA AdmittedIsFinite ==
  ASSUME LimiterInv, NEW c, NEW t \in Int
  PROVE  /\ IsFiniteSet(Admitted(c))
         /\ IsFiniteSet(Since(c, t)) /\ Number(c, t) \in Nat
         /\ IsFiniteSet(Within(c, t)) /\ Cardinality(Within(c, t)) \in Nat
<1>1. IsFiniteSet(Calls)
  <2>1. Calls = 1..Len(call) /\ Len(call) \in Nat
    BY LenProperties DEF LimiterInv, Calls
  <2> QED
    BY <2>1, FS_Interval
<1>2. IsFiniteSet(Admitted(c))
  BY <1>1, FS_Subset DEF Admitted
<1>3. IsFiniteSet(Since(c, t)) /\ IsFiniteSet(Within(c, t))
  BY <1>2, FS_Subset DEF Since, Within
<1> QED
  BY <1>2, <1>3, FS_CardinalityType DEF Number

\* A later instant leaves fewer.
LEMMA FewerSince ==
  ASSUME LimiterInv, NEW c, NEW t \in Int, NEW u \in Int, t <= u
  PROVE  Number(c, u) <= Number(c, t)
<1>1. Since(c, u) \subseteq Since(c, t)
  <2>1. \A r \in Admitted(c) : call[r].at \in Nat
    BY CallFields DEF Admitted
  <2> QED
    BY <2>1 DEF Since
<1> QED
  BY <1>1, AdmittedIsFinite, FS_Subset DEF Number

\* A step that admits nobody: the counts stay.
LEMMA NobodyAdmitted ==
  ASSUME LimiterInv, NEW c, NEW t \in Int,
         \A r \in Calls : r \in Calls' /\ (call[r].state = "admitted" => call'[r] = call[r]),
         \A r \in Calls' : call'[r].state = "admitted" => r \in Calls /\ call[r] = call'[r]
  PROVE  /\ Admitted(c)' = Admitted(c) /\ Number(c, t)' = Number(c, t)
         /\ Within(c, t)' = Within(c, t)
<1>1. Admitted(c)' = Admitted(c) /\ \A r \in Admitted(c) : call'[r] = call[r]
  BY DEF Admitted
<1>2. Since(c, t)' = Since(c, t) /\ Within(c, t)' = Within(c, t)
  BY <1>1 DEF Since, Within
<1> QED
  BY <1>1, <1>2 DEF Number

\* A step that admits request r: it is counted from now on.
LEMMA OneAdmitted ==
  ASSUME LimiterInv, NEW r \in Calls, call[r].state = "waiting", Admit(r), time' = time,
         NEW c, NEW t \in Int
  PROVE  /\ Calls' = Calls
         /\ call'[r] = [state |-> "admitted", client |-> call[r].client, at |-> time]
         /\ \A q \in Calls \ {r} : call'[q] = call[q]
         /\ Number(c, t)' = IF c = call[r].client /\ t <= time THEN Number(c, t) + 1 ELSE Number(c, t)
         /\ c # call[r].client \/ time \notin t..(t + Window - 1) => Within(c, t)' = Within(c, t)
         /\ Within(c, t)' \subseteq Within(c, t) \cup {r}
<1>0. time \in Nat /\ \A q \in Admitted(c) : call[q].at \in Nat
  BY CallFields DEF LimiterInv, Admitted
<1>1. /\ Calls' = Calls
      /\ call'[r] = [state |-> "admitted", client |-> call[r].client, at |-> time]
      /\ \A q \in Calls \ {r} : call'[q] = call[q]
  BY DEF Admit, Calls
<1>2. Admitted(c)' = IF c = call[r].client THEN Admitted(c) \cup {r} ELSE Admitted(c)
  BY <1>1 DEF Admitted
<1>3. r \notin Admitted(c)
  BY DEF Admitted
<1> DEFINE A == Admitted(c)
           AA == IF c = call[r].client THEN A \cup {r} ELSE A
<1>s. /\ \A q \in A : q # r /\ call'[q] = call[q]
      /\ Since(c, t) = {q \in A : call[q].at >= t}
      /\ Since(c, t)' = {q \in AA : call'[q].at >= t}
      /\ Within(c, t) = {q \in A : call[q].at \in t..(t + Window - 1)}
      /\ Within(c, t)' = {q \in AA : call'[q].at \in t..(t + Window - 1)}
      /\ call'[r].at = time
  <2>1. \A q \in A : q \in Calls
    BY DEF Admitted
  <2> QED
    BY <1>1, <1>2, <1>3, <2>1 DEF Since, Within
<1> HIDE DEF A
<1>4. Since(c, t)' = IF c = call[r].client /\ t <= time THEN Since(c, t) \cup {r} ELSE Since(c, t)
  <2>1. CASE c = call[r].client /\ t <= time
    <3>1. \A q : q \in Since(c, t)' <=> q \in Since(c, t) \cup {r}
      BY <1>0, <1>s, <2>1
    <3> QED
      BY <2>1, <3>1
  <2>2. CASE ~(c = call[r].client /\ t <= time)
    <3>1. \A q : q \in Since(c, t)' <=> q \in Since(c, t)
      BY <1>0, <1>s, <2>2
    <3> QED
      BY <2>2, <3>1
  <2> QED
    BY <2>1, <2>2
<1>5. Number(c, t)' = IF c = call[r].client /\ t <= time THEN Number(c, t) + 1 ELSE Number(c, t)
  <2>1. r \notin Since(c, t) /\ IsFiniteSet(Since(c, t))
    BY <1>3, AdmittedIsFinite DEF Since
  <2> QED
    BY <1>4, <2>1, FS_AddElement DEF Number
<1>6. Within(c, t)' \subseteq Within(c, t) \cup {r}
  BY <1>s
<1>7. c # call[r].client \/ time \notin t..(t + Window - 1) => Within(c, t)' = Within(c, t)
  <2>1. ASSUME c # call[r].client \/ time \notin t..(t + Window - 1)
        PROVE  \A q : q \in Within(c, t)' <=> q \in Within(c, t)
    BY <1>s, <2>1
  <2> QED
    BY <2>1
<1> QED
  BY <1>1, <1>5, <1>6, <1>7


\* Three windows bound what a span that is not over admits: it is shorter than two gaps.
LastIsBounded ==
  \A c \in Clients, t \in Int : t > time - Window => Cardinality(Within(c, t)) <= 3 * Limit

AllWindows ==
  /\ time \in Nat /\ call \in Seq(Call) /\ EntriesInTime
  /\ \A c \in Clients : ThreeWindows(c)

LEMMA WindowsBound == AllWindows => LastIsBounded
<1> SUFFICES ASSUME time \in Nat, call \in Seq(Call), EntriesInTime,
                    \A c \in Clients : ThreeWindows(c),
                    NEW c \in Clients, NEW t \in Int, t > time - Window
             PROVE  Cardinality(Within(c, t)) <= 3 * Limit
  BY DEF LastIsBounded, AllWindows
<1>1. PICK o \in Int, p \in Int, q \in Int : OpenedAt(c, o, p, q)
  BY DEF ThreeWindows
<1>2. q < t
  BY <1>1, LimiterAssumption DEF OpenedAt, Gap
<1>3. Within(c, t) \subseteq Since(c, q + 1)
  BY <1>2, LimiterAssumption DEF Within, Since
<1>4. IsFiniteSet(Since(c, q + 1))
  <2>1. Calls = 1..Len(call) /\ Len(call) \in Nat
    BY LenProperties DEF Calls
  <2>2. IsFiniteSet(1..Len(call))
    BY <2>1, FS_Interval
  <2>3. Since(c, q + 1) \subseteq Calls
    BY DEF Since, Admitted
  <2> QED
    BY <2>1, <2>2, <2>3, FS_Subset
<1>5. Used(c) \in 0..Limit
  BY LimiterAssumption DEF EntriesInTime, Used
<1>6. /\ Cardinality(Within(c, t)) <= Cardinality(Since(c, q + 1))
      /\ Cardinality(Within(c, t)) \in Nat /\ Cardinality(Since(c, q + 1)) \in Nat
  BY <1>3, <1>4, FS_Subset, FS_CardinalityType
<1>7. Cardinality(Since(c, q + 1)) <= 2 * Limit + Used(c)
  BY <1>1 DEF OpenedAt, Number
<1> QED
  BY <1>5, <1>6, <1>7, LimiterAssumption

\* A step that admits nobody and keeps the map: the windows stay.
LEMMA QuietStep ==
  ASSUME LimiterInv, UNCHANGED entries, time' \in Nat, time <= time',
         \A r \in Calls : r \in Calls' /\ (call[r].state = "admitted" => call'[r] = call[r]),
         \A r \in Calls' : call'[r].state = "admitted" => r \in Calls /\ call[r] = call'[r],
         NEW c \in Clients
  PROVE  /\ Counted(c)' /\ ThreeWindows(c)'
         /\ \A t \in Int : Cardinality(Within(c, t)') <= 3 * Limit
<1>1. \A t \in Int : Number(c, t)' = Number(c, t) /\ Within(c, t)' = Within(c, t)
  BY NobodyAdmitted
<1>2. Counted(c)'
  <2>1. c \in DOMAIN entries => entries[c].reset - Window \in Int
    BY LimiterAssumption DEF LimiterInv, EntriesInTime
  <2>2. Counted(c)
    BY DEF LimiterInv
  <2> QED
    BY <1>1, <2>1, <2>2 DEF Counted
<1>3. ThreeWindows(c)'
  <2>1. PICK o \in Int, p \in Int, q \in Int : OpenedAt(c, o, p, q)
    BY DEF LimiterInv, ThreeWindows
  <2>2. Used(c)' = Used(c)
    BY DEF Used
  <2>3. o <= time' /\ o + Gap <= (IF c \in DOMAIN entries THEN entries[c].reset ELSE time')
    <3>1. time \in Nat /\ Gap \in Int
      BY LimiterAssumption DEF LimiterInv, Gap
    <3>2. o <= time /\ o + Gap <= (IF c \in DOMAIN entries THEN entries[c].reset ELSE time)
      BY <2>1 DEF OpenedAt
    <3>3. o <= time' /\ (o + Gap <= time => o + Gap <= time')
      BY <3>1, <3>2
    <3> QED
      BY <3>2, <3>3
  <2>4. OpenedAt(c, o, p, q)'
    BY <1>1, <2>1, <2>2, <2>3 DEF OpenedAt
  <2> QED
    BY <2>4 DEF ThreeWindows
<1> QED
  BY <1>1, <1>2, <1>3 DEF LimiterInv

\* A request joins the queue.
LEMMA ArriveStep ==
  ASSUME LimiterInv, NEW c \in Clients, Arrive(c)
  PROVE  LimiterInv'
<1> DEFINE new == [state |-> "waiting", client |-> c, now |-> time]
<1>1. new \in Call
  BY DEF LimiterInv, Call
<1>2. /\ call' \in Seq(Call)
      /\ Calls = 1..Len(call) /\ Len(call) \in Nat /\ Calls' = 1..(Len(call) + 1)
      /\ \A r \in Calls : call'[r] = call[r]
      /\ call'[Len(call) + 1] = new
  BY <1>1, AppendProperties, LenProperties DEF LimiterInv, Arrive, Calls
<1>3. UNCHANGED <<time, entries>>
  BY DEF Arrive
<1> HIDE DEF new
<1>4. new.state = "waiting" /\ new.now = time
  BY DEF new
<1>5. CallsInTime' /\ EntriesInTime'
  <2>1. \A r \in Calls' : r \in Calls \/ r = Len(call) + 1
    BY <1>2
  <2>2. CallsInTime'
    BY <1>2, <1>3, <1>4, <2>1, LimiterAssumption DEF LimiterInv, CallsInTime
  <2> QED
    BY <1>3, <2>2 DEF LimiterInv, EntriesInTime
<1>6. /\ \A r \in Calls : r \in Calls' /\ (call[r].state = "admitted" => call'[r] = call[r])
      /\ \A r \in Calls' : call'[r].state = "admitted" => r \in Calls /\ call[r] = call'[r]
  BY <1>2, <1>4
<1>7. \A d \in Clients : /\ Counted(d)' /\ ThreeWindows(d)'
                         /\ \A t \in Int : Cardinality(Within(d, t)') <= 3 * Limit
  BY <1>3, <1>6, QuietStep DEF LimiterInv
<1> QED
  BY <1>2, <1>3, <1>5, <1>7 DEF LimiterInv

\* The clock waits for no request longer than MaxWait.
LEMMA TickStep ==
  ASSUME LimiterInv, LimiterTick
  PROVE  LimiterInv'
<1>1. time \in Nat /\ time' = time + 1 /\ UNCHANGED <<entries, call>>
  BY DEF LimiterInv, LimiterTick
<1>2. Calls' = Calls
  BY <1>1 DEF Calls
<1>3. CallsInTime' /\ EntriesInTime'
  <2>1. \A r \in Calls : call[r].state = "waiting" => call[r].now \in Nat
    BY CallFields
  <2>2. \A r \in Calls : call[r].state = "admitted" => call[r].at \in Nat
    BY CallFields
  <2>3. CallsInTime'
    BY <1>1, <1>2, <2>1, <2>2, LimiterAssumption DEF LimiterInv, CallsInTime, LimiterTick
  <2> QED
    BY <1>1, <2>3, LimiterAssumption DEF LimiterInv, EntriesInTime
<1>4. \A d \in Clients : /\ Counted(d)' /\ ThreeWindows(d)'
                         /\ \A t \in Int : Cardinality(Within(d, t)') <= 3 * Limit
  BY <1>1, <1>2, QuietStep
<1> QED
  BY <1>1, <1>3, <1>4 DEF LimiterInv

\* A refusal changes the request alone.
LEMMA TooManyStep ==
  ASSUME LimiterInv, NEW r \in Calls, call[r].state = "waiting", TooMany(r), time' = time
  PROVE  LimiterInv'
<1>1. /\ Calls' = Calls /\ Calls = 1..Len(call) /\ Len(call) \in Nat
      /\ call'[r] = [state |-> "refused"]
      /\ \A q \in Calls \ {r} : call'[q] = call[q]
      /\ UNCHANGED entries
  BY CallFields DEF TooMany, Refuse, Calls
<1>2. call' \in Seq(Call)
  <2>1. [state |-> "refused"] \in Call
    BY DEF Call
  <2> QED
    BY <1>1, <2>1, ExceptSeq DEF LimiterInv, TooMany, Refuse
<1>3. CallsInTime' /\ EntriesInTime'
  BY <1>1 DEF LimiterInv, CallsInTime, EntriesInTime
<1>4. \A d \in Clients : /\ Counted(d)' /\ ThreeWindows(d)'
                         /\ \A t \in Int : Cardinality(Within(d, t)') <= 3 * Limit
  BY <1>1, QuietStep DEF LimiterInv
<1> QED
  BY <1>1, <1>2, <1>3, <1>4 DEF LimiterInv

\* Nothing is counted for the other clients.
LEMMA OthersUncounted ==
  ASSUME LimiterInv, NEW r \in Calls, call[r].state = "waiting", Admit(r),
         NEW d, d # call[r].client, NEW t \in Int
  PROVE  Number(d, t)' = Number(d, t)
<1>1. /\ Calls' = Calls
      /\ call'[r] = [state |-> "admitted", client |-> call[r].client, at |-> time]
      /\ \A q \in Calls \ {r} : call'[q] = call[q]
  BY DEF Admit, Calls
<1>2. Admitted(d)' = Admitted(d) /\ \A q \in Admitted(d) : call'[q] = call[q]
  BY <1>1 DEF Admitted
<1>3. Since(d, t)' = Since(d, t)
  BY <1>2 DEF Since
<1> QED
  BY <1>3 DEF Number

\* What admitting request r does to the windows of the others: a removed entry was over.
LEMMA OthersKeep ==
  ASSUME LimiterInv, NEW r \in Calls, call[r].state = "waiting", Admit(r), time' = time,
         NEW d \in Clients, d # call[r].client,
         d \in DOMAIN entries' => d \in DOMAIN entries /\ entries'[d] = entries[d],
         d \in DOMAIN entries /\ d \notin DOMAIN entries' => entries[d].reset <= time
  PROVE  Counted(d)' /\ ThreeWindows(d)'
<1>1. \A t \in Int : Number(d, t)' = Number(d, t)
  BY OthersUncounted
<1>2. Counted(d)'
  <2>1. d \in DOMAIN entries => entries[d].reset - Window \in Int
    BY LimiterAssumption DEF LimiterInv, EntriesInTime
  <2>2. Counted(d)
    BY DEF LimiterInv
  <2> QED
    BY <1>1, <2>1, <2>2 DEF Counted
<1>3. PICK o \in Int, p \in Int, q \in Int : OpenedAt(d, o, p, q)
  BY DEF LimiterInv, ThreeWindows
<1>4. Used(d) \in Nat /\ Used(d)' \in Nat /\ Used(d) <= Used(d)'
  BY LimiterAssumption DEF Used, LimiterInv, EntriesInTime
<1>5. o + Gap <= (IF d \in DOMAIN entries' THEN entries'[d].reset ELSE time')
  <2>1. d \in DOMAIN entries => entries[d].reset \in Nat
    BY DEF LimiterInv, EntriesInTime
  <2>2. o + Gap \in Int /\ time \in Int
    BY LimiterAssumption DEF Gap, LimiterInv
  <2> QED
    BY <1>3, <2>1, <2>2 DEF OpenedAt
<1>6. \A t \in Int : Number(d, t) \in Nat
  BY AdmittedIsFinite
<1>7. OpenedAt(d, o, p, q)'
  <2>1. /\ Number(d, o + 1)' <= Used(d)'
        /\ Number(d, p + 1)' <= Limit + Used(d)'
        /\ Number(d, q + 1)' <= 2 * Limit + Used(d)'
    BY <1>1, <1>3, <1>4, <1>6, LimiterAssumption DEF OpenedAt
  <2> QED
    BY <1>3, <1>5, <2>1 DEF OpenedAt
<1> QED
  BY <1>2, <1>7 DEF ThreeWindows

\* Admitting request r keeps the invariant, once the windows of every client are accounted for:
\* only the spans the instant of the admission falls in grow, and none of them is over.
LEMMA AdmitStep ==
  ASSUME LimiterInv, NEW r \in Calls, call[r].state = "waiting", Admit(r), time' = time,
         EntriesInTime', \A c \in Clients : Counted(c)' /\ ThreeWindows(c)'
  PROVE  LimiterInv'
<1>1. /\ Calls' = Calls /\ Calls = 1..Len(call) /\ Len(call) \in Nat
      /\ call'[r] = [state |-> "admitted", client |-> call[r].client, at |-> time]
      /\ \A q \in Calls \ {r} : call'[q] = call[q]
      /\ call[r].client \in Clients /\ time \in Nat
  BY CallFields, OneAdmitted DEF LimiterInv
<1>2. call' \in Seq(Call)
  <2>1. [state |-> "admitted", client |-> call[r].client, at |-> time] \in Call
    BY <1>1 DEF Call
  <2> QED
    BY <1>1, <2>1, ExceptSeq DEF LimiterInv, Admit
<1>3. CallsInTime'
  BY <1>1 DEF LimiterInv, CallsInTime
<1>4. LastIsBounded'
  <2>1. AllWindows'
    BY <1>1, <1>2 DEF AllWindows
  <2> QED
    BY <2>1, WindowsBound, PTL
<1>5. ASSUME NEW c \in Clients, NEW t \in Int
      PROVE  Cardinality(Within(c, t)') <= 3 * Limit
  <2>1. CASE t > time - Window
    BY <1>4, <2>1 DEF LastIsBounded
  <2>2. CASE ~(t > time - Window)
    <3>1. time \notin t..(t + Window - 1)
      BY <1>1, <2>2, LimiterAssumption
    <3>2. Within(c, t)' = Within(c, t)
      BY <3>1, OneAdmitted
    <3> QED
      BY <3>2 DEF LimiterInv
  <2> QED
    BY <2>1, <2>2
<1> QED
  BY <1>1, <1>2, <1>3, <1>5 DEF LimiterInv

\* Within a running window: one more is counted, for the client and for its entry.
LEMMA CountStep ==
  ASSUME LimiterInv, NEW r \in Calls, call[r].state = "waiting", Count(r), time' = time
  PROVE  LimiterInv'
<1>1. PICK c \in Clients : c = call[r].client
  BY CallFields
<1>2. /\ c \in DOMAIN entries /\ entries[c].count < Limit /\ Admit(r)
      /\ DOMAIN entries' = DOMAIN entries
      /\ entries'[c] = [entries[c] EXCEPT !.count = @ + 1]
      /\ \A d \in DOMAIN entries \ {c} : entries'[d] = entries[d]
  BY <1>1 DEF Count, Running, With
<1>3. /\ entries[c].count \in 1..Limit /\ entries[c].reset \in Nat
      /\ entries'[c] \in [count : 1..Limit, reset : Nat]
      /\ entries'[c].count = entries[c].count + 1 /\ entries'[c].reset = entries[c].reset
  <2>1. entries[c] \in [count : 1..Limit, reset : Nat]
    BY <1>2 DEF LimiterInv, EntriesInTime
  <2>2. entries[c].count + 1 \in 1..Limit
    BY <1>2, <2>1, LimiterAssumption
  <2> QED
    BY <1>2, <2>1, <2>2
<1>4. EntriesInTime'
  BY <1>2, <1>3 DEF LimiterInv, EntriesInTime
<1>5. \A t \in Int : /\ Number(c, t) \in Nat
                     /\ Number(c, t)' = IF t <= time THEN Number(c, t) + 1 ELSE Number(c, t)
  BY <1>1, <1>2, OneAdmitted, AdmittedIsFinite
<1>6. Counted(c)'
  <2>1. PICK s \in Int : s = entries[c].reset - Window
    BY <1>3, LimiterAssumption
  <2>2. s <= time
    <3>1. entries[c].reset <= time + Window
      BY <1>2 DEF LimiterInv, EntriesInTime
    <3>2. time \in Nat /\ Window \in Nat /\ entries[c].reset \in Nat
      BY <1>3, LimiterAssumption DEF LimiterInv
    <3> QED
      BY <2>1, <3>1, <3>2
  <2>5. entries[c].count <= Number(c, s)
    BY <1>2, <2>1 DEF LimiterInv, Counted
  <2>3. entries'[c].count <= Number(c, s)'
    BY <1>3, <1>5, <2>2, <2>5
  <2>4. s = entries'[c].reset - Window
    BY <1>3, <2>1
  <2> QED
    BY <2>3, <2>4 DEF Counted
<1>7. ThreeWindows(c)'
  <2>1. PICK o \in Int, p \in Int, q \in Int : OpenedAt(c, o, p, q)
    BY DEF LimiterInv, ThreeWindows
  <2>2. Used(c) \in Nat /\ Used(c)' = Used(c) + 1
    BY <1>2, <1>3 DEF Used
  <2>3. /\ Number(c, o + 1)' <= Used(c)'
        /\ Number(c, p + 1)' <= Limit + Used(c)'
        /\ Number(c, q + 1)' <= 2 * Limit + Used(c)'
    BY <1>5, <2>1, <2>2, LimiterAssumption DEF OpenedAt
  <2>4. OpenedAt(c, o, p, q)'
    BY <1>2, <1>3, <2>1, <2>3 DEF OpenedAt
  <2> QED
    BY <2>4 DEF ThreeWindows
<1>8. ASSUME NEW d \in Clients, d # c
      PROVE  Counted(d)' /\ ThreeWindows(d)'
  BY <1>1, <1>2, <1>8, OthersKeep
<1> QED
  BY <1>2, <1>4, <1>6, <1>7, <1>8, AdmitStep

\* A new window: what is removed with it was over, at the instant of the request.
LEMMA OpenEffect ==
  ASSUME LimiterInv, NEW r \in Calls, call[r].state = "waiting", OpenWindow(r),
         NEW c, c = call[r].client, NEW now, now = call[r].now
  PROVE  /\ Admit(r) /\ (c \in DOMAIN entries => entries[c].reset <= now)
         /\ c \in DOMAIN entries' /\ entries'[c] = [count |-> 1, reset |-> now + Window]
         /\ \A d \in DOMAIN entries' : d = c \/ (d \in DOMAIN entries /\ entries'[d] = entries[d])
         /\ \A d \in DOMAIN entries : d \in DOMAIN entries' \/ entries[d].reset <= now
<1>1. now \in Nat
  BY CallFields
<1> DEFINE new == [count |-> 1, reset |-> now + Window]
           map == With(c, new)
<1>2. Admit(r) /\ ~Running(c, now) /\ entries' = Evict(map, now)
  BY DEF OpenWindow
<1>3. \A d \in DOMAIN entries : entries[d].reset \in Nat
  BY DEF LimiterInv, EntriesInTime
<1>4. c \in DOMAIN entries => entries[c].reset <= now
  BY <1>1, <1>2, <1>3 DEF Running, Over
<1>5. /\ DOMAIN map = DOMAIN entries \cup {c} /\ map[c] = new
      /\ \A d \in DOMAIN entries \ {c} : map[d] = entries[d]
  BY DEF With
<1>6. ~Over(new, now)
  BY <1>1, LimiterAssumption DEF Over
<1> HIDE DEF map, new
<1>7. /\ DOMAIN entries' \subseteq DOMAIN map
      /\ \A d \in DOMAIN entries' : entries'[d] = map[d]
      /\ \A d \in DOMAIN map : d \in DOMAIN entries' \/ Over(map[d], now)
  <2>1. CASE Cardinality(DOMAIN map) > MapSize
    BY <1>2, <2>1 DEF Evict
  <2>2. CASE ~(Cardinality(DOMAIN map) > MapSize)
    BY <1>2, <2>2 DEF Evict
  <2> QED
    BY <2>1, <2>2
<1>8. \A d \in DOMAIN entries \ {c} : Over(map[d], now) => entries[d].reset <= now
  BY <1>1, <1>3, <1>5 DEF Over
<1>9. c \in DOMAIN entries' /\ entries'[c] = new
  BY <1>5, <1>6, <1>7
<1> QED
  BY <1>2, <1>4, <1>5, <1>7, <1>8, <1>9 DEF new

\* The new window is the client's last, and the two last ones are its second and third: a gap lies
\* between, for the window before was over at the instant of the request.
LEMMA OpenStep ==
  ASSUME LimiterInv, NEW r \in Calls, call[r].state = "waiting", OpenWindow(r), time' = time
  PROVE  LimiterInv'
<1>1. PICK c \in Clients : c = call[r].client
  BY CallFields
<1>2. PICK now \in Nat : now = call[r].now
  BY CallFields
<1>3. time \in Nat /\ now <= time /\ time <= now + MaxWait
  BY <1>2 DEF LimiterInv, CallsInTime
<1>4. /\ Admit(r) /\ (c \in DOMAIN entries => entries[c].reset <= now)
      /\ c \in DOMAIN entries' /\ entries'[c] = [count |-> 1, reset |-> now + Window]
      /\ \A d \in DOMAIN entries' : d = c \/ (d \in DOMAIN entries /\ entries'[d] = entries[d])
      /\ \A d \in DOMAIN entries : d \in DOMAIN entries' \/ entries[d].reset <= now
  BY <1>1, <1>2, OpenEffect
<1>5. EntriesInTime'
  <2>1. DOMAIN entries' \subseteq Clients
    BY <1>4 DEF LimiterInv, EntriesInTime
  <2>2. entries'[c] \in [count : 1..Limit, reset : Nat] /\ entries'[c].reset <= time + Window
    BY <1>3, <1>4, LimiterAssumption
  <2> QED
    BY <1>4, <2>1, <2>2 DEF LimiterInv, EntriesInTime
<1>6. \A t \in Int : /\ Number(c, t) \in Nat
                     /\ Number(c, t)' = IF t <= time THEN Number(c, t) + 1 ELSE Number(c, t)
  BY <1>1, <1>4, OneAdmitted, AdmittedIsFinite
<1>7. Counted(c)'
  <2>1. entries'[c].count = 1 /\ entries'[c].reset - Window = now
    BY <1>3, <1>4, LimiterAssumption
  <2>2. 1 <= Number(c, now)'
    BY <1>3, <1>6
  <2> QED
    BY <2>1, <2>2 DEF Counted
<1>8. ThreeWindows(c)'
  <2>1. PICK o \in Int, p \in Int, q \in Int : OpenedAt(c, o, p, q)
    BY DEF LimiterInv, ThreeWindows
  <2>2. Used(c) \in 0..Limit
    BY LimiterAssumption DEF Used, LimiterInv, EntriesInTime
  <2>3. Used(c)' = 1
    BY <1>4 DEF Used
  <2>4. o + Gap <= time /\ time + Gap <= now + Window
    <3>1. c \in DOMAIN entries => entries[c].reset \in Nat
      BY DEF LimiterInv, EntriesInTime
    <3>2. Gap \in Int
      BY LimiterAssumption DEF Gap
    <3>3. o + Gap <= time
      BY <1>3, <1>4, <2>1, <3>1, <3>2 DEF OpenedAt
    <3> QED
      BY <1>3, <3>3, LimiterAssumption DEF Gap
  <2>5. Number(c, time + 1)' = 0
    <3>1. Since(c, time + 1) = {}
      <4>1. \A q_1 \in Admitted(c) : call[q_1].at \in Nat /\ call[q_1].at <= time
        BY CallFields DEF Admitted, LimiterInv, CallsInTime
      <4> QED
        BY <1>3, <4>1 DEF Since
    <3>2. Number(c, time + 1) = 0
      BY <3>1, FS_EmptySet DEF Number
    <3> QED
      BY <1>3, <1>6, <3>2
  <2>6. /\ Number(c, time + 1)' <= Used(c)'
        /\ Number(c, o + 1)' <= Limit + Used(c)'
        /\ Number(c, p + 1)' <= 2 * Limit + Used(c)'
    <3>1. Number(c, o + 1)' <= Number(c, o + 1) + 1 /\ Number(c, p + 1)' <= Number(c, p + 1) + 1
      BY <1>6
    <3>2. Number(c, o + 1)' \in Nat /\ Number(c, p + 1)' \in Nat
      BY <1>6
    <3> QED
      BY <1>6, <2>1, <2>2, <2>3, <2>5, <3>1, <3>2, LimiterAssumption DEF OpenedAt
  <2>7. PICK n \in Int : n = time
    BY <1>3
  <2>8. OpenedAt(c, n, o, p)'
    <3>1. n <= time' /\ n + Gap <= entries'[c].reset
      BY <1>3, <1>4, <2>4, <2>7
    <3>2. o + Gap <= n /\ p + Gap <= o
      BY <2>1, <2>4, <2>7 DEF OpenedAt
    <3> QED
      BY <1>4, <2>6, <2>7, <3>1, <3>2 DEF OpenedAt
  <2> QED
    BY <2>8 DEF ThreeWindows
<1>9. ASSUME NEW d \in Clients, d # c
      PROVE  Counted(d)' /\ ThreeWindows(d)'
  <2>1. d \in DOMAIN entries => entries[d].reset \in Nat
    BY DEF LimiterInv, EntriesInTime
  <2>2. d \in DOMAIN entries /\ d \notin DOMAIN entries' => entries[d].reset <= time
    BY <1>3, <1>4, <2>1
  <2> QED
    BY <1>1, <1>4, <1>9, <2>2, OthersKeep
<1> QED
  BY <1>4, <1>5, <1>7, <1>8, <1>9, AdmitStep

LEMMA InitLimiterInv == LimiterInit => LimiterInv
<1> SUFFICES ASSUME LimiterInit PROVE LimiterInv
  OBVIOUS
<1>1. time = 0 /\ entries = [c \in {} |-> 0] /\ call = <<>> /\ Calls = {}
  BY DEF LimiterInit, Calls
<1>2. call \in Seq(Call) /\ CallsInTime
  BY <1>1, EmptySeq DEF CallsInTime
<1>3. DOMAIN entries = {}
  BY <1>1
<1>4. \A c \in Clients, t \in Int : Number(c, t) = 0 /\ Cardinality(Within(c, t)) = 0
  BY <1>1, FS_EmptySet DEF Admitted, Since, Number, Within
<1>5. ASSUME NEW c \in Clients
      PROVE  Counted(c) /\ ThreeWindows(c)
  <2>1. Used(c) = Limit
    BY <1>3 DEF Used
  <2>2. OpenedAt(c, -Gap, -(2 * Gap), -(3 * Gap))
    BY <1>1, <1>3, <1>4, <2>1, LimiterAssumption DEF OpenedAt, Gap
  <2>3. -Gap \in Int /\ -(2 * Gap) \in Int /\ -(3 * Gap) \in Int
    BY LimiterAssumption DEF Gap
  <2> QED
    BY <1>3, <2>2, <2>3 DEF Counted, ThreeWindows
<1> QED
  BY <1>1, <1>2, <1>3, <1>4, <1>5, LimiterAssumption DEF LimiterInv, EntriesInTime

LEMMA NextLimiterInv == LimiterInv /\ [LimiterNext]_limiterVars => LimiterInv'
<1> SUFFICES ASSUME LimiterInv, [LimiterNext]_limiterVars PROVE LimiterInv'
  OBVIOUS
<1>1. CASE LimiterTick
  BY <1>1, TickStep
<1>2. CASE \E c \in Clients : Arrive(c)
  BY <1>2, ArriveStep
<1>3. ASSUME NEW r \in Calls, Allow(r)
      PROVE  LimiterInv'
  <2>1. call[r].state = "waiting" /\ time' = time
    BY <1>3 DEF Allow
  <2>2. CASE OpenWindow(r)
    BY <2>1, <2>2, OpenStep
  <2>3. CASE Count(r)
    BY <2>1, <2>3, CountStep
  <2>4. CASE TooMany(r)
    BY <2>1, <2>4, TooManyStep
  <2> QED
    BY <1>3, <2>2, <2>3, <2>4 DEF Allow
<1>4. CASE UNCHANGED limiterVars
  <2>1. /\ UNCHANGED <<time, entries, call>> /\ Calls' = Calls
        /\ time \in Nat /\ call \in Seq(Call)
    BY <1>4 DEF limiterVars, Calls, LimiterInv
  <2>2. CallsInTime' /\ EntriesInTime'
    BY <2>1 DEF LimiterInv, CallsInTime, EntriesInTime
  <2>3. \A c \in Clients : /\ Counted(c)' /\ ThreeWindows(c)'
                           /\ \A t \in Int : Cardinality(Within(c, t)') <= 3 * Limit
    BY <2>1, QuietStep
  <2> QED
    BY <2>1, <2>2, <2>3 DEF LimiterInv
<1> QED
  BY <1>1, <1>2, <1>3, <1>4 DEF LimiterNext

\* However many clients fill the map and however long, up to half a window, a request waits for
\* the mutex: no span of a window's length admits more than three limits of one client's.
THEOREM ClientsAreBounded == LimiterSpec => []ClientIsBounded
<1>1. LimiterInv => ClientIsBounded
  <2> SUFFICES ASSUME LimiterInv, NEW c \in Clients, NEW t \in 0..time
               PROVE  Cardinality(Within(c, t)) <= 3 * Limit
    BY DEF ClientIsBounded, Within
  <2>1. t \in Int
    BY DEF LimiterInv
  <2> QED
    BY <2>1 DEF LimiterInv
<1> QED
  BY <1>1, InitLimiterInv, NextLimiterInv, PTL DEF LimiterSpec

\* Whoever is refused has been admitted Limit times within the last window, by the clock of the
\* request itself: the entry that counted it was neither over nor another client's.
THEOREM RefusalsAreEarned == LimiterSpec => RefusalIsEarned
<1>1. ASSUME LimiterInv, [LimiterNext]_limiterVars, NEW r \in Calls,
             call[r].state = "waiting", call'[r].state = "refused"
      PROVE  Cardinality({q \in Admitted(call[r].client) : call[q].at > call[r].now - Window})
               >= Limit
  <2>1. PICK c \in Clients : c = call[r].client
    BY <1>1, CallFields
  <2>2. PICK now \in Nat : now = call[r].now
    BY <1>1, CallFields
  <2>3. TooMany(r)
    <3>1. ~LimiterTick /\ ~UNCHANGED limiterVars
      BY <1>1 DEF LimiterTick, limiterVars
    <3>2. ASSUME NEW d \in Clients
          PROVE  ~Arrive(d)
      <4>1. \A e \in Call : Append(call, e)[r] = call[r]
        BY <1>1, CallFields, AppendProperties DEF LimiterInv
      <4>2. [state |-> "waiting", client |-> d, now |-> time] \in Call
        BY <1>1 DEF LimiterInv, Call
      <4> QED
        BY <1>1, <4>1, <4>2 DEF Arrive
    <3>3. PICK q \in Calls : Allow(q)
      BY <1>1, <3>1, <3>2 DEF LimiterNext
    <3>4. Admit(q) \/ TooMany(q)
      BY <3>3 DEF Allow, OpenWindow, Count
    <3>5. Admit(q) => call'[r].state # "refused"
      BY <1>1 DEF Admit, Calls
    <3>6. TooMany(q) /\ q # r => call'[r] = call[r]
      BY DEF TooMany, Refuse, Calls
    <3> QED
      BY <1>1, <3>4, <3>5, <3>6
  <2>4. c \in DOMAIN entries /\ entries[c].count >= Limit /\ ~(now >= entries[c].reset)
    BY <2>1, <2>2, <2>3 DEF TooMany, Running, Over
  <2>5. /\ entries[c].count = Limit /\ entries[c].reset \in Nat
        /\ entries[c].count <= Number(c, entries[c].reset - Window)
    BY <1>1, <2>4, LimiterAssumption DEF LimiterInv, EntriesInTime, Counted
  <2>6. PICK s \in Int : s = entries[c].reset - Window /\ s > now - Window
    BY <2>4, <2>5, LimiterAssumption
  <2> DEFINE Recent == {q \in Admitted(c) : call[q].at > now - Window}
  <2>7. Since(c, s) \subseteq Recent
    <3>1. \A q \in Admitted(c) : call[q].at \in Nat
      BY <1>1, CallFields DEF Admitted
    <3> QED
      BY <2>6, <3>1, LimiterAssumption DEF Since
  <2>8. IsFiniteSet(Recent)
    BY <1>1, AdmittedIsFinite, FS_Subset
  <2>9. Cardinality(Since(c, s)) <= Cardinality(Recent) /\ Cardinality(Recent) \in Nat
        /\ Cardinality(Since(c, s)) \in Nat
    BY <2>7, <2>8, FS_Subset, FS_CardinalityType
  <2>10. Cardinality(Recent) >= Limit
    BY <2>5, <2>6, <2>9, LimiterAssumption DEF Number
  <2> QED
    BY <2>1, <2>2, <2>10
<1>2. LimiterInv /\ [LimiterNext]_limiterVars
        => [\A r \in Calls : call[r].state = "waiting" /\ call'[r].state = "refused" =>
              Cardinality({q \in Admitted(call[r].client) : call[q].at > call[r].now - Window})
                >= Limit]_limiterVars
  BY <1>1
<1> QED
  BY <1>2, InitLimiterInv, NextLimiterInv, PTL DEF LimiterSpec, RefusalIsEarned

-----------------------------------------------------------------------------
(* The types of the map and of the requests. *)

\* The map holds no window that begins before the clock did.
LimiterBounds ==
  /\ time <= LastTime
  /\ \A c \in DOMAIN entries : entries[c].reset >= Window

\* Each request and the clock preserve it.
LEMMA NextLimiterBounds ==
  LimiterInv /\ LimiterBounds /\ [LimiterNext]_limiterVars => LimiterBounds'
<1> SUFFICES ASSUME LimiterInv, LimiterBounds, [LimiterNext]_limiterVars PROVE LimiterBounds'
  OBVIOUS
<1> USE DEF LimiterBounds
<1>1. ASSUME NEW r \in Calls, Allow(r) PROVE LimiterBounds'
  <2>1. PICK c \in Clients, now \in Nat : c = call[r].client /\ now = call[r].now
    BY <1>1, CallFields DEF Allow
  <2>2. CASE OpenWindow(r)
    <3>1. PICK e : e = [count |-> 1, reset |-> now + Window]
      OBVIOUS
    <3>2. entries' = Evict(With(c, e), now)
      BY <2>1, <2>2, <3>1 DEF OpenWindow
    <3>3. \A d \in DOMAIN With(c, e) : With(c, e)[d].reset >= Window
      BY <3>1, LimiterAssumption DEF With
    <3>4. \A d \in DOMAIN entries' : d \in DOMAIN With(c, e) /\ entries'[d] = With(c, e)[d]
      BY <3>2 DEF Evict
    <3> QED
      BY <1>1, <3>3, <3>4 DEF Allow
  <2>3. CASE Count(r)
    <3>1. c \in DOMAIN entries /\ entries' = With(c, [entries[c] EXCEPT !.count = @ + 1])
      BY <2>1, <2>3 DEF Count, Running
    <3>2. [entries[c] EXCEPT !.count = @ + 1].reset = entries[c].reset
      BY <3>1 DEF LimiterInv, EntriesInTime
    <3> QED
      BY <1>1, <3>1, <3>2 DEF Allow, With
  <2>4. CASE TooMany(r)
    BY <1>1, <2>4 DEF TooMany, Allow
  <2> QED
    BY <1>1, <2>2, <2>3, <2>4 DEF Allow
<1>2. ASSUME NEW c \in Clients, Arrive(c) PROVE LimiterBounds'
  BY <1>2 DEF Arrive
<1>3. CASE LimiterTick
  BY <1>3, LimiterAssumption DEF LimiterTick, LimiterInv
<1>4. CASE UNCHANGED limiterVars
  BY <1>4 DEF limiterVars
<1> QED
  BY <1>1, <1>2, <1>3, <1>4 DEF LimiterNext

\* The map counts no more than the limit, and its entries end at most a window from now, however
\* long the requests that opened them had waited (allow).
THEOREM LimiterTypeCorrect == LimiterSpec => []LimiterTypeOK
<1>1. LimiterInit => LimiterBounds
  BY LimiterAssumption DEF LimiterInit, LimiterBounds
<1>2. LimiterInv /\ LimiterBounds => LimiterTypeOK
  <2> SUFFICES ASSUME LimiterInv, LimiterBounds PROVE LimiterTypeOK
    OBVIOUS
  <2>1. ASSUME NEW c \in DOMAIN entries
        PROVE  entries[c].count \in 1..Limit /\ entries[c].reset \in Window..(LastTime + Window)
    BY <2>1, LimiterAssumption DEF LimiterInv, EntriesInTime, LimiterBounds
  <2>2. \A r \in Calls : call[r].state \in {"waiting", "admitted", "refused"}
    BY CallFields DEF Call
  <2> QED
    BY <2>1, <2>2, LimiterAssumption DEF LimiterInv, EntriesInTime, LimiterBounds, LimiterTypeOK
<1> QED
  BY <1>1, <1>2, InitLimiterInv, NextLimiterInv, NextLimiterBounds, PTL DEF LimiterSpec

-----------------------------------------------------------------------------
(* The composition. *)

\* A behaviour of the services is one of each of them: those that do not run stutter.
LEMMA ServicesRunAsThemselves ==
  ServiceSpec =>
    Spec /\ RegistrationSpec /\ FlowSpec /\ ProfileSpec /\ ReportSpec /\ LimiterSpec
<1>1. ServiceInit =>
        Init /\ RegistrationInit /\ FlowInit /\ ProfileInit /\ ReportInit /\ LimiterInit
  BY DEF ServiceInit
<1>2. [ServiceNext]_serviceVars =>
        /\ [Next]_vars /\ [RegistrationNext]_registrationVars /\ [FlowNext]_flowVars
        /\ [ProfileNext]_profileVars /\ [ReportNext]_reportVars /\ [LimiterNext]_limiterVars
  BY DEF ServiceNext, serviceVars
<1> QED
  BY <1>1, <1>2, PTL
     DEF ServiceSpec, Spec, RegistrationSpec, FlowSpec, ProfileSpec, ReportSpec, LimiterSpec

\* Rows, requests, cookies and maps of these components always have the shape the code gives
\* them; the nullable columns of a profile hold NULL or a value that was given, whatever marker
\* the body of a PATCH carries (UpdateProfile).
THEOREM ServiceTypeCorrect == ServiceSpec => []ServiceTypeOK
<1>1. TypeOK /\ RegistrationTypeOK /\ FlowTypeOK /\ ProfileTypeOK /\ ReportTypeOK /\ LimiterTypeOK
        => ServiceTypeOK
  BY DEF ServiceTypeOK
<1> QED
  BY <1>1, ServicesRunAsThemselves, AvatarTypeCorrect, RegistrationTypeCorrect, FlowTypeCorrect,
     ProfileTypeCorrect, ReportTypeCorrect, LimiterTypeCorrect, PTL
=============================================================================
