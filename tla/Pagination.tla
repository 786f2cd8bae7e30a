----------------------------- MODULE Pagination -----------------------------
(***************************************************************************)
(* internal/api/pagination: pages of a list, in integers of a fixed width. *)
(***************************************************************************)
EXTENDS Integers

CONSTANTS
  MaxInt,   \* the largest int64
  MaxLimit  \* the largest page

ASSUME PaginationAssumption == MaxInt \in Nat /\ MaxLimit \in 1..MaxInt

Int64 == -(MaxInt + 1)..MaxInt

\* A result outside the width wraps around.
Wrapped(n) == ((n + MaxInt + 1) % (2 * (MaxInt + 1))) - (MaxInt + 1)

\* parsePositive: 0 stands for a parameter that is refused, which no good one is.
ParsePositive(raw, maximum) ==
  IF raw \in Int64 /\ raw >= 1 /\ (maximum > 0 => raw <= maximum) THEN raw ELSE 0

\* Parse divides by the limit only once both parameters are known to be good.
Accepts(page, limit) == page # 0 /\ limit # 0 /\ page - 1 <= MaxInt \div limit

\* Parse: the parameters, or none when one of them is refused.
Parse(rawPage, rawLimit) ==
  LET page == ParsePositive(rawPage, 0)
      limit == ParsePositive(rawLimit, MaxLimit)
  IN {p \in {[page |-> page, limit |-> limit]} : Accepts(page, limit)}

\* Variant: the first page is page 0.
OffsetFromZero(p) == Wrapped(p.page * p.limit)

Offset(p) == Wrapped((p.page - 1) * p.limit)

\* NewResponse.
TotalPages(p, total) == total \div p.limit + (IF total % p.limit # 0 THEN 1 ELSE 0)
=============================================================================
