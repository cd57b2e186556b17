------------------------------- MODULE Pages --------------------------------
(***************************************************************************)
(* Keyset pagination, as GetOrderStatusAll and ViewAllMarkets do it: a     *)
(* page is cut from the rows behind the token, in the order of their ids,  *)
(* one row more than the page holds is asked of the database, and the last *)
(* id of the page is the next page's token.                                *)
(***************************************************************************)
EXTENDS Integers, FiniteSets

CONSTANTS
  Before(_, _),     \* the order of the column's type, UUID
  DefaultPageSize,
  MaxPageSize,
  NoToken           \* the empty string

ASSUME PageSizeAssumption ==
  DefaultPageSize \in Nat \ {0} /\ MaxPageSize \in Nat /\ DefaultPageSize <= MaxPageSize

PageSize(asked) ==
  IF asked <= 0 \/ asked > MaxPageSize THEN DefaultPageSize ELSE asked

(* A bug in Behind: >= instead of >.                                       *)
BehindMutant(rows, token) == {i \in rows : i = token \/ Before(token, i)}

(* WHERE order_id > $2                                                     *)
Behind(rows, token) == {i \in rows : Before(token, i)}

(* ORDER BY order_id ASC LIMIT $3                                          *)
IsFirst(found, from, limit) ==
  /\ found \subseteq from
  /\ \A i \in found, j \in from \ found : Before(i, j)
  /\ Cardinality(found) <= limit
  /\ Cardinality(found) < limit => found = from

IsLast(i, page) == i \in page /\ \A j \in page \ {i} : Before(j, i)

(* A bug in IsPage: the token is the row that is not on the page.          *)
IsPageMutant(page, next, rows, token, size) ==
  \E found \in SUBSET Behind(rows, token) :
    /\ IsFirst(found, Behind(rows, token), size + 1)
    /\ IF Cardinality(found) > size
       THEN IsFirst(page, found, size) /\ IsLast(next, found)
       ELSE page = found /\ next = NoToken

(* A bug in IsPage: the token of the request is given back.                *)
IsPageStuckMutant(page, next, rows, token, size) ==
  \E found \in SUBSET Behind(rows, token) :
    /\ IsFirst(found, Behind(rows, token), size + 1)
    /\ IF Cardinality(found) > size
       THEN IsFirst(page, found, size) /\ next = token
       ELSE page = found /\ next = NoToken

(* The page and the token of the next one; without a token it is the last. *)
IsPage(page, next, rows, token, size) ==
  \E found \in SUBSET Behind(rows, token) :
    /\ IsFirst(found, Behind(rows, token), size + 1)
    /\ IF Cardinality(found) > size
       THEN IsFirst(page, found, size) /\ IsLast(next, page)
       ELSE page = found /\ next = NoToken

(* The rows of a page, listed in their order; a page has at most           *)
(* MaxPageSize.                                                            *)
Listings(page) ==
  {list \in UNION {[1..n -> page] : n \in 0..MaxPageSize} :
     /\ \A i, j \in DOMAIN list : i < j => Before(list[i], list[j])
     /\ \A row \in page : \E i \in DOMAIN list : list[i] = row}
=============================================================================
