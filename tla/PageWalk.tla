------------------------------ MODULE PageWalk ------------------------------
(***************************************************************************)
(* A client walks through all pages of its orders, or of the markets,      *)
(* while rows are added; their ids are random, so a new row may fall       *)
(* anywhere.  No code deletes a row.                                       *)
(***************************************************************************)
EXTENDS Pages

CONSTANTS
  Ids,        \* ids of rows
  ZeroId,     \* an id before all of them, which no row has
  PageSizes   \* values of page_size a client sends

ASSUME IdsAssumption ==
  /\ IsFiniteSet(Ids) /\ NoToken \notin Ids \cup {ZeroId} /\ ZeroId \notin Ids
  /\ PageSizes \subseteq Int
  /\ \A i \in Ids : Before(ZeroId, i)
  /\ \A i, j \in Ids \cup {ZeroId} :
       Before(i, j) \/ Before(j, i) \/ i = j
  /\ \A i, j \in Ids \cup {ZeroId} : Before(i, j) => ~ Before(j, i)
  /\ \A i, j, k \in Ids \cup {ZeroId} :
       Before(i, j) /\ Before(j, k) => Before(i, k)

VARIABLES
  rows,     \* the table
  at,       \* the walk: "idle", "asking", "failed", "done"
  token,    \* page_token of its next request
  began,    \* history: the rows at its beginning
  page,     \* the last page it got
  shown     \* history: the rows of the pages before

walk == <<rows, at, token, began, page, shown>>

Init ==
  /\ rows \in SUBSET Ids
  /\ at = "idle" /\ token = NoToken
  /\ began = {} /\ page = {} /\ shown = {}

(* SaveOrder, or a market added by hand.                                   *)
Insert(i) ==
  /\ rows' = rows \cup {i}
  /\ UNCHANGED <<at, token, began, page, shown>>

(* The first request leaves page_token unset, or names the least UUID.     *)
Begin(t) ==
  /\ at = "idle"
  /\ at' = "asking" /\ token' = t /\ began' = rows
  /\ UNCHANGED <<rows, page, shown>>

(* FindAll compares the column with a text that is no UUID: an error.      *)
AskWithoutToken ==
  /\ at = "asking" /\ token = NoToken
  /\ at' = "failed"
  /\ UNCHANGED <<rows, token, began, page, shown>>

Ask(asked) ==
  /\ at = "asking" /\ token # NoToken
  /\ \E p \in SUBSET rows, next \in rows \cup {token, NoToken} :
       /\ IsPage(p, next, rows, token, PageSize(asked))
       /\ page' = p
       /\ token' = next
       /\ at' = IF next = NoToken THEN "done" ELSE "asking"
  /\ shown' = shown \cup page
  /\ UNCHANGED <<rows, began>>

Next ==
  \/ \E i \in Ids : Insert(i)
  \/ \E t \in {NoToken, ZeroId} : Begin(t)
  \/ AskWithoutToken
  \/ \E asked \in PageSizes : Ask(asked)

Spec == Init /\ [][Next]_walk

(* The client asks on.                                                     *)
FairSpec ==
  Spec /\ WF_walk(AskWithoutToken) /\ WF_walk(\E asked \in PageSizes : Ask(asked))

-----------------------------------------------------------------------------
TypeOK ==
  /\ rows \subseteq Ids /\ began \subseteq rows
  /\ page \subseteq rows /\ shown \subseteq rows
  /\ at \in {"idle", "asking", "failed", "done"}
  /\ token \in rows \cup {NoToken, ZeroId}

(* A row that was there when the walk began is on one of its pages when it *)
(* is done, whatever rows were added and whatever sizes were asked for.    *)
WalkIsComplete == at = "done" => began \subseteq page \cup shown

(* No row is on two pages.                                                 *)
ShownOnce == page \cap shown = {}

(* A walk comes to its end, or fails at its first page.                    *)
WalkEnds == at = "asking" ~> at \in {"done", "failed"}

(* "rpc GetOrderStatusAll", "string page_token = 2;": a client that sets   *)
(* no page_token gets the first page.                                      *)
FirstPageIsServed == at # "failed"
=============================================================================
