--------------------------- MODULE PageWalkProofs ---------------------------
(* Proofs about PageWalk, for any number of rows and any page sizes.       *)
EXTENDS PageWalk, FiniteSetTheorems, TLAPS

UpTo(i, last) == i = last \/ Before(i, last)

Walking == at = "asking" /\ token # NoToken

(* Before the first page nothing has been shown.                           *)
NothingYet ==
  \/ at \in {"idle", "failed"}
  \/ at = "asking" /\ token = NoToken
  => page = {} /\ shown = {}

(* What was there at the beginning is shown, or behind the token.          *)
RestIsBehind ==
  Walking => \A i \in began : i \in page \cup shown \/ Before(token, i)

(* What was shown is not behind the token.                                 *)
ShownIsUpToToken == Walking => \A i \in page \cup shown : UpTo(i, token)

IInv ==
  /\ TypeOK
  /\ NothingYet
  /\ RestIsBehind
  /\ ShownIsUpToToken
  /\ ShownOnce
  /\ WalkIsComplete

(* Ids are ordered; no id is its own predecessor.                          *)
LEMMA Order ==
  ASSUME NEW i \in Ids \cup {ZeroId}
  PROVE  /\ ~ Before(i, i)
         /\ \A j, k \in Ids \cup {ZeroId} : Before(i, j) /\ Before(j, k) => Before(i, k)
BY IdsAssumption

LEMMA PageSizeType ==
  ASSUME NEW asked \in PageSizes
  PROVE  PageSize(asked) \in Nat
BY PageSizeAssumption, IdsAssumption DEF PageSize

-----------------------------------------------------------------------------
(* A page with a successor: its last row is the token, it has what is      *)
(* behind the old token and not behind the new one.                        *)
LEMMA FullPage ==
  ASSUME NEW all \in SUBSET Ids, NEW t \in Ids \cup {ZeroId}, NEW size \in Nat,
         NEW p, NEW next, next # NoToken, IsPage(p, next, all, t, size)
  PROVE  /\ next \in p
         /\ \A i \in p : i \in all /\ Before(t, i) /\ UpTo(i, next)
         /\ \A i \in all : Before(t, i) => i \in p \/ Before(next, i)
<1>1. PICK found \in SUBSET Behind(all, t) :
        /\ IsFirst(found, Behind(all, t), size + 1)
        /\ IsFirst(p, found, size) /\ IsLast(next, p)
  BY DEF IsPage
<1>2. next \in p /\ p \subseteq found /\ found \subseteq Behind(all, t)
  BY <1>1 DEF IsFirst, IsLast
<1>3. \A i \in p : UpTo(i, next)
  BY <1>1 DEF IsLast, UpTo
<1>4. ASSUME NEW i \in all, Before(t, i), i \notin p
      PROVE  Before(next, i)
  <2>1. i \in Behind(all, t)
    BY <1>4 DEF Behind
  <2> QED
    BY <1>1, <1>2, <1>4, <2>1 DEF IsFirst
<1> QED
  BY <1>2, <1>3, <1>4 DEF Behind

(* A page without one has everything behind the token.                     *)
LEMMA LastPage ==
  ASSUME NEW all \in SUBSET Ids, NEW t, NEW size \in Nat,
         NEW p, IsPage(p, NoToken, all, t, size)
  PROVE  p = Behind(all, t)
<1>1. PICK found \in SUBSET Behind(all, t) :
        /\ IsFirst(found, Behind(all, t), size + 1)
        /\ IF Cardinality(found) > size
           THEN IsFirst(p, found, size) /\ IsLast(NoToken, p)
           ELSE p = found
  BY DEF IsPage
<1>2. IsFiniteSet(found) /\ Cardinality(found) \in Nat
  BY <1>1, IdsAssumption, FS_Subset, FS_CardinalityType DEF Behind
<1>3. CASE Cardinality(found) > size
  <2>1. NoToken \in Ids
    BY <1>1, <1>3 DEF IsFirst, IsLast, Behind
  <2> QED
    BY <2>1, IdsAssumption
<1>4. CASE ~ Cardinality(found) > size
  <2>1. Cardinality(found) < size + 1
    BY <1>2, <1>4
  <2> QED
    BY <1>1, <1>4, <2>1 DEF IsFirst
<1> QED
  BY <1>3, <1>4

-----------------------------------------------------------------------------
LEMMA AskInv ==
  ASSUME IInv, NEW asked \in PageSizes, Ask(asked)
  PROVE  IInv'
<1>1. PICK p \in SUBSET rows, next \in rows \cup {token, NoToken} :
        /\ IsPage(p, next, rows, token, PageSize(asked))
        /\ page' = p
        /\ token' = next
        /\ at' = IF next = NoToken THEN "done" ELSE "asking"
  BY DEF Ask
<1>2. /\ at = "asking" /\ token # NoToken
      /\ shown' = shown \cup page /\ UNCHANGED <<rows, began>>
  BY DEF Ask
<1>3. /\ rows \in SUBSET Ids /\ token \in Ids \cup {ZeroId}
      /\ page \subseteq rows /\ shown \subseteq rows /\ began \subseteq rows
      /\ page \cap shown = {}
  BY <1>2 DEF IInv, TypeOK, ShownOnce
<1>4. PageSize(asked) \in Nat
  BY PageSizeType
<1>5. /\ \A i \in began : i \in shown' \/ Before(token, i)
      /\ \A i \in shown' : UpTo(i, token)
  BY <1>2 DEF IInv, Walking, RestIsBehind, ShownIsUpToToken
<1>6. TypeOK'
  BY <1>1, <1>2, <1>3 DEF TypeOK, IInv
<1>7. ASSUME NEW i \in shown', Before(token, i)
      PROVE  FALSE
  BY <1>2, <1>3, <1>5, <1>7, Order DEF UpTo
<1>8. CASE next = NoToken
  <2>1. p = Behind(rows, token)
    BY <1>1, <1>3, <1>4, <1>8, LastPage
  <2>2. ShownOnce'
    BY <1>1, <1>7, <2>1 DEF ShownOnce, Behind
  <2>3. WalkIsComplete'
    BY <1>1, <1>2, <1>3, <1>5, <2>1 DEF WalkIsComplete, Behind
  <2> QED
    BY <1>1, <1>6, <1>8, <2>2, <2>3 DEF IInv, NothingYet, RestIsBehind, ShownIsUpToToken, Walking
<1>9. CASE next # NoToken
  <2>1. /\ next \in p
        /\ \A i \in p : i \in rows /\ Before(token, i) /\ UpTo(i, next)
        /\ \A i \in rows : Before(token, i) => i \in p \/ Before(next, i)
    BY <1>1, <1>3, <1>4, <1>9, FullPage
  <2>2. ShownOnce'
    BY <1>1, <1>7, <2>1 DEF ShownOnce
  <2>3. RestIsBehind'
    BY <1>1, <1>2, <1>3, <1>5, <2>1 DEF RestIsBehind
  <2>4. ASSUME NEW i \in shown' PROVE UpTo(i, next)
    <3>1. i \in Ids \cup {ZeroId} /\ next \in Ids \cup {ZeroId} /\ Before(token, next)
      BY <1>2, <1>3, <2>1
    <3> QED
      BY <1>3, <1>5, <3>1, Order DEF UpTo
  <2>5. ShownIsUpToToken'
    BY <1>1, <2>1, <2>4 DEF ShownIsUpToToken
  <2> QED
    BY <1>1, <1>6, <1>9, <2>2, <2>3, <2>5 DEF IInv, NothingYet, WalkIsComplete
<1> QED
  BY <1>8, <1>9

LEMMA InitInv == Init => IInv
BY DEF Init, IInv, TypeOK, NothingYet, RestIsBehind, ShownIsUpToToken, Walking,
       ShownOnce, WalkIsComplete

LEMMA NextInv == IInv /\ [Next]_walk => IInv'
<1> SUFFICES ASSUME IInv, [Next]_walk PROVE IInv'
  OBVIOUS
<1>1. ASSUME NEW i \in Ids, Insert(i) PROVE IInv'
  BY <1>1 DEF Insert, IInv, TypeOK, NothingYet, RestIsBehind, ShownIsUpToToken, Walking,
              ShownOnce, WalkIsComplete
<1>2. ASSUME NEW t \in {NoToken, ZeroId}, Begin(t) PROVE IInv'
  <2>0. /\ at = "idle" /\ began' = rows /\ token' = t /\ at' = "asking"
        /\ UNCHANGED <<rows, page, shown>>
    BY <1>2 DEF Begin
  <2>1. page = {} /\ shown = {} /\ rows \subseteq Ids
    BY <2>0 DEF IInv, NothingYet, TypeOK
  <2>2. TypeOK' /\ NothingYet' /\ ShownIsUpToToken' /\ ShownOnce' /\ WalkIsComplete'
    BY <2>0, <2>1 DEF TypeOK, NothingYet, ShownIsUpToToken, ShownOnce,
                      WalkIsComplete
  <2>3. RestIsBehind'
    BY <2>0, <2>1, IdsAssumption DEF RestIsBehind, Walking
  <2> QED
    BY <2>2, <2>3 DEF IInv
<1>3. CASE AskWithoutToken
  BY <1>3 DEF AskWithoutToken, IInv, TypeOK, NothingYet, RestIsBehind, ShownIsUpToToken,
              Walking, ShownOnce, WalkIsComplete
<1>4. ASSUME NEW asked \in PageSizes, Ask(asked) PROVE IInv'
  BY <1>4, AskInv
<1>5. CASE UNCHANGED walk
  BY <1>5 DEF walk, IInv, TypeOK, NothingYet, RestIsBehind, ShownIsUpToToken, Walking,
              ShownOnce, WalkIsComplete
<1> QED
  BY <1>1, <1>2, <1>3, <1>4, <1>5 DEF Next

(* Invariance: the token splits the table into what was shown and what is  *)
(* still to come.                                                          *)
THEOREM Invariance == Spec => []IInv
BY InitInv, NextInv, PTL DEF Spec

(* Type correctness.                                                       *)
THEOREM TypeCorrectness == Spec => []TypeOK
<1>1. IInv => TypeOK
  BY DEF IInv
<1> QED
  BY <1>1, Invariance, PTL

(* A walk that is done has shown every row that was there when it began.   *)
THEOREM NothingIsMissed == Spec => []WalkIsComplete
<1>1. IInv => WalkIsComplete
  BY DEF IInv
<1> QED
  BY <1>1, Invariance, PTL

(* No row is on two pages.                                                 *)
THEOREM NothingIsRepeated == Spec => []ShownOnce
<1>1. IInv => ShownOnce
  BY DEF IInv
<1> QED
  BY <1>1, Invariance, PTL
=============================================================================
