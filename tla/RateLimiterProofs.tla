--------------------------- MODULE RateLimiterProofs ---------------------------
(* Proofs about RateLimiter, for any number of calls and processes, any    *)
(* limit, window and delay, and any number of failing commands.            *)
EXTENDS RateLimiter, FiniteSetTheorems, TLAPS

(* A call read a time that is past, and its transaction is not late.       *)
StampsArePast ==
  \A c \in Calls :
    /\ call[c].stamp <= now
    /\ call[c].at = "stamped" => now - call[c].stamp <= MaxDelay

(* Whoever was counted found no member that was outdated for it.           *)
MembersAreFresh ==
  \A m \in members, d \in Calls : Executed(d) => call[d].stamp < FreeAt(m)

(* The key does not expire before its members leave the window.            *)
KeyOutlivesMembers == \A m \in members : FreeAt(m) <= expiry

(* A counted call stays a member while it is in the window.                *)
CountedAreMembers ==
  \A c \in Calls : call[c].at = "counted" => c \in members \/ FreeAt(c) <= now

(* A hint is about a call that had its member; none is given before.       *)
HintsHold ==
  \A c \in Calls :
    oldest[c] # c =>
      /\ call[c].at = "refused"
      /\ call[oldest[c]].at \notin {"idle", "stamped"}
      /\ FreeAt(oldest[c]) <= call[c].stamp + call[c].retryAfter

(* Members that nobody counts on: each cost a failed command.              *)
Leftovers == {m \in members : call[m].at \notin {"counted", "over"}}

LeftoversArePaid == Cardinality(Leftovers) <= errors

Begun == {c \in Calls : call[c].at # "idle"}

IInv ==
  /\ TypeOK
  /\ IsFiniteSet(Begun)
  /\ IsFiniteSet(members)
  /\ StampsArePast
  /\ MembersAreFresh
  /\ KeyOutlivesMembers
  /\ CountedAreMembers
  /\ HintsHold
  /\ LeftoversArePaid
  /\ WindowHoldsLimit

-----------------------------------------------------------------------------
LEMMA Initially == Init => IInv
<1> SUFFICES ASSUME Init PROVE IInv
  OBVIOUS
<1> DEFINE first == [at |-> "idle", stamp |-> 0, retryAfter |-> 0]
<1>1. first \in Calling
  BY DEF Calling, Places
<1>2. call = [c \in Calls |-> first] /\ call \in [Calls -> Calling]
  BY <1>1 DEF Init
<1>3. \A c \in Calls : call[c].at = "idle" /\ call[c].stamp = 0
  BY <1>2
<1>4. /\ members = {} /\ now = 0 /\ expiry = 0 /\ errors = 0
      /\ oldest \in [Calls -> Calls] /\ \A c \in Calls : oldest[c] = c
  BY DEF Init
<1>5. TypeOK
  BY <1>2, <1>4, WindowAssumption DEF TypeOK
<1>6. /\ IsFiniteSet(members) /\ Cardinality({}) = 0 /\ Leftovers = {}
      /\ IsFiniteSet(Begun)
  <2>1. Begun = {}
    BY <1>3 DEF Begun
  <2> QED
    BY <1>4, <2>1, FS_EmptySet DEF Leftovers
<1>7. WindowHoldsLimit
  <2>1. \A t \in 0..MaxTime : CountedIn(t, t + Window - MaxDelay - 1) = {}
    BY <1>3 DEF CountedIn
  <2> QED
    BY <2>1, <1>6, WindowAssumption DEF WindowHoldsLimit
<1>8. StampsArePast
  BY <1>3, <1>4 DEF StampsArePast
<1>9. LeftoversArePaid
  BY <1>4, <1>6 DEF LeftoversArePaid
<1> QED
  BY <1>3, <1>4, <1>5, <1>6, <1>7, <1>8, <1>9
  DEF IInv, MembersAreFresh, KeyOutlivesMembers, CountedAreMembers, HintsHold

(* What the invariant says of the numbers in it.                           *)
LEMMA Numbers ==
  ASSUME IInv
  PROVE  /\ now \in Nat /\ expiry \in Nat /\ errors \in Nat
         /\ Limit \in Nat /\ Window \in Nat /\ MaxDelay \in Nat
         /\ \A c \in Calls : /\ call[c].stamp \in Nat /\ FreeAt(c) \in Nat
                             /\ call[c].retryAfter \in Int
         /\ members \subseteq Calls
         /\ call \in [Calls -> Calling]
BY WindowAssumption DEF IInv, TypeOK, Calling, FreeAt

(* A step of call c, which changes nobody else's entry, and its own time   *)
(* only at the beginning.                                                  *)
IsStepOf(c, at) ==
  /\ call' \in [Calls -> Calling]
  /\ \A d \in Calls \ {c} : call'[d] = call[d]
  /\ call'[c].at = at
  /\ call'[c].stamp = IF call[c].at = "idle" THEN now ELSE call[c].stamp

LEMMA BegunStep ==
  ASSUME IInv, NEW c \in Calls, NEW at, IsStepOf(c, at)
  PROVE  IsFiniteSet(Begun)'
<1>1. Begun' \subseteq Begun \cup {c}
  BY DEF Begun, IsStepOf
<1>2. IsFiniteSet(Begun \cup {c})
  BY FS_AddElement DEF IInv
<1> QED
  BY <1>1, <1>2, FS_Subset

(* An entry whose place alone changes.                                     *)
LEMMA MoveStep ==
  ASSUME IInv, NEW c \in Calls, NEW at \in Places, call[c].at # "idle",
         call' = [call EXCEPT ![c].at = at]
  PROVE  IsStepOf(c, at) /\ call'[c].retryAfter = call[c].retryAfter
<1>1. call \in [Calls -> Calling] /\ call[c] \in Calling
  BY Numbers
<1> DEFINE record == [call[c] EXCEPT !.at = at]
<1>2. /\ record \in Calling /\ record.at = at /\ record.stamp = call[c].stamp
      /\ record.retryAfter = call[c].retryAfter
  BY <1>1 DEF Calling
<1>3. call' = [call EXCEPT ![c] = record]
  BY <1>1
<1> HIDE DEF record
<1> QED
  BY <1>1, <1>2, <1>3 DEF IsStepOf

-----------------------------------------------------------------------------
(* A step that counts nobody and adds no member keeps the parts about      *)
(* members and counted calls.                                              *)
LEMMA QuietStep ==
  ASSUME IInv, NEW c \in Calls, NEW at \in Places \ {"counted"}, IsStepOf(c, at),
         call[c].at # "counted",
         Executed(c)' => Executed(c),
         call[c].at = "idle" => c \notin members,
         members' \subseteq members,
         \A d \in Calls \ {c} : d \in members => d \in members',
         now' = now, expiry' = expiry
  PROVE  /\ IsFiniteSet(members)' /\ MembersAreFresh' /\ KeyOutlivesMembers'
         /\ CountedAreMembers' /\ WindowHoldsLimit'
<1>1. /\ now \in Nat /\ Window \in Nat /\ members \subseteq Calls
      /\ \A d \in Calls : call[d].stamp \in Nat
  BY Numbers
<1>2. IsFiniteSet(members')
  BY FS_Subset DEF IInv
<1>3. \A d \in Calls : d # c => call'[d] = call[d]
  BY DEF IsStepOf
<1>4. \A m \in members' : call'[m].stamp = call[m].stamp
  BY <1>1, <1>3 DEF IsStepOf
<1>5. \A m \in members' : FreeAt(m)' = FreeAt(m)
  BY <1>4 DEF FreeAt
<1>6. \A d \in Calls : Executed(d)' => Executed(d) /\ call'[d].stamp = call[d].stamp
  <2>1. Executed(c) => call[c].at # "idle"
    BY DEF Executed
  <2> QED
    BY <1>3, <2>1 DEF Executed, IsStepOf
<1>7. MembersAreFresh'
  BY <1>5, <1>6 DEF IInv, MembersAreFresh
<1>8. KeyOutlivesMembers'
  BY <1>5 DEF IInv, KeyOutlivesMembers
<1>9. \A d \in Calls : call'[d].at = "counted" <=> call[d].at = "counted"
  BY <1>3 DEF IsStepOf
<1>10. \A d \in Calls : call'[d].at = "counted" => d # c /\ call'[d] = call[d]
  BY <1>3, <1>9
<1>11. CountedAreMembers'
  <2> SUFFICES ASSUME NEW d \in Calls, call'[d].at = "counted"
               PROVE  d \in members' \/ FreeAt(d)' <= now'
    BY DEF CountedAreMembers
  <2>1. d # c /\ call'[d] = call[d] /\ call[d].at = "counted"
    BY <1>9, <1>10
  <2> QED
    BY <2>1 DEF IInv, CountedAreMembers, FreeAt
<1>12. \A from, to : CountedIn(from, to)' = CountedIn(from, to)
  BY <1>9, <1>10 DEF CountedIn
<1>13. WindowHoldsLimit'
  BY <1>12 DEF IInv, WindowHoldsLimit
<1> QED
  BY <1>2, <1>7, <1>8, <1>11, <1>13

(* Hints given before stay good.                                           *)
LEMMA OldHints ==
  ASSUME IInv, NEW c \in Calls, NEW at \in Places, IsStepOf(c, at),
         at # "refused", at = "stamped" => call[c].at = "idle",
         at # "idle", call[c].at # "refused", UNCHANGED oldest
  PROVE  HintsHold'
<1> SUFFICES ASSUME NEW d \in Calls, oldest[d] # d
             PROVE  /\ call'[d].at = "refused"
                    /\ call'[oldest[d]].at \notin {"idle", "stamped"}
                    /\ FreeAt(oldest[d])' <= call'[d].stamp + call'[d].retryAfter
  BY DEF HintsHold
<1>1. d # c /\ call'[d] = call[d] /\ oldest[d] \in Calls
  BY DEF IsStepOf, IInv, TypeOK, HintsHold
<1>2. /\ call[d].at = "refused"
      /\ call[oldest[d]].at \notin {"idle", "stamped"}
      /\ FreeAt(oldest[d]) <= call[d].stamp + call[d].retryAfter
  BY <1>1 DEF IInv, HintsHold
<1>3. call'[oldest[d]].stamp = call[oldest[d]].stamp
  BY <1>1, <1>2 DEF IsStepOf
<1>4. call'[oldest[d]].at \notin {"idle", "stamped"}
  BY <1>1, <1>2 DEF IsStepOf
<1> QED
  BY <1>1, <1>2, <1>3, <1>4 DEF FreeAt

(* Leftovers that were there before stay paid.                             *)
LEMMA OldLeftovers ==
  ASSUME IInv, NEW X, X \subseteq Leftovers
  PROVE  IsFiniteSet(X) /\ Cardinality(X) \in Nat /\ Cardinality(X) <= errors
<1>1. IsFiniteSet(Leftovers)
  BY FS_Subset DEF IInv, Leftovers
<1>2. /\ IsFiniteSet(X) /\ Cardinality(X) <= Cardinality(Leftovers)
      /\ Cardinality(X) \in Nat /\ Cardinality(Leftovers) \in Nat
  BY <1>1, FS_Subset, FS_CardinalityType
<1> QED
  BY <1>2, Numbers DEF IInv, LeftoversArePaid
(* One more of them is paid for by one more failed command.                *)
LEMMA NewLeftover ==
  ASSUME IInv, NEW c, Leftovers' \subseteq Leftovers \cup {c}, errors' = errors + 1
  PROVE  LeftoversArePaid'
<1> DEFINE Old == Leftovers' \ {c}
<1>1. /\ IsFiniteSet(Old) /\ Cardinality(Old) \in Nat /\ Cardinality(Old) <= errors
      /\ errors \in Nat
  BY OldLeftovers, Numbers
<1>2. IsFiniteSet(Old \cup {c}) /\ Cardinality(Old \cup {c}) = Cardinality(Old) + 1
  <2>1. c \notin Old
    OBVIOUS
  <2> HIDE DEF Old
  <2> QED
    BY <1>1, <2>1, FS_AddElement
<1>3. Leftovers' \subseteq Old \cup {c}
  OBVIOUS
<1> HIDE DEF Old
<1>4. /\ Cardinality(Leftovers') <= Cardinality(Old \cup {c})
      /\ Cardinality(Leftovers') \in Nat
  BY <1>2, <1>3, FS_Subset, FS_CardinalityType
<1> QED
  BY <1>1, <1>2, <1>4 DEF LeftoversArePaid

-----------------------------------------------------------------------------
LEMMA CheckKeeps == ASSUME IInv, NEW c \in Calls, Check(c) PROVE IInv'
<1>1. /\ call \in [Calls -> Calling] /\ call[c] \in Calling /\ now \in Nat
      /\ call[c].at = "idle" /\ c \notin members
  BY Numbers DEF Check, IInv, TypeOK
<1>2. UNCHANGED <<now, members, expiry, oldest, errors>>
  BY DEF Check
<1>3. PICK at \in {"uncounted", "stamped"} :
        call' = [call EXCEPT ![c].at = at, ![c].stamp = now]
  BY DEF Check
<1> DEFINE record == [call[c] EXCEPT !.at = at, !.stamp = now]
<1>4. record \in Calling /\ record.at = at /\ record.stamp = now
  BY <1>1 DEF Calling, Places
<1>5. call' = [call EXCEPT ![c] = record]
  BY <1>1, <1>3
<1> HIDE DEF record
<1>6. IsStepOf(c, at)
  BY <1>1, <1>4, <1>5 DEF IsStepOf
<1>7. TypeOK'
  BY <1>1, <1>2, <1>6 DEF IInv, TypeOK, IsStepOf
<1>8. StampsArePast'
  BY <1>1, <1>2, <1>6, Numbers DEF IInv, StampsArePast, IsStepOf
<1>9. HintsHold'
  BY <1>1, <1>2, <1>6, OldHints DEF Places
<1>10. Leftovers' \subseteq Leftovers
  BY <1>1, <1>2, <1>6 DEF Leftovers, IsStepOf, IInv, TypeOK
<1>11. LeftoversArePaid'
  BY <1>2, <1>10, OldLeftovers DEF LeftoversArePaid
<1>12. at \in Places \ {"counted"} /\ (Executed(c)' => Executed(c))
  BY <1>6 DEF Places, Executed, IsStepOf
<1>13. /\ IsFiniteSet(members)' /\ MembersAreFresh' /\ KeyOutlivesMembers'
       /\ CountedAreMembers' /\ WindowHoldsLimit'
  BY <1>1, <1>2, <1>6, <1>12, QuietStep
<1> QED
  BY <1>6, <1>7, <1>8, <1>9, <1>11, <1>13, BegunStep DEF IInv

-----------------------------------------------------------------------------
(* The transaction of call c reaches Redis.                                *)
Reaches(c, at) ==
  /\ call[c].at = "stamped" /\ at \in Places \ {"idle", "stamped", "refused"}
  /\ call' = [call EXCEPT ![c].at = at]
  /\ members' = Counted(c) /\ expiry' = now + Window
  /\ UNCHANGED <<now, oldest>>

LEMMA ReachesFacts ==
  ASSUME IInv, NEW c \in Calls, NEW at, Reaches(c, at)
  PROVE  /\ IsStepOf(c, at)
         /\ \A d \in Calls : FreeAt(d)' = FreeAt(d) /\ call'[d].stamp = call[d].stamp
         /\ members' \subseteq members \cup {c}
         /\ \A m \in members' \ {c} : expiry > now /\ call[c].stamp < FreeAt(m)
         /\ c \in members' /\ c \notin members
<1>1. at \in Places /\ call[c].at # "idle"
  BY DEF Reaches
<1>2. IsStepOf(c, at)
  BY <1>1, MoveStep DEF Reaches
<1>3. \A d \in Calls : call'[d].stamp = call[d].stamp
  BY <1>1, <1>2 DEF IsStepOf
<1>4. /\ now \in Nat /\ expiry \in Nat /\ Window \in Nat /\ members \subseteq Calls
      /\ \A d \in Calls : call[d].stamp \in Nat
  BY Numbers
<1>5. members' \subseteq members \cup {c} /\ c \in members'
  BY DEF Reaches, Counted
<1>6. ASSUME NEW m \in members' \ {c} PROVE expiry > now /\ call[c].stamp < FreeAt(m)
  <2>1. m \in members /\ ~ (expiry <= now) /\ m \notin Outdated(c)
    BY DEF Reaches, Counted
  <2> QED
    BY <1>4, <2>1 DEF Outdated, FreeAt
<1>7. c \notin members
  BY DEF Reaches, IInv, TypeOK
<1> QED
  BY <1>2, <1>3, <1>5, <1>6, <1>7 DEF FreeAt

LEMMA ReachesKeeps ==
  ASSUME IInv, NEW c \in Calls, NEW at, Reaches(c, at), errors' \in 0..MaxErrors
  PROVE  /\ TypeOK' /\ IsFiniteSet(members)' /\ StampsArePast' /\ MembersAreFresh'
         /\ KeyOutlivesMembers' /\ CountedAreMembers' /\ HintsHold'
<1>1. /\ IsStepOf(c, at)
      /\ \A d \in Calls : FreeAt(d)' = FreeAt(d) /\ call'[d].stamp = call[d].stamp
      /\ members' \subseteq members \cup {c}
      /\ \A m \in members' \ {c} : expiry > now /\ call[c].stamp < FreeAt(m)
      /\ c \in members' /\ c \notin members
  BY ReachesFacts
<1>2. /\ now \in Nat /\ expiry \in Nat /\ Window \in Nat \ {0} /\ members \subseteq Calls
      /\ MaxDelay \in Nat /\ MaxDelay < Window
      /\ \A d \in Calls : call[d].stamp \in Nat /\ call[d].stamp <= now
      /\ now - call[c].stamp <= MaxDelay
  BY Numbers, WindowAssumption DEF IInv, StampsArePast, Reaches
<1>3. /\ now' = now /\ oldest' = oldest /\ expiry' = now + Window
      /\ at \in Places \ {"idle", "stamped", "refused"} /\ call[c].at = "stamped"
  BY DEF Reaches
<1>4. \A d \in Calls \ {c} : call'[d] = call[d]
  BY <1>1 DEF IsStepOf
<1>5. TypeOK'
  <2>1. members' \subseteq {d \in Calls : call'[d].at \notin {"idle", "stamped"}}
    BY <1>1, <1>3 DEF IsStepOf, IInv, TypeOK
  <2> QED
    BY <1>1, <1>2, <1>3, <2>1 DEF IsStepOf, IInv, TypeOK
<1>6. IsFiniteSet(members')
  BY <1>1, FS_Subset, FS_AddElement DEF IInv
<1>7. StampsArePast'
  BY <1>1, <1>2, <1>3, <1>4 DEF IInv, StampsArePast, IsStepOf
<1>8. MembersAreFresh'
  <2> SUFFICES ASSUME NEW m \in members', NEW d \in Calls, Executed(d)'
               PROVE  call[d].stamp < FreeAt(m)
    BY <1>1, <1>2 DEF MembersAreFresh
  <2>1. CASE m = c
    BY <1>2, <2>1 DEF FreeAt
  <2>2. CASE m # c /\ d = c
    BY <1>1, <2>2
  <2>3. CASE m # c /\ d # c
    BY <1>1, <1>4, <2>3 DEF IInv, MembersAreFresh, Executed
  <2> QED
    BY <2>1, <2>2, <2>3
<1>9. KeyOutlivesMembers'
  BY <1>1, <1>2, <1>3 DEF KeyOutlivesMembers, FreeAt
<1>10. CountedAreMembers'
  <2> SUFFICES ASSUME NEW d \in Calls, d # c, call[d].at = "counted",
                      d \in members, d \notin members'
               PROVE  FreeAt(d) <= now
    BY <1>1, <1>3, <1>4 DEF IInv, CountedAreMembers
  <2>1. expiry <= now \/ d \in Outdated(c)
    BY DEF Reaches, Counted
  <2>2. FreeAt(d) <= expiry
    BY DEF IInv, KeyOutlivesMembers
  <2>3. CASE expiry <= now
    BY <1>2, <2>2, <2>3 DEF FreeAt
  <2>4. CASE d \in Outdated(c)
    BY <1>2, <2>4 DEF Outdated, FreeAt
  <2> QED
    BY <2>1, <2>3, <2>4
<1>11. HintsHold'
  BY <1>1, <1>3, OldHints
<1> QED
  BY <1>5, <1>6, <1>7, <1>8, <1>9, <1>10, <1>11

(* What was counted in a stretch of time shorter than the window, less the *)
(* delay, that call c falls into, is still in the set when c is counted.   *)
LEMMA StretchIsInTheSet ==
  ASSUME IInv, NEW c \in Calls, Reaches(c, "counted"), NEW t \in Nat,
         call[c].stamp \in t .. t + Window - MaxDelay - 1,
         NEW d \in Calls \ {c}, call[d].at = "counted",
         call[d].stamp \in t .. t + Window - MaxDelay - 1
  PROVE  d \in Counted(c)
<1>1. /\ now \in Nat /\ expiry \in Nat /\ Window \in Nat /\ MaxDelay \in Nat
      /\ call[c].stamp \in Nat /\ call[d].stamp \in Nat
      /\ call[c].stamp <= now /\ now - call[c].stamp <= MaxDelay
  BY Numbers DEF IInv, StampsArePast, Reaches
<1>2. call[c].stamp - Window < call[d].stamp
  BY <1>1
<1>3. ~ (call[d].stamp + Window <= now)
  BY <1>1
<1>4. d \in members
  BY <1>3 DEF IInv, CountedAreMembers, FreeAt
<1>5. expiry > now
  BY <1>1, <1>3, <1>4 DEF IInv, KeyOutlivesMembers, FreeAt
<1> QED
  BY <1>1, <1>2, <1>4, <1>5 DEF Counted, Outdated

LEMMA ExecKeeps == ASSUME IInv, NEW c \in Calls, Exec(c) PROVE IInv'
<1>1. PICK at \in {"counted", "over"} :
        /\ at = (IF Cardinality(Counted(c)) <= Limit THEN "counted" ELSE "over")
        /\ call' = [call EXCEPT ![c].at = at]
  BY DEF Exec
<1>2. Reaches(c, at) /\ errors' = errors
  BY <1>1 DEF Exec, Reaches, Places
<1>3. errors' \in 0..MaxErrors
  BY <1>2 DEF IInv, TypeOK
<1>4. /\ TypeOK' /\ IsFiniteSet(members)' /\ StampsArePast' /\ MembersAreFresh'
      /\ KeyOutlivesMembers' /\ CountedAreMembers' /\ HintsHold'
  BY <1>2, <1>3, ReachesKeeps
<1>5. /\ IsStepOf(c, at) /\ members' \subseteq members \cup {c} /\ members' = Counted(c)
      /\ \A d \in Calls : call'[d].stamp = call[d].stamp
      /\ call[c].at = "stamped" /\ members \subseteq Calls
  BY <1>2, ReachesFacts, Numbers DEF Exec
<1>6. LeftoversArePaid'
  <2>1. Leftovers' \subseteq Leftovers
    BY <1>1, <1>5 DEF Leftovers, IsStepOf
  <2> QED
    BY <1>2, <2>1, OldLeftovers DEF LeftoversArePaid
<1>7. WindowHoldsLimit'
  <2> SUFFICES ASSUME NEW t \in 0..MaxTime
               PROVE  Cardinality(CountedIn(t, t + Window - MaxDelay - 1)') <= Limit
    BY DEF WindowHoldsLimit
  <2>1. t \in Nat
    BY WindowAssumption
  <2>2. CASE at = "counted" /\ call[c].stamp \in t .. t + Window - MaxDelay - 1
    <3>1. CountedIn(t, t + Window - MaxDelay - 1)' \subseteq Counted(c)
      <4> SUFFICES ASSUME NEW d \in Calls, d # c, call'[d].at = "counted",
                          call'[d].stamp \in t .. t + Window - MaxDelay - 1
                   PROVE  d \in Counted(c)
        BY <1>2, ReachesFacts DEF CountedIn, Counted
      <4>1. call[d].at = "counted" /\ call[d].stamp \in t .. t + Window - MaxDelay - 1
        BY <1>5 DEF IsStepOf
      <4> QED
        BY <1>2, <2>1, <2>2, <4>1, StretchIsInTheSet
    <3>2. /\ IsFiniteSet(Counted(c)) /\ Cardinality(Counted(c)) <= Limit
          /\ Cardinality(Counted(c)) \in Nat /\ Limit \in Nat
      BY <1>1, <1>4, <1>5, <2>2, FS_CardinalityType, WindowAssumption
    <3>3. /\ IsFiniteSet(CountedIn(t, t + Window - MaxDelay - 1)')
          /\ Cardinality(CountedIn(t, t + Window - MaxDelay - 1)') <= Cardinality(Counted(c))
      BY <3>1, <3>2, FS_Subset
    <3>4. Cardinality(CountedIn(t, t + Window - MaxDelay - 1)') \in Nat
      BY <3>3, FS_CardinalityType
    <3> QED
      BY <3>2, <3>3, <3>4
  <2>3. CASE ~ (at = "counted" /\ call[c].stamp \in t .. t + Window - MaxDelay - 1)
    <3>1. \A d \in Calls :
            /\ call'[d].at = "counted"
            /\ call'[d].stamp \in t .. t + Window - MaxDelay - 1
            <=> /\ call[d].at = "counted"
                /\ call[d].stamp \in t .. t + Window - MaxDelay - 1
      BY <1>1, <1>5, <2>3 DEF IsStepOf
    <3>2. CountedIn(t, t + Window - MaxDelay - 1)' = CountedIn(t, t + Window - MaxDelay - 1)
      BY <3>1 DEF CountedIn
    <3> QED
      BY <3>2 DEF IInv, WindowHoldsLimit
  <2> QED
    BY <2>2, <2>3
<1> QED
  BY <1>4, <1>5, <1>6, <1>7, BegunStep DEF IInv

(* A failed command: errors stay within their bound.                       *)
LEMMA ErrorStep ==
  ASSUME IInv, Error
  PROVE  errors' = errors + 1 /\ errors' \in 0..MaxErrors
BY WindowAssumption DEF Error, IInv, TypeOK

LEMMA ExecFailsKeeps == ASSUME IInv, NEW c \in Calls, ExecFails(c) PROVE IInv'
<1>1. /\ call[c].at = "stamped" /\ call' = [call EXCEPT ![c].at = "uncounted"]
      /\ UNCHANGED <<now, oldest>>
      /\ errors' = errors + 1 /\ errors' \in 0..MaxErrors
  BY ErrorStep DEF ExecFails
<1>2. IsStepOf(c, "uncounted")
  BY <1>1, MoveStep DEF Places
<1>3. CASE UNCHANGED <<members, expiry>>
  <2>1. "uncounted" \in Places \ {"counted"} /\ ~ Executed(c)'
    BY <1>2 DEF Places, Executed, IsStepOf
  <2>2. /\ IsFiniteSet(members)' /\ MembersAreFresh' /\ KeyOutlivesMembers'
        /\ CountedAreMembers' /\ WindowHoldsLimit'
    BY <1>1, <1>2, <1>3, <2>1, QuietStep
  <2>3. c \notin members
    BY <1>1 DEF IInv, TypeOK
  <2>4. TypeOK'
    BY <1>1, <1>2, <1>3, <2>3 DEF IInv, TypeOK, IsStepOf
  <2>5. StampsArePast'
    BY <1>1, <1>2, Numbers DEF IInv, StampsArePast, IsStepOf
  <2>6. HintsHold'
    BY <1>1, <1>2, <2>1, OldHints
  <2>7. Leftovers' \subseteq Leftovers \cup {c}
    BY <1>2, <1>3, Numbers DEF Leftovers, IsStepOf
  <2>8. LeftoversArePaid'
    BY <1>1, <2>7, NewLeftover
  <2> QED
    BY <1>2, <2>2, <2>4, <2>5, <2>6, <2>8, BegunStep DEF IInv
<1>4. CASE members' = Counted(c) /\ expiry' = now + Window
  <2>1. Reaches(c, "uncounted")
    BY <1>1, <1>4 DEF Reaches, Places
  <2>2. /\ TypeOK' /\ IsFiniteSet(members)' /\ StampsArePast' /\ MembersAreFresh'
        /\ KeyOutlivesMembers' /\ CountedAreMembers' /\ HintsHold'
    BY <1>1, <2>1, ReachesKeeps
  <2>3. members' \subseteq members \cup {c}
    BY <2>1, ReachesFacts
  <2>4. Leftovers' \subseteq Leftovers \cup {c}
    BY <1>2, <2>3, Numbers DEF Leftovers, IsStepOf
  <2>5. LeftoversArePaid'
    BY <1>1, <2>4, NewLeftover
  <2>6. \A d \in Calls :
          /\ call'[d].at = "counted" <=> call[d].at = "counted"
          /\ call'[d].stamp = call[d].stamp
    BY <1>1, <1>2 DEF IsStepOf
  <2>7. \A from, to : CountedIn(from, to)' = CountedIn(from, to)
    BY <2>6 DEF CountedIn
  <2>8. WindowHoldsLimit'
    BY <2>7 DEF IInv, WindowHoldsLimit
  <2> QED
    BY <1>2, <2>2, <2>5, <2>8, BegunStep DEF IInv
<1> QED
  BY <1>3, <1>4 DEF ExecFails

-----------------------------------------------------------------------------
LEMMA RemoveKeeps == ASSUME IInv, NEW c \in Calls, Remove(c) PROVE IInv'
<1>1. /\ call[c].at = "over" /\ call' = [call EXCEPT ![c].at = "removed"]
      /\ UNCHANGED <<now, expiry, oldest>>
      /\ members' \in {members, members \ {c}}
      /\ errors' \in 0..MaxErrors
  BY ErrorStep DEF Remove, IInv, TypeOK
<1>2. IsStepOf(c, "removed") /\ "removed" \in Places \ {"counted"} /\ Executed(c)
  BY <1>1, MoveStep DEF Places, Executed
<1>3. /\ IsFiniteSet(members)' /\ MembersAreFresh' /\ KeyOutlivesMembers'
      /\ CountedAreMembers' /\ WindowHoldsLimit'
  BY <1>1, <1>2, QuietStep
<1>4. TypeOK'
  BY <1>1, <1>2 DEF IInv, TypeOK, IsStepOf
<1>5. StampsArePast'
  BY <1>1, <1>2, Numbers DEF IInv, StampsArePast, IsStepOf
<1>6. HintsHold'
  BY <1>1, <1>2, OldHints
<1>7. LeftoversArePaid'
  <2>1. CASE members' = members \ {c} /\ errors' = errors
    <3>1. Leftovers' \subseteq Leftovers
      BY <1>2, <2>1, Numbers DEF Leftovers, IsStepOf
    <3> QED
      BY <2>1, <3>1, OldLeftovers DEF LeftoversArePaid
  <2>2. CASE members' = members /\ Error
    <3>1. Leftovers' \subseteq Leftovers \cup {c}
      BY <1>2, <2>2, Numbers DEF Leftovers, IsStepOf
    <3> QED
      BY <2>2, <3>1, ErrorStep, NewLeftover
  <2> QED
    BY <2>1, <2>2 DEF Remove
<1> QED
  BY <1>2, <1>3, <1>4, <1>5, <1>6, <1>7, BegunStep DEF IInv

-----------------------------------------------------------------------------
LEMMA RetryAfterKeeps == ASSUME IInv, NEW c \in Calls, RetryAfter(c) PROVE IInv'
<1>1. /\ call \in [Calls -> Calling] /\ call[c] \in Calling /\ call[c].at = "removed"
      /\ UNCHANGED <<now, members, expiry>> /\ members \subseteq Calls
      /\ Window \in Nat /\ \A d \in Calls : FreeAt(d) \in Nat /\ call[d].stamp \in Nat
  BY Numbers DEF RetryAfter
<1>2. errors' \in 0..MaxErrors /\ errors' \in {errors, errors + 1}
  BY ErrorStep DEF RetryAfter, IInv, TypeOK
<1>3. oldest \in [Calls -> Calls] /\ oldest[c] = c
  BY <1>1 DEF IInv, TypeOK, HintsHold
<1>4. PICK hint \in Int :
        /\ call' = [call EXCEPT ![c].at = "refused", ![c].retryAfter = hint]
        /\ \/ oldest' = oldest
           \/ \E m \in members : /\ oldest' = [oldest EXCEPT ![c] = m]
                                 /\ FreeAt(m) <= call[c].stamp + hint
  <2>1. ASSUME NEW m \in Live,
               LET d == FreeAt(m) - call[c].stamp IN
                 call' = [call EXCEPT ![c].at = "refused",
                                      ![c].retryAfter = IF d > 0 THEN d ELSE 0],
               oldest' = [oldest EXCEPT ![c] = m]
        PROVE  \E hint \in Int :
                 /\ call' = [call EXCEPT ![c].at = "refused", ![c].retryAfter = hint]
                 /\ oldest' = [oldest EXCEPT ![c] = m]
                 /\ m \in members /\ FreeAt(m) <= call[c].stamp + hint
    <3> DEFINE hint == IF FreeAt(m) - call[c].stamp > 0
                       THEN FreeAt(m) - call[c].stamp ELSE 0
    <3>1. m \in members
      BY DEF Live
    <3>2. hint \in Int /\ FreeAt(m) <= call[c].stamp + hint
      BY <1>1, <3>1
    <3>3. call' = [call EXCEPT ![c].at = "refused", ![c].retryAfter = hint]
      BY <2>1
    <3> HIDE DEF hint
    <3> QED
      BY <2>1, <3>1, <3>2, <3>3
  <2>2. CASE /\ call' = [call EXCEPT ![c].at = "refused", ![c].retryAfter = Window]
             /\ oldest' = oldest
    <3>1. Window \in Int
      BY <1>1
    <3> QED
      BY <2>2, <3>1
  <2>3. \/ \E m \in Live :
             /\ LET d == FreeAt(m) - call[c].stamp IN
                  call' = [call EXCEPT ![c].at = "refused",
                                       ![c].retryAfter = IF d > 0 THEN d ELSE 0]
             /\ oldest' = [oldest EXCEPT ![c] = m]
        \/ /\ call' = [call EXCEPT ![c].at = "refused", ![c].retryAfter = Window]
           /\ oldest' = oldest
    BY DEF RetryAfter
  <2> QED
    BY <2>1, <2>2, <2>3
<1> DEFINE record == [call[c] EXCEPT !.at = "refused", !.retryAfter = hint]
<1>5. /\ record \in Calling /\ record.at = "refused"
      /\ record.stamp = call[c].stamp /\ record.retryAfter = hint
  BY <1>1 DEF Calling, Places
<1>6. call' = [call EXCEPT ![c] = record]
  BY <1>1, <1>4
<1> HIDE DEF record
<1>7. IsStepOf(c, "refused") /\ call'[c].retryAfter = hint
  BY <1>1, <1>5, <1>6 DEF IsStepOf
<1>8. "refused" \in Places \ {"counted"} /\ Executed(c)
  BY <1>1 DEF Places, Executed
<1>9. /\ IsFiniteSet(members)' /\ MembersAreFresh' /\ KeyOutlivesMembers'
      /\ CountedAreMembers' /\ WindowHoldsLimit'
  BY <1>1, <1>7, <1>8, QuietStep
<1>10. TypeOK'
  <2>1. oldest' \in [Calls -> Calls]
    BY <1>1, <1>3, <1>4
  <2> QED
    BY <1>1, <1>2, <1>7, <2>1 DEF IInv, TypeOK, IsStepOf
<1>11. StampsArePast'
  BY <1>1, <1>7, Numbers DEF IInv, StampsArePast, IsStepOf
<1>12. \A d \in Calls : call[d].at \notin {"idle", "stamped"} =>
                        /\ call'[d].at \notin {"idle", "stamped"}
                        /\ call'[d].stamp = call[d].stamp
  BY <1>1, <1>7 DEF IsStepOf
<1>13. HintsHold'
  <2> SUFFICES ASSUME NEW d \in Calls, oldest'[d] # d
               PROVE  /\ call'[d].at = "refused"
                      /\ call'[oldest'[d]].at \notin {"idle", "stamped"}
                      /\ call'[oldest'[d]].stamp + Window <=
                           call'[d].stamp + call'[d].retryAfter
    BY DEF HintsHold, FreeAt
  <2>1. CASE d = c
    <3>1. PICK m \in members : /\ oldest' = [oldest EXCEPT ![c] = m]
                               /\ FreeAt(m) <= call[c].stamp + hint
      BY <1>3, <1>4, <2>1
    <3>2. oldest'[d] = m /\ call[m].at \notin {"idle", "stamped"}
      BY <1>3, <2>1, <3>1 DEF IInv, TypeOK
    <3>3. /\ call'[m].stamp = call[m].stamp
          /\ call'[m].at \notin {"idle", "stamped"}
      BY <1>1, <1>12, <3>2
    <3>4. call'[c].at = "refused" /\ call'[c].stamp = call[c].stamp
      BY <1>1, <1>7 DEF IsStepOf
    <3> QED
      BY <1>7, <2>1, <3>1, <3>2, <3>3, <3>4 DEF FreeAt
  <2>2. CASE d # c
    <3>1. oldest'[d] = oldest[d] /\ oldest[d] \in Calls /\ call'[d] = call[d]
      BY <1>3, <1>4, <1>7, <2>2 DEF IsStepOf
    <3>2. /\ call[d].at = "refused"
          /\ call[oldest[d]].at \notin {"idle", "stamped"}
          /\ FreeAt(oldest[d]) <= call[d].stamp + call[d].retryAfter
      BY <3>1 DEF IInv, HintsHold
    <3>3. call'[oldest[d]].stamp = call[oldest[d]].stamp
      BY <1>12, <3>1, <3>2
    <3> QED
      BY <1>12, <3>1, <3>2, <3>3 DEF FreeAt
  <2> QED
    BY <2>1, <2>2
<1>14. Leftovers' \subseteq Leftovers
  BY <1>1, <1>7 DEF Leftovers, IsStepOf
<1>15. LeftoversArePaid'
  BY <1>2, <1>14, OldLeftovers, Numbers DEF LeftoversArePaid
<1> QED
  BY <1>7, <1>9, <1>10, <1>11, <1>13, <1>15, BegunStep DEF IInv

-----------------------------------------------------------------------------
LEMMA TickKeeps == ASSUME IInv, Tick PROVE IInv'
<1>1. /\ now \in Nat /\ now' = now + 1 /\ now' \in 0..MaxTime
      /\ UNCHANGED <<call, members, expiry, oldest, errors>>
      /\ Window \in Nat /\ MaxDelay \in Nat /\ \A d \in Calls : call[d].stamp \in Nat
  BY Numbers, WindowAssumption DEF Tick
<1>2. TypeOK'
  BY <1>1 DEF IInv, TypeOK
<1>3. StampsArePast'
  BY <1>1 DEF IInv, StampsArePast, Tick
<1>4. CountedAreMembers'
  BY <1>1 DEF IInv, CountedAreMembers, FreeAt
<1>5. MembersAreFresh' /\ KeyOutlivesMembers' /\ HintsHold'
  BY <1>1 DEF IInv, MembersAreFresh, KeyOutlivesMembers, HintsHold, FreeAt, Executed
<1>6. LeftoversArePaid' /\ IsFiniteSet(members)' /\ IsFiniteSet(Begun)'
  BY <1>1 DEF IInv, LeftoversArePaid, Leftovers, Begun
<1>7. WindowHoldsLimit'
  BY <1>1 DEF IInv, WindowHoldsLimit, CountedIn
<1> QED
  BY <1>2, <1>3, <1>4, <1>5, <1>6, <1>7 DEF IInv

LEMMA Inductive == IInv /\ [Next]_limiter => IInv'
<1> SUFFICES ASSUME IInv, [Next]_limiter PROVE IInv'
  OBVIOUS
<1>1. CASE Tick
  BY <1>1, TickKeeps
<1>2. ASSUME NEW c \in Calls, CallStep(c) PROVE IInv'
  BY <1>2, CheckKeeps, ExecKeeps, ExecFailsKeeps, RemoveKeeps, RetryAfterKeeps
  DEF CallStep
<1>3. CASE UNCHANGED limiter
  BY <1>3 DEF limiter, IInv, TypeOK, StampsArePast, MembersAreFresh, KeyOutlivesMembers,
     CountedAreMembers, HintsHold, LeftoversArePaid, Leftovers, WindowHoldsLimit,
     CountedIn, FreeAt, Executed, Begun
<1> QED
  BY <1>1, <1>2, <1>3 DEF Next

LEMMA HintIsEnough == IInv => RetryAfterIsEnough
<1> SUFFICES ASSUME IInv, NEW c \in Calls, NEW d \in Calls, Executed(d),
                    call[d].stamp >= call[c].stamp + call[c].retryAfter,
                    oldest[c] # c, oldest[c] \in members
             PROVE  FALSE
  BY DEF RetryAfterIsEnough
<1>1. FreeAt(oldest[c]) <= call[c].stamp + call[c].retryAfter
  BY DEF IInv, HintsHold
<1>2. call[d].stamp < FreeAt(oldest[c])
  BY DEF IInv, MembersAreFresh
<1>3. oldest[c] \in Calls
  BY DEF IInv, TypeOK
<1> QED
  BY <1>1, <1>2, <1>3, Numbers

(* The calls that fill the window before call c.                           *)
Rivals(c) ==
  {d \in Calls \ {c} : /\ call[d].at \in {"counted", "over"}
                       /\ call[d].stamp > call[c].stamp - Window}

LEMMA RefusedWhenFullStep ==
  ASSUME IInv, [Next]_limiter, NEW c \in Calls,
         call[c].at = "stamped", call'[c].at = "over"
  PROVE  Limit <= errors + Cardinality(Rivals(c))
<1>1. Exec(c)
  <2>1. PICK d \in Calls : CallStep(d)
    BY DEF Next, Tick, limiter
  <2>2. call \in [Calls -> Calling] /\ call[c] \in Calling
    BY Numbers
  <2>3. d = c
    BY <2>1, <2>2 DEF CallStep, Check, Exec, ExecFails, Remove, RetryAfter
  <2>4. ~ Check(c) /\ ~ Remove(c) /\ ~ RetryAfter(c)
    BY DEF Check, Remove, RetryAfter
  <2>5. ~ ExecFails(c)
    <3>1. ASSUME call' = [call EXCEPT ![c].at = "uncounted"]
          PROVE  call'[c].at = "uncounted"
      BY <2>2, <3>1 DEF Calling
    <3> QED
      BY <3>1 DEF ExecFails
  <2> QED
    BY <2>1, <2>3, <2>4, <2>5 DEF CallStep
<1>2. /\ call'[c].at = IF Cardinality(Counted(c)) <= Limit THEN "counted" ELSE "over"
      /\ call' = [call EXCEPT ![c].at =
                    IF Cardinality(Counted(c)) <= Limit THEN "counted" ELSE "over"]
  BY <1>1, Numbers DEF Exec, Calling
<1>3. Reaches(c, "over") /\ ~ (Cardinality(Counted(c)) <= Limit)
  BY <1>1, <1>2 DEF Exec, Reaches, Places
<1> DEFINE Others == Counted(c) \ {c}
           Idle   == Others \cap Leftovers
           Busy   == Others \ Leftovers
<1>4. Others \subseteq members /\ \A m \in Others : call[c].stamp < FreeAt(m)
  BY <1>3, ReachesFacts DEF Reaches
<1>5. /\ IsFiniteSet(Idle) /\ Cardinality(Idle) \in Nat /\ Cardinality(Idle) <= errors
  BY OldLeftovers
<1>6. IsFiniteSet(Others) /\ IsFiniteSet(Busy)
  BY <1>4, FS_Subset DEF IInv
<1>7. Busy \subseteq Rivals(c)
  BY <1>4, Numbers DEF Rivals, Leftovers, FreeAt
<1>8. Cardinality(Others) >= Limit
  <2>1. c \notin Others /\ Counted(c) = Others \cup {c}
    BY DEF Counted
  <2> HIDE DEF Others
  <2>2. Cardinality(Counted(c)) = Cardinality(Others) + 1 /\ Cardinality(Others) \in Nat
    BY <1>6, <2>1, FS_AddElement, FS_CardinalityType
  <2> QED
    BY <1>3, <2>2, WindowAssumption
<1>9. Others = Idle \cup Busy /\ Idle \cap Busy = {}
  OBVIOUS
<1> HIDE DEF Others, Idle, Busy
<1>10. /\ Cardinality(Others) = Cardinality(Idle) + Cardinality(Busy)
      /\ Cardinality(Busy) \in Nat
  <2>1. Cardinality(Idle \cap Busy) = 0
    BY <1>9, FS_EmptySet
  <2>2. Cardinality(Idle \cup Busy) =
          Cardinality(Idle) + Cardinality(Busy) - Cardinality(Idle \cap Busy)
    BY <1>5, <1>6, FS_Union
  <2>3. Cardinality(Busy) \in Nat
    BY <1>6, FS_CardinalityType
  <2> QED
    BY <1>5, <1>9, <2>1, <2>2, <2>3
<1>11. Cardinality(Busy) <= Cardinality(Rivals(c)) /\ Cardinality(Rivals(c)) \in Nat
  <2>1. Rivals(c) \subseteq Begun
    BY DEF Rivals, Begun
  <2>2. IsFiniteSet(Rivals(c))
    BY <2>1, FS_Subset DEF IInv
  <2> QED
    BY <1>7, <2>2, FS_Subset, FS_CardinalityType
<1> QED
  BY <1>5, <1>8, <1>10, <1>11, Numbers

-----------------------------------------------------------------------------
(* The invariant of the limiter: how the set, the key's expiry and the     *)
(* clocks that the calls have read are related.                            *)
THEOREM Invariance == Spec => []IInv
<1> QED
  BY Initially, Inductive, PTL DEF Spec

(* Only calls whose transaction was sent are members.                      *)
THEOREM TypeCorrectness == Spec => []TypeOK
<1>1. IInv => TypeOK
  BY DEF IInv
<1> QED
  BY <1>1, Invariance, PTL

(* No window, less the delay, holds more counted calls than the limit, for *)
(* any limit, window and delay, and however many calls there are.          *)
THEOREM LimitHolds == Spec => []WindowHoldsLimit
<1>1. IInv => WindowHoldsLimit
  BY DEF IInv
<1> QED
  BY <1>1, Invariance, PTL

(* Whoever waits as long as he was told finds that member gone.            *)
THEOREM HintsAreEnough == Spec => []RetryAfterIsEnough
<1> QED
  BY Invariance, HintIsEnough, PTL

(* Nobody is refused while the window has room, but for what failed        *)
(* commands left in the set.                                               *)
THEOREM RefusalsAreDue == Spec => RefusedWhenFull
<1>1. IInv /\ [Next]_limiter =>
        [\A c \in Calls :
           (call[c].at = "stamped" /\ call'[c].at = "over") =>
             Limit <= errors +
               Cardinality({d \in Calls \ {c} :
                              /\ call[d].at \in {"counted", "over"}
                              /\ call[d].stamp > call[c].stamp - Window})]_limiter
  BY RefusedWhenFullStep DEF Rivals
<1> QED
  BY <1>1, Invariance, PTL DEF Spec, RefusedWhenFull
=============================================================================
