---------------------------- MODULE RateLimiter -----------------------------
(***************************************************************************)
(* The quota of one subject: quota.Enforced.Check over the sliding window  *)
(* that rate_limiter.Limiter.AllowKey keeps in a Redis sorted set.         *)
(*                                                                         *)
(* A call reads its own process's clock, then changes and counts the set   *)
(* in one Redis transaction, and takes its member out again, in a command  *)
(* of its own, when it was one too many.  Calls of any number of processes *)
(* overlap; each has a member no other call has, so the call stands for    *)
(* its member.  MaxDelay bounds how far the clock a call read is behind    *)
(* Redis when its transaction runs, latency and skew together.             *)
(***************************************************************************)
EXTENDS Integers, FiniteSets

CONSTANTS
  Calls,         \* calls of Check for the subject
  Plans,         \* plans a session may carry
  LimitedPlans,  \* those whose rule has a limit
  Limit,         \* the rule's limit ...
  Window,        \* ... and window, in ticks
  MaxDelay,      \* bound on the delay of a call's transaction, in ticks
  MaxTime,       \* bound on the time of a behaviour
  MaxErrors      \* bound on the failing Redis commands of a behaviour

ASSUME PlansAssumption == LimitedPlans \subseteq Plans

ASSUME WindowAssumption ==
  /\ Limit \in Nat \ {0} /\ Window \in Nat \ {0} /\ MaxDelay \in Nat
  /\ MaxDelay < Window
  /\ MaxTime \in Nat /\ MaxErrors \in Nat

VARIABLES
  now,      \* Redis's clock
  call,     \* each call: where it is, the time it read, its hint
  members,  \* the sorted set: the calls whose member it holds
  expiry,   \* when the key expires
  oldest,   \* the member a refused call's hint is about
  errors    \* failing commands so far

limiter == <<now, call, members, expiry, oldest, errors>>

Places == {"idle", "stamped", "counted", "uncounted", "over", "removed",
           "refused"}
Calling == [at: Places, stamp: Nat, retryAfter: Int]

Init ==
  /\ now = 0
  /\ call = [c \in Calls |-> [at |-> "idle", stamp |-> 0, retryAfter |-> 0]]
  /\ members = {}
  /\ expiry = 0
  /\ oldest = [c \in Calls |-> c]
  /\ errors = 0

Error == errors < MaxErrors /\ errors' = errors + 1

Unlimited(plan) == plan \notin LimitedPlans

-----------------------------------------------------------------------------
(* Check and the first line of AllowKey: a plan without a limit does not   *)
(* touch Redis.                                                            *)
Check(c) ==
  /\ call[c].at = "idle"
  /\ \E plan \in Plans :
       call' = [call EXCEPT ![c].at = IF Unlimited(plan) THEN "uncounted"
                                                         ELSE "stamped",
                            ![c].stamp = now]
  /\ UNCHANGED <<now, members, expiry, oldest, errors>>

(* A bug in Outdated: the bound of the range is exclusive.                 *)
OutdatedMutant(c) == {m \in members : call[m].stamp < call[c].stamp - Window}

(* ZREMRANGEBYSCORE key 0 nowMs-windowMs                                   *)
Outdated(c) == {m \in members : call[m].stamp <= call[c].stamp - Window}

(* A bug in Counted: the call is added only after it was counted.          *)
CountedMutant(c) == members \ Outdated(c)

(* The set after the transaction: an expired key is an empty set.          *)
Counted(c) ==
  (IF expiry <= now THEN {} ELSE members \ Outdated(c)) \cup {c}

(* The transaction, and the comparison of its ZCARD with the limit.        *)
Exec(c) ==
  /\ call[c].at = "stamped"
  /\ members' = Counted(c)
  /\ expiry' = now + Window
  /\ call' = [call EXCEPT ![c].at =
                IF Cardinality(Counted(c)) <= Limit THEN "counted" ELSE "over"]
  /\ UNCHANGED <<now, oldest, errors>>

(* The transaction fails, or its answer is lost, and both callers of Check *)
(* let the call pass.                                                      *)
ExecFails(c) ==
  /\ call[c].at = "stamped"
  /\ Error
  /\ \/ UNCHANGED <<members, expiry>>
     \/ members' = Counted(c) /\ expiry' = now + Window
  /\ call' = [call EXCEPT ![c].at = "uncounted"]
  /\ UNCHANGED <<now, oldest>>

(* A bug in Remove: the member stays.                                      *)
RemoveMutant(c) ==
  /\ call[c].at = "over"
  /\ call' = [call EXCEPT ![c].at = "removed"]
  /\ UNCHANGED <<now, members, expiry, oldest, errors>>

(* ZREM, whose failure is ignored.                                         *)
Remove(c) ==
  /\ call[c].at = "over"
  /\ \/ members' = members \ {c} /\ errors' = errors
     \/ members' = members /\ Error
  /\ call' = [call EXCEPT ![c].at = "removed"]
  /\ UNCHANGED <<now, expiry, oldest>>

FreeAt(m) == call[m].stamp + Window

Live == IF expiry <= now THEN {} ELSE members

(* retryAfter: how long until the oldest member leaves the window; a whole *)
(* window when there is none or Redis fails.                               *)
RetryAfter(c) ==
  /\ call[c].at = "removed"
  /\ \/ \E m \in Live :
          /\ \A n \in Live : call[m].stamp <= call[n].stamp
          /\ LET d == FreeAt(m) - call[c].stamp IN
               call' = [call EXCEPT ![c].at = "refused",
                                    ![c].retryAfter = IF d > 0 THEN d ELSE 0]
          /\ oldest' = [oldest EXCEPT ![c] = m]
          /\ errors' = errors
     \/ /\ IF Live = {} THEN errors' = errors ELSE Error
        /\ call' = [call EXCEPT ![c].at = "refused", ![c].retryAfter = Window]
        /\ oldest' = oldest
  /\ UNCHANGED <<now, members, expiry>>

(* Time passes, but for no longer than a transaction may be delayed.       *)
Tick ==
  /\ now < MaxTime
  /\ \A c \in Calls :
       call[c].at = "stamped" => now - call[c].stamp < MaxDelay
  /\ now' = now + 1
  /\ UNCHANGED <<call, members, expiry, oldest, errors>>

CallStep(c) ==
  Check(c) \/ Exec(c) \/ ExecFails(c) \/ Remove(c) \/ RetryAfter(c)

Next == Tick \/ \E c \in Calls : CallStep(c)

Spec == Init /\ [][Next]_limiter

-----------------------------------------------------------------------------
(* Clocks, calls and the sorted set have their shapes; a call is a member  *)
(* only after its transaction.                                             *)
TypeOK ==
  /\ now \in 0..MaxTime
  /\ call \in [Calls -> Calling]
  /\ members \subseteq {c \in Calls : call[c].at \notin {"idle", "stamped"}}
  /\ expiry \in Nat
  /\ oldest \in [Calls -> Calls]
  /\ errors \in 0..MaxErrors

(* The calls that were let through and counted, read between two times.    *)
CountedIn(from, to) ==
  {c \in Calls : call[c].at = "counted" /\ call[c].stamp \in from..to}

(* However the calls of different processes overlap, no stretch of time of *)
(* the length of the window, less the delay of a transaction, holds more   *)
(* counted calls than the limit.                                           *)
WindowHoldsLimit ==
  \A t \in 0..MaxTime :
    Cardinality(CountedIn(t, t + Window - MaxDelay - 1)) <= Limit

Executed(c) == call[c].at \in {"counted", "over", "removed", "refused"}

(* Whoever waits as long as a refusal told him finds the member gone that  *)
(* the hint was about.                                                     *)
RetryAfterIsEnough ==
  \A c, d \in Calls :
    (/\ call[c].at = "refused" /\ Executed(d)
     /\ call[d].stamp >= call[c].stamp + call[c].retryAfter
     /\ oldest[c] # c)
      => oldest[c] \notin members

(* A call is refused only if, within the window before it, enough others   *)
(* were counted, or are themselves being refused and have yet to take      *)
(* their members out; a failed command may cost one more.                  *)
RefusedWhenFull ==
  [][\A c \in Calls :
       (call[c].at = "stamped" /\ call'[c].at = "over") =>
         Limit <= errors +
           Cardinality({d \in Calls \ {c} :
                          /\ call[d].at \in {"counted", "over"}
                          /\ call[d].stamp > call[c].stamp - Window})]_limiter
=============================================================================
