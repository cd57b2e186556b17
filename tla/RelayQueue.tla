----------------------------- MODULE RelayQueue -----------------------------
(***************************************************************************)
(* The outbox table as a queue: rows are written by transactions that      *)
(* overlap, and carry the time their transaction began; relays take the    *)
(* oldest rows they see, a batch at a time, and go on within a tick as     *)
(* long as whole batches get through.                                      *)
(***************************************************************************)
EXTENDS Integers, FiniteSets

CONSTANTS
  Rows,
  Refused,    \* rows of a topic that Kafka takes no records of
  Relays,
  BatchSize

(* A batch has room beside the rows that stay: ORDER BY and LIMIT select   *)
(* those again and again.                                                  *)
ASSUME RelayQueueAssumption ==
  /\ IsFiniteSet(Rows) /\ Refused \subseteq Rows
  /\ BatchSize \in Nat /\ Cardinality(Refused) < BatchSize

VARIABLES
  created,     \* created_at, 0 before the row's transaction begins
  seen,        \* history: the rows that were visible then
  visible,     \* committed rows
  published,   \* those with published_at
  sent,        \* rows Kafka has acknowledged
  at,          \* each relay: "asleep", "awake", "selected", "sent"
  batch,       \* its rows, which it has locked
  acked        \* publishedIDs

vars == <<created, seen, visible, published, sent, at, batch, acked>>
table == <<created, seen, visible>>

Init ==
  /\ created = [r \in Rows |-> 0] /\ seen = [r \in Rows |-> {}]
  /\ visible = {} /\ published = {} /\ sent = {}
  /\ at = [x \in Relays |-> "asleep"]
  /\ batch = [x \in Relays |-> {}] /\ acked = [x \in Relays |-> {}]

-----------------------------------------------------------------------------
(* DEFAULT now() is the beginning of the transaction: two may share it,    *)
(* but not when one was committed before the other began.                  *)
Begin(r) ==
  /\ created[r] = 0
  /\ \E t \in 1..Cardinality(Rows) :
       /\ \A q \in Rows : created[q] <= t
       /\ \A q \in visible : created[q] < t
       /\ created' = [created EXCEPT ![r] = t]
  /\ seen' = [seen EXCEPT ![r] = visible]
  /\ UNCHANGED <<visible, published, sent, at, batch, acked>>

Commit(r) ==
  /\ created[r] # 0
  /\ visible' = visible \cup {r}
  /\ UNCHANGED <<created, seen, published, sent, at, batch, acked>>

-----------------------------------------------------------------------------
Tick(x) ==
  /\ at[x] = "asleep"
  /\ at' = [at EXCEPT ![x] = "awake"]
  /\ UNCHANGED <<table, published, sent, batch, acked>>

Locked(x) == UNION {batch[y] : y \in Relays \ {x}}

(* ORDER BY created_at LIMIT                                               *)
Oldest(rows, from) ==
  /\ rows \subseteq from
  /\ Cardinality(rows) <= BatchSize
  /\ Cardinality(rows) < BatchSize => rows = from
  /\ \A r \in rows, q \in from \ rows : created[r] <= created[q]

(* A bug in Unpublished: rows behind the last published one, as a cursor   *)
(* would select them.                                                      *)
UnpublishedMutant(x) ==
  {r \in visible \ Locked(x) : \A q \in published : created[q] < created[r]}

Unpublished(x) == visible \ (published \cup Locked(x))

(* A bug in Select: no ORDER BY.                                           *)
SelectMutant(x) ==
  /\ at[x] = "awake"
  /\ \E rows \in SUBSET Unpublished(x) :
       /\ Cardinality(rows) <= BatchSize
       /\ Cardinality(rows) < BatchSize => rows = Unpublished(x)
       /\ batch' = [batch EXCEPT ![x] = rows]
       /\ at' = [at EXCEPT ![x] = IF rows = {} THEN "asleep" ELSE "selected"]
  /\ UNCHANGED <<table, published, sent, acked>>

Select(x) ==
  /\ at[x] = "awake"
  /\ \E rows \in SUBSET Unpublished(x) :
       /\ Oldest(rows, Unpublished(x))
       /\ batch' = [batch EXCEPT ![x] = rows]
       /\ at' = [at EXCEPT ![x] = IF rows = {} THEN "asleep" ELSE "selected"]
  /\ UNCHANGED <<table, published, sent, acked>>

(* The transaction is over: its locks are gone.                            *)
Released(x, next) ==
  /\ at' = [at EXCEPT ![x] = next]
  /\ batch' = [batch EXCEPT ![x] = {}]
  /\ acked' = [acked EXCEPT ![x] = {}]

(* PublishBatch: some of the records are acknowledged; with none there is  *)
(* nothing to mark, and the tick is over.                                  *)
Send(x, rows) ==
  /\ at[x] = "selected"
  /\ rows \subseteq batch[x] \ Refused
  /\ sent' = sent \cup rows
  /\ IF rows = {} THEN Released(x, "asleep")
     ELSE /\ at' = [at EXCEPT ![x] = "sent"]
          /\ acked' = [acked EXCEPT ![x] = rows]
          /\ UNCHANGED batch
  /\ UNCHANGED <<table, published>>

(* A bug in Mark: the batch is marked, not what was acknowledged.          *)
MarkMutant(x) ==
  /\ at[x] = "sent"
  /\ published' = published \cup batch[x]
  /\ Released(x, IF Cardinality(acked[x]) < BatchSize THEN "asleep" ELSE "awake")
  /\ UNCHANGED <<table, sent>>

(* The rows are marked and the transaction is committed; a full batch is   *)
(* followed by the next one.                                               *)
Mark(x) ==
  /\ at[x] = "sent"
  /\ published' = published \cup acked[x]
  /\ Released(x, IF Cardinality(acked[x]) < BatchSize THEN "asleep" ELSE "awake")
  /\ UNCHANGED <<table, sent>>

(* An error ends the tick, in the SELECT, the UPDATE or the commit, which  *)
(* may have been done; so does the end of the process.                     *)
Fail(x) ==
  /\ at[x] # "asleep"
  /\ Released(x, "asleep")
  /\ published' \in {published, published \cup acked[x]}
  /\ UNCHANGED <<table, sent>>

Next ==
  \/ \E r \in Rows : Begin(r) \/ Commit(r)
  \/ \E x \in Relays :
       \/ Tick(x) \/ Select(x) \/ Mark(x) \/ Fail(x)
       \/ \E rows \in SUBSET batch[x] : Send(x, rows)

Spec == Init /\ [][Next]_vars

(* A relay ticks on, and neither Kafka nor the database fails a row for    *)
(* ever: one that is tried again and again gets through.                   *)
SendAll(x) == Send(x, batch[x] \ Refused)

FairSpec ==
  /\ Spec
  /\ \A x \in Relays : WF_vars(Tick(x)) /\ SF_vars(Select(x)) /\ WF_vars(SendAll(x))
  /\ \A r \in Rows \ Refused :
       /\ SF_vars(\E x \in Relays : r \in batch[x] /\ SendAll(x))
       /\ SF_vars(\E x \in Relays : r \in acked[x] /\ Mark(x))

-----------------------------------------------------------------------------
TypeOK ==
  /\ created \in [Rows -> 0..Cardinality(Rows)] /\ seen \in [Rows -> SUBSET Rows]
  /\ visible \subseteq Rows /\ published \subseteq visible /\ sent \subseteq visible
  /\ at \in [Relays -> {"asleep", "awake", "selected", "sent"}]
  /\ batch \in [Relays -> SUBSET visible] /\ acked \in [Relays -> SUBSET visible]
  /\ \A x \in Relays : acked[x] \subseteq batch[x] \cap sent

(* A row that is marked as published was acknowledged by Kafka, whatever   *)
(* failed between the two.                                                 *)
PublishedWasSent == published \subseteq sent

(* Two relays never work on the same row.                                  *)
BatchesAreDisjoint ==
  \A x, y \in Relays : x # y => batch[x] \cap batch[y] = {}

(* A row is not taken before one that was committed when its transaction   *)
(* began, unless another relay has that one locked.                        *)
NoneIsOvertaken ==
  [][\A x \in Relays : at[x] = "awake" =>
       \A r \in batch'[x] : seen[r] \subseteq published \cup batch'[x] \cup Locked(x)]_vars

(* A row that is not refused is published in the end, even where its       *)
(* transaction outlived younger ones whose rows went before it, and with   *)
(* refused rows at the head of the queue.                                  *)
EveryRowGetsOut == \A r \in Rows \ Refused : r \in visible ~> r \in published
=============================================================================
