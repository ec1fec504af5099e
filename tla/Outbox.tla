-------------------------------- MODULE Outbox --------------------------------
(***************************************************************************)
(* The transactional outbox of one schema (src/infra/outbox.rs and         *)
(* src/features/profile/repo/outbox.rs; idm has the same shape) and the    *)
(* relays that copy it to JetStream.                                       *)
(*                                                                         *)
(* A write transaction locks its aggregate's row, draws the outbox id from *)
(* the bigserial and commits or rolls back; ids of different aggregates    *)
(* therefore become visible out of order.  Every process that owns the     *)
(* schema's pool runs a relay: poll the oldest unpublished rows, publish   *)
(* them in id order, stop at the first failure, mark what was acknowledged.*)
(***************************************************************************)
EXTENDS Naturals, Sequences, FiniteSets

CONSTANTS
    Aggregates,     \* profile owners (users)
    Relays,         \* processes running an OutboxRelay on this schema
    Batch,          \* rows per poll
    MaxId,          \* bound: ids drawn from the bigserial
    MaxCrashes,     \* bound: relay processes killed inside poll_once
    MaxExpiries     \* bound: message ids that leave the duplicate window

ASSUME OutboxAssumption ==
    /\ Batch \in Nat \ {0}
    /\ MaxId \in Nat
    /\ MaxCrashes \in Nat
    /\ MaxExpiries \in Nat

VARIABLES
    nextId,         \* the bigserial
    open,           \* outbox rows inserted by transactions still open
    outbox,         \* committed outbox rows
    published,      \* ids with published_at set
    pc,             \* pc[r]: where relay r is in poll_once
    todo,           \* todo[r]: polled rows not published yet
    done,           \* done[r]: published_ids of this round
    stream,         \* the JetStream stream
    window,         \* message ids the server still deduplicates
    crashes, expiries

tables == <<nextId, open, outbox, published>>
relays == <<pc, todo, done>>
broker == <<stream, window>>
outboxBounds == <<crashes, expiries>>
outboxVars == <<tables, relays, broker, outboxBounds>>

Row == [id : 1..MaxId, agg : Aggregates]

IdsOf(S) == {x.id : x \in S}

OutboxInit ==
    /\ nextId = 1
    /\ open = {}
    /\ outbox = {}
    /\ published = {}
    /\ pc = [r \in Relays |-> "sleep"]
    /\ todo = [r \in Relays |-> {}]
    /\ done = [r \in Relays |-> {}]
    /\ stream = << >>
    /\ window = {}
    /\ crashes = 0
    /\ expiries = 0

-------------------------------------------------------------------------------
(* Writers: the upsert locks the profile row before emit_outbox draws an id. *)

\* Mutant: the id is drawn before the row lock is taken.
BeginUnlocked(a) ==
    /\ nextId <= MaxId
    /\ open' = open \cup {[id |-> nextId, agg |-> a]}
    /\ nextId' = nextId + 1
    /\ UNCHANGED <<outbox, published, relays, broker, outboxBounds>>

Begin(a) ==
    /\ nextId <= MaxId
    /\ \A t \in open : t.agg # a
    /\ open' = open \cup {[id |-> nextId, agg |-> a]}
    /\ nextId' = nextId + 1
    /\ UNCHANGED <<outbox, published, relays, broker, outboxBounds>>

Commit(t) ==
    /\ outbox' = outbox \cup {t}
    /\ open' = open \ {t}
    /\ UNCHANGED <<nextId, published, relays, broker, outboxBounds>>

Rollback(t) ==
    /\ open' = open \ {t}
    /\ UNCHANGED <<nextId, outbox, published, relays, broker, outboxBounds>>

-------------------------------------------------------------------------------
(* The relay.                                                               *)

Unpublished == {x \in outbox : x.id \notin published}

\* ... where published_at is null order by id limit Batch
PollUnpublished ==
    {x \in Unpublished : Cardinality({y \in Unpublished : y.id < x.id}) < Batch}

\* A failed or an empty poll changes nothing and is not a step.
Poll(r) ==
    /\ pc[r] = "sleep"
    /\ Unpublished # {}
    /\ pc' = [pc EXCEPT ![r] = "publish"]
    /\ todo' = [todo EXCEPT ![r] = PollUnpublished]
    /\ UNCHANGED <<done, tables, broker, outboxBounds>>

\* Mutant: no Nats-Msg-Id header.
StoreAlways(x) ==
    /\ stream' = Append(stream, x)
    /\ window' = window \cup {x.id}

\* The server drops a message whose Nats-Msg-Id is still in the window.
Store(x) ==
    IF x.id \in window
    THEN UNCHANGED broker
    ELSE /\ stream' = Append(stream, x)
         /\ window' = window \cup {x.id}

Oldest(x, S) == x \in S /\ \A y \in S : x.id <= y.id

\* Mutant: a failed batch is never left.
AfterBatchStuck(ids) == "publish"

AfterBatch(ids) == IF ids = {} THEN "sleep" ELSE "mark"

PublishAcked(r) ==
    /\ pc[r] = "publish"
    /\ \E x \in todo[r] :
        /\ Oldest(x, todo[r])
        /\ Store(x)
        /\ todo' = [todo EXCEPT ![r] = @ \ {x}]
        /\ done' = [done EXCEPT ![r] = @ \cup {x.id}]
        /\ pc' = [pc EXCEPT ![r] = IF todo[r] = {x} THEN "mark" ELSE @]
    /\ UNCHANGED <<tables, outboxBounds>>

\* Any publish error ends the batch; the published prefix is still marked.
StopBatch(r) ==
    /\ todo' = [todo EXCEPT ![r] = {}]
    /\ pc' = [pc EXCEPT ![r] = AfterBatch(done[r])]
    /\ UNCHANGED <<done, tables, outboxBounds>>

\* Mutant: a failed publish skips the row and goes on with the batch.
PublishFailedSkips(r) ==
    /\ pc[r] = "publish"
    /\ \E x \in todo[r] :
        /\ Oldest(x, todo[r])
        /\ todo' = [todo EXCEPT ![r] = @ \ {x}]
        /\ pc' = [pc EXCEPT ![r] = IF todo[r] = {x} THEN AfterBatch(done[r]) ELSE @]
    /\ UNCHANGED <<done, tables, broker, outboxBounds>>

\* Mutant: the whole polled batch is marked, the failed row included.
PublishFailedMarksBatch(r) ==
    /\ pc[r] = "publish"
    /\ todo' = [todo EXCEPT ![r] = {}]
    /\ done' = [done EXCEPT ![r] = @ \cup IdsOf(todo[r])]
    /\ pc' = [pc EXCEPT ![r] = "mark"]
    /\ UNCHANGED <<tables, broker, outboxBounds>>

PublishFailed(r) ==
    /\ pc[r] = "publish"
    /\ StopBatch(r)
    /\ UNCHANGED broker

\* The server stored the message, the acknowledgement got lost.
PublishAckLost(r) ==
    /\ pc[r] = "publish"
    /\ \E x \in todo[r] : Oldest(x, todo[r]) /\ Store(x)
    /\ StopBatch(r)

EndRound(r) ==
    /\ pc' = [pc EXCEPT ![r] = "sleep"]
    /\ todo' = [todo EXCEPT ![r] = {}]
    /\ done' = [done EXCEPT ![r] = {}]

MarkPublished(r) ==
    /\ pc[r] = "mark"
    /\ published' = published \cup done[r]
    /\ EndRound(r)
    /\ UNCHANGED <<nextId, open, outbox, broker, outboxBounds>>

MarkFailed(r) ==
    /\ pc[r] = "mark"
    /\ EndRound(r)
    /\ UNCHANGED <<tables, broker, outboxBounds>>

\* The relay task is not joined at shutdown: it dies at any await.
Crash(r) ==
    /\ crashes < MaxCrashes
    /\ pc[r] # "sleep"
    /\ EndRound(r)
    /\ crashes' = crashes + 1
    /\ UNCHANGED <<tables, broker, expiries>>

\* DUPLICATE_WINDOW passes for one message id.
Expire ==
    /\ expiries < MaxExpiries
    /\ \E n \in window : window' = window \ {n}
    /\ expiries' = expiries + 1
    /\ UNCHANGED <<tables, relays, stream, crashes>>

-------------------------------------------------------------------------------
Writers ==
    \/ \E a \in Aggregates : Begin(a)
    \/ \E t \in open : Commit(t) \/ Rollback(t)

Relaying ==
    \E r \in Relays :
        \/ Poll(r)
        \/ PublishAcked(r) \/ PublishFailed(r) \/ PublishAckLost(r)
        \/ MarkPublished(r) \/ MarkFailed(r)
        \/ Crash(r)

OutboxNext == Writers \/ Relaying \/ Expire

OutboxSpec == OutboxInit /\ [][OutboxNext]_outboxVars

\* The loop never stops polling; the broker and the database answer again and
\* again, however often they fail in between.
OutboxFairness ==
    \A r \in Relays :
        /\ WF_outboxVars(Poll(r))
        /\ SF_outboxVars(PublishAcked(r))
        /\ SF_outboxVars(MarkPublished(r))

OutboxFairSpec == OutboxSpec /\ OutboxFairness

-------------------------------------------------------------------------------
OutboxTypeOK ==
    /\ nextId \in 1..(MaxId + 1)
    /\ open \subseteq Row
    /\ outbox \subseteq Row
    /\ published \subseteq 1..MaxId
    /\ pc \in [Relays -> {"sleep", "publish", "mark"}]
    /\ todo \in [Relays -> SUBSET Row]
    /\ done \in [Relays -> SUBSET (1..MaxId)]
    /\ stream \in Seq(Row)
    /\ window \subseteq 1..MaxId
    /\ crashes \in 0..MaxCrashes
    /\ expiries \in 0..MaxExpiries

InStream(x) == \E i \in 1..Len(stream) : stream[i] = x

\* No loss: a row marked published was stored by the broker, whatever failed,
\* died or was retried in between.
PublishedIsStored == \A x \in outbox : x.id \in published => InStream(x)

\* Events of one aggregate reach the stream in commit order and without a
\* hole, although several relays publish, batches break off and ids of other
\* aggregates become visible late.
AggregateOrder ==
    \A i \in 1..Len(stream) : \A x \in outbox :
        (x.agg = stream[i].agg /\ x.id < stream[i].id) =>
            \E j \in 1..(i - 1) : stream[j] = x

\* Retries after a lost acknowledgement, a failed mark or a crash only repeat
\* an event once its message id has left the duplicate window.
DuplicatesNeedExpiry == Len(stream) <= Cardinality(outbox) + expiries

Log == INSTANCE EventLog WITH
    Ids <- 1..MaxId, written <- outbox, log <- stream

\* The tables, relays and broker together are the ordered per-aggregate log the
\* projectors rely on: every step appends a ready event of a committed write,
\* or changes nothing they can see.
ImplementsLog == Log!LogSpec

\* ... and no aggregate's committed events stay out of the log for ever: no
\* failed row blocks the ones behind it, once the broker answers.
ImplementsFairLog == Log!FairLogSpec
===============================================================================
