---------------------------- MODULE Pipeline_proofs ----------------------------
(***************************************************************************)
(* Proofs about Outbox for every set of aggregates and relays and every batch  *)
(* size, about SearchProjector for every set of users and workers and every     *)
(* attempt limit, and about the Pipeline they form; for every bound.            *)
(***************************************************************************)
EXTENDS Pipeline, FiniteSetTheorems, SequenceTheorems, TLAPS

-------------------------------------------------------------------------------
(* The broker.                                                              *)

\* A publish leaves the stream as it was or appends the message to it.
LEMMA StoreAppends ==
    ASSUME OutboxTypeOK, NEW x \in Row, Store(x)
    PROVE  /\ stream' \in Seq(Row)
           /\ window' \subseteq 1..MaxId
           /\ Len(stream) <= Len(stream')
           /\ \A i \in 1..Len(stream) : stream'[i] = stream[i]
           /\ \A i \in 1..Len(stream') : i > Len(stream) => stream'[i] = x
           /\ Len(stream') <= Len(stream) + 1
<1>1. stream \in Seq(Row) /\ window \subseteq 1..MaxId /\ x.id \in 1..MaxId
  BY DEF OutboxTypeOK, Row
<1>2. CASE x.id \in window
  <2>1. stream' = stream /\ window' = window
    BY <1>2 DEF Store, broker
  <2> QED
    BY <1>1, <2>1
<1>3. CASE x.id \notin window
  <2>1. stream' = Append(stream, x) /\ window' = window \cup {x.id}
    BY <1>3 DEF Store
  <2>2. Len(stream') = Len(stream) + 1 /\ stream' \in Seq(Row)
    BY <1>1, <2>1
  <2>3. \A i \in 1..Len(stream) : stream'[i] = stream[i]
    BY <1>1, <2>1
  <2>4. stream'[Len(stream) + 1] = x
    BY <1>1, <2>1
  <2>5. \A i \in 1..Len(stream') : i > Len(stream) => stream'[i] = x
    <3> SUFFICES ASSUME NEW i \in 1..Len(stream'), i > Len(stream)
                 PROVE  stream'[i] = x
      OBVIOUS
    <3>1. Len(stream) \in Nat
      BY <1>1
    <3>2. i = Len(stream) + 1
      BY <2>2, <3>1
    <3> QED
      BY <2>4, <3>2
  <2>6. window' \subseteq 1..MaxId
    BY <1>1, <2>1
  <2>7. Len(stream) <= Len(stream')
    BY <1>1, <2>2
  <2>8. Len(stream') <= Len(stream) + 1
    BY <1>1, <2>2
  <2> QED
    BY <2>2, <2>3, <2>5, <2>6, <2>7, <2>8
<1> QED
  BY <1>2, <1>3

-------------------------------------------------------------------------------
(* Type correctness.                                                        *)

\* Every variable keeps its type, for the code of every writer and relay step.
THEOREM OutboxTypeCorrect == OutboxSpec => []OutboxTypeOK
<1>1. OutboxInit => OutboxTypeOK
  BY OutboxAssumption DEF OutboxInit, OutboxTypeOK, Row
<1>2. OutboxTypeOK /\ [OutboxNext]_outboxVars => OutboxTypeOK'
  <2> SUFFICES ASSUME OutboxTypeOK, [OutboxNext]_outboxVars PROVE OutboxTypeOK'
    OBVIOUS
  <2> USE OutboxAssumption
  <2>1. ASSUME NEW a \in Aggregates, Begin(a) PROVE OutboxTypeOK'
    BY <2>1 DEF OutboxTypeOK, Begin, Row, relays, broker, outboxBounds
  <2>2. ASSUME NEW t \in open, Commit(t) PROVE OutboxTypeOK'
    BY <2>2 DEF OutboxTypeOK, Commit, relays, broker, outboxBounds
  <2>3. ASSUME NEW t \in open, Rollback(t) PROVE OutboxTypeOK'
    BY <2>3 DEF OutboxTypeOK, Rollback, relays, broker, outboxBounds
  <2>4. ASSUME NEW r \in Relays, Poll(r) PROVE OutboxTypeOK'
    BY <2>4 DEF OutboxTypeOK, Poll, PollUnpublished, Unpublished, tables, broker, outboxBounds
  <2>5. ASSUME NEW r \in Relays, PublishAcked(r) PROVE OutboxTypeOK'
    <3>1. PICK x \in todo[r] :
            /\ Store(x)
            /\ todo' = [todo EXCEPT ![r] = @ \ {x}]
            /\ done' = [done EXCEPT ![r] = @ \cup {x.id}]
            /\ pc' = [pc EXCEPT ![r] = IF todo[r] = {x} THEN "mark" ELSE @]
      BY <2>5 DEF PublishAcked
    <3>2. x \in Row
      BY DEF OutboxTypeOK
    <3>3. stream' \in Seq(Row) /\ window' \subseteq 1..MaxId
      BY <3>1, <3>2, StoreAppends
    <3>4. x.id \in 1..MaxId
      BY <3>2 DEF Row
    <3> QED
      BY <2>5, <3>1, <3>3, <3>4 DEF OutboxTypeOK, PublishAcked, tables, outboxBounds
  <2>6. ASSUME NEW r \in Relays, PublishFailed(r) PROVE OutboxTypeOK'
    BY <2>6 DEF OutboxTypeOK, PublishFailed, StopBatch, AfterBatch, tables, broker, outboxBounds
  <2>7. ASSUME NEW r \in Relays, PublishAckLost(r) PROVE OutboxTypeOK'
    <3>1. PICK x \in todo[r] : Store(x)
      BY <2>7 DEF PublishAckLost
    <3>2. stream' \in Seq(Row) /\ window' \subseteq 1..MaxId
      BY <3>1, StoreAppends DEF OutboxTypeOK
    <3> QED
      BY <2>7, <3>2 DEF OutboxTypeOK, PublishAckLost, StopBatch, AfterBatch, tables, outboxBounds
  <2>8. ASSUME NEW r \in Relays, MarkPublished(r) PROVE OutboxTypeOK'
    BY <2>8 DEF OutboxTypeOK, MarkPublished, EndRound, broker, outboxBounds
  <2>9. ASSUME NEW r \in Relays, MarkFailed(r) PROVE OutboxTypeOK'
    BY <2>9 DEF OutboxTypeOK, MarkFailed, EndRound, tables, broker, outboxBounds
  <2>10. ASSUME NEW r \in Relays, Crash(r) PROVE OutboxTypeOK'
    BY <2>10 DEF OutboxTypeOK, Crash, EndRound, tables, broker
  <2>11. ASSUME Expire PROVE OutboxTypeOK'
    BY <2>11 DEF OutboxTypeOK, Expire, tables, relays
  <2>12. CASE UNCHANGED outboxVars
    BY <2>12 DEF OutboxTypeOK, outboxVars, tables, relays, broker, outboxBounds
  <2> QED
    BY <2>1, <2>2, <2>3, <2>4, <2>5, <2>6, <2>7, <2>8, <2>9, <2>10, <2>11, <2>12
       DEF OutboxNext, Writers, Relaying
<1> QED
  BY <1>1, <1>2, PTL DEF OutboxSpec
-------------------------------------------------------------------------------
(* The inductive invariant.  AggregateOrder rests on the row lock: a         *)
(* transaction that holds an uncommitted id is the newest of its aggregate,   *)
(* so what a relay polled can never be overtaken from below.                  *)

Stored(n) == \E i \in 1..Len(stream) : stream[i].id = n

IdsFresh == \A x \in open \cup outbox : x.id < nextId

IdsUnique == \A x, y \in open \cup outbox : x.id = y.id => x = y

RowLocked == \A s, t \in open : s.agg = t.agg => s = t

OpenIsNewest == \A t \in open : \A x \in outbox : x.agg = t.agg => x.id < t.id

StreamIsCommitted == \A i \in 1..Len(stream) : stream[i] \in outbox

AckedIsStored ==
    /\ \A n \in window \cup published : Stored(n)
    /\ \A r \in Relays : \A n \in done[r] : Stored(n)

BatchIsCommitted == \A r \in Relays : todo[r] \subseteq outbox

\* What precedes a polled row in its aggregate is in the batch or stored.
BatchIsClosed ==
    \A r \in Relays : \A x \in todo[r] : \A y \in outbox :
        (y.agg = x.agg /\ y.id < x.id) => (y \in todo[r] \/ InStream(y))

TableInv == IdsFresh /\ IdsUnique /\ RowLocked /\ OpenIsNewest

IInv ==
    /\ OutboxTypeOK
    /\ IsFiniteSet(outbox)
    /\ TableInv
    /\ StreamIsCommitted
    /\ AckedIsStored
    /\ BatchIsCommitted
    /\ BatchIsClosed
    /\ AggregateOrder
-------------------------------------------------------------------------------
(* The broker keeps what it stored.                                          *)

LEMMA StoredStays ==
    ASSUME stream \in Seq(Row), stream' \in Seq(Row),
           Len(stream) <= Len(stream'),
           \A i \in 1..Len(stream) : stream'[i] = stream[i]
    PROVE  /\ \A n : Stored(n) => Stored(n)'
           /\ \A y : InStream(y) => InStream(y)'
<1>1. Len(stream) \in Nat /\ Len(stream') \in Nat
  OBVIOUS
<1>2. \A i \in 1..Len(stream) : i \in 1..Len(stream')
  BY <1>1
<1> QED
  BY <1>2 DEF Stored, InStream

\* The oldest polled row joins the stream behind everything older in its
\* aggregate, or was stored before.
LEMMA PublishStep ==
    ASSUME IInv, UNCHANGED outbox,
           NEW r \in Relays, NEW x \in todo[r], Oldest(x, todo[r]), Store(x)
    PROVE  /\ StreamIsCommitted'
           /\ AggregateOrder'
           /\ Stored(x.id)'
           /\ \A n \in window' : Stored(n)'
           /\ \A n : Stored(n) => Stored(n)'
           /\ \A y : InStream(y) => InStream(y)'
<1>1. x \in outbox /\ x \in Row /\ x.id \in 1..MaxId
  BY DEF IInv, BatchIsCommitted, OutboxTypeOK, Row
<1>2. /\ stream \in Seq(Row) /\ stream' \in Seq(Row)
      /\ Len(stream) <= Len(stream')
      /\ \A i \in 1..Len(stream) : stream'[i] = stream[i]
      /\ \A i \in 1..Len(stream') : i > Len(stream) => stream'[i] = x
  BY <1>1, StoreAppends DEF IInv, OutboxTypeOK
<1>3. Len(stream) \in Nat /\ Len(stream') \in Nat
  BY <1>2
<1>4. /\ \A n : Stored(n) => Stored(n)'
      /\ \A y : InStream(y) => InStream(y)'
  BY <1>2, StoredStays
<1>5. StreamIsCommitted'
  <2> SUFFICES ASSUME NEW i \in 1..Len(stream') PROVE stream'[i] \in outbox
    BY DEF StreamIsCommitted
  <2>1. CASE i \in 1..Len(stream)
    BY <1>2, <2>1 DEF IInv, StreamIsCommitted
  <2>2. CASE i > Len(stream)
    BY <1>1, <1>2, <2>2
  <2> QED
    BY <1>3, <2>1, <2>2
<1>6. AggregateOrder'
  <2> SUFFICES ASSUME NEW i \in 1..Len(stream'), NEW y \in outbox,
                      y.agg = stream'[i].agg, y.id < stream'[i].id
               PROVE  \E j \in 1..(i - 1) : stream'[j] = y
    BY DEF AggregateOrder
  <2>1. CASE i \in 1..Len(stream)
    <3>1. PICK j \in 1..(i - 1) : stream[j] = y
      BY <1>2, <2>1 DEF IInv, AggregateOrder
    <3>2. j \in 1..Len(stream)
      BY <1>3, <2>1
    <3> QED
      BY <1>2, <3>1, <3>2
  <2>2. CASE i > Len(stream)
    <3>1. stream'[i] = x
      BY <1>2, <2>2
    <3>2. y \notin todo[r]
      <4>1. y.id < x.id
        BY <3>1
      <4>2. y.id \in Nat /\ x.id \in Nat
        BY <1>1 DEF IInv, OutboxTypeOK, Row
      <4> QED
        BY <4>1, <4>2 DEF Oldest
    <3>3. InStream(y)
      BY <3>1, <3>2 DEF IInv, BatchIsClosed
    <3>4. PICK j \in 1..Len(stream) : stream[j] = y
      BY <3>3 DEF InStream
    <3>5. j \in 1..(i - 1) /\ stream'[j] = y
      BY <1>2, <1>3, <2>2, <3>4
    <3> QED
      BY <3>5
  <2> QED
    BY <1>3, <2>1, <2>2
<1>7. Stored(x.id)' /\ \A n \in window' : Stored(n)'
  <2>1. CASE x.id \in window
    <3>1. window' = window
      BY <2>1 DEF Store, broker
    <3> QED
      BY <1>4, <2>1, <3>1 DEF IInv, AckedIsStored
  <2>2. CASE x.id \notin window
    <3>1. stream' = Append(stream, x) /\ window' = window \cup {x.id}
      BY <2>2 DEF Store
    <3>2. Len(stream) + 1 \in 1..Len(stream') /\ stream'[Len(stream) + 1] = x
      BY <1>1, <1>2, <1>3, <3>1
    <3>3. Stored(x.id)'
      BY <3>2 DEF Stored
    <3> QED
      BY <1>4, <3>1, <3>3 DEF IInv, AckedIsStored
  <2> QED
    BY <2>1, <2>2
<1> QED
  BY <1>4, <1>5, <1>6, <1>7

\* order by id limit n: with a row, the poll returns every unpublished row
\* that is older.
LEMMA PollIsClosed ==
    ASSUME OutboxTypeOK, IsFiniteSet(outbox),
           NEW x \in PollUnpublished, NEW y \in Unpublished, y.id < x.id
    PROVE  y \in PollUnpublished
<1> DEFINE Below(z) == {w \in Unpublished : w.id < z.id}
<1>1. Unpublished \subseteq outbox /\ x \in Unpublished
  BY DEF Unpublished, PollUnpublished
<1>2. IsFiniteSet(Below(x))
  BY <1>1, FS_Subset
<1>3. \A z \in Unpublished : z.id \in Nat
  BY <1>1 DEF OutboxTypeOK, Row
<1>4. Below(y) \subseteq Below(x)
  BY <1>1, <1>3
<1>5. IsFiniteSet(Below(y)) /\ Cardinality(Below(y)) <= Cardinality(Below(x))
  BY <1>2, <1>4, FS_Subset
<1>6. Cardinality(Below(x)) \in Nat /\ Cardinality(Below(y)) \in Nat
  BY <1>2, <1>5, FS_CardinalityType
<1>7. Cardinality(Below(x)) < Batch
  BY DEF PollUnpublished
<1>8. Cardinality(Below(y)) < Batch
  BY <1>5, <1>6, <1>7, OutboxAssumption
<1> QED
  BY <1>8 DEF PollUnpublished
-------------------------------------------------------------------------------
(* Inductiveness.                                                            *)

LEMMA InitInv == OutboxInit => IInv
<1> SUFFICES ASSUME OutboxInit PROVE IInv
  OBVIOUS
<1>1. OutboxTypeOK
  BY OutboxAssumption DEF OutboxInit, OutboxTypeOK, Row
<1>2. IsFiniteSet(outbox)
  BY FS_EmptySet DEF OutboxInit
<1>3. TableInv
  BY DEF OutboxInit, TableInv, IdsFresh, IdsUnique, RowLocked, OpenIsNewest
<1>4. StreamIsCommitted /\ AggregateOrder
  BY DEF OutboxInit, StreamIsCommitted, AggregateOrder
<1>5. AckedIsStored /\ BatchIsCommitted /\ BatchIsClosed
  BY DEF OutboxInit, AckedIsStored, BatchIsCommitted, BatchIsClosed
<1> QED
  BY <1>1, <1>2, <1>3, <1>4, <1>5 DEF IInv

\* Steps of a relay that leave the tables' rows and the stream alone and only
\* shrink what is in flight.
LEMMA QuietStep ==
    ASSUME IInv, OutboxTypeOK',
           UNCHANGED <<nextId, open, outbox, stream>>,
           window' \subseteq window,
           \A r \in Relays : todo'[r] \subseteq todo[r] /\ done'[r] \subseteq done[r],
           \A n \in published' : n \in published \/ \E r \in Relays : n \in done[r],
           \A r \in Relays : todo'[r] = {} \/ todo'[r] = todo[r]
    PROVE  IInv'
<1>1. IsFiniteSet(outbox)' /\ TableInv' /\ StreamIsCommitted' /\ AggregateOrder'
  BY DEF IInv, TableInv, IdsFresh, IdsUnique, RowLocked, OpenIsNewest,
         StreamIsCommitted, AggregateOrder
<1>2. AckedIsStored'
  BY DEF IInv, AckedIsStored, Stored
<1>3. BatchIsCommitted' /\ BatchIsClosed'
  BY DEF IInv, BatchIsCommitted, BatchIsClosed, InStream
<1> QED
  BY <1>1, <1>2, <1>3 DEF IInv

LEMMA BeginInv ==
    ASSUME IInv, OutboxTypeOK', NEW a \in Aggregates, Begin(a)
    PROVE  IInv'
<1> DEFINE t == [id |-> nextId, agg |-> a]
<1>1. /\ nextId \in Nat
      /\ \A x \in open \cup outbox : x.id \in Nat /\ x.id < nextId
  BY DEF IInv, OutboxTypeOK, Row, TableInv, IdsFresh
<1>2. /\ open' = open \cup {t} /\ nextId' = nextId + 1
      /\ UNCHANGED <<outbox, published, todo, done, stream, window>>
      /\ \A u \in open : u.agg # a
  BY DEF Begin, relays, broker
<1>3. IdsFresh' /\ IdsUnique'
  BY <1>1, <1>2 DEF IInv, TableInv, IdsFresh, IdsUnique
<1>4. RowLocked'
  BY <1>2 DEF IInv, TableInv, RowLocked
<1>5. OpenIsNewest'
  BY <1>1, <1>2 DEF IInv, TableInv, OpenIsNewest
<1>6. StreamIsCommitted' /\ AckedIsStored' /\ BatchIsCommitted' /\ BatchIsClosed'
  BY <1>2 DEF IInv, StreamIsCommitted, AckedIsStored, Stored,
              BatchIsCommitted, BatchIsClosed, InStream
<1>7. AggregateOrder' /\ IsFiniteSet(outbox)'
  BY <1>2 DEF IInv, AggregateOrder
<1> QED
  BY <1>3, <1>4, <1>5, <1>6, <1>7 DEF IInv, TableInv

LEMMA CommitInv ==
    ASSUME IInv, OutboxTypeOK', NEW t \in open, Commit(t)
    PROVE  IInv'
<1>1. /\ outbox' = outbox \cup {t} /\ open' = open \ {t}
      /\ UNCHANGED <<nextId, published, todo, done, stream, window>>
  BY DEF Commit, relays, broker
<1>2. \A x \in open \cup outbox : x.id \in Nat
  BY DEF IInv, OutboxTypeOK, Row
<1>3. \A x \in outbox : x.agg = t.agg => x.id < t.id
  BY DEF IInv, TableInv, OpenIsNewest
<1>4. IsFiniteSet(outbox)'
  BY <1>1, FS_AddElement DEF IInv
<1>5. IdsFresh' /\ IdsUnique' /\ RowLocked'
  BY <1>1 DEF IInv, TableInv, IdsFresh, IdsUnique, RowLocked
<1>6. OpenIsNewest'
  BY <1>1 DEF IInv, TableInv, OpenIsNewest, RowLocked
<1>7. StreamIsCommitted' /\ AckedIsStored' /\ BatchIsCommitted'
  BY <1>1 DEF IInv, StreamIsCommitted, AckedIsStored, Stored, BatchIsCommitted
<1>8. BatchIsClosed'
  <2> SUFFICES ASSUME NEW r \in Relays, NEW x \in todo[r], NEW y \in outbox \cup {t},
                      y.agg = x.agg, y.id < x.id
               PROVE  y \in todo[r] \/ InStream(y)'
    BY <1>1 DEF BatchIsClosed
  <2>1. x \in outbox
    BY DEF IInv, BatchIsCommitted
  <2>2. y # t
    BY <1>2, <1>3, <2>1
  <2> QED
    BY <1>1, <2>2 DEF IInv, BatchIsClosed, InStream
<1>9. AggregateOrder'
  <2> SUFFICES ASSUME NEW i \in 1..Len(stream), NEW y \in outbox \cup {t},
                      y.agg = stream[i].agg, y.id < stream[i].id
               PROVE  \E j \in 1..(i - 1) : stream[j] = y
    BY <1>1 DEF AggregateOrder
  <2>1. stream[i] \in outbox
    BY DEF IInv, StreamIsCommitted
  <2>2. y # t
    BY <1>2, <1>3, <2>1
  <2> QED
    BY <2>2 DEF IInv, AggregateOrder
<1> QED
  BY <1>4, <1>5, <1>6, <1>7, <1>8, <1>9 DEF IInv, TableInv

LEMMA RollbackInv ==
    ASSUME IInv, OutboxTypeOK', NEW t \in open, Rollback(t)
    PROVE  IInv'
<1>1. /\ open' = open \ {t}
      /\ UNCHANGED <<nextId, outbox, published, todo, done, stream, window>>
  BY DEF Rollback, relays, broker
<1>2. TableInv'
  BY <1>1 DEF IInv, TableInv, IdsFresh, IdsUnique, RowLocked, OpenIsNewest
<1>3. StreamIsCommitted' /\ AckedIsStored' /\ BatchIsCommitted' /\ BatchIsClosed'
  BY <1>1 DEF IInv, StreamIsCommitted, AckedIsStored, Stored,
              BatchIsCommitted, BatchIsClosed, InStream
<1>4. AggregateOrder' /\ IsFiniteSet(outbox)'
  BY <1>1 DEF IInv, AggregateOrder
<1> QED
  BY <1>2, <1>3, <1>4 DEF IInv

LEMMA PollInv ==
    ASSUME IInv, OutboxTypeOK', NEW r \in Relays, Poll(r)
    PROVE  IInv'
<1>1. /\ todo' = [todo EXCEPT ![r] = PollUnpublished]
      /\ UNCHANGED <<nextId, open, outbox, published, done, stream, window>>
  BY DEF Poll, tables, broker
<1>2. todo \in [Relays -> SUBSET Row]
  BY DEF IInv, OutboxTypeOK
<1>3. PollUnpublished \subseteq outbox
  BY DEF PollUnpublished, Unpublished
<1>4. TableInv' /\ StreamIsCommitted' /\ AckedIsStored'
  BY <1>1 DEF IInv, TableInv, IdsFresh, IdsUnique, RowLocked, OpenIsNewest,
              StreamIsCommitted, AckedIsStored, Stored
<1>5. BatchIsCommitted'
  BY <1>1, <1>2, <1>3 DEF IInv, BatchIsCommitted
<1>6. \A y \in outbox : y.id \in published => InStream(y)
  BY DEF IInv, AckedIsStored, Stored, InStream, StreamIsCommitted,
         TableInv, IdsUnique
<1>7. ASSUME NEW x \in PollUnpublished, NEW y \in outbox, y.id < x.id
      PROVE  y \in PollUnpublished \/ InStream(y)
  <2>1. CASE y.id \in published
    BY <1>6, <2>1
  <2>2. CASE y.id \notin published
    <3>1. y \in Unpublished
      BY <2>2 DEF Unpublished
    <3> QED
      BY <1>7, <3>1, PollIsClosed DEF IInv
  <2> QED
    BY <2>1, <2>2
<1>8. BatchIsClosed'
  <2> SUFFICES ASSUME NEW q \in Relays, NEW x \in todo'[q], NEW y \in outbox,
                      y.agg = x.agg, y.id < x.id
               PROVE  y \in todo'[q] \/ InStream(y)'
    BY <1>1 DEF BatchIsClosed
  <2>1. InStream(y)' <=> InStream(y)
    BY <1>1 DEF InStream
  <2>2. CASE q = r
    <3>1. todo'[q] = PollUnpublished
      BY <1>1, <1>2, <2>2
    <3> QED
      BY <1>7, <2>1, <3>1
  <2>3. CASE q # r
    <3>1. todo'[q] = todo[q]
      BY <1>1, <1>2, <2>3
    <3> QED
      BY <2>1, <3>1 DEF IInv, BatchIsClosed
  <2> QED
    BY <2>2, <2>3
<1>9. AggregateOrder' /\ IsFiniteSet(outbox)'
  BY <1>1 DEF IInv, AggregateOrder
<1> QED
  BY <1>4, <1>5, <1>8, <1>9 DEF IInv

LEMMA PublishAckedInv ==
    ASSUME IInv, OutboxTypeOK', NEW r \in Relays, PublishAcked(r)
    PROVE  IInv'
<1>1. UNCHANGED <<nextId, open, outbox, published>>
  BY DEF PublishAcked, tables
<1>2. PICK x \in todo[r] :
        /\ Oldest(x, todo[r]) /\ Store(x)
        /\ todo' = [todo EXCEPT ![r] = @ \ {x}]
        /\ done' = [done EXCEPT ![r] = @ \cup {x.id}]
  BY DEF PublishAcked
<1>3. /\ StreamIsCommitted' /\ AggregateOrder' /\ Stored(x.id)'
      /\ \A n \in window' : Stored(n)'
      /\ \A n : Stored(n) => Stored(n)'
      /\ \A y : InStream(y) => InStream(y)'
  BY <1>1, <1>2, PublishStep
<1>4. todo \in [Relays -> SUBSET Row] /\ done \in [Relays -> SUBSET (1..MaxId)]
  BY DEF IInv, OutboxTypeOK
<1>5. TableInv' /\ IsFiniteSet(outbox)'
  BY <1>1 DEF IInv, TableInv, IdsFresh, IdsUnique, RowLocked, OpenIsNewest
<1>6. AckedIsStored'
  <2>1. \A n \in published' : Stored(n)'
    BY <1>1, <1>3 DEF IInv, AckedIsStored
  <2>2. ASSUME NEW q \in Relays, NEW n \in done'[q] PROVE Stored(n)'
    <3>1. n \in done[q] \/ n = x.id
      BY <1>2, <1>4
    <3> QED
      BY <1>3, <3>1 DEF IInv, AckedIsStored
  <2> QED
    BY <1>3, <2>1, <2>2 DEF AckedIsStored
<1>7. BatchIsCommitted'
  BY <1>1, <1>2, <1>4 DEF IInv, BatchIsCommitted
<1>8. InStream(x)'
  <2>1. PICK i \in 1..Len(stream') : stream'[i].id = x.id
    BY <1>3 DEF Stored
  <2>2. stream'[i] \in outbox /\ x \in outbox
    BY <1>1, <1>3 DEF StreamIsCommitted, IInv, BatchIsCommitted
  <2>3. stream'[i] = x
    BY <2>1, <2>2 DEF IInv, TableInv, IdsUnique
  <2> QED
    BY <2>3 DEF InStream
<1>9. BatchIsClosed'
  <2> SUFFICES ASSUME NEW q \in Relays, NEW z \in todo'[q], NEW y \in outbox,
                      y.agg = z.agg, y.id < z.id
               PROVE  y \in todo'[q] \/ InStream(y)'
    BY <1>1 DEF BatchIsClosed
  <2>1. z \in todo[q]
    BY <1>2, <1>4
  <2>2. y \in todo[q] \/ InStream(y)
    BY <2>1 DEF IInv, BatchIsClosed
  <2>3. y \in todo[q] => (y \in todo'[q] \/ y = x)
    BY <1>2, <1>4
  <2> QED
    BY <1>3, <1>8, <2>2, <2>3
<1> QED
  BY <1>3, <1>5, <1>6, <1>7, <1>9 DEF IInv

LEMMA PublishAckLostInv ==
    ASSUME IInv, OutboxTypeOK', NEW r \in Relays, PublishAckLost(r)
    PROVE  IInv'
<1>1. /\ UNCHANGED <<nextId, open, outbox, published, done>>
      /\ todo' = [todo EXCEPT ![r] = {}]
  BY DEF PublishAckLost, StopBatch, tables
<1>2. PICK x \in todo[r] : Oldest(x, todo[r]) /\ Store(x)
  BY DEF PublishAckLost
<1>3. /\ StreamIsCommitted' /\ AggregateOrder'
      /\ \A n \in window' : Stored(n)'
      /\ \A n : Stored(n) => Stored(n)'
      /\ \A y : InStream(y) => InStream(y)'
  BY <1>1, <1>2, PublishStep
<1>4. \A q \in Relays : todo'[q] = {} \/ todo'[q] = todo[q]
  BY <1>1 DEF IInv, OutboxTypeOK
<1>5. TableInv' /\ IsFiniteSet(outbox)'
  BY <1>1 DEF IInv, TableInv, IdsFresh, IdsUnique, RowLocked, OpenIsNewest
<1>6. AckedIsStored'
  BY <1>1, <1>3 DEF IInv, AckedIsStored
<1>7. BatchIsCommitted'
  BY <1>1, <1>4 DEF IInv, BatchIsCommitted
<1>8. BatchIsClosed'
  BY <1>1, <1>3, <1>4 DEF IInv, BatchIsClosed
<1> QED
  BY <1>3, <1>5, <1>6, <1>7, <1>8 DEF IInv

LEMMA NextInv == IInv /\ OutboxTypeOK' /\ [OutboxNext]_outboxVars => IInv'
<1> SUFFICES ASSUME IInv, OutboxTypeOK', [OutboxNext]_outboxVars PROVE IInv'
  OBVIOUS
<1>t. todo \in [Relays -> SUBSET Row] /\ done \in [Relays -> SUBSET (1..MaxId)]
  BY DEF IInv, OutboxTypeOK
<1>1. ASSUME NEW a \in Aggregates, Begin(a) PROVE IInv'
  BY <1>1, BeginInv
<1>2. ASSUME NEW t \in open, Commit(t) PROVE IInv'
  BY <1>2, CommitInv
<1>3. ASSUME NEW t \in open, Rollback(t) PROVE IInv'
  BY <1>3, RollbackInv
<1>4. ASSUME NEW r \in Relays, Poll(r) PROVE IInv'
  BY <1>4, PollInv
<1>5. ASSUME NEW r \in Relays, PublishAcked(r) PROVE IInv'
  BY <1>5, PublishAckedInv
<1>6. ASSUME NEW r \in Relays, PublishFailed(r) PROVE IInv'
  BY <1>6, <1>t, QuietStep DEF PublishFailed, StopBatch, tables, broker
<1>7. ASSUME NEW r \in Relays, PublishAckLost(r) PROVE IInv'
  BY <1>7, PublishAckLostInv
<1>8. ASSUME NEW r \in Relays, MarkPublished(r) PROVE IInv'
  BY <1>8, <1>t, QuietStep DEF MarkPublished, EndRound, broker
<1>9. ASSUME NEW r \in Relays, MarkFailed(r) PROVE IInv'
  BY <1>9, <1>t, QuietStep DEF MarkFailed, EndRound, tables, broker
<1>10. ASSUME NEW r \in Relays, Crash(r) PROVE IInv'
  BY <1>10, <1>t, QuietStep DEF Crash, EndRound, tables, broker
<1>11. ASSUME Expire PROVE IInv'
  BY <1>11, <1>t, QuietStep DEF Expire, tables, relays
<1>12. CASE UNCHANGED outboxVars
  BY <1>12, <1>t, QuietStep DEF outboxVars, tables, relays, broker
<1> QED
  BY <1>1, <1>2, <1>3, <1>4, <1>5, <1>6, <1>7, <1>8, <1>9, <1>10, <1>11, <1>12
     DEF OutboxNext, Writers, Relaying

\* The inductive invariant holds throughout.
THEOREM Invariance == OutboxSpec => []IInv
<1>1. OutboxInit => IInv
  BY InitInv
<1>2. IInv /\ OutboxTypeOK' /\ [OutboxNext]_outboxVars => IInv'
  BY NextInv
<1> QED
  BY <1>1, <1>2, OutboxTypeCorrect, PTL DEF OutboxSpec

\* Whatever fails, dies or is retried, each event in the stream is preceded by
\* every older event of its aggregate.
THEOREM StreamIsOrdered == OutboxSpec => []AggregateOrder
<1>1. IInv => AggregateOrder
  BY DEF IInv
<1> QED
  BY <1>1, Invariance, PTL

\* A row is marked published only once the broker holds it.
THEOREM NothingIsLost == OutboxSpec => []PublishedIsStored
<1>1. IInv => PublishedIsStored
  BY DEF IInv, PublishedIsStored, AckedIsStored, Stored, InStream,
         StreamIsCommitted, TableInv, IdsUnique
<1> QED
  BY <1>1, Invariance, PTL
-------------------------------------------------------------------------------
(* Deduplication.                                                            *)

\* Every stored message is still deduplicated or has been paid for with an
\* expiry of the duplicate window.
WindowInv ==
    /\ IsFiniteSet(window)
    /\ window \subseteq IdsOf(outbox)
    /\ Len(stream) = Cardinality(window) + expiries

LEMMA StoreCounted ==
    ASSUME IInv, WindowInv, NEW x \in outbox, Store(x), UNCHANGED <<outbox, expiries>>
    PROVE  WindowInv'
<1>1. CASE x.id \in window
  BY <1>1 DEF WindowInv, Store, broker
<1>2. CASE x.id \notin window
  <2>1. stream' = Append(stream, x) /\ window' = window \cup {x.id}
    BY <1>2 DEF Store
  <2>2. IsFiniteSet(window') /\ Cardinality(window') = Cardinality(window) + 1
    BY <1>2, <2>1, FS_AddElement DEF WindowInv
  <2>3. Len(stream') = Len(stream) + 1
    BY <2>1 DEF IInv, OutboxTypeOK
  <2>4. Cardinality(window) \in Nat /\ expiries \in Nat
    BY FS_CardinalityType DEF WindowInv, IInv, OutboxTypeOK
  <2>5. window' \subseteq IdsOf(outbox)
    BY <2>1 DEF WindowInv, IdsOf
  <2>6. Len(stream') = Cardinality(window') + expiries
    BY <2>2, <2>3, <2>4 DEF WindowInv
  <2> QED
    BY <2>2, <2>5, <2>6 DEF WindowInv, IdsOf
<1> QED
  BY <1>1, <1>2

LEMMA WindowStep == IInv /\ WindowInv /\ [OutboxNext]_outboxVars => WindowInv'
<1> SUFFICES ASSUME IInv, WindowInv, [OutboxNext]_outboxVars PROVE WindowInv'
  OBVIOUS
<1> DEFINE Untouched == UNCHANGED <<stream, window, expiries>>
<1>1. ASSUME Untouched, outbox \subseteq outbox' PROVE WindowInv'
  BY <1>1 DEF WindowInv, IdsOf
<1>2. ASSUME NEW a \in Aggregates, Begin(a) PROVE WindowInv'
  BY <1>1, <1>2 DEF Begin, broker, outboxBounds
<1>3. ASSUME NEW t \in open, Commit(t) PROVE WindowInv'
  BY <1>1, <1>3 DEF Commit, broker, outboxBounds
<1>4. ASSUME NEW t \in open, Rollback(t) PROVE WindowInv'
  BY <1>1, <1>4 DEF Rollback, broker, outboxBounds
<1>5. ASSUME NEW r \in Relays, PublishAcked(r) PROVE WindowInv'
  <2>1. PICK x \in todo[r] : Store(x)
    BY <1>5 DEF PublishAcked
  <2>2. x \in outbox
    BY DEF IInv, BatchIsCommitted
  <2> QED
    BY <1>5, <2>1, <2>2, StoreCounted DEF PublishAcked, tables, outboxBounds
<1>6. ASSUME NEW r \in Relays, PublishAckLost(r) PROVE WindowInv'
  <2>1. PICK x \in todo[r] : Store(x)
    BY <1>6 DEF PublishAckLost
  <2>2. x \in outbox
    BY DEF IInv, BatchIsCommitted
  <2> QED
    BY <1>6, <2>1, <2>2, StoreCounted DEF PublishAckLost, StopBatch, tables, outboxBounds
<1>7. ASSUME NEW r \in Relays,
             \/ Poll(r) \/ PublishFailed(r) \/ MarkPublished(r)
             \/ MarkFailed(r) \/ Crash(r)
      PROVE  WindowInv'
  BY <1>1, <1>7 DEF Poll, PublishFailed, StopBatch, MarkPublished, MarkFailed,
                    Crash, EndRound, tables, broker, outboxBounds
<1>8. ASSUME Expire PROVE WindowInv'
  <2>1. PICK n \in window : window' = window \ {n}
    BY <1>8 DEF Expire
  <2>2. UNCHANGED <<outbox, stream>> /\ expiries' = expiries + 1
    BY <1>8 DEF Expire, tables
  <2>3. IsFiniteSet(window') /\ Cardinality(window') = Cardinality(window) - 1
    BY <2>1, FS_RemoveElement DEF WindowInv
  <2>4. Cardinality(window) \in Nat /\ expiries \in Nat
    BY FS_CardinalityType DEF WindowInv, IInv, OutboxTypeOK
  <2>5. Len(stream') = Cardinality(window') + expiries'
    BY <2>2, <2>3, <2>4 DEF WindowInv
  <2>6. window' \subseteq IdsOf(outbox)'
    BY <2>1, <2>2 DEF WindowInv, IdsOf
  <2> QED
    BY <2>3, <2>5, <2>6 DEF WindowInv
<1>9. CASE UNCHANGED outboxVars
  BY <1>1, <1>9 DEF outboxVars, tables, broker, outboxBounds
<1> QED
  BY <1>2, <1>3, <1>4, <1>5, <1>6, <1>7, <1>8, <1>9 DEF OutboxNext, Writers, Relaying

LEMMA WindowBound ==
    ASSUME IInv, WindowInv
    PROVE  DuplicatesNeedExpiry
<1> DEFINE f == [x \in outbox |-> x.id]
<1>1. f \in Surjection(outbox, IdsOf(outbox))
  BY DEF Surjection, IdsOf
<1>2. IsFiniteSet(IdsOf(outbox)) /\ Cardinality(IdsOf(outbox)) <= Cardinality(outbox)
  BY <1>1, FS_Surjection DEF IInv
<1>3. Cardinality(window) <= Cardinality(IdsOf(outbox))
  BY <1>2, FS_Subset DEF WindowInv
<1>4. /\ Cardinality(window) \in Nat /\ Cardinality(IdsOf(outbox)) \in Nat
      /\ Cardinality(outbox) \in Nat /\ expiries \in Nat
  BY <1>2, FS_CardinalityType DEF WindowInv, IInv, OutboxTypeOK
<1> QED
  BY <1>2, <1>3, <1>4 DEF WindowInv, DuplicatesNeedExpiry

\* A retry stores an event twice only after its id left the duplicate window.
THEOREM RetriesAreDeduplicated == OutboxSpec => []DuplicatesNeedExpiry
<1>1. OutboxInit => WindowInv
  BY FS_EmptySet DEF OutboxInit, WindowInv, IdsOf
<1>2. IInv /\ WindowInv /\ [OutboxNext]_outboxVars => WindowInv'
  BY WindowStep
<1>3. IInv /\ WindowInv => DuplicatesNeedExpiry
  BY WindowBound
<1> QED
  BY <1>1, <1>2, <1>3, Invariance, PTL DEF OutboxSpec

-------------------------------------------------------------------------------
(* Refinement.                                                               *)

LEMMA CommitIsWrite ==
    ASSUME IInv, NEW t \in open, Commit(t)
    PROVE  Log!Write
<1>1. t \in Log!Event
  BY DEF IInv, OutboxTypeOK, Row, Log!Event
<1>2. \A y \in outbox : y.agg = t.agg => y.id < t.id
  BY DEF IInv, TableInv, OpenIsNewest
<1>3. outbox' = outbox \cup {t} /\ UNCHANGED stream
  BY DEF Commit, broker
<1> QED
  BY <1>1, <1>2, <1>3 DEF Log!Write

LEMMA PublishIsDeliver ==
    ASSUME IInv, UNCHANGED outbox,
           NEW r \in Relays, NEW x \in todo[r], Oldest(x, todo[r]), Store(x)
    PROVE  Log!Deliver \/ UNCHANGED <<outbox, stream>>
<1>1. CASE x.id \in window
  BY <1>1 DEF Store, broker
<1>2. CASE x.id \notin window
  <2>1. stream' = Append(stream, x)
    BY <1>2 DEF Store
  <2>2. x \in outbox
    BY DEF IInv, BatchIsCommitted
  <2>3. ASSUME NEW y \in outbox, y.agg = x.agg, y.id < x.id
        PROVE  InStream(y)
    <3>1. y.id \in Nat /\ x.id \in Nat
      BY <2>2 DEF IInv, OutboxTypeOK, Row
    <3>2. y \notin todo[r]
      BY <2>3, <3>1 DEF Oldest
    <3> QED
      BY <2>3, <3>2 DEF IInv, BatchIsClosed
  <2>4. Log!Ready(x)
    BY <2>3 DEF Log!Ready, Log!InLog, InStream
  <2> QED
    BY <2>1, <2>2, <2>4 DEF Log!Deliver
<1> QED
  BY <1>1, <1>2

\* Tables, relays and broker implement the ordered per-aggregate log.
THEOREM OutboxImplementsLog == OutboxSpec => ImplementsLog
<1>1. OutboxInit => Log!LogInit
  BY DEF OutboxInit, Log!LogInit
<1>2. IInv /\ [OutboxNext]_outboxVars => [Log!LogNext]_(Log!logVars)
  <2> SUFFICES ASSUME IInv, [OutboxNext]_outboxVars
               PROVE  Log!LogNext \/ UNCHANGED <<outbox, stream>>
    BY DEF Log!logVars
  <2>1. ASSUME NEW t \in open, Commit(t) PROVE Log!LogNext
    BY <2>1, CommitIsWrite DEF Log!LogNext
  <2>2. ASSUME NEW r \in Relays, PublishAcked(r) \/ PublishAckLost(r)
        PROVE  Log!LogNext \/ UNCHANGED <<outbox, stream>>
    <3>1. PICK x \in todo[r] : Oldest(x, todo[r]) /\ Store(x)
      BY <2>2 DEF PublishAcked, PublishAckLost
    <3>2. UNCHANGED outbox
      BY <2>2 DEF PublishAcked, PublishAckLost, StopBatch, tables
    <3> QED
      BY <3>1, <3>2, PublishIsDeliver DEF Log!LogNext
  <2>3. ASSUME NEW r \in Relays,
               \/ Poll(r) \/ PublishFailed(r) \/ MarkPublished(r)
               \/ MarkFailed(r) \/ Crash(r)
        PROVE  UNCHANGED <<outbox, stream>>
    BY <2>3 DEF Poll, PublishFailed, StopBatch, MarkPublished, MarkFailed,
                Crash, EndRound, tables, broker
  <2>4. ASSUME \/ \E a \in Aggregates : Begin(a)
               \/ \E t \in open : Rollback(t)
               \/ Expire
               \/ UNCHANGED outboxVars
        PROVE  UNCHANGED <<outbox, stream>>
    BY <2>4 DEF Begin, Rollback, Expire, outboxVars, tables, broker
  <2> QED
    BY <2>1, <2>2, <2>3, <2>4 DEF OutboxNext, Writers, Relaying
<1> QED
  BY <1>1, <1>2, Invariance, PTL DEF OutboxSpec, ImplementsLog, Log!LogSpec

-------------------------------------------------------------------------------
(* The index row.                                                            *)

ColumnSchema(c) == IF c = "display_name" THEN "app" ELSE "idm"

\* Each column has one source, and so one watermark.
LEMMA KindFacts ==
    ASSUME NEW k \in Kinds
    PROVE  /\ SchemaOf(k) \in Schemas
           /\ Writes[k] \subseteq Columns
           /\ \A c \in Writes[k] : SchemaOf(k) = ColumnSchema(c)
BY DEF Kinds, SchemaOf, Schemas, Writes, Columns, ColumnSchema

LEMMA OverwriteType ==
    ASSUME NEW row \in Rows, NEW e, e.kind \in Kinds, e.seq \in Nat
    PROVE  /\ Overwrite(row, e) \in Rows
           /\ \A c \in Columns : Overwrite(row, e).cols[c] =
                IF c \in Writes[e.kind] THEN e.seq ELSE row.cols[c]
           /\ \A s \in Schemas : Overwrite(row, e).seq[s] =
                IF s = SchemaOf(e.kind) THEN e.seq ELSE row.seq[s]
           /\ e.kind = "user.created" => ~Overwrite(row, e).deleted
           /\ e.kind = "user.deleted" => Overwrite(row, e).deleted
           /\ e.kind \notin {"user.created", "user.deleted"} =>
                Overwrite(row, e).deleted = row.deleted
<1> DEFINE cols == [c \in Columns |-> IF c \in Writes[e.kind] THEN e.seq ELSE row.cols[c]]
           deleted == CASE e.kind = "user.created" -> FALSE
                        [] e.kind = "user.deleted" -> TRUE
                        [] OTHER                   -> row.deleted
           seq == [row.seq EXCEPT ![SchemaOf(e.kind)] = e.seq]
<1>1. cols \in [Columns -> Nat]
  BY DEF Rows
<1>2. deleted \in BOOLEAN
  BY DEF Rows
<1>3. row.seq \in [Schemas -> Nat] /\ SchemaOf(e.kind) \in Schemas
  BY KindFacts DEF Rows
<1>4. seq \in [Schemas -> Nat]
  BY <1>3
<1>5. Overwrite(row, e) = [cols |-> cols, deleted |-> deleted, seq |-> seq]
  BY DEF Overwrite
<1>6. \A s \in Schemas : seq[s] = IF s = SchemaOf(e.kind) THEN e.seq ELSE row.seq[s]
  BY <1>3
<1>7. /\ e.kind = "user.created" => deleted = FALSE
      /\ e.kind = "user.deleted" => deleted = TRUE
      /\ e.kind \notin {"user.created", "user.deleted"} => deleted = row.deleted
  OBVIOUS
<1> HIDE DEF cols, deleted, seq
<1>8. Overwrite(row, e) \in Rows
  BY <1>1, <1>2, <1>4, <1>5 DEF Rows
<1>9. /\ Overwrite(row, e).cols = cols
      /\ Overwrite(row, e).deleted = deleted
      /\ Overwrite(row, e).seq = seq
  BY <1>5
<1>10. \A c \in Columns : cols[c] = IF c \in Writes[e.kind] THEN e.seq ELSE row.cols[c]
  BY DEF cols
<1> QED
  BY <1>6, <1>7, <1>8, <1>9, <1>10

\* One repository call: the row of the event's user alone may change.
LEMMA ProjectEffect ==
    ASSUME index \in [Users -> Rows], NEW e \in Events, Known(e), Project(e)
    PROVE  /\ index' \in [Users -> Rows]
           /\ skipped' \subseteq skipped
           /\ \A u \in Users : u # e.user => index'[u] = index[u]
           /\ ~WatermarkApplies(e, index[e.user]) => index' = index /\ skipped' = skipped
           /\ WatermarkApplies(e, index[e.user]) =>
                /\ index'[e.user] = Overwrite(index[e.user], e)
                /\ skipped' = skipped \ {e}
<1>1. e.user \in Users /\ e.kind \in Kinds /\ e.seq \in Nat
  BY ProjectorAssumption DEF Events, Known
<1>2. Overwrite(index[e.user], e) \in Rows
  BY <1>1, OverwriteType
<1>3. Apply(index[e.user], e) \in Rows
  BY <1>1, <1>2 DEF Apply
<1>4. index' = [index EXCEPT ![e.user] = Apply(index[e.user], e)]
  BY DEF Project
<1>5. /\ index' \in [Users -> Rows]
      /\ index'[e.user] = Apply(index[e.user], e)
      /\ \A u \in Users : u # e.user => index'[u] = index[u]
  BY <1>1, <1>3, <1>4
<1>6. CASE WatermarkApplies(e, index[e.user])
  <2>1. index'[e.user] = Overwrite(index[e.user], e)
    BY <1>5, <1>6 DEF Apply
  <2>2. skipped' = skipped \ {e}
    BY <1>6 DEF Project
  <2> QED
    BY <1>5, <1>6, <2>1, <2>2
<1>7. CASE ~WatermarkApplies(e, index[e.user])
  <2>1. index'[e.user] = index[e.user]
    BY <1>5, <1>7 DEF Apply
  <2>2. index' = index
    BY <1>5, <2>1
  <2>3. skipped' = skipped
    BY <1>7 DEF Project
  <2> QED
    BY <1>5, <1>7, <2>2, <2>3
<1> QED
  BY <1>6, <1>7
-------------------------------------------------------------------------------
(* Type correctness.                                                         *)

LEMMA AppendLog ==
    ASSUME log \in Seq(Events), NEW e \in Events, log' = Append(log, e)
    PROVE  /\ log' \in Seq(Events)
           /\ Len(log') = Len(log) + 1
           /\ \A i \in 1..Len(log) : log'[i] = log[i]
           /\ log'[Len(log) + 1] = e
           /\ Logged' = Logged \cup {e}
<1>1. /\ log' \in Seq(Events) /\ Len(log') = Len(log) + 1 /\ Len(log) \in Nat
      /\ \A i \in 1..Len(log) : log'[i] = log[i]
      /\ log'[Len(log) + 1] = e
  OBVIOUS
<1>2. Logged' \subseteq Logged \cup {e}
  <2> SUFFICES ASSUME NEW i \in 1..Len(log') PROVE log'[i] \in Logged \cup {e}
    BY DEF Logged
  <2>1. i \in 1..Len(log) \/ i = Len(log) + 1
    BY <1>1
  <2> QED
    BY <1>1, <2>1 DEF Logged
<1>3. Logged \subseteq Logged'
  <2> SUFFICES ASSUME NEW i \in 1..Len(log) PROVE log[i] \in Logged'
    BY DEF Logged
  <2>1. i \in 1..Len(log') /\ log'[i] = log[i]
    BY <1>1
  <2> QED
    BY <2>1 DEF Logged
<1>4. e \in Logged'
  <2>1. Len(log) + 1 \in 1..Len(log')
    BY <1>1
  <2> QED
    BY <1>1, <2>1 DEF Logged
<1> QED
  BY <1>1, <1>2, <1>3, <1>4

LEMMA LoggedType == TypeOK => Logged \subseteq Events
BY DEF TypeOK, Logged

LEMMA StateFacts ==
    ASSUME TypeOK
    PROVE  /\ log \in Seq(Events)
           /\ Len(log) \in Nat /\ cursor \in Nat /\ cursor <= Len(log)
           /\ \A i \in acked : i \in 1..Len(log)
           /\ \A i \in acked : log[i] \in Events
           /\ \A u \in Users : \A s \in Schemas : index[u].seq[s] \in Nat
           /\ \A w \in Workers : buffer[w] \in Seq(1..cursor)
<1>1. /\ log \in Seq(Events) /\ Len(log) \in Nat /\ cursor \in 0..Len(log)
      /\ acked \subseteq 1..cursor /\ index \in [Users -> Rows]
  BY DEF TypeOK
<1>2. \A i \in acked : i \in 1..Len(log)
  BY <1>1
<1>3. \A i \in acked : log[i] \in Events
  BY <1>1, <1>2
<1>4. \A u \in Users : index[u].seq \in [Schemas -> Nat]
  BY <1>1 DEF Rows
<1>5. \A w \in Workers : buffer[w] \in Seq(1..cursor)
  BY DEF TypeOK
<1> QED
  BY <1>1, <1>2, <1>3, <1>4, <1>5

\* The message a busy worker has in hand is one of the stream.
LEMMA HeadInLog ==
    ASSUME TypeOK, NEW w \in Workers, NEW p, Busy(w, p)
    PROVE  /\ Head(buffer[w]) = buffer[w][1]
           /\ Head(buffer[w]) \in 1..cursor
           /\ Head(buffer[w]) \in 1..Len(log)
           /\ InHand(w) \in Logged
           /\ InHand(w) \in Events
           /\ Tail(buffer[w]) \in Seq(1..cursor)
           /\ Len(buffer[w]) \in Nat \ {0}
           /\ Len(Tail(buffer[w])) = Len(buffer[w]) - 1
           /\ \A q \in 1..Len(Tail(buffer[w])) : Tail(buffer[w])[q] = buffer[w][q + 1]
<1>1. buffer[w] \in Seq(1..cursor) /\ buffer[w] # << >> /\ cursor \in 0..Len(log)
  BY DEF TypeOK, Busy
<1>2. /\ Head(buffer[w]) \in 1..cursor /\ Tail(buffer[w]) \in Seq(1..cursor)
      /\ Len(Tail(buffer[w])) = Len(buffer[w]) - 1
      /\ \A q \in 1..Len(Tail(buffer[w])) : Tail(buffer[w])[q] = buffer[w][q + 1]
  BY <1>1, HeadTailProperties
<1>3. Head(buffer[w]) = buffer[w][1] /\ Len(buffer[w]) \in Nat \ {0}
  BY <1>1
<1>4. Head(buffer[w]) \in 1..Len(log)
  BY <1>1, <1>2 DEF TypeOK
<1>5. InHand(w) \in Logged
  BY <1>4 DEF InHand, Logged
<1> QED
  BY <1>2, <1>3, <1>4, <1>5, LoggedType

\* Every variable keeps its type: stream, consumer, workers and index.
THEOREM TypeCorrect == Spec => []TypeOK
<1>1. Init => TypeOK
  <2>1. EmptyRow \in Rows
    BY DEF EmptyRow, Rows
  <2> QED
    BY <2>1, ProjectorAssumption DEF Init, TypeOK
<1>2. TypeOK /\ [Next]_vars => TypeOK'
  <2> SUFFICES ASSUME TypeOK, [Next]_vars PROVE TypeOK'
    OBVIOUS
  <2> USE ProjectorAssumption
  <2>c. cursor \in Nat /\ Len(log) \in Nat /\ cursor <= Len(log)
    BY DEF TypeOK
  <2>1. ASSUME NEW u \in Users, NEW kind \in Published, Emit(u, kind) PROVE TypeOK'
    <3>1. PICK n \in 1..MaxSeq :
            log' = Append(log, [kind |-> kind, user |-> u, seq |-> n])
      BY <2>1 DEF Emit
    <3>2. [kind |-> kind, user |-> u, seq |-> n] \in Events
      BY DEF Events
    <3>3. log' \in Seq(Events) /\ Len(log') = Len(log) + 1
      BY <3>1, <3>2, AppendLog DEF TypeOK
    <3>4. cursor \in 0..Len(log')
      BY <2>c, <3>3
    <3> QED
      BY <2>1, <3>3, <3>4 DEF TypeOK, Emit, consumer, workers, projection, bounds
  <2>2. ASSUME Repeat PROVE TypeOK'
    <3>1. PICK e \in Logged : log' = Append(log, e)
      BY <2>2 DEF Repeat
    <3>2. log' \in Seq(Events) /\ Len(log') = Len(log) + 1
      BY <3>1, AppendLog, LoggedType DEF TypeOK
    <3>3. cursor \in 0..Len(log')
      BY <2>c, <3>2
    <3>4. repeats' \in 0..MaxRepeats
      BY <2>2 DEF TypeOK, Repeat
    <3> QED
      BY <2>2, <3>2, <3>3, <3>4 DEF TypeOK, Repeat, consumer, workers, projection
  <2>3. ASSUME NEW w \in Workers, Deliver(w) PROVE TypeOK'
    <3>1. /\ cursor' = cursor + 1 /\ cursor < Len(log)
          /\ buffer' = [buffer EXCEPT ![w] = Append(@, cursor + 1)]
      BY <2>3 DEF Deliver
    <3>2. cursor' \in 0..Len(log) /\ 1..cursor \subseteq 1..cursor'
      BY <2>c, <3>1
    <3>3. \A v \in Workers : buffer[v] \in Seq(1..cursor')
      BY <3>2, SeqMonotonic DEF TypeOK
    <3>4. cursor + 1 \in 1..cursor'
      BY <2>c, <3>1
    <3>5. Append(buffer[w], cursor + 1) \in Seq(1..cursor')
      BY <3>3, <3>4, AppendProperties
    <3>6. buffer' \in [Workers -> Seq(1..cursor')]
      BY <3>1, <3>3, <3>5 DEF TypeOK
    <3> QED
      BY <2>3, <3>2, <3>6 DEF TypeOK, Deliver, projection, bounds
  <2>4. ASSUME NEW w \in Workers, Redeliver(w) \/ RedeliverEarly(w) PROVE TypeOK'
    <3>1. PICK i \in 1..cursor : buffer' = [buffer EXCEPT ![w] = Append(@, i)]
      BY <2>4 DEF Redeliver, RedeliverEarly
    <3>2. Append(buffer[w], i) \in Seq(1..cursor)
      BY AppendProperties DEF TypeOK
    <3>3. buffer' \in [Workers -> Seq(1..cursor)]
      BY <3>1, <3>2 DEF TypeOK
    <3>4. early' \in 0..MaxEarly
      <4>1. CASE Redeliver(w)
        BY <4>1 DEF TypeOK, Redeliver, bounds
      <4>2. CASE RedeliverEarly(w)
        <5>1. early \in 0..MaxEarly /\ early < MaxEarly /\ early' = early + 1
          BY <4>2 DEF TypeOK, RedeliverEarly
        <5> QED
          BY <5>1, ProjectorAssumption
      <4> QED
        BY <2>4, <4>1, <4>2
    <3> QED
      BY <2>4, <3>3, <3>4 DEF TypeOK, Redeliver, RedeliverEarly, consumer, projection, bounds
  <2>5. ASSUME NEW w \in Workers, ApplyOk(w) \/ ApplyFails(w) PROVE TypeOK'
    <3>1. InHand(w) \in Events
      BY <2>5, HeadInLog DEF ApplyOk, ApplyFails
    <3>2. index' \in [Users -> Rows] /\ skipped' \subseteq skipped
      BY <2>5, <3>1, ProjectEffect DEF TypeOK, ApplyOk, ApplyFails, projection
    <3>3. phase' \in [Workers -> {"apply", "ack"}]
      BY <2>5 DEF TypeOK, ApplyOk, ApplyFails
    <3>4. attempt' \in [Workers -> 0..MaxAttempts]
      <4>1. CASE ApplyOk(w)
        BY <4>1 DEF TypeOK, ApplyOk
      <4>2. CASE ApplyFails(w)
        <5>1. attempt[w] + 1 \in 0..MaxAttempts
          BY <4>2 DEF TypeOK, ApplyFails
        <5> QED
          BY <4>2, <5>1 DEF TypeOK, ApplyFails
      <4> QED
        BY <2>5, <4>1, <4>2
    <3> QED
      BY <2>5, <3>2, <3>3, <3>4 DEF TypeOK, ApplyOk, ApplyFails, consumer, bounds
  <2>6. ASSUME NEW w \in Workers, GiveUp(w) PROVE TypeOK'
    <3>1. InHand(w) \in Events
      BY <2>6, HeadInLog DEF GiveUp
    <3>2. skipped' \subseteq Events
      BY <2>6, <3>1 DEF TypeOK, GiveUp
    <3> QED
      BY <2>6, <3>2 DEF TypeOK, GiveUp, consumer, bounds
  <2>7. ASSUME NEW w \in Workers, Ack(w) \/ AckLost(w) PROVE TypeOK'
    <3>1. Head(buffer[w]) \in 1..cursor /\ Tail(buffer[w]) \in Seq(1..cursor)
      BY <2>7, HeadInLog DEF Ack, AckLost
    <3>2. /\ buffer' \in [Workers -> Seq(1..cursor)]
          /\ phase' \in [Workers -> {"apply", "ack"}]
      BY <2>7, <3>1 DEF TypeOK, Ack, AckLost, NextMessage
    <3>3. acked' \subseteq 1..cursor
      BY <2>7, <3>1 DEF TypeOK, Ack, AckLost, consumer
    <3>4. losses' \in 0..MaxLosses
      BY <2>7 DEF TypeOK, Ack, AckLost, bounds
    <3> QED
      BY <2>7, <3>2, <3>3, <3>4 DEF TypeOK, Ack, AckLost, consumer, projection, bounds
  <2>8. ASSUME NEW w \in Workers, Restart(w) PROVE TypeOK'
    <3>1. /\ buffer' \in [Workers -> Seq(1..cursor)]
          /\ phase' \in [Workers -> {"apply", "ack"}]
          /\ attempt' \in [Workers -> 0..MaxAttempts]
          /\ restarts' \in 0..MaxRestarts
      BY <2>8 DEF TypeOK, Restart
    <3> QED
      BY <2>8, <3>1 DEF TypeOK, Restart, consumer, projection
  <2>9. CASE UNCHANGED vars
    BY <2>9 DEF TypeOK, vars, consumer, workers, projection, bounds
  <2> QED
    BY <2>1, <2>2, <2>3, <2>4, <2>5, <2>6, <2>7, <2>8, <2>9
       DEF Next, Publishing, Consuming
<1> QED
  BY <1>1, <1>2, PTL DEF Spec
-------------------------------------------------------------------------------
(* What survives every restart, redelivery and competing worker.             *)

\* The first idm event of a user is its only user.created.
CreatedFirst ==
    \A d \in Logged : (Known(d) /\ SchemaOf(d.kind) = "idm") =>
        \E c \in Logged : c.kind = "user.created" /\ c.user = d.user /\ c.seq <= d.seq

CreatedOnce ==
    \A c, d \in Logged :
        (c.kind = "user.created" /\ d.kind = "user.created" /\ c.user = d.user) => c = d

\* Columns are not ahead of their watermark.
ColumnsCovered ==
    \A u \in Users : \A c \in Columns : index[u].cols[c] <= index[u].seq[ColumnSchema(c)]

\* A deleted row has applied a user.deleted of the stream.
DeletedHasCause ==
    \A u \in Users : index[u].deleted =>
        \E d \in Logged : d.kind = "user.deleted" /\ d.user = u /\ Covered(d)

Settled(e) == Known(e) => (Covered(e) \/ e \in skipped)

AckedIsSettled == \A i \in acked : Settled(log[i])

AppliedIsSettled == \A w \in Workers : Busy(w, "ack") => Settled(InHand(w))

\* Only a message in hand is acknowledged.
AckHolds == \A w \in Workers : phase[w] = "ack" => buffer[w] # << >>

RInv ==
    /\ TypeOK
    /\ AckHolds
    /\ CreatedFirst
    /\ CreatedOnce
    /\ ColumnsCovered
    /\ DeletedHasCause
    /\ AckedIsSettled
    /\ AppliedIsSettled

LEMMA RInvInit == Init => RInv
<1> SUFFICES ASSUME Init PROVE RInv
  OBVIOUS
<1>1. EmptyRow \in Rows
  BY DEF EmptyRow, Rows
<1>2. TypeOK
  BY <1>1, ProjectorAssumption DEF Init, TypeOK
<1>3. Logged = {}
  BY DEF Init, Logged
<1>4. ColumnsCovered
  BY DEF Init, ColumnsCovered, EmptyRow, ColumnSchema, Schemas
<1>5. DeletedHasCause
  BY DEF Init, DeletedHasCause, EmptyRow
<1>6. AckedIsSettled /\ AppliedIsSettled /\ AckHolds
  BY DEF Init, AckedIsSettled, AppliedIsSettled, AckHolds, Busy
<1> QED
  BY <1>2, <1>3, <1>4, <1>5, <1>6 DEF RInv, CreatedFirst, CreatedOnce

\* Applying an event never lowers a watermark or a column, never revives a
\* deleted user, and settles the event and whatever was settled before.
LEMMA ProjectForward ==
    ASSUME RInv, NEW e \in Logged, Known(e), Project(e), UNCHANGED log
    PROVE  /\ \A u \in Users : \A s \in Schemas : index'[u].seq[s] >= index[u].seq[s]
           /\ \A u \in Users : \A c \in Columns : index'[u].cols[c] >= index[u].cols[c]
           /\ \A u \in Users : index[u].deleted => index'[u].deleted
           /\ Covered(e)'
           /\ \A d \in Events : Settled(d) => Settled(d)'
           /\ ColumnsCovered'
           /\ DeletedHasCause'
<1> DEFINE row == index[e.user]
           s0 == SchemaOf(e.kind)
<1>1. /\ index \in [Users -> Rows] /\ e \in Events
      /\ e.user \in Users /\ e.kind \in Kinds /\ e.seq \in Nat
  <2>1. index \in [Users -> Rows] /\ e \in Events
    BY LoggedType DEF RInv, TypeOK
  <2> QED
    BY <2>1, ProjectorAssumption DEF Events, Known
<1>2. /\ index' \in [Users -> Rows]
      /\ skipped' \subseteq skipped
      /\ \A u \in Users : u # e.user => index'[u] = index[u]
      /\ ~WatermarkApplies(e, row) => index' = index /\ skipped' = skipped
      /\ WatermarkApplies(e, row) =>
            index'[e.user] = Overwrite(row, e) /\ skipped' = skipped \ {e}
  BY <1>1, ProjectEffect
<1>3. /\ s0 \in Schemas /\ Writes[e.kind] \subseteq Columns
      /\ \A c \in Writes[e.kind] : s0 = ColumnSchema(c)
  BY <1>1, KindFacts
<1>4. /\ \A u \in Users : \A s \in Schemas : index[u].seq[s] \in Nat
      /\ \A u \in Users : \A c \in Columns : index[u].cols[c] \in Nat
  BY <1>1 DEF Rows
<1>5. CASE ~WatermarkApplies(e, row)
  <2>1. index' = index /\ skipped' = skipped
    BY <1>2, <1>5
  <2>2. Covered(e)
    <3>1. ~(e.seq > row.seq[s0])
      BY <1>5 DEF WatermarkApplies
    <3>2. row.seq[s0] \in Nat
      BY <1>1, <1>3, <1>4
    <3> QED
      BY <1>1, <3>1, <3>2 DEF Covered
  <2>3. Covered(e)'
    BY <2>1, <2>2 DEF Covered
  <2>4. \A d \in Events : Settled(d) => Settled(d)'
    BY <2>1 DEF Settled, Covered, Known
  <2>5. ColumnsCovered' /\ DeletedHasCause'
    BY <2>1 DEF RInv, ColumnsCovered, DeletedHasCause, Covered, Logged
  <2>6. /\ \A u \in Users : \A s \in Schemas : index'[u].seq[s] >= index[u].seq[s]
        /\ \A u \in Users : \A c \in Columns : index'[u].cols[c] >= index[u].cols[c]
    BY <1>4, <2>1
  <2> QED
    BY <2>1, <2>3, <2>4, <2>5, <2>6
<1>6. CASE WatermarkApplies(e, row)
  <2>1. index'[e.user] = Overwrite(row, e) /\ skipped' = skipped \ {e}
    BY <1>2, <1>6
  <2>2. e.seq > row.seq[s0]
    BY <1>6 DEF WatermarkApplies
  <2>3. /\ \A c \in Columns : index'[e.user].cols[c] =
              IF c \in Writes[e.kind] THEN e.seq ELSE row.cols[c]
        /\ \A s \in Schemas : index'[e.user].seq[s] = IF s = s0 THEN e.seq ELSE row.seq[s]
    BY <1>1, <2>1, OverwriteType
  <2>4. \A u \in Users : \A s \in Schemas : index'[u].seq[s] >= index[u].seq[s]
    <3> SUFFICES ASSUME NEW u \in Users, NEW s \in Schemas
                 PROVE  index'[u].seq[s] >= index[u].seq[s]
      OBVIOUS
    <3>1. CASE u = e.user /\ s = s0
      BY <1>1, <1>4, <2>2, <2>3, <3>1
    <3>2. CASE u = e.user /\ s # s0
      BY <1>1, <1>4, <2>3, <3>2
    <3>3. CASE u # e.user
      BY <1>2, <1>4, <3>3
    <3> QED
      BY <3>1, <3>2, <3>3
  <2>5. \A c \in Columns : row.cols[c] <= row.seq[ColumnSchema(c)]
    BY <1>1 DEF RInv, ColumnsCovered
  <2>6. \A u \in Users : \A c \in Columns : index'[u].cols[c] >= index[u].cols[c]
    <3> SUFFICES ASSUME NEW u \in Users, NEW c \in Columns
                 PROVE  index'[u].cols[c] >= index[u].cols[c]
      OBVIOUS
    <3>1. CASE u = e.user /\ c \in Writes[e.kind]
      <4>1. index'[u].cols[c] = e.seq /\ row.cols[c] <= row.seq[s0]
        BY <1>3, <2>3, <2>5, <3>1
      <4>2. row.cols[c] \in Nat /\ row.seq[s0] \in Nat
        BY <1>1, <1>3, <1>4
      <4> QED
        BY <1>1, <2>2, <3>1, <4>1, <4>2
    <3>2. CASE u = e.user /\ c \notin Writes[e.kind]
      BY <1>4, <2>3, <3>2
    <3>3. CASE u # e.user
      BY <1>2, <1>4, <3>3
    <3> QED
      BY <3>1, <3>2, <3>3
  <2>7. Covered(e)'
    BY <1>1, <1>3, <2>3 DEF Covered
  <2>8. ASSUME NEW d \in Events, Known(d), Covered(d) PROVE Covered(d)'
    <3>1. d.user \in Users /\ SchemaOf(d.kind) \in Schemas /\ d.seq \in Nat
      BY <2>8, KindFacts, ProjectorAssumption DEF Events, Known
    <3>2. /\ d.seq <= index[d.user].seq[SchemaOf(d.kind)]
          /\ index'[d.user].seq[SchemaOf(d.kind)] >= index[d.user].seq[SchemaOf(d.kind)]
      BY <2>4, <2>8, <3>1 DEF Covered
    <3>3. /\ index[d.user].seq[SchemaOf(d.kind)] \in Nat
          /\ index'[d.user].seq[SchemaOf(d.kind)] \in Nat
      BY <1>2, <1>4, <3>1 DEF Rows
    <3> QED
      BY <3>1, <3>2, <3>3 DEF Covered
  <2>9. \A d \in Events : Settled(d) => Settled(d)'
    BY <2>1, <2>7, <2>8 DEF Settled, Known
  <2>10. ColumnsCovered'
    <3> SUFFICES ASSUME NEW u \in Users, NEW c \in Columns
                 PROVE  index'[u].cols[c] <= index'[u].seq[ColumnSchema(c)]
      BY DEF ColumnsCovered
    <3>1. ColumnSchema(c) \in Schemas
      BY DEF ColumnSchema, Schemas
    <3>2. CASE u # e.user
      BY <1>2, <3>2 DEF RInv, ColumnsCovered
    <3>3. CASE u = e.user /\ c \in Writes[e.kind]
      BY <1>1, <1>3, <2>3, <3>1, <3>3
    <3>4. CASE u = e.user /\ c \notin Writes[e.kind]
      <4>1. index'[u].cols[c] = row.cols[c]
        BY <2>3, <3>4
      <4>2. index'[u].seq[ColumnSchema(c)] >= row.seq[ColumnSchema(c)]
        BY <2>4, <3>1, <3>4
      <4>3. row.cols[c] \in Nat /\ row.seq[ColumnSchema(c)] \in Nat
            /\ index'[u].seq[ColumnSchema(c)] \in Nat
        BY <1>1, <1>2, <1>4, <3>1 DEF Rows
      <4> QED
        BY <2>5, <4>1, <4>2, <4>3
    <3> QED
      BY <3>2, <3>3, <3>4
  <2>11. row.deleted => e.kind # "user.created"
    <3> SUFFICES ASSUME row.deleted, e.kind = "user.created" PROVE FALSE
      OBVIOUS
    <3>1. PICK d \in Logged : d.kind = "user.deleted" /\ d.user = e.user /\ Covered(d)
      BY <1>1 DEF RInv, DeletedHasCause
    <3>2. SchemaOf(d.kind) = "idm" /\ s0 = "idm" /\ Known(d)
      BY <3>1 DEF SchemaOf, Known, Kinds
    <3>3. PICK c \in Logged : c.kind = "user.created" /\ c.user = d.user /\ c.seq <= d.seq
      BY <3>2 DEF RInv, CreatedFirst
    <3>4. c = e
      BY <3>1, <3>3 DEF RInv, CreatedOnce
    <3>5. d.seq \in Nat /\ row.seq["idm"] \in Nat
      BY <1>1, <1>3, <1>4, <3>2, LoggedType, ProjectorAssumption DEF RInv, Events
    <3>6. e.seq <= d.seq /\ d.seq <= row.seq["idm"] /\ e.seq > row.seq["idm"]
      BY <2>2, <3>1, <3>2, <3>3, <3>4 DEF Covered
    <3> QED
      BY <1>1, <3>5, <3>6
  <2>12. \A u \in Users : index[u].deleted => index'[u].deleted
    <3> SUFFICES ASSUME NEW u \in Users, index[u].deleted PROVE index'[u].deleted
      OBVIOUS
    <3>1. CASE u # e.user
      BY <1>2, <3>1
    <3>2. CASE u = e.user
      <4>1. e.kind = "user.deleted" => index'[u].deleted
        BY <1>1, <2>1, <3>2, OverwriteType
      <4>2. e.kind # "user.deleted" => index'[u].deleted = row.deleted
        BY <1>1, <2>1, <2>11, <3>2, OverwriteType
      <4> QED
        BY <3>2, <4>1, <4>2
    <3> QED
      BY <3>1, <3>2
  <2>13. DeletedHasCause'
    <3> SUFFICES ASSUME NEW u \in Users, index'[u].deleted
                 PROVE  \E d \in Logged : d.kind = "user.deleted" /\ d.user = u /\ Covered(d)'
      BY DEF DeletedHasCause, Logged
    <3>1. CASE u = e.user /\ e.kind = "user.deleted"
      BY <2>7, <3>1
    <3>2. CASE ~(u = e.user /\ e.kind = "user.deleted")
      <4>1. index[u].deleted
        <5>1. CASE u # e.user
          BY <1>2, <5>1
        <5>2. CASE u = e.user
          <6>1. e.kind # "user.created"
            BY <1>1, <2>1, <5>2, OverwriteType
          <6> QED
            BY <1>1, <2>1, <3>2, <5>2, <6>1, OverwriteType
        <5> QED
          BY <5>1, <5>2
      <4>2. PICK d \in Logged : d.kind = "user.deleted" /\ d.user = u /\ Covered(d)
        BY <4>1 DEF RInv, DeletedHasCause
      <4>3. Known(d) /\ d \in Events
        BY <4>2, LoggedType DEF Known, Kinds, RInv
      <4> QED
        BY <2>8, <4>2, <4>3
    <3> QED
      BY <3>1, <3>2
  <2> QED
    BY <2>4, <2>6, <2>7, <2>9, <2>10, <2>12, <2>13
<1> QED
  BY <1>5, <1>6
\* Steps that touch neither the stream nor the index, and hold nothing in the
\* "ack" phase that they did not hold before.
LEMMA RInvQuiet ==
    ASSUME RInv, TypeOK', UNCHANGED <<log, index, skipped>>,
           \A i \in acked' : i \in acked \/ Settled(log[i]),
           \A w \in Workers : phase'[w] = "ack" =>
                /\ phase[w] = "ack"
                /\ buffer'[w] # << >>
                /\ Head(buffer'[w]) = Head(buffer[w])
    PROVE  RInv'
<1>1. Logged' = Logged
  BY DEF Logged
<1>2. CreatedFirst' /\ CreatedOnce'
  BY <1>1 DEF RInv, CreatedFirst, CreatedOnce
<1>3. ColumnsCovered' /\ DeletedHasCause'
  BY <1>1 DEF RInv, ColumnsCovered, DeletedHasCause, Covered
<1>4. AckedIsSettled'
  BY DEF RInv, AckedIsSettled, Settled, Covered
<1>5. AppliedIsSettled'
  <2> SUFFICES ASSUME NEW w \in Workers, Busy(w, "ack")' PROVE Settled(InHand(w))'
    BY DEF AppliedIsSettled
  <2>1. InHand(w)' = InHand(w)
    BY DEF InHand, Busy
  <2>2. Settled(InHand(w))
    BY DEF RInv, AppliedIsSettled, AckHolds, Busy
  <2> QED
    BY <2>1, <2>2 DEF Settled, Covered
<1>6. AckHolds'
  BY DEF AckHolds
<1> QED
  BY <1>2, <1>3, <1>4, <1>5, <1>6 DEF RInv

LEMMA RInvEmit ==
    ASSUME RInv, TypeOK', NEW u \in Users, NEW kind \in Published, Emit(u, kind)
    PROVE  RInv'
<1>1. PICK n \in 1..MaxSeq :
        LET e == [kind |-> kind, user |-> u, seq |-> n]
        IN  /\ \A d \in Logged : SchemaOf(d.kind) = SchemaOf(kind) => d.seq # n
            /\ \A d \in Logged : SameSource(d, e) => d.seq < n
            /\ log' = Append(log, e)
  BY DEF Emit
<1> DEFINE e == [kind |-> kind, user |-> u, seq |-> n]
<1>2. e \in Events
  BY ProjectorAssumption DEF Events
<1>3. /\ \A i \in 1..Len(log) : log'[i] = log[i]
      /\ Logged' = Logged \cup {e}
  BY <1>1, <1>2, AppendLog DEF RInv, TypeOK
<1>4. UNCHANGED <<cursor, acked, buffer, phase, index, skipped>>
  BY DEF Emit, consumer, workers, projection
<1>5. n \in Nat
  BY ProjectorAssumption
<1>6. Lifecycle(u, kind)
  BY DEF Emit
<1>7. CreatedFirst'
  <2> SUFFICES ASSUME NEW d \in Logged \cup {e}, Known(d), SchemaOf(d.kind) = "idm"
               PROVE  \E c \in Logged \cup {e} :
                        c.kind = "user.created" /\ c.user = d.user /\ c.seq <= d.seq
    BY <1>3 DEF CreatedFirst, Known
  <2>1. CASE d \in Logged
    BY <2>1 DEF RInv, CreatedFirst
  <2>2. CASE d = e /\ kind = "user.created"
    BY <1>5, <2>2
  <2>3. CASE d = e /\ kind # "user.created"
    <3>1. kind \in {"user.updated", "user.roles_set", "user.deleted"}
      BY <2>3 DEF Known, Kinds, SchemaOf
    <3>2. "user.created" \in {x.kind : x \in {y \in Logged : y.user = u}}
      BY <1>6, <3>1 DEF Lifecycle
    <3>3. PICK c \in Logged : c.user = u /\ c.kind = "user.created"
      BY <3>2
    <3>4. SameSource(c, e)
      BY <2>3, <3>3 DEF SameSource, SchemaOf
    <3>5. c.seq < n /\ c.seq \in Nat
      BY <1>1, <3>4, LoggedType, ProjectorAssumption DEF RInv, Events
    <3> QED
      BY <1>5, <2>3, <3>3, <3>5
  <2> QED
    BY <2>1, <2>2, <2>3
<1>8. CreatedOnce'
  <2>1. kind = "user.created" => \A c \in Logged : c.user = u => c.kind # "user.created"
    BY <1>6 DEF Lifecycle
  <2> QED
    BY <1>3, <2>1 DEF RInv, CreatedOnce
<1>9. ColumnsCovered'
  BY <1>4 DEF RInv, ColumnsCovered
<1>10. DeletedHasCause'
  BY <1>3, <1>4 DEF RInv, DeletedHasCause, Covered
<1>11. AckedIsSettled'
  <2>1. \A i \in acked : i \in 1..Len(log)
    BY StateFacts DEF RInv
  <2> QED
    BY <1>3, <1>4, <2>1 DEF RInv, AckedIsSettled, Settled, Covered
<1>12. AppliedIsSettled'
  <2> SUFFICES ASSUME NEW w \in Workers, Busy(w, "ack")' PROVE Settled(InHand(w))'
    BY DEF AppliedIsSettled
  <2>1. Busy(w, "ack")
    BY <1>4 DEF Busy
  <2>2. InHand(w)' = InHand(w)
    BY <1>3, <1>4, <2>1, HeadInLog DEF InHand, RInv
  <2>3. Settled(InHand(w))
    BY <2>1 DEF RInv, AppliedIsSettled
  <2> QED
    BY <1>4, <2>2, <2>3 DEF Settled, Covered
<1>13. AckHolds'
  BY <1>4 DEF RInv, AckHolds
<1> QED
  BY <1>7, <1>8, <1>9, <1>10, <1>11, <1>12, <1>13 DEF RInv

LEMMA RInvRepeat ==
    ASSUME RInv, TypeOK', Repeat
    PROVE  RInv'
<1>1. PICK e \in Logged : log' = Append(log, e)
  BY DEF Repeat
<1>2. /\ \A i \in 1..Len(log) : log'[i] = log[i]
      /\ Logged' = Logged
  <2>1. e \in Events /\ log \in Seq(Events)
    BY LoggedType, StateFacts DEF RInv
  <2>2. /\ \A i \in 1..Len(log) : log'[i] = log[i]
        /\ Logged' = Logged \cup {e}
    BY <1>1, <2>1, AppendLog
  <2> QED
    BY <2>2
<1>3. UNCHANGED <<cursor, acked, buffer, phase, index, skipped>>
  BY DEF Repeat, consumer, workers, projection
<1>4. CreatedFirst' /\ CreatedOnce' /\ ColumnsCovered' /\ DeletedHasCause'
  BY <1>2, <1>3 DEF RInv, CreatedFirst, CreatedOnce, ColumnsCovered, DeletedHasCause, Covered
<1>5. AckedIsSettled'
  <2>1. \A i \in acked : i \in 1..Len(log)
    BY StateFacts DEF RInv
  <2> QED
    BY <1>2, <1>3, <2>1 DEF RInv, AckedIsSettled, Settled, Covered
<1>6. AppliedIsSettled'
  <2> SUFFICES ASSUME NEW w \in Workers, Busy(w, "ack")' PROVE Settled(InHand(w))'
    BY DEF AppliedIsSettled
  <2>1. Busy(w, "ack")
    BY <1>3 DEF Busy
  <2>2. InHand(w)' = InHand(w)
    BY <1>2, <1>3, <2>1, HeadInLog DEF InHand, RInv
  <2>3. Settled(InHand(w))
    BY <2>1 DEF RInv, AppliedIsSettled
  <2> QED
    BY <1>3, <2>2, <2>3 DEF Settled, Covered
<1>7. AckHolds'
  BY <1>3 DEF RInv, AckHolds
<1> QED
  BY <1>4, <1>5, <1>6, <1>7 DEF RInv

\* A worker step that applies the message in hand, or fails to.
LEMMA RInvApply ==
    ASSUME RInv, TypeOK', NEW w \in Workers, ApplyOk(w) \/ ApplyFails(w)
    PROVE  RInv'
<1>1. /\ Busy(w, "apply") /\ UNCHANGED <<log, acked, buffer>>
      /\ phase' = phase \/ phase' = [phase EXCEPT ![w] = "ack"]
  BY DEF ApplyOk, ApplyFails, consumer
<1>2. InHand(w) \in Logged /\ InHand(w) \in Events
  BY <1>1, HeadInLog DEF RInv
<1>a. PICK e \in Logged : e = InHand(w)
  BY <1>2
<1>b. InHand(w)' = InHand(w)
  BY <1>1 DEF InHand
<1>c. AckHolds'
  BY <1>1 DEF RInv, AckHolds, TypeOK, Busy
<1>3. CASE Known(InHand(w)) /\ Project(InHand(w))
  <2>0. Known(e) /\ Project(e) /\ UNCHANGED log
    BY <1>1, <1>3, <1>a
  <2>1. /\ Covered(e)'
        /\ \A d \in Events : Settled(d) => Settled(d)'
        /\ ColumnsCovered' /\ DeletedHasCause'
    BY <2>0, ProjectForward
  <2>2. CreatedFirst' /\ CreatedOnce'
    BY <1>1 DEF RInv, CreatedFirst, CreatedOnce, Logged
  <2>3. \A i \in acked : log[i] \in Events
    BY StateFacts DEF RInv
  <2>4. AckedIsSettled'
    <3> SUFFICES ASSUME NEW i \in acked PROVE Settled(log[i])'
      BY <1>1 DEF AckedIsSettled
    <3>1. PICK d \in Events : d = log[i]
      BY <2>3
    <3>2. Settled(d)
      BY <3>1 DEF RInv, AckedIsSettled
    <3>3. Settled(d)'
      BY <2>1, <3>2
    <3> QED
      BY <1>1, <3>1, <3>3 DEF Settled, Covered
  <2>5. AppliedIsSettled'
    <3> SUFFICES ASSUME NEW v \in Workers, Busy(v, "ack")' PROVE Settled(InHand(v))'
      BY DEF AppliedIsSettled
    <3>1. InHand(v)' = InHand(v)
      BY <1>1 DEF InHand
    <3>2. CASE v = w
      BY <1>a, <2>1, <3>1, <3>2 DEF Settled, Covered
    <3>3. CASE v # w
      <4>1. Busy(v, "ack")
        BY <1>1, <3>3 DEF Busy, RInv, TypeOK
      <4>2. Settled(InHand(v)) /\ InHand(v) \in Events
        BY <4>1, HeadInLog DEF RInv, AppliedIsSettled
      <4>3. Settled(InHand(v)) => \A d \in Events : d = InHand(v) => Settled(d)'
        BY <2>1
      <4> QED
        BY <3>1, <4>2, <4>3 DEF Settled, Covered
    <3> QED
      BY <3>2, <3>3
  <2> QED
    BY <1>c, <2>1, <2>2, <2>4, <2>5 DEF RInv
<1>4. CASE UNCHANGED projection /\ (ApplyOk(w) => ~Known(InHand(w)))
  <2>1. UNCHANGED <<log, index, skipped, acked, buffer>>
    BY <1>1, <1>4 DEF projection
  <2>2. CreatedFirst' /\ CreatedOnce' /\ ColumnsCovered' /\ DeletedHasCause'
    BY <2>1 DEF RInv, CreatedFirst, CreatedOnce, ColumnsCovered, DeletedHasCause,
                Covered, Logged
  <2>3. AckedIsSettled'
    BY <2>1 DEF RInv, AckedIsSettled, Settled, Covered
  <2>4. AppliedIsSettled'
    <3> SUFFICES ASSUME NEW v \in Workers, Busy(v, "ack")' PROVE Settled(InHand(v))'
      BY DEF AppliedIsSettled
    <3>1. InHand(v)' = InHand(v)
      BY <2>1 DEF InHand
    <3>2. Busy(v, "ack") \/ (v = w /\ ApplyOk(w))
      BY <1>1, <2>1 DEF Busy, ApplyOk, ApplyFails, RInv, TypeOK
    <3>3. Settled(InHand(v))
      BY <1>4, <3>2 DEF RInv, AppliedIsSettled, Settled
    <3> QED
      BY <2>1, <3>1, <3>3 DEF Settled, Covered
  <2> QED
    BY <1>c, <2>2, <2>3, <2>4 DEF RInv
<1> QED
  BY <1>3, <1>4 DEF ApplyOk, ApplyFails

LEMMA RInvGiveUp ==
    ASSUME RInv, TypeOK', NEW w \in Workers, GiveUp(w)
    PROVE  RInv'
<1>0. Busy(w, "apply")
  BY DEF GiveUp
<1>e. PICK e \in Logged : e = InHand(w)
  BY <1>0, HeadInLog DEF RInv
<1>1. /\ Busy(w, "apply") /\ Known(e)
      /\ UNCHANGED <<log, acked, buffer, index>>
      /\ phase' = [phase EXCEPT ![w] = "ack"]
      /\ skipped' = IF WatermarkApplies(e, index[e.user]) THEN skipped \cup {e} ELSE skipped
  BY <1>e DEF GiveUp, consumer
<1>2. e \in Events /\ e.user \in Users /\ e.seq \in Nat /\ SchemaOf(e.kind) \in Schemas
  <2>1. e \in Events
    BY LoggedType DEF RInv
  <2> QED
    BY <1>1, <2>1, KindFacts, ProjectorAssumption DEF Events, Known
<1>3. Settled(e)'
  <2>1. CASE WatermarkApplies(e, index[e.user])
    BY <1>1, <2>1 DEF Settled
  <2>2. CASE ~WatermarkApplies(e, index[e.user])
    <3>1. index[e.user].seq[SchemaOf(e.kind)] \in Nat
      BY <1>2, StateFacts DEF RInv
    <3>2. Covered(e)
      BY <1>2, <2>2, <3>1 DEF WatermarkApplies, Covered
    <3> QED
      BY <1>1, <3>2 DEF Settled, Covered
  <2> QED
    BY <2>1, <2>2
<1>4. CreatedFirst' /\ CreatedOnce' /\ ColumnsCovered' /\ DeletedHasCause'
  BY <1>1 DEF RInv, CreatedFirst, CreatedOnce, ColumnsCovered, DeletedHasCause,
              Covered, Logged
<1>5. skipped \subseteq skipped'
  BY <1>1
<1>6. AckedIsSettled'
  BY <1>1, <1>5 DEF RInv, AckedIsSettled, Settled, Covered
<1>7. AppliedIsSettled'
  <2> SUFFICES ASSUME NEW v \in Workers, Busy(v, "ack")' PROVE Settled(InHand(v))'
    BY DEF AppliedIsSettled
  <2>1. InHand(v)' = InHand(v)
    BY <1>1 DEF InHand
  <2>2. CASE v = w
    BY <1>e, <1>3, <2>1, <2>2 DEF Settled, Covered
  <2>3. CASE v # w
    <3>1. Busy(v, "ack")
      BY <1>1, <2>3 DEF Busy, RInv, TypeOK
    <3> QED
      BY <1>1, <1>5, <2>1, <3>1 DEF RInv, AppliedIsSettled, Settled, Covered
  <2> QED
    BY <2>2, <2>3
<1>8. AckHolds'
  BY <1>1 DEF RInv, AckHolds, TypeOK, Busy
<1> QED
  BY <1>4, <1>6, <1>7, <1>8 DEF RInv

\* A fresh or repeated delivery puts a message behind those a worker holds.
LEMMA RInvDeliver ==
    ASSUME RInv, TypeOK', NEW w \in Workers,
           Deliver(w) \/ Redeliver(w) \/ RedeliverEarly(w)
    PROVE  RInv'
<1>1. PICK i : buffer' = [buffer EXCEPT ![w] = Append(@, i)]
  BY DEF Deliver, Redeliver, RedeliverEarly
<1>2. UNCHANGED <<log, acked, phase, index, skipped>>
  BY DEF Deliver, Redeliver, RedeliverEarly, consumer, projection
<1>3. ASSUME NEW v \in Workers, phase'[v] = "ack"
      PROVE  buffer'[v] # << >> /\ Head(buffer'[v]) = Head(buffer[v])
  <2>1. buffer[v] # << >> /\ buffer[v] \in Seq(1..cursor)
    BY <1>2, <1>3, StateFacts DEF RInv, AckHolds
  <2>2. CASE v # w
    BY <1>1, <2>1, <2>2 DEF RInv, TypeOK
  <2>3. CASE v = w
    <3>1. buffer'[v] = Append(buffer[v], i)
      BY <1>1, <2>3 DEF RInv, TypeOK
    <3>2. Head(Append(buffer[v], i)) = Append(buffer[v], i)[1]
      OBVIOUS
    <3>3. Len(Append(buffer[v], i)) = Len(buffer[v]) + 1 /\ Len(buffer[v]) \in Nat \ {0}
      BY <2>1
    <3>4. Append(buffer[v], i)[1] = buffer[v][1]
      BY <2>1, <3>3
    <3> QED
      BY <2>1, <3>1, <3>2, <3>3, <3>4
  <2> QED
    BY <2>2, <2>3
<1> QED
  BY <1>2, <1>3, RInvQuiet

\* An acknowledged message was settled when its worker reached the "ack" phase.
LEMMA RInvAck ==
    ASSUME RInv, TypeOK', NEW w \in Workers, Ack(w) \/ AckLost(w)
    PROVE  RInv'
<1>1. /\ Busy(w, "ack")
      /\ UNCHANGED <<log, index, skipped>>
      /\ buffer' = [buffer EXCEPT ![w] = Tail(@)]
      /\ phase' = [phase EXCEPT ![w] = "apply"]
      /\ acked' \subseteq acked \cup {Head(buffer[w])}
  BY DEF Ack, AckLost, NextMessage, projection, consumer
<1>2. \A i \in acked' : i \in acked \/ Settled(log[i])
  BY <1>1 DEF RInv, AppliedIsSettled, InHand
<1>3. ASSUME NEW v \in Workers, phase'[v] = "ack"
      PROVE  phase[v] = "ack" /\ buffer'[v] = buffer[v] /\ buffer'[v] # << >>
  BY <1>1, <1>3 DEF RInv, AckHolds, TypeOK
<1> QED
  BY <1>1, <1>2, <1>3, RInvQuiet

LEMMA RInvRestart ==
    ASSUME RInv, TypeOK', NEW w \in Workers, Restart(w)
    PROVE  RInv'
<1>1. /\ UNCHANGED <<log, acked, index, skipped>>
      /\ buffer' = [buffer EXCEPT ![w] = << >>]
      /\ phase' = [phase EXCEPT ![w] = "apply"]
  BY DEF Restart, consumer, projection
<1>2. ASSUME NEW v \in Workers, phase'[v] = "ack"
      PROVE  phase[v] = "ack" /\ buffer'[v] = buffer[v] /\ buffer'[v] # << >>
  BY <1>1, <1>2 DEF RInv, AckHolds, TypeOK
<1> QED
  BY <1>1, <1>2, RInvQuiet

LEMMA RInvNext == RInv /\ TypeOK' /\ [Next]_vars => RInv'
<1> SUFFICES ASSUME RInv, TypeOK', [Next]_vars PROVE RInv'
  OBVIOUS
<1>1. CASE UNCHANGED vars
  <2>1. /\ UNCHANGED <<log, acked, index, skipped, buffer, phase>>
    BY <1>1 DEF vars, consumer, workers, projection
  <2> QED
    BY <2>1, RInvQuiet DEF RInv, AckHolds
<1>2. CASE Publishing
  BY <1>2, RInvEmit, RInvRepeat DEF Publishing
<1>3. CASE Consuming
  BY <1>3, RInvDeliver, RInvApply, RInvGiveUp, RInvAck, RInvRestart DEF Consuming
<1> QED
  BY <1>1, <1>2, <1>3 DEF Next

THEOREM RowsInvariance == Spec => []RInv
<1>1. Init => RInv
  BY RInvInit
<1>2. RInv /\ TypeOK' /\ [Next]_vars => RInv'
  BY RInvNext
<1> QED
  BY <1>1, <1>2, TypeCorrect, PTL DEF Spec

\* At least once: no restart, redelivery, lost acknowledgement or competing
\* worker lets an event be acknowledged that is neither in the index nor
\* reported as given up.
THEOREM AcknowledgedIsProjected == Spec => []AckedIsProjected
<1>1. RInv => AckedIsProjected
  BY DEF RInv, AckedIsSettled, AckedIsProjected, Settled
<1> QED
  BY <1>1, RowsInvariance, PTL

\* The index only moves forward, in every order of delivery.
THEOREM IndexNeverBackwards == Spec => NeverBackwards
<1> DEFINE Forward ==
        \A u \in Users :
            /\ \A s \in Schemas : index'[u].seq[s] >= index[u].seq[s]
            /\ \A c \in Columns : index'[u].cols[c] >= index[u].cols[c]
            /\ index[u].deleted => index'[u].deleted
<1>1. ASSUME RInv, [Next]_vars PROVE [Forward]_index
  <2>1. CASE UNCHANGED index
    BY <2>1
  <2>2. ASSUME NEW w \in Workers, ApplyOk(w) \/ ApplyFails(w), ~UNCHANGED index PROVE Forward
    <3>1. Busy(w, "apply") /\ Known(InHand(w)) /\ Project(InHand(w)) /\ UNCHANGED log
      BY <2>2 DEF ApplyOk, ApplyFails, projection
    <3>2. PICK e \in Logged : e = InHand(w)
      BY <1>1, <3>1, HeadInLog DEF RInv
    <3> QED
      BY <1>1, <3>1, <3>2, ProjectForward
  <2>3. UNCHANGED index \/ \E w \in Workers : ApplyOk(w) \/ ApplyFails(w)
    BY <1>1 DEF Next, Publishing, Consuming, Emit, Repeat, Deliver, Redeliver, RedeliverEarly,
                GiveUp, Ack, AckLost, Restart, projection, vars
  <2> QED
    BY <2>1, <2>2, <2>3
<1>2. NeverBackwards <=> [][Forward]_index
  BY DEF NeverBackwards
<1> HIDE DEF Forward
<1> QED
  BY <1>1, <1>2, RowsInvariance, PTL DEF Spec

-------------------------------------------------------------------------------
(* One worker that is not restarted: every row is the fold of the log.        *)

\* A watermark is that of an event of the log.
SeqHasCause ==
    \A u \in Users : \A s \in Schemas :
        \/ index[u].seq[s] = 0
        \/ \E d \in Logged : d.user = u /\ SchemaOf(d.kind) = s /\ d.seq = index[u].seq[s]

\* A message stands behind all older events of its source.
FirstSeen ==
    \A k \in 1..Len(log) : \A d \in Logged :
        (SameSource(d, log[k]) /\ d.seq < log[k].seq) => \E j \in 1..(k - 1) : log[j] = d

Distinct ==
    \A d, e \in Logged : (SameSource(d, e) /\ d.seq = e.seq) => d = e

SInv == RInv /\ SeqHasCause /\ FirstSeen /\ Distinct

\* What was delivered and is not settled waits in the worker's buffer,
Waiting(w) ==
    \A j \in 1..cursor : Settled(log[j]) \/ \E q \in 1..Len(buffer[w]) : buffer[w][q] = j

\* and before every later message.
InTurn(w) ==
    \A p \in 1..Len(buffer[w]) : \A j \in 1..(buffer[w][p] - 1) :
        Settled(log[j]) \/ \E q \in 1..(p - 1) : buffer[w][q] = j

OInv ==
    \A w \in Workers : (restarts = 0 /\ Workers = {w}) => (Waiting(w) /\ InTurn(w) /\ IndexAgrees)

\* Types of the events of the log.
LEMMA EventFacts ==
    ASSUME TypeOK, NEW d \in Logged
    PROVE  /\ d \in Events /\ d.user \in Users /\ d.seq \in Nat /\ d.seq > 0
           /\ Known(d) => (d.kind \in Kinds /\ SchemaOf(d.kind) \in Schemas)
           /\ \E j \in 1..Len(log) : log[j] = d
<1>1. d \in Events
  BY LoggedType
<1>2. d.user \in Users /\ d.seq \in Nat /\ d.seq > 0
  BY <1>1, ProjectorAssumption DEF Events
<1>3. Known(d) => (d.kind \in Kinds /\ SchemaOf(d.kind) \in Schemas)
  BY KindFacts DEF Known
<1>4. \E j \in 1..Len(log) : log[j] = d
  BY DEF Logged
<1> QED
  BY <1>1, <1>2, <1>3, <1>4

\* The log grows in the order of the ids of each source, and watermarks come from it.
LEMMA SourcesStep ==
    ASSUME SInv, [Next]_vars
    PROVE  SeqHasCause' /\ FirstSeen' /\ Distinct'
<1>0. TypeOK /\ RInv /\ SeqHasCause /\ FirstSeen /\ Distinct /\ Len(log) \in Nat
  BY StateFacts DEF SInv, RInv
<1>1. CASE \E u \in Users : \E kind \in Published : Emit(u, kind)
  <2>1. PICK u \in Users : \E kind \in Published : Emit(u, kind)
    BY <1>1
  <2>2. PICK kind \in Published : Emit(u, kind)
    BY <2>1
  <2>3. PICK n \in 1..MaxSeq :
        LET e == [kind |-> kind, user |-> u, seq |-> n]
        IN  /\ \A d \in Logged : SchemaOf(d.kind) = SchemaOf(kind) => d.seq # n
            /\ \A d \in Logged : SameSource(d, e) => d.seq < n
            /\ log' = Append(log, e)
    BY <2>2 DEF Emit
  <2> DEFINE e == [kind |-> kind, user |-> u, seq |-> n]
  <2>4. e \in Events /\ e.seq = n /\ e.kind = kind /\ n \in Nat
    BY ProjectorAssumption DEF Events
  <2>5. /\ \A d \in Logged : SchemaOf(d.kind) = SchemaOf(e.kind) => d.seq # e.seq
        /\ \A d \in Logged : SameSource(d, e) => d.seq < e.seq
        /\ log' = Append(log, e) /\ index' = index
    BY <2>2, <2>3 DEF Emit, projection
  <2> HIDE DEF e
  <2>6. /\ Len(log') = Len(log) + 1 /\ log'[Len(log) + 1] = e
        /\ \A i \in 1..Len(log) : log'[i] = log[i]
        /\ Logged' = Logged \cup {e}
    BY <2>4, <2>5, <1>0, AppendLog DEF TypeOK
  <2>7. SeqHasCause'
    BY <2>5, <2>6, <1>0 DEF SeqHasCause
  <2>8. Distinct'
    BY <2>5, <2>6, <1>0 DEF Distinct, SameSource
  <2>9. ASSUME NEW k \in 1..Len(log'), NEW d \in Logged', SameSource(d, log'[k]), d.seq < log'[k].seq
        PROVE  \E j \in 1..(k - 1) : log'[j] = d
    <3>1. CASE k \in 1..Len(log)
      <4>1. log'[k] = log[k] /\ log[k] \in Logged
        BY <3>1, <2>6 DEF Logged
      <4>2. d # e
        <5> SUFFICES ASSUME d = e PROVE FALSE
          OBVIOUS
        <5>1. SameSource(log[k], e)
          BY <4>1, <2>9 DEF SameSource
        <5>2. log[k].seq < e.seq /\ log[k].seq \in Nat /\ e.seq \in Nat
          BY <5>1, <4>1, <2>4, <2>5, <1>0, EventFacts
        <5> QED
          BY <5>2, <4>1, <2>9
      <4>3. PICK j \in 1..(k - 1) : log[j] = d
        BY <4>1, <4>2, <3>1, <2>6, <2>9, <1>0 DEF FirstSeen
      <4> QED
        BY <4>3, <3>1, <2>6
    <3>2. CASE k = Len(log) + 1
      <4>1. d \in Logged
        BY <3>2, <2>4, <2>6, <2>9
      <4>2. PICK j \in 1..Len(log) : log[j] = d
        BY <4>1, <1>0, EventFacts
      <4> QED
        BY <4>2, <3>2, <2>6, <1>0
    <3> QED
      BY <3>1, <3>2, <2>6, <1>0
  <2> QED
    BY <2>7, <2>8, <2>9 DEF FirstSeen
<1>2. CASE Repeat
  <2>1. PICK e \in Logged : log' = Append(log, e)
    BY <1>2 DEF Repeat
  <2>2. index' = index /\ e \in Events
    BY <1>2, <1>0, EventFacts DEF Repeat, projection
  <2>3. /\ Len(log') = Len(log) + 1 /\ log'[Len(log) + 1] = e
        /\ \A i \in 1..Len(log) : log'[i] = log[i]
        /\ Logged' = Logged \cup {e}
    BY <2>1, <2>2, <1>0, AppendLog DEF TypeOK
  <2>4. Logged' = Logged
    BY <2>3
  <2>5. SeqHasCause' /\ Distinct'
    BY <2>2, <2>4, <1>0 DEF SeqHasCause, Distinct
  <2>6. ASSUME NEW k \in 1..Len(log'), NEW d \in Logged', SameSource(d, log'[k]), d.seq < log'[k].seq
        PROVE  \E j \in 1..(k - 1) : log'[j] = d
    <3>1. CASE k \in 1..Len(log)
      <4>1. PICK j \in 1..(k - 1) : log[j] = d
        BY <3>1, <2>3, <2>4, <2>6, <1>0 DEF FirstSeen
      <4> QED
        BY <4>1, <3>1, <2>3
    <3>2. CASE k = Len(log) + 1
      <4>1. PICK j \in 1..Len(log) : log[j] = d
        BY <2>4, <1>0, EventFacts
      <4> QED
        BY <4>1, <3>2, <2>3, <1>0
    <3> QED
      BY <3>1, <3>2, <2>3, <1>0
  <2> QED
    BY <2>5, <2>6 DEF FirstSeen
<1>3. CASE UNCHANGED log
  <2>1. Logged' = Logged
    BY <1>3 DEF Logged
  <2>2. FirstSeen' /\ Distinct'
    BY <1>3, <2>1, <1>0 DEF FirstSeen, Distinct
  <2>3. CASE UNCHANGED index
    BY <2>1, <2>2, <2>3, <1>0 DEF SeqHasCause
  <2>4. ASSUME NEW w \in Workers, ApplyOk(w) \/ ApplyFails(w), ~UNCHANGED index PROVE SeqHasCause'
    <3>1. Busy(w, "apply") /\ Known(InHand(w)) /\ Project(InHand(w))
      BY <2>4 DEF ApplyOk, ApplyFails, projection
    <3>2. PICK e \in Logged : e = InHand(w)
      BY <3>1, <1>0, HeadInLog
    <3>3. e \in Events /\ e.user \in Users /\ e.kind \in Kinds /\ e.seq \in Nat
          /\ index \in [Users -> Rows] /\ Known(e) /\ Project(e)
      BY <3>1, <3>2, <1>0, EventFacts DEF TypeOK
    <3>4. /\ \A u \in Users : u # e.user => index'[u] = index[u]
          /\ WatermarkApplies(e, index[e.user]) => index'[e.user] = Overwrite(index[e.user], e)
          /\ ~WatermarkApplies(e, index[e.user]) => index' = index
      BY <3>3, ProjectEffect
    <3>5. index[e.user] \in Rows
      BY <3>3
    <3>6. \A s \in Schemas : Overwrite(index[e.user], e).seq[s] =
                                IF s = SchemaOf(e.kind) THEN e.seq ELSE index[e.user].seq[s]
      BY <3>3, <3>5, OverwriteType
    <3> QED
      BY <2>1, <2>4, <3>2, <3>4, <3>6, <1>0 DEF SeqHasCause
  <2> QED
    BY <2>2, <2>3, <2>4
       DEF Next, Publishing, Consuming, Emit, Repeat, Deliver, Redeliver, RedeliverEarly,
           GiveUp, Ack, AckLost, Restart, projection, vars
<1> QED
  BY <1>1, <1>2, <1>3 DEF Next, Publishing, Consuming, Deliver, Redeliver, RedeliverEarly, ApplyOk, ApplyFails,
                          GiveUp, Ack, AckLost, Restart, vars

\* The rows stay folds when neither they nor what they answer for changes.
LEMMA AgreeQuiet ==
    ASSUME IndexAgrees, index' = index, \A u \in Users : Answered(u)' = Answered(u)
    PROVE  IndexAgrees'
BY DEF IndexAgrees

\* In turn, an event meets a row that has every older event of its source.
LEMMA Turn ==
    ASSUME SInv, NEW w \in Workers, Busy(w, "apply"), InTurn(w),
           NEW d \in Logged, SameSource(d, InHand(w)), d.seq < InHand(w).seq
    PROVE  Settled(d)
<1>1. /\ Head(buffer[w]) = buffer[w][1] /\ Head(buffer[w]) \in 1..Len(log)
      /\ Len(buffer[w]) \in Nat \ {0}
  BY HeadInLog DEF SInv, RInv
<1>2. PICK j \in 1..(Head(buffer[w]) - 1) : log[j] = d
  BY <1>1 DEF SInv, FirstSeen, InHand
<1>3. 1 \in 1..Len(buffer[w])
  BY <1>1
<1>4. Settled(log[j]) \/ \E q \in 1..(1 - 1) : buffer[w][q] = j
  BY <1>1, <1>2, <1>3 DEF InTurn
<1> QED
  BY <1>2, <1>4

\* The upsert of an event whose elders are settled: the row answers for one
\* event more.
LEMMA AgreeProject ==
    ASSUME SInv, IndexAgrees, UNCHANGED log,
           NEW e \in Logged, Known(e), Project(e),
           \A d \in Logged : (SameSource(d, e) /\ d.seq < e.seq) => Settled(d)
    PROVE  IndexAgrees'
<1> DEFINE u0 == e.user
           s0 == SchemaOf(e.kind)
           row == index[u0]
<1>0. /\ TypeOK /\ RInv /\ Distinct /\ CreatedFirst /\ CreatedOnce
      /\ index \in [Users -> Rows] /\ e \in Events
  BY EventFacts DEF SInv, RInv, TypeOK
<1>1. e.user \in Users /\ e.kind \in Kinds /\ e.seq \in Nat /\ e.seq > 0 /\ s0 \in Schemas
  BY <1>0, EventFacts DEF Known
<1>2. Logged' = Logged
  BY DEF Logged
<1>3. /\ \A u \in Users : u # u0 => index'[u] = index[u]
      /\ ~WatermarkApplies(e, row) => index' = index /\ skipped' = skipped
      /\ WatermarkApplies(e, row) => index'[u0] = Overwrite(row, e) /\ skipped' = skipped \ {e}
  BY <1>0, ProjectEffect
<1>4. CASE ~WatermarkApplies(e, row)
  <2>1. \A u \in Users : Answered(u)' = Answered(u)
    BY <1>2, <1>3, <1>4 DEF Answered, Covered, Known
  <2> QED
    BY <1>3, <1>4, <2>1, AgreeQuiet
<1>5. CASE WatermarkApplies(e, row)
  <2>1. index'[u0] = Overwrite(row, e) /\ skipped' = skipped \ {e} /\ e.seq > row.seq[s0]
    BY <1>3, <1>5 DEF WatermarkApplies
  <2>2. row \in Rows
    BY <1>0, <1>1
  <2>3. /\ \A c \in Columns : index'[u0].cols[c] = IF c \in Writes[e.kind] THEN e.seq ELSE row.cols[c]
        /\ \A s \in Schemas : index'[u0].seq[s] = IF s = s0 THEN e.seq ELSE row.seq[s]
        /\ e.kind = "user.created" => ~index'[u0].deleted
        /\ e.kind = "user.deleted" => index'[u0].deleted
        /\ e.kind \notin {"user.created", "user.deleted"} => index'[u0].deleted = row.deleted
    BY <1>1, <2>1, <2>2, OverwriteType
  <2>4. ASSUME NEW u \in Users, u # u0 PROVE Answered(u)' = Answered(u)
    BY <1>2, <1>3, <2>1, <2>4 DEF Answered, Covered, Known
  <2>5. row.seq[s0] \in Nat
    BY <1>0, <1>1, StateFacts
  <2>6. ASSUME NEW d \in Logged, d.user = u0, Known(d)
        PROVE  (Covered(d)' /\ d \notin skipped') <=> (d = e \/ (Covered(d) /\ d \notin skipped))
    <3>1. d.seq \in Nat /\ SchemaOf(d.kind) \in Schemas
      BY <1>0, <2>6, EventFacts
    <3>2. Covered(d)' <=> d.seq <= index'[u0].seq[SchemaOf(d.kind)]
      BY <2>6 DEF Covered
    <3>3. Covered(d) <=> d.seq <= row.seq[SchemaOf(d.kind)]
      BY <2>6 DEF Covered
    <3>4. CASE SchemaOf(d.kind) # s0
      <4>1. index'[u0].seq[SchemaOf(d.kind)] = row.seq[SchemaOf(d.kind)] /\ d # e
        BY <2>3, <3>1, <3>4
      <4> QED
        BY <2>1, <3>2, <3>3, <4>1
    <3>5. CASE SchemaOf(d.kind) = s0
      <4>1. SameSource(d, e) /\ index'[u0].seq[SchemaOf(d.kind)] = e.seq
        BY <1>1, <2>3, <2>6, <3>5 DEF SameSource
      <4>2. CASE d = e
        BY <1>1, <2>1, <3>2, <4>1, <4>2
      <4>3. CASE d # e /\ d.seq < e.seq
        <5>1. Covered(d) \/ d \in skipped
          BY <2>6, <4>1, <4>3 DEF Settled
        <5> QED
          BY <1>1, <2>1, <3>1, <3>2, <4>1, <4>3, <5>1
      <4>4. CASE d # e /\ ~(d.seq < e.seq)
        <5>1. d.seq # e.seq
          BY <1>0, <4>1, <4>4 DEF Distinct
        <5>2. d.seq > e.seq
          BY <1>1, <3>1, <4>4, <5>1
        <5>3. ~Covered(d)'
          BY <1>1, <3>1, <3>2, <4>1, <5>2
        <5>4. ~Covered(d)
          BY <1>1, <2>1, <2>5, <3>1, <3>3, <3>5, <5>2
        <5> QED
          BY <4>4, <5>3, <5>4
      <4> QED
        BY <4>2, <4>3, <4>4
    <3> QED
      BY <3>4, <3>5
  <2>7. Answered(u0)' = Answered(u0) \cup {e}
    <3>1. \A d : d \in Answered(u0)' <=>
                    (d \in Logged /\ d.user = u0 /\ Known(d) /\ Covered(d)' /\ d \notin skipped')
      BY <1>2 DEF Answered, Known
    <3>2. \A d : d \in Answered(u0) <=>
                    (d \in Logged /\ d.user = u0 /\ Known(d) /\ Covered(d) /\ d \notin skipped)
      BY DEF Answered
    <3>3. \A d : d \in Answered(u0)' <=> (d \in Answered(u0) \/ d = e)
      BY <2>6, <3>1, <3>2
    <3> QED
      BY <3>3
  <2>8. ASSUME NEW d \in Answered(u0), SchemaOf(d.kind) = s0 PROVE d.seq < e.seq /\ d.seq \in Nat
    <3>1. d \in Logged /\ d.user = u0 /\ Covered(d)
      BY DEF Answered
    <3>2. d.seq \in Nat /\ d.seq <= row.seq[s0]
      BY <1>0, <2>8, <3>1, EventFacts DEF Covered
    <3> QED
      BY <1>1, <2>1, <2>5, <3>2
  <2>9. ASSUME NEW c \in Columns
        PROVE  /\ index'[u0].cols[c] = 0 \/ \E d \in Answered(u0)' : c \in Writes[d.kind] /\ d.seq = index'[u0].cols[c]
               /\ \A d \in Answered(u0)' : c \in Writes[d.kind] => d.seq <= index'[u0].cols[c]
    <3>1. /\ row.cols[c] = 0 \/ \E d \in Answered(u0) : c \in Writes[d.kind] /\ d.seq = row.cols[c]
          /\ \A d \in Answered(u0) : c \in Writes[d.kind] => d.seq <= row.cols[c]
      <4>1. NewestOf(row.cols[c], {x.seq : x \in {d \in Answered(u0) : c \in Writes[d.kind]}})
        BY <1>1 DEF IndexAgrees
      <4> QED
        BY <4>1 DEF NewestOf
    <3>2. CASE c \notin Writes[e.kind]
      <4>1. index'[u0].cols[c] = row.cols[c]
        BY <2>3, <3>2
      <4> QED
        BY <2>7, <3>1, <3>2, <4>1
    <3>3. CASE c \in Writes[e.kind]
      <4>1. index'[u0].cols[c] = e.seq /\ e \in Answered(u0)'
        BY <2>3, <2>7, <3>3
      <4>2. ASSUME NEW d \in Answered(u0), c \in Writes[d.kind] PROVE d.seq <= e.seq
        <5>1. d.kind \in Kinds
          BY DEF Answered, Known
        <5>2. SchemaOf(d.kind) = s0
          BY <1>1, <3>3, <4>2, <5>1, KindFacts
        <5> QED
          BY <1>1, <2>8, <5>2
      <4> QED
        BY <1>1, <2>7, <3>3, <4>1, <4>2
    <3> QED
      BY <3>2, <3>3
  <2>10. index'[u0].deleted <=> \E d \in Answered(u0)' : d.kind = "user.deleted"
    <3>1. row.deleted <=> \E d \in Answered(u0) : d.kind = "user.deleted"
      BY <1>1 DEF IndexAgrees
    <3>2. CASE e.kind = "user.deleted"
      BY <2>3, <2>7, <3>2
    <3>3. CASE e.kind = "user.created"
      <4>1. ASSUME NEW d \in Answered(u0), d.kind = "user.deleted" PROVE FALSE
        <5>1. d \in Logged /\ d.user = u0 /\ Known(d)
          BY DEF Answered
        <5>2. SchemaOf(d.kind) = "idm" /\ s0 = "idm"
          BY <3>3, <4>1 DEF SchemaOf
        <5>3. PICK x \in Logged : x.kind = "user.created" /\ x.user = d.user /\ x.seq <= d.seq
          BY <1>0, <5>1, <5>2 DEF CreatedFirst
        <5>4. x = e
          BY <1>0, <3>3, <5>1, <5>3 DEF CreatedOnce
        <5>5. d.seq < e.seq /\ d.seq \in Nat
          BY <2>8, <5>2
        <5> QED
          BY <1>1, <5>3, <5>4, <5>5
      <4> QED
        BY <2>3, <2>7, <3>3, <4>1
    <3>4. CASE e.kind \notin {"user.created", "user.deleted"}
      <4>1. index'[u0].deleted <=> row.deleted
        BY <2>3, <3>4
      <4> QED
        BY <2>7, <3>1, <3>4, <4>1
    <3> QED
      BY <3>2, <3>3, <3>4
  <2>11. ASSUME NEW u \in Users
         PROVE  /\ \A c \in Columns : NewestOf(index'[u].cols[c],
                        {x.seq : x \in {d \in Answered(u)' : c \in Writes[d.kind]}})
                /\ index'[u].deleted <=> \E x \in Answered(u)' : x.kind = "user.deleted"
    <3>1. CASE u = u0
      <4>1. ASSUME NEW c \in Columns
            PROVE  NewestOf(index'[u].cols[c], {x.seq : x \in {d \in Answered(u)' : c \in Writes[d.kind]}})
        <5>1. /\ index'[u].cols[c] = 0 \/ \E d \in Answered(u)' : c \in Writes[d.kind] /\ d.seq = index'[u].cols[c]
              /\ \A d \in Answered(u)' : c \in Writes[d.kind] => d.seq <= index'[u].cols[c]
          BY <2>9, <3>1
        <5> QED
          BY <5>1 DEF NewestOf
      <4> QED
        BY <2>10, <3>1, <4>1
    <3>2. CASE u # u0
      <4>1. index'[u] = index[u] /\ Answered(u)' = Answered(u)
        BY <1>3, <2>4, <3>2
      <4> QED
        BY <4>1 DEF IndexAgrees
    <3> QED
      BY <3>1, <3>2
  <2> QED
    BY <2>11 DEF IndexAgrees
<1> QED
  BY <1>4, <1>5

\* A new event is above the watermark of its row.
LEMMA AgreeEmit ==
    ASSUME SInv, IndexAgrees, NEW u \in Users, NEW kind \in Published, Emit(u, kind)
    PROVE  IndexAgrees'
<1>0. TypeOK /\ SeqHasCause
  BY DEF SInv, RInv
<1>1. PICK n \in 1..MaxSeq :
        LET e == [kind |-> kind, user |-> u, seq |-> n]
        IN  /\ \A d \in Logged : SchemaOf(d.kind) = SchemaOf(kind) => d.seq # n
            /\ \A d \in Logged : SameSource(d, e) => d.seq < n
            /\ log' = Append(log, e)
  BY DEF Emit
<1> DEFINE e == [kind |-> kind, user |-> u, seq |-> n]
<1>2. e \in Events /\ e.user = u /\ e.kind = kind /\ e.seq \in Nat /\ e.seq > 0
  BY ProjectorAssumption DEF Events
<1>3. /\ \A d \in Logged : SameSource(d, e) => d.seq < e.seq
      /\ log' = Append(log, e) /\ index' = index /\ skipped' = skipped
  BY <1>1 DEF Emit, projection
<1> HIDE DEF e
<1>4. Logged' = Logged \cup {e}
  BY <1>0, <1>2, <1>3, AppendLog DEF TypeOK
<1>5. Known(e) => ~Covered(e)
  <2> SUFFICES ASSUME Known(e), Covered(e) PROVE FALSE
    OBVIOUS
  <2>1. SchemaOf(e.kind) \in Schemas
    BY KindFacts DEF Known
  <2>2. e.seq <= index[u].seq[SchemaOf(e.kind)]
    BY <1>2 DEF Covered
  <2>3. PICK d \in Logged : d.user = u /\ SchemaOf(d.kind) = SchemaOf(e.kind)
                             /\ d.seq = index[u].seq[SchemaOf(e.kind)]
    BY <1>0, <1>2, <2>1, <2>2 DEF SeqHasCause
  <2>4. d.seq < e.seq /\ d.seq \in Nat
    BY <1>0, <1>2, <1>3, <2>3, EventFacts DEF SameSource
  <2> QED
    BY <1>2, <2>2, <2>3, <2>4
<1>6. ASSUME NEW v \in Users PROVE Answered(v)' = Answered(v)
  BY <1>3, <1>4, <1>5 DEF Answered, Covered, Known
<1> QED
  BY <1>3, <1>6, AgreeQuiet

\* So does a repetition, a message given up, and every step of the queue.
LEMMA AgreeRepeat ==
    ASSUME SInv, IndexAgrees, Repeat
    PROVE  IndexAgrees'
<1>1. PICK e \in Logged : log' = Append(log, e)
  BY DEF Repeat
<1>2. index' = index /\ skipped' = skipped /\ TypeOK /\ e \in Events
  BY EventFacts DEF Repeat, projection, SInv, RInv
<1>3. Logged' = Logged
  <2>1. Logged' = Logged \cup {e}
    BY <1>1, <1>2, AppendLog DEF TypeOK
  <2> QED
    BY <2>1
<1>4. ASSUME NEW v \in Users PROVE Answered(v)' = Answered(v)
  BY <1>2, <1>3 DEF Answered, Covered, Known
<1> QED
  BY <1>2, <1>4, AgreeQuiet

\* What is given up was not yet answered for.
LEMMA AgreeGiveUp ==
    ASSUME SInv, IndexAgrees, NEW w \in Workers, GiveUp(w)
    PROVE  IndexAgrees'
<1>1. TypeOK /\ Busy(w, "apply")
  BY DEF GiveUp, SInv, RInv
<1>2. PICK e \in Logged : e = InHand(w)
  BY <1>1, HeadInLog
<1>3. /\ Known(e) /\ log' = log /\ index' = index
      /\ skipped' = IF WatermarkApplies(e, index[e.user]) THEN skipped \cup {e} ELSE skipped
  BY <1>2 DEF GiveUp
<1>4. Logged' = Logged
  BY <1>3 DEF Logged
<1>5. WatermarkApplies(e, index[e.user]) => ~Covered(e)
  <2>1. e.user \in Users /\ SchemaOf(e.kind) \in Schemas /\ e.seq \in Nat
    BY <1>1, <1>3, EventFacts
  <2>2. index[e.user].seq[SchemaOf(e.kind)] \in Nat
    BY <1>1, <2>1, StateFacts
  <2> QED
    BY <2>1, <2>2 DEF WatermarkApplies, Covered
<1>6. ASSUME NEW v \in Users PROVE Answered(v)' = Answered(v)
  BY <1>3, <1>4, <1>5 DEF Answered, Covered, Known
<1> QED
  BY <1>3, <1>6, AgreeQuiet

\* The queue of the only worker when nothing is delivered or taken from it.
LEMMA QueueKept ==
    ASSUME TypeOK, NEW w \in Workers, Waiting(w), InTurn(w),
           buffer' = buffer, cursor' = cursor,
           \A i \in 1..Len(log) : log'[i] = log[i],
           \A d \in Events : Settled(d) => Settled(d)'
    PROVE  Waiting(w)' /\ InTurn(w)'
<1>0. Len(log) \in Nat /\ cursor \in Nat /\ cursor <= Len(log) /\ buffer[w] \in Seq(1..cursor)
      /\ log \in Seq(Events) /\ Len(buffer[w]) \in Nat
  BY StateFacts
<1>1. ASSUME NEW j \in 1..cursor, Settled(log[j]) PROVE Settled(log[j])'
  <2>1. PICK d \in Events : d = log[j]
    BY <1>0
  <2>2. log'[j] = d
    BY <1>0, <2>1
  <2>3. Settled(d)'
    BY <1>1, <2>1
  <2> QED
    BY <2>2, <2>3 DEF Settled, Covered
<1>2. Waiting(w)'
  <2> SUFFICES ASSUME NEW j \in 1..cursor, ~(\E q \in 1..Len(buffer[w]) : buffer[w][q] = j)
               PROVE  Settled(log[j])'
    BY DEF Waiting
  <2> QED
    BY <1>1 DEF Waiting
<1>3. InTurn(w)'
  <2> SUFFICES ASSUME NEW p \in 1..Len(buffer[w]), NEW j \in 1..(buffer[w][p] - 1),
                      ~(\E q \in 1..(p - 1) : buffer[w][q] = j)
               PROVE  Settled(log[j])'
    BY DEF InTurn
  <2>1. buffer[w][p] \in 1..cursor
    BY <1>0
  <2>2. j \in 1..cursor
    BY <1>0, <2>1
  <2> QED
    BY <1>1, <2>2 DEF InTurn
<1> QED
  BY <1>2, <1>3

\* A delivery goes behind everything older: what is new is the next message,
\* what is old is already settled or held.
LEMMA QueueGrows ==
    ASSUME TypeOK, NEW w \in Workers, Waiting(w), InTurn(w),
           UNCHANGED <<log, index, skipped>>,
           NEW i \in Nat, i <= cursor + 1,
           cursor' = cursor \/ (cursor' = cursor + 1 /\ i = cursor + 1),
           buffer' = [buffer EXCEPT ![w] = Append(@, i)]
    PROVE  Waiting(w)' /\ InTurn(w)'
<1>0. /\ cursor \in Nat /\ buffer[w] \in Seq(1..cursor) /\ buffer[w] \in Seq(Nat)
      /\ Len(buffer[w]) \in Nat
  <2>1. cursor \in Nat /\ buffer[w] \in Seq(1..cursor)
    BY StateFacts
  <2>2. /\ Len(buffer[w]) \in Nat /\ DOMAIN buffer[w] = 1..Len(buffer[w])
        /\ \A q \in 1..Len(buffer[w]) : buffer[w][q] \in 1..cursor
        /\ buffer[w] = [q \in 1..Len(buffer[w]) |-> buffer[w][q]]
    BY <2>1, LenProperties, ElementOfSeq
  <2>3. \A q \in 1..Len(buffer[w]) : buffer[w][q] \in Nat
    BY <2>1, <2>2
  <2>4. buffer[w] \in Seq(Nat)
    BY <2>2, <2>3
  <2> QED
    BY <2>1, <2>2, <2>4
<1>1. buffer'[w] = Append(buffer[w], i)
  BY DEF TypeOK
<1>2. /\ Len(buffer'[w]) = Len(buffer[w]) + 1 /\ buffer'[w][Len(buffer[w]) + 1] = i
      /\ \A q \in 1..Len(buffer[w]) : buffer'[w][q] = buffer[w][q]
  BY <1>0, <1>1
<1>3. \A j : Settled(log[j])' <=> Settled(log[j])
  BY DEF Settled, Covered
<1>4. Waiting(w)'
  <2> SUFFICES ASSUME NEW j \in 1..cursor', ~Settled(log[j])
               PROVE  \E q \in 1..Len(buffer'[w]) : buffer'[w][q] = j
    BY <1>3 DEF Waiting
  <2>1. CASE j \in 1..cursor
    <3>1. PICK q \in 1..Len(buffer[w]) : buffer[w][q] = j
      BY <2>1 DEF Waiting
    <3> QED
      BY <1>0, <1>2, <3>1
  <2>2. CASE j \notin 1..cursor
    <3>1. j = i
      BY <1>0, <2>2
    <3> QED
      BY <1>0, <1>2, <3>1
  <2> QED
    BY <2>1, <2>2
<1>5. InTurn(w)'
  <2> SUFFICES ASSUME NEW p \in 1..Len(buffer'[w]), NEW j \in 1..(buffer'[w][p] - 1), ~Settled(log[j])
               PROVE  \E q \in 1..(p - 1) : buffer'[w][q] = j
    BY <1>3 DEF InTurn
  <2>1. CASE p \in 1..Len(buffer[w])
    <3>1. j \in 1..(buffer[w][p] - 1)
      BY <1>2, <2>1
    <3>2. PICK q \in 1..(p - 1) : buffer[w][q] = j
      BY <2>1, <3>1 DEF InTurn
    <3> QED
      BY <1>0, <1>2, <2>1, <3>2
  <2>2. CASE p = Len(buffer[w]) + 1
    <3>1. j \in 1..cursor
      BY <1>0, <1>2, <2>2
    <3>2. PICK q \in 1..Len(buffer[w]) : buffer[w][q] = j
      BY <3>1 DEF Waiting
    <3> QED
      BY <1>0, <1>2, <2>2, <3>2
  <2> QED
    BY <1>0, <1>2, <2>1, <2>2
<1> QED
  BY <1>4, <1>5

\* The head leaves the queue settled.
LEMMA QueueShrinks ==
    ASSUME TypeOK, NEW w \in Workers, Waiting(w), InTurn(w),
           UNCHANGED <<log, index, skipped, cursor>>,
           Busy(w, "ack"), Settled(InHand(w)),
           buffer' = [buffer EXCEPT ![w] = Tail(@)]
    PROVE  Waiting(w)' /\ InTurn(w)'
<1>1. /\ Head(buffer[w]) = buffer[w][1] /\ Len(buffer[w]) \in Nat \ {0}
      /\ Len(Tail(buffer[w])) = Len(buffer[w]) - 1
      /\ \A q \in 1..Len(Tail(buffer[w])) : Tail(buffer[w])[q] = buffer[w][q + 1]
  BY HeadInLog
<1>2. buffer'[w] = Tail(buffer[w])
  BY DEF TypeOK
<1>3. \A j : Settled(log[j])' <=> Settled(log[j])
  BY DEF Settled, Covered
<1>4. ASSUME NEW q \in 1..Len(buffer[w]), ~Settled(log[buffer[w][q]])
      PROVE  q - 1 \in 1..Len(buffer'[w]) /\ buffer'[w][q - 1] = buffer[w][q]
  <2>1. q # 1
    BY <1>1, <1>4 DEF InHand
  <2>2. q - 1 \in 1..Len(Tail(buffer[w])) /\ (q - 1) + 1 = q
    BY <1>1, <2>1
  <2> QED
    BY <1>1, <1>2, <2>2
<1>5. Waiting(w)'
  <2> SUFFICES ASSUME NEW j \in 1..cursor, ~Settled(log[j])
               PROVE  \E q \in 1..Len(buffer'[w]) : buffer'[w][q] = j
    BY <1>3 DEF Waiting
  <2>1. PICK q \in 1..Len(buffer[w]) : buffer[w][q] = j
    BY DEF Waiting
  <2> QED
    BY <1>4, <2>1
<1>6. InTurn(w)'
  <2> SUFFICES ASSUME NEW p \in 1..Len(buffer'[w]), NEW j \in 1..(buffer'[w][p] - 1), ~Settled(log[j])
               PROVE  \E q \in 1..(p - 1) : buffer'[w][q] = j
    BY <1>3 DEF InTurn
  <2>a. p \in 1..Len(Tail(buffer[w])) /\ buffer'[w][p] = Tail(buffer[w])[p]
    BY <1>2
  <2>b. buffer'[w][p] = buffer[w][p + 1]
    BY <1>1, <2>a
  <2>c. p + 1 \in 1..Len(buffer[w])
    BY <1>1, <2>a
  <2>1. /\ p + 1 \in 1..Len(buffer[w]) /\ buffer'[w][p] = buffer[w][p + 1]
    BY <2>b, <2>c
  <2>2. j \in 1..(buffer[w][p + 1] - 1)
    BY <2>1
  <2>3. PICK q \in 1..((p + 1) - 1) : buffer[w][q] = j
    BY <2>1, <2>2 DEF InTurn
  <2>4. q \in 1..Len(buffer[w]) /\ q <= p
    BY <2>1, <2>3, <1>1
  <2>5. q - 1 \in 1..Len(buffer'[w]) /\ buffer'[w][q - 1] = j
    BY <1>4, <2>3, <2>4
  <2>6. q - 1 \in 1..(p - 1)
    BY <2>1, <2>4, <2>5
  <2> QED
    BY <2>5, <2>6
<1> QED
  BY <1>5, <1>6

\* At the start nothing is delivered and every row is empty.
LEMMA OrderInit == Init => SInv /\ OInv
<1> SUFFICES ASSUME Init PROVE SInv /\ OInv
  OBVIOUS
<1>0. /\ \A s \in Schemas : EmptyRow.seq[s] = 0
      /\ \A c \in Columns : EmptyRow.cols[c] = 0
      /\ ~EmptyRow.deleted
  BY DEF EmptyRow
<1>1. Logged = {} /\ log = << >> /\ cursor = 0 /\ (\A u \in Users : index[u] = EmptyRow)
      /\ \A w \in Workers : buffer[w] = << >>
  BY DEF Init, Logged
<1>2. FirstSeen /\ Distinct
  BY <1>1 DEF FirstSeen, Distinct
<1>3. SeqHasCause
  <2> SUFFICES ASSUME NEW u \in Users, NEW s \in Schemas PROVE index[u].seq[s] = 0
    BY DEF SeqHasCause
  <2> QED
    BY <1>0, <1>1
<1>4. \A w \in Workers : Waiting(w) /\ InTurn(w)
  BY <1>1 DEF Waiting, InTurn
<1>5. \A u \in Users : Answered(u) = {}
  BY <1>1 DEF Answered
<1>6. IndexAgrees
  <2>1. ASSUME NEW u \in Users, NEW c \in Columns
        PROVE  NewestOf(index[u].cols[c], {x.seq : x \in {d \in Answered(u) : c \in Writes[d.kind]}})
    <3>1. index[u].cols[c] = 0
      BY <1>0, <1>1
    <3>2. \A x : x \notin Answered(u)
      BY <1>5
    <3> QED
      BY <3>1, <3>2 DEF NewestOf
  <2>2. \A u \in Users : ~index[u].deleted /\ Answered(u) = {}
    BY <1>0, <1>1, <1>5
  <2> QED
    BY <2>1, <2>2 DEF IndexAgrees
<1> QED
  BY <1>2, <1>3, <1>4, <1>6, RInvInit DEF SInv, OInv

\* The only worker, never restarted: its queue is in order, so every event finds
\* the older ones of its source settled.
LEMMA OrderStep ==
    ASSUME SInv, RInv', [Next]_vars,
           NEW w \in Workers, Workers = {w}, restarts = 0, restarts' = 0,
           Waiting(w), InTurn(w), IndexAgrees
    PROVE  Waiting(w)' /\ InTurn(w)' /\ IndexAgrees'
<1>0. TypeOK /\ RInv /\ Len(log) \in Nat /\ cursor \in Nat /\ cursor <= Len(log)
      /\ log \in Seq(Events)
  BY StateFacts DEF SInv, RInv
<1>1. ASSUME NEW u \in Users, NEW kind \in Published, Emit(u, kind)
      PROVE  Waiting(w)' /\ InTurn(w)' /\ IndexAgrees'
  <2>1. buffer' = buffer /\ cursor' = cursor /\ index' = index /\ skipped' = skipped
    BY <1>1 DEF Emit, consumer, workers, projection
  <2>2. PICK n \in 1..MaxSeq : log' = Append(log, [kind |-> kind, user |-> u, seq |-> n])
    BY <1>1 DEF Emit
  <2>3. [kind |-> kind, user |-> u, seq |-> n] \in Events
    BY ProjectorAssumption DEF Events
  <2>4. \A i \in 1..Len(log) : log'[i] = log[i]
    BY <1>0, <2>2, <2>3, AppendLog
  <2>5. \A d \in Events : Settled(d) => Settled(d)'
    BY <2>1 DEF Settled, Covered
  <2> QED
    BY <1>0, <1>1, <2>1, <2>4, <2>5, QueueKept, AgreeEmit
<1>2. CASE Repeat
  <2>1. buffer' = buffer /\ cursor' = cursor /\ index' = index /\ skipped' = skipped
    BY <1>2 DEF Repeat, consumer, workers, projection
  <2>2. PICK e \in Logged : log' = Append(log, e)
    BY <1>2 DEF Repeat
  <2>3. \A i \in 1..Len(log) : log'[i] = log[i]
    BY <1>0, <2>2, EventFacts, AppendLog
  <2>4. \A d \in Events : Settled(d) => Settled(d)'
    BY <2>1 DEF Settled, Covered
  <2> QED
    BY <1>0, <1>2, <2>1, <2>3, <2>4, QueueKept, AgreeRepeat
<1>3. ASSUME UNCHANGED projection, UNCHANGED log PROVE IndexAgrees'
  <2>1. \A u \in Users : Answered(u)' = Answered(u)
    BY <1>3 DEF projection, Answered, Covered, Known, Logged
  <2> QED
    BY <1>3, <2>1, AgreeQuiet DEF projection
<1>4. CASE Deliver(w)
  <2>1. cursor + 1 \in Nat /\ cursor + 1 <= cursor + 1
    BY <1>0
  <2>2. /\ UNCHANGED <<log, index, skipped>> /\ cursor' = cursor + 1
        /\ buffer' = [buffer EXCEPT ![w] = Append(@, cursor + 1)]
    BY <1>4 DEF Deliver, projection
  <2>3. Waiting(w)' /\ InTurn(w)'
    BY <1>0, <2>1, <2>2, QueueGrows
  <2> QED
    BY <1>3, <2>2, <2>3 DEF projection
<1>5. CASE Redeliver(w) \/ RedeliverEarly(w)
  <2>1. PICK i \in 1..cursor : buffer' = [buffer EXCEPT ![w] = Append(@, i)]
    BY <1>5 DEF Redeliver, RedeliverEarly
  <2>2. UNCHANGED <<log, index, skipped>> /\ cursor' = cursor
    BY <1>5 DEF Redeliver, RedeliverEarly, projection, consumer
  <2>3. i \in Nat /\ i <= cursor + 1
    BY <1>0
  <2>4. Waiting(w)' /\ InTurn(w)'
    BY <1>0, <2>1, <2>2, <2>3, QueueGrows
  <2> QED
    BY <1>3, <2>2, <2>4 DEF projection
<1>6. CASE ApplyOk(w) \/ ApplyFails(w)
  <2>1. /\ Busy(w, "apply") /\ UNCHANGED log /\ buffer' = buffer /\ cursor' = cursor
        /\ UNCHANGED projection \/ (Known(InHand(w)) /\ Project(InHand(w)))
    BY <1>6 DEF ApplyOk, ApplyFails, consumer
  <2>2. PICK e \in Logged : e = InHand(w)
    BY <1>0, <2>1, HeadInLog
  <2>3. CASE UNCHANGED projection
    <3>1. \A d \in Events : Settled(d) => Settled(d)'
      BY <2>3 DEF projection, Settled, Covered
    <3>2. Waiting(w)' /\ InTurn(w)'
      BY <1>0, <2>1, <3>1, QueueKept
    <3> QED
      BY <1>3, <2>1, <2>3, <3>2
  <2>4. CASE Known(e) /\ Project(e)
    <3>1. \A d \in Events : Settled(d) => Settled(d)'
      BY <1>0, <2>1, <2>4, ProjectForward
    <3>2. Waiting(w)' /\ InTurn(w)'
      BY <1>0, <2>1, <3>1, QueueKept
    <3>3. \A d \in Logged : (SameSource(d, e) /\ d.seq < e.seq) => Settled(d)
      BY <2>1, <2>2, Turn
    <3>4. IndexAgrees'
      BY <2>1, <2>4, <3>3, AgreeProject
    <3> QED
      BY <3>2, <3>4
  <2> QED
    BY <2>1, <2>2, <2>3, <2>4
<1>7. CASE GiveUp(w)
  <2>1. /\ UNCHANGED <<log, index, buffer, cursor>> /\ Busy(w, "apply")
    BY <1>7 DEF GiveUp, consumer
  <2>2. skipped \subseteq skipped'
    BY <1>7 DEF GiveUp
  <2>3. \A d \in Events : Settled(d) => Settled(d)'
    BY <2>1, <2>2 DEF Settled, Covered
  <2> QED
    BY <1>0, <1>7, <2>1, <2>3, QueueKept, AgreeGiveUp
<1>8. CASE Ack(w) \/ AckLost(w)
  <2>1. /\ UNCHANGED <<log, index, skipped, cursor>> /\ Busy(w, "ack")
        /\ buffer' = [buffer EXCEPT ![w] = Tail(@)]
    BY <1>8 DEF Ack, AckLost, NextMessage, projection, consumer
  <2>2. Settled(InHand(w))
    BY <1>0, <2>1 DEF RInv, AppliedIsSettled
  <2>3. Waiting(w)' /\ InTurn(w)'
    BY <1>0, <2>1, <2>2, QueueShrinks
  <2> QED
    BY <1>3, <2>1, <2>3 DEF projection
<1>9. ~Restart(w)
  BY DEF Restart
<1>10. CASE UNCHANGED vars
  <2>1. UNCHANGED <<log, index, skipped, cursor, buffer>>
    BY <1>10 DEF vars, consumer, workers, projection
  <2>2. \A d \in Events : Settled(d) => Settled(d)'
    BY <2>1 DEF Settled, Covered
  <2>3. Waiting(w)' /\ InTurn(w)'
    BY <1>0, <2>1, <2>2, QueueKept
  <2> QED
    BY <1>3, <2>1, <2>3 DEF projection
<1> QED
  BY <1>1, <1>2, <1>4, <1>5, <1>6, <1>7, <1>8, <1>9, <1>10 DEF Next, Publishing, Consuming

\* The order of the queue and the rows that follow from it, step by step.
LEMMA OrderNext == SInv /\ OInv /\ RInv' /\ [Next]_vars => SInv' /\ OInv'
<1> SUFFICES ASSUME SInv, OInv, RInv', [Next]_vars PROVE SInv' /\ OInv'
  OBVIOUS
<1>1. SInv'
  BY SourcesStep DEF SInv
<1>2. ASSUME NEW w \in Workers, restarts' = 0, Workers = {w}
      PROVE  (Waiting(w) /\ InTurn(w) /\ IndexAgrees)'
  <2>1. restarts \in Nat /\ (restarts' = restarts \/ restarts' = restarts + 1)
    <3>1. restarts \in Nat
      BY ProjectorAssumption DEF SInv, RInv, TypeOK
    <3>2. restarts' = restarts \/ restarts' = restarts + 1
      BY DEF Next, Publishing, Consuming, Emit, Repeat, Deliver, Redeliver, RedeliverEarly, ApplyOk,
             ApplyFails, GiveUp, Ack, AckLost, Restart, vars, bounds
    <3> QED
      BY <3>1, <3>2
  <2>2. restarts = 0
    BY <1>2, <2>1
  <2>3. Waiting(w) /\ InTurn(w) /\ IndexAgrees
    BY <1>2, <2>2 DEF OInv
  <2> QED
    BY <1>2, <2>2, <2>3, OrderStep
<1>3. OInv'
  BY <1>2 DEF OInv
<1> QED
  BY <1>1, <1>3

\* With one worker that is not restarted every row is the fold of its log:
\* retries in place, give-ups, lost acknowledgements, early redeliveries and
\* repeated events cost no column (project_message's retry loop).
THEOREM RowsAgreeInOrder == Spec => []OrderedIndexAgrees
<1>1. OInv => OrderedIndexAgrees
  <2> SUFFICES ASSUME OInv, restarts = 0, Cardinality(Workers) = 1 PROVE IndexAgrees
    BY DEF OrderedIndexAgrees
  <2>1. PICK w : Workers = {w}
    BY FS_Singleton, ProjectorAssumption
  <2> QED
    BY <2>1 DEF OInv
<1>2. Init => SInv /\ OInv
  BY OrderInit
<1>3. SInv /\ OInv /\ RInv' /\ [Next]_vars => (SInv /\ OInv)'
  BY OrderNext
<1> QED
  BY <1>1, <1>2, <1>3, RowsInvariance, PTL DEF Spec
-------------------------------------------------------------------------------
(* The whole chain.                                                          *)

\* Every step of the chain is one of the outbox, or leaves it alone.
LEMMA ChainRunsOutbox == PipelineSpec => OutboxSpec
<1>1. PipelineInit => OutboxInit
  BY DEF PipelineInit
<1>2. [PipelineNext]_pipelineVars => [OutboxNext]_outboxVars
  BY DEF PipelineNext, pipelineVars, Prepare, Feed, FeedIdm, Consume
<1> QED
  BY <1>1, <1>2, PTL DEF PipelineSpec, OutboxSpec

\* What is said of the log, for the steps of the projector's specification.
LogIsTyped == log \in Seq(Events)

LEMMA ChainInit == PipelineInit => LogIsTyped /\ LogIsStream
<1> SUFFICES ASSUME PipelineInit PROVE LogIsTyped /\ LogIsStream
  OBVIOUS
<1>1. log = << >> /\ stream = << >>
  BY DEF PipelineInit, OutboxInit, Init
<1> QED
  BY <1>1, EmptySeq DEF LogIsTyped, LogIsStream

\* The message of a committed row is an event.
LEMMA EventOfRow ==
    ASSUME Composed, IInv, NEW x \in outbox
    PROVE  /\ x \in Row /\ x.agg \in Users /\ x.id \in 1..MaxSeq
           /\ ProfileEvent(x) \in Events
           /\ ProfileEvent(x).kind = "profile.updated" /\ ProfileEvent(x).user = x.agg
           /\ ProfileEvent(x).seq = x.id
<1>1. x \in Row
  BY DEF IInv, OutboxTypeOK
<1>2. x.agg \in Users /\ x.id \in 1..MaxSeq
  BY <1>1, OutboxAssumption, ProjectorAssumption DEF Row, Composed
<1> QED
  BY <1>1, <1>2 DEF ProfileEvent, Events, Kinds

\* An event of the app schema in the log is that of a row in the stream.
LEMMA AppEvent ==
    ASSUME IInv, LogIsStream, NEW d \in Logged, SchemaOf(d.kind) = "app"
    PROVE  \E y \in outbox : InStream(y) /\ d = ProfileEvent(y)
<1>1. PICK j \in 1..Len(log) : d = log[j]
  BY DEF Logged
<1>2. d.kind = "profile.updated"
  BY DEF SchemaOf
<1>3. PICK i \in 1..Len(stream) : d = ProfileEvent(stream[i])
  BY <1>1, <1>2 DEF LogIsStream
<1>4. stream[i] \in outbox
  BY DEF IInv, StreamIsCommitted
<1> QED
  BY <1>3, <1>4 DEF InStream

\* A message that is stored for the first time has the newest id of its user;
\* one that is stored again is in the log.
LEMMA FeedPublishes ==
    ASSUME Composed, IInv, LogIsTyped, LogIsStream, NEW x \in outbox, Feed(x)
    PROVE  Publishing
<1>1. /\ ProfileEvent(x) \in Events /\ x.id \in 1..MaxSeq /\ x.agg \in Users
      /\ ProfileEvent(x).kind = "profile.updated" /\ ProfileEvent(x).user = x.agg
      /\ ProfileEvent(x).seq = x.id
  BY EventOfRow
<1>2. /\ Len(log) < MaxLog /\ log' = Append(log, ProfileEvent(x))
      /\ UNCHANGED <<consumer, workers, projection, losses, early, restarts>>
  BY DEF Feed
<1>3. CASE InStream(x)
  <2>1. PICK i \in 1..Len(stream) : stream[i] = x
    BY <1>3 DEF InStream
  <2>2. ProfileEvent(x) \in Logged
    BY <2>1 DEF LogIsStream, Logged
  <2>3. repeats < MaxRepeats /\ repeats' = repeats + 1
    BY <1>3 DEF Feed
  <2> QED
    BY <1>2, <2>2, <2>3 DEF Publishing, Repeat
<1>4. CASE ~InStream(x)
  <2>1. ASSUME NEW d \in Logged, SchemaOf(d.kind) = "app"
        PROVE  d.seq # x.id /\ (d.user = x.agg => d.seq < x.id)
    <3>1. PICK y \in outbox : InStream(y) /\ d = ProfileEvent(y)
      BY <2>1, AppEvent
    <3>2. d.seq = y.id /\ d.user = y.agg
      BY <3>1 DEF ProfileEvent
    <3>3. y.id # x.id
      BY <1>4, <3>1 DEF IInv, TableInv, IdsUnique
    <3>4. y.id \in Nat /\ x.id \in Nat
      BY DEF IInv, OutboxTypeOK, Row
    <3>5. ASSUME y.agg = x.agg, x.id < y.id PROVE FALSE
      <4>1. PICK i \in 1..Len(stream) : stream[i] = y
        BY <3>1 DEF InStream
      <4>2. PICK j \in 1..(i - 1) : stream[j] = x
        BY <3>5, <4>1 DEF IInv, AggregateOrder
      <4>3. j \in 1..Len(stream)
        BY <4>2 DEF IInv, OutboxTypeOK
      <4> QED
        BY <1>4, <4>2, <4>3 DEF InStream
    <3> QED
      BY <3>2, <3>3, <3>4, <3>5
  <2>2. UNCHANGED bounds
    BY <1>2, <1>4 DEF Feed, bounds
  <2>3. Lifecycle(x.agg, "profile.updated")
    BY DEF Lifecycle
  <2>4. SchemaOf("profile.updated") = "app"
    BY DEF SchemaOf
  <2>5. Emit(x.agg, "profile.updated")
    <3> DEFINE e == [kind |-> "profile.updated", user |-> x.agg, seq |-> x.id]
    <3>1. log' = Append(log, e)
      BY <1>2 DEF ProfileEvent
    <3>2. \A d \in Logged : SchemaOf(d.kind) = SchemaOf("profile.updated") => d.seq # x.id
      BY <2>1, <2>4
    <3>3. \A d \in Logged : SameSource(d, e) => d.seq < x.id
      BY <2>1, <2>4 DEF SameSource
    <3> QED
      BY <1>1, <1>2, <2>2, <2>3, <3>1, <3>2, <3>3 DEF Emit
  <2> QED
    BY <1>1, <2>5 DEF Publishing, Composed
<1> QED
  BY <1>3, <1>4

\* Each step of the chain is one the projector expects.
LEMMA ChainStep ==
    ASSUME Composed, IInv, LogIsTyped, LogIsStream, [PipelineNext]_pipelineVars
    PROVE  [Next]_vars
<1>1. CASE Prepare
  BY <1>1 DEF Prepare
<1>2. ASSUME NEW x \in outbox, Feed(x) PROVE Next
  BY <1>2, FeedPublishes DEF Next
<1>3. CASE FeedIdm
  BY <1>3 DEF FeedIdm, Next
<1>4. CASE Consume
  BY <1>4 DEF Consume, Next
<1>5. CASE UNCHANGED pipelineVars
  BY <1>5 DEF pipelineVars
<1> QED
  BY <1>1, <1>2, <1>3, <1>4, <1>5 DEF PipelineNext

\* The log only grows.
LEMMA LogGrows ==
    ASSUME LogIsTyped, NEW e \in Events, log' = Append(log, e)
    PROVE  /\ LogIsTyped' /\ Len(log') = Len(log) + 1 /\ Len(log) \in Nat
           /\ \A j \in 1..Len(log) : j \in 1..Len(log') /\ log'[j] = log[j]
           /\ Len(log') \in 1..Len(log') /\ log'[Len(log')] = e
           /\ \A j \in 1..Len(log') : j \in 1..Len(log) \/ j = Len(log')
<1>1. log \in Seq(Events) /\ log' = Append(log, e)
  BY DEF LogIsTyped
<1> QED
  BY <1>1 DEF LogIsTyped

LEMMA LogIsStreamNext ==
    ASSUME Composed, IInv, LogIsTyped, LogIsStream, [PipelineNext]_pipelineVars
    PROVE  LogIsTyped' /\ LogIsStream'
<1>1. CASE UNCHANGED <<log, stream>>
  BY <1>1 DEF LogIsTyped, LogIsStream
<1>2. ASSUME NEW x \in outbox, Feed(x) PROVE LogIsTyped' /\ LogIsStream'
  <2>1. ProfileEvent(x) \in Events
    BY EventOfRow
  <2>2. log' = Append(log, ProfileEvent(x)) /\ stream' = Append(stream, x)
    BY <1>2 DEF Feed
  <2>3. /\ LogIsTyped'
        /\ \A j \in 1..Len(log) : j \in 1..Len(log') /\ log'[j] = log[j]
        /\ Len(log') \in 1..Len(log') /\ log'[Len(log')] = ProfileEvent(x)
        /\ \A j \in 1..Len(log') : j \in 1..Len(log) \/ j = Len(log')
    BY <2>1, <2>2, LogGrows
  <2>4. stream \in Seq(Row) /\ x \in Row
    BY DEF IInv, OutboxTypeOK
  <2>5. /\ \A i \in 1..Len(stream) : i \in 1..Len(stream') /\ stream'[i] = stream[i]
        /\ Len(stream') \in 1..Len(stream') /\ stream'[Len(stream')] = x
        /\ \A i \in 1..Len(stream') : i \in 1..Len(stream) \/ i = Len(stream')
    BY <2>2, <2>4
  <2>6. ASSUME NEW i \in 1..Len(stream')
        PROVE  \E j \in 1..Len(log') : log'[j] = ProfileEvent(stream'[i])
    BY <2>3, <2>5 DEF LogIsStream
  <2>7. ASSUME NEW j \in 1..Len(log'), log'[j].kind = "profile.updated"
        PROVE  \E i \in 1..Len(stream') : log'[j] = ProfileEvent(stream'[i])
    BY <2>3, <2>5, <2>7 DEF LogIsStream
  <2> QED
    BY <2>3, <2>6, <2>7 DEF LogIsStream, ProfileEvent
<1>3. CASE FeedIdm
  <2>1. PICK e \in Events : log' = Append(log, e)
    <3>1. CASE Repeat
      <4>1. PICK e \in Logged : log' = Append(log, e)
        BY <3>1 DEF Repeat
      <4>2. e \in Events
        BY DEF Logged, LogIsTyped
      <4> QED
        BY <4>1, <4>2
    <3>2. ASSUME NEW u \in Users, NEW kind \in Published, Emit(u, kind)
          PROVE  \E e \in Events : log' = Append(log, e)
      <4>1. PICK n \in 1..MaxSeq : log' = Append(log, [kind |-> kind, user |-> u, seq |-> n])
        BY <3>2 DEF Emit
      <4>2. [kind |-> kind, user |-> u, seq |-> n] \in Events
        BY ProjectorAssumption DEF Events
      <4> QED
        BY <4>1, <4>2
    <3> QED
      BY <1>3, <3>1, <3>2 DEF FeedIdm, Publishing
  <2>2. /\ LogIsTyped'
        /\ \A j \in 1..Len(log) : j \in 1..Len(log') /\ log'[j] = log[j]
        /\ Len(log') \in 1..Len(log') /\ log'[Len(log')] = e
        /\ \A j \in 1..Len(log') : j \in 1..Len(log) \/ j = Len(log')
    BY <2>1, LogGrows
  <2>3. e.kind # "profile.updated"
    BY <1>3, <2>2 DEF FeedIdm, SchemaOf
  <2>4. stream' = stream
    BY <1>3 DEF FeedIdm, outboxVars, broker
  <2> QED
    BY <2>2, <2>3, <2>4 DEF LogIsStream
<1>4. Prepare \/ Consume \/ UNCHANGED pipelineVars => UNCHANGED <<log, stream>>
  BY DEF Prepare, Consume, Consuming, Deliver, Redeliver, RedeliverEarly, ApplyOk, ApplyFails,
         GiveUp, Ack, AckLost, Restart, pipelineVars, outboxVars, vars, broker
<1> QED
  BY <1>1, <1>2, <1>3, <1>4 DEF PipelineNext

LEMMA ChainInvariance == ASSUME Composed PROVE PipelineSpec => [](IInv /\ LogIsTyped /\ LogIsStream)
<1>1. PipelineSpec => []IInv
  BY ChainRunsOutbox, Invariance, PTL
<1>2. PipelineInit => LogIsTyped /\ LogIsStream
  BY ChainInit
<1>3. IInv /\ LogIsTyped /\ LogIsStream /\ [PipelineNext]_pipelineVars => (LogIsTyped /\ LogIsStream)'
  BY LogIsStreamNext
<1> QED
  BY <1>1, <1>2, <1>3, PTL DEF PipelineSpec

\* Transactions, relays and the broker make the log that the projector assumes:
\* the events of a user and schema in increasing seq, new seqs on first delivery,
\* repetitions only after the duplicate window (outbox.rs, jetstream.rs, projector.rs).
THEOREM OutboxFeedsProjector == ASSUME Composed PROVE PipelineSpec => Spec
<1>1. PipelineInit => Init
  BY DEF PipelineInit
<1>2. IInv /\ LogIsTyped /\ LogIsStream /\ [PipelineNext]_pipelineVars => [Next]_vars
  BY ChainStep
<1> QED
  BY <1>1, <1>2, ChainInvariance, PTL DEF PipelineSpec, Spec

LEMMA ProjectorInvariance == Spec => [](SInv /\ OInv)
<1>1. Init => SInv /\ OInv
  BY OrderInit
<1>2. SInv /\ OInv /\ RInv' /\ [Next]_vars => (SInv /\ OInv)'
  BY OrderNext
<1> QED
  BY <1>1, <1>2, RowsInvariance, PTL DEF Spec

\* The index never runs ahead of the database: a row's profile watermark is the
\* id of a committed profile of that user (PgProfileRepo::upsert, apply_profile_updated).
THEOREM NothingUncommittedShows == ASSUME Composed PROVE PipelineSpec => []NothingUncommitted
<1>1. IInv /\ LogIsStream /\ SInv => NothingUncommitted
  <2> SUFFICES ASSUME IInv, LogIsStream, SInv, NEW u \in Users, index[u].seq["app"] # 0
               PROVE  \E x \in ProfilesOf(u) : x.id = index[u].seq["app"]
    BY DEF NothingUncommitted
  <2>1. PICK d \in Logged : d.user = u /\ SchemaOf(d.kind) = "app" /\ d.seq = index[u].seq["app"]
    BY DEF SInv, SeqHasCause, Schemas
  <2>2. PICK y \in outbox : d = ProfileEvent(y)
    BY <2>1, AppEvent
  <2>3. y.agg = u /\ y.id = index[u].seq["app"]
    BY <2>1, <2>2 DEF ProfileEvent
  <2> QED
    BY <2>3 DEF ProfilesOf
<1> QED
  BY <1>1, ChainInvariance, OutboxFeedsProjector, ProjectorInvariance, PTL

\* No link loses a profile: a row marked published is in the log, and once its
\* message is acknowledged it is in the index, superseded there or given up
\* (OutboxRelay::poll_once, Projector::run).
THEOREM PublishedProfilesReachIndex == ASSUME Composed PROVE PipelineSpec => []PublishedReachesIndex
<1>1. PublishedIsStored /\ LogIsStream /\ SInv => PublishedReachesIndex
  <2> SUFFICES ASSUME PublishedIsStored, LogIsStream, SInv, NEW x \in outbox, x.id \in published
               PROVE  \E j \in 1..Len(log) :
                        /\ log[j] = ProfileEvent(x)
                        /\ j \in acked => Covered(ProfileEvent(x)) \/ ProfileEvent(x) \in skipped
    BY DEF PublishedReachesIndex
  <2>1. PICK i \in 1..Len(stream) : stream[i] = x
    BY DEF PublishedIsStored, InStream
  <2>2. PICK j \in 1..Len(log) : log[j] = ProfileEvent(x)
    BY <2>1 DEF LogIsStream
  <2>3. Known(ProfileEvent(x))
    BY DEF Known, ProfileEvent, Kinds
  <2>4. j \in acked => Settled(ProfileEvent(x))
    BY <2>2 DEF SInv, RInv, AckedIsSettled
  <2> QED
    BY <2>2, <2>3, <2>4 DEF Settled
<1>2. PipelineSpec => []PublishedIsStored
  BY ChainRunsOutbox, NothingIsLost, PTL
<1> QED
  BY <1>1, <1>2, ChainInvariance, OutboxFeedsProjector, ProjectorInvariance, PTL

\* When all is published and acknowledged the index shows each user's newest
\* profile, if one worker did it all and gave nothing up.
THEOREM IndexShowsNewest == ASSUME Composed PROVE PipelineSpec => []IndexIsCurrent
<1>1. IInv /\ LogIsStream /\ OrderedIndexAgrees /\ PublishedReachesIndex => IndexIsCurrent
  <2> SUFFICES ASSUME IInv, LogIsStream, OrderedIndexAgrees, PublishedReachesIndex,
                      IdsOf(outbox) \subseteq published, acked = 1..Len(log),
                      restarts = 0, Cardinality(Workers) = 1, skipped = {}, NEW u \in Users
               PROVE  NewestOf(index[u].cols["display_name"], IdsOf(ProfilesOf(u)))
    BY DEF IndexIsCurrent
  <2> DEFINE Shown == {d \in Answered(u) : "display_name" \in Writes[d.kind]}
  <2>1. NewestOf(index[u].cols["display_name"], {e.seq : e \in Shown})
    BY DEF OrderedIndexAgrees, IndexAgrees, Columns
  <2>2. ASSUME NEW x \in ProfilesOf(u) PROVE ProfileEvent(x) \in Shown
    <3>1. x \in outbox /\ x.agg = u
      BY DEF ProfilesOf
    <3>2. x.id \in published
      BY <3>1 DEF IdsOf
    <3>3. PICK j \in 1..Len(log) :
            /\ log[j] = ProfileEvent(x)
            /\ j \in acked => Covered(ProfileEvent(x)) \/ ProfileEvent(x) \in skipped
      BY <3>1, <3>2 DEF PublishedReachesIndex
    <3>4. ProfileEvent(x) \in Logged /\ Covered(ProfileEvent(x))
      BY <3>3 DEF Logged
    <3>5. ProfileEvent(x).user = u /\ ProfileEvent(x).kind = "profile.updated"
      BY <3>1 DEF ProfileEvent
    <3>6. Known(ProfileEvent(x)) /\ "display_name" \in Writes[ProfileEvent(x).kind]
      BY <3>5 DEF Known, Kinds, Writes
    <3> QED
      BY <3>4, <3>5, <3>6 DEF Answered
  <2>3. ASSUME NEW d \in Shown PROVE \E x \in ProfilesOf(u) : d.seq = x.id
    <3>1. d \in Logged /\ d.user = u /\ d.kind \in Kinds /\ "display_name" \in Writes[d.kind]
      BY DEF Answered, Known
    <3>2. d.kind = "profile.updated"
      BY <3>1 DEF Kinds, Writes
    <3>3. SchemaOf(d.kind) = "app"
      BY <3>2 DEF SchemaOf
    <3>4. PICK y \in outbox : d = ProfileEvent(y)
      BY <3>1, <3>3, AppEvent
    <3>5. y.agg = u /\ d.seq = y.id
      BY <3>1, <3>4 DEF ProfileEvent
    <3> QED
      BY <3>5 DEF ProfilesOf
  <2>4. {e.seq : e \in Shown} = IdsOf(ProfilesOf(u))
    <3>1. \A x \in ProfilesOf(u) : ProfileEvent(x).seq = x.id
      BY DEF ProfileEvent
    <3> HIDE DEF Shown
    <3> QED
      BY <2>2, <2>3, <3>1 DEF IdsOf
  <2> QED
    BY <2>1, <2>4
<1> QED
  BY <1>1, ChainInvariance, OutboxFeedsProjector, RowsAgreeInOrder, PublishedProfilesReachIndex, PTL
===============================================================================
