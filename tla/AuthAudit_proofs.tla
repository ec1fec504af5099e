--------------------------- MODULE AuthAudit_proofs ---------------------------
(***************************************************************************)
(* Proofs about AuthAudit for every set of instances and subscribers, every   *)
(* channel capacity and every number of messages.                            *)
(***************************************************************************)
EXTENDS AuthAudit, FiniteSetTheorems, SequenceTheorems, TLAPS

-------------------------------------------------------------------------------
(* The inductive invariant.                                                 *)

\* Seqs are numbered as they are published, and only rows that were inserted
\* are counted.
Numbered ==
    /\ IsFiniteSet(stored)
    /\ \E k \in 0..Len(stream) : Published = 1..k

Has(n) == \E r \in stored : r.seq = n

\* What an instance has in hand has not left the stream; it is pushed or
\* acknowledged only when it is stored or not to be stored.
Hands ==
    \A p \in Instances : hand[p] # None =>
        /\ hand[p] \notin purged
        /\ phase[p] = "push" => Event(p) \notin other
        /\ (phase[p] # "apply" /\ Event(p) \notin other) => Has(Event(p))

\* A row that was deleted is of an event that cannot come back.
Kept ==
    /\ \A r \in stored : r.seq \in Published
    /\ \A r \in stored \ table : Gone(r.seq)

\* Frames are stored rows; those sent and those about to be sent are of
\* different events.
Sent ==
    /\ \A p \in Instances : \A i \in 1..Len(sent[p]) : sent[p][i] \in stored
    /\ \A p, q \in Instances : \A i \in 1..Len(sent[p]), j \in 1..Len(sent[q]) :
        sent[p][i].seq = sent[q][j].seq => p = q /\ i = j
    /\ \A p, q \in Instances : At(p, "push") =>
        /\ \A j \in 1..Len(sent[q]) : sent[q][j].seq # Event(p)
        /\ (At(q, "push") /\ Event(p) = Event(q)) => p = q

\* What a client received was sent, behind the place where it goes on reading.
Read ==
    \A s \in Subscribers :
        /\ next[s] >= 1
        /\ \A n \in 1..Len(received[s]) :
            \E p \in Instances : \E k \in 1..Len(sent[p]) :
                /\ sent[p][k] = received[s][n]
                /\ seat[s] = p => k < next[s]
        /\ \A m, n \in 1..Len(received[s]) : received[s][m].seq = received[s][n].seq => m = n

Store == TypeOK /\ Numbered /\ Hands /\ Kept /\ StoredOnce /\ AckedIsStored

IInv == Store /\ Sent /\ Read

\* The invariant holds at the start: nothing is published, stored or sent.
LEMMA InitInv == Init => IInv
<1> SUFFICES ASSUME Init PROVE IInv
  OBVIOUS
<1> USE AuditAssumption DEF Init
<1>1. TypeOK
  BY DEF TypeOK, Messages, Published
<1>2. Published = 1..0
  BY DEF Published, Messages
<1>3. Numbered
  BY <1>2, FS_EmptySet DEF Numbered
<1>4. Hands /\ Kept /\ StoredOnce /\ AckedIsStored
  BY DEF Hands, Kept, StoredOnce, AckedIsStored
<1>5. \A p \in Instances : Len(sent[p]) = 0 /\ ~At(p, "push")
  BY DEF At
<1>6. Sent
  BY <1>5 DEF Sent
<1>7. \A s \in Subscribers : Len(received[s]) = 0 /\ next[s] >= 1
  OBVIOUS
<1>8. Read
  BY <1>7 DEF Read
<1> QED
  BY <1>1, <1>3, <1>4, <1>6, <1>8 DEF IInv, Store

-------------------------------------------------------------------------------
(* The stream.                                                              *)

\* The number of a new message is the next one.
LEMMA NewNumber ==
    ASSUME TypeOK, Numbered
    PROVE  /\ Published = 1..Cardinality(Published)
           /\ Cardinality(Published) \in 0..Len(stream)
<1>1. PICK k \in 0..Len(stream) : Published = 1..k
  BY DEF Numbered
<1>2. Len(stream) \in Nat
  BY DEF TypeOK
<1>3. k \in Int /\ 1 \in Int /\ k >= 0
  BY <1>2
<1>4. Cardinality(1..k) = k
  BY <1>3, FS_Interval
<1> QED
  BY <1>1, <1>4

\* A message that is appended leaves the others where they are.
LEMMA Appended ==
    ASSUME TypeOK, NEW n, stream' = Append(stream, n)
    PROVE  /\ Len(stream') = Len(stream) + 1
           /\ \A i \in Messages : i \in Messages' /\ stream'[i] = stream[i]
           /\ Messages' = Messages \cup {Len(stream) + 1}
           /\ stream'[Len(stream) + 1] = n
           /\ Published' = Published \cup {n}
<1>1. stream \in Seq(1..MaxMessages) /\ Len(stream) \in Nat
  BY DEF TypeOK
<1>2. Len(stream') = Len(stream) + 1
  BY <1>1
<1>3. Messages' = Messages \cup {Len(stream) + 1}
  BY <1>1, <1>2 DEF Messages
<1>4. \A i \in Messages : i \in Messages' /\ stream'[i] = stream[i]
  BY <1>1, <1>3 DEF Messages
<1>5. stream'[Len(stream) + 1] = n
  BY <1>1
<1>6. \A x \in Published' : x \in Published \cup {n}
  BY <1>3, <1>4, <1>5 DEF Published
<1>7. \A x \in Published : x \in Published'
  BY <1>4 DEF Published
<1>8. n \in Published'
  BY <1>3, <1>5 DEF Published
<1>9. Published' = Published \cup {n}
  BY <1>6, <1>7, <1>8
<1> QED
  BY <1>2, <1>3, <1>4, <1>5, <1>9

\* Messages stay what they are; what cannot come back stays away.
LEMMA StreamStep ==
    ASSUME TypeOK, Numbered, [Next]_vars
    PROVE  /\ stream' \in Seq(1..MaxMessages)
           /\ \A i \in Messages : i \in Messages' /\ stream'[i] = stream[i]
           /\ Published \subseteq Published'
           /\ \E k \in 0..Len(stream') : Published' = 1..k
           /\ other' \subseteq Published'
           /\ \A n \in Published : n \in other' <=> n \in other
           /\ purged \subseteq purged'
           /\ \A n \in Published : Gone(n) => Gone(n)'
<1> DEFINE Goal ==
           /\ stream' \in Seq(1..MaxMessages)
           /\ \A i \in Messages : i \in Messages' /\ stream'[i] = stream[i]
           /\ Published \subseteq Published'
           /\ \E k \in 0..Len(stream') : Published' = 1..k
           /\ other' \subseteq Published'
           /\ \A n \in Published : n \in other' <=> n \in other
           /\ purged \subseteq purged'
           /\ \A n \in Published : Gone(n) => Gone(n)'
<1>t. stream \in Seq(1..MaxMessages) /\ Len(stream) \in Nat /\ other \subseteq Published
  BY DEF TypeOK
<1>1. CASE Publish
  <2> DEFINE n == Cardinality(Published) + 1
  <2>1. /\ stream' = Append(stream, n) /\ Len(stream) < MaxMessages
        /\ other' \in {other, other \cup {n}} /\ purged' = purged
    BY <1>1 DEF Publish
  <2>2. Published = 1..(n - 1) /\ n \in 1..(Len(stream) + 1)
    BY NewNumber, <1>t
  <2>3. n \in 1..MaxMessages
    BY <2>1, <2>2, <1>t, AuditAssumption
  <2> HIDE DEF n
  <2>4. /\ Len(stream') = Len(stream) + 1
        /\ \A i \in Messages : i \in Messages' /\ stream'[i] = stream[i]
        /\ Messages' = Messages \cup {Len(stream) + 1}
        /\ stream'[Len(stream) + 1] = n
        /\ Published' = Published \cup {n}
    BY <2>1, Appended
  <2>5. Published' = 1..n /\ n \in 0..Len(stream')
    BY <2>2, <2>4, <1>t
  <2>6. n \notin Published
    BY <2>2, <1>t
  <2>7. \A x \in Published : Gone(x) => Gone(x)'
    BY <2>1, <2>4, <2>6 DEF Gone
  <2>8. stream' \in Seq(1..MaxMessages)
    BY <2>1, <2>3, <1>t
  <2>9. other' \subseteq Published' /\ \A x \in Published : x \in other' <=> x \in other
    BY <2>1, <2>4, <2>6, <1>t
  <2>10. \E k \in 0..Len(stream') : Published' = 1..k
    BY <2>5
  <2> QED
    BY <2>1, <2>4, <2>7, <2>8, <2>9, <2>10
<1>2. CASE Repeat
  <2>1. PICK n \in Published : ~Gone(n) /\ stream' = Append(stream, n)
    BY <1>2 DEF Repeat
  <2>2. other' = other /\ purged' = purged
    BY <1>2 DEF Repeat
  <2>3. /\ Len(stream') = Len(stream) + 1
        /\ \A i \in Messages : i \in Messages' /\ stream'[i] = stream[i]
        /\ Messages' = Messages \cup {Len(stream) + 1}
        /\ stream'[Len(stream) + 1] = n
        /\ Published' = Published \cup {n}
    BY <2>1, Appended
  <2>4. Published' = Published
    BY <2>1, <2>3
  <2>5. \A x \in Published : Gone(x) => Gone(x)'
    BY <2>1, <2>2, <2>3 DEF Gone
  <2> PICK i \in Messages : stream[i] = n
    BY <2>1 DEF Published
  <2>6. n \in 1..MaxMessages
    BY <1>t, ElementOfSeq DEF Messages
  <2>7. stream' \in Seq(1..MaxMessages)
    BY <2>1, <2>6, <1>t
  <2>8. \E k \in 0..Len(stream') : Published' = 1..k
    BY <2>3, <2>4, <1>t DEF Numbered
  <2> QED
    BY <2>2, <2>3, <2>4, <2>5, <2>7, <2>8, <1>t
<1>3. ASSUME UNCHANGED <<stream, other>>, purged \subseteq purged' PROVE Goal
  <2>1. Messages' = Messages /\ Published' = Published
    BY <1>3 DEF Messages, Published
  <2>2. \A n : Gone(n) => Gone(n)'
    BY <1>3, <2>1 DEF Gone
  <2>3. \E k \in 0..Len(stream') : Published' = 1..k
    BY <1>3, <2>1 DEF Numbered
  <2> QED
    BY <1>3, <2>1, <2>2, <2>3, <1>t
<1>4. CASE Purge
  <2>1. UNCHANGED <<stream, other>>
    BY <1>4 DEF Purge
  <2>2. purged \subseteq purged'
    BY <1>4 DEF Purge
  <2> QED
    BY <2>1, <2>2, <1>3
<1>5. ASSUME ~Publish, ~Repeat, ~Purge PROVE UNCHANGED <<stream, other, purged>>
  BY <1>5 DEF Next, Retain, Deliver, ApplyNew, ApplyRepeated, ApplyOther, ApplyFails, Push, Ack,
     AckLost, Crash, Receive, Subscribe, vars, broker
<1> QED
  BY <1>1, <1>2, <1>3, <1>4, <1>5

-------------------------------------------------------------------------------
(* The rows.                                                                *)

\* What an instance is about to apply is in the stream; a row for it that was
\* deleted would mean it is not.
LEMMA FreshInsert ==
    ASSUME Store, NEW p \in Instances, At(p, "apply"), Insert(Event(p))
    PROVE  ~Has(Event(p)) /\ hand[p] \in Messages /\ Event(p) \in Published /\ NewRow(Event(p)) \in Rows
<1>1. hand[p] \in Messages /\ hand[p] \notin purged
  BY DEF Store, TypeOK, Hands, At
<1>2. ~Gone(Event(p))
  BY <1>1 DEF Gone, Event
<1>3. ~Has(Event(p))
  <2> SUFFICES ASSUME NEW r \in stored, r.seq = Event(p) PROVE FALSE
    BY DEF Has
  <2>1. r \notin table
    BY DEF Insert, Conflicting
  <2> QED
    BY <2>1, <1>2 DEF Store, Kept
<1>4. Event(p) \in Published
  BY <1>1 DEF Event, Published
<1>5. Event(p) \in 1..MaxMessages
  BY <1>1, ElementOfSeq DEF Event, Store, TypeOK, Messages
<1>6. Cardinality(stored) \in Nat
  BY FS_CardinalityType DEF Store, Numbered
<1> QED
  BY <1>1, <1>3, <1>4, <1>5, <1>6 DEF NewRow, Rows

\* A step inserts a row for an event that has none, or none at all; only the
\* retention takes rows from the table.
LEMMA StoredStep ==
    ASSUME Store, [Next]_vars
    PROVE  \/ stored' = stored /\ (table' = table \/ Retain)
           \/ \E p \in Instances :
                /\ At(p, "apply") /\ Event(p) \notin other /\ ~Has(Event(p))
                /\ Event(p) \in Published
                /\ NewRow(Event(p)) \in Rows
                /\ stored' = stored \cup {NewRow(Event(p))}
                /\ table' = table \cup {NewRow(Event(p))}
                /\ UNCHANGED <<broker, push>>
<1>1. ASSUME NEW p \in Instances, At(p, "apply"), Event(p) \notin other, Insert(Event(p)),
             UNCHANGED <<broker, push>>
      PROVE  /\ At(p, "apply") /\ Event(p) \notin other /\ ~Has(Event(p))
             /\ Event(p) \in Published
             /\ NewRow(Event(p)) \in Rows
             /\ stored' = stored \cup {NewRow(Event(p))}
             /\ table' = table \cup {NewRow(Event(p))}
             /\ UNCHANGED <<broker, push>>
  <2>1. ~Has(Event(p)) /\ Event(p) \in Published /\ NewRow(Event(p)) \in Rows
    BY <1>1, FreshInsert
  <2> QED
    BY <1>1, <2>1 DEF Insert
<1>2. ASSUME NEW p \in Instances, ApplyNew(p) PROVE Insert(Event(p)) /\ At(p, "apply")
             /\ Event(p) \notin other /\ UNCHANGED <<broker, push>>
  BY <1>2 DEF ApplyNew
<1>3. ASSUME NEW p \in Instances, ApplyFails(p)
      PROVE  \/ UNCHANGED db
             \/ Insert(Event(p)) /\ At(p, "apply") /\ Event(p) \notin other /\ UNCHANGED <<broker, push>>
  BY <1>3 DEF ApplyFails
<1>4. ASSUME ~\E p \in Instances : ApplyNew(p) \/ ApplyFails(p), ~Retain PROVE UNCHANGED db
  BY <1>4 DEF Next, Publish, Repeat, Purge, Deliver, ApplyRepeated, ApplyOther, Push, Ack,
     AckLost, Crash, Receive, Subscribe, vars, db
<1>5. CASE Retain
  BY <1>5 DEF Retain
<1>6. CASE \E p \in Instances : ApplyNew(p)
  BY <1>1, <1>2, <1>6
<1>7. CASE \E p \in Instances : ApplyFails(p)
  BY <1>1, <1>3, <1>7 DEF db
<1> QED
  BY <1>4, <1>5, <1>6, <1>7 DEF db

\* Inserted rows are remembered for ever.
LEMMA StoredGrows ==
    ASSUME Store, [Next]_vars
    PROVE  stored \subseteq stored' /\ \A n : Has(n) => Has(n)'
<1>1. stored \subseteq stored'
  BY StoredStep
<1> QED
  BY <1>1 DEF Has

\* The row that is pushed is the one that was inserted.
LEMMA StoredRowIs ==
    ASSUME StoredOnce, stored \subseteq Rows, NEW n, Has(n)
    PROVE  StoredRow(n) \in stored /\ StoredRow(n).seq = n
<1>1. PICK r \in stored : r.seq = n
  BY DEF Has
<1>2. \A q \in stored : q.seq = n => q.id <= r.id
  <2> SUFFICES ASSUME NEW q \in stored, q.seq = n PROVE q.id <= r.id
    OBVIOUS
  <2>1. q = r
    BY <1>1 DEF StoredOnce
  <2>2. r.id \in Nat
    BY <1>1 DEF Rows
  <2> QED
    BY <2>1, <2>2
<1> QED
  BY <1>1, <1>2 DEF StoredRow

-------------------------------------------------------------------------------
(* Types.                                                                   *)

\* The variables of the broker and of the table keep their types.
LEMMA StoreTypes ==
    ASSUME Store, [Next]_vars
    PROVE  /\ stream' \in Seq(1..MaxMessages) /\ other' \subseteq Published'
           /\ acked' \subseteq Messages' /\ purged' \subseteq Messages'
           /\ table' \subseteq stored' /\ stored' \subseteq Rows
           /\ Numbered'
<1>t. TypeOK /\ Numbered
  BY DEF Store
<1>1. /\ stream' \in Seq(1..MaxMessages) /\ other' \subseteq Published'
      /\ Messages \subseteq Messages'
      /\ \E k \in 0..Len(stream') : Published' = 1..k
  BY <1>t, StreamStep
<1>2. acked' \subseteq Messages'
  <2>1. ASSUME NEW p \in Instances, Ack(p) PROVE acked' \subseteq Messages'
    <3>1. hand[p] \in Messages
      BY <2>1, <1>t DEF Ack, At, TypeOK
    <3> QED
      BY <2>1, <3>1, <1>1, <1>t DEF Ack, TypeOK
  <2>2. ASSUME ~\E p \in Instances : Ack(p) PROVE acked' = acked
    BY <2>2 DEF Next, Publish, Repeat, Purge, Retain, Deliver, ApplyNew, ApplyRepeated, ApplyOther,
       ApplyFails, Push, AckLost, Crash, Receive, Subscribe, vars, broker
  <2> QED
    BY <2>1, <2>2, <1>1, <1>t DEF TypeOK
<1>3. purged' \subseteq Messages'
  <2>1. CASE Purge
    BY <2>1, <1>1, <1>t DEF Purge, TypeOK
  <2>2. ASSUME ~Purge PROVE purged' = purged
    BY <2>2 DEF Next, Publish, Repeat, Ack, Retain, Deliver, ApplyNew, ApplyRepeated, ApplyOther,
       ApplyFails, Push, AckLost, Crash, Receive, Subscribe, vars, broker
  <2> QED
    BY <2>1, <2>2, <1>1, <1>t DEF TypeOK
<1>4. table' \subseteq stored'
  <2>1. CASE Retain
    BY <2>1, <1>t DEF Retain, TypeOK
  <2> QED
    BY <2>1, StoredStep, <1>t DEF TypeOK
<1>5. stored' \subseteq Rows
  BY StoredStep, <1>t DEF TypeOK
<1>6. IsFiniteSet(stored')
  BY StoredStep, FS_AddElement, <1>t DEF Numbered
<1> QED
  BY <1>1, <1>2, <1>3, <1>4, <1>5, <1>6 DEF Numbered

\* Every instance has nothing or a message in hand.
LEMMA WorkerTypes ==
    ASSUME Store, [Next]_vars
    PROVE  /\ hand' \in [Instances -> Messages' \cup {None}]
           /\ phase' \in [Instances -> {"apply", "push", "ack"}]
           /\ \A p \in Instances : hand'[p] = None => phase'[p] = "apply"
<1> DEFINE Goal ==
           /\ hand' \in [Instances -> Messages' \cup {None}]
           /\ phase' \in [Instances -> {"apply", "push", "ack"}]
           /\ \A p \in Instances : hand'[p] = None => phase'[p] = "apply"
<1>t. TypeOK /\ Numbered
  BY DEF Store
<1>1. Messages \subseteq Messages'
  BY <1>t, StreamStep
<1>2. /\ hand \in [Instances -> Messages \cup {None}]
      /\ phase \in [Instances -> {"apply", "push", "ack"}]
      /\ \A p \in Instances : hand[p] = None => phase[p] = "apply"
  BY <1>t DEF TypeOK
<1>3. CASE UNCHANGED worker
  BY <1>1, <1>2, <1>3 DEF worker
<1>4. ASSUME NEW p \in Instances, Deliver(p) PROVE Goal
  BY <1>1, <1>2, <1>4 DEF Deliver
<1>5. ASSUME NEW p \in Instances, Drop(p) PROVE Goal
  BY <1>1, <1>2, <1>5 DEF Drop
<1>6. ASSUME NEW p \in Instances, NEW ph \in {"push", "ack"}, hand[p] # None,
             hand' = hand, phase' = [phase EXCEPT ![p] = ph]
      PROVE  Goal
  BY <1>1, <1>2, <1>6
<1>7. CASE \E p \in Instances : Deliver(p)
  BY <1>4, <1>7
<1>8. CASE \E p \in Instances : ApplyFails(p) \/ Ack(p) \/ AckLost(p) \/ Crash(p)
  BY <1>5, <1>8 DEF ApplyFails, Ack, AckLost, Crash
<1>9. CASE \E p \in Instances : ApplyNew(p) \/ ApplyRepeated(p) \/ ApplyOther(p) \/ Push(p)
  BY <1>6, <1>9 DEF ApplyNew, ApplyRepeated, ApplyOther, Push, At
<1>10. ASSUME ~\E p \in Instances : Deliver(p) \/ ApplyFails(p) \/ Ack(p) \/ AckLost(p)
                    \/ Crash(p) \/ ApplyNew(p) \/ ApplyRepeated(p) \/ ApplyOther(p) \/ Push(p)
       PROVE UNCHANGED worker
  BY <1>10 DEF Next, Publish, Repeat, Purge, Retain, Receive, Subscribe, vars, worker
<1> QED
  BY <1>3, <1>7, <1>8, <1>9, <1>10

\* A client receives a frame of its bus from the place where it reads on.
LEMMA ReceiveMeans ==
    ASSUME TypeOK, Read, NEW s \in Subscribers, Receive(s)
    PROVE  \E p \in Instances : \E i \in 1..Len(sent[p]) :
            /\ seat[s] = p /\ next[s] <= i
            /\ received' = [received EXCEPT ![s] = Append(received[s], sent[p][i])]
            /\ next' = [next EXCEPT ![s] = i + 1]
<1> DEFINE p == seat[s]
           i == IF next[s] < Oldest(p) THEN Oldest(p) ELSE next[s]
<1>1. /\ i <= Len(sent[p])
      /\ received' = [received EXCEPT ![s] = Append(received[s], sent[p][i])]
      /\ next' = [next EXCEPT ![s] = i + 1]
      /\ seat[s] # None
  BY DEF Receive
<1>2. p \in Instances /\ Len(sent[p]) \in Nat /\ next[s] \in Nat /\ next[s] >= 1
  BY <1>1 DEF TypeOK, Read
<1>3. Oldest(p) \in Nat \ {0}
  BY <1>2, AuditAssumption DEF Oldest
<1>4. i \in 1..Len(sent[p]) /\ next[s] <= i
  BY <1>1, <1>2, <1>3
<1> QED
  BY <1>1, <1>2, <1>4

\* Frames are rows, and every client is on an instance or on none.
LEMMA PushTypes ==
    ASSUME Store, Read, [Next]_vars
    PROVE  /\ sent' \in [Instances -> Seq(Rows)]
           /\ seat' \in [Subscribers -> Instances \cup {None}]
           /\ next' \in [Subscribers -> Nat]
           /\ received' \in [Subscribers -> Seq(Rows)]
<1> DEFINE Goal ==
           /\ sent' \in [Instances -> Seq(Rows)]
           /\ seat' \in [Subscribers -> Instances \cup {None}]
           /\ next' \in [Subscribers -> Nat]
           /\ received' \in [Subscribers -> Seq(Rows)]
<1>t. /\ sent \in [Instances -> Seq(Rows)]
      /\ seat \in [Subscribers -> Instances \cup {None}]
      /\ next \in [Subscribers -> Nat]
      /\ received \in [Subscribers -> Seq(Rows)]
  BY DEF Store, TypeOK
<1>1. ASSUME NEW p \in Instances, Push(p) PROVE Goal
  <2>1. Has(Event(p))
    BY <1>1 DEF Push, At, Store, Hands
  <2>2. StoredRow(Event(p)) \in Rows
    BY <2>1, StoredRowIs DEF Store, TypeOK
  <2>3. sent' = [sent EXCEPT ![p] = Append(sent[p], StoredRow(Event(p)))]
    BY <1>1 DEF Push
  <2>4. Append(sent[p], StoredRow(Event(p))) \in Seq(Rows)
    BY <2>2, <1>t
  <2> QED
    BY <1>1, <2>3, <2>4, <1>t DEF Push
<1>2. ASSUME NEW p \in Instances, Crash(p) PROVE Goal
  BY <1>2, <1>t DEF Crash
<1>3. ASSUME NEW s \in Subscribers, NEW p \in Instances, Subscribe(s, p) PROVE Goal
  <2>1. Len(sent[p]) + 1 \in Nat
    BY <1>t
  <2> QED
    BY <1>3, <2>1, <1>t DEF Subscribe
<1>4. ASSUME NEW s \in Subscribers, Receive(s) PROVE Goal
  <2> PICK p \in Instances : \E i \in 1..Len(sent[p]) :
            /\ received' = [received EXCEPT ![s] = Append(received[s], sent[p][i])]
            /\ next' = [next EXCEPT ![s] = i + 1]
    BY <1>4, ReceiveMeans DEF Store
  <2>1. PICK i \in 1..Len(sent[p]) :
            /\ received' = [received EXCEPT ![s] = Append(received[s], sent[p][i])]
            /\ next' = [next EXCEPT ![s] = i + 1]
    OBVIOUS
  <2>2. sent[p][i] \in Rows
    BY <1>t, ElementOfSeq
  <2>3. Append(received[s], sent[p][i]) \in Seq(Rows) /\ i + 1 \in Nat
    BY <2>2, <1>t
  <2>4. UNCHANGED <<sent, seat>>
    BY <1>4 DEF Receive
  <2> QED
    BY <2>1, <2>3, <2>4, <1>t
<1>5. ASSUME ~\E p \in Instances : Push(p) \/ Crash(p) \/ \E s \in Subscribers : Subscribe(s, p),
             ~\E s \in Subscribers : Receive(s)
      PROVE  UNCHANGED <<sent, seat, next, received>>
  BY <1>5 DEF Next, Publish, Repeat, Purge, Retain, Deliver, ApplyNew, ApplyRepeated, ApplyOther,
     ApplyFails, Ack, AckLost, vars, push
<1> QED
  BY <1>1, <1>2, <1>3, <1>4, <1>5, <1>t

\* Types are kept.
LEMMA TypesStep == Store /\ Read /\ [Next]_vars => TypeOK'
BY StoreTypes, WorkerTypes, PushTypes DEF TypeOK

-------------------------------------------------------------------------------
(* Rows, acknowledgements and hands.                                        *)

\* One row per event, still: a row is inserted only for an event without one.
LEMMA RowsStep ==
    ASSUME Store, [Next]_vars
    PROVE  Kept' /\ StoredOnce'
<1>t. TypeOK /\ Numbered /\ Kept /\ StoredOnce
  BY DEF Store
<1>1. Published \subseteq Published' /\ \A n \in Published : Gone(n) => Gone(n)'
  BY <1>t, StreamStep
<1>2. ASSUME stored' = stored, table' = table PROVE Kept' /\ StoredOnce'
  <2>1. \A r \in stored' : r.seq \in Published'
    BY <1>1, <1>2, <1>t DEF Kept
  <2>2. ASSUME NEW r \in stored' \ table' PROVE Gone(r.seq)'
    BY <2>2, <1>1, <1>2, <1>t DEF Kept
  <2> QED
    BY <2>1, <2>2, <1>2, <1>t DEF Kept, StoredOnce
<1>3. ASSUME Retain PROVE Kept' /\ StoredOnce'
  <2>1. PICK old \in SUBSET {r \in table : Gone(r.seq)} : table' = table \ old
    BY <1>3 DEF Retain
  <2>2. stored' = stored /\ UNCHANGED broker
    BY <1>3 DEF Retain
  <2>3. \A r \in stored' : r.seq \in Published'
    BY <1>1, <2>2, <1>t DEF Kept
  <2>4. ASSUME NEW r \in stored' \ table' PROVE Gone(r.seq)'
    <3>1. Gone(r.seq) /\ r.seq \in Published
      BY <2>1, <2>2, <2>4, <1>t DEF Kept
    <3> QED
      BY <3>1, <1>1
  <2> QED
    BY <2>2, <2>3, <2>4, <1>t DEF Kept, StoredOnce
<1>4. ASSUME NEW p \in Instances, ~Has(Event(p)), Event(p) \in Published,
             stored' = stored \cup {NewRow(Event(p))},
             table' = table \cup {NewRow(Event(p))}, UNCHANGED broker
      PROVE  Kept' /\ StoredOnce'
  <2> DEFINE new == NewRow(Event(p))
  <2>1. new.seq = Event(p)
    BY DEF NewRow
  <2> HIDE DEF new
  <2>2. \A r \in stored : r.seq # new.seq
    BY <1>4, <2>1 DEF Has
  <2>3. StoredOnce'
    BY <1>4, <2>2, <1>t DEF StoredOnce, new
  <2>4. \A r \in stored' : r.seq \in Published'
    BY <1>1, <1>4, <2>1, <1>t DEF Kept, new
  <2>5. ASSUME NEW r \in stored' \ table' PROVE Gone(r.seq)'
    <3>1. r \in stored \ table
      BY <1>4, <2>5
    <3> QED
      BY <3>1, <1>1, <1>t DEF Kept
  <2> QED
    BY <2>3, <2>4, <2>5 DEF Kept
<1> QED
  BY <1>2, <1>3, <1>4, StoredStep

\* An acknowledgement is of an event that is stored or not to be stored.
LEMMA AckedStep ==
    ASSUME Store, [Next]_vars
    PROVE  AckedIsStored'
<1>t. TypeOK /\ Numbered /\ AckedIsStored /\ Hands
  BY DEF Store
<1>1. /\ \A i \in Messages : i \in Messages' /\ stream'[i] = stream[i]
      /\ \A n \in Published : n \in other' <=> n \in other
  BY <1>t, StreamStep
<1>2. \A n : Has(n) => \E r \in stored' : r.seq = n
  BY StoredGrows DEF Has
<1>3. \A i \in Messages : stream[i] \in Published
  BY DEF Published
<1>4. ASSUME NEW i \in acked, stream'[i] \notin other' PROVE \E r \in stored' : r.seq = stream'[i]
  <2>1. i \in Messages
    BY <1>t DEF TypeOK
  <2>2. Has(stream[i])
    BY <1>1, <1>3, <1>4, <2>1, <1>t DEF AckedIsStored, Has
  <2> QED
    BY <2>1, <2>2, <1>1, <1>2
<1>5. ASSUME NEW p \in Instances, Ack(p) PROVE AckedIsStored'
  <2>1. /\ acked' = acked \cup {hand[p]} /\ hand[p] \in Messages
        /\ phase[p] = "ack" /\ hand[p] # None /\ UNCHANGED <<stream, other, db>>
    BY <1>5, <1>t DEF Ack, At, TypeOK
  <2>2. Event(p) \notin other => Has(Event(p))
    BY <2>1, <1>t DEF Hands
  <2>3. \A i \in acked' : stream'[i] \notin other' => \E r \in stored' : r.seq = stream'[i]
    BY <1>4, <2>1, <2>2, <1>2 DEF Event
  <2> QED
    BY <2>3 DEF AckedIsStored
<1>6. ASSUME ~\E p \in Instances : Ack(p) PROVE acked' = acked
  BY <1>6 DEF Next, Publish, Repeat, Purge, Retain, Deliver, ApplyNew, ApplyRepeated, ApplyOther,
     ApplyFails, Push, AckLost, Crash, Receive, Subscribe, vars, broker
<1>7. CASE acked' = acked
  <2>1. \A i \in acked' : stream'[i] \notin other' => \E r \in stored' : r.seq = stream'[i]
    BY <1>4, <1>7
  <2> QED
    BY <2>1 DEF AckedIsStored
<1> QED
  BY <1>5, <1>6, <1>7

\* What an instance has in hand stays fit for what it does next with it.
LEMMA HandsStep ==
    ASSUME Store, [Next]_vars
    PROVE  Hands'
<1>t. TypeOK /\ Numbered /\ Hands
  BY DEF Store
<1>1. /\ \A i \in Messages : i \in Messages' /\ stream'[i] = stream[i]
      /\ \A n \in Published : n \in other' <=> n \in other
  BY <1>t, StreamStep
<1>2. \A n : Has(n) => Has(n)'
  BY StoredGrows
<1>3. \A p \in Instances : hand[p] # None => hand[p] \in Messages /\ Event(p) \in Published
  BY <1>t DEF TypeOK, Event, Published
<1> DEFINE Fit(p) == hand[p] # None =>
             /\ hand[p] \notin purged
             /\ phase[p] = "push" => Event(p) \notin other
             /\ (phase[p] # "apply" /\ Event(p) \notin other) => Has(Event(p))
<1>4. ASSUME NEW p \in Instances, hand'[p] = hand[p], phase'[p] = phase[p],
             hand[p] # None => hand[p] \notin purged'
      PROVE  Fit(p)'
  <2> SUFFICES ASSUME hand[p] # None PROVE Fit(p)'
    BY <1>4
  <2>1. Event(p)' = Event(p)
    BY <1>1, <1>3, <1>4 DEF Event
  <2>2. Event(p) \in other' <=> Event(p) \in other
    BY <1>1, <1>3
  <2>3. Has(Event(p)) => Has(Event(p))'
    BY <2>1, <1>2 DEF Has
  <2> QED
    BY <2>1, <2>2, <2>3, <1>4, <1>t DEF Hands
<1>5. ASSUME NEW p \in Instances, hand'[p] = None PROVE Fit(p)'
  BY <1>5
<1>6. ASSUME NEW p \in Instances, hand'[p] \notin purged', phase'[p] = "apply" PROVE Fit(p)'
  BY <1>6
<1>7. ASSUME NEW p \in Instances, At(p, "apply") \/ At(p, "push"), hand' = hand,
             phase'[p] \in {"push", "ack"}, UNCHANGED broker,
             Event(p) \in other => phase'[p] = "ack",
             Event(p) \notin other => Has(Event(p))'
      PROVE  Fit(p)'
  BY <1>7, <1>t DEF Hands, At, Event, broker
<1>8. ASSUME NEW q \in Instances,
             \A p \in Instances \ {q} : hand'[p] = hand[p] /\ phase'[p] = phase[p],
             purged' = purged, Fit(q)'
      PROVE  \A p \in Instances : Fit(p)'
  <2> SUFFICES ASSUME NEW p \in Instances, p # q PROVE Fit(p)'
    BY <1>8
  <2>1. hand[p] # None => hand[p] \notin purged'
    BY <1>8, <1>t DEF Hands
  <2> QED
    BY <2>1, <1>4, <1>8
<1>9. ASSUME UNCHANGED worker, \A p \in Instances : hand[p] # None => hand[p] \notin purged'
      PROVE  \A p \in Instances : Fit(p)'
  BY <1>4, <1>9 DEF worker
<1>h. hand \in [Instances -> Messages \cup {None}] /\ phase \in [Instances -> {"apply", "push", "ack"}]
  BY <1>t DEF TypeOK
<1> HIDE DEF Fit
<1>10. ASSUME NEW q \in Instances, Deliver(q) PROVE \A p \in Instances : Fit(p)'
  <2>1. hand'[q] \notin purged' /\ phase'[q] = "apply" /\ purged' = purged
    BY <1>10, <1>h DEF Deliver, broker
  <2>2. \A p \in Instances \ {q} : hand'[p] = hand[p] /\ phase'[p] = phase[p]
    BY <1>10, <1>h DEF Deliver
  <2> QED
    BY <2>1, <2>2, <1>6, <1>8
<1>11. ASSUME NEW q \in Instances, Drop(q), purged' = purged PROVE \A p \in Instances : Fit(p)'
  <2>1. hand'[q] = None
    BY <1>11, <1>h DEF Drop
  <2>2. \A p \in Instances \ {q} : hand'[p] = hand[p] /\ phase'[p] = phase[p]
    BY <1>11, <1>h DEF Drop
  <2> QED
    BY <2>1, <2>2, <1>5, <1>8, <1>11
<1>12. ASSUME NEW q \in Instances, NEW ph \in {"push", "ack"}, At(q, "apply") \/ At(q, "push"),
              hand' = hand, phase' = [phase EXCEPT ![q] = ph], UNCHANGED broker,
              Event(q) \in other => ph = "ack", Event(q) \notin other => Has(Event(q))'
       PROVE  \A p \in Instances : Fit(p)'
  <2>1. phase'[q] = ph /\ \A p \in Instances \ {q} : hand'[p] = hand[p] /\ phase'[p] = phase[p]
    BY <1>12, <1>h
  <2>2. Fit(q)'
    BY <2>1, <1>7, <1>12
  <2> QED
    BY <2>1, <2>2, <1>8, <1>12 DEF broker
<1>13. ASSUME NEW q \in Instances, ApplyNew(q) PROVE \A p \in Instances : Fit(p)'
  <2>1. /\ At(q, "apply") /\ hand' = hand /\ phase' = [phase EXCEPT ![q] = "push"]
        /\ UNCHANGED broker /\ Event(q) \notin other
    BY <1>13 DEF ApplyNew
  <2>2. Event(q)' = Event(q) /\ NewRow(Event(q)) \in stored' /\ NewRow(Event(q)).seq = Event(q)
    BY <1>13, <2>1 DEF ApplyNew, Insert, Event, broker, NewRow
  <2>3. Has(Event(q))'
    BY <2>2 DEF Has
  <2> QED
    BY <2>1, <2>3, <1>12
<1>14. ASSUME NEW q \in Instances, ApplyRepeated(q) PROVE \A p \in Instances : Fit(p)'
  <2>1. /\ At(q, "apply") /\ hand' = hand /\ phase' = [phase EXCEPT ![q] = "ack"]
        /\ UNCHANGED broker /\ UNCHANGED stored /\ Conflicting(Event(q))
    BY <1>14 DEF ApplyRepeated, db
  <2>2. Has(Event(q)) /\ Event(q)' = Event(q)
    BY <2>1, <1>t DEF Conflicting, Has, TypeOK, Event, broker
  <2>3. Has(Event(q))'
    BY <2>1, <2>2 DEF Has
  <2> QED
    BY <2>1, <2>3, <1>12
<1>15. ASSUME NEW q \in Instances, ApplyOther(q) PROVE \A p \in Instances : Fit(p)'
  <2>1. /\ At(q, "apply") /\ hand' = hand /\ phase' = [phase EXCEPT ![q] = "ack"]
        /\ UNCHANGED broker /\ Event(q) \in other
    BY <1>15 DEF ApplyOther
  <2> QED
    BY <2>1, <1>12
<1>16. ASSUME NEW q \in Instances, Push(q) PROVE \A p \in Instances : Fit(p)'
  <2>1. /\ At(q, "push") /\ hand' = hand /\ phase' = [phase EXCEPT ![q] = "ack"]
        /\ UNCHANGED broker /\ UNCHANGED stored
    BY <1>16 DEF Push, db
  <2>2. Has(Event(q)) /\ Event(q)' = Event(q)
    BY <2>1, <1>t DEF Hands, At, Event, broker
  <2>3. Has(Event(q))'
    BY <2>1, <2>2 DEF Has
  <2> QED
    BY <2>1, <2>3, <1>12
<1>17. ASSUME Purge PROVE \A p \in Instances : Fit(p)'
  <2>1. UNCHANGED worker
    BY <1>17 DEF Purge
  <2>2. ASSUME NEW p \in Instances, hand[p] # None PROVE hand[p] \notin purged'
    <3>1. PICK i \in Messages \ purged : (\A q \in Instances : hand[q] # i) /\ purged' = purged \cup {i}
      BY <1>17 DEF Purge
    <3> QED
      BY <3>1, <2>2, <1>t DEF Hands
  <2> QED
    BY <2>1, <2>2, <1>9
<1>18. ASSUME NEW q \in Instances, ApplyFails(q) \/ Ack(q) \/ AckLost(q) \/ Crash(q)
       PROVE  \A p \in Instances : Fit(p)'
  <2>1. Drop(q) /\ purged' = purged
    BY <1>18 DEF ApplyFails, Ack, AckLost, Crash, broker
  <2> QED
    BY <2>1, <1>11
<1>19. ASSUME ~Purge, ~\E q \in Instances : Deliver(q) \/ ApplyNew(q) \/ ApplyRepeated(q)
                 \/ ApplyOther(q) \/ Push(q) \/ ApplyFails(q) \/ Ack(q) \/ AckLost(q) \/ Crash(q)
       PROVE  \A p \in Instances : Fit(p)'
  <2>1. UNCHANGED worker
    BY <1>19 DEF Next, Publish, Repeat, Retain, Receive, Subscribe, vars
  <2>2. purged' = purged
    BY <1>19 DEF Next, Publish, Repeat, Retain, Receive, Subscribe, vars, broker
  <2> QED
    BY <2>1, <2>2, <1>9, <1>t DEF Hands
<1>20. \A p \in Instances : Fit(p)'
  BY <1>10, <1>13, <1>14, <1>15, <1>16, <1>17, <1>18, <1>19
<1>21. Hands' <=> \A p \in Instances : Fit(p)'
  BY DEF Hands, Fit
<1> QED
  BY <1>20, <1>21

-------------------------------------------------------------------------------
(* Frames.                                                                  *)

\* Who is about to push after a step was so before, unless he has just inserted.
LEMMA PushersStep ==
    ASSUME Store, [Next]_vars, NEW p \in Instances, At(p, "push")'
    PROVE  /\ Event(p)' = Event(p)
           /\ \/ At(p, "push") /\ ~Push(p)
              \/ ApplyNew(p) /\ ~Has(Event(p))
<1>t. /\ hand \in [Instances -> Messages \cup {None}] /\ phase \in [Instances -> {"apply", "push", "ack"}]
      /\ TypeOK /\ Numbered
  BY DEF Store, TypeOK
<1>1. hand'[p] # None /\ phase'[p] = "push"
  BY DEF At
<1>2. hand'[p] = hand[p] /\ (phase[p] = "push" \/ ApplyNew(p))
  BY <1>1, <1>t DEF Next, Publish, Repeat, Purge, Retain, Deliver, ApplyNew, ApplyRepeated, ApplyOther,
     ApplyFails, Push, Ack, AckLost, Crash, Drop, Receive, Subscribe, vars, worker
<1>3. hand[p] \in Messages
  BY <1>1, <1>2, <1>t
<1>4. Event(p)' = Event(p)
  BY <1>2, <1>3, <1>t, StreamStep DEF Event
<1>5. ApplyNew(p) => ~Has(Event(p))
  BY FreshInsert DEF ApplyNew
<1>6. ~Push(p)
  BY <1>1, <1>t DEF Push, At
<1> QED
  BY <1>1, <1>2, <1>4, <1>5, <1>6 DEF At

\* What a push does to the bus.
LEMMA PushMeans ==
    ASSUME Store, Sent, NEW q \in Instances, Push(q)
    PROVE  /\ At(q, "push")
           /\ sent' = [sent EXCEPT ![q] = Append(sent[q], StoredRow(Event(q)))]
           /\ Len(sent'[q]) = Len(sent[q]) + 1
           /\ \A i \in 1..Len(sent[q]) : sent'[q][i] = sent[q][i]
           /\ sent'[q][Len(sent[q]) + 1] = StoredRow(Event(q))
           /\ \A p \in Instances \ {q} : sent'[p] = sent[p]
           /\ Len(sent[q]) \in Nat
           /\ StoredRow(Event(q)) \in stored /\ StoredRow(Event(q)).seq = Event(q)
           /\ stored' = stored
<1>t. sent \in [Instances -> Seq(Rows)]
  BY DEF Store, TypeOK
<1>1. At(q, "push") /\ stored' = stored /\ sent' = [sent EXCEPT ![q] = Append(sent[q], StoredRow(Event(q)))]
  BY DEF Push, db
<1>2. Has(Event(q))
  BY <1>1 DEF At, Store, Hands, Push
<1>3. StoredRow(Event(q)) \in stored /\ StoredRow(Event(q)).seq = Event(q)
  BY <1>2, StoredRowIs DEF Store, TypeOK
<1>4. StoredRow(Event(q)) \in Rows
  BY <1>3 DEF Store, TypeOK
<1>5. sent'[q] = Append(sent[q], StoredRow(Event(q))) /\ \A p \in Instances \ {q} : sent'[p] = sent[p]
  BY <1>1, <1>t
<1>6. sent[q] \in Seq(Rows)
  BY <1>t
<1> HIDE DEF StoredRow
<1> QED
  BY <1>1, <1>3, <1>4, <1>5, <1>6

\* No event is on two buses, or twice on one.
LEMMA SentStep ==
    ASSUME Store, Sent, [Next]_vars
    PROVE  Sent'
<1>1. stored \subseteq stored'
  BY StoredGrows
<1>2. ASSUME NEW p \in Instances, At(p, "push") PROVE Has(Event(p))
  BY <1>2 DEF At, Store, Hands
<1>3. CASE sent' = sent
  <2>1. \A p \in Instances : \A i \in 1..Len(sent'[p]) : sent'[p][i] \in stored'
    BY <1>1, <1>3 DEF Sent
  <2>2. \A p, q \in Instances : \A i \in 1..Len(sent'[p]), j \in 1..Len(sent'[q]) :
            sent'[p][i].seq = sent'[q][j].seq => p = q /\ i = j
    BY <1>3 DEF Sent
  <2>3. ASSUME NEW p \in Instances, NEW q \in Instances, At(p, "push")',
               NEW j \in 1..Len(sent'[q])
        PROVE  sent'[q][j].seq # Event(p)'
    <3>1. Event(p)' = Event(p) /\ (At(p, "push") \/ ~Has(Event(p)))
      BY <2>3, PushersStep
    <3>2. CASE At(p, "push")
      BY <3>1, <3>2, <1>3 DEF Sent
    <3>3. CASE ~Has(Event(p))
      <4>1. sent[q][j] \in stored
        BY <1>3 DEF Sent
      <4> QED
        BY <4>1, <3>1, <3>3, <1>3 DEF Has
    <3> QED
      BY <3>1, <3>2, <3>3
  <2>4. ASSUME NEW p \in Instances, NEW q \in Instances, At(p, "push")', At(q, "push")',
               Event(p)' = Event(q)'
        PROVE  p = q
    <3>1. Event(p) = Event(q)
      BY <2>4, PushersStep
    <3>2. At(p, "push") \/ (ApplyNew(p) /\ ~Has(Event(p)))
      BY <2>4, PushersStep
    <3>3. At(q, "push") \/ (ApplyNew(q) /\ ~Has(Event(q)))
      BY <2>4, PushersStep
    <3>4. CASE At(p, "push") /\ At(q, "push")
      BY <3>1, <3>4 DEF Sent
    <3>5. CASE ApplyNew(p) /\ ApplyNew(q)
      <4>1. phase \in [Instances -> {"apply", "push", "ack"}] /\ phase[p] = "apply" /\ phase[q] = "apply"
        BY <3>5 DEF ApplyNew, At, Store, TypeOK
      <4>2. phase' = [phase EXCEPT ![p] = "push"] /\ phase' = [phase EXCEPT ![q] = "push"]
        BY <3>5 DEF ApplyNew
      <4> QED
        BY <4>1, <4>2
    <3> QED
      BY <3>1, <3>2, <3>3, <3>4, <3>5, <1>2
  <2> QED
    BY <2>1, <2>2, <2>3, <2>4 DEF Sent
<1>4. ASSUME NEW a \in Instances, Push(a) PROVE Sent'
  <2>1. /\ At(a, "push")
        /\ Len(sent'[a]) = Len(sent[a]) + 1 /\ Len(sent[a]) \in Nat
        /\ \A i \in 1..Len(sent[a]) : sent'[a][i] = sent[a][i]
        /\ sent'[a][Len(sent[a]) + 1] = StoredRow(Event(a))
        /\ \A p \in Instances \ {a} : sent'[p] = sent[p]
        /\ StoredRow(Event(a)) \in stored /\ StoredRow(Event(a)).seq = Event(a)
        /\ stored' = stored
    BY <1>4, PushMeans
  <2>2. \A p \in Instances : \A i \in 1..Len(sent'[p]) :
            \/ i \in 1..Len(sent[p]) /\ sent'[p][i] = sent[p][i]
            \/ p = a /\ i = Len(sent[a]) + 1 /\ sent'[p][i] \in stored /\ sent'[p][i].seq = Event(a)
    BY <2>1
  <2>3. \A p \in Instances : \A i \in 1..Len(sent[p]) : sent[p][i] \in stored /\ sent[p][i].seq # Event(a)
    BY <2>1 DEF Sent
  <2>4. \A p \in Instances : \A i \in 1..Len(sent'[p]) : sent'[p][i] \in stored'
    BY <2>1, <2>2, <2>3
  <2>5. \A p, q \in Instances : \A i \in 1..Len(sent'[p]), j \in 1..Len(sent'[q]) :
            sent'[p][i].seq = sent'[q][j].seq => p = q /\ i = j
    <3> SUFFICES ASSUME NEW p \in Instances, NEW q \in Instances,
                        NEW i \in 1..Len(sent'[p]), NEW j \in 1..Len(sent'[q]),
                        sent'[p][i].seq = sent'[q][j].seq
                 PROVE  p = q /\ i = j
      OBVIOUS
    <3>1. CASE i \in 1..Len(sent[p]) /\ sent'[p][i] = sent[p][i] /\ j \in 1..Len(sent[q]) /\ sent'[q][j] = sent[q][j]
      BY <3>1 DEF Sent
    <3> QED
      BY <3>1, <2>2, <2>3
  <2>6. ASSUME NEW p \in Instances, At(p, "push")'
        PROVE  Event(p)' = Event(p) /\ At(p, "push") /\ p # a
    <3>1. Event(p)' = Event(p) /\ ((At(p, "push") /\ ~Push(p)) \/ ApplyNew(p))
      BY <2>6, PushersStep
    <3>2. ~ApplyNew(p)
      BY <2>1 DEF ApplyNew, push
    <3> QED
      BY <3>1, <3>2, <1>4
  <2>7. ASSUME NEW p \in Instances, NEW q \in Instances, At(p, "push")', NEW j \in 1..Len(sent'[q])
        PROVE  sent'[q][j].seq # Event(p)'
    <3>1. Event(p)' = Event(p) /\ At(p, "push") /\ p # a
      BY <2>6, <2>7
    <3>2. Event(p) # Event(a)
      BY <3>1, <2>1 DEF Sent
    <3>3. CASE j \in 1..Len(sent[q]) /\ sent'[q][j] = sent[q][j]
      BY <3>1, <3>3 DEF Sent
    <3> QED
      BY <3>1, <3>2, <3>3, <2>2
  <2>8. ASSUME NEW p \in Instances, NEW q \in Instances, At(p, "push")', At(q, "push")',
               Event(p)' = Event(q)'
        PROVE  p = q
    BY <2>6, <2>8 DEF Sent
  <2> QED
    BY <2>4, <2>5, <2>7, <2>8 DEF Sent
<1>5. ASSUME ~\E p \in Instances : Push(p) PROVE sent' = sent
  BY <1>5 DEF Next, Publish, Repeat, Purge, Retain, Deliver, ApplyNew, ApplyRepeated, ApplyOther,
     ApplyFails, Ack, AckLost, Crash, Receive, Subscribe, vars, push
<1> QED
  BY <1>3, <1>4, <1>5

-------------------------------------------------------------------------------
(* Clients.                                                                 *)

\* A client reads on behind what it has received, on the bus it listens to.
LEMMA ReadStep ==
    ASSUME Store, Sent, Read, [Next]_vars
    PROVE  Read'
<1>t. /\ sent \in [Instances -> Seq(Rows)]
      /\ seat \in [Subscribers -> Instances \cup {None}]
      /\ next \in [Subscribers -> Nat]
      /\ received \in [Subscribers -> Seq(Rows)]
  BY DEF Store, TypeOK
<1> DEFINE Behind(s, r) == \E p \in Instances : \E k \in 1..Len(sent[p]) :
                sent[p][k] = r /\ (seat[s] = p => k < next[s])
           Once(s) == \A m, n \in 1..Len(received[s]) : received[s][m].seq = received[s][n].seq => m = n
           Fine(s) == /\ next[s] >= 1
                      /\ \A n \in 1..Len(received[s]) : Behind(s, received[s][n])
                      /\ Once(s)
<1>1. \A s \in Subscribers : Fine(s)
  BY DEF Read
<1>2. \A p \in Instances : \A k \in 1..Len(sent[p]) : k \in 1..Len(sent'[p]) /\ sent'[p][k] = sent[p][k]
  <2>1. ASSUME NEW a \in Instances, Push(a)
        PROVE  \A p \in Instances : \A k \in 1..Len(sent[p]) : k \in 1..Len(sent'[p]) /\ sent'[p][k] = sent[p][k]
    <3>1. /\ Len(sent'[a]) = Len(sent[a]) + 1 /\ Len(sent[a]) \in Nat
          /\ \A i \in 1..Len(sent[a]) : sent'[a][i] = sent[a][i]
          /\ \A p \in Instances \ {a} : sent'[p] = sent[p]
      BY <2>1, PushMeans
    <3> QED
      BY <3>1
  <2>2. ASSUME ~\E p \in Instances : Push(p) PROVE sent' = sent
    BY <2>2 DEF Next, Publish, Repeat, Purge, Retain, Deliver, ApplyNew, ApplyRepeated, ApplyOther,
       ApplyFails, Ack, AckLost, Crash, Receive, Subscribe, vars, push
  <2> QED
    BY <2>1, <2>2
\* A client that received nothing, and is where it was, gone, or at the end of a bus.
<1>3. ASSUME NEW s \in Subscribers, received'[s] = received[s], next'[s] >= 1,
             \A p \in Instances : seat'[s] = p =>
                \/ seat[s] = p /\ next'[s] = next[s]
                \/ \A k \in 1..Len(sent[p]) : k < next'[s]
      PROVE  Fine(s)'
  <2>1. ASSUME NEW n \in 1..Len(received'[s]) PROVE Behind(s, received[s][n])'
    <3>1. Behind(s, received[s][n])
      BY <1>1, <1>3, <2>1
    <3>2. PICK p \in Instances : \E k \in 1..Len(sent[p]) :
                sent[p][k] = received[s][n] /\ (seat[s] = p => k < next[s])
      BY <3>1
    <3>3. PICK k \in 1..Len(sent[p]) : sent[p][k] = received[s][n] /\ (seat[s] = p => k < next[s])
      BY <3>2
    <3>4. k \in 1..Len(sent'[p]) /\ sent'[p][k] = received'[s][n]
      BY <3>3, <1>2, <1>3
    <3>5. seat'[s] = p => k < next'[s]
      BY <3>3, <1>3
    <3> QED
      BY <3>4, <3>5, <1>3
  <2>2. Once(s)'
    BY <1>1, <1>3
  <2> QED
    BY <2>1, <2>2, <1>3
<1> HIDE DEF Behind, Once, Fine
<1>4. ASSUME NEW q \in Subscribers, Receive(q) PROVE \A s \in Subscribers : Fine(s)'
  <2>0. sent' = sent /\ seat' = seat
    BY <1>4 DEF Receive
  <2>1. PICK p \in Instances : \E i \in 1..Len(sent[p]) :
            /\ seat[q] = p /\ next[q] <= i
            /\ received' = [received EXCEPT ![q] = Append(received[q], sent[p][i])]
            /\ next' = [next EXCEPT ![q] = i + 1]
    BY <1>4, ReceiveMeans DEF Store
  <2>2. PICK i \in 1..Len(sent[p]) :
            /\ seat[q] = p /\ next[q] <= i
            /\ received' = [received EXCEPT ![q] = Append(received[q], sent[p][i])]
            /\ next' = [next EXCEPT ![q] = i + 1]
    BY <2>1
  <2> DEFINE L == Len(received[q])
             Heard(r) == \E b \in Instances : \E k \in 1..Len(sent'[b]) :
                sent'[b][k] = r /\ (seat'[q] = b => k < next'[q])
  <2>3. /\ L \in Nat /\ Len(received'[q]) = L + 1
        /\ received'[q][L + 1] = sent[p][i]
        /\ \A n \in 1..L : received'[q][n] = received[q][n]
        /\ next'[q] = i + 1 /\ next[q] \in Nat /\ Len(sent[p]) \in Nat
    BY <2>2, <1>t
  <2> HIDE DEF L
  <2>4. ASSUME NEW n \in 1..L
        PROVE  /\ Heard(received'[q][n])
               /\ received[q][n].seq # sent[p][i].seq
    <3>1. Behind(q, received[q][n])
      BY <1>1 DEF Fine, L
    <3>2. PICK b \in Instances : \E k \in 1..Len(sent[b]) :
                sent[b][k] = received[q][n] /\ (seat[q] = b => k < next[q])
      BY <3>1 DEF Behind
    <3>3. PICK k \in 1..Len(sent[b]) : sent[b][k] = received[q][n] /\ (seat[q] = b => k < next[q])
      BY <3>2
    <3>4. k \in Int /\ i \in Int
      OBVIOUS
    <3>5. seat'[q] = b => k < next'[q]
      BY <3>3, <3>4, <2>0, <2>2, <2>3
    <3>6. sent'[b][k] = received'[q][n] /\ k \in 1..Len(sent'[b])
      BY <3>3, <2>0, <2>3
    <3>7. Heard(received'[q][n])
      BY <3>5, <3>6
    <3>8. ~(b = p /\ k = i)
      BY <3>3, <3>4, <2>2, <2>3
    <3>9. sent[b][k].seq # sent[p][i].seq
      BY <3>8 DEF Sent
    <3> QED
      BY <3>3, <3>7, <3>9
  <2>5. Heard(received'[q][L + 1])
    <3>1. sent'[p][i] = received'[q][L + 1] /\ i \in 1..Len(sent'[p]) /\ (seat'[q] = p => i < next'[q])
      BY <2>0, <2>2, <2>3
    <3> QED
      BY <3>1
  <2>6. \A n \in 1..Len(received'[q]) : n \in 1..L \/ n = L + 1
    BY <2>3
  <2>7. Once(q)'
    <3> SUFFICES ASSUME NEW m \in 1..Len(received'[q]), NEW n \in 1..Len(received'[q]),
                        received'[q][m].seq = received'[q][n].seq
                 PROVE  m = n
      BY DEF Once
    <3>1. CASE m \in 1..L /\ n \in 1..L
      BY <3>1, <2>3, <1>1 DEF Fine, Once, L
    <3>2. CASE m = L + 1 /\ n \in 1..L
      BY <3>2, <2>3, <2>4
    <3>3. CASE n = L + 1 /\ m \in 1..L
      BY <3>3, <2>3, <2>4
    <3> QED
      BY <3>1, <3>2, <3>3, <2>6
  <2>8. Fine(q)'
    <3>1. next'[q] >= 1
      BY <2>3
    <3>2. \A n \in 1..Len(received'[q]) : Heard(received'[q][n])
      BY <2>4, <2>5, <2>6
    <3>3. \A n \in 1..Len(received'[q]) : Behind(q, received[q][n])'
      BY <3>2 DEF Behind
    <3> QED
      BY <3>1, <3>3, <2>7 DEF Fine
  <2>9. ASSUME NEW s \in Subscribers, s # q PROVE Fine(s)'
    <3>1. received'[s] = received[s] /\ next'[s] = next[s] /\ seat'[s] = seat[s] /\ next[s] >= 1
      BY <2>0, <2>2, <2>9, <1>t, <1>1 DEF Fine
    <3> QED
      BY <3>1, <1>3
  <2> QED
    BY <2>8, <2>9
<1>5. ASSUME NEW q \in Subscribers, NEW p \in Instances, Subscribe(q, p) PROVE \A s \in Subscribers : Fine(s)'
  <2> SUFFICES ASSUME NEW s \in Subscribers PROVE Fine(s)'
    OBVIOUS
  <2>1. /\ received' = received /\ seat' = [seat EXCEPT ![q] = p]
        /\ next' = [next EXCEPT ![q] = Len(sent[p]) + 1]
    BY <1>5 DEF Subscribe
  <2>2. next[s] >= 1 /\ Len(sent[p]) \in Nat
    BY <1>1, <1>t DEF Fine
  <2>3. CASE s = q
    <3>1. seat'[s] = p /\ next'[s] = Len(sent[p]) + 1
      BY <2>1, <2>3, <1>t
    <3> QED
      BY <3>1, <2>1, <2>2, <1>3
  <2>4. CASE s # q
    <3>1. seat'[s] = seat[s] /\ next'[s] = next[s]
      BY <2>1, <2>4, <1>t
    <3> QED
      BY <3>1, <2>1, <2>2, <1>3
  <2> QED
    BY <2>3, <2>4
<1>6. ASSUME NEW a \in Instances, Crash(a) PROVE \A s \in Subscribers : Fine(s)'
  <2> SUFFICES ASSUME NEW s \in Subscribers PROVE Fine(s)'
    OBVIOUS
  <2>1. /\ received' = received
        /\ seat'[s] = IF seat[s] = a THEN None ELSE seat[s]
        /\ next'[s] = IF seat[s] = a THEN 1 ELSE next[s]
    BY <1>6 DEF Crash
  <2>2. next[s] >= 1
    BY <1>1 DEF Fine
  <2>3. \A p \in Instances : seat'[s] = p => seat[s] = p /\ next'[s] = next[s]
    BY <2>1, AuditAssumption
  <2> QED
    BY <2>1, <2>2, <2>3, <1>3
<1>7. ASSUME UNCHANGED <<seat, next, received>> PROVE \A s \in Subscribers : Fine(s)'
  <2> SUFFICES ASSUME NEW s \in Subscribers PROVE Fine(s)'
    OBVIOUS
  <2>1. next[s] >= 1
    BY <1>1 DEF Fine
  <2> QED
    BY <2>1, <1>7, <1>3
<1>8. ASSUME ~\E p \in Instances : Crash(p) \/ \E s \in Subscribers : Subscribe(s, p),
             ~\E s \in Subscribers : Receive(s)
      PROVE  UNCHANGED <<seat, next, received>>
  BY <1>8 DEF Next, Publish, Repeat, Purge, Retain, Deliver, ApplyNew, ApplyRepeated, ApplyOther,
     ApplyFails, Push, Ack, AckLost, vars, push
<1>9. \A s \in Subscribers : Fine(s)'
  BY <1>4, <1>5, <1>6, <1>7, <1>8
<1> QED
  BY <1>9 DEF Read, Fine, Behind, Once

-------------------------------------------------------------------------------
(* The theorems.                                                            *)

\* The invariant is inductive.
LEMMA Inductive == Spec => []IInv
<1>1. IInv /\ [Next]_vars => IInv'
  <2> SUFFICES ASSUME Store, Sent, Read, [Next]_vars PROVE IInv'
    BY DEF IInv
  <2>1. TypeOK'
    BY TypesStep
  <2>2. Numbered'
    BY StoreTypes DEF Numbered
  <2>3. Hands' /\ Kept' /\ StoredOnce' /\ AckedIsStored'
    BY HandsStep, RowsStep, AckedStep
  <2>4. Sent' /\ Read'
    BY SentStep, ReadStep
  <2> QED
    BY <2>1, <2>2, <2>3, <2>4 DEF IInv, Store
<1> QED
  BY <1>1, InitInv, PTL DEF Spec

\* Types.
THEOREM TypeCorrect == Spec => []TypeOK
<1>1. IInv => TypeOK
  BY DEF IInv, Store
<1> QED
  BY <1>1, Inductive, PTL

\* An event has one audit row in its life, whoever applies it how often, and
\* although the retention deletes rows (projector.rs, retention.rs).
THEOREM EventStoredOnce == Spec => []StoredOnce
<1>1. IInv => StoredOnce
  BY DEF IInv, Store
<1> QED
  BY <1>1, Inductive, PTL

\* The projector acknowledges an auth event only when its row was inserted.
THEOREM AcknowledgedIsStored == Spec => []AckedIsStored
<1>1. IInv => AckedIsStored
  BY DEF IInv, Store
<1> QED
  BY <1>1, Inductive, PTL

\* A client of the audit stream sees an event once, and only stored ones,
\* however it reconnects and lags (events.rs, routes.rs).
THEOREM FramesAreSeenOnce == Spec => []FramesSeenOnce
<1>1. IInv => FramesSeenOnce
  <2> SUFFICES ASSUME IInv, NEW s \in Subscribers,
                      NEW i \in 1..Len(received[s]), NEW j \in 1..Len(received[s])
               PROVE  /\ received[s][i] \in stored
                      /\ received[s][i].seq = received[s][j].seq => i = j
    BY DEF FramesSeenOnce
  <2>1. PICK p \in Instances : \E k \in 1..Len(sent[p]) : sent[p][k] = received[s][i]
    BY DEF IInv, Read
  <2>2. received[s][i] \in stored
    BY <2>1 DEF IInv, Sent
  <2> QED
    BY <2>2 DEF IInv, Read
<1> QED
  BY <1>1, Inductive, PTL
===============================================================================
