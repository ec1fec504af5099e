------------------------------- MODULE AuthAudit -------------------------------
(***************************************************************************)
(* The authentication audit: the auth_event projector with its push bus     *)
(* (src/features/auth_audit/projector.rs, events.rs, routes.rs) and the      *)
(* retention job (retention.rs).                                             *)
(*                                                                         *)
(* Every instance runs a projector on the same durable consumer and owns a   *)
(* bus of its own.  A projector does not retry in place: a message it could  *)
(* not insert comes back after ack_wait, in any order with the others, and   *)
(* the unique event_seq makes the insert idempotent.  A row that was really  *)
(* inserted is pushed to the SSE subscribers of that instance.               *)
(***************************************************************************)
EXTENDS Naturals, Sequences, FiniteSets

CONSTANTS
    Instances,
    Subscribers,    \* SSE clients
    Capacity,       \* frames the broadcast channel keeps (256)
    MaxMessages     \* bound: messages in the stream

None == 0

ASSUME AuditAssumption ==
    /\ None \notin Instances
    /\ Capacity \in Nat \ {0}
    /\ MaxMessages \in Nat

VARIABLES
    stream,         \* messages of events.idm.auth.>: the seqs they carry
    other,          \* seqs of events not to store: not auth.*, unknown, poison
    acked, purged,  \* messages acknowledged; messages dropped by max_age
    hand,           \* hand[p]: message instance p works on
    phase,          \* phase[p]: "apply", "push" or "ack"
    table,          \* auth_event: rows [id, seq]
    stored,         \* history: rows ever inserted
    sent,           \* sent[p]: frames broadcast on the bus of p
    seat,           \* seat[s]: the bus subscriber s listens to, and
    next,           \*   the next frame of it s will read
    received        \* received[s]: frames s got from all its subscriptions

broker == <<stream, other, acked, purged>>
worker == <<hand, phase>>
db == <<table, stored>>
push == <<sent, seat, next, received>>
vars == <<broker, worker, db, push>>

Messages == 1..Len(stream)

Rows == [id : Nat, seq : 1..MaxMessages]

Init ==
    /\ stream = << >>
    /\ other = {}
    /\ acked = {}
    /\ purged = {}
    /\ hand = [p \in Instances |-> None]
    /\ phase = [p \in Instances |-> "apply"]
    /\ table = {}
    /\ stored = {}
    /\ sent = [p \in Instances |-> << >>]
    /\ seat = [s \in Subscribers |-> None]
    /\ next = [s \in Subscribers |-> 1]
    /\ received = [s \in Subscribers |-> << >>]

-------------------------------------------------------------------------------
(* The stream.                                                               *)

Published == {stream[i] : i \in Messages}

\* The seqs are numbered as they are published: they only tell events apart.
Publish ==
    /\ Len(stream) < MaxMessages
    /\ LET n == Cardinality(Published) + 1
       IN  stream' = Append(stream, n) /\ other' \in {other, other \cup {n}}
    /\ UNCHANGED <<acked, purged, worker, db, push>>

\* The last message of the event has left the stream: it is over seven days old.
Gone(n) == \A i \in Messages : stream[i] = n => i \in purged

Repeat ==
    /\ Len(stream) < MaxMessages
    /\ \E n \in Published : ~Gone(n) /\ stream' = Append(stream, n)
    /\ UNCHANGED <<other, acked, purged, worker, db, push>>

\* MAX_AGE drops the oldest message, whether it is acknowledged or not.
Purge ==
    /\ \E i \in Messages \ purged :
        /\ 1..(i - 1) \subseteq purged
        /\ \A p \in Instances : hand[p] # i
        /\ purged' = purged \cup {i}
    /\ UNCHANGED <<stream, other, acked, worker, db, push>>

\* First delivery, or ack_wait has passed: of a message nobody holds, or of one
\* whose insert takes longer than ack_wait (there are no Progress acks here).
Deliver(p) ==
    /\ hand[p] = None
    /\ \E i \in Messages \ (acked \cup purged) : hand' = [hand EXCEPT ![p] = i]
    /\ phase' = [phase EXCEPT ![p] = "apply"]
    /\ UNCHANGED <<broker, db, push>>

-------------------------------------------------------------------------------
(* The projector.                                                            *)

Event(p) == stream[hand[p]]

At(p, ph) == hand[p] # None /\ phase[p] = ph

Drop(p) ==
    /\ hand' = [hand EXCEPT ![p] = None]
    /\ phase' = [phase EXCEPT ![p] = "apply"]

\* The row of this attempt: a new id, whether or not it will be inserted.
NewRow(n) == [id |-> Cardinality(stored) + 1, seq |-> n]

\* Mutant: no unique event_seq.
ConflictingNever(n) == FALSE

\* on conflict (event_seq) do nothing
Conflicting(n) == \E r \in table : r.seq = n

Insert(n) ==
    /\ ~Conflicting(n)
    /\ table' = table \cup {NewRow(n)}
    /\ stored' = stored \cup {NewRow(n)}

\* Mutant: a redelivered event is pushed as well.
ApplyRepeatedPushes(p) ==
    /\ At(p, "apply")
    /\ Event(p) \notin other /\ Conflicting(Event(p))
    /\ phase' = [phase EXCEPT ![p] = "push"]
    /\ UNCHANGED <<broker, hand, db, push>>

ApplyNew(p) ==
    /\ At(p, "apply")
    /\ Event(p) \notin other /\ Insert(Event(p))
    /\ phase' = [phase EXCEPT ![p] = "push"]
    /\ UNCHANGED <<broker, hand, push>>

\* rows_affected = 0: no frame.
ApplyRepeated(p) ==
    /\ At(p, "apply")
    /\ Event(p) \notin other /\ Conflicting(Event(p))
    /\ phase' = [phase EXCEPT ![p] = "ack"]
    /\ UNCHANGED <<broker, hand, db, push>>

\* Not auth.*, an unknown subtype, or poison.
ApplyOther(p) ==
    /\ At(p, "apply")
    /\ Event(p) \in other
    /\ phase' = [phase EXCEPT ![p] = "ack"]
    /\ UNCHANGED <<broker, hand, db, push>>

\* Mutant: a failed insert is acknowledged like a poison message.
ApplyFailsAcks(p) ==
    /\ At(p, "apply")
    /\ Event(p) \notin other
    /\ phase' = [phase EXCEPT ![p] = "ack"]
    /\ UNCHANGED <<broker, hand, db, push>>

\* A transient error, also after the insert has committed: no ack, next message.
ApplyFails(p) ==
    /\ At(p, "apply")
    /\ Event(p) \notin other
    /\ Insert(Event(p)) \/ UNCHANGED db
    /\ Drop(p)
    /\ UNCHANGED <<broker, push>>

StoredRow(n) == CHOOSE r \in stored : r.seq = n /\ \A q \in stored : q.seq = n => q.id <= r.id

\* AuthEventBus.publish; without subscribers the frame is lost.
Push(p) ==
    /\ At(p, "push")
    /\ sent' = [sent EXCEPT ![p] = Append(@, StoredRow(Event(p)))]
    /\ phase' = [phase EXCEPT ![p] = "ack"]
    /\ UNCHANGED <<broker, hand, db, seat, next, received>>

Ack(p) ==
    /\ At(p, "ack")
    /\ acked' = acked \cup {hand[p]}
    /\ Drop(p)
    /\ UNCHANGED <<stream, other, purged, db, push>>

\* The ack fails and is only logged; or the instance crashes or shuts down, and
\* its subscribers lose their stream.
AckLost(p) ==
    /\ At(p, "ack")
    /\ Drop(p)
    /\ UNCHANGED <<broker, db, push>>

Crash(p) ==
    /\ hand[p] # None \/ \E s \in Subscribers : seat[s] = p
    /\ Drop(p)
    /\ seat' = [s \in Subscribers |-> IF seat[s] = p THEN None ELSE seat[s]]
    /\ next' = [s \in Subscribers |-> IF seat[s] = p THEN 1 ELSE next[s]]
    /\ UNCHANGED <<broker, db, sent, received>>

\* delete from auth_event where occurred_at < now - 90 days: only rows far older
\* than anything the stream still holds.
Retain ==
    /\ \E old \in SUBSET {r \in table : Gone(r.seq) /\ \A p \in Instances : hand[p] = None \/ Event(p) # r.seq} :
        old # {} /\ table' = table \ old
    /\ UNCHANGED <<broker, worker, stored, push>>

-------------------------------------------------------------------------------
(* SSE subscribers.                                                          *)

\* A (re)connected client starts with the frames sent from now on.
Subscribe(s, p) ==
    /\ seat[s] = None
    /\ seat' = [seat EXCEPT ![s] = p]
    /\ next' = [next EXCEPT ![s] = Len(sent[p]) + 1]
    /\ UNCHANGED <<broker, worker, db, sent, received>>

Oldest(p) == IF Len(sent[p]) > Capacity THEN Len(sent[p]) - Capacity + 1 ELSE 1

\* rx.recv(): a lagging client goes on with the oldest frame still kept.
Receive(s) ==
    /\ seat[s] # None
    /\ LET frames == sent[seat[s]]
           i == IF next[s] < Oldest(seat[s]) THEN Oldest(seat[s]) ELSE next[s]
       IN  /\ i <= Len(frames)
           /\ received' = [received EXCEPT ![s] = Append(@, frames[i])]
           /\ next' = [next EXCEPT ![s] = i + 1]
    /\ UNCHANGED <<broker, worker, db, sent, seat>>

-------------------------------------------------------------------------------
Next ==
    \/ Publish \/ Repeat \/ Purge \/ Retain
    \/ \E p \in Instances :
        \/ Deliver(p)
        \/ ApplyNew(p) \/ ApplyRepeated(p) \/ ApplyOther(p) \/ ApplyFails(p)
        \/ Push(p)
        \/ Ack(p) \/ AckLost(p) \/ Crash(p)
    \/ \E s \in Subscribers : Receive(s) \/ \E p \in Instances : Subscribe(s, p)

Spec == Init /\ [][Next]_vars

\* The server redelivers for ever (no max_deliver), no instance can fail to
\* insert new events for ever, and a projector's loop takes its next step; acks
\* may be lost for ever.
Fairness ==
    /\ \A i \in 1..MaxMessages :
        SF_vars(\E p \in Instances : Deliver(p) /\ hand'[p] = i)
    /\ \A p \in Instances :
        /\ SF_vars(ApplyNew(p))
        /\ WF_vars(ApplyRepeated(p) \/ ApplyOther(p) \/ Push(p) \/ Ack(p))

FairSpec == Spec /\ Fairness

-------------------------------------------------------------------------------
\* Types; a projector without a message is ready to apply the next one.
TypeOK ==
    /\ stream \in Seq(1..MaxMessages)
    /\ other \subseteq Published
    /\ acked \subseteq Messages
    /\ purged \subseteq Messages
    /\ hand \in [Instances -> Messages \cup {None}]
    /\ phase \in [Instances -> {"apply", "push", "ack"}]
    /\ \A p \in Instances : hand[p] = None => phase[p] = "apply"
    /\ table \subseteq stored
    /\ stored \subseteq Rows
    /\ sent \in [Instances -> Seq(Rows)]
    /\ seat \in [Subscribers -> Instances \cup {None}]
    /\ next \in [Subscribers -> Nat]
    /\ received \in [Subscribers -> Seq(Rows)]

\* However often an event is delivered, to however many instances, and although
\* old rows are deleted: it has one audit row in its life.
StoredOnce == \A q, r \in stored : q.seq = r.seq => q = r

\* An acknowledged auth event was stored.
AckedIsStored ==
    \A i \in acked : stream[i] \notin other => \E r \in stored : r.seq = stream[i]

\* No client sees an event twice, nor a frame for a row that was never stored,
\* whatever was redelivered, retried, skipped by lag, or missed by reconnecting
\* to another instance.
FramesSeenOnce ==
    \A s \in Subscribers : \A i, j \in 1..Len(received[s]) :
        /\ received[s][i] \in stored
        /\ received[s][i].seq = received[s][j].seq => i = j

\* Every auth event reaches the table, or seven days of failure have passed.
EveryEventStored ==
    \A n \in 1..MaxMessages :
        (n \in Published \ other) ~> ((\E r \in stored : r.seq = n) \/ Gone(n))
===============================================================================
