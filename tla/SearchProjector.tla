---------------------------- MODULE SearchProjector ----------------------------
(***************************************************************************)
(* The user-search projector (src/features/search/projector.rs): a durable  *)
(* JetStream pull consumer that folds the event log into admin_user_index.   *)
(*                                                                         *)
(* The log is the one Outbox provides: events of one user and schema in     *)
(* increasing seq, with repetitions.  The server remembers which messages   *)
(* it has delivered and which are acknowledged, hands new ones out at once   *)
(* and unacknowledged ones again when their ack_wait has passed.  A worker   *)
(* holds a prefetched buffer and works on its head: apply, retry in place    *)
(* on a transient error, give up after MaxAttempts, then acknowledge.        *)
(***************************************************************************)
EXTENDS SearchIndex, Sequences, FiniteSets

CONSTANTS
    Users,
    Workers,        \* processes bound to the durable consumer
    Prefetch,       \* messages a worker holds
    MaxAttempts,    \* failed attempts before the message is given up (10)
    Published,      \* event kinds that occur in the stream
    MaxSeq,         \* bound: seqs drawn per schema
    MaxLog,         \* bound: messages in the stream
    MaxRepeats,     \* bound: events published twice (duplicate window passed)
    MaxLosses,      \* bound: acknowledgements lost
    MaxEarly,       \* bound: redeliveries of a message still being worked on
    MaxRestarts     \* bound: worker shutdowns and crashes

ASSUME ProjectorAssumption ==
    /\ IsFiniteSet(Workers)
    /\ Prefetch \in Nat \ {0}
    /\ Published \subseteq Kinds \cup {"other"}
    /\ MaxAttempts \in Nat /\ MaxSeq \in Nat /\ MaxLog \in Nat
    /\ MaxRepeats \in Nat /\ MaxLosses \in Nat /\ MaxEarly \in Nat /\ MaxRestarts \in Nat

VARIABLES
    log,            \* the stream
    cursor,         \* messages 1..cursor have been delivered at least once
    acked,          \* messages acknowledged
    buffer,         \* buffer[w]: messages worker w holds, in arrival order
    phase,          \* phase[w]: what w does with the head of its buffer
    attempt,        \* attempt[w]: failed attempts on the head
    index,          \* admin_user_index
    skipped,        \* history: events given up on and not applied since
    repeats, losses, early, restarts

consumer == <<cursor, acked>>
workers == <<buffer, phase, attempt>>
projection == <<index, skipped>>
bounds == <<repeats, losses, early, restarts>>
vars == <<log, consumer, workers, projection, bounds>>

\* "other" stands for what the projector acknowledges without a repository
\* call: garbage, bad data, unknown types and auth.* events.
Events == [kind : Kinds \cup {"other"}, user : Users, seq : 1..MaxSeq]

Logged == {log[i] : i \in 1..Len(log)}

SameSource(d, e) == d.user = e.user /\ SchemaOf(d.kind) = SchemaOf(e.kind)

Init ==
    /\ log = << >>
    /\ cursor = 0
    /\ acked = {}
    /\ buffer = [w \in Workers |-> << >>]
    /\ phase = [w \in Workers |-> "apply"]
    /\ attempt = [w \in Workers |-> 0]
    /\ index = [u \in Users |-> EmptyRow]
    /\ skipped = {}
    /\ repeats = 0
    /\ losses = 0
    /\ early = 0
    /\ restarts = 0

-------------------------------------------------------------------------------
(* The log: what the relays publish.                                         *)

\* user.created opens a user's idm events; user.deleted closes them but for a
\* roles_set that raced it (see UserAdmin); profile events come from another
\* relay and may arrive before or after both.
Lifecycle(u, kind) ==
    LET past == {e.kind : e \in {d \in Logged : d.user = u}}
    IN  CASE kind = "user.created" -> "user.created" \notin past
          [] kind \in {"user.updated", "user.deleted"} ->
                "user.created" \in past /\ "user.deleted" \notin past
          [] kind = "user.roles_set" -> "user.created" \in past
          [] OTHER -> TRUE

Emit(u, kind) ==
    /\ Len(log) < MaxLog
    /\ Lifecycle(u, kind)
    /\ \E n \in 1..MaxSeq :
        LET e == [kind |-> kind, user |-> u, seq |-> n]
        IN  /\ \A d \in Logged : SchemaOf(d.kind) = SchemaOf(kind) => d.seq # n
            /\ \A d \in Logged : SameSource(d, e) => d.seq < n
            /\ log' = Append(log, e)
    /\ UNCHANGED <<consumer, workers, projection, bounds>>

\* A relay publishes an event again after the duplicate window.
Repeat ==
    /\ Len(log) < MaxLog
    /\ repeats < MaxRepeats
    /\ \E e \in Logged : log' = Append(log, e)
    /\ repeats' = repeats + 1
    /\ UNCHANGED <<consumer, workers, projection, losses, early, restarts>>

-------------------------------------------------------------------------------
(* The consumer on the server.                                               *)

Holds(w, i) == \E p \in 1..Len(buffer[w]) : buffer[w][p] = i

Deliver(w) ==
    /\ cursor < Len(log)
    /\ Len(buffer[w]) < Prefetch
    /\ cursor' = cursor + 1
    /\ buffer' = [buffer EXCEPT ![w] = Append(@, cursor + 1)]
    /\ UNCHANGED <<log, acked, phase, attempt, projection, bounds>>

\* ack_wait has passed for a message nobody holds any more.
Redeliver(w) ==
    /\ Len(buffer[w]) < Prefetch
    /\ \E i \in 1..cursor :
        /\ i \notin acked
        /\ \A v \in Workers : ~Holds(v, i)
        /\ buffer' = [buffer EXCEPT ![w] = Append(@, i)]
    /\ UNCHANGED <<log, consumer, phase, attempt, projection, bounds>>

\* ack_wait has passed for a message a worker still holds: the ones waiting
\* behind a long retry, or the head when its Progress acks get lost.
RedeliverEarly(w) ==
    /\ early < MaxEarly
    /\ Len(buffer[w]) < Prefetch
    /\ \E i \in 1..cursor :
        /\ i \notin acked
        /\ \E v \in Workers : Holds(v, i)
        /\ buffer' = [buffer EXCEPT ![w] = Append(@, i)]
    /\ early' = early + 1
    /\ UNCHANGED <<log, consumer, phase, attempt, projection, repeats, losses, restarts>>

-------------------------------------------------------------------------------
(* A worker.                                                                 *)

Busy(w, p) == buffer[w] # << >> /\ phase[w] = p

InHand(w) == log[Head(buffer[w])]

Known(e) == e.kind \in Kinds

\* The repository call of apply_message.
Project(e) ==
    /\ index' = [index EXCEPT ![e.user] = Apply(@, e)]
    /\ skipped' = IF WatermarkApplies(e, index[e.user]) THEN skipped \ {e} ELSE skipped

\* Mutants: a failing repository call is acknowledged like a successful one; a
\* message that does not parse is retried like a failing database.
ApplyOkOrDrop(w) ==
    /\ Busy(w, "apply")
    /\ (Known(InHand(w)) /\ Project(InHand(w))) \/ UNCHANGED projection
    /\ phase' = [phase EXCEPT ![w] = "ack"]
    /\ attempt' = [attempt EXCEPT ![w] = 0]
    /\ UNCHANGED <<log, consumer, buffer, bounds>>

ApplyOkKnownOnly(w) ==
    /\ Busy(w, "apply")
    /\ Known(InHand(w))
    /\ Project(InHand(w))
    /\ phase' = [phase EXCEPT ![w] = "ack"]
    /\ attempt' = [attempt EXCEPT ![w] = 0]
    /\ UNCHANGED <<log, consumer, buffer, bounds>>

\* Ok, or a poison message.
ApplyOk(w) ==
    /\ Busy(w, "apply")
    /\ IF Known(InHand(w)) THEN Project(InHand(w)) ELSE UNCHANGED projection
    /\ phase' = [phase EXCEPT ![w] = "ack"]
    /\ attempt' = [attempt EXCEPT ![w] = 0]
    /\ UNCHANGED <<log, consumer, buffer, bounds>>

\* Mutant: the worker moves on to the next message and leaves the failed one to
\* redelivery.
ApplyFailsMovesOn(w) ==
    /\ Busy(w, "apply")
    /\ Known(InHand(w))
    /\ buffer' = [buffer EXCEPT ![w] = Tail(@)]
    /\ UNCHANGED <<log, consumer, phase, attempt, projection, bounds>>

\* A transient error; the statement may have committed all the same.
ApplyFails(w) ==
    /\ Busy(w, "apply")
    /\ Known(InHand(w))
    /\ attempt[w] < MaxAttempts
    /\ Project(InHand(w)) \/ UNCHANGED projection
    /\ attempt' = [attempt EXCEPT ![w] = @ + 1]
    /\ UNCHANGED <<log, consumer, buffer, phase, bounds>>

\* The last attempt failed too: acknowledge and leave a gap for the rebuild.
GiveUp(w) ==
    /\ Busy(w, "apply")
    /\ Known(InHand(w))
    /\ attempt[w] = MaxAttempts
    /\ LET e == InHand(w)
       IN  skipped' = IF WatermarkApplies(e, index[e.user]) THEN skipped \cup {e} ELSE skipped
    /\ phase' = [phase EXCEPT ![w] = "ack"]
    /\ attempt' = [attempt EXCEPT ![w] = 0]
    /\ UNCHANGED <<log, consumer, buffer, index, bounds>>

NextMessage(w) ==
    /\ buffer' = [buffer EXCEPT ![w] = Tail(@)]
    /\ phase' = [phase EXCEPT ![w] = "apply"]

Ack(w) ==
    /\ Busy(w, "ack")
    /\ acked' = acked \cup {Head(buffer[w])}
    /\ NextMessage(w)
    /\ UNCHANGED <<log, cursor, attempt, projection, bounds>>

\* The ack is only logged when it fails, and the worker goes on.
AckLost(w) ==
    /\ losses < MaxLosses
    /\ Busy(w, "ack")
    /\ NextMessage(w)
    /\ losses' = losses + 1
    /\ UNCHANGED <<log, consumer, attempt, projection, repeats, early, restarts>>

\* Shutdown or crash, also in the middle of a retry: what the worker holds is
\* left to redelivery.
Restart(w) ==
    /\ restarts < MaxRestarts
    /\ buffer[w] # << >>
    /\ buffer' = [buffer EXCEPT ![w] = << >>]
    /\ phase' = [phase EXCEPT ![w] = "apply"]
    /\ attempt' = [attempt EXCEPT ![w] = 0]
    /\ restarts' = restarts + 1
    /\ UNCHANGED <<log, consumer, projection, repeats, losses, early>>

-------------------------------------------------------------------------------
Publishing ==
    \/ \E u \in Users : \E kind \in Published : Emit(u, kind)
    \/ Repeat

Consuming ==
    \E w \in Workers :
        \/ Deliver(w) \/ Redeliver(w) \/ RedeliverEarly(w)
        \/ ApplyOk(w) \/ ApplyFails(w) \/ GiveUp(w)
        \/ Ack(w) \/ AckLost(w)
        \/ Restart(w)

Next == Publishing \/ Consuming

Spec == Init /\ [][Next]_vars

\* The server keeps delivering; a worker's loop keeps taking its next step (a
\* failing database is left behind by success or by the attempt limit).
Fairness ==
    \A w \in Workers :
        /\ WF_vars(Deliver(w))
        /\ WF_vars(Redeliver(w))
        /\ WF_vars(ApplyOk(w) \/ ApplyFails(w) \/ GiveUp(w))
        /\ WF_vars(Ack(w))

FairSpec == Spec /\ Fairness

-------------------------------------------------------------------------------
TypeOK ==
    /\ log \in Seq(Events)
    /\ cursor \in 0..Len(log)
    /\ acked \subseteq 1..cursor
    /\ buffer \in [Workers -> Seq(1..cursor)]
    /\ phase \in [Workers -> {"apply", "ack"}]
    /\ attempt \in [Workers -> 0..MaxAttempts]
    /\ index \in [Users -> Rows]
    /\ skipped \subseteq Events
    /\ repeats \in 0..MaxRepeats
    /\ losses \in 0..MaxLosses
    /\ early \in 0..MaxEarly
    /\ restarts \in 0..MaxRestarts

Covered(e) == e.seq <= index[e.user].seq[SchemaOf(e.kind)]

\* The events the row of u answers for: at or below its watermark and not
\* given up.
Answered(u) == {e \in Logged : e.user = u /\ Known(e) /\ Covered(e) /\ e \notin skipped}

\* A row at watermark s is the fold of all its user's events up to s: no column
\* misses an event the watermark claims (projector.rs "retry in place, do not
\* advance").
IndexAgrees ==
    \A u \in Users :
        /\ \A c \in Columns :
            NewestOf(index[u].cols[c], {e.seq : e \in {d \in Answered(u) : c \in Writes[d.kind]}})
        /\ index[u].deleted <=> \E e \in Answered(u) : e.kind = "user.deleted"

\* So it is as long as nobody leaves a message to redelivery: one worker that is
\* not restarted, with retries, give-ups, lost acks and early redeliveries.
OrderedIndexAgrees == restarts = 0 /\ Cardinality(Workers) = 1 => IndexAgrees

\* The loss is never permanent: once every message is acknowledged the rows are
\* the folds of the log, but for the events given up with an error.
DrainedIndexAgrees == acked = 1..Len(log) => IndexAgrees

\* An acknowledged event is in the index, superseded there, or was given up
\* with an error: the ack never comes before the apply.
AckedIsProjected ==
    \A i \in acked : Known(log[i]) => Covered(log[i]) \/ log[i] \in skipped

\* However messages are repeated, reordered by redelivery or applied twice, no
\* watermark and no column goes back to an older event, and a deleted user
\* stays deleted.
NeverBackwards ==
    [][\A u \in Users :
        /\ \A s \in Schemas : index'[u].seq[s] >= index[u].seq[s]
        /\ \A c \in Columns : index'[u].cols[c] >= index[u].cols[c]
        /\ index[u].deleted => index'[u].deleted]_index

\* Every message is dealt with for good: poison and failing messages do not
\* block the stream.
EveryMessageAcked ==
    \A i \in 1..MaxLog : (i <= Len(log)) ~> (i \in acked)
===============================================================================
