------------------------------- MODULE EventLog -------------------------------
(***************************************************************************)
(* What the transactional outbox promises its consumers, without           *)
(* transactions, relays or a broker: an append-only log in which every     *)
(* event of an aggregate is preceded by all the older events of that       *)
(* aggregate.  Events may be repeated, and events of different aggregates   *)
(* may come in any order.  Outbox implements this specification.           *)
(***************************************************************************)
EXTENDS Naturals, Sequences

CONSTANTS
    Aggregates,     \* users, as the event envelope's aggregate_id names them
    Ids             \* values of the per-schema bigserial

VARIABLES
    written,        \* events whose transaction is committed
    log             \* the log the consumers read

logVars == <<written, log>>

Event == [id : Ids, agg : Aggregates]

InLog(x) == \E i \in 1..Len(log) : log[i] = x

LogInit ==
    /\ written = {}
    /\ log = << >>

\* A write commits: its event is the newest of its aggregate.
Write ==
    \E x \in Event :
        /\ \A y \in written : y.agg = x.agg => y.id < x.id
        /\ written' = written \cup {x}
        /\ UNCHANGED log

\* An event may reach the log once all older ones of its aggregate are there.
Ready(x) == \A y \in written : (y.agg = x.agg /\ y.id < x.id) => InLog(y)

Deliver ==
    \E x \in written :
        /\ Ready(x)
        /\ log' = Append(log, x)
        /\ UNCHANGED written

\* The first delivery of an event of aggregate a.
DeliverNew(a) ==
    \E x \in written :
        /\ x.agg = a
        /\ ~InLog(x)
        /\ Ready(x)
        /\ log' = Append(log, x)
        /\ UNCHANGED written

LogNext == Write \/ Deliver

LogSpec == LogInit /\ [][LogNext]_logVars

\* At-least-once: no aggregate's events are withheld for ever.
FairLogSpec == LogSpec /\ \A a \in Aggregates : WF_logVars(DeliverNew(a))
===============================================================================
