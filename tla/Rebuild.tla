-------------------------------- MODULE Rebuild --------------------------------
(***************************************************************************)
(* rebuild_search (src/features/search/rebuild.rs, src/bin/rebuild_search.rs)*)
(* running beside the writers and the projector.                             *)
(*                                                                         *)
(* Writers draw a bigserial id inside their transaction and commit it       *)
(* together with the row; what is committed is both the source tables (their *)
(* current state is the fold of the committed events) and the feed of the    *)
(* projector.  The projector is the one of SearchProjector with one worker   *)
(* that is never restarted: each event in commit order, some again later.    *)
(* The rebuild reads the two watermarks, then page after page of live users  *)
(* and their display names, and overwrites their rows one by one.            *)
(***************************************************************************)
EXTENDS SearchIndex, Sequences, FiniteSets

CONSTANTS
    Users,          \* user ids, numbers in the order of Uuid::now_v7
    Written,        \* event kinds the writers produce
    PageLimit,      \* rows per page (500)
    MaxIdm, MaxApp, \* bound: ids drawn from the outbox of each schema
    MaxSkips,       \* bound: events the projector gives up on
    MaxRepeats,     \* bound: events delivered again after they were handled
    MaxRuns         \* bound: rebuilds started

ASSUME RebuildAssumption ==
    /\ Users \subseteq Nat \ {0} /\ IsFiniteSet(Users)
    /\ Written \subseteq Kinds
    /\ PageLimit \in Nat \ {0}
    /\ MaxIdm \in Nat /\ MaxApp \in Nat
    /\ MaxSkips \in Nat /\ MaxRepeats \in Nat /\ MaxRuns \in Nat

VARIABLES
    serial,         \* serial[s]: the last id drawn from the outbox sequence
    inflight,       \* events inserted and not committed
    log,            \* committed events, in commit order
    pos,            \* log[1..pos] has been handled by the projector
    index,          \* admin_user_index
    skipped,        \* history: events given up, and
    undone,         \*   events projected and then overwritten by a rebuild's older
                    \*   snapshot; until they are applied or rebuilt
    step,           \* where the rebuild is
    floor,          \* p_idm and p_app
    after,          \* keyset cursor
    page,           \* rows of the current page still to be written
    written,        \* users written by this rebuild
    skips, repeats, runs

source == <<serial, inflight, log>>
losses == <<skipped, undone>>
cli == <<step, floor, after, page, written>>
bounds == <<skips, repeats, runs>>
vars == <<source, pos, index, losses, cli, bounds>>

Events == [kind : Kinds, user : Users, seq : Nat \ {0}]

MaxSeq(s) == IF s = "idm" THEN MaxIdm ELSE MaxApp

Steps == {"idle", "floor_app", "page", "names", "upsert", "done"}

Logged == {log[i] : i \in 1..Len(log)}

Init ==
    /\ serial = [s \in Schemas |-> 0]
    /\ inflight = {}
    /\ log = << >>
    /\ pos = 0
    /\ index = [u \in Users |-> EmptyRow]
    /\ skipped = {}
    /\ undone = {}
    /\ step = "idle"
    /\ floor = [s \in Schemas |-> 0]
    /\ after = 0
    /\ page = << >>
    /\ written = {}
    /\ skips = 0
    /\ repeats = 0
    /\ runs = 0

-------------------------------------------------------------------------------
(* The writers.                                                              *)

Happened(u, kind) == \E e \in Logged : e.user = u /\ e.kind = kind

Alive(u) == Happened(u, "user.created") /\ ~Happened(u, "user.deleted")

Possible(u, kind) ==
    CASE kind = "user.created"    -> ~Happened(u, kind)
      [] kind = "profile.updated" -> TRUE
      [] kind = "user.roles_set"  -> Happened(u, "user.created")
      [] OTHER                    -> Alive(u)

\* The row is locked for the rest of the transaction: one writer per user and
\* schema.
Insert(u, kind) ==
    LET s == SchemaOf(kind)
    IN  /\ serial[s] < MaxSeq(s)
        /\ Possible(u, kind)
        /\ \A e \in inflight : ~(e.user = u /\ SchemaOf(e.kind) = s)
        /\ serial' = [serial EXCEPT ![s] = @ + 1]
        /\ inflight' = inflight \cup {[kind |-> kind, user |-> u, seq |-> serial[s] + 1]}
        /\ UNCHANGED <<log, pos, index, losses, cli, bounds>>

Commit ==
    \E e \in inflight :
        /\ inflight' = inflight \ {e}
        /\ log' = Append(log, e)
        /\ UNCHANGED <<serial, pos, index, losses, cli, bounds>>

\* The newest committed event of u that wrote column c: what a select of the
\* column returns.
Current(u, c) ==
    Newest({e.seq : e \in {d \in Logged : d.user = u /\ c \in Writes[d.kind]}})

-------------------------------------------------------------------------------
(* The projector.                                                            *)

Handle(e) ==
    /\ index' = [index EXCEPT ![e.user] = Apply(@, e)]
    /\ IF WatermarkApplies(e, index[e.user])
       THEN skipped' = skipped \ {e} /\ undone' = undone \ {e}
       ELSE UNCHANGED losses

Project ==
    /\ pos < Len(log)
    /\ Handle(log[pos + 1])
    /\ pos' = pos + 1
    /\ UNCHANGED <<source, cli, bounds>>

ProjectAgain ==
    /\ repeats < MaxRepeats
    /\ \E i \in 1..pos : Handle(log[i])
    /\ repeats' = repeats + 1
    /\ UNCHANGED <<source, pos, cli, skips, runs>>

\* The attempts are used up: a gap for the rebuild to close.
Skip ==
    /\ pos < Len(log)
    /\ skips < MaxSkips
    /\ LET e == log[pos + 1]
       IN  skipped' = IF WatermarkApplies(e, index[e.user]) THEN skipped \cup {e} ELSE skipped
    /\ pos' = pos + 1
    /\ skips' = skips + 1
    /\ UNCHANGED <<source, index, undone, cli, repeats, runs>>

-------------------------------------------------------------------------------
(* The rebuild.                                                              *)

Committed(s) == {e.seq : e \in {d \in Logged : SchemaOf(d.kind) = s}}

\* Mutant: a bare select max(id), without the table lock.
ReadWatermarkUnlocked(s) ==
    floor' = [floor EXCEPT ![s] = Newest(Committed(s))]

\* lock table outbox in exclusive mode waits for every insert in flight.
ReadWatermark(s) ==
    /\ \A e \in inflight : SchemaOf(e.kind) # s
    /\ floor' = [floor EXCEPT ![s] = Newest(Committed(s))]

ReadFloorIdm ==
    /\ step \in {"idle", "done"}
    /\ runs < MaxRuns
    /\ ReadWatermark("idm")
    /\ step' = "floor_app"
    /\ after' = 0
    /\ page' = << >>
    /\ written' = {}
    /\ runs' = runs + 1
    /\ UNCHANGED <<source, pos, index, losses, skips, repeats>>

ReadFloorApp ==
    /\ step = "floor_app"
    /\ ReadWatermark("app")
    /\ step' = "page"
    /\ UNCHANGED <<source, pos, index, losses, after, page, written, bounds>>

Birth(u) == (CHOOSE e \in Logged : e.kind = "user.created" /\ e.user = u).seq

\* Live users behind the cursor in created_at order, the order of their births;
\* the id was drawn before the transaction and need not agree with it.
Listings ==
    LET users == {u \in Users : Alive(u) /\ u > after}
    IN  {q \in [1..Cardinality(users) -> users] :
            \A i, j \in 1..Cardinality(users) : i < j => Birth(q[i]) < Birth(q[j])}

FirstOf(seq, n) == SubSeq(seq, 1, IF Len(seq) < n THEN Len(seq) ELSE n)

\* UserRepo::list: one statement, one snapshot.  A page that is not the last
\* leaves its last id as cursor.
ReadPage ==
    /\ step = "page"
    /\ \E listing \in Listings :
        LET users == FirstOf(listing, PageLimit)
        IN  IF users = << >>
            THEN /\ step' = "done"
                 /\ UNCHANGED <<after, page>>
            ELSE /\ step' = "names"
                 /\ after' = IF Len(listing) > PageLimit THEN users[Len(users)] ELSE 0
                 /\ page' = [i \in 1..Len(users) |->
                     [user |-> users[i],
                      cols |-> [c \in Columns |->
                         IF c = "display_name" THEN 0 ELSE Current(users[i], c)]]]
    /\ UNCHANGED <<source, pos, index, losses, floor, written, bounds>>

\* DisplayNameSource::display_names_by_ids, a later snapshot of another schema.
ReadNames ==
    /\ step = "names"
    /\ page' = [i \in 1..Len(page) |->
        [page[i] EXCEPT !.cols["display_name"] = Current(page[i].user, "display_name")]]
    /\ step' = "upsert"
    /\ UNCHANGED <<source, pos, index, losses, floor, after, written, bounds>>

\* rebuild_upsert: every column, no watermark guard.
RebuiltRow(cols) == [cols |-> cols, deleted |-> FALSE, seq |-> floor]

\* Mutant: the snapshot goes through the guard of the event upserts.
RebuiltRowGuarded(u, cols) ==
    IF \E s \in Schemas : index[u].seq[s] < floor[s] THEN RebuiltRow(cols) ELSE index[u]

\* Mutants: one row too many; only the first page.
AfterUpsertOffByOne ==
    IF Len(page) >= 1 THEN "upsert" ELSE IF after = 0 THEN "done" ELSE "page"

AfterUpsertOnePage ==
    IF Len(page) > 1 THEN "upsert" ELSE "done"

AfterUpsert ==
    IF Len(page) > 1 THEN "upsert" ELSE IF after = 0 THEN "done" ELSE "page"

\* History: the snapshot holds every event of u up to the floor, and may lack
\* the later ones the projector has already handled.
Reconcile(u) ==
    LET Above(e) == e.user = u /\ e.seq > floor[SchemaOf(e.kind)]
    IN  /\ skipped' = {e \in skipped : e.user # u \/ Above(e)}
        /\ undone' = {e \in undone : e.user # u}
                        \cup {e \in {log[i] : i \in 1..pos} : Above(e)}

UpsertGuarded ==
    /\ step = "upsert"
    /\ LET u == page[1].user
       IN  /\ index' = [index EXCEPT ![u] = RebuiltRowGuarded(u, page[1].cols)]
           /\ Reconcile(u)
           /\ written' = written \cup {u}
    /\ page' = Tail(page)
    /\ step' = AfterUpsert
    /\ UNCHANGED <<source, pos, floor, after, bounds>>

Upsert ==
    /\ step = "upsert"
    /\ LET u == page[1].user
       IN  /\ index' = [index EXCEPT ![u] = RebuiltRow(page[1].cols)]
           /\ Reconcile(u)
           /\ written' = written \cup {u}
    /\ page' = Tail(page)
    /\ step' = AfterUpsert
    /\ UNCHANGED <<source, pos, floor, after, bounds>>

\* An error of any read or write, the lock timeout, or a crash: the rows
\* written so far stay.
Abort ==
    /\ step \notin {"idle", "done"}
    /\ step' = "idle"
    /\ page' = << >>
    /\ UNCHANGED <<source, pos, index, losses, floor, after, written, bounds>>

-------------------------------------------------------------------------------
Next ==
    \/ \E u \in Users : \E kind \in Written : Insert(u, kind)
    \/ Commit
    \/ Project \/ ProjectAgain \/ Skip
    \/ ReadFloorIdm \/ ReadFloorApp \/ ReadPage \/ ReadNames \/ Upsert \/ Abort

Spec == Init /\ [][Next]_vars

-------------------------------------------------------------------------------
TypeOK ==
    /\ serial \in [Schemas -> Nat] /\ \A s \in Schemas : serial[s] <= MaxSeq(s)
    /\ inflight \subseteq Events
    /\ log \in Seq(Events)
    /\ pos \in 0..Len(log)
    /\ index \in [Users -> Rows]
    /\ skipped \subseteq Events
    /\ undone \subseteq Events
    /\ step \in Steps
    /\ floor \in [Schemas -> Nat] /\ \A s \in Schemas : floor[s] <= serial[s]
    /\ after \in Users \cup {0}
    /\ page \in Seq([user : Users, cols : [Columns -> Nat]])
    /\ page # << >> <=> step \in {"names", "upsert"}
    /\ written \subseteq Users
    /\ skips \in 0..MaxSkips /\ repeats \in 0..MaxRepeats /\ runs \in 0..MaxRuns

\* A watermark claims nothing it does not have: every committed event at or
\* below the row's watermark is in the row or superseded there, unless the
\* projector reported it as given up, or projected it before a rebuild wrote its
\* older snapshot over it.  Or the guard would drop the missing event for good
\* (read_outbox_watermark: P is a true lower bound).
WatermarkHonest ==
    \A e \in Logged \ (skipped \cup undone) :
        e.seq <= index[e.user].seq[SchemaOf(e.kind)] =>
            /\ \A c \in Writes[e.kind] : e.seq <= index[e.user].cols[c]
            /\ e.kind = "user.deleted" => index[e.user].deleted

Quiet == \A e \in Logged : e.seq <= floor[SchemaOf(e.kind)]

\* Drift recovery: with nothing committed since the watermarks were read, every
\* row a finished rebuild wrote is the user's current state, whatever the
\* projector had skipped and however far it lags.
RebuildHeals ==
    step = "done" /\ Quiet =>
        \A u \in written :
            /\ \A c \in Columns : index[u].cols[c] = Current(u, c)
            /\ ~index[u].deleted

\* A quiet rebuild writes every live user, unless created_at disagrees with the
\* order of the ids, the only way the keyset pages can skip one (rebuild.rs on
\* `id > after` with ORDER BY created_at).
PagesComplete ==
    step = "done" /\ Quiet =>
        \/ \A u \in Users : Alive(u) => u \in written
        \/ \E u, v \in Users :
            Alive(u) /\ Alive(v) /\ u < v /\ Birth(u) > Birth(v)

\* Between two runs nothing is lost: once the projector has handled everything
\* and no rebuild is running, a row misses no event but those given up.
ConvergesWithoutLoss ==
    (step \in {"idle", "done"} /\ pos = Len(log) /\ skipped = {}) =>
        \A u \in Users :
            /\ \A c \in Columns : index[u].cols[c] = Current(u, c)
            /\ index[u].deleted <=> Happened(u, "user.deleted")
===============================================================================
