-------------------------------- MODULE Widget --------------------------------
(***************************************************************************)
(* The widgets (src/features/widget): the table, the gates of the endpoints,   *)
(* the change events on the bus with their SSE streams, and the paged lists.    *)
(*                                                                         *)
(* Writers await the ownership check, the read before a delete, the write and   *)
(* the publication, each of which is a step; they can be dropped at any await.   *)
(* A client pages through a list while they work.  Ids are v7: drawn in order   *)
(* by the handlers, visible when inserted.                                    *)
(***************************************************************************)
EXTENDS Naturals, Sequences, FiniteSets, Authz

CONSTANTS
    Grants,         \* the rows [role, perm] of the policy
    Tokens,         \* records [user, roles, scope]
    Seeded,         \* the rows at the start, by id
    Names,          \* names, in the order of COLLATE "C"
    Handlers,
    Clients,        \* each has a stream open or pages through a list
    Capacity,       \* frames a bus keeps for a stream
    PageSize,
    MaxAccepted     \* bound: writing requests

ASSUME WidgetAssumption ==
    /\ Names \subseteq Nat
    /\ Capacity \in Nat \ {0} /\ PageSize \in Nat \ {0} /\ MaxAccepted \in Nat
    /\ IsFiniteSet(DOMAIN Seeded)
    /\ Seeded \in [1..Cardinality(DOMAIN Seeded) ->
        [name : Names, owner : {Seeded[i].owner : i \in DOMAIN Seeded},
         born : DOMAIN Seeded, deleted : BOOLEAN]]
    /\ \A i, j \in DOMAIN Seeded :
        (Seeded[i].name = Seeded[j].name /\ ~Seeded[i].deleted /\ ~Seeded[j].deleted) => i = j

VARIABLES
    rows,       \* the table: a function of the ids inserted so far
    nextId,     \* the next v7 id
    req,        \* req[h]: the write handler h serves
    accepted,
    stream,     \* stream[c]: an open SSE stream: its access and what the bus holds for it
    seen,       \* seen[c]: the frames it has sent to the client
    walk,       \* walk[c]: the list client c pages through, its page being the next one
    past        \* history: the names each row has had

bus == <<stream, seen>>
vars == <<rows, nextId, req, accepted, bus, walk, past>>

Policy == FromRoles(Grants)

May(t, p) == RequireScoped(Policy, t.roles, t.scope, p)

\* Whose rows t reaches when p is the permission for everybody's.
Access(t, p) == DataAccess(Policy, t.user, t.roles, t.scope, p)

All == [all |-> TRUE]

Own(t) == [all |-> FALSE, me |-> t.user]

Alive == {i \in DOMAIN rows : ~rows[i].deleted}

Idle == [phase |-> "idle"]

Closed == [open |-> FALSE]

Init ==
    /\ rows = Seeded
    /\ nextId = Cardinality(DOMAIN Seeded) + 1
    /\ req = [h \in Handlers |-> Idle]
    /\ accepted = 0
    /\ stream = [s \in Clients |-> Closed]
    /\ seen = [s \in Clients |-> << >>]
    /\ walk = [c \in Clients |-> Idle]
    /\ past = {[id |-> i, name |-> Seeded[i].name] : i \in DOMAIN Seeded}

-------------------------------------------------------------------------------
(* Writing.                                                                  *)

At(h, phase) == req[h].phase = phase

Finish(h) == req' = [req EXCEPT ![h] = Idle]

Accept ==
    /\ accepted < MaxAccepted
    /\ accepted' = accepted + 1

\* The id is drawn before the insert is sent.
ReceiveCreate(h, t, name) ==
    /\ At(h, "idle") /\ Accept
    /\ May(t, "widgets:write")
    /\ req' = [req EXCEPT ![h] =
        [phase |-> "write", op |-> "created", token |-> t, id |-> nextId, name |-> name]]
    /\ nextId' = nextId + 1
    /\ UNCHANGED <<rows, bus, walk, past>>

ReceiveUpdate(h, t, i, name) ==
    /\ At(h, "idle") /\ Accept
    /\ May(t, "widgets:write")
    /\ req' = [req EXCEPT ![h] =
        [phase |-> "guard", op |-> "updated", token |-> t, id |-> i, name |-> name]]
    /\ UNCHANGED <<rows, nextId, bus, walk, past>>

ReceiveDelete(h, t, i) ==
    /\ At(h, "idle") /\ Accept
    /\ May(t, "widgets:delete")
    /\ req' = [req EXCEPT ![h] = [phase |-> "guard", op |-> "deleted", token |-> t, id |-> i]]
    /\ UNCHANGED <<rows, nextId, bus, walk, past>>

\* ensure_may_write; 404 for what is gone or somebody else's.
MayChange(t, i) ==
    /\ i \in Alive
    /\ Allows(Access(t, "widgets:write:all"), rows[i].owner)

Guard(h) ==
    /\ At(h, "guard")
    /\ req' = [req EXCEPT ![h] =
        IF ~MayChange(req[h].token, req[h].id) THEN Idle
        ELSE [req[h] EXCEPT !.phase = IF req[h].op = "deleted" THEN "read" ELSE "write"]]
    /\ UNCHANGED <<rows, nextId, accepted, bus, walk, past>>

\* History of the walks: which rows have stayed as they were, and whether all have.
Disturbed(i, owner) ==
    [c \in Clients |->
        IF walk[c] = Idle THEN Idle
        ELSE [walk[c] EXCEPT !.steady = @ \ {i},
                             !.quiet = @ /\ ~Allows(walk[c].filter, owner)]]

Store(i, row) ==
    /\ rows' = [j \in DOMAIN rows \cup {i} |-> IF j = i THEN row ELSE rows[j]]
    /\ walk' = Disturbed(i, row.owner)
    /\ past' = past \cup {[id |-> i, name |-> row.name]}

\* The event of a write, with the owner the streams are filtered by.
Announce(h, row) ==
    req' = [req EXCEPT ![h] =
        [phase |-> "publish", token |-> req[h].token,
         frame |-> [type |-> req[h].op, id |-> req[h].id, name |-> row.name, owner |-> row.owner]]]

\* Mutant: the event goes out before the write is known to be good.
OutcomeAnnounced(h, refused, row) ==
    /\ Announce(h, row)
    /\ IF refused THEN UNCHANGED <<rows, walk, past>> ELSE Store(req[h].id, row)

\* The end of a write: 404 or 409, or the row is there and its event goes out.
Outcome(h, refused, row) ==
    IF refused
    THEN Finish(h) /\ UNCHANGED <<rows, walk, past>>
    ELSE Store(req[h].id, row) /\ Announce(h, row)

\* Mutant: a renamed row is not compared with the others.
TakenByNew(name, i) == i \notin DOMAIN rows /\ \E j \in Alive : rows[j].name = name

\* unique (name) where deleted_at is null
Taken(name, i) == \E j \in Alive \ {i} : rows[j].name = name

Create(h) ==
    /\ At(h, "write") /\ req[h].op = "created"
    /\ Outcome(h, Taken(req[h].name, req[h].id),
        [name |-> req[h].name, owner |-> req[h].token.user,
         born |-> Cardinality(DOMAIN rows) + 1, deleted |-> FALSE])
    /\ UNCHANGED <<nextId, accepted, bus>>

Update(h) ==
    LET i == req[h].id
    IN  /\ At(h, "write") /\ req[h].op = "updated"
        /\ Outcome(h, i \notin Alive \/ Taken(req[h].name, i), [rows[i] EXCEPT !.name = req[h].name])
        /\ UNCHANGED <<nextId, accepted, bus>>

\* The owner for the frame; after the delete the row can no longer be read.
ReadOwner(h) ==
    /\ At(h, "read")
    /\ req' = [req EXCEPT ![h] = IF req[h].id \in Alive THEN [req[h] EXCEPT !.phase = "write"] ELSE Idle]
    /\ UNCHANGED <<rows, nextId, accepted, bus, walk, past>>

Delete(h) ==
    LET i == req[h].id
    IN  /\ At(h, "write") /\ req[h].op = "deleted"
        /\ Outcome(h, i \notin Alive, [rows[i] EXCEPT !.deleted = TRUE])
        /\ UNCHANGED <<nextId, accepted, bus>>

\* Timeout, client gone, an error of the database: nothing more happens.
Abort(h) ==
    /\ ~At(h, "idle")
    /\ Finish(h)
    /\ UNCHANGED <<rows, nextId, accepted, bus, walk, past>>

-------------------------------------------------------------------------------
(* The bus and the SSE streams: no replay, and the oldest frames of a stream     *)
(* that lags are skipped.                                                     *)

Kept(queue) == IF Len(queue) > Capacity THEN Tail(queue) ELSE queue

\* Fire and forget: the streams it reaches, all of them or fewer.
Publish(h) ==
    /\ At(h, "publish")
    /\ \E reached \in SUBSET {s \in Clients : stream[s].open} :
        stream' = [s \in Clients |->
            IF s \in reached
            THEN [stream[s] EXCEPT !.queue = Kept(Append(@, req[h].frame))]
            ELSE stream[s]]
    /\ Finish(h)
    /\ UNCHANGED <<rows, nextId, accepted, seen, walk, past>>

\* The access is computed once, when the stream opens.
Subscribe(s, t) ==
    /\ ~stream[s].open /\ walk[s] = Idle
    /\ May(t, "widgets:read")
    /\ stream' = [stream EXCEPT ![s] =
        [open |-> TRUE, token |-> t, access |-> Access(t, "widgets:read:all"), queue |-> << >>]]
    /\ UNCHANGED <<rows, nextId, req, accepted, seen, walk, past>>

\* Frame by frame; what the access does not allow is skipped.
Send(s) ==
    /\ stream[s].open
    /\ stream[s].queue # << >>
    /\ stream' = [stream EXCEPT ![s].queue = Tail(@)]
    /\ LET frame == Head(stream[s].queue)
       IN  seen' = IF Allows(stream[s].access, frame.owner)
                   THEN [seen EXCEPT ![s] = Append(@, frame)]
                   ELSE seen
    /\ UNCHANGED <<rows, nextId, req, accepted, walk, past>>

\* The client leaves, or the bus closes; a reconnected client starts afresh.
EndStream(s) ==
    /\ stream[s].open
    /\ stream' = [stream EXCEPT ![s] = Closed]
    /\ seen' = [seen EXCEPT ![s] = << >>]
    /\ UNCHANGED <<rows, nextId, req, accepted, walk, past>>

-------------------------------------------------------------------------------
(* Lists, page by page.                                                      *)

Lists == {"list", "admin_list"}
Counts == {"stats", "my_count", "purge_preview", "overview"}

\* Who may read which list or count, and whose rows it takes: a count of
\* everybody's rows is public, or takes one of two permissions.
Gate(endpoint, t) ==
    CASE endpoint = "list"          -> May(t, "widgets:read")
      [] endpoint = "admin_list"    -> EntersAdmin(Policy, t.roles, t.scope) /\ May(t, "users:admin")
      [] endpoint = "purge_preview" ->
            RequireAll(Policy, t.roles, t.scope, {"widgets:read", "widgets:delete"})
      [] endpoint = "overview"      ->
            RequireAny(Policy, t.roles, t.scope, {"widgets:read", "users:admin"})
      [] OTHER                      -> TRUE

\* Mutant: the list without the owner in its query.
FilterAll(endpoint, t) == IF endpoint \in {"my_count", "purge_preview"} THEN Own(t) ELSE All

Filter(endpoint, t) ==
    CASE endpoint = "list"                          -> Access(t, "widgets:read:all")
      [] endpoint \in {"my_count", "purge_preview"} -> Own(t)
      [] OTHER                                      -> All

Listed(filter) == {i \in Alive : Allows(filter, rows[i].owner)}

\* The key of the order: v7 ids stand for the creation time in cursor pages.
Key(w, i) ==
    <<IF w.sort = "name" THEN rows[i].name
      ELSE IF w.mode = "cursor" THEN i ELSE rows[i].born, i>>

Less(k, l) == k[1] < l[1] \/ (k[1] = l[1] /\ k[2] < l[2])

Precedes(w, k, l) == IF w.order = "asc" THEN Less(k, l) ELSE Less(l, k)

\* How many of the rows S come before i in the order of w.
Place(w, S, i) == Cardinality({j \in S : Precedes(w, Key(w, j), Key(w, i))})

\* One page of the rows S in order, behind the first k.
Slice(w, S, k) == {i \in S : k <= Place(w, S, i) /\ Place(w, S, i) < k + PageSize}

On(c, phase) == walk[c].phase = phase

\* GET with the first page of a cursor, or with page=1; a count is a page whose
\* rows are thrown away.
Start(c, t, endpoint, mode, sort, order) ==
    /\ On(c, "idle") /\ ~stream[c].open
    /\ Gate(endpoint, t)
    /\ walk' = [walk EXCEPT ![c] =
        [phase |-> "page", token |-> t, mode |-> mode, sort |-> sort, order |-> order,
         filter |-> Filter(endpoint, t), anchor |-> <<0, 0>>, page |-> 1, got |-> {},
         total |-> 0, steady |-> Listed(Filter(endpoint, t)), quiet |-> TRUE, drift |-> FALSE]]
    /\ UNCHANGED <<rows, nextId, req, accepted, bus, past>>

\* Mutant: order by the key, but a predicate on the id.
BehindById(w, S) ==
    IF w.page = 1 THEN S ELSE {i \in S : Precedes(w, <<w.anchor[2], w.anchor[2]>>, <<i, i>>)}

\* Strictly behind the anchor, in the same order; the first page has none.
Behind(w, S) ==
    IF w.page = 1 THEN S ELSE {i \in S : Precedes(w, w.anchor, Key(w, i))}

\* The views of a page; an owner who is no user is left out of his, not the row.
Views(w, ids) == {[page |-> w.page, id |-> i] : i \in ids}

\* One row more than the page tells whether there is a next cursor, the id of
\* the last row.
CursorPage(c) ==
    LET w == walk[c]
        rest == Behind(w, Listed(w.filter))
        more == Cardinality(rest) > PageSize
        last == CHOOSE i \in rest : Place(w, rest, i) = PageSize - 1
    IN  /\ On(c, "page") /\ w.mode = "cursor"
        /\ walk' = [walk EXCEPT
                ![c].got = @ \cup Views(w, Slice(w, rest, 0)),
                ![c].anchor = IF more THEN Key(w, last) ELSE @,
                ![c].page = @ + 1,
                ![c].phase = CASE ~more                      -> "done"
                               [] more /\ w.sort = "name" -> "anchor"
                               [] OTHER                      -> "page"]
        /\ UNCHANGED <<rows, nextId, req, accepted, bus, past>>

\* By name the key is read from the anchor's row, deleted or not, when the next
\* page is asked for: it may be another one by then.
ReadAnchor(c) ==
    LET key == Key(walk[c], walk[c].anchor[2])
    IN  /\ On(c, "anchor")
        /\ walk' = [walk EXCEPT ![c].anchor = key,
                                ![c].drift = @ \/ key # walk[c].anchor,
                                ![c].phase = "page"]
        /\ UNCHANGED <<rows, nextId, req, accepted, bus, past>>

\* offset (page - 1) * size, and the total in a statement of its own.
OffsetPage(c) ==
    LET w == walk[c]
        items == Slice(w, Listed(w.filter), (w.page - 1) * PageSize)
    IN  /\ On(c, "page") /\ w.mode # "cursor"
        /\ walk' = [walk EXCEPT
                ![c].got = IF w.mode = "count" THEN @ ELSE @ \cup Views(w, items),
                ![c].phase = "total"]
        /\ UNCHANGED <<rows, nextId, req, accepted, bus, past>>

\* total_pages rounds up.
TotalPages(n) == (n + PageSize - 1) \div PageSize

Total(c) ==
    LET total == Cardinality(Listed(walk[c].filter))
    IN  /\ On(c, "total")
        /\ walk' = [walk EXCEPT
                ![c].total = total,
                ![c].page = @ + 1,
                ![c].phase = IF walk[c].mode = "count" \/ walk[c].page >= TotalPages(total)
                             THEN "done" ELSE "page"]
        /\ UNCHANGED <<rows, nextId, req, accepted, bus, past>>

\* The client has what it wants, or goes away.
EndWalk(c) ==
    /\ ~On(c, "idle")
    /\ walk' = [walk EXCEPT ![c] = Idle]
    /\ UNCHANGED <<rows, nextId, req, accepted, bus, past>>

-------------------------------------------------------------------------------
Walking(c) ==
    \/ \E t \in Tokens :
        \/ \E endpoint \in Lists, mode \in {"cursor", "offset"},
              sort \in {"created_at", "name"}, order \in {"asc", "desc"} :
            Start(c, t, endpoint, mode, sort, order)
        \/ \E endpoint \in Counts : Start(c, t, endpoint, "count", "created_at", "desc")
    \/ CursorPage(c) \/ ReadAnchor(c) \/ OffsetPage(c) \/ Total(c)
    \/ EndWalk(c)

Writing(h) ==
    \/ \E t \in Tokens :
        \/ \E name \in Names : ReceiveCreate(h, t, name)
        \/ \E i \in DOMAIN rows :
            \/ \E name \in Names : ReceiveUpdate(h, t, i, name)
            \/ ReceiveDelete(h, t, i)
    \/ Guard(h) \/ ReadOwner(h)
    \/ Create(h) \/ Update(h) \/ Delete(h)
    \/ Publish(h)
    \/ Abort(h)

Next ==
    \/ \E h \in Handlers : Writing(h)
    \/ \E c \in Clients :
        \/ \E t \in Tokens : Subscribe(c, t)
        \/ Send(c) \/ EndStream(c)
        \/ Walking(c)

Spec == Init /\ [][Next]_vars

-------------------------------------------------------------------------------
Owners == {t.user : t \in Tokens} \cup {Seeded[i].owner : i \in DOMAIN Seeded}

Ids == 1..(nextId - 1)

Frames == [type : {"created", "updated", "deleted"}, id : Ids, name : Names, owner : Owners]

Accesses == {All} \cup [all : {FALSE}, me : Owners]

Requests ==
    [phase : {"guard", "write"}, op : {"updated"}, token : Tokens, id : Ids, name : Names]
    \cup [phase : {"write"}, op : {"created"}, token : Tokens, id : Ids, name : Names]
    \cup [phase : {"guard", "read", "write"}, op : {"deleted"}, token : Tokens, id : Ids]
    \cup [phase : {"publish"}, token : Tokens, frame : Frames]

Streams == [open : {TRUE}, token : Tokens, access : Accesses, queue : Seq(Frames)]

Walks ==
    [phase : {"page", "anchor", "total", "done"}, token : Tokens, mode : {"cursor", "offset", "count"},
     sort : {"created_at", "name"}, order : {"asc", "desc"}, filter : Accesses,
     anchor : Nat \X Nat, page : Nat \ {0}, got : SUBSET [page : Nat \ {0}, id : DOMAIN rows],
     total : Nat, steady : SUBSET Alive, quiet : BOOLEAN, drift : BOOLEAN]

\* Types; a row is inserted under an id that was drawn, and live names are unique.
TypeOK ==
    /\ nextId \in Nat \ {0}
    /\ DOMAIN rows \subseteq Ids
    /\ rows \in [DOMAIN rows -> [name : Names, owner : Owners, born : Ids, deleted : BOOLEAN]]
    /\ \A i, j \in Alive : rows[i].name = rows[j].name => i = j
    /\ req \in [Handlers -> Requests \cup {Idle}]
    /\ accepted \in 0..MaxAccepted
    /\ stream \in [Clients -> Streams \cup {Closed}]
    /\ \A s \in Clients : stream[s].open => Len(stream[s].queue) <= Capacity
    /\ seen \in [Clients -> Seq(Frames)]
    /\ walk \in [Clients -> Walks \cup {Idle}]
    /\ past \subseteq [id : DOMAIN rows, name : Names]

\* "events are right because the service publishes after a successful write"
\* (events.rs): a stream shows no name a row has never had and no deletion of a
\* live row, and creates and deletes each row at most once.  Frames of one row
\* may come out of order, late or not at all.
FramesTruthful ==
    \A s \in Clients : \A m, n \in 1..Len(seen[s]) :
        LET f == seen[s][m]
            g == seen[s][n]
        IN  /\ [id |-> f.id, name |-> f.name] \in past
            /\ f.type = "deleted" => rows[f.id].deleted
            /\ (f.type = g.type /\ f.id = g.id /\ f.type # "updated") => m = n

\* The row is the user's own, or the token holds the permission for everybody's.
Reaches(t, p, owner) == owner = t.user \/ May(t, p)

\* Three doors with three pieces of code have the same reach: nobody's change
\* gets through, nobody is sent a frame and nobody lists a row that is somebody
\* else's unless the token holds the permission for everybody's; or, for a list,
\* lets him into the one of the back office, which shows everybody's rows.
SameReach ==
    /\ \A h \in Handlers : At(h, "publish") =>
        Reaches(req[h].token, "widgets:write:all", rows[req[h].frame.id].owner)
    /\ \A s \in Clients : \A n \in 1..Len(seen[s]) :
        Reaches(stream[s].token, "widgets:read:all", rows[seen[s][n].id].owner)
    /\ \A c \in Clients : walk[c] # Idle => \A d \in walk[c].got :
        \/ Reaches(walk[c].token, "widgets:read:all", rows[d.id].owner)
        \/ Gate("admin_list", walk[c].token)

\* The pages that showed row i to the walk w.
PagesOf(w, i) == {d.page : d \in {e \in w.got : e.id = i}}

Once(w, i) == \E n \in PagesOf(w, i) : PagesOf(w, i) = {n}

\* A cursor is stable while others write (pagination.rs): at the end of the walk
\* each row that was there from the start and has not changed was delivered
\* exactly once, in either order, although rows appear, change and go (the
\* anchor itself too) between the pages; unless, ordered by name, an anchor was
\* renamed.  Numbered pages and counts are only right if nothing changed.
ScanComplete ==
    \A c \in Clients : On(c, "done") =>
        LET w == walk[c]
        IN  /\ (w.mode = "cursor" /\ ~w.drift) => \A i \in w.steady : Once(w, i)
            /\ (w.mode = "offset" /\ w.quiet) =>
                /\ \A i \in w.steady : Once(w, i)
                /\ Cardinality(w.got) = w.total
            /\ (w.mode = "count" /\ w.quiet) => w.total = Cardinality(w.steady)
===============================================================================
