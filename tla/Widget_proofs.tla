---------------------------- MODULE Widget_proofs ----------------------------
(***************************************************************************)
(* Proofs about Widget for every policy, every set of tokens, handlers and     *)
(* clients, every capacity of a bus, every page size and every number of rows.  *)
(***************************************************************************)
EXTENDS Widget, FiniteSetTheorems, FunctionTheorems, SequenceTheorems, TLAPS

-------------------------------------------------------------------------------
(* The inductive invariant.                                                 *)

\* The frames of a stream that wait to be sent.
Queue(s) == IF stream[s].open THEN stream[s].queue ELSE << >>

Creating(h) == At(h, "write") /\ req[h].op = "created"

Changing(h) == At(h, "read") \/ (At(h, "write") /\ req[h].op # "created")

\* An id that was drawn and is not in the table yet is in one hand; a row that
\* somebody is about to change is one he may change.
Pending ==
    \A h \in Handlers :
        /\ Creating(h) =>
            /\ req[h].id \notin DOMAIN rows
            /\ \A g \in Handlers : (Creating(g) /\ req[g].id = req[h].id) => g = h
        /\ Changing(h) =>
            /\ req[h].id \in DOMAIN rows
            /\ Allows(Access(req[h].token, "widgets:write:all"), rows[req[h].id].owner)

\* What a frame says of its row stays true: names are remembered, owners never
\* change and a deleted row never comes back.
Truthful(f) ==
    /\ f.id \in DOMAIN rows
    /\ f.owner = rows[f.id].owner
    /\ [id |-> f.id, name |-> f.name] \in past
    /\ f.type = "deleted" => rows[f.id].deleted

AllTruthful(q) == \A n \in 1..Len(q) : Truthful(q[n])

StreamTrue(s) ==
    /\ AllTruthful(seen[s]) /\ AllTruthful(Queue(s))
    /\ ~stream[s].open => seen[s] = << >>
    /\ stream[s].open =>
        /\ stream[s].access = Access(stream[s].token, "widgets:read:all")
        /\ \A n \in 1..Len(seen[s]) : Allows(stream[s].access, seen[s][n].owner)

FramesTrue ==
    /\ \A h \in Handlers : At(h, "publish") =>
        /\ Truthful(req[h].frame)
        /\ Allows(Access(req[h].token, "widgets:write:all"), req[h].frame.owner)
    /\ \A s \in Clients : StreamTrue(s)

\* Two frames of the creation, or of the deletion, of one row.
Same(f, g) == f.type = g.type /\ f.id = g.id /\ f.type # "updated"

Distinct(q) == \A m, n \in 1..Len(q) : Same(q[m], q[n]) => m = n

Apart(q, f) == \A n \in 1..Len(q) : ~Same(q[n], f)

\* Of those there is one at most among what a stream has sent, what waits in it
\* and what is still to be published.
StreamOnce(s) ==
    /\ Distinct(seen[s]) /\ Distinct(Queue(s))
    /\ \A n \in 1..Len(Queue(s)) : Apart(seen[s], Queue(s)[n])
    /\ \A h \in Handlers : At(h, "publish") =>
        Apart(seen[s], req[h].frame) /\ Apart(Queue(s), req[h].frame)

FramesOnce ==
    /\ \A s \in Clients : StreamOnce(s)
    /\ \A g, h \in Handlers :
        (At(g, "publish") /\ At(h, "publish") /\ Same(req[g].frame, req[h].frame)) => g = h

\* How many pages a walk has been shown.
Shown(w) == IF w.phase = "total" THEN w.page ELSE w.page - 1

Started(w) ==
    /\ w.steady \subseteq Listed(w.filter)
    /\ \A d \in w.got : d.page <= Shown(w) /\ Allows(w.filter, rows[d.id].owner)

\* A steady row is still to come when it is behind the anchor, and was shown once
\* when it is not.
ByCursor(w) ==
    w.mode = "cursor" =>
        /\ w.phase # "total"
        /\ w.page = 1 => w.phase = "page"
        /\ w.phase = "anchor" => w.anchor[2] \in DOMAIN rows
        /\ ~w.drift => \A i \in w.steady :
            IF w.phase # "done" /\ i \in Behind(w, w.steady) THEN PagesOf(w, i) = {} ELSE Once(w, i)

\* While nothing is written, the rows of the pages shown are the first ones.
ByPage(w) ==
    w.mode # "cursor" =>
        /\ w.phase # "anchor"
        /\ w.quiet =>
            /\ w.steady = Listed(w.filter)
            /\ w.phase = "done" =>
                /\ w.total = Cardinality(w.steady)
                /\ w.mode = "offset" => TotalPages(w.total) <= Shown(w)
            /\ w.mode = "offset" =>
                /\ \A d \in w.got : d.id \in w.steady
                /\ \A i \in w.steady :
                    IF Place(w, w.steady, i) < Shown(w) * PageSize THEN Once(w, i) ELSE PagesOf(w, i) = {}

Paging ==
    \A c \in Clients : \A w \in {walk[c]} \ {Idle} : Started(w) /\ ByCursor(w) /\ ByPage(w)

\* A list takes the rows its token reaches, unless it is the one of the back
\* office; a count gives no rows.
Entitled(w) ==
    IF w.mode = "count" THEN w.got = {}
    ELSE w.filter = Access(w.token, "widgets:read:all") \/ Gate("admin_list", w.token)

Entitlement == \A c \in Clients : \A w \in {walk[c]} \ {Idle} : Entitled(w)

IInv == TypeOK /\ Pending /\ FramesTrue /\ FramesOnce /\ Paging /\ Entitlement

-------------------------------------------------------------------------------
(* The order of a list.                                                     *)

\* Keys are compared in a strict order that is total when their ids differ.
LEMMA KeyOrder ==
    ASSUME NEW w, NEW k \in Nat \X Nat, NEW l \in Nat \X Nat, NEW m \in Nat \X Nat
    PROVE  /\ ~Precedes(w, k, k)
           /\ (Precedes(w, k, l) /\ Precedes(w, l, m)) => Precedes(w, k, m)
           /\ k[2] # l[2] => (Precedes(w, k, l) \/ Precedes(w, l, k))
<1>1. k[1] \in Nat /\ k[2] \in Nat /\ l[1] \in Nat /\ l[2] \in Nat /\ m[1] \in Nat /\ m[2] \in Nat
  OBVIOUS
<1>2. ~Less(k, k)
  BY <1>1 DEF Less
<1>3. (Less(k, l) /\ Less(l, m)) => Less(k, m)
  BY <1>1 DEF Less
<1>4. (Less(m, l) /\ Less(l, k)) => Less(m, k)
  BY <1>1 DEF Less
<1>5. k[2] # l[2] => (Less(k, l) \/ Less(l, k))
  BY <1>1 DEF Less
<1> QED
  BY <1>2, <1>3, <1>4, <1>5 DEF Precedes

\* The key of a row is a pair, and ends in its id.
LEMMA KeyType ==
    ASSUME TypeOK, NEW w, NEW i \in DOMAIN rows
    PROVE  Key(w, i) \in Nat \X Nat /\ Key(w, i)[2] = i
<1>1. i \in Nat
  BY DEF TypeOK, Ids
<1>2. rows[i].name \in Nat /\ rows[i].born \in Nat
  BY WidgetAssumption DEF TypeOK, Ids
<1> DEFINE first == IF w.sort = "name" THEN rows[i].name
                    ELSE IF w.mode = "cursor" THEN i ELSE rows[i].born
<1>3. first \in Nat
  BY <1>1, <1>2
<1>4. Key(w, i) = <<first, i>>
  BY DEF Key
<1> QED
  BY <1>1, <1>3, <1>4

\* There are finitely many rows, as many as ids drawn at most.
LEMMA RowsFinite ==
    ASSUME TypeOK
    PROVE  /\ IsFiniteSet(DOMAIN rows)
           /\ Cardinality(DOMAIN rows) \in 0..(nextId - 1)
<1>1. nextId \in Nat \ {0} /\ DOMAIN rows \subseteq 1..(nextId - 1)
  BY DEF TypeOK, Ids
<1>2. IsFiniteSet(1..(nextId - 1)) /\ Cardinality(1..(nextId - 1)) = nextId - 1
  BY <1>1, FS_Interval
<1>3. IsFiniteSet(DOMAIN rows) /\ Cardinality(DOMAIN rows) <= nextId - 1
  BY <1>1, <1>2, FS_Subset
<1> QED
  BY <1>3, <1>1, FS_CardinalityType

\* A row that comes before another has a lower place.
LEMMA PlaceRises ==
    ASSUME TypeOK, NEW w, NEW S \in SUBSET DOMAIN rows, NEW i \in S, NEW j \in S,
           Precedes(w, Key(w, i), Key(w, j))
    PROVE  Place(w, S, i) < Place(w, S, j)
<1> DEFINE Before(x) == {y \in S : Precedes(w, Key(w, y), Key(w, x))}
<1>1. IsFiniteSet(Before(j))
  BY RowsFinite, FS_Subset
<1>2. \A x \in S : Key(w, x) \in Nat \X Nat
  BY KeyType
<1>3. Before(i) \subseteq Before(j)
  BY <1>2, KeyOrder
<1>4. i \in Before(j) /\ i \notin Before(i)
  BY <1>2, KeyOrder
<1> HIDE DEF Before
<1>5. /\ IsFiniteSet(Before(i))
      /\ Cardinality(Before(i)) <= Cardinality(Before(j))
      /\ Cardinality(Before(i)) # Cardinality(Before(j))
  BY <1>1, <1>3, <1>4, FS_Subset
<1>6. Cardinality(Before(i)) \in Nat /\ Cardinality(Before(j)) \in Nat
  BY <1>1, <1>5, FS_CardinalityType
<1>7. Place(w, S, i) = Cardinality(Before(i)) /\ Place(w, S, j) = Cardinality(Before(j))
  BY DEF Place, Before
<1> QED
  BY <1>5, <1>6, <1>7

\* Every place is below the number of rows.
LEMMA PlaceBelow ==
    ASSUME TypeOK, NEW w, NEW S \in SUBSET DOMAIN rows, NEW i \in S
    PROVE  /\ IsFiniteSet(S) /\ Cardinality(S) \in Nat
           /\ Place(w, S, i) \in 0..(Cardinality(S) - 1)
<1> DEFINE Before == {y \in S : Precedes(w, Key(w, y), Key(w, i))}
<1>1. IsFiniteSet(S)
  BY RowsFinite, FS_Subset
<1>2. Key(w, i) \in Nat \X Nat
  BY KeyType
<1>3. i \notin Before /\ Before \subseteq S
  BY <1>2, KeyOrder
<1>4. Place(w, S, i) = Cardinality(Before)
  BY DEF Place
<1> HIDE DEF Before
<1>5. IsFiniteSet(Before) /\ Cardinality(Before) <= Cardinality(S) /\ Cardinality(Before) # Cardinality(S)
  BY <1>1, <1>3, FS_Subset
<1>6. Cardinality(Before) \in Nat /\ Cardinality(S) \in Nat
  BY <1>1, <1>5, FS_CardinalityType
<1> QED
  BY <1>1, <1>4, <1>5, <1>6

\* Every place is somebody's.
LEMMA PlaceTaken ==
    ASSUME TypeOK, NEW w, NEW S \in SUBSET DOMAIN rows, NEW k \in 0..(Cardinality(S) - 1)
    PROVE  \E i \in S : Place(w, S, i) = k
<1> DEFINE n == Cardinality(S)
           f == [i \in S |-> Place(w, S, i)]
<1>1. IsFiniteSet(S) /\ n \in Nat
  BY RowsFinite, FS_Subset, FS_CardinalityType
<1>2. IsFiniteSet(0..(n - 1)) /\ Cardinality(0..(n - 1)) = n
  BY <1>1, FS_Interval
<1>3. f \in [S -> 0..(n - 1)]
  BY PlaceBelow
<1>4. ASSUME NEW i \in S, NEW j \in S, i # j
      PROVE  f[i] # f[j]
  <2>1. /\ Key(w, i) \in Nat \X Nat /\ Key(w, i)[2] = i
        /\ Key(w, j) \in Nat \X Nat /\ Key(w, j)[2] = j
    BY KeyType
  <2>2. Precedes(w, Key(w, i), Key(w, j)) \/ Precedes(w, Key(w, j), Key(w, i))
    BY <2>1, <1>4, KeyOrder
  <2>3. Place(w, S, i) \in Nat /\ Place(w, S, j) \in Nat
    BY PlaceBelow
  <2> QED
    BY <2>2, <2>3, PlaceRises
<1>5. DOMAIN f = S
  OBVIOUS
<1> HIDE DEF f
<1>6. f \in Injection(S, 0..(n - 1))
  BY <1>3, <1>4, <1>5 DEF Injection, IsInjective
<1> HIDE DEF n
<1>7. f \in Surjection(S, 0..(n - 1))
  BY <1>1, <1>2, <1>6, FS_Injection DEF n
<1>8. PICK i \in S : f[i] = k
  BY <1>7 DEF Surjection, n
<1> QED
  BY <1>8 DEF f

-------------------------------------------------------------------------------
(* Types.                                                                   *)

\* What is the access of a token is an access.
LEMMA AccessType ==
    ASSUME NEW t \in Tokens
    PROVE  /\ \A p : Access(t, p) \in Accesses
           /\ Own(t) \in Accesses /\ All \in Accesses
           /\ \A endpoint : Filter(endpoint, t) \in Accesses
<1>1. t.user \in Owners
  BY DEF Owners
<1>2. \A p : Access(t, p) \in Accesses
  BY <1>1 DEF Access, DataAccess, Accesses, All
<1>3. Own(t) \in Accesses /\ All \in Accesses
  BY <1>1 DEF Own, Accesses
<1>4. ASSUME NEW endpoint PROVE Filter(endpoint, t) \in Accesses
  BY <1>2, <1>3 DEF Filter
<1> QED
  BY <1>2, <1>3, <1>4

\* The table after a row was inserted or replaced; the table as it was is the
\* other way a step can leave it.
Growing ==
    /\ \A i \in DOMAIN rows : /\ i \in DOMAIN rows'
                              /\ rows'[i].owner = rows[i].owner
                              /\ rows[i].deleted => rows'[i].deleted
    /\ past \subseteq past'
    /\ nextId' \in Nat /\ nextId <= nextId'

\* Ids, frames, requests and streams stay what they are.
LEMMA Widened ==
    ASSUME TypeOK, Growing
    PROVE  /\ Ids \subseteq Ids'
           /\ Frames \subseteq Frames'
           /\ Requests \subseteq Requests'
           /\ Streams \subseteq Streams'
           /\ Seq(Frames) \subseteq Seq(Frames')
<1>1. Ids \subseteq Ids'
  BY DEF TypeOK, Growing, Ids
<1>2. Frames \subseteq Frames'
  BY <1>1 DEF Frames
<1>3. Seq(Frames) \subseteq Seq(Frames')
  BY <1>2, SeqMonotonic
<1>4. Requests \subseteq Requests'
  BY <1>1, <1>2 DEF Requests
<1>5. Streams \subseteq Streams'
  BY <1>3 DEF Streams
<1> QED
  BY <1>1, <1>2, <1>3, <1>4, <1>5

\* A step of a handler that leaves the table, the streams and the walks alone.
LEMMA ReqTyped ==
    ASSUME TypeOK, NEW h \in Handlers, NEW r \in Requests' \cup {Idle},
           req' = [req EXCEPT ![h] = r], accepted' \in 0..MaxAccepted,
           nextId' \in Nat, nextId <= nextId',
           UNCHANGED <<rows, bus, walk, past>>
    PROVE  TypeOK'
<1>1. rows' = rows /\ stream' = stream /\ seen' = seen /\ walk' = walk /\ past' = past
  BY DEF bus
<1>2. Growing
  BY <1>1 DEF Growing
<1>3. Alive' = Alive
  BY <1>1 DEF Alive
<1>4. /\ nextId' \in Nat \ {0}
      /\ DOMAIN rows' \subseteq Ids'
      /\ rows' \in [DOMAIN rows' -> [name : Names, owner : Owners, born : Ids', deleted : BOOLEAN]]
  BY <1>1, <1>2, Widened DEF TypeOK
<1>5. req' \in [Handlers -> Requests' \cup {Idle}]
  BY <1>2, Widened DEF TypeOK
<1>6. stream' \in [Clients -> Streams' \cup {Closed}] /\ seen' \in [Clients -> Seq(Frames')]
  BY <1>1, <1>2, Widened DEF TypeOK
<1>7. walk' \in [Clients -> Walks' \cup {Idle}]
  BY <1>1, <1>3 DEF TypeOK, Walks
<1>8. /\ \A i, j \in Alive' : rows'[i].name = rows'[j].name => i = j
      /\ \A s \in Clients : stream'[s].open => Len(stream'[s].queue) <= Capacity
      /\ past' \subseteq [id : DOMAIN rows', name : Names]
  BY <1>1, <1>3 DEF TypeOK
<1> QED
  BY <1>4, <1>5, <1>6, <1>7, <1>8 DEF TypeOK

\* A step of a walk.
LEMMA WalkTyped ==
    ASSUME TypeOK, NEW c \in Clients, NEW w \in Walks \cup {Idle},
           walk' = [walk EXCEPT ![c] = w],
           UNCHANGED <<rows, nextId, req, accepted, bus, past>>
    PROVE  TypeOK'
<1>1. /\ rows' = rows /\ nextId' = nextId /\ req' = req /\ accepted' = accepted
      /\ stream' = stream /\ seen' = seen /\ past' = past
  BY DEF bus
<1>2. Alive' = Alive /\ Ids' = Ids /\ Frames' = Frames
  BY <1>1 DEF Alive, Ids, Frames
<1>3. Requests' = Requests /\ Streams' = Streams /\ Walks' = Walks
  BY <1>1, <1>2 DEF Requests, Streams, Walks
<1>4. walk' \in [Clients -> Walks \cup {Idle}]
  BY DEF TypeOK
<1> QED
  BY <1>1, <1>2, <1>3, <1>4 DEF TypeOK

\* A step of the streams.
LEMMA StreamTyped ==
    ASSUME TypeOK,
           stream' \in [Clients -> Streams \cup {Closed}],
           seen' \in [Clients -> Seq(Frames)],
           \A s \in Clients : stream'[s].open => Len(stream'[s].queue) <= Capacity,
           req' \in [Handlers -> Requests \cup {Idle}],
           UNCHANGED <<rows, nextId, accepted, walk, past>>
    PROVE  TypeOK'
<1>1. /\ rows' = rows /\ nextId' = nextId /\ accepted' = accepted
      /\ walk' = walk /\ past' = past
  OBVIOUS
<1>2. Alive' = Alive /\ Ids' = Ids /\ Frames' = Frames
  BY <1>1 DEF Alive, Ids, Frames
<1>3. Requests' = Requests /\ Streams' = Streams /\ Walks' = Walks
  BY <1>1, <1>2 DEF Requests, Streams, Walks
<1> QED
  BY <1>1, <1>2, <1>3 DEF TypeOK

\* The request that is being served.
LEMMA ReqCases ==
    ASSUME TypeOK, NEW h \in Handlers
    PROVE  /\ At(h, "idle") => req[h] = Idle
           /\ At(h, "guard") =>
                \/ req[h] \in [phase : {"guard", "write"}, op : {"updated"}, token : Tokens, id : Ids, name : Names]
                \/ req[h] \in [phase : {"guard", "read", "write"}, op : {"deleted"}, token : Tokens, id : Ids]
           /\ At(h, "read") =>
                req[h] \in [phase : {"guard", "read", "write"}, op : {"deleted"}, token : Tokens, id : Ids]
           /\ At(h, "write") =>
                /\ req[h].op \in {"created", "updated", "deleted"}
                /\ req[h].token \in Tokens /\ req[h].id \in Ids
                /\ req[h].op # "deleted" => req[h].name \in Names
           /\ At(h, "publish") => req[h].token \in Tokens /\ req[h].frame \in Frames
<1>1. req[h] \in Requests \cup {Idle}
  BY DEF TypeOK
<1> QED
  BY <1>1 DEF Requests, Idle, At

\* What a page, an anchor or a total changes of a walk.
LEMMA WalkCases ==
    ASSUME TypeOK, NEW c \in Clients, ~On(c, "idle")
    PROVE  walk[c] \in Walks
BY DEF TypeOK, On, Idle

\* There are finitely many rows in a list.
LEMMA ListFinite ==
    ASSUME TypeOK, NEW filter
    PROVE  /\ Listed(filter) \subseteq DOMAIN rows
           /\ IsFiniteSet(Listed(filter)) /\ Cardinality(Listed(filter)) \in Nat
<1>1. Listed(filter) \subseteq DOMAIN rows
  BY DEF Listed, Alive
<1> QED
  BY <1>1, RowsFinite, FS_Subset, FS_CardinalityType

\* The write of a row: the row there was, renamed or deleted, or one under an id
\* that was drawn.
Writable(i, row) ==
    /\ i \in Ids
    /\ row \in [name : Names, owner : Owners, born : Ids, deleted : BOOLEAN]
    /\ i \in DOMAIN rows => row.owner = rows[i].owner /\ ~rows[i].deleted
    /\ row.deleted \/ \A j \in Alive \ {i} : rows[j].name # row.name

\* It leaves the other rows alone.
LEMMA Stored ==
    ASSUME TypeOK, nextId' = nextId, NEW i, NEW row, Writable(i, row), Store(i, row)
    PROVE  /\ Growing
           /\ DOMAIN rows' = DOMAIN rows \cup {i} /\ rows'[i] = row
           /\ \A j \in DOMAIN rows \ {i} : rows'[j] = rows[j]
           /\ Alive' \ {i} = Alive \ {i}
           /\ i \in Alive' <=> ~row.deleted
           /\ past' = past \cup {[id |-> i, name |-> row.name]}
<1>1. rows' = [j \in DOMAIN rows \cup {i} |-> IF j = i THEN row ELSE rows[j]]
  BY DEF Store
<1>2. past' = past \cup {[id |-> i, name |-> row.name]}
  BY DEF Store
<1>3. DOMAIN rows' = DOMAIN rows \cup {i} /\ rows'[i] = row /\ \A j \in DOMAIN rows \ {i} : rows'[j] = rows[j]
  BY <1>1
<1>4. Growing
  BY <1>2, <1>3 DEF Growing, Writable, TypeOK
<1>5. Alive' \ {i} = Alive \ {i} /\ (i \in Alive' <=> ~row.deleted)
  BY <1>3 DEF Alive
<1> QED
  BY <1>2, <1>3, <1>4, <1>5

\* Whatever is stored is typed.
LEMMA StoreTyped ==
    ASSUME TypeOK, NEW h \in Handlers, NEW row, req[h].token \in Tokens,
           req[h].op \in {"created", "updated", "deleted"},
           Writable(req[h].id, row), Store(req[h].id, row), Announce(h, row),
           UNCHANGED <<nextId, accepted, bus>>
    PROVE  TypeOK'
<1> DEFINE i == req[h].id
           new == [phase |-> "publish", token |-> req[h].token,
                   frame |-> [type |-> req[h].op, id |-> i, name |-> row.name, owner |-> row.owner]]
<1>1. /\ Growing
      /\ DOMAIN rows' = DOMAIN rows \cup {i} /\ rows'[i] = row
      /\ \A j \in DOMAIN rows \ {i} : rows'[j] = rows[j]
      /\ Alive' \ {i} = Alive \ {i}
      /\ i \in Alive' <=> ~row.deleted
      /\ past' = past \cup {[id |-> i, name |-> row.name]}
  BY Stored
<1>2. Ids' = Ids /\ Frames' = Frames
  BY DEF Ids, Frames
<1>3. Requests' = Requests /\ Streams' = Streams
  BY <1>2 DEF Requests, Streams
<1>4. DOMAIN rows' \subseteq Ids'
  BY <1>1, <1>2 DEF TypeOK, Writable
<1>5. rows' \in [DOMAIN rows' -> [name : Names, owner : Owners, born : Ids', deleted : BOOLEAN]]
  <2>1. rows' = [j \in DOMAIN rows \cup {i} |-> IF j = i THEN row ELSE rows[j]]
    BY DEF Store
  <2> QED
    BY <2>1, <1>2 DEF TypeOK, Writable
<1>6. ASSUME NEW j \in Alive', NEW k \in Alive', rows'[j].name = rows'[k].name
      PROVE  j = k
  <2>1. CASE j # i /\ k # i
    BY <2>1, <1>1, <1>6 DEF TypeOK, Alive
  <2>2. CASE (j = i /\ k # i) \/ (j # i /\ k = i)
    BY <2>2, <1>1, <1>6 DEF Writable, Alive
  <2> QED
    BY <2>1, <2>2
<1>7. new \in Requests
  BY <1>2 DEF Requests, Frames, Writable
<1>8. req' = [req EXCEPT ![h] = new]
  BY DEF Announce
<1>9. req' \in [Handlers -> Requests' \cup {Idle}]
  BY <1>3, <1>7, <1>8 DEF TypeOK
<1>10. past' \subseteq [id : DOMAIN rows', name : Names]
  BY <1>1 DEF TypeOK, Writable
<1>11. ASSUME NEW c \in Clients PROVE walk'[c] \in Walks' \cup {Idle}
  <2>1. CASE walk[c] = Idle
    BY <2>1 DEF Store, Disturbed
  <2>2. CASE walk[c] # Idle
    <3>1. walk[c] \in Walks
      BY <2>2 DEF TypeOK
    <3>2. walk'[c] = [walk[c] EXCEPT !.steady = @ \ {i},
                                    !.quiet = @ /\ ~Allows(walk[c].filter, row.owner)]
      BY <2>2 DEF Store, Disturbed
    <3>3. walk[c].steady \ {i} \in SUBSET Alive'
      BY <3>1, <1>1 DEF Walks
    <3>4. walk[c].got \in SUBSET [page : Nat \ {0}, id : DOMAIN rows']
      BY <3>1, <1>1 DEF Walks
    <3>5. (walk[c].quiet /\ ~Allows(walk[c].filter, row.owner)) \in BOOLEAN
      OBVIOUS
    <3> QED
      BY <3>1, <3>2, <3>3, <3>4, <3>5 DEF Walks
  <2> QED
    BY <2>1, <2>2
<1>12. walk' \in [Clients -> Walks' \cup {Idle}]
  <2>1. walk' = Disturbed(i, row.owner)
    BY DEF Store
  <2> QED
    BY <2>1, <1>11 DEF Disturbed
<1>13. /\ nextId' = nextId /\ accepted' = accepted /\ stream' = stream /\ seen' = seen
  BY DEF bus
<1> QED
  BY <1>1, <1>2, <1>3, <1>4, <1>5, <1>6, <1>9, <1>10, <1>12, <1>13 DEF TypeOK

\* A write that was refused.
LEMMA FinishTyped ==
    ASSUME TypeOK, NEW h \in Handlers, Finish(h), UNCHANGED <<rows, nextId, accepted, bus, walk, past>>
    PROVE  TypeOK'
<1>1. req' = [req EXCEPT ![h] = Idle]
  BY DEF Finish
<1>2. accepted' \in 0..MaxAccepted /\ nextId' \in Nat /\ nextId <= nextId'
  BY DEF TypeOK
<1> QED
  BY <1>1, <1>2, ReqTyped

\* What the three writes store.
LEMMA WritesAreWritable ==
    ASSUME TypeOK, Pending, NEW h \in Handlers, At(h, "write")
    PROVE  /\ (req[h].op = "created" /\ ~Taken(req[h].name, req[h].id)) =>
                Writable(req[h].id,
                    [name |-> req[h].name, owner |-> req[h].token.user,
                     born |-> Cardinality(DOMAIN rows) + 1, deleted |-> FALSE])
           /\ (req[h].op = "updated" /\ req[h].id \in Alive /\ ~Taken(req[h].name, req[h].id)) =>
                Writable(req[h].id, [rows[req[h].id] EXCEPT !.name = req[h].name])
           /\ (req[h].op = "deleted" /\ req[h].id \in Alive) =>
                Writable(req[h].id, [rows[req[h].id] EXCEPT !.deleted = TRUE])
<1> DEFINE i == req[h].id
<1>1. /\ req[h].op \in {"created", "updated", "deleted"}
      /\ req[h].token \in Tokens /\ i \in Ids
      /\ req[h].op # "deleted" => req[h].name \in Names
  BY ReqCases
<1>2. ASSUME req[h].op = "created", ~Taken(req[h].name, i)
      PROVE  Writable(i, [name |-> req[h].name, owner |-> req[h].token.user,
                          born |-> Cardinality(DOMAIN rows) + 1, deleted |-> FALSE])
  <2>1. i \notin DOMAIN rows
    BY <1>2 DEF Pending, Creating
  <2>2. Cardinality(DOMAIN rows) + 1 \in Ids
    <3>1. nextId \in Nat \ {0}
      BY DEF TypeOK
    <3>2. IsFiniteSet(1..(nextId - 1)) /\ Cardinality(1..(nextId - 1)) = nextId - 1
      BY <3>1, FS_Interval
    <3>3. DOMAIN rows \in SUBSET (1..(nextId - 1)) /\ DOMAIN rows # 1..(nextId - 1)
      BY <2>1, <1>1 DEF TypeOK, Ids
    <3>4. Cardinality(DOMAIN rows) <= nextId - 1 /\ Cardinality(DOMAIN rows) # nextId - 1
      BY <3>2, <3>3, FS_Subset
    <3>5. Cardinality(DOMAIN rows) \in Nat
      BY RowsFinite, <3>1
    <3> QED
      BY <3>1, <3>4, <3>5 DEF Ids
  <2>3. req[h].token.user \in Owners
    BY <1>1 DEF Owners
  <2>4. \A j \in Alive \ {i} : rows[j].name # req[h].name
    BY <1>2 DEF Taken
  <2> QED
    BY <1>1, <1>2, <2>1, <2>2, <2>3, <2>4 DEF Writable
<1>3. ASSUME i \in Alive
      PROVE  /\ i \in DOMAIN rows /\ ~rows[i].deleted
             /\ rows[i] \in [name : Names, owner : Owners, born : Ids, deleted : BOOLEAN]
  BY <1>3 DEF TypeOK, Alive
<1>4. ASSUME req[h].op = "updated", i \in Alive, ~Taken(req[h].name, i)
      PROVE  Writable(i, [rows[i] EXCEPT !.name = req[h].name])
  <2>1. \A j \in Alive \ {i} : rows[j].name # req[h].name
    BY <1>4 DEF Taken
  <2> QED
    BY <2>1, <1>1, <1>3, <1>4 DEF Writable
<1>5. ASSUME req[h].op = "deleted", i \in Alive
      PROVE  Writable(i, [rows[i] EXCEPT !.deleted = TRUE])
  BY <1>1, <1>3, <1>5 DEF Writable
<1> QED
  BY <1>2, <1>4, <1>5

\* A write is refused, or it stores a row and announces it.
LEMMA WriteCases ==
    ASSUME TypeOK, Pending, NEW h \in Handlers, Create(h) \/ Update(h) \/ Delete(h)
    PROVE  /\ At(h, "write") /\ UNCHANGED <<nextId, accepted, bus>>
           /\ \/ Finish(h) /\ UNCHANGED <<rows, walk, past>>
              \/ \E row : /\ Writable(req[h].id, row) /\ Store(req[h].id, row) /\ Announce(h, row)
                          /\ req[h].op = "created" => row.owner = req[h].token.user
                          /\ req[h].op # "created" => req[h].id \in DOMAIN rows
                          /\ row.deleted <=> req[h].op = "deleted"
<1> DEFINE i == req[h].id
<1>1. At(h, "write") /\ UNCHANGED <<nextId, accepted, bus>>
  BY DEF Create, Update, Delete
<1>2. CASE Create(h)
  <2> DEFINE row == [name |-> req[h].name, owner |-> req[h].token.user,
                     born |-> Cardinality(DOMAIN rows) + 1, deleted |-> FALSE]
  <2>1. req[h].op = "created" /\ Outcome(h, Taken(req[h].name, i), row)
    BY <1>2 DEF Create
  <2>2. CASE Taken(req[h].name, i)
    BY <2>1, <2>2, <1>1 DEF Outcome
  <2>3. CASE ~Taken(req[h].name, i)
    <3>1. Writable(i, row)
      BY <2>1, <2>3, <1>1, WritesAreWritable
    <3>2. Store(i, row) /\ Announce(h, row)
      BY <2>1, <2>3 DEF Outcome
    <3>3. row.owner = req[h].token.user /\ ~row.deleted
      OBVIOUS
    <3> QED
      BY <3>1, <3>2, <3>3, <2>1, <1>1
  <2> QED
    BY <2>2, <2>3
<1>3. CASE Update(h)
  <2> DEFINE row == [rows[i] EXCEPT !.name = req[h].name]
  <2>1. req[h].op = "updated" /\ Outcome(h, i \notin Alive \/ Taken(req[h].name, i), row)
    BY <1>3 DEF Update
  <2>2. CASE i \notin Alive \/ Taken(req[h].name, i)
    BY <2>1, <2>2, <1>1 DEF Outcome
  <2>3. CASE i \in Alive /\ ~Taken(req[h].name, i)
    <3>1. Writable(i, row)
      BY <2>1, <2>3, <1>1, WritesAreWritable
    <3>2. Store(i, row) /\ Announce(h, row)
      BY <2>1, <2>3 DEF Outcome
    <3>3. i \in DOMAIN rows /\ ~row.deleted
      BY <2>3 DEF Alive, TypeOK
    <3> QED
      BY <3>1, <3>2, <3>3, <2>1, <1>1
  <2> QED
    BY <2>2, <2>3
<1>4. CASE Delete(h)
  <2> DEFINE row == [rows[i] EXCEPT !.deleted = TRUE]
  <2>1. req[h].op = "deleted" /\ Outcome(h, i \notin Alive, row)
    BY <1>4 DEF Delete
  <2>2. CASE i \notin Alive
    BY <2>1, <2>2, <1>1 DEF Outcome
  <2>3. CASE i \in Alive
    <3>1. Writable(i, row)
      BY <2>1, <2>3, <1>1, WritesAreWritable
    <3>2. Store(i, row) /\ Announce(h, row)
      BY <2>1, <2>3 DEF Outcome
    <3>3. i \in DOMAIN rows /\ row.deleted
      BY <2>3 DEF Alive, TypeOK
    <3> QED
      BY <3>1, <3>2, <3>3, <2>1, <1>1
  <2> QED
    BY <2>2, <2>3
<1> QED
  BY <1>2, <1>3, <1>4

Pushed(q, f) == Kept(Append(q, f))

\* The queue q with f at its end, with or without the oldest frame of q.
Shifted(q, f, k) ==
    /\ \/ Len(k) = Len(q) + 1 /\ \A n \in 1..Len(q) : k[n] = q[n]
       \/ Len(k) = Len(q) /\ \A n \in 1..Len(q) - 1 : k[n] = q[n + 1]
    /\ k[Len(k)] = f

\* A queue that is full loses its oldest frame.
LEMMA KeptFrames ==
    ASSUME NEW S, NEW q \in Seq(S), Len(q) <= Capacity, NEW f \in S,
           NEW k, k = Pushed(q, f)
    PROVE  /\ k \in Seq(S) /\ Len(q) \in Nat /\ Len(k) \in 1..Capacity
           /\ Shifted(q, f, k)
<1> DEFINE a == Append(q, f)
<1>1. /\ a \in Seq(S) /\ Len(a) = Len(q) + 1 /\ Len(q) \in Nat
      /\ \A n \in 1..Len(q) : a[n] = q[n]
      /\ a[Len(q) + 1] = f
  BY AppendProperties, LenProperties
<1>2. Capacity \in Nat \ {0}
  BY WidgetAssumption
<1> HIDE DEF a
<1>3. CASE Len(a) > Capacity
  <2>1. a # << >>
    BY <1>1
  <2>2. /\ Tail(a) \in Seq(S) /\ Len(Tail(a)) = Len(a) - 1
        /\ \A n \in 1..Len(Tail(a)) : Tail(a)[n] = a[n + 1]
    BY <1>1, <2>1
  <2>3. k = Tail(a) /\ Len(q) = Capacity
    BY <1>1, <1>2, <1>3 DEF Pushed, Kept, a
  <2>4. \A n \in 1..Len(q) - 1 : k[n] = q[n + 1]
    BY <2>2, <2>3, <1>1
  <2>5. k[Len(k)] = f
    BY <2>2, <2>3, <1>1, <1>2
  <2> QED
    BY <1>1, <1>2, <2>2, <2>3, <2>4, <2>5 DEF Shifted
<1>4. CASE ~(Len(a) > Capacity)
  <2>1. k = a
    BY <1>4 DEF Pushed, Kept, a
  <2> QED
    BY <2>1, <1>1, <1>2, <1>4 DEF Shifted
<1> QED
  BY <1>3, <1>4

\* The streams that are open.
LEMMA StreamCases ==
    ASSUME TypeOK, NEW s \in Clients
    PROVE  /\ stream[s].open => stream[s] \in Streams
           /\ ~stream[s].open => stream[s] = Closed
           /\ seen[s] \in Seq(Frames) /\ Queue(s) \in Seq(Frames) /\ Len(Queue(s)) <= Capacity
<1>1. stream[s] \in Streams \cup {Closed} /\ seen[s] \in Seq(Frames)
  BY DEF TypeOK
<1>2. /\ stream[s].open => stream[s] \in Streams
      /\ ~stream[s].open => stream[s] = Closed
  <2>1. \A x \in Streams : x.open
    BY DEF Streams
  <2>2. ~Closed.open
    BY DEF Closed
  <2> QED
    BY <1>1, <2>1, <2>2
<1>3. stream[s].open => stream[s].queue \in Seq(Frames) /\ Len(stream[s].queue) <= Capacity
  BY <1>2 DEF Streams, TypeOK
<1>4. << >> \in Seq(Frames) /\ Len(<< >>) <= Capacity
  BY WidgetAssumption, EmptySeq
<1> QED
  BY <1>1, <1>2, <1>3, <1>4 DEF Queue

\* A page of a cursor whose list goes on ends with a row of the list.
LEMMA LastOfPage ==
    ASSUME TypeOK, NEW w, NEW S \in SUBSET DOMAIN rows, Cardinality(S) > PageSize
    PROVE  LET last == CHOOSE i \in S : Place(w, S, i) = PageSize - 1
           IN  last \in S /\ Place(w, S, last) = PageSize - 1
<1>1. PageSize \in Nat \ {0} /\ Cardinality(S) \in Nat
  BY WidgetAssumption, RowsFinite, FS_Subset, FS_CardinalityType
<1>2. PageSize - 1 \in 0..(Cardinality(S) - 1)
  BY <1>1
<1>3. \E i \in S : Place(w, S, i) = PageSize - 1
  BY <1>2, PlaceTaken
<1> QED
  BY <1>3

\* The rows of a page belong to the list.
LEMMA BehindListed ==
    ASSUME TypeOK, NEW w
    PROVE  /\ Listed(w.filter) \in SUBSET DOMAIN rows
           /\ Behind(w, Listed(w.filter)) \in SUBSET DOMAIN rows
           /\ \A S, k : Slice(w, S, k) \subseteq S
BY DEF Listed, Alive, Behind, Slice

\* Every step keeps the types.
LEMMA TypeNext == TypeOK /\ Pending /\ Paging /\ [Next]_vars => TypeOK'
<1> SUFFICES ASSUME TypeOK, Pending, Paging, [Next]_vars PROVE TypeOK'
  OBVIOUS
<1>a. /\ accepted \in 0..MaxAccepted /\ nextId \in Nat \ {0} /\ nextId <= nextId
      /\ MaxAccepted \in Nat
  BY WidgetAssumption DEF TypeOK
<1>b. nextId' = nextId => Requests' = Requests
  BY DEF Requests, Frames, Ids
<1>c. DOMAIN rows \subseteq Ids
  BY DEF TypeOK
<1>1. ASSUME NEW h \in Handlers, NEW t \in Tokens, NEW name \in Names, ReceiveCreate(h, t, name)
      PROVE  TypeOK'
  <2> DEFINE r == [phase |-> "write", op |-> "created", token |-> t, id |-> nextId, name |-> name]
  <2>1. /\ nextId' = nextId + 1 /\ accepted' \in 0..MaxAccepted
        /\ nextId' \in Nat /\ nextId <= nextId'
    BY <1>1, <1>a DEF ReceiveCreate, Accept
  <2>2. nextId \in Ids'
    BY <2>1, <1>a DEF Ids
  <2>3. r \in Requests'
    BY <2>2 DEF Requests
  <2>4. req' = [req EXCEPT ![h] = r] /\ UNCHANGED <<rows, bus, walk, past>>
    BY <1>1 DEF ReceiveCreate
  <2> HIDE DEF r
  <2> QED
    BY <2>1, <2>3, <2>4, ReqTyped
<1>2. ASSUME NEW h \in Handlers, NEW t \in Tokens, NEW i \in DOMAIN rows, NEW name \in Names,
             ReceiveUpdate(h, t, i, name)
      PROVE  TypeOK'
  <2> DEFINE r == [phase |-> "guard", op |-> "updated", token |-> t, id |-> i, name |-> name]
  <2>1. nextId' = nextId /\ accepted' \in 0..MaxAccepted
    BY <1>2, <1>a DEF ReceiveUpdate, Accept
  <2>2. r \in Requests'
    BY <2>1, <1>b, <1>c DEF Requests
  <2>3. req' = [req EXCEPT ![h] = r] /\ UNCHANGED <<rows, bus, walk, past>>
    BY <1>2 DEF ReceiveUpdate
  <2> HIDE DEF r
  <2> QED
    BY <2>1, <2>2, <2>3, <1>a, ReqTyped
<1>3. ASSUME NEW h \in Handlers, NEW t \in Tokens, NEW i \in DOMAIN rows, ReceiveDelete(h, t, i)
      PROVE  TypeOK'
  <2> DEFINE r == [phase |-> "guard", op |-> "deleted", token |-> t, id |-> i]
  <2>1. nextId' = nextId /\ accepted' \in 0..MaxAccepted
    BY <1>3, <1>a DEF ReceiveDelete, Accept
  <2>2. r \in Requests'
    BY <2>1, <1>b, <1>c DEF Requests
  <2>3. req' = [req EXCEPT ![h] = r] /\ UNCHANGED <<rows, bus, walk, past>>
    BY <1>3 DEF ReceiveDelete
  <2> HIDE DEF r
  <2> QED
    BY <2>1, <2>2, <2>3, <1>a, ReqTyped
<1>4. ASSUME NEW h \in Handlers, Guard(h)
      PROVE  TypeOK'
  <2> DEFINE r == IF ~MayChange(req[h].token, req[h].id) THEN Idle
                  ELSE [req[h] EXCEPT !.phase = IF req[h].op = "deleted" THEN "read" ELSE "write"]
  <2>1. /\ nextId' = nextId /\ accepted' = accepted /\ At(h, "guard")
        /\ req' = [req EXCEPT ![h] = r] /\ UNCHANGED <<rows, bus, walk, past>>
    BY <1>4 DEF Guard
  <2>2. r \in Requests \cup {Idle}
    BY <2>1, ReqCases DEF Requests
  <2> HIDE DEF r
  <2> QED
    BY <2>1, <2>2, <1>a, <1>b, ReqTyped
<1>5. ASSUME NEW h \in Handlers, ReadOwner(h)
      PROVE  TypeOK'
  <2> DEFINE r == IF req[h].id \in Alive THEN [req[h] EXCEPT !.phase = "write"] ELSE Idle
  <2>1. /\ nextId' = nextId /\ accepted' = accepted /\ At(h, "read")
        /\ req' = [req EXCEPT ![h] = r] /\ UNCHANGED <<rows, bus, walk, past>>
    BY <1>5 DEF ReadOwner
  <2>2. r \in Requests \cup {Idle}
    BY <2>1, ReqCases DEF Requests
  <2> HIDE DEF r
  <2> QED
    BY <2>1, <2>2, <1>a, <1>b, ReqTyped
<1>6. ASSUME NEW h \in Handlers, Create(h) \/ Update(h) \/ Delete(h)
      PROVE  TypeOK'
  <2>1. At(h, "write") /\ UNCHANGED <<nextId, accepted, bus>>
    BY <1>6, WriteCases
  <2>2. req[h].token \in Tokens /\ req[h].op \in {"created", "updated", "deleted"}
    BY <2>1, ReqCases
  <2>3. \/ Finish(h) /\ UNCHANGED <<rows, walk, past>>
        \/ \E row : Writable(req[h].id, row) /\ Store(req[h].id, row) /\ Announce(h, row)
    BY <1>6, WriteCases
  <2> QED
    BY <2>1, <2>2, <2>3, FinishTyped, StoreTyped
<1>7. ASSUME NEW h \in Handlers, Abort(h)
      PROVE  TypeOK'
  BY <1>7, FinishTyped DEF Abort
<1>8. ASSUME NEW h \in Handlers, Publish(h)
      PROVE  TypeOK'
  <2>1. PICK reached \in SUBSET {s \in Clients : stream[s].open} :
            stream' = [s \in Clients |->
                IF s \in reached
                THEN [stream[s] EXCEPT !.queue = Kept(Append(@, req[h].frame))]
                ELSE stream[s]]
    BY <1>8 DEF Publish
  <2>2. /\ At(h, "publish") /\ req' = [req EXCEPT ![h] = Idle] /\ seen' = seen
        /\ UNCHANGED <<rows, nextId, accepted, walk, past>>
    BY <1>8 DEF Publish, Finish
  <2>3. req[h].frame \in Frames
    BY <2>2, ReqCases
  <2>4. ASSUME NEW s \in Clients
        PROVE  /\ stream'[s] \in Streams \cup {Closed}
               /\ stream'[s].open => Len(stream'[s].queue) <= Capacity
    <3>1. CASE s \in reached
      <4>1. stream[s].open /\ stream[s] \in Streams /\ stream[s].queue \in Seq(Frames)
            /\ Len(stream[s].queue) <= Capacity
        BY <3>1, StreamCases DEF Streams, TypeOK
      <4>2. /\ Kept(Append(stream[s].queue, req[h].frame)) \in Seq(Frames)
            /\ Len(Kept(Append(stream[s].queue, req[h].frame))) \in 1..Capacity
        <5>1. PICK q, f, k : q = stream[s].queue /\ f = req[h].frame /\ k = Pushed(q, f)
          OBVIOUS
        <5>2. q \in Seq(Frames) /\ Len(q) <= Capacity /\ f \in Frames
          BY <4>1, <2>3, <5>1
        <5>3. k = Pushed(q, f)
          BY <5>1
        <5>4. k \in Seq(Frames) /\ Len(k) \in 1..Capacity
          BY <5>2, <5>3, KeptFrames
        <5> QED
          BY <5>1, <5>4 DEF Pushed
      <4>3. stream'[s] = [stream[s] EXCEPT !.queue = Kept(Append(stream[s].queue, req[h].frame))]
        BY <2>1, <3>1
      <4>4. stream'[s].queue = Kept(Append(stream[s].queue, req[h].frame))
        BY <4>1, <4>3 DEF Streams
      <4>5. stream'[s] \in Streams
        BY <4>1, <4>2, <4>3 DEF Streams
      <4> QED
        BY <4>2, <4>4, <4>5, WidgetAssumption
    <3>2. CASE s \notin reached
      BY <2>1, <3>2 DEF TypeOK
    <3> QED
      BY <3>1, <3>2
  <2>5. req' \in [Handlers -> Requests \cup {Idle}]
    BY <2>2 DEF TypeOK
  <2>6. stream' \in [Clients -> Streams \cup {Closed}] /\ seen' \in [Clients -> Seq(Frames)]
    BY <2>1, <2>2, <2>4 DEF TypeOK
  <2> QED
    BY <2>2, <2>4, <2>5, <2>6, StreamTyped
<1>9. ASSUME NEW s \in Clients, NEW t \in Tokens, Subscribe(s, t)
      PROVE  TypeOK'
  <2> DEFINE new == [open |-> TRUE, token |-> t, access |-> Access(t, "widgets:read:all"), queue |-> << >>]
  <2>1. /\ stream' = [stream EXCEPT ![s] = new] /\ seen' = seen /\ req' = req
        /\ UNCHANGED <<rows, nextId, accepted, walk, past>>
    BY <1>9 DEF Subscribe
  <2>2. new \in Streams
    BY AccessType, EmptySeq DEF Streams
  <2>3. new.queue = << >> /\ Len(<< >>) <= Capacity
    BY WidgetAssumption
  <2> HIDE DEF new
  <2>4. stream' \in [Clients -> Streams \cup {Closed}]
    BY <2>1, <2>2 DEF TypeOK
  <2>5. \A c \in Clients : stream'[c].open => Len(stream'[c].queue) <= Capacity
    BY <2>1, <2>3 DEF TypeOK
  <2> QED
    BY <2>1, <2>4, <2>5, StreamTyped DEF TypeOK
<1>10. ASSUME NEW s \in Clients, Send(s)
      PROVE  TypeOK'
  <2>1. /\ stream[s].open /\ stream[s].queue # << >>
        /\ stream' = [stream EXCEPT ![s].queue = Tail(@)] /\ req' = req
        /\ UNCHANGED <<rows, nextId, accepted, walk, past>>
        /\ seen' = seen \/ seen' = [seen EXCEPT ![s] = Append(@, Head(stream[s].queue))]
    BY <1>10 DEF Send
  <2>2. stream[s] \in Streams /\ stream[s].queue \in Seq(Frames) /\ Len(stream[s].queue) <= Capacity
    BY <2>1, StreamCases DEF Streams, TypeOK
  <2>3. /\ Tail(stream[s].queue) \in Seq(Frames) /\ Head(stream[s].queue) \in Frames
        /\ Len(Tail(stream[s].queue)) = Len(stream[s].queue) - 1
        /\ Len(stream[s].queue) \in Nat
    BY <2>1, <2>2, HeadTailProperties, LenProperties
  <2>4. stream'[s] = [stream[s] EXCEPT !.queue = Tail(stream[s].queue)]
    BY <2>1 DEF TypeOK
  <2>5. stream'[s] \in Streams /\ stream'[s].queue = Tail(stream[s].queue)
    BY <2>2, <2>3, <2>4 DEF Streams
  <2>6. stream' \in [Clients -> Streams \cup {Closed}]
    BY <2>1, <2>5 DEF TypeOK
  <2>7. seen' \in [Clients -> Seq(Frames)]
    <3>1. seen[s] \in Seq(Frames)
      BY DEF TypeOK
    <3>2. Append(seen[s], Head(stream[s].queue)) \in Seq(Frames)
      BY <3>1, <2>3, AppendProperties
    <3> QED
      BY <2>1, <3>2 DEF TypeOK
  <2>8. \A c \in Clients : stream'[c].open => Len(stream'[c].queue) <= Capacity
    <3>1. Capacity \in Nat
      BY WidgetAssumption
    <3> QED
      BY <2>1, <2>2, <2>3, <2>5, <3>1 DEF TypeOK
  <2> QED
    BY <2>1, <2>6, <2>7, <2>8, StreamTyped DEF TypeOK
<1>11. ASSUME NEW s \in Clients, EndStream(s)
      PROVE  TypeOK'
  <2>1. /\ stream' = [stream EXCEPT ![s] = Closed] /\ seen' = [seen EXCEPT ![s] = << >>] /\ req' = req
        /\ UNCHANGED <<rows, nextId, accepted, walk, past>>
    BY <1>11 DEF EndStream
  <2>2. \A c \in Clients : stream'[c].open => Len(stream'[c].queue) <= Capacity
    BY <2>1 DEF TypeOK, Closed
  <2>3. stream' \in [Clients -> Streams \cup {Closed}] /\ seen' \in [Clients -> Seq(Frames)]
    BY <2>1, EmptySeq DEF TypeOK
  <2> QED
    BY <2>1, <2>2, <2>3, StreamTyped DEF TypeOK
<1>12. ASSUME NEW c \in Clients, NEW t \in Tokens, NEW endpoint,
              NEW mode \in {"cursor", "offset", "count"},
              NEW sort \in {"created_at", "name"}, NEW order \in {"asc", "desc"},
              Start(c, t, endpoint, mode, sort, order)
      PROVE  TypeOK'
  <2> DEFINE new == [phase |-> "page", token |-> t, mode |-> mode, sort |-> sort, order |-> order,
         filter |-> Filter(endpoint, t), anchor |-> <<0, 0>>, page |-> 1, got |-> {},
         total |-> 0, steady |-> Listed(Filter(endpoint, t)), quiet |-> TRUE, drift |-> FALSE]
  <2>1. /\ walk' = [walk EXCEPT ![c] = new]
        /\ UNCHANGED <<rows, nextId, req, accepted, bus, past>>
    BY <1>12 DEF Start
  <2>2. new \in Walks
    BY AccessType DEF Walks, Listed
  <2> HIDE DEF new
  <2> QED
    BY <2>1, <2>2, WalkTyped
<1>13. ASSUME NEW c \in Clients, CursorPage(c)
      PROVE  TypeOK'
  <2> DEFINE w == walk[c]
             rest == Behind(w, Listed(w.filter))
             more == Cardinality(rest) > PageSize
             last == CHOOSE i \in rest : Place(w, rest, i) = PageSize - 1
             items == Slice(w, rest, 0)
             anchor == IF more THEN Key(w, last) ELSE w.anchor
             phase == CASE ~more -> "done" [] more /\ w.sort = "name" -> "anchor" [] OTHER -> "page"
             new == [w EXCEPT !.got = @ \cup Views(w, items), !.anchor = anchor,
                              !.page = @ + 1, !.phase = phase]
  <2>1. On(c, "page") /\ UNCHANGED <<rows, nextId, req, accepted, bus, past>>
    BY <1>13 DEF CursorPage
  <2>2. w \in Walks
    BY <2>1, WalkCases DEF On
  <2>3. rest \in SUBSET DOMAIN rows /\ items \subseteq rest
    BY BehindListed
  <2>4. more => last \in DOMAIN rows
    BY <2>3, LastOfPage
  <2>5. anchor \in Nat \X Nat
    BY <2>2, <2>4, KeyType DEF Walks
  <2>6. w.got \cup Views(w, items) \in SUBSET [page : Nat \ {0}, id : DOMAIN rows]
    BY <2>2, <2>3 DEF Walks, Views
  <2>7. phase \in {"page", "anchor", "total", "done"}
    OBVIOUS
  <2>8. walk' = [walk EXCEPT ![c].got = @ \cup Views(w, items), ![c].anchor = IF more THEN Key(w, last) ELSE @,
                              ![c].page = @ + 1, ![c].phase = phase]
    BY <1>13 DEF CursorPage
  <2>9. walk' = [walk EXCEPT ![c] = new] /\ new \in Walks
    <3>1. w.page + 1 \in Nat \ {0}
      BY <2>2 DEF Walks
    <3>2. walk' = [walk EXCEPT ![c] = new]
      <4> HIDE DEF items, last, phase, more
      <4> QED
        BY <2>8, <2>2 DEF TypeOK, Walks
    <3> HIDE DEF w, items, anchor, phase
    <3>3. new \in Walks
      BY <2>2, <2>5, <2>6, <2>7, <3>1 DEF Walks
    <3> QED
      BY <3>2, <3>3
  <2> QED
    BY <2>1, <2>9, WalkTyped
<1>14. ASSUME NEW c \in Clients, ReadAnchor(c)
      PROVE  TypeOK'
  <2> DEFINE w == walk[c]
             key == Key(w, w.anchor[2])
             new == [w EXCEPT !.anchor = key, !.drift = @ \/ key # w.anchor, !.phase = "page"]
  <2>1. /\ On(c, "anchor") /\ UNCHANGED <<rows, nextId, req, accepted, bus, past>>
        /\ walk' = [walk EXCEPT ![c].anchor = key, ![c].drift = @ \/ key # walk[c].anchor,
                                ![c].phase = "page"]
    BY <1>14 DEF ReadAnchor
  <2>2. w \in Walks
    BY <2>1, WalkCases DEF On
  <2>3. w.anchor[2] \in DOMAIN rows
    BY <2>1, <2>2 DEF Paging, ByCursor, ByPage, On, Idle
  <2>4. key \in Nat \X Nat
    BY <2>3, KeyType
  <2>5. walk' = [walk EXCEPT ![c] = new]
    BY <2>1 DEF TypeOK
  <2>6. new \in Walks
    <3> HIDE DEF w, key
    <3> QED
      BY <2>2, <2>4 DEF Walks
  <2> QED
    BY <2>1, <2>5, <2>6, WalkTyped
<1>15. ASSUME NEW c \in Clients, OffsetPage(c)
      PROVE  TypeOK'
  <2> DEFINE w == walk[c]
             items == Slice(w, Listed(w.filter), (w.page - 1) * PageSize)
             got == IF w.mode = "count" THEN w.got ELSE w.got \cup Views(w, items)
             new == [w EXCEPT !.got = got, !.phase = "total"]
  <2>1. On(c, "page") /\ UNCHANGED <<rows, nextId, req, accepted, bus, past>>
    BY <1>15 DEF OffsetPage
  <2>2. w \in Walks
    BY <2>1, WalkCases DEF On
  <2>3. items \subseteq DOMAIN rows
    BY BehindListed
  <2>4. got \in SUBSET [page : Nat \ {0}, id : DOMAIN rows]
    BY <2>2, <2>3 DEF Walks, Views
  <2>5. walk' = [walk EXCEPT ![c] = new]
    BY <1>15, <2>2 DEF OffsetPage, TypeOK, Walks
  <2>6. new \in Walks
    <3> HIDE DEF w, got
    <3> QED
      BY <2>2, <2>4 DEF Walks
  <2> QED
    BY <2>1, <2>5, <2>6, WalkTyped
<1>16. ASSUME NEW c \in Clients, Total(c)
      PROVE  TypeOK'
  <2> DEFINE w == walk[c]
             total == Cardinality(Listed(w.filter))
             phase == IF w.mode = "count" \/ w.page >= TotalPages(total) THEN "done" ELSE "page"
             new == [w EXCEPT !.total = total, !.page = @ + 1, !.phase = phase]
  <2>1. On(c, "total") /\ UNCHANGED <<rows, nextId, req, accepted, bus, past>>
    BY <1>16 DEF Total
  <2>2. w \in Walks
    BY <2>1, WalkCases DEF On
  <2>3. total \in Nat
    BY ListFinite
  <2>4. phase \in {"page", "done"}
    OBVIOUS
  <2>5. walk' = [walk EXCEPT ![c] = new]
    BY <1>16, <2>2 DEF Total, TypeOK, Walks
  <2>6. new \in Walks
    <3>1. w.page + 1 \in Nat \ {0}
      BY <2>2 DEF Walks
    <3> HIDE DEF w, total, phase
    <3> QED
      BY <2>2, <2>3, <2>4, <3>1 DEF Walks
  <2> QED
    BY <2>1, <2>5, <2>6, WalkTyped
<1>17. ASSUME NEW c \in Clients, EndWalk(c)
      PROVE  TypeOK'
  BY <1>17, WalkTyped DEF EndWalk
<1>18. CASE UNCHANGED vars
  <2>1. /\ req' \in [Handlers -> Requests \cup {Idle}]
        /\ stream' \in [Clients -> Streams \cup {Closed}] /\ seen' \in [Clients -> Seq(Frames)]
        /\ \A s \in Clients : stream'[s].open => Len(stream'[s].queue) <= Capacity
    BY <1>18 DEF vars, bus, TypeOK
  <2> QED
    BY <1>18, <2>1, StreamTyped DEF vars
<1>19. ASSUME NEW h \in Handlers, Writing(h) PROVE TypeOK'
  BY <1>19, <1>1, <1>2, <1>3, <1>4, <1>5, <1>6, <1>7, <1>8 DEF Writing
<1>20. ASSUME NEW c \in Clients, Walking(c) PROVE TypeOK'
  BY <1>20, <1>12, <1>13, <1>14, <1>15, <1>16, <1>17 DEF Walking
<1> QED
  BY <1>9, <1>10, <1>11, <1>18, <1>19, <1>20 DEF Next

-------------------------------------------------------------------------------
(* What a step does to the table and to the requests.                         *)

\* The write of handler h stores the row.
Stores(h, row) ==
    /\ At(h, "write")
    /\ Writable(req[h].id, row) /\ Store(req[h].id, row) /\ Announce(h, row)
    /\ req[h].op = "created" => row.owner = req[h].token.user
    /\ req[h].op # "created" => req[h].id \in DOMAIN rows
    /\ row.deleted <=> req[h].op = "deleted"
    /\ UNCHANGED <<nextId, accepted, bus>>

\* The steps of a request that leave everything else alone.
ReqStep(h) ==
    /\ \/ \E t \in Tokens :
            \/ \E name \in Names : ReceiveCreate(h, t, name)
            \/ \E i \in DOMAIN rows :
                \/ \E name \in Names : ReceiveUpdate(h, t, i, name)
                \/ ReceiveDelete(h, t, i)
       \/ Guard(h) \/ ReadOwner(h)
       \/ Finish(h) /\ nextId' = nextId
    /\ UNCHANGED <<rows, bus, walk, past>>

StreamStep(s) == (\E t \in Tokens : Subscribe(s, t)) \/ Send(s) \/ EndStream(s)

\* There are five kinds of steps.
LEMMA StepKinds ==
    ASSUME TypeOK, Pending, [Next]_vars
    PROVE  \/ \E h \in Handlers : ReqStep(h)
           \/ \E h \in Handlers : \E row : Stores(h, row)
           \/ \E h \in Handlers : Publish(h)
           \/ \E s \in Clients : StreamStep(s)
           \/ \E c \in Clients : Walking(c)
           \/ UNCHANGED vars
<1>1. ASSUME NEW h \in Handlers, Create(h) \/ Update(h) \/ Delete(h)
      PROVE  ReqStep(h) \/ \E row : Stores(h, row)
  <2>1. At(h, "write") /\ UNCHANGED <<nextId, accepted, bus>>
    BY <1>1, WriteCases
  <2>2. CASE Finish(h) /\ UNCHANGED <<rows, walk, past>>
    BY <2>1, <2>2 DEF ReqStep
  <2>3. CASE \E row : /\ Writable(req[h].id, row) /\ Store(req[h].id, row) /\ Announce(h, row)
                      /\ req[h].op = "created" => row.owner = req[h].token.user
                      /\ req[h].op # "created" => req[h].id \in DOMAIN rows
                      /\ row.deleted <=> req[h].op = "deleted"
    BY <2>1, <2>3 DEF Stores
  <2> QED
    BY <1>1, <2>2, <2>3, WriteCases
<1>2. ASSUME NEW h \in Handlers, Abort(h) PROVE ReqStep(h)
  BY <1>2 DEF Abort, ReqStep
<1>3. ASSUME NEW h \in Handlers, Guard(h) \/ ReadOwner(h) PROVE ReqStep(h)
  BY <1>3 DEF Guard, ReadOwner, ReqStep
<1>4. ASSUME NEW h \in Handlers, NEW t \in Tokens,
             \/ \E name \in Names : ReceiveCreate(h, t, name)
             \/ \E i \in DOMAIN rows :
                 \/ \E name \in Names : ReceiveUpdate(h, t, i, name)
                 \/ ReceiveDelete(h, t, i)
      PROVE  ReqStep(h)
  <2>1. UNCHANGED <<rows, bus, walk, past>>
    BY <1>4 DEF ReceiveCreate, ReceiveUpdate, ReceiveDelete
  <2> QED
    BY <1>4, <2>1 DEF ReqStep
<1>5. ASSUME NEW h \in Handlers, Writing(h)
      PROVE  ReqStep(h) \/ (\E row : Stores(h, row)) \/ Publish(h)
  BY <1>5, <1>1, <1>2, <1>3, <1>4 DEF Writing
<1> QED
  BY <1>5 DEF Next, StreamStep

\* Owners never change and rows are never taken away.
LEMMA Grows ==
    ASSUME TypeOK, Pending, [Next]_vars
    PROVE  Growing
<1>a. nextId \in Nat /\ nextId <= nextId /\ nextId + 1 \in Nat /\ nextId <= nextId + 1
  BY DEF TypeOK
<1>1. ASSUME rows' = rows, past' = past, nextId' = nextId \/ nextId' = nextId + 1
      PROVE  Growing
  BY <1>1, <1>a DEF Growing
<1>2. ASSUME NEW h \in Handlers, ReqStep(h)
      PROVE  Growing
  <2>1. nextId' = nextId \/ nextId' = nextId + 1
    BY <1>2 DEF ReqStep, ReceiveCreate, ReceiveUpdate, ReceiveDelete, Guard, ReadOwner
  <2> QED
    BY <1>2, <2>1, <1>1 DEF ReqStep
<1>3. ASSUME NEW h \in Handlers, NEW row, Stores(h, row)
      PROVE  Growing
  BY <1>3, Stored DEF Stores
<1>4. ASSUME NEW h \in Handlers, Publish(h) PROVE Growing
  BY <1>4, <1>1 DEF Publish
<1>5. ASSUME NEW s \in Clients, StreamStep(s) PROVE Growing
  BY <1>5, <1>1 DEF StreamStep, Subscribe, Send, EndStream
<1>6. ASSUME NEW c \in Clients, Walking(c) PROVE Growing
  BY <1>6, <1>1 DEF Walking, Start, CursorPage, ReadAnchor, OffsetPage, Total, EndWalk
<1>7. CASE UNCHANGED vars
  BY <1>7, <1>1 DEF vars
<1> QED
  BY <1>2, <1>3, <1>4, <1>5, <1>6, <1>7, StepKinds

\* A handler whose request is as it was, or has no row in hand any more, and an
\* id that was not taken by the step.
LEMMA StillPending ==
    ASSUME Pending, Growing, NEW g \in Handlers, req'[g] = req[g],
           Creating(g) => req[g].id \notin DOMAIN rows'
    PROVE  /\ Creating(g)' => Creating(g) /\ req'[g].id = req[g].id /\ req'[g].id \notin DOMAIN rows'
           /\ Changing(g)' => /\ req'[g].id \in DOMAIN rows'
                              /\ Allows(Access(req[g].token, "widgets:write:all"), rows[req[g].id].owner)'
<1>1. /\ Creating(g)' <=> Creating(g)
      /\ Changing(g)' <=> Changing(g)
  BY DEF Creating, Changing, At
<1>2. ASSUME Changing(g)
      PROVE  /\ req[g].id \in DOMAIN rows'
             /\ rows'[req[g].id].owner = rows[req[g].id].owner
             /\ Allows(Access(req[g].token, "widgets:write:all"), rows[req[g].id].owner)
  BY <1>2 DEF Pending, Growing
<1> QED
  BY <1>1, <1>2 DEF Access

\* The ids and rows in hand stay apart.
LEMMA PendingNext == TypeOK /\ Pending /\ [Next]_vars => Pending'
<1> SUFFICES ASSUME TypeOK, Pending, [Next]_vars PROVE Pending'
  OBVIOUS
<1>g. Growing
  BY Grows
<1>r. req \in [Handlers -> Requests \cup {Idle}]
  BY DEF TypeOK
<1>1. ASSUME \A g \in Handlers : req'[g] = req[g] \/ ~(Creating(g)' \/ Changing(g)'),
             \A g \in Handlers : (Creating(g) /\ req'[g] = req[g]) => req[g].id \notin DOMAIN rows'
      PROVE  Pending'
  <2>1. ASSUME NEW g \in Handlers
        PROVE  /\ Creating(g)' => Creating(g) /\ req'[g].id = req[g].id /\ req'[g].id \notin DOMAIN rows'
               /\ Changing(g)' => /\ req'[g].id \in DOMAIN rows'
                                  /\ Allows(Access(req[g].token, "widgets:write:all"), rows[req[g].id].owner)'
    BY <1>1, <1>g, StillPending
  <2>2. \A g, h \in Handlers : (Creating(g)' /\ Creating(h)' /\ req'[g].id = req'[h].id) => g = h
    BY <2>1 DEF Pending
  <2> QED
    BY <2>1, <2>2 DEF Pending
<1>2. ASSUME req' = req, rows' = rows
      PROVE  Pending'
  BY <1>1, <1>2 DEF Pending
<1>3. ASSUME NEW h \in Handlers, ReqStep(h)
      PROVE  Pending'
  <2>0. rows' = rows
    BY <1>3 DEF ReqStep
  <2>1. CASE Finish(h)
    <3>1. \A g \in Handlers : req'[g] = req[g] \/ req'[g] = Idle
      BY <2>1, <1>r DEF Finish
    <3>2. \A g \in Handlers : req'[g] = Idle => ~(Creating(g)' \/ Changing(g)')
      BY DEF Idle, Creating, Changing, At
    <3> QED
      BY <1>1, <2>0, <3>1, <3>2 DEF Pending
  <2>2. ASSUME NEW t \in Tokens, NEW i \in DOMAIN rows,
               (\E name \in Names : ReceiveUpdate(h, t, i, name)) \/ ReceiveDelete(h, t, i)
        PROVE  Pending'
    <3>1. \A g \in Handlers : req'[g] = req[g] \/ req'[g].phase = "guard"
      BY <2>2, <1>r DEF ReceiveUpdate, ReceiveDelete
    <3>2. \A g \in Handlers : req'[g].phase = "guard" => ~(Creating(g)' \/ Changing(g)')
      BY DEF Creating, Changing, At
    <3> QED
      BY <1>1, <2>0, <3>1, <3>2 DEF Pending
  <2>3. ASSUME NEW t \in Tokens, NEW name \in Names, ReceiveCreate(h, t, name)
        PROVE  Pending'
    <3>1. req' = [req EXCEPT ![h] =
            [phase |-> "write", op |-> "created", token |-> t, id |-> nextId, name |-> name]]
      BY <2>3 DEF ReceiveCreate
    <3>2. nextId \notin Ids /\ DOMAIN rows \subseteq Ids
      BY DEF Ids, TypeOK
    <3>3. Creating(h)' /\ ~Changing(h)' /\ req'[h].id = nextId
      BY <3>1, <1>r DEF Creating, Changing, At
    <3>4. \A g \in Handlers : Creating(g) => req[g].id \in Ids
      BY ReqCases DEF Creating
    <3>5. ASSUME NEW g \in Handlers, g # h
          PROVE  /\ req'[g] = req[g]
                 /\ Creating(g)' => Creating(g) /\ req'[g].id = req[g].id /\ req'[g].id \notin DOMAIN rows'
                 /\ Changing(g)' => /\ req'[g].id \in DOMAIN rows'
                                    /\ Allows(Access(req[g].token, "widgets:write:all"), rows[req[g].id].owner)'
      <4>1. req'[g] = req[g]
        BY <3>1, <3>5, <1>r
      <4>2. Creating(g) => req[g].id \notin DOMAIN rows'
        BY <2>0 DEF Pending
      <4> QED
        BY <4>1, <4>2, <1>g, StillPending
    <3>6. \A g, k \in Handlers : (Creating(g)' /\ Creating(k)' /\ req'[g].id = req'[k].id) => g = k
      BY <3>2, <3>3, <3>4, <3>5 DEF Pending
    <3>7. nextId \notin DOMAIN rows'
      BY <2>0, <3>2
    <3> QED
      BY <3>3, <3>5, <3>6, <3>7 DEF Pending
  <2>4. CASE Guard(h)
    <3>1. CASE ~MayChange(req[h].token, req[h].id)
      <4>1. \A g \in Handlers : req'[g] = req[g] \/ req'[g] = Idle
        BY <2>4, <3>1, <1>r DEF Guard
      <4>2. \A g \in Handlers : req'[g] = Idle => ~(Creating(g)' \/ Changing(g)')
        BY DEF Idle, Creating, Changing, At
      <4> QED
        BY <1>1, <2>0, <4>1, <4>2 DEF Pending
    <3>2. CASE MayChange(req[h].token, req[h].id)
      <4>1. req'[h] = [req[h] EXCEPT !.phase = IF req[h].op = "deleted" THEN "read" ELSE "write"]
        BY <2>4, <3>2, <1>r DEF Guard
      <4>2. \A g \in Handlers \ {h} : req'[g] = req[g]
        BY <2>4, <1>r DEF Guard
      <4>3. At(h, "guard")
        BY <2>4 DEF Guard
      <4>4. /\ req'[h].id = req[h].id /\ req'[h].token = req[h].token
            /\ ~Creating(h)'
        <5>1. req[h].op \in {"updated", "deleted"}
          BY <4>3, ReqCases
        <5>2. /\ req'[h].id = req[h].id /\ req'[h].token = req[h].token /\ req'[h].op = req[h].op
          BY <4>1, <4>3, ReqCases
        <5> QED
          BY <5>1, <5>2 DEF Creating
      <4>5. /\ req[h].id \in DOMAIN rows
            /\ Allows(Access(req[h].token, "widgets:write:all"), rows[req[h].id].owner)
        BY <3>2 DEF MayChange, Alive
      <4>6. Allows(Access(req[h].token, "widgets:write:all"), rows[req[h].id].owner)'
        BY <4>4, <4>5, <2>0 DEF Access
      <4>7. ASSUME NEW g \in Handlers, g # h
            PROVE  /\ Creating(g)' => Creating(g) /\ req'[g].id = req[g].id /\ req'[g].id \notin DOMAIN rows'
                   /\ Changing(g)' => /\ req'[g].id \in DOMAIN rows'
                                      /\ Allows(Access(req[g].token, "widgets:write:all"), rows[req[g].id].owner)'
        <5>1. Creating(g) => req[g].id \notin DOMAIN rows'
          BY <2>0 DEF Pending
        <5> QED
          BY <5>1, <4>2, <4>7, <1>g, StillPending
      <4>8. \A g, k \in Handlers : (Creating(g)' /\ Creating(k)' /\ req'[g].id = req'[k].id) => g = k
        BY <4>4, <4>7 DEF Pending
      <4>9. req'[h].id \in DOMAIN rows'
        BY <4>4, <4>5, <2>0
      <4> QED
        BY <4>4, <4>6, <4>7, <4>8, <4>9 DEF Pending
    <3> QED
      BY <3>1, <3>2
  <2>5. CASE ReadOwner(h)
    <3>1. CASE req[h].id \notin Alive
      <4>1. \A g \in Handlers : req'[g] = req[g] \/ req'[g] = Idle
        BY <2>5, <3>1, <1>r DEF ReadOwner
      <4>2. \A g \in Handlers : req'[g] = Idle => ~(Creating(g)' \/ Changing(g)')
        BY DEF Idle, Creating, Changing, At
      <4> QED
        BY <1>1, <2>0, <4>1, <4>2 DEF Pending
    <3>2. CASE req[h].id \in Alive
      <4>1. req'[h] = [req[h] EXCEPT !.phase = "write"]
        BY <2>5, <3>2, <1>r DEF ReadOwner
      <4>2. \A g \in Handlers \ {h} : req'[g] = req[g]
        BY <2>5, <1>r DEF ReadOwner
      <4>3. At(h, "read")
        BY <2>5 DEF ReadOwner
      <4>4. req'[h].id = req[h].id /\ req'[h].token = req[h].token /\ ~Creating(h)'
        <5>1. req[h].op = "deleted"
          BY <4>3, ReqCases
        <5>2. req'[h].id = req[h].id /\ req'[h].token = req[h].token /\ req'[h].op = req[h].op
          BY <4>1, <4>3, ReqCases
        <5> QED
          BY <5>1, <5>2 DEF Creating
      <4>5. /\ req[h].id \in DOMAIN rows
            /\ Allows(Access(req[h].token, "widgets:write:all"), rows[req[h].id].owner)
        BY <4>3 DEF Pending, Changing
      <4>6. Allows(Access(req[h].token, "widgets:write:all"), rows[req[h].id].owner)'
        BY <4>4, <4>5, <2>0 DEF Access
      <4>7. ASSUME NEW g \in Handlers, g # h
            PROVE  /\ Creating(g)' => Creating(g) /\ req'[g].id = req[g].id /\ req'[g].id \notin DOMAIN rows'
                   /\ Changing(g)' => /\ req'[g].id \in DOMAIN rows'
                                      /\ Allows(Access(req[g].token, "widgets:write:all"), rows[req[g].id].owner)'
        <5>1. Creating(g) => req[g].id \notin DOMAIN rows'
          BY <2>0 DEF Pending
        <5> QED
          BY <5>1, <4>2, <4>7, <1>g, StillPending
      <4>8. \A g, k \in Handlers : (Creating(g)' /\ Creating(k)' /\ req'[g].id = req'[k].id) => g = k
        BY <4>4, <4>7 DEF Pending
      <4>9. req'[h].id \in DOMAIN rows'
        BY <4>4, <4>5, <2>0
      <4> QED
        BY <4>4, <4>6, <4>7, <4>8, <4>9 DEF Pending
    <3> QED
      BY <3>1, <3>2
  <2> QED
    BY <1>3, <2>1, <2>2, <2>3, <2>4, <2>5 DEF ReqStep
<1>4. ASSUME NEW h \in Handlers, NEW row, Stores(h, row)
      PROVE  Pending'
  <2>1. req'[h].phase = "publish" /\ \A g \in Handlers \ {h} : req'[g] = req[g]
    BY <1>4, <1>r DEF Stores, Announce
  <2>2. \A g \in Handlers : req'[g].phase = "publish" => ~(Creating(g)' \/ Changing(g)')
    BY DEF Creating, Changing, At
  <2>3. DOMAIN rows' = DOMAIN rows \cup {req[h].id}
    BY <1>4, Stored DEF Stores
  <2>4. ASSUME NEW g \in Handlers, Creating(g), req'[g] = req[g]
        PROVE  req[g].id \notin DOMAIN rows'
    <3>1. g # h
      BY <2>1, <2>4 DEF Creating, At
    <3>2. req[g].id # req[h].id
      BY <3>1, <2>4, <1>4 DEF Stores, Pending, Creating
    <3> QED
      BY <3>2, <2>3, <2>4 DEF Pending
  <2> QED
    BY <1>1, <2>1, <2>2, <2>4
<1>5. ASSUME NEW h \in Handlers, Publish(h)
      PROVE  Pending'
  <2>1. rows' = rows /\ \A g \in Handlers : req'[g] = req[g] \/ req'[g] = Idle
    BY <1>5, <1>r DEF Publish, Finish
  <2>2. \A g \in Handlers : req'[g] = Idle => ~(Creating(g)' \/ Changing(g)')
    BY DEF Idle, Creating, Changing, At
  <2> QED
    BY <1>1, <2>1, <2>2 DEF Pending
<1>6. ASSUME NEW s \in Clients, StreamStep(s) PROVE Pending'
  BY <1>6, <1>2 DEF StreamStep, Subscribe, Send, EndStream
<1>7. ASSUME NEW c \in Clients, Walking(c) PROVE Pending'
  BY <1>7, <1>2 DEF Walking, Start, CursorPage, ReadAnchor, OffsetPage, Total, EndWalk
<1>8. CASE UNCHANGED vars
  BY <1>8, <1>2 DEF vars
<1> QED
  BY <1>3, <1>4, <1>5, <1>6, <1>7, <1>8, StepKinds

-------------------------------------------------------------------------------
(* Frames.                                                                  *)

\* What a publication leaves in a stream: what was there, or that without its
\* oldest frame, and the new one.
LEMMA PublishQueue ==
    ASSUME TypeOK, NEW h \in Handlers, Publish(h), NEW s \in Clients
    PROVE  /\ stream'[s].open = stream[s].open
           /\ stream[s].open => /\ stream'[s].access = stream[s].access
                                /\ stream'[s].token = stream[s].token
           /\ \/ Queue(s)' = Queue(s)
              \/ \E d \in {0, 1} :
                    /\ Len(Queue(s)') = Len(Queue(s)) + 1 - d
                    /\ \A n \in 1..Len(Queue(s)') - 1 :
                        n + d \in 1..Len(Queue(s)) /\ Queue(s)'[n] = Queue(s)[n + d]
                    /\ Queue(s)'[Len(Queue(s)')] = req[h].frame
<1>1. PICK reached \in SUBSET {c \in Clients : stream[c].open} :
        stream' = [c \in Clients |->
            IF c \in reached
            THEN [stream[c] EXCEPT !.queue = Kept(Append(@, req[h].frame))]
            ELSE stream[c]]
  BY DEF Publish
<1>2. CASE s \notin reached
  BY <1>1, <1>2 DEF Queue
<1>3. CASE s \in reached
  <2>0. PICK f, q, k : f = req[h].frame /\ q = stream[s].queue /\ k = Pushed(q, f)
    OBVIOUS
  <2>1. stream[s].open /\ stream[s] \in Streams
    BY <1>3, StreamCases
  <2>2. q \in Seq(Frames) /\ Len(q) <= Capacity /\ f \in Frames
    BY <2>0, <2>1, ReqCases DEF Streams, TypeOK, Publish
  <2>3. stream'[s] = [stream[s] EXCEPT !.queue = k]
    BY <2>0, <1>1, <1>3 DEF Pushed
  <2>4. /\ stream'[s].open /\ stream'[s].access = stream[s].access
        /\ stream'[s].token = stream[s].token /\ stream'[s].queue = k
    BY <2>1, <2>3 DEF Streams
  <2>5. Queue(s) = q /\ Queue(s)' = k
    BY <2>0, <2>1, <2>4 DEF Queue
  <2>6. k = Pushed(q, f)
    BY <2>0
  <2>9. Len(q) \in Nat /\ Len(k) \in 1..Capacity /\ Shifted(q, f, k)
    BY <2>2, <2>6, KeptFrames
  <2>7. CASE Len(k) = Len(q) + 1 /\ \A n \in 1..Len(q) : k[n] = q[n]
    <3>1. /\ Len(k) = Len(q) + 1 - 0
          /\ \A n \in 1..Len(k) - 1 : n + 0 \in 1..Len(q) /\ k[n] = q[n + 0]
      BY <2>7, <2>9
    <3> QED
      BY <3>1, <2>0, <2>1, <2>4, <2>5, <2>9 DEF Shifted
  <2>8. CASE Len(k) = Len(q) /\ \A n \in 1..Len(q) - 1 : k[n] = q[n + 1]
    <3>1. /\ Len(k) = Len(q) + 1 - 1
          /\ \A n \in 1..Len(k) - 1 : n + 1 \in 1..Len(q) /\ k[n] = q[n + 1]
      BY <2>8, <2>9
    <3> QED
      BY <3>1, <2>0, <2>1, <2>4, <2>5, <2>9 DEF Shifted
  <2> QED
    BY <2>7, <2>8, <2>9 DEF Shifted
<1> QED
  BY <1>2, <1>3

\* What sending leaves in a stream: all but the oldest frame, which the client
\* has now seen unless it may not.
LEMMA SendQueue ==
    ASSUME TypeOK, NEW s \in Clients, Send(s)
    PROVE  /\ stream[s].open /\ stream'[s].open
           /\ stream'[s].access = stream[s].access /\ stream'[s].token = stream[s].token
           /\ Len(Queue(s)) \in Nat \ {0} /\ Len(Queue(s)') = Len(Queue(s)) - 1
           /\ \A n \in 1..Len(Queue(s)') : Queue(s)'[n] = Queue(s)[n + 1]
           /\ \/ seen' = seen
              \/ /\ Allows(stream[s].access, Queue(s)[1].owner)
                 /\ Len(seen'[s]) = Len(seen[s]) + 1
                 /\ \A n \in 1..Len(seen[s]) : seen'[s][n] = seen[s][n]
                 /\ seen'[s][Len(seen[s]) + 1] = Queue(s)[1]
           /\ \A c \in Clients \ {s} : stream'[c] = stream[c] /\ seen'[c] = seen[c]
<1>1. /\ stream[s].open /\ stream[s].queue # << >>
      /\ stream' = [stream EXCEPT ![s].queue = Tail(@)]
      /\ seen' = IF Allows(stream[s].access, Head(stream[s].queue).owner)
                 THEN [seen EXCEPT ![s] = Append(@, Head(stream[s].queue))]
                 ELSE seen
  BY DEF Send
<1>2. stream[s] \in Streams /\ stream[s].queue \in Seq(Frames) /\ seen[s] \in Seq(Frames)
  BY <1>1, StreamCases DEF Streams
<1> DEFINE q == stream[s].queue
<1>3. /\ Tail(q) \in Seq(Frames) /\ Head(q) \in Frames /\ Head(q) = q[1]
      /\ Len(Tail(q)) = Len(q) - 1 /\ Len(q) \in Nat \ {0}
      /\ \A n \in 1..Len(Tail(q)) : Tail(q)[n] = q[n + 1]
  BY <1>1, <1>2, HeadTailProperties, LenProperties, EmptySeq
<1>4. stream'[s] = [stream[s] EXCEPT !.queue = Tail(q)]
  BY <1>1 DEF TypeOK
<1>5. /\ stream'[s].open /\ stream'[s].access = stream[s].access
      /\ stream'[s].token = stream[s].token /\ stream'[s].queue = Tail(q)
  BY <1>1, <1>2, <1>4 DEF Streams
<1>6. Queue(s) = q /\ Queue(s)' = Tail(q)
  BY <1>1, <1>5 DEF Queue
<1>7. seen' = seen \/ /\ Allows(stream[s].access, Queue(s)[1].owner)
                      /\ Len(seen'[s]) = Len(seen[s]) + 1
                      /\ \A n \in 1..Len(seen[s]) : seen'[s][n] = seen[s][n]
                      /\ seen'[s][Len(seen[s]) + 1] = Queue(s)[1]
  <2>1. CASE Allows(stream[s].access, Head(q).owner)
    <3>1. seen'[s] = Append(seen[s], Head(q))
      BY <1>1, <2>1 DEF TypeOK
    <3>2. /\ Len(Append(seen[s], Head(q))) = Len(seen[s]) + 1
          /\ \A n \in 1..Len(seen[s]) : Append(seen[s], Head(q))[n] = seen[s][n]
          /\ Append(seen[s], Head(q))[Len(seen[s]) + 1] = Head(q)
      BY <1>2, <1>3, AppendProperties
    <3> QED
      BY <3>1, <3>2, <2>1, <1>3, <1>6
  <2>2. CASE ~Allows(stream[s].access, Head(q).owner)
    BY <2>2, <1>1
  <2> QED
    BY <2>1, <2>2
<1>8. \A c \in Clients \ {s} : stream'[c] = stream[c] /\ seen'[c] = seen[c]
  BY <1>1 DEF TypeOK
<1> QED
  BY <1>1, <1>3, <1>5, <1>6, <1>7, <1>8

\* The other steps of a stream leave it empty.
LEMMA OpenOrEnd ==
    ASSUME TypeOK, NEW s \in Clients, EndStream(s) \/ \E t \in Tokens : Subscribe(s, t)
    PROVE  /\ Queue(s)' = << >>
           /\ seen'[s] = << >> \/ (~stream[s].open /\ seen'[s] = seen[s])
           /\ stream'[s].open => stream'[s].access = Access(stream'[s].token, "widgets:read:all")
           /\ \A c \in Clients \ {s} : stream'[c] = stream[c] /\ seen'[c] = seen[c]
<1>1. CASE EndStream(s)
  <2>1. stream' = [stream EXCEPT ![s] = Closed] /\ seen' = [seen EXCEPT ![s] = << >>]
    BY <1>1 DEF EndStream
  <2>2. stream'[s] = Closed /\ ~Closed.open /\ seen'[s] = << >>
    BY <2>1 DEF TypeOK, Closed
  <2> QED
    BY <2>1, <2>2 DEF Queue, TypeOK
<1>2. ASSUME NEW t \in Tokens, Subscribe(s, t)
      PROVE  /\ Queue(s)' = << >>
             /\ ~stream[s].open /\ seen' = seen
             /\ stream'[s].access = Access(stream'[s].token, "widgets:read:all")
             /\ \A c \in Clients \ {s} : stream'[c] = stream[c]
  <2>1. /\ ~stream[s].open /\ seen' = seen
        /\ stream' = [stream EXCEPT ![s] =
             [open |-> TRUE, token |-> t, access |-> Access(t, "widgets:read:all"), queue |-> << >>]]
    BY <1>2 DEF Subscribe
  <2>2. stream'[s] =
             [open |-> TRUE, token |-> t, access |-> Access(t, "widgets:read:all"), queue |-> << >>]
    BY <2>1 DEF TypeOK
  <2>3. stream'[s].queue = << >> /\ stream'[s].open
    BY <2>2
  <2> QED
    BY <2>1, <2>2, <2>3 DEF Queue, TypeOK
<1> QED
  BY <1>1, <1>2

\* A frame that tells the truth goes on telling it.
LEMMA StaysTrue ==
    ASSUME Growing, NEW f, Truthful(f)
    PROVE  Truthful(f)'
BY DEF Growing, Truthful

\* The frame of a row that was stored tells the truth.
LEMMA NewFrameTrue ==
    ASSUME TypeOK, Pending, NEW h \in Handlers, NEW row, Stores(h, row)
    PROVE  /\ At(h, "publish")' /\ req'[h].token = req[h].token
           /\ req'[h].frame = [type |-> req[h].op, id |-> req[h].id, name |-> row.name, owner |-> row.owner]
           /\ \A f : f = req'[h].frame => Truthful(f)'
           /\ Allows(Access(req[h].token, "widgets:write:all"), row.owner)
           /\ \A g \in Handlers \ {h} : req'[g] = req[g]
<1> DEFINE i == req[h].id
           new == [type |-> req[h].op, id |-> i, name |-> row.name, owner |-> row.owner]
<1>1. req' = [req EXCEPT ![h] = [phase |-> "publish", token |-> req[h].token, frame |-> new]]
  BY DEF Stores, Announce
<1>2. /\ req'[h] = [phase |-> "publish", token |-> req[h].token, frame |-> new]
      /\ \A g \in Handlers \ {h} : req'[g] = req[g]
  BY <1>1 DEF TypeOK
<1>3. /\ i \in DOMAIN rows' /\ rows'[i] = row
      /\ past' = past \cup {[id |-> i, name |-> row.name]}
  <2>1. Writable(i, row) /\ Store(i, row) /\ nextId' = nextId
    BY DEF Stores
  <2>2. /\ DOMAIN rows' = DOMAIN rows \cup {i} /\ rows'[i] = row
        /\ past' = past \cup {[id |-> i, name |-> row.name]}
    BY <2>1, Stored
  <2> QED
    BY <2>2
<1>4. new.type = "deleted" => row.deleted
  BY DEF Stores
<1>5. \A f : f = new => Truthful(f)'
  BY <1>3, <1>4 DEF Truthful
<1>6. Allows(Access(req[h].token, "widgets:write:all"), row.owner)
  <2>1. CASE req[h].op = "created"
    BY <2>1 DEF Stores, Access, DataAccess, Allows
  <2>2. CASE req[h].op # "created"
    BY <2>2 DEF Stores, Pending, Changing, Writable
  <2> QED
    BY <2>1, <2>2
<1> QED
  BY <1>2, <1>5, <1>6 DEF At

\* Who is about to publish was, or has just stored a row.
LEMMA Publishing ==
    ASSUME TypeOK, Pending, [Next]_vars, NEW g \in Handlers, At(g, "publish")'
    PROVE  (At(g, "publish") /\ req'[g] = req[g]) \/ \E row : Stores(g, row)
<1>r. req \in [Handlers -> Requests \cup {Idle}]
  BY DEF TypeOK
<1>p. req'[g].phase = "publish"
  BY DEF At
<1>1. ASSUME NEW h \in Handlers, ReqStep(h)
      PROVE  req'[g] = req[g] \/ req'[g].phase # "publish"
  <2>1. CASE Finish(h)
    BY <2>1, <1>r DEF Finish, Idle
  <2>2. CASE Guard(h)
    <3>1. At(h, "guard") /\ req' = [req EXCEPT ![h] =
            IF ~MayChange(req[h].token, req[h].id) THEN Idle
            ELSE [req[h] EXCEPT !.phase = IF req[h].op = "deleted" THEN "read" ELSE "write"]]
      BY <2>2 DEF Guard
    <3>2. DOMAIN req[h] = DOMAIN [req[h] EXCEPT !.phase = "read"] /\ "phase" \in DOMAIN req[h]
      BY <3>1, ReqCases
    <3> QED
      BY <3>1, <3>2, <1>r DEF Idle
  <2>3. CASE ReadOwner(h)
    <3>1. At(h, "read") /\ req' = [req EXCEPT ![h] =
            IF req[h].id \in Alive THEN [req[h] EXCEPT !.phase = "write"] ELSE Idle]
      BY <2>3 DEF ReadOwner
    <3>2. "phase" \in DOMAIN req[h]
      BY <3>1, ReqCases
    <3> QED
      BY <3>1, <3>2, <1>r DEF Idle
  <2>4. ASSUME NEW t \in Tokens, NEW i \in DOMAIN rows,
               (\E name \in Names : ReceiveUpdate(h, t, i, name)) \/ ReceiveDelete(h, t, i)
        PROVE  req'[g] = req[g] \/ req'[g].phase # "publish"
    BY <2>4, <1>r DEF ReceiveUpdate, ReceiveDelete
  <2>5. ASSUME NEW t \in Tokens, NEW name \in Names, ReceiveCreate(h, t, name)
        PROVE  req'[g] = req[g] \/ req'[g].phase # "publish"
    BY <2>5, <1>r DEF ReceiveCreate
  <2> QED
    BY <1>1, <2>1, <2>2, <2>3, <2>4, <2>5 DEF ReqStep
<1>2. ASSUME NEW h \in Handlers, NEW row, Stores(h, row)
      PROVE  req'[g] = req[g] \/ \E r : Stores(g, r)
  <2>1. g # h => req'[g] = req[g]
    BY <1>2, <1>r DEF Stores, Announce
  <2> QED
    BY <2>1, <1>2
<1>3. ASSUME NEW h \in Handlers, Publish(h)
      PROVE  req'[g] = req[g]
  BY <1>3, <1>p, <1>r DEF Publish, Finish, Idle
<1>4. ASSUME NEW s \in Clients, StreamStep(s) PROVE req' = req
  BY <1>4 DEF StreamStep, Subscribe, Send, EndStream
<1>5. ASSUME NEW c \in Clients, Walking(c) PROVE req' = req
  BY <1>5 DEF Walking, Start, CursorPage, ReadAnchor, OffsetPage, Total, EndWalk
<1>6. CASE UNCHANGED vars
  BY <1>6, <1>p DEF vars, At
<1>7. req'[g] = req[g] \/ \E row : Stores(g, row)
  BY <1>1, <1>2, <1>3, <1>4, <1>5, <1>6, <1>p, StepKinds
<1> QED
  BY <1>7, <1>p DEF At

\* What the streams hold and have sent is only changed by a publication and by
\* their own steps.
LEMMA BusKinds ==
    ASSUME TypeOK, Pending, [Next]_vars
    PROVE  \/ stream' = stream /\ seen' = seen /\ \A s \in Clients : Queue(s)' = Queue(s)
           \/ \E h \in Handlers : Publish(h)
           \/ \E s \in Clients : StreamStep(s)
<1>1. ASSUME bus' = bus
      PROVE  stream' = stream /\ seen' = seen /\ \A s \in Clients : Queue(s)' = Queue(s)
  BY <1>1 DEF bus, Queue
<1>2. ASSUME NEW h \in Handlers, ReqStep(h) PROVE bus' = bus
  BY <1>2 DEF ReqStep
<1>3. ASSUME NEW h \in Handlers, NEW row, Stores(h, row) PROVE bus' = bus
  BY <1>3 DEF Stores
<1>4. ASSUME NEW c \in Clients, Walking(c) PROVE bus' = bus
  BY <1>4 DEF Walking, Start, CursorPage, ReadAnchor, OffsetPage, Total, EndWalk
<1>5. CASE UNCHANGED vars
  BY <1>5, <1>1 DEF vars
<1> QED
  BY <1>1, <1>2, <1>3, <1>4, <1>5, StepKinds

\* Frames keep telling the truth, and go to those who may see them.
LEMMA FramesTrueNext == TypeOK /\ Pending /\ FramesTrue /\ [Next]_vars => FramesTrue'
<1> SUFFICES ASSUME TypeOK, Pending, FramesTrue, [Next]_vars PROVE FramesTrue'
  OBVIOUS
<1>1. \A f : Truthful(f) => Truthful(f)'
  BY Grows, StaysTrue
<1>2. ASSUME NEW g \in Handlers, At(g, "publish")'
      PROVE  /\ Truthful(req[g].frame)'
             /\ Allows(Access(req[g].token, "widgets:write:all"), req[g].frame.owner)'
  <2>1. CASE At(g, "publish") /\ req'[g] = req[g]
    <3>1. /\ Truthful(req[g].frame)
          /\ Allows(Access(req[g].token, "widgets:write:all"), req[g].frame.owner)
      BY <2>1 DEF FramesTrue
    <3> QED
      BY <2>1, <3>1, <1>1 DEF Truthful, Access
  <2>2. ASSUME NEW row, Stores(g, row)
        PROVE  /\ Truthful(req[g].frame)'
               /\ Allows(Access(req[g].token, "widgets:write:all"), req[g].frame.owner)'
    <3>1. /\ req'[g].token = req[g].token
          /\ req'[g].frame = [type |-> req[g].op, id |-> req[g].id, name |-> row.name, owner |-> row.owner]
          /\ \A f : f = req'[g].frame => Truthful(f)'
          /\ Allows(Access(req[g].token, "widgets:write:all"), row.owner)
      BY <2>2, NewFrameTrue
    <3>2. Truthful(req[g].frame)'
      BY <3>1 DEF Truthful
    <3> QED
      BY <3>1, <3>2 DEF Access
  <2> QED
    BY <1>2, <2>1, <2>2, Publishing
<1>3. ASSUME NEW s \in Clients
      PROVE  StreamTrue(s)'
  <2>0. /\ \A n \in 1..Len(seen[s]) : Truthful(seen[s][n])
        /\ \A n \in 1..Len(Queue(s)) : Truthful(Queue(s)[n])
        /\ ~stream[s].open => seen[s] = << >>
        /\ stream[s].open =>
            /\ stream[s].access = Access(stream[s].token, "widgets:read:all")
            /\ \A n \in 1..Len(seen[s]) : Allows(stream[s].access, seen[s][n].owner)
    BY DEF FramesTrue, StreamTrue, AllTruthful
  <2>1. CASE stream'[s] = stream[s] /\ seen'[s] = seen[s] /\ Queue(s)' = Queue(s)
    <3>1. AllTruthful(seen[s])' /\ AllTruthful(Queue(s))'
      BY <2>0, <2>1, <1>1 DEF AllTruthful, Truthful
    <3> QED
      BY <3>1, <2>0, <2>1 DEF StreamTrue, Access
  <2>2. ASSUME NEW h \in Handlers, Publish(h)
        PROVE  StreamTrue(s)'
    <3>1. /\ stream'[s].open = stream[s].open
          /\ stream[s].open => /\ stream'[s].access = stream[s].access
                               /\ stream'[s].token = stream[s].token
          /\ seen' = seen
      BY <2>2, PublishQueue DEF Publish
    <3>2. AllTruthful(seen[s])'
      BY <2>0, <3>1, <1>1 DEF AllTruthful, Truthful
    <3>3. \A n \in 1..Len(Queue(s)') : \/ Queue(s)'[n] = req[h].frame
                                      \/ \E m \in 1..Len(Queue(s)) : Queue(s)'[n] = Queue(s)[m]
      <4>1. CASE Queue(s)' = Queue(s)
        BY <4>1
      <4>2. ASSUME NEW d \in {0, 1},
                   Len(Queue(s)') = Len(Queue(s)) + 1 - d,
                   \A n \in 1..Len(Queue(s)') - 1 :
                        n + d \in 1..Len(Queue(s)) /\ Queue(s)'[n] = Queue(s)[n + d],
                   Queue(s)'[Len(Queue(s)')] = req[h].frame
            PROVE  \A n \in 1..Len(Queue(s)') : \/ Queue(s)'[n] = req[h].frame
                                               \/ \E m \in 1..Len(Queue(s)) : Queue(s)'[n] = Queue(s)[m]
        <5>1. Len(Queue(s)) \in Nat
          BY StreamCases, LenProperties
        <5>2. Len(Queue(s)') \in Int
          BY <5>1, <4>2
        <5> QED
          BY <4>2, <5>2
      <4> QED
        BY <2>2, <4>1, <4>2, PublishQueue
    <3>4. Truthful(req[h].frame)
      BY <2>2 DEF FramesTrue, Publish
    <3>5. ASSUME NEW n \in 1..Len(Queue(s)') PROVE Truthful(Queue(s)[n])'
      <4>1. PICK f : f = Queue(s)'[n]
        OBVIOUS
      <4>2. Truthful(f)'
        BY <4>1, <2>0, <3>3, <3>4, <1>1
      <4> QED
        BY <4>1, <4>2 DEF Truthful
    <3>6. AllTruthful(Queue(s))'
      BY <3>5 DEF AllTruthful
    <3> QED
      BY <2>0, <3>1, <3>2, <3>6 DEF StreamTrue, Access
  <2>3. CASE Send(s)
    <3>1. /\ stream[s].open /\ stream'[s].open
          /\ stream'[s].access = stream[s].access /\ stream'[s].token = stream[s].token
          /\ Len(Queue(s)) \in Nat \ {0} /\ Len(Queue(s)') = Len(Queue(s)) - 1
          /\ \A n \in 1..Len(Queue(s)') : Queue(s)'[n] = Queue(s)[n + 1]
          /\ \/ seen' = seen
             \/ /\ Allows(stream[s].access, Queue(s)[1].owner)
                /\ Len(seen'[s]) = Len(seen[s]) + 1
                /\ \A n \in 1..Len(seen[s]) : seen'[s][n] = seen[s][n]
                /\ seen'[s][Len(seen[s]) + 1] = Queue(s)[1]
      BY <2>3, SendQueue
    <3>2. \A n \in 1..Len(Queue(s)') : \E m \in 1..Len(Queue(s)) : Queue(s)'[n] = Queue(s)[m]
      BY <3>1
    <3>3. AllTruthful(Queue(s))'
      <4>1. ASSUME NEW n \in 1..Len(Queue(s)') PROVE Truthful(Queue(s)[n])'
        <5>1. PICK f : f = Queue(s)'[n]
          OBVIOUS
        <5>2. Truthful(f)'
          BY <5>1, <2>0, <3>2, <1>1
        <5> QED
          BY <5>1, <5>2 DEF Truthful
      <4> QED
        BY <4>1 DEF AllTruthful
    <3>4. Len(seen[s]) \in Nat /\ 1 \in 1..Len(Queue(s))
      BY <3>1, StreamCases, LenProperties
    <3>5. ASSUME NEW n \in 1..Len(seen'[s])
          PROVE  \/ n \in 1..Len(seen[s]) /\ seen'[s][n] = seen[s][n]
                 \/ seen'[s][n] = Queue(s)[1] /\ Allows(stream[s].access, Queue(s)[1].owner)
      BY <3>1, <3>4
    <3>6. AllTruthful(seen[s])'
      <4>1. ASSUME NEW n \in 1..Len(seen'[s]) PROVE Truthful(seen[s][n])'
        <5>1. PICK f : f = seen'[s][n]
          OBVIOUS
        <5>2. Truthful(f)'
          BY <5>1, <2>0, <3>4, <3>5, <1>1
        <5> QED
          BY <5>1, <5>2 DEF Truthful
      <4> QED
        BY <4>1 DEF AllTruthful
    <3>7. \A n \in 1..Len(seen'[s]) : Allows(stream'[s].access, seen'[s][n].owner)
      BY <2>0, <3>1, <3>5
    <3> QED
      BY <2>0, <3>1, <3>3, <3>6, <3>7 DEF StreamTrue, Access
  <2>4. CASE EndStream(s) \/ \E t \in Tokens : Subscribe(s, t)
    <3>1. /\ Queue(s)' = << >>
          /\ seen'[s] = << >> \/ (~stream[s].open /\ seen'[s] = seen[s])
          /\ stream'[s].open => stream'[s].access = Access(stream'[s].token, "widgets:read:all")
      BY <2>4, OpenOrEnd
    <3>2. seen'[s] = << >>
      BY <3>1, <2>0
    <3> QED
      BY <3>1, <3>2 DEF StreamTrue, AllTruthful, Access
  <2>5. ASSUME NEW c \in Clients, c # s, StreamStep(c)
        PROVE  stream'[s] = stream[s] /\ seen'[s] = seen[s] /\ Queue(s)' = Queue(s)
    <3>1. stream'[s] = stream[s] /\ seen'[s] = seen[s]
      BY <2>5, SendQueue, OpenOrEnd DEF StreamStep
    <3> QED
      BY <3>1 DEF Queue
  <2> QED
    BY <2>1, <2>2, <2>3, <2>4, <2>5, BusKinds DEF StreamStep
<1> QED
  BY <1>2, <1>3 DEF FramesTrue

\* The frame of a row that was stored is new: the row was not there, or was not
\* deleted, when the others were made.
LEMMA NewFrameApart ==
    ASSUME TypeOK, Pending, NEW h \in Handlers, NEW row, Stores(h, row),
           NEW f, Truthful(f)
    PROVE  ~Same(f, req'[h].frame) /\ ~Same(req'[h].frame, f)
<1>1. req'[h].frame = [type |-> req[h].op, id |-> req[h].id, name |-> row.name, owner |-> row.owner]
  BY NewFrameTrue
<1>2. req'[h].frame.type = req[h].op /\ req'[h].frame.id = req[h].id
  BY <1>1
<1>3. req[h].op \in {"created", "updated", "deleted"}
  BY ReqCases DEF Stores
<1>4. CASE req[h].op = "created"
  <2>1. req[h].id \notin DOMAIN rows
    BY <1>4 DEF Stores, Pending, Creating
  <2> QED
    BY <2>1, <1>2 DEF Same, Truthful
<1>5. CASE req[h].op = "deleted"
  <2>1. ~rows[req[h].id].deleted
    BY <1>5 DEF Stores, Writable
  <2> QED
    BY <2>1, <1>2, <1>5 DEF Same, Truthful
<1>6. CASE req[h].op = "updated"
  BY <1>2, <1>6 DEF Same
<1> QED
  BY <1>3, <1>4, <1>5, <1>6

\* A queue with a new frame, or without its oldest one, or with both, has no
\* frame twice when it had none and the new one is not in it.
LEMMA DistinctQueue ==
    ASSUME NEW q, NEW k, NEW f, NEW d \in {0, 1}, Len(q) \in Nat, Len(k) \in Nat,
           \A n \in 1..Len(k) - 1 : n + d \in 1..Len(q) /\ k[n] = q[n + d],
           k[Len(k)] = f, Distinct(q), Apart(q, f)
    PROVE  Distinct(k)
<1>1. SUFFICES ASSUME NEW m \in 1..Len(k), NEW n \in 1..Len(k), Same(k[m], k[n]), m # n PROVE FALSE
  BY DEF Distinct
<1>2. CASE m < Len(k) /\ n < Len(k)
  <2>1. /\ m \in 1..Len(k) - 1 /\ n \in 1..Len(k) - 1
        /\ k[m] = q[m + d] /\ k[n] = q[n + d] /\ m + d \in 1..Len(q) /\ n + d \in 1..Len(q)
    BY <1>2
  <2>2. m + d = n + d
    BY <2>1, <1>1 DEF Distinct
  <2> QED
    BY <2>2, <1>1
<1>3. CASE m = Len(k) /\ n < Len(k)
  <2>1. k[n] = q[n + d] /\ n + d \in 1..Len(q) /\ k[m] = f
    BY <1>3
  <2>2. Same(q[n + d], f)
    BY <2>1, <1>1 DEF Same
  <2> QED
    BY <2>1, <2>2 DEF Apart
<1>4. CASE n = Len(k) /\ m < Len(k)
  <2>1. k[m] = q[m + d] /\ m + d \in 1..Len(q) /\ k[n] = f
    BY <1>4
  <2>2. Same(q[m + d], f)
    BY <2>1, <1>1
  <2> QED
    BY <2>1, <2>2 DEF Apart
<1> QED
  BY <1>1, <1>2, <1>3, <1>4

\* A step of the others changes nothing of a stream, and lets nobody publish what
\* the stream has already.
LEMMA StreamKept ==
    ASSUME TypeOK, Pending, FramesTrue, FramesOnce, [Next]_vars, NEW s \in Clients,
           seen'[s] = seen[s], Queue(s)' = Queue(s)
    PROVE  StreamOnce(s)'
<1>1. StreamOnce(s)
  BY DEF FramesOnce
<1>2. ASSUME NEW g \in Handlers, At(g, "publish")'
      PROVE  Apart(seen[s], req'[g].frame) /\ Apart(Queue(s), req'[g].frame)
  <2>1. CASE At(g, "publish") /\ req'[g] = req[g]
    BY <2>1, <1>1 DEF StreamOnce
  <2>2. ASSUME NEW row, Stores(g, row)
        PROVE  Apart(seen[s], req'[g].frame) /\ Apart(Queue(s), req'[g].frame)
    <3>1. /\ \A n \in 1..Len(seen[s]) : Truthful(seen[s][n])
          /\ \A n \in 1..Len(Queue(s)) : Truthful(Queue(s)[n])
      BY DEF FramesTrue, StreamTrue, AllTruthful
    <3>2. \A f : Truthful(f) => ~Same(f, req'[g].frame)
      BY <2>2, NewFrameApart
    <3> QED
      BY <3>1, <3>2 DEF Apart
  <2> QED
    BY <1>2, <2>1, <2>2, Publishing
<1> QED
  BY <1>1, <1>2 DEF StreamOnce

\* Publishing moves a frame from a handler into the streams.
LEMMA StreamPublished ==
    ASSUME TypeOK, FramesOnce, NEW h \in Handlers, Publish(h), NEW s \in Clients
    PROVE  StreamOnce(s)'
<1> DEFINE f == req[h].frame
<1>1. /\ At(h, "publish") /\ seen' = seen /\ req'[h] = Idle
      /\ \A g \in Handlers \ {h} : req'[g] = req[g]
  BY DEF Publish, Finish, TypeOK
<1>2. StreamOnce(s) /\ Apart(seen[s], f) /\ Apart(Queue(s), f)
  BY <1>1 DEF FramesOnce, StreamOnce
<1>3. ASSUME NEW g \in Handlers, At(g, "publish")'
      PROVE  /\ g # h /\ At(g, "publish") /\ req'[g] = req[g]
             /\ Apart(seen[s], req[g].frame) /\ Apart(Queue(s), req[g].frame)
             /\ ~Same(f, req[g].frame)
  <2>1. g # h
    BY <1>1, <1>3 DEF At, Idle
  <2>2. req'[g] = req[g] /\ At(g, "publish")
    BY <2>1, <1>1, <1>3 DEF At
  <2> QED
    BY <2>1, <2>2, <1>1 DEF FramesOnce, StreamOnce
<1>4. Len(Queue(s)) \in Nat /\ Len(seen[s]) \in Nat
  BY StreamCases, LenProperties
<1>5. CASE Queue(s)' = Queue(s)
  BY <1>1, <1>2, <1>3, <1>5 DEF StreamOnce
<1>6. ASSUME NEW d \in {0, 1},
             Len(Queue(s)') = Len(Queue(s)) + 1 - d,
             \A n \in 1..Len(Queue(s)') - 1 :
                n + d \in 1..Len(Queue(s)) /\ Queue(s)'[n] = Queue(s)[n + d],
             Queue(s)'[Len(Queue(s)')] = f
      PROVE  StreamOnce(s)'
  <2>1. PICK k : k = Queue(s)'
    OBVIOUS
  <2>2. /\ Len(k) \in Nat /\ k[Len(k)] = f
        /\ \A n \in 1..Len(k) - 1 : n + d \in 1..Len(Queue(s)) /\ k[n] = Queue(s)[n + d]
    BY <2>1, <1>4, <1>6
  <2>3. Distinct(k)
    <3>1. Distinct(Queue(s))
      BY <1>2 DEF StreamOnce
    <3>2. PICK q, x : q = Queue(s) /\ x = f
      OBVIOUS
    <3>3. /\ Len(q) \in Nat /\ Len(k) \in Nat /\ k[Len(k)] = x /\ Distinct(q) /\ Apart(q, x)
          /\ \A n \in 1..Len(k) - 1 : n + d \in 1..Len(q) /\ k[n] = q[n + d]
      BY <2>2, <3>1, <3>2, <1>2, <1>4
    <3> QED
      BY <3>3, DistinctQueue
  <2>4. \A n \in 1..Len(k) : k[n] = f \/ \E m \in 1..Len(Queue(s)) : k[n] = Queue(s)[m]
    BY <2>2
  <2>5. \A n \in 1..Len(k) : Apart(seen[s], k[n])
    BY <2>4, <1>2 DEF StreamOnce
  <2>6. \A g \in Handlers : At(g, "publish")' => Apart(seen[s], req'[g].frame) /\ Apart(k, req'[g].frame)
    BY <2>4, <1>3 DEF Apart
  <2> QED
    BY <2>1, <2>3, <2>5, <2>6, <1>1, <1>2 DEF StreamOnce
<1> QED
  BY <1>5, <1>6, PublishQueue

\* Sending moves one from the stream to the client.
LEMMA StreamSent ==
    ASSUME TypeOK, FramesOnce, NEW s \in Clients, Send(s)
    PROVE  StreamOnce(s)'
<1>1. StreamOnce(s)
  BY DEF FramesOnce
<1>2. req' = req
  BY DEF Send
<1>3. PICK q, k, x, y : q = Queue(s) /\ k = Queue(s)' /\ x = seen[s] /\ y = seen'[s]
  OBVIOUS
<1>4. /\ Len(q) \in Nat \ {0} /\ Len(k) = Len(q) - 1
      /\ \A n \in 1..Len(k) : k[n] = q[n + 1]
      /\ \/ y = x
         \/ /\ Len(y) = Len(x) + 1
            /\ \A n \in 1..Len(x) : y[n] = x[n]
            /\ y[Len(x) + 1] = q[1]
  BY <1>3, SendQueue
<1>5. Len(x) \in Nat
  BY <1>3, StreamCases, LenProperties
<1>6. /\ Distinct(x) /\ Distinct(q) /\ \A n \in 1..Len(q) : Apart(x, q[n])
      /\ \A h \in Handlers : At(h, "publish") => Apart(x, req[h].frame) /\ Apart(q, req[h].frame)
  BY <1>1, <1>3 DEF StreamOnce
<1>7. \A n \in 1..Len(k) : n + 1 \in 1..Len(q) /\ n + 1 # 1 /\ 1 \in 1..Len(q) /\ k[n] = q[n + 1]
  BY <1>4
<1>8. 1 \in 1..Len(q)
  BY <1>4
<1>9. \A n \in 1..Len(y) : (n \in 1..Len(x) /\ y[n] = x[n]) \/ (n = Len(x) + 1 /\ y[n] = q[1])
  BY <1>4, <1>5
<1>10. Distinct(k)
  <2>1. ASSUME NEW m \in 1..Len(k), NEW n \in 1..Len(k), Same(k[m], k[n]) PROVE m = n
    <3>1. m + 1 = n + 1
      BY <2>1, <1>6, <1>7 DEF Distinct
    <3> QED
      BY <3>1
  <2> QED
    BY <2>1 DEF Distinct
<1>11. Distinct(y)
  <2>1. ASSUME NEW m \in 1..Len(y), NEW n \in 1..Len(y), Same(y[m], y[n]) PROVE m = n
    <3>1. \A j \in 1..Len(x) : ~Same(x[j], q[1]) /\ ~Same(q[1], x[j])
      BY <1>6, <1>8 DEF Apart, Same
    <3>2. \A i, j \in 1..Len(x) : Same(x[i], x[j]) => i = j
      BY <1>6 DEF Distinct
    <3> QED
      BY <3>1, <3>2, <2>1, <1>9
  <2> QED
    BY <2>1 DEF Distinct
<1>12. \A n \in 1..Len(k) : Apart(y, k[n])
  <2>1. ASSUME NEW n \in 1..Len(k), NEW m \in 1..Len(y) PROVE ~Same(y[m], k[n])
    <3>1. k[n] = q[n + 1] /\ n + 1 \in 1..Len(q) /\ n + 1 # 1
      BY <1>7
    <3>2. ~Same(q[1], q[n + 1])
      BY <3>1, <1>6, <1>8 DEF Distinct
    <3>3. \A j \in 1..Len(x) : ~Same(x[j], q[n + 1])
      BY <3>1, <1>6 DEF Apart
    <3> QED
      BY <3>1, <3>2, <3>3, <1>9
  <2> QED
    BY <2>1 DEF Apart
<1>13. ASSUME NEW h \in Handlers, At(h, "publish")
       PROVE  Apart(y, req[h].frame) /\ Apart(k, req[h].frame)
  <2>1. /\ \A j \in 1..Len(x) : ~Same(x[j], req[h].frame)
        /\ \A j \in 1..Len(q) : ~Same(q[j], req[h].frame)
    BY <1>6, <1>13 DEF Apart
  <2>2. \A j \in 1..Len(y) : ~Same(y[j], req[h].frame)
    BY <2>1, <1>8, <1>9
  <2>3. \A j \in 1..Len(k) : ~Same(k[j], req[h].frame)
    BY <2>1, <1>7
  <2> QED
    BY <2>2, <2>3 DEF Apart
<1> QED
  BY <1>2, <1>3, <1>10, <1>11, <1>12, <1>13 DEF StreamOnce, At

\* No step makes a frame of a creation or of a deletion twice.
LEMMA FramesOnceNext == TypeOK /\ Pending /\ FramesTrue /\ FramesOnce /\ [Next]_vars => FramesOnce'
<1> SUFFICES ASSUME TypeOK, Pending, FramesTrue, FramesOnce, [Next]_vars PROVE FramesOnce'
  OBVIOUS
<1>1. ASSUME NEW s \in Clients PROVE StreamOnce(s)'
  <2>1. CASE stream' = stream /\ seen' = seen /\ \A c \in Clients : Queue(c)' = Queue(c)
    BY <2>1, StreamKept
  <2>2. ASSUME NEW h \in Handlers, Publish(h) PROVE StreamOnce(s)'
    BY <2>2, StreamPublished
  <2>3. CASE Send(s)
    BY <2>3, StreamSent
  <2>4. CASE EndStream(s) \/ \E t \in Tokens : Subscribe(s, t)
    <3>1. Queue(s)' = << >> /\ seen'[s] = << >>
      BY <2>4, OpenOrEnd DEF FramesTrue, StreamTrue
    <3> QED
      BY <3>1 DEF StreamOnce, Distinct, Apart
  <2>5. ASSUME NEW c \in Clients, c # s, StreamStep(c) PROVE StreamOnce(s)'
    <3>1. stream'[s] = stream[s] /\ seen'[s] = seen[s]
      BY <2>5, SendQueue, OpenOrEnd DEF StreamStep
    <3>2. Queue(s)' = Queue(s)
      BY <3>1 DEF Queue
    <3> QED
      BY <3>1, <3>2, StreamKept
  <2> QED
    BY <2>1, <2>2, <2>3, <2>4, <2>5, BusKinds DEF StreamStep
<1>2. ASSUME NEW g \in Handlers, NEW h \in Handlers, At(g, "publish")', At(h, "publish")',
             Same(req'[g].frame, req'[h].frame), g # h
      PROVE  FALSE
  <2>1. ASSUME NEW row, Stores(g, row) PROVE FALSE
    <3>1. req'[h] = req[h]
      BY <2>1, <1>2, NewFrameTrue
    <3>2. Truthful(req[h].frame)
      BY <3>1, <1>2 DEF FramesTrue, At
    <3> QED
      BY <2>1, <3>1, <3>2, <1>2, NewFrameApart
  <2>2. ASSUME NEW row, Stores(h, row) PROVE FALSE
    <3>1. req'[g] = req[g]
      BY <2>2, <1>2, NewFrameTrue
    <3>2. Truthful(req[g].frame)
      BY <3>1, <1>2 DEF FramesTrue, At
    <3> QED
      BY <2>2, <3>1, <3>2, <1>2, NewFrameApart
  <2>3. CASE At(g, "publish") /\ req'[g] = req[g] /\ At(h, "publish") /\ req'[h] = req[h]
    BY <2>3, <1>2 DEF FramesOnce
  <2> QED
    BY <1>2, <2>1, <2>2, <2>3, Publishing
<1> QED
  BY <1>1, <1>2 DEF FramesOnce

-------------------------------------------------------------------------------
(* Lists.                                                                   *)

\* The order depends on three fields of a walk, and on the rows it is asked for.
LEMMA SameOrder ==
    ASSUME NEW w, NEW v, v.sort = w.sort, v.mode = w.mode, v.order = w.order
    PROVE  /\ \A i : Key(v, i) = Key(w, i)
           /\ \A k, l : Precedes(v, k, l) = Precedes(w, k, l)
           /\ \A S, i : Place(v, S, i) = Place(w, S, i)
<1>1. \A i : Key(v, i) = Key(w, i)
  BY DEF Key
<1>2. \A k, l : Precedes(v, k, l) = Precedes(w, k, l)
  BY DEF Precedes
<1>3. ASSUME NEW S, NEW i PROVE Place(v, S, i) = Place(w, S, i)
  <2>1. {j \in S : Precedes(v, Key(v, j), Key(v, i))} = {j \in S : Precedes(w, Key(w, j), Key(w, i))}
    BY <1>1, <1>2
  <2> QED
    BY <2>1 DEF Place
<1> QED
  BY <1>1, <1>2, <1>3

\* Rows that stay as they are keep their keys, and their places among themselves.
LEMMA SameKeys ==
    ASSUME NEW w, NEW S, S \subseteq DOMAIN rows, \A j \in S : rows'[j] = rows[j]
    PROVE  /\ \A i \in S : Key(w, i)' = Key(w, i)
           /\ \A k, l : Precedes(w, k, l)' = Precedes(w, k, l)
           /\ \A i \in S : Place(w, S, i)' = Place(w, S, i)
           /\ Behind(w, S)' = Behind(w, S)
<1>1. \A i \in S : Key(w, i)' = Key(w, i)
  BY DEF Key
<1>2. \A k, l : Precedes(w, k, l)' = Precedes(w, k, l)
  BY DEF Precedes, Less
<1>3. ASSUME NEW i \in S PROVE Place(w, S, i)' = Place(w, S, i)
  <2>1. {j \in S : Precedes(w, Key(w, j), Key(w, i))}' = {j \in S : Precedes(w, Key(w, j), Key(w, i))}
    BY <1>1, <1>2
  <2> QED
    BY <2>1 DEF Place
<1>4. Behind(w, S)' = Behind(w, S)
  BY <1>1, <1>2 DEF Behind
<1> QED
  BY <1>1, <1>2, <1>3, <1>4

\* As long as the table is what it was, so is all that is said of a walk.
LEMMA SameTable ==
    ASSUME TypeOK, rows' = rows, NEW w, w.steady \subseteq DOMAIN rows,
           Started(w), ByCursor(w), ByPage(w)
    PROVE  Started(w)' /\ ByCursor(w)' /\ ByPage(w)'
<1>1. Listed(w.filter)' = Listed(w.filter)
  BY DEF Listed, Alive
<1>2. /\ \A i \in w.steady : Place(w, w.steady, i)' = Place(w, w.steady, i)
      /\ Behind(w, w.steady)' = Behind(w, w.steady)
  BY SameKeys
<1>3. Started(w)'
  BY <1>1 DEF Started
<1>4. ByCursor(w)'
  BY <1>2 DEF ByCursor
<1>5. ByPage(w)'
  BY <1>1, <1>2 DEF ByPage
<1> QED
  BY <1>3, <1>4, <1>5

\* Facts about a walk that is under way.
LEMMA WalkFacts ==
    ASSUME TypeOK, Paging, NEW c \in Clients, NEW w, w = walk[c], w # Idle
    PROVE  /\ w \in Walks
           /\ Started(w) /\ ByCursor(w) /\ ByPage(w)
           /\ w.steady \subseteq DOMAIN rows /\ w.steady \subseteq Listed(w.filter)
           /\ \A d \in w.got : d \in [page : Nat \ {0}, id : DOMAIN rows]
           /\ w.page \in Nat \ {0}
<1>1. w \in Walks
  BY DEF TypeOK
<1>2. Started(w) /\ ByCursor(w) /\ ByPage(w)
  BY DEF Paging
<1>3. w.steady \subseteq Alive /\ w.got \subseteq [page : Nat \ {0}, id : DOMAIN rows] /\ w.page \in Nat \ {0}
  BY <1>1 DEF Walks
<1> QED
  BY <1>1, <1>2, <1>3 DEF Started, Alive

\* A row that is written leaves the walks it was steady in; a walk that may see it
\* is not quiet any more.
LEMMA WalkStored ==
    ASSUME TypeOK, Pending, Paging, NEW h \in Handlers, NEW row, Stores(h, row),
           NEW c \in Clients, NEW v, v = walk'[c], v # Idle
    PROVE  Started(v)' /\ ByCursor(v)' /\ ByPage(v)'
<1>1. PICK w, i : w = walk[c] /\ i = req[h].id
  OBVIOUS
<1>2. walk'[c] = IF w = Idle THEN Idle
                 ELSE [w EXCEPT !.steady = @ \ {i}, !.quiet = @ /\ ~Allows(w.filter, row.owner)]
  BY <1>1 DEF Stores, Store, Disturbed
<1>3. w # Idle
  BY <1>2
<1>4. /\ w \in Walks
      /\ Started(w) /\ ByCursor(w) /\ ByPage(w)
      /\ w.steady \subseteq DOMAIN rows /\ w.steady \subseteq Listed(w.filter)
      /\ \A d \in w.got : d \in [page : Nat \ {0}, id : DOMAIN rows]
  BY <1>1, <1>3, WalkFacts
<1>5. /\ v.phase = w.phase /\ v.mode = w.mode /\ v.sort = w.sort /\ v.order = w.order
      /\ v.filter = w.filter /\ v.anchor = w.anchor /\ v.page = w.page /\ v.got = w.got
      /\ v.total = w.total /\ v.drift = w.drift
      /\ v.steady = w.steady \ {i}
      /\ v.quiet <=> (w.quiet /\ ~Allows(w.filter, row.owner))
  BY <1>2, <1>3, <1>4 DEF Walks
<1>6. /\ Growing
      /\ DOMAIN rows' = DOMAIN rows \cup {i} /\ rows'[i] = row
      /\ \A j \in DOMAIN rows \ {i} : rows'[j] = rows[j]
      /\ i \in DOMAIN rows => row.owner = rows[i].owner
  <2>1. Writable(i, row) /\ Store(i, row) /\ nextId' = nextId
    BY <1>1 DEF Stores
  <2>2. /\ Growing
        /\ DOMAIN rows' = DOMAIN rows \cup {i} /\ rows'[i] = row
        /\ \A j \in DOMAIN rows \ {i} : rows'[j] = rows[j]
    BY <2>1, Stored
  <2> QED
    BY <2>1, <2>2 DEF Writable
<1>7. /\ \A j : PagesOf(v, j) = PagesOf(w, j)
      /\ \A j : Once(v, j) = Once(w, j)
      /\ Shown(v) = Shown(w)
  BY <1>5 DEF PagesOf, Once, Shown
<1>8. \A j \in v.steady : rows'[j] = rows[j]
  BY <1>4, <1>5, <1>6
<1>9. /\ \A j \in v.steady : Place(v, v.steady, j)' = Place(v, v.steady, j)
      /\ Behind(v, v.steady)' = Behind(v, v.steady)
  BY <1>4, <1>5, <1>8, SameKeys
<1>10. Started(v)'
  <2>1. v.steady \subseteq Listed(v.filter)'
    <3>1. \A j \in v.steady : j \in DOMAIN rows /\ ~rows[j].deleted /\ Allows(w.filter, rows[j].owner)
      BY <1>4, <1>5 DEF Listed, Alive
    <3> QED
      BY <3>1, <1>5, <1>6, <1>8 DEF Listed, Alive
  <2>2. ASSUME NEW d \in v.got PROVE d.page <= Shown(v) /\ Allows(v.filter, rows'[d.id].owner)
    <3>1. d.page <= Shown(w) /\ Allows(w.filter, rows[d.id].owner) /\ d.id \in DOMAIN rows
      BY <1>4, <1>5, <2>2 DEF Started
    <3>2. rows'[d.id].owner = rows[d.id].owner
      BY <3>1, <1>6 DEF Growing
    <3> QED
      BY <3>1, <3>2, <1>5, <1>7
  <2> QED
    BY <2>1, <2>2 DEF Started, Shown, Allows
<1>11. ByCursor(v)'
  <2>1. w.mode = "cursor" =>
          /\ w.phase # "total"
          /\ w.page = 1 => w.phase = "page"
          /\ w.phase = "anchor" => w.anchor[2] \in DOMAIN rows
    BY <1>4 DEF ByCursor
  <2>2. \A j \in v.steady : j \in Behind(v, v.steady) <=> j \in Behind(w, w.steady)
    <3>1. /\ \A j : Key(v, j) = Key(w, j)
          /\ \A k, l : Precedes(v, k, l) = Precedes(w, k, l)
      BY <1>5, SameOrder
    <3> QED
      BY <3>1, <1>5 DEF Behind
  <2>3. (w.mode = "cursor" /\ ~w.drift) => \A j \in w.steady :
            IF w.phase # "done" /\ j \in Behind(w, w.steady) THEN PagesOf(w, j) = {} ELSE Once(w, j)
    BY <1>4 DEF ByCursor
  <2>4. (v.mode = "cursor" /\ ~v.drift) => \A j \in v.steady :
            IF v.phase # "done" /\ j \in Behind(v, v.steady)' THEN PagesOf(v, j) = {} ELSE Once(v, j)
    BY <2>2, <2>3, <1>5, <1>7, <1>9
  <2>5. \A j : PagesOf(v, j)' = PagesOf(v, j) /\ Once(v, j)' = Once(v, j)
    BY DEF PagesOf, Once
  <2> QED
    BY <2>1, <2>4, <2>5, <1>5, <1>6 DEF ByCursor
<1>12. ByPage(v)'
  <2>1. CASE v.mode = "cursor"
    BY <2>1 DEF ByPage
  <2>2. CASE v.mode # "cursor" /\ ~v.quiet
    BY <2>2, <1>4, <1>5 DEF ByPage
  <2>3. CASE v.mode # "cursor" /\ v.quiet
    <3>1. w.quiet /\ ~Allows(w.filter, row.owner)
      BY <2>3, <1>5
    <3>2. i \notin Listed(w.filter)
      BY <3>1, <1>6 DEF Listed, Alive
    <3>3. v.steady = w.steady
      BY <3>2, <1>4, <1>5
    <3>4. Listed(v.filter)' = Listed(w.filter)
      BY <3>1, <3>2, <1>5, <1>6 DEF Listed, Alive
    <3>5. \A S, j : Place(v, S, j) = Place(w, S, j)
      BY <1>5, SameOrder
    <3>6. \A j \in v.steady : Place(v, v.steady, j)' = Place(w, w.steady, j)
      BY <3>3, <3>5, <1>9
    <3>7. /\ w.phase # "anchor"
          /\ w.steady = Listed(w.filter)
          /\ w.phase = "done" =>
              /\ w.total = Cardinality(w.steady)
              /\ w.mode = "offset" => TotalPages(w.total) <= Shown(w)
          /\ w.mode = "offset" =>
              /\ \A d \in w.got : d.id \in w.steady
              /\ \A j \in w.steady :
                    IF Place(w, w.steady, j) < Shown(w) * PageSize THEN Once(w, j) ELSE PagesOf(w, j) = {}
      BY <2>3, <3>1, <1>4, <1>5 DEF ByPage
    <3>8. /\ \A j : PagesOf(v, j)' = PagesOf(v, j) /\ Once(v, j)' = Once(v, j)
          /\ Shown(v)' = Shown(v) /\ TotalPages(v.total)' = TotalPages(v.total)
      BY DEF PagesOf, Once, Shown, TotalPages
    <3>9. v.mode = "offset" => \A j \in v.steady :
            IF Place(v, v.steady, j)' < Shown(v)' * PageSize THEN Once(v, j)' ELSE PagesOf(v, j)' = {}
      BY <3>3, <3>6, <3>7, <3>8, <1>5, <1>7
    <3> QED
      BY <3>3, <3>4, <3>7, <3>8, <3>9, <1>5, <1>7 DEF ByPage
  <2> QED
    BY <2>1, <2>2, <2>3
<1> QED
  BY <1>10, <1>11, <1>12

\* The first page is still to come.
LEMMA WalkStarted ==
    ASSUME TypeOK, NEW c \in Clients, NEW t \in Tokens, NEW endpoint,
           NEW mode \in {"cursor", "offset", "count"},
           NEW sort \in {"created_at", "name"}, NEW order \in {"asc", "desc"},
           Start(c, t, endpoint, mode, sort, order), NEW v, v = walk'[c]
    PROVE  Started(v) /\ ByCursor(v) /\ ByPage(v)
<1>1. v = [phase |-> "page", token |-> t, mode |-> mode, sort |-> sort, order |-> order,
           filter |-> Filter(endpoint, t), anchor |-> <<0, 0>>, page |-> 1, got |-> {},
           total |-> 0, steady |-> Listed(Filter(endpoint, t)), quiet |-> TRUE, drift |-> FALSE]
  BY DEF Start, TypeOK
<1>2. /\ v.phase = "page" /\ v.mode = mode /\ v.filter = Filter(endpoint, t) /\ v.page = 1
      /\ v.got = {} /\ v.steady = Listed(Filter(endpoint, t)) /\ v.quiet /\ ~v.drift
  BY <1>1
<1>3. Started(v)
  BY <1>2 DEF Started
<1>4. \A i : PagesOf(v, i) = {}
  BY <1>2 DEF PagesOf
<1>5. ByCursor(v)
  BY <1>2, <1>4 DEF ByCursor, Behind
<1>6. ByPage(v)
  <2>1. \A i \in v.steady : Place(v, v.steady, i) \in Nat
    <3>1. v.steady \in SUBSET DOMAIN rows
      BY <1>2 DEF Listed, Alive
    <3> QED
      BY <3>1, PlaceBelow
  <2>2. Shown(v) * PageSize = 0
    BY <1>2, WidgetAssumption DEF Shown
  <2> QED
    BY <1>2, <1>4, <2>1, <2>2 DEF ByPage
<1> QED
  BY <1>3, <1>5, <1>6

\* Delivered rows are added under the number of the page.
Shows(v, w, items) == v.got = w.got \cup Views(w, items)

LEMMA Delivered ==
    ASSUME NEW w, NEW v, NEW items, Shows(v, w, items)
    PROVE  \A i : PagesOf(v, i) = IF i \in items THEN PagesOf(w, i) \cup {w.page} ELSE PagesOf(w, i)
<1> SUFFICES ASSUME NEW i
             PROVE  PagesOf(v, i) = IF i \in items THEN PagesOf(w, i) \cup {w.page} ELSE PagesOf(w, i)
  OBVIOUS
<1>1. \A d : d \in Views(w, items) <=> \E j \in items : d = [page |-> w.page, id |-> j]
  BY DEF Views
<1>2. \A n : n \in PagesOf(v, i) <=> (n \in PagesOf(w, i) \/ \E d \in Views(w, items) : d.id = i /\ d.page = n)
  BY DEF PagesOf, Shows
<1>3. ASSUME NEW n PROVE (\E d \in Views(w, items) : d.id = i /\ d.page = n) <=> (i \in items /\ n = w.page)
  <2>1. ASSUME NEW d \in Views(w, items), d.id = i, d.page = n PROVE i \in items /\ n = w.page
    <3>1. PICK j \in items : d = [page |-> w.page, id |-> j]
      BY <1>1, <2>1
    <3> QED
      BY <2>1, <3>1
  <2>2. ASSUME i \in items, n = w.page PROVE \E d \in Views(w, items) : d.id = i /\ d.page = n
    <3>1. [page |-> w.page, id |-> i] \in Views(w, items)
      BY <1>1, <2>2
    <3> QED
      BY <2>2, <3>1
  <2> QED
    BY <2>1, <2>2
<1> QED
  BY <1>2, <1>3

\* A page of a cursor shows what is behind the anchor, up to its last row; what
\* is behind that row is still to come.
LEMMA WalkPaged ==
    ASSUME TypeOK, Paging, NEW c \in Clients, CursorPage(c), NEW v, v = walk'[c]
    PROVE  Started(v) /\ ByCursor(v) /\ ByPage(v)
<1> DEFINE w == walk[c]
           L == Listed(w.filter)
           rest == Behind(w, L)
           items == Slice(w, rest, 0)
           more == Cardinality(rest) > PageSize
           last == CHOOSE i \in rest : Place(w, rest, i) = PageSize - 1
           anchor == IF more THEN Key(w, last) ELSE w.anchor
           phase == CASE ~more -> "done" [] more /\ w.sort = "name" -> "anchor" [] OTHER -> "page"
<1>1. /\ w = walk[c] /\ L = Listed(w.filter) /\ rest = Behind(w, L) /\ items = Slice(w, rest, 0)
      /\ more => Cardinality(rest) > PageSize
      /\ ~more => ~(Cardinality(rest) > PageSize)
      /\ more => anchor = Key(w, last)
      /\ phase \in {"page", "anchor", "done"}
      /\ phase = "done" => ~more
      /\ ~more => phase = "done"
  <2>1. w = walk[c] /\ L = Listed(w.filter) /\ rest = Behind(w, L) /\ items = Slice(w, rest, 0)
    OBVIOUS
  <2>2. more <=> Cardinality(rest) > PageSize
    OBVIOUS
  <2> HIDE DEF w, L, rest, items, more, last
  <2>3. more => anchor = Key(w, last)
    OBVIOUS
  <2>4. /\ phase \in {"page", "anchor", "done"}
        /\ phase = "done" => ~more
        /\ ~more => phase = "done"
    OBVIOUS
  <2> QED
    BY <2>1, <2>2, <2>3, <2>4
<1>2. On(c, "page") /\ w.mode = "cursor" /\ w.phase = "page" /\ w # Idle
  <2>1. On(c, "page") /\ walk[c].mode = "cursor"
    BY DEF CursorPage
  <2> HIDE DEF L, rest, items, more, last, phase, anchor
  <2> QED
    BY <2>1 DEF On, Idle
<1>14. walk' = [walk EXCEPT ![c].got = @ \cup Views(w, items), ![c].anchor = IF more THEN Key(w, last) ELSE @,
                            ![c].page = @ + 1, ![c].phase = phase]
  BY DEF CursorPage
<1>7. more => last \in rest /\ Place(w, rest, last) = PageSize - 1
  BY BehindListed, LastOfPage
<1> HIDE DEF w, L, rest, items, more, last, phase
<1>3. /\ w \in Walks
      /\ Started(w) /\ ByCursor(w)
      /\ w.steady \subseteq DOMAIN rows /\ w.steady \subseteq L
      /\ \A d \in w.got : d \in [page : Nat \ {0}, id : DOMAIN rows]
      /\ w.page \in Nat \ {0}
  BY <1>1, <1>2, WalkFacts
<1>4. /\ v.mode = w.mode /\ v.sort = w.sort /\ v.order = w.order /\ v.filter = w.filter
      /\ v.steady = w.steady /\ v.drift = w.drift /\ v.page = w.page + 1
      /\ v.got = w.got \cup Views(w, items)
      /\ v.anchor = anchor
      /\ v.phase = phase
  BY <1>1, <1>3, <1>14 DEF TypeOK, Walks
<1>5. /\ v.phase \in {"page", "anchor", "done"}
      /\ v.phase = "done" <=> ~more
  BY <1>1, <1>4
<1> HIDE DEF anchor
<1>6. L \in SUBSET DOMAIN rows /\ rest \in SUBSET DOMAIN rows /\ rest \subseteq L /\ items \subseteq rest
  BY <1>1, BehindListed DEF Behind
<1>8. \A i \in rest : i \in items <=> Place(w, rest, i) < PageSize
  <2>1. \A i \in rest : Place(w, rest, i) \in Nat
    BY <1>6, PlaceBelow
  <2> QED
    BY <2>1, <1>1, WidgetAssumption DEF Slice
<1>9. \A i : PagesOf(v, i) = IF i \in items THEN PagesOf(w, i) \cup {w.page} ELSE PagesOf(w, i)
  <2>1. Shows(v, w, items)
    BY <1>4 DEF Shows
  <2> QED
    BY <2>1, Delivered
<1>10. Shown(v) = w.page /\ Shown(w) = w.page - 1
  BY <1>2, <1>3, <1>4, <1>5 DEF Shown
<1>11. Started(v)
  <2>1. \A d \in w.got : d.page <= w.page - 1 /\ Allows(w.filter, rows[d.id].owner)
    BY <1>3, <1>10 DEF Started
  <2>2. \A d \in w.got : d.page \in Nat
    BY <1>3
  <2>3. \A d \in Views(w, items) : d.page = w.page /\ d.id \in items
    BY DEF Views
  <2>4. \A i \in items : Allows(w.filter, rows[i].owner)
    BY <1>1, <1>6 DEF Listed
  <2>5. \A d \in v.got : d.page <= w.page /\ Allows(v.filter, rows[d.id].owner)
    BY <2>1, <2>2, <2>3, <2>4, <1>3, <1>4
  <2> QED
    BY <2>5, <1>1, <1>3, <1>4, <1>10 DEF Started
<1>12. ByCursor(v)
  <2>1. v.phase = "anchor" => v.anchor[2] \in DOMAIN rows
    <3>1. ASSUME v.phase = "anchor" PROVE v.anchor[2] \in DOMAIN rows
      <4>1. more
        BY <3>1, <1>5
      <4>2. last \in DOMAIN rows /\ v.anchor = Key(w, last)
        BY <4>1, <1>1, <1>4, <1>6, <1>7
      <4>3. Key(w, last)[2] = last
        BY <4>2, KeyType
      <4> QED
        BY <4>2, <4>3
    <3> QED
      BY <3>1
  <2>2. v.page # 1
    BY <1>3, <1>4
  <2>3. ASSUME ~v.drift, NEW i \in v.steady
        PROVE  IF v.phase # "done" /\ i \in Behind(v, v.steady) THEN PagesOf(v, i) = {} ELSE Once(v, i)
    <3>1. i \in w.steady /\ i \in L /\ i \in DOMAIN rows
      BY <2>3, <1>3, <1>4
    <3>2. i \in rest <=> i \in Behind(w, w.steady)
      BY <3>1, <1>1 DEF Behind
    <3>3. IF i \in rest THEN PagesOf(w, i) = {} ELSE Once(w, i)
      BY <3>1, <3>2, <2>3, <1>2, <1>3, <1>4 DEF ByCursor
    <3>4. i \in items => Once(v, i)
      BY <3>3, <1>6, <1>9 DEF Once
    <3>5. i \notin rest => i \notin items /\ Once(v, i)
      BY <3>3, <1>6, <1>9 DEF Once
    <3>6. (i \in rest /\ i \notin items) => PagesOf(v, i) = {}
      BY <3>3, <1>9
    <3>7. CASE ~more
      <4>1. i \in rest => Place(w, rest, i) < PageSize
        <5>1. ASSUME i \in rest PROVE Place(w, rest, i) < PageSize
          <6>1. Place(w, rest, i) \in 0..(Cardinality(rest) - 1) /\ Cardinality(rest) \in Nat
            BY <5>1, <1>6, PlaceBelow
          <6> QED
            BY <6>1, <3>7, <1>1, WidgetAssumption
        <5> QED
          BY <5>1
      <4>2. Once(v, i)
        BY <4>1, <3>4, <3>5, <1>8
      <4> QED
        BY <4>2, <3>7, <1>5
    <3>8. CASE more
      <4>1. last \in rest /\ Place(w, rest, last) = PageSize - 1 /\ v.anchor = Key(w, last)
        BY <3>8, <1>1, <1>4, <1>7
      <4>2. i \in Behind(v, v.steady) <=> Precedes(w, Key(w, last), Key(w, i))
        <5>1. /\ Key(v, i) = Key(w, i)
              /\ \A k, l : Precedes(v, k, l) = Precedes(w, k, l)
          BY <1>4, SameOrder
        <5> QED
          BY <5>1, <4>1, <2>2, <2>3 DEF Behind
      <4>3. /\ Key(w, last) \in Nat \X Nat /\ Key(w, last)[2] = last
            /\ Key(w, i) \in Nat \X Nat /\ Key(w, i)[2] = i
        BY <4>1, <3>1, <1>6, KeyType
      <4>4. ASSUME Precedes(w, Key(w, last), Key(w, i))
            PROVE  i \in rest /\ i \notin items
        <5>1. i \in rest
          <6>1. CASE w.page = 1
            BY <6>1, <3>1, <1>1 DEF Behind
          <6>2. CASE w.page # 1
            <7>1. Precedes(w, w.anchor, Key(w, last))
              BY <6>2, <4>1, <1>1 DEF Behind
            <7>2. w.anchor \in Nat \X Nat
              BY <1>3 DEF Walks
            <7>3. Precedes(w, w.anchor, Key(w, i))
              BY <7>1, <7>2, <4>3, <4>4, KeyOrder
            <7> QED
              BY <7>3, <3>1, <1>1, <6>2 DEF Behind
          <6> QED
            BY <6>1, <6>2
        <5>2. Place(w, rest, last) < Place(w, rest, i)
          BY <5>1, <4>1, <4>4, <1>6, PlaceRises
        <5>3. Place(w, rest, i) \in Nat
          BY <5>1, <1>6, PlaceBelow
        <5>4. ~(Place(w, rest, i) < PageSize)
          BY <5>2, <5>3, <4>1, WidgetAssumption
        <5> QED
          BY <5>1, <5>4, <1>8
      <4>5. ASSUME ~Precedes(w, Key(w, last), Key(w, i)), i \in rest
            PROVE  i \in items
        <5>1. i = last \/ Precedes(w, Key(w, i), Key(w, last))
          BY <4>3, <4>5, KeyOrder
        <5>2. Place(w, rest, i) \in Nat
          BY <4>5, <1>6, PlaceBelow
        <5>3. Place(w, rest, i) < PageSize
          <6>1. CASE i = last
            BY <6>1, <4>1, WidgetAssumption
          <6>2. CASE Precedes(w, Key(w, i), Key(w, last))
            <7>1. Place(w, rest, i) < Place(w, rest, last)
              BY <6>2, <4>1, <4>5, <1>6, PlaceRises
            <7> QED
              BY <7>1, <5>2, <4>1, WidgetAssumption
          <6> QED
            BY <5>1, <6>1, <6>2
        <5> QED
          BY <5>3, <4>5, <1>8
      <4>6. CASE Precedes(w, Key(w, last), Key(w, i))
        BY <4>6, <4>2, <4>4, <3>6, <3>8, <1>5
      <4>7. CASE ~Precedes(w, Key(w, last), Key(w, i))
        BY <4>7, <4>2, <4>5, <3>4, <3>5
      <4> QED
        BY <4>6, <4>7
    <3> QED
      BY <3>7, <3>8
  <2> QED
    BY <2>1, <2>2, <2>3, <1>5 DEF ByCursor
<1>13. ByPage(v)
  BY <1>2, <1>4 DEF ByPage
<1> QED
  BY <1>11, <1>12, <1>13

\* The anchor's row may have another key by now; then the walk has drifted.
LEMMA WalkAnchored ==
    ASSUME TypeOK, Paging, NEW c \in Clients, ReadAnchor(c), NEW v, v = walk'[c]
    PROVE  Started(v) /\ ByCursor(v) /\ ByPage(v)
<1>1. PICK w, key : w = walk[c] /\ key = Key(w, w.anchor[2])
  OBVIOUS
<1>2. /\ w.phase = "anchor" /\ w # Idle
      /\ walk' = [walk EXCEPT ![c].anchor = key, ![c].drift = @ \/ key # walk[c].anchor, ![c].phase = "page"]
  BY <1>1 DEF ReadAnchor, On, Idle
<1>3. /\ w \in Walks /\ Started(w) /\ ByCursor(w) /\ ByPage(w)
  BY <1>1, <1>2, WalkFacts
<1>4. /\ v.mode = w.mode /\ v.sort = w.sort /\ v.order = w.order /\ v.filter = w.filter
      /\ v.steady = w.steady /\ v.page = w.page /\ v.got = w.got /\ v.phase = "page"
      /\ v.anchor = key
      /\ v.drift <=> (w.drift \/ key # w.anchor)
  BY <1>1, <1>2, <1>3 DEF TypeOK, Walks
<1>5. w.mode = "cursor" /\ w.page # 1
  BY <1>2, <1>3 DEF ByPage, ByCursor
<1>6. Shown(v) = Shown(w) /\ (\A i : PagesOf(v, i) = PagesOf(w, i)) /\ (\A i : Once(v, i) = Once(w, i))
  <2>1. v.got = w.got /\ v.page = w.page /\ v.phase # "total" /\ w.phase # "total"
    BY <1>2, <1>4
  <2> QED
    BY <2>1 DEF Shown, PagesOf, Once
<1>7. Started(v)
  BY <1>3, <1>4, <1>6 DEF Started
<1>8. ByCursor(v)
  <2>1. ASSUME ~v.drift PROVE Behind(v, v.steady) = Behind(w, w.steady)
    <3>1. /\ \A i : Key(v, i) = Key(w, i)
          /\ \A k, l : Precedes(v, k, l) = Precedes(w, k, l)
      BY <1>4, SameOrder
    <3>2. v.steady = w.steady /\ v.page = w.page /\ v.anchor = w.anchor
      BY <2>1, <1>4
    <3> QED
      BY <3>1, <3>2 DEF Behind
  <2>2. ~w.drift => \A i \in w.steady :
            IF i \in Behind(w, w.steady) THEN PagesOf(w, i) = {} ELSE Once(w, i)
    BY <1>2, <1>3, <1>5 DEF ByCursor
  <2> QED
    BY <2>1, <2>2, <1>4, <1>5, <1>6 DEF ByCursor
<1>9. ByPage(v)
  BY <1>4, <1>5 DEF ByPage
<1> QED
  BY <1>7, <1>8, <1>9

\* A numbered page shows the rows whose places are its.
LEMMA WalkNumbered ==
    ASSUME TypeOK, Paging, NEW c \in Clients, OffsetPage(c), NEW v, v = walk'[c]
    PROVE  Started(v) /\ ByCursor(v) /\ ByPage(v)
<1>1. PICK w, L, items :
        w = walk[c] /\ L = Listed(w.filter) /\ items = Slice(w, L, (w.page - 1) * PageSize)
  OBVIOUS
<1>2. /\ w.phase = "page" /\ w.mode # "cursor" /\ w # Idle
      /\ walk' = [walk EXCEPT
              ![c].got = IF w.mode = "count" THEN @ ELSE @ \cup Views(w, items),
              ![c].phase = "total"]
  BY <1>1 DEF OffsetPage, On, Idle
<1>3. /\ w \in Walks /\ Started(w) /\ ByPage(w)
      /\ w.steady \subseteq DOMAIN rows /\ w.steady \subseteq L
      /\ \A d \in w.got : d \in [page : Nat \ {0}, id : DOMAIN rows]
      /\ w.page \in Nat \ {0}
  BY <1>1, <1>2, WalkFacts
<1>4. /\ v.mode = w.mode /\ v.sort = w.sort /\ v.order = w.order /\ v.filter = w.filter
      /\ v.steady = w.steady /\ v.page = w.page /\ v.phase = "total" /\ v.quiet = w.quiet
      /\ v.got = IF w.mode = "count" THEN w.got ELSE w.got \cup Views(w, items)
  BY <1>1, <1>2, <1>3 DEF TypeOK, Walks
<1>5. L \in SUBSET DOMAIN rows /\ items \subseteq L
  BY <1>1, BehindListed
<1>6. Shown(v) = w.page /\ Shown(w) = w.page - 1
  BY <1>2, <1>4 DEF Shown
<1>7. Started(v)
  <2>1. \A d \in w.got : d.page <= w.page - 1 /\ Allows(w.filter, rows[d.id].owner)
    BY <1>3, <1>6 DEF Started
  <2>2. \A d \in w.got : d.page \in Nat
    BY <1>3
  <2>3. \A d \in Views(w, items) : d.page = w.page /\ d.id \in items
    BY DEF Views
  <2>4. \A i \in items : Allows(w.filter, rows[i].owner)
    BY <1>1, <1>5 DEF Listed
  <2>5. \A d \in v.got : d.page <= w.page /\ Allows(v.filter, rows[d.id].owner)
    BY <2>1, <2>2, <2>3, <2>4, <1>3, <1>4
  <2> QED
    BY <2>5, <1>1, <1>3, <1>4, <1>6 DEF Started
<1>8. ByCursor(v)
  BY <1>2, <1>4 DEF ByCursor
<1>9. ByPage(v)
  <2>1. CASE ~w.quiet
    BY <2>1, <1>4 DEF ByPage
  <2>2. CASE w.quiet
    <3>1. w.steady = L
      BY <2>2, <1>1, <1>2, <1>3 DEF ByPage
    <3>2. ASSUME w.mode = "offset"
          PROVE  /\ \A d \in v.got : d.id \in v.steady
                 /\ \A i \in v.steady :
                    IF Place(v, v.steady, i) < Shown(v) * PageSize THEN Once(v, i) ELSE PagesOf(v, i) = {}
      <4>1. v.got = w.got \cup Views(w, items)
        BY <3>2, <1>4
      <4>2. \A i : PagesOf(v, i) = IF i \in items THEN PagesOf(w, i) \cup {w.page} ELSE PagesOf(w, i)
        <5>1. Shows(v, w, items)
          BY <4>1 DEF Shows
        <5> QED
          BY <5>1, Delivered
      <4>3. /\ \A d \in w.got : d.id \in w.steady
            /\ \A i \in w.steady :
                IF Place(w, w.steady, i) < Shown(w) * PageSize THEN Once(w, i) ELSE PagesOf(w, i) = {}
        BY <2>2, <3>2, <1>2, <1>3 DEF ByPage
      <4>4. \A d \in v.got : d.id \in v.steady
        BY <4>1, <4>3, <3>1, <1>4, <1>5 DEF Views
      <4>5. ASSUME NEW i \in v.steady
            PROVE  IF Place(v, v.steady, i) < Shown(v) * PageSize THEN Once(v, i) ELSE PagesOf(v, i) = {}
        <5>1. PICK n, before : n = Place(w, L, i) /\ before = (w.page - 1) * PageSize
          OBVIOUS
        <5>2. Place(v, v.steady, i) = n /\ Place(w, w.steady, i) = n
          BY <5>1, <3>1, <1>4, SameOrder
        <5>3. n \in Nat
          BY <5>1, <4>5, <3>1, <1>4, <1>5, PlaceBelow
        <5>4. before \in Nat /\ w.page * PageSize = before + PageSize /\ PageSize \in Nat \ {0}
          BY <5>1, <1>3, WidgetAssumption
        <5>5. i \in items <=> (before <= n /\ n < before + PageSize)
          BY <5>1, <4>5, <3>1, <1>1, <1>4 DEF Slice
        <5>6. IF n < before THEN Once(w, i) ELSE PagesOf(w, i) = {}
          BY <5>1, <5>2, <4>3, <4>5, <1>4, <1>6
        <5>7. IF n < before + PageSize THEN Once(v, i) ELSE PagesOf(v, i) = {}
          <6>1. CASE n < before
            <7>1. i \notin items /\ n < before + PageSize
              BY <6>1, <5>3, <5>4, <5>5
            <7>2. PagesOf(v, i) = PagesOf(w, i)
              BY <7>1, <4>2
            <7> QED
              BY <7>1, <7>2, <6>1, <5>6 DEF Once
          <6>2. CASE ~(n < before)
            <7>1. PagesOf(w, i) = {}
              BY <6>2, <5>6
            <7>2. i \in items <=> n < before + PageSize
              BY <6>2, <5>3, <5>4, <5>5
            <7>3. PagesOf(v, i) = IF i \in items THEN {w.page} ELSE {}
              BY <7>1, <4>2
            <7> QED
              BY <7>2, <7>3 DEF Once
          <6> QED
            BY <6>1, <6>2
        <5> QED
          BY <5>2, <5>4, <5>7, <1>6
      <4> QED
        BY <4>4, <4>5
    <3> QED
      BY <3>1, <3>2, <1>1, <1>2, <1>4 DEF ByPage
  <2> QED
    BY <2>1, <2>2
<1> QED
  BY <1>7, <1>8, <1>9

\* The total ends the walk when the pages shown hold it.
LEMMA WalkTotalled ==
    ASSUME TypeOK, Paging, NEW c \in Clients, Total(c), NEW v, v = walk'[c]
    PROVE  Started(v) /\ ByCursor(v) /\ ByPage(v)
<1>1. PICK w, total : w = walk[c] /\ total = Cardinality(Listed(w.filter))
  OBVIOUS
<1> DEFINE last == w.mode = "count" \/ w.page >= TotalPages(total)
<1>2. /\ w.phase = "total" /\ w # Idle
      /\ walk' = [walk EXCEPT ![c].total = total, ![c].page = @ + 1,
                              ![c].phase = IF last THEN "done" ELSE "page"]
  BY <1>1 DEF Total, On, Idle
<1>3. /\ w \in Walks /\ Started(w) /\ ByCursor(w) /\ ByPage(w)
      /\ w.page \in Nat \ {0}
  BY <1>1, <1>2, WalkFacts
<1>4. /\ v.mode = w.mode /\ v.sort = w.sort /\ v.order = w.order /\ v.filter = w.filter
      /\ v.steady = w.steady /\ v.page = w.page + 1 /\ v.quiet = w.quiet /\ v.got = w.got
      /\ v.total = total /\ v.phase = IF last THEN "done" ELSE "page"
  <2> HIDE DEF last
  <2> QED
    BY <1>1, <1>2, <1>3 DEF TypeOK, Walks
<1>5. Shown(v) = Shown(w) /\ Shown(w) = w.page
  BY <1>2, <1>3, <1>4 DEF Shown
<1>6. (\A i : PagesOf(v, i) = PagesOf(w, i)) /\ (\A i : Once(v, i) = Once(w, i))
  BY <1>4 DEF PagesOf, Once
<1>7. Started(v)
  BY <1>3, <1>4, <1>5 DEF Started
<1>8. w.mode # "cursor"
  BY <1>2, <1>3 DEF ByCursor
<1>9. ByCursor(v)
  BY <1>4, <1>8 DEF ByCursor
<1>10. ByPage(v)
  <2>1. \A S, i : Place(v, S, i) = Place(w, S, i)
    BY <1>4, SameOrder
  <2>2. v.phase # "anchor"
    BY <1>4
  <2>3. ASSUME w.quiet
        PROVE  /\ v.steady = Listed(v.filter)
               /\ v.phase = "done" =>
                   /\ v.total = Cardinality(v.steady)
                   /\ v.mode = "offset" => TotalPages(v.total) <= Shown(v)
               /\ v.mode = "offset" =>
                   /\ \A d \in v.got : d.id \in v.steady
                   /\ \A i \in v.steady :
                        IF Place(v, v.steady, i) < Shown(v) * PageSize THEN Once(v, i) ELSE PagesOf(v, i) = {}
    <3>1. /\ w.steady = Listed(w.filter)
          /\ w.mode = "offset" =>
               /\ \A d \in w.got : d.id \in w.steady
               /\ \A i \in w.steady :
                    IF Place(w, w.steady, i) < Shown(w) * PageSize THEN Once(w, i) ELSE PagesOf(w, i) = {}
      BY <2>3, <1>3, <1>8 DEF ByPage
    <3>2. (v.phase = "done" /\ v.mode = "offset") => w.page >= TotalPages(total)
      BY <1>4
    <3>3. TotalPages(total) \in Int
      <4>1. total \in Nat
        BY <1>1, ListFinite
      <4> QED
        BY <4>1, WidgetAssumption DEF TotalPages
    <3>4. (v.phase = "done" /\ v.mode = "offset") => TotalPages(v.total) <= Shown(v)
      BY <3>2, <3>3, <1>3, <1>4, <1>5
    <3> QED
      BY <3>1, <3>4, <2>1, <1>1, <1>4, <1>5, <1>6
  <2> QED
    BY <2>2, <2>3, <1>4 DEF ByPage
<1> QED
  BY <1>7, <1>9, <1>10


\* A step of a walk changes no other one, nor the table.
LEMMA WalkAlone ==
    ASSUME TypeOK, NEW c \in Clients, Walking(c)
    PROVE  rows' = rows /\ \A d \in Clients \ {c} : walk'[d] = walk[d]
<1>1. ASSUME NEW t \in Tokens, NEW endpoint, NEW mode, NEW sort, NEW order,
             Start(c, t, endpoint, mode, sort, order)
      PROVE  rows' = rows /\ \A d \in Clients \ {c} : walk'[d] = walk[d]
  BY <1>1 DEF Start, TypeOK
<1>2. CursorPage(c) => rows' = rows /\ \A d \in Clients \ {c} : walk'[d] = walk[d]
  BY DEF CursorPage, TypeOK
<1>3. ReadAnchor(c) => rows' = rows /\ \A d \in Clients \ {c} : walk'[d] = walk[d]
  BY DEF ReadAnchor, TypeOK
<1>4. OffsetPage(c) => rows' = rows /\ \A d \in Clients \ {c} : walk'[d] = walk[d]
  BY DEF OffsetPage, TypeOK
<1>5. Total(c) => rows' = rows /\ \A d \in Clients \ {c} : walk'[d] = walk[d]
  BY DEF Total, TypeOK
<1>6. EndWalk(c) => rows' = rows /\ \A d \in Clients \ {c} : walk'[d] = walk[d]
  BY DEF EndWalk, TypeOK
<1> QED
  BY <1>1, <1>2, <1>3, <1>4, <1>5, <1>6 DEF Walking

\* A page, an anchor or a total leaves a walk as it should be.
LEMMA WalkStep ==
    ASSUME TypeOK, Paging, NEW c \in Clients, Walking(c), NEW v, v = walk'[c], v # Idle
    PROVE  Started(v) /\ ByCursor(v) /\ ByPage(v)
<1>1. ASSUME NEW t \in Tokens, NEW endpoint, NEW mode \in {"cursor", "offset", "count"},
             NEW sort \in {"created_at", "name"}, NEW order \in {"asc", "desc"},
             Start(c, t, endpoint, mode, sort, order)
      PROVE  Started(v) /\ ByCursor(v) /\ ByPage(v)
  BY <1>1, WalkStarted
<1>2. CursorPage(c) => Started(v) /\ ByCursor(v) /\ ByPage(v)
  BY WalkPaged
<1>3. ReadAnchor(c) => Started(v) /\ ByCursor(v) /\ ByPage(v)
  BY WalkAnchored
<1>4. OffsetPage(c) => Started(v) /\ ByCursor(v) /\ ByPage(v)
  BY WalkNumbered
<1>5. Total(c) => Started(v) /\ ByCursor(v) /\ ByPage(v)
  BY WalkTotalled
<1>6. ~EndWalk(c)
  BY DEF EndWalk, TypeOK
<1> QED
  BY <1>1, <1>2, <1>3, <1>4, <1>5, <1>6 DEF Walking

LEMMA PagingNext == TypeOK /\ Pending /\ Paging /\ [Next]_vars => Paging'
<1> SUFFICES ASSUME TypeOK, Pending, Paging, [Next]_vars,
                    NEW c \in Clients, NEW v, v = walk'[c], v # Idle
             PROVE  Started(v)' /\ ByCursor(v)' /\ ByPage(v)'
  BY DEF Paging, Idle
<1>1. ASSUME rows' = rows, walk'[c] = walk[c]
      PROVE  Started(v)' /\ ByCursor(v)' /\ ByPage(v)'
  <2>1. Started(v) /\ ByCursor(v) /\ ByPage(v) /\ v.steady \subseteq DOMAIN rows
    BY <1>1, WalkFacts
  <2> QED
    BY <1>1, <2>1, SameTable
<1>2. ASSUME NEW d \in Clients, Walking(d)
      PROVE  Started(v)' /\ ByCursor(v)' /\ ByPage(v)'
  <2>1. CASE d # c
    BY <2>1, <1>1, <1>2, WalkAlone
  <2>2. CASE d = c
    <3>1. Started(v) /\ ByCursor(v) /\ ByPage(v)
      BY <2>2, <1>2, WalkStep
    <3>2. v.steady \subseteq DOMAIN rows
      BY <3>1 DEF Started, Listed, Alive
    <3>3. rows' = rows
      BY <1>2, WalkAlone
    <3> QED
      BY <3>1, <3>2, <3>3, SameTable
  <2> QED
    BY <2>1, <2>2
<1>3. ASSUME NEW h \in Handlers, NEW row, Stores(h, row)
      PROVE  Started(v)' /\ ByCursor(v)' /\ ByPage(v)'
  BY <1>3, WalkStored
<1>4. ASSUME NEW h \in Handlers, ReqStep(h)
      PROVE  Started(v)' /\ ByCursor(v)' /\ ByPage(v)'
  <2>1. rows' = rows /\ walk' = walk
    BY <1>4 DEF ReqStep
  <2> QED
    BY <2>1, <1>1
<1>5. ASSUME NEW h \in Handlers, Publish(h)
      PROVE  Started(v)' /\ ByCursor(v)' /\ ByPage(v)'
  <2>1. rows' = rows /\ walk' = walk
    BY <1>5 DEF Publish
  <2> QED
    BY <2>1, <1>1
<1>6. ASSUME NEW s \in Clients, StreamStep(s)
      PROVE  Started(v)' /\ ByCursor(v)' /\ ByPage(v)'
  <2>1. rows' = rows /\ walk' = walk
    BY <1>6 DEF StreamStep, Subscribe, Send, EndStream
  <2> QED
    BY <2>1, <1>1
<1>7. CASE UNCHANGED vars
  BY <1>7, <1>1 DEF vars
<1> QED
  BY <1>2, <1>3, <1>4, <1>5, <1>6, <1>7, StepKinds

\* A walk that goes on keeps its token, its mode and its filter, and a count its
\* empty hands.
LEMMA EntitledKept ==
    ASSUME NEW w, NEW v, Entitled(w), v.token = w.token, v.mode = w.mode, v.filter = w.filter,
           w.mode = "count" => v.got = w.got
    PROVE  Entitled(v)
BY DEF Entitled

\* The list takes its filter from the token, the one of the back office has its gate.
LEMMA EntitledStart ==
    ASSUME TypeOK, NEW c \in Clients, NEW t \in Tokens, NEW endpoint, NEW mode, NEW sort, NEW order,
           \/ endpoint \in Lists /\ mode # "count"
           \/ mode = "count",
           Start(c, t, endpoint, mode, sort, order), NEW v, v = walk'[c]
    PROVE  Entitled(v)
<1>1. v = [phase |-> "page", token |-> t, mode |-> mode, sort |-> sort, order |-> order,
           filter |-> Filter(endpoint, t), anchor |-> <<0, 0>>, page |-> 1, got |-> {},
           total |-> 0, steady |-> Listed(Filter(endpoint, t)), quiet |-> TRUE, drift |-> FALSE]
  BY DEF Start, TypeOK
<1>2. v.token = t /\ v.mode = mode /\ v.filter = Filter(endpoint, t) /\ v.got = {}
  BY <1>1
<1>3. CASE mode = "count"
  BY <1>2, <1>3 DEF Entitled
<1>4. CASE endpoint = "list" /\ mode # "count"
  <2>1. Filter(endpoint, t) = Access(t, "widgets:read:all")
    BY <1>4 DEF Filter
  <2> QED
    BY <2>1, <1>2, <1>4 DEF Entitled
<1>5. CASE endpoint = "admin_list" /\ mode # "count"
  <2>1. Gate("admin_list", t)
    BY <1>5 DEF Start
  <2> QED
    BY <2>1, <1>2, <1>5 DEF Entitled
<1> QED
  BY <1>3, <1>4, <1>5 DEF Lists

\* The pages, the anchor and the total.
LEMMA EntitledStep ==
    ASSUME TypeOK, Entitlement, NEW c \in Clients, Walking(c), NEW v, v = walk'[c], v # Idle
    PROVE  Entitled(v)
<1>1. ASSUME NEW t \in Tokens, NEW endpoint \in Lists, NEW mode \in {"cursor", "offset"}, NEW sort, NEW order,
             Start(c, t, endpoint, mode, sort, order)
      PROVE  Entitled(v)
  BY <1>1, EntitledStart
<1>2. ASSUME NEW t \in Tokens, NEW endpoint, Start(c, t, endpoint, "count", "created_at", "desc")
      PROVE  Entitled(v)
  BY <1>2, EntitledStart
<1>3. ASSUME walk[c] # Idle PROVE walk[c] \in Walks /\ Entitled(walk[c])
  BY <1>3 DEF TypeOK, Entitlement
<1>4. ASSUME CursorPage(c) PROVE Entitled(v)
  <2> DEFINE w == walk[c]
             rest == Behind(w, Listed(w.filter))
             more == Cardinality(rest) > PageSize
             last == CHOOSE i \in rest : Place(w, rest, i) = PageSize - 1
             items == Slice(w, rest, 0)
             phase == CASE ~more -> "done" [] more /\ w.sort = "name" -> "anchor" [] OTHER -> "page"
  <2>1. walk' = [walk EXCEPT ![c].got = @ \cup Views(w, items), ![c].anchor = IF more THEN Key(w, last) ELSE @,
                             ![c].page = @ + 1, ![c].phase = phase]
    BY <1>4 DEF CursorPage
  <2> HIDE DEF w, rest, more, last, items, phase
  <2>2. walk[c] # Idle /\ walk[c].mode = "cursor"
    <3>1. On(c, "page") /\ walk[c].mode = "cursor"
      BY <1>4 DEF CursorPage
    <3> QED
      BY <3>1 DEF On, Idle
  <2>3. v.token = walk[c].token /\ v.mode = walk[c].mode /\ v.filter = walk[c].filter
    BY <2>1, <2>2, <1>3 DEF TypeOK, Walks
  <2> QED
    BY <2>2, <2>3, <1>3, EntitledKept
<1>5. ASSUME ReadAnchor(c) PROVE Entitled(v)
  <2>1. PICK anchor, drift :
            walk' = [walk EXCEPT ![c].anchor = anchor, ![c].drift = drift, ![c].phase = "page"]
    BY <1>5 DEF ReadAnchor
  <2>2. walk[c] # Idle
    BY <1>5 DEF ReadAnchor, On, Idle
  <2>3. /\ v.token = walk[c].token /\ v.mode = walk[c].mode /\ v.filter = walk[c].filter
        /\ v.got = walk[c].got
    BY <2>1, <2>2, <1>3 DEF TypeOK, Walks
  <2> QED
    BY <2>2, <2>3, <1>3, EntitledKept
<1>6. ASSUME OffsetPage(c) PROVE Entitled(v)
  <2>1. PICK got : /\ walk' = [walk EXCEPT ![c].got = got, ![c].phase = "total"]
                   /\ walk[c].mode = "count" => got = walk[c].got
    BY <1>6 DEF OffsetPage
  <2>2. walk[c] # Idle
    BY <1>6 DEF OffsetPage, On, Idle
  <2>3. /\ v.token = walk[c].token /\ v.mode = walk[c].mode /\ v.filter = walk[c].filter
        /\ v.got = got
    BY <2>1, <2>2, <1>3 DEF TypeOK, Walks
  <2> QED
    BY <2>1, <2>2, <2>3, <1>3, EntitledKept
<1>7. ASSUME Total(c) PROVE Entitled(v)
  <2>1. PICK total, phase :
            walk' = [walk EXCEPT ![c].total = total, ![c].page = @ + 1, ![c].phase = phase]
    BY <1>7 DEF Total
  <2>2. walk[c] # Idle
    BY <1>7 DEF Total, On, Idle
  <2>3. /\ v.token = walk[c].token /\ v.mode = walk[c].mode /\ v.filter = walk[c].filter
        /\ v.got = walk[c].got
    BY <2>1, <2>2, <1>3 DEF TypeOK, Walks
  <2> QED
    BY <2>2, <2>3, <1>3, EntitledKept
<1>8. ~EndWalk(c)
  BY DEF EndWalk, TypeOK
<1> QED
  BY <1>1, <1>2, <1>4, <1>5, <1>6, <1>7, <1>8 DEF Walking

LEMMA EntitlementNext == TypeOK /\ Pending /\ Entitlement /\ [Next]_vars => Entitlement'
<1> SUFFICES ASSUME TypeOK, Pending, Entitlement, [Next]_vars,
                    NEW c \in Clients, NEW v, v = walk'[c], v # Idle
             PROVE  Entitled(v)
  BY DEF Entitlement, Entitled, Idle
<1>1. walk'[c] = walk[c] => Entitled(v)
  BY DEF Entitlement
<1>2. ASSUME NEW d \in Clients, Walking(d) PROVE Entitled(v)
  <2>1. CASE d # c
    BY <2>1, <1>1, <1>2, WalkAlone
  <2>2. CASE d = c
    BY <2>2, <1>2, EntitledStep
  <2> QED
    BY <2>1, <2>2
<1>3. ASSUME NEW h \in Handlers, NEW row, Stores(h, row) PROVE Entitled(v)
  <2>1. PICK w, steady, quiet :
            /\ w = walk[c]
            /\ walk'[c] = IF w = Idle THEN Idle ELSE [w EXCEPT !.steady = steady, !.quiet = quiet]
    BY <1>3 DEF Stores, Store, Disturbed
  <2>2. w # Idle /\ w \in Walks /\ Entitled(w)
    BY <2>1 DEF TypeOK, Entitlement
  <2>3. v.token = w.token /\ v.mode = w.mode /\ v.filter = w.filter /\ v.got = w.got
    BY <2>1, <2>2 DEF Walks
  <2> QED
    BY <2>2, <2>3, EntitledKept
<1>4. ASSUME NEW h \in Handlers, ReqStep(h) PROVE Entitled(v)
  BY <1>1, <1>4 DEF ReqStep
<1>5. ASSUME NEW h \in Handlers, Publish(h) PROVE Entitled(v)
  BY <1>1, <1>5 DEF Publish
<1>6. ASSUME NEW s \in Clients, StreamStep(s) PROVE Entitled(v)
  BY <1>1, <1>6 DEF StreamStep, Subscribe, Send, EndStream
<1>7. CASE UNCHANGED vars
  BY <1>1, <1>7 DEF vars
<1> QED
  BY <1>2, <1>3, <1>4, <1>5, <1>6, <1>7, StepKinds

-------------------------------------------------------------------------------
(* The theorems.                                                             *)

LEMMA InitInv == Init => IInv
<1> SUFFICES ASSUME Init PROVE IInv
  OBVIOUS
<1>1. /\ \A h \in Handlers : req[h] = Idle
      /\ \A c \in Clients : walk[c] = Idle /\ stream[c] = Closed /\ seen[c] = << >>
  BY DEF Init
<1>2. TypeOK
  <2>1. /\ rows = Seeded /\ nextId = Cardinality(DOMAIN Seeded) + 1
        /\ Cardinality(DOMAIN Seeded) \in Nat
    BY WidgetAssumption, FS_CardinalityType DEF Init
  <2>2. nextId \in Nat \ {0} /\ DOMAIN rows = 1..(nextId - 1)
    BY <2>1, WidgetAssumption
  <2>3. rows \in [DOMAIN rows -> [name : Names, owner : Owners, born : Ids, deleted : BOOLEAN]]
    <3>1. {Seeded[i].owner : i \in DOMAIN Seeded} \subseteq Owners
      BY DEF Owners
    <3>2. rows \in [DOMAIN rows -> [name : Names, owner : {Seeded[i].owner : i \in DOMAIN Seeded},
                                   born : DOMAIN rows, deleted : BOOLEAN]]
      BY <2>1, <2>2, WidgetAssumption
    <3> QED
      BY <3>1, <3>2, <2>2 DEF Ids
  <2>4. \A i, j \in Alive : rows[i].name = rows[j].name => i = j
    BY <2>1, WidgetAssumption DEF Alive
  <2>5. past \subseteq [id : DOMAIN rows, name : Names]
    <3>1. \A i \in DOMAIN rows : rows[i].name \in Names
      BY <2>3
    <3> QED
      BY <2>1, <3>1 DEF Init
  <2>6. \A s \in Clients : stream[s].open => Len(stream[s].queue) <= Capacity
    BY <1>1 DEF Closed
  <2>7. seen \in [Clients -> Seq(Frames)]
    BY EmptySeq DEF Init
  <2>8. accepted \in 0..MaxAccepted
    BY WidgetAssumption DEF Init
  <2> QED
    BY <2>2, <2>3, <2>4, <2>5, <2>6, <2>7, <2>8 DEF TypeOK, Init, Ids
<1>3. Pending
  BY <1>1 DEF Pending, Creating, Changing, At, Idle
<1>4. FramesTrue /\ FramesOnce
  <2>1. \A s \in Clients : Queue(s) = << >> /\ seen[s] = << >> /\ ~stream[s].open
    BY <1>1 DEF Queue, Closed
  <2>2. \A h \in Handlers : ~At(h, "publish")
    BY <1>1 DEF At, Idle
  <2>3. AllTruthful(<< >>) /\ Distinct(<< >>)
    BY DEF AllTruthful, Distinct
  <2>4. \A s \in Clients : StreamTrue(s) /\ StreamOnce(s)
    BY <2>1, <2>2, <2>3 DEF StreamTrue, StreamOnce
  <2> QED
    BY <2>2, <2>4 DEF FramesTrue, FramesOnce
<1>5. Paging /\ Entitlement
  BY <1>1 DEF Paging, Entitlement
<1> QED
  BY <1>2, <1>3, <1>4, <1>5 DEF IInv

LEMMA Inductive == Spec => []IInv
<1>1. IInv /\ [Next]_vars => IInv'
  BY TypeNext, PendingNext, FramesTrueNext, FramesOnceNext, PagingNext, EntitlementNext DEF IInv
<1> QED
  BY <1>1, InitInv, PTL DEF Spec

\* Types; a widget is inserted under an id that was drawn for it, and the names of
\* live widgets are unique (service.rs, the unique index of the table).
THEOREM TypeCorrect == Spec => []TypeOK
<1>1. IInv => TypeOK
  BY DEF IInv
<1> QED
  BY <1>1, Inductive, PTL

\* An SSE stream shows no name a widget has never had and no deletion of a live
\* widget, and creates and deletes each widget at most once (events.rs).
THEOREM FramesAreTruthful == Spec => []FramesTruthful
<1>1. IInv => FramesTruthful
  <2> SUFFICES ASSUME IInv, NEW s \in Clients, NEW m \in 1..Len(seen[s]), NEW n \in 1..Len(seen[s]),
                      NEW f, f = seen[s][m], NEW g, g = seen[s][n]
               PROVE  /\ [id |-> f.id, name |-> f.name] \in past
                      /\ f.type = "deleted" => rows[f.id].deleted
                      /\ (f.type = g.type /\ f.id = g.id /\ f.type # "updated") => m = n
    BY DEF FramesTruthful
  <2>1. AllTruthful(seen[s]) /\ Distinct(seen[s])
    BY DEF IInv, FramesTrue, StreamTrue, FramesOnce, StreamOnce
  <2>2. Truthful(f)
    BY <2>1 DEF AllTruthful
  <2>3. Same(f, g) => m = n
    BY <2>1 DEF Distinct
  <2> QED
    BY <2>2, <2>3 DEF Truthful, Same
<1> QED
  BY <1>1, Inductive, PTL

\* What data_access gives is the own rows, or everybody's with the permission.
LEMMA AccessReaches ==
    ASSUME NEW t, NEW p, NEW owner, Allows(Access(t, p), owner)
    PROVE  Reaches(t, p, owner)
<1>1. CASE RequireScoped(Policy, t.roles, t.scope, p)
  BY <1>1 DEF Reaches, May
<1>2. CASE ~RequireScoped(Policy, t.roles, t.scope, p)
  <2>1. Access(t, p) = [all |-> FALSE, me |-> t.user]
    BY <1>2 DEF Access, DataAccess
  <2>2. ~Access(t, p).all /\ Access(t, p).me = t.user
    BY <2>1
  <2> QED
    BY <2>2 DEF Allows, Reaches
<1> QED
  BY <1>1, <1>2

\* Changes, streams and lists have the same reach: the widgets a token's user owns,
\* and everybody's for a token with the permission for everybody's or, in the list
\* of the back office, for one its gate admits (ensure_may_write, data_access and
\* admin_list in routes.rs).
THEOREM ReachIsSame == Spec => []SameReach
<1>1. IInv => SameReach
  <2> SUFFICES ASSUME IInv PROVE SameReach
    OBVIOUS
  <2>1. ASSUME NEW h \in Handlers, At(h, "publish")
        PROVE  Reaches(req[h].token, "widgets:write:all", rows[req[h].frame.id].owner)
    <3>1. Allows(Access(req[h].token, "widgets:write:all"), rows[req[h].frame.id].owner)
      BY <2>1 DEF IInv, FramesTrue, Truthful
    <3> QED
      BY <3>1, AccessReaches
  <2>2. ASSUME NEW s \in Clients, NEW n \in 1..Len(seen[s])
        PROVE  Reaches(stream[s].token, "widgets:read:all", rows[seen[s][n].id].owner)
    <3>1. StreamTrue(s)
      BY DEF IInv, FramesTrue
    <3>2. stream[s].open
      BY <3>1 DEF StreamTrue
    <3>3. /\ stream[s].access = Access(stream[s].token, "widgets:read:all")
          /\ Allows(stream[s].access, seen[s][n].owner) /\ Truthful(seen[s][n])
      BY <3>1, <3>2 DEF StreamTrue, AllTruthful
    <3>4. Allows(Access(stream[s].token, "widgets:read:all"), rows[seen[s][n].id].owner)
      BY <3>3 DEF Truthful
    <3> QED
      BY <3>4, AccessReaches
  <2>3. ASSUME NEW c \in Clients, NEW w, w = walk[c], w # Idle, NEW d \in w.got
        PROVE  \/ Reaches(w.token, "widgets:read:all", rows[d.id].owner)
               \/ Gate("admin_list", w.token)
    <3>1. Started(w) /\ Entitled(w)
      BY <2>3 DEF IInv, Paging, Entitlement
    <3>2. w.mode # "count"
      BY <3>1 DEF Entitled
    <3>3. Allows(w.filter, rows[d.id].owner)
      BY <3>1 DEF Started
    <3>4. CASE w.filter = Access(w.token, "widgets:read:all")
      BY <3>3, <3>4, AccessReaches
    <3> QED
      BY <3>1, <3>2, <3>4 DEF Entitled
  <2> QED
    BY <2>1, <2>2, <2>3 DEF SameReach
<1> QED
  BY <1>1, Inductive, PTL

\* As many pages as total_pages says hold every row.
LEMMA PagesSuffice ==
    ASSUME NEW n \in Nat, NEW k \in Nat, TotalPages(n) <= k
    PROVE  n <= k * PageSize
<1>1. PageSize \in Nat \ {0}
  BY WidgetAssumption
<1>2. PICK t : t = TotalPages(n)
  OBVIOUS
<1>3. t \in Nat /\ n <= t * PageSize
  BY <1>1, <1>2 DEF TotalPages
<1>4. t * PageSize <= k * PageSize
  BY <1>1, <1>2, <1>3
<1>5. k * PageSize \in Nat /\ t * PageSize \in Nat
  BY <1>1, <1>3
<1> QED
  BY <1>3, <1>4, <1>5

\* Rows that were all delivered once, and nothing else, are as many as deliveries.
LEMMA OneEach ==
    ASSUME NEW w, IsFiniteSet(w.steady),
           \A d \in w.got : d = [page |-> d.page, id |-> d.id] /\ d.id \in w.steady,
           \A i \in w.steady : Once(w, i)
    PROVE  Cardinality(w.got) = Cardinality(w.steady)
<1> DEFINE f == [d \in w.got |-> d.id]
<1>1. ASSUME NEW d \in w.got, NEW e \in w.got, d.id = e.id PROVE d = e
  <2>1. d.page \in PagesOf(w, d.id) /\ e.page \in PagesOf(w, d.id)
    BY <1>1 DEF PagesOf
  <2>2. d.page = e.page
    BY <2>1 DEF Once
  <2> QED
    BY <1>1, <2>2
<1>2. \A i \in w.steady : \E d \in w.got : d.id = i
  BY DEF Once, PagesOf
<1>3. f \in Injection(w.got, w.steady)
  BY <1>1, Fun_IsInj
<1>4. f \in Surjection(w.got, w.steady)
  BY <1>2, Fun_IsSurj
<1> HIDE DEF f
<1> QED
  BY <1>3, <1>4, FS_Injection

\* At the end of a walk every row that has been there from the start and has not
\* changed was delivered exactly once: by a cursor whatever the others write, by
\* numbered pages if they wrote nothing the walk may see (pagination.rs).
THEOREM ScansAreComplete == Spec => []ScanComplete
<1>1. IInv => ScanComplete
  <2> SUFFICES ASSUME IInv, NEW c \in Clients, On(c, "done"), NEW w, w = walk[c]
               PROVE  /\ (w.mode = "cursor" /\ ~w.drift) => \A i \in w.steady : Once(w, i)
                      /\ (w.mode = "offset" /\ w.quiet) =>
                          /\ \A i \in w.steady : Once(w, i)
                          /\ Cardinality(w.got) = w.total
                      /\ (w.mode = "count" /\ w.quiet) => w.total = Cardinality(w.steady)
    BY DEF ScanComplete
  <2>1. w.phase = "done" /\ w # Idle
    BY DEF On, Idle
  <2>2. /\ w \in Walks /\ Started(w) /\ ByCursor(w) /\ ByPage(w)
        /\ w.steady \subseteq DOMAIN rows
        /\ \A d \in w.got : d \in [page : Nat \ {0}, id : DOMAIN rows]
        /\ w.page \in Nat \ {0}
    BY <2>1, WalkFacts DEF IInv
  <2>3. (w.mode = "cursor" /\ ~w.drift) => \A i \in w.steady : Once(w, i)
    BY <2>1, <2>2 DEF ByCursor
  <2>4. (w.mode # "cursor" /\ w.quiet) => w.total = Cardinality(w.steady)
    BY <2>1, <2>2 DEF ByPage
  <2>5. ASSUME w.mode = "offset", w.quiet
        PROVE  (\A i \in w.steady : Once(w, i)) /\ Cardinality(w.got) = w.total
    <3>1. /\ w.total = Cardinality(w.steady) /\ TotalPages(w.total) <= Shown(w)
          /\ \A d \in w.got : d.id \in w.steady
          /\ \A i \in w.steady :
                IF Place(w, w.steady, i) < Shown(w) * PageSize THEN Once(w, i) ELSE PagesOf(w, i) = {}
      BY <2>1, <2>2, <2>5 DEF ByPage
    <3>2. IsFiniteSet(w.steady) /\ Cardinality(w.steady) \in Nat
      BY <2>2, RowsFinite, FS_Subset, FS_CardinalityType DEF IInv
    <3>3. Shown(w) \in Nat
      BY <2>1, <2>2 DEF Shown
    <3>4. Cardinality(w.steady) <= Shown(w) * PageSize
      BY <3>1, <3>2, <3>3, PagesSuffice
    <3>5. ASSUME NEW i \in w.steady PROVE Once(w, i)
      <4>1. Place(w, w.steady, i) \in 0..(Cardinality(w.steady) - 1)
        BY <2>2, PlaceBelow DEF IInv
      <4>2. Shown(w) * PageSize \in Nat
        BY <3>3, WidgetAssumption
      <4>3. Place(w, w.steady, i) < Shown(w) * PageSize
        BY <3>2, <3>4, <4>1, <4>2
      <4> QED
        BY <3>1, <4>3
    <3>6. \A d \in w.got : d = [page |-> d.page, id |-> d.id] /\ d.id \in w.steady
      BY <2>2, <3>1
    <3> QED
      BY <3>1, <3>2, <3>5, <3>6, OneEach
  <2> QED
    BY <2>3, <2>4, <2>5
<1> QED
  BY <1>1, Inductive, PTL
===============================================================================
