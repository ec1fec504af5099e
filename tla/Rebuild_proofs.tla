----------------------------- MODULE Rebuild_proofs -----------------------------
(***************************************************************************)
(* Proofs about Rebuild for every finite set of users, every page size and     *)
(* every number of events, give-ups, repetitions and rebuilds.                *)
(***************************************************************************)
EXTENDS Rebuild, SequenceTheorems, FiniteSetTheorems, FunctionTheorems, WellFoundedInduction, TLAPS

-------------------------------------------------------------------------------
(* The inductive invariant.                                                 *)

S(e) == SchemaOf(e.kind)

Twins(e, f) == e.user = f.user /\ S(e) = S(f)

\* The events of one user and schema are committed in the order of their ids.
Ordered ==
    /\ \A i, j \in 1..Len(log) : (i < j /\ Twins(log[i], log[j])) => log[i].seq < log[j].seq
    /\ \A e \in Logged, f \in inflight : Twins(e, f) => e.seq < f.seq
    /\ \A e, f \in inflight : Twins(e, f) => e = f
    /\ \A e \in Logged \cup inflight : e.seq <= serial[S(e)]

\* A user is created before it is deleted.
Born ==
    /\ \A c, d \in Logged :
        (c.user = d.user /\ c.kind = "user.created" /\ d.kind = "user.deleted") => c.seq < d.seq
    /\ \A d \in Logged \cup inflight : d.kind = "user.deleted" => Happened(d.user, "user.created")
    /\ \A c \in inflight : c.kind = "user.created" => ~Happened(c.user, "user.created")

\* A watermark is of the past, and what was handled is below it or on record.
Marked ==
    /\ \A e \in inflight : index[e.user].seq[S(e)] < e.seq
    /\ \A u \in Users, s \in Schemas : index[u].seq[s] <= serial[s]
    /\ \A i \in 1..pos : index[log[i].user].seq[S(log[i])] < log[i].seq => log[i] \in skipped \cup undone

\* What the rebuild's watermarks are lower bounds of.
Floored == {s \in Schemas : \/ step \in {"page", "names", "upsert", "done"}
                            \/ s = "idm" /\ step = "floor_app"}

Floors ==
    /\ \A e \in inflight : S(e) \in Floored => floor[S(e)] < e.seq
    /\ step = "floor_app" => written = {}

\* What of a page has been read.
Read == IF step = "upsert" THEN Columns ELSE Columns \ {"display_name"}

\* A page is not older than the watermarks.
Pages ==
    \A k \in 1..Len(page) : \A e \in Logged :
        (e.user = page[k].user /\ e.seq <= floor[S(e)]) =>
            /\ e.kind # "user.deleted"
            /\ \A c \in Writes[e.kind] \cap Read : e.seq <= page[k].cols[c]

\* While nothing is committed, pages and written rows are what there is.
Healed ==
    (step \in {"page", "names", "upsert", "done"} /\ Quiet) =>
        /\ \A k \in 1..Len(page) : \A c \in Read : page[k].cols[c] = Current(page[k].user, c)
        /\ \A u \in written :
            /\ \A c \in Columns : index[u].cols[c] = Current(u, c)
            /\ ~index[u].deleted
            /\ \A s \in Schemas : index[u].seq[s] = floor[s]

IInv == /\ TypeOK /\ Ordered /\ Born /\ Marked /\ Floors /\ Pages /\ Healed
        /\ WatermarkHonest

-------------------------------------------------------------------------------
(* Events and columns.                                                      *)

\* Each column has one source, and so one watermark.
LEMMA KindFacts ==
    ASSUME NEW k \in Kinds
    PROVE  /\ SchemaOf(k) \in Schemas
           /\ Writes[k] \subseteq Columns
           /\ \A c \in Writes[k], l \in Kinds : c \in Writes[l] => SchemaOf(k) = SchemaOf(l)
           /\ k \in {"user.created", "user.deleted"} => SchemaOf(k) = "idm"
<1>1. \A c \in Writes[k] : c = "display_name" <=> SchemaOf(k) = "app"
  BY DEF Kinds, SchemaOf, Writes
<1>2. \A l \in Kinds : \A c \in Writes[l] : c = "display_name" <=> SchemaOf(l) = "app"
  BY DEF Kinds, SchemaOf, Writes
<1>3. \A l \in Kinds : SchemaOf(l) \in {"idm", "app"}
  BY DEF SchemaOf
<1> QED
  BY <1>1, <1>2, <1>3 DEF Kinds, SchemaOf, Schemas, Writes, Columns

\* A row after the column writes of an event.
LEMMA OverwriteType ==
    ASSUME NEW row \in Rows, NEW e, e.kind \in Kinds, e.seq \in Nat
    PROVE  /\ Overwrite(row, e) \in Rows
           /\ \A c \in Columns : Overwrite(row, e).cols[c] =
                IF c \in Writes[e.kind] THEN e.seq ELSE row.cols[c]
           /\ \A s \in Schemas : Overwrite(row, e).seq[s] =
                IF s = SchemaOf(e.kind) THEN e.seq ELSE row.seq[s]
           /\ e.kind = "user.deleted" => Overwrite(row, e).deleted
           /\ e.kind # "user.created" => (row.deleted => Overwrite(row, e).deleted)
<1> DEFINE cols == [c \in Columns |-> IF c \in Writes[e.kind] THEN e.seq ELSE row.cols[c]]
           deleted == CASE e.kind = "user.created" -> FALSE
                        [] e.kind = "user.deleted" -> TRUE
                        [] OTHER                   -> row.deleted
           seq == [row.seq EXCEPT ![SchemaOf(e.kind)] = e.seq]
<1>1. cols \in [Columns -> Nat]
  BY DEF Rows
<1>2. deleted \in BOOLEAN
  BY DEF Rows
<1>3. row.seq \in [Schemas -> Nat] /\ SchemaOf(e.kind) \in Schemas
  BY KindFacts DEF Rows
<1>4. seq \in [Schemas -> Nat]
  BY <1>3
<1>5. Overwrite(row, e) = [cols |-> cols, deleted |-> deleted, seq |-> seq]
  BY DEF Overwrite
<1>6. \A s \in Schemas : seq[s] = IF s = SchemaOf(e.kind) THEN e.seq ELSE row.seq[s]
  BY <1>3
<1>7. /\ e.kind = "user.deleted" => deleted = TRUE
      /\ e.kind \notin {"user.created", "user.deleted"} => deleted = row.deleted
  OBVIOUS
<1> HIDE DEF cols, deleted, seq
<1>8. Overwrite(row, e) \in Rows
  BY <1>1, <1>2, <1>4, <1>5 DEF Rows
<1>9. /\ Overwrite(row, e).cols = cols
      /\ Overwrite(row, e).deleted = deleted
      /\ Overwrite(row, e).seq = seq
  BY <1>5
<1>10. \A c \in Columns : cols[c] = IF c \in Writes[e.kind] THEN e.seq ELSE row.cols[c]
  BY DEF cols
<1>11. e.kind # "user.created" => (row.deleted => deleted)
  BY <1>7
<1> QED
  BY <1>6, <1>7, <1>8, <1>9, <1>10, <1>11

\* A bounded set of numbers has a newest.
LEMMA NewestExists ==
    ASSUME NEW X \in SUBSET Nat, NEW b \in Nat, \A n \in X : n <= b
    PROVE  Newest(X) \in Nat /\ NewestOf(Newest(X), X)
<1> DEFINE T == {n \in Nat : \A m \in X : m <= n}
<1> DEFINE R == {p \in Nat \X Nat : p[1] < p[2]}
<1>0. IsWellFoundedOn(R, Nat)
  BY NatLessThanWellFounded DEF OpToRel
<1>1. \E x \in T : \A y \in T : ~(<<y, x>> \in R)
  <2>1. b \in T /\ T \subseteq Nat /\ T # {}
    OBVIOUS
  <2> HIDE DEF T, R
  <2> QED
    BY <2>1, <1>0, WFMin
<1>2. PICK x \in T : \A y \in T : ~(y < x)
  BY <1>1
<1>3. x = 0 \/ x \in X
  <2> SUFFICES ASSUME x # 0, x \notin X PROVE FALSE
    OBVIOUS
  <2>1. x - 1 \in Nat /\ x - 1 < x
    OBVIOUS
  <2>2. \A m \in X : m <= x - 1
    OBVIOUS
  <2>3. x - 1 \in T
    BY <2>1, <2>2
  <2> QED
    BY <1>2, <2>1, <2>3
<1>4. x \in X \cup {0} /\ NewestOf(x, X)
  BY <1>3 DEF NewestOf
<1>5. Newest(X) \in X \cup {0} /\ NewestOf(Newest(X), X)
  BY <1>4 DEF Newest
<1>6. X \cup {0} \subseteq Nat
  OBVIOUS
<1> HIDE DEF T, R
<1> QED
  BY <1>5, <1>6, Zenon

\* Types of what is logged and in flight.
LEMMA EventType ==
    ASSUME TypeOK
    PROVE  /\ Logged \subseteq Events /\ inflight \subseteq Events
           /\ Len(log) \in Nat
           /\ \A e \in Events : /\ e.kind \in Kinds /\ e.user \in Users /\ e.seq \in Nat /\ e.seq # 0
                                /\ S(e) \in Schemas /\ Writes[e.kind] \subseteq Columns
           /\ \A i \in 1..Len(log) : log[i] \in Logged
           /\ \A e \in Logged : \E i \in 1..Len(log) : e = log[i]
           /\ \A s \in Schemas : serial[s] \in Nat /\ floor[s] \in Nat /\ floor[s] <= serial[s]
           /\ \A u \in Users, s \in Schemas : index[u].seq[s] \in Nat
           /\ \A u \in Users, c \in Columns : index[u].cols[c] \in Nat
           /\ \A u \in Users : index[u] \in Rows
<1>1. \A i \in 1..Len(log) : log[i] \in Events
  BY ElementOfSeq DEF TypeOK
<1>2. \A e \in Events : /\ e.kind \in Kinds /\ e.user \in Users /\ e.seq \in Nat /\ e.seq # 0
                        /\ S(e) \in Schemas /\ Writes[e.kind] \subseteq Columns
  BY KindFacts DEF Events, S
<1>3. \A u \in Users : index[u] \in Rows
  BY DEF TypeOK
<1>4. /\ \A s \in Schemas : serial[s] \in Nat /\ floor[s] \in Nat /\ floor[s] <= serial[s]
      /\ inflight \subseteq Events /\ Len(log) \in Nat
  BY DEF TypeOK
<1>5. /\ \A u \in Users, s \in Schemas : index[u].seq[s] \in Nat
      /\ \A u \in Users, c \in Columns : index[u].cols[c] \in Nat
  BY <1>3 DEF Rows
<1>6. /\ Logged \subseteq Events
      /\ \A i \in 1..Len(log) : log[i] \in Logged
      /\ \A e \in Logged : \E i \in 1..Len(log) : e = log[i]
  BY <1>1 DEF Logged
<1> QED
  BY <1>2, <1>3, <1>4, <1>5, <1>6

\* The newest committed event of a column.
LEMMA CurrentType ==
    ASSUME TypeOK, Ordered, NEW u \in Users, NEW c \in Columns
    PROVE  /\ Current(u, c) \in Nat
           /\ \A e \in Logged : (e.user = u /\ c \in Writes[e.kind]) => e.seq <= Current(u, c)
<1> DEFINE X == {e.seq : e \in {d \in Logged : d.user = u /\ c \in Writes[d.kind]}}
           b == serial["idm"] + serial["app"]
<1>1. \A e \in Logged : e.seq \in Nat /\ S(e) \in Schemas /\ e.seq <= serial[S(e)]
  BY EventType DEF Ordered
<1>2. serial["idm"] \in Nat /\ serial["app"] \in Nat
  BY EventType DEF Schemas
<1>3. b \in Nat /\ X \in SUBSET Nat /\ \A n \in X : n <= b
  BY <1>1, <1>2 DEF Schemas
<1> HIDE DEF b
<1>4. Newest(X) \in Nat /\ NewestOf(Newest(X), X)
  <2> HIDE DEF X
  <2> QED
    BY <1>3, NewestExists
<1>5. Current(u, c) = Newest(X)
  BY DEF Current
<1> QED
  BY <1>4, <1>5 DEF NewestOf

-------------------------------------------------------------------------------
(* The projector and the rebuild on a row.                                  *)

\* The projector handles an event: the next one or one it has handled before.
LEMMA HandleStep ==
    ASSUME TypeOK, Ordered, Born, Marked, WatermarkHonest,
           NEW i \in 1..Len(log), i <= pos', Handle(log[i]),
           UNCHANGED <<log, serial, inflight>>, pos' = pos \/ (pos' = pos + 1 /\ i = pos + 1)
    PROVE  /\ index' \in [Users -> Rows] /\ skipped' \subseteq skipped /\ undone' \subseteq undone
           /\ Marked' /\ WatermarkHonest'
           /\ \A u \in Users : index'[u] = index[u] \/ (WatermarkApplies(log[i], index[u]) /\ u = log[i].user)
<1> DEFINE e == log[i]
           u == e.user
           row == index[u]
<1>1. /\ e \in Logged /\ e \in Events /\ e.kind \in Kinds /\ u \in Users /\ e.seq \in Nat /\ S(e) \in Schemas
      /\ Writes[e.kind] \subseteq Columns /\ row \in Rows /\ index \in [Users -> Rows]
  BY EventType DEF TypeOK
<1>2. /\ index' = [index EXCEPT ![u] = Apply(row, e)]
      /\ IF WatermarkApplies(e, row) THEN skipped' = skipped \ {e} /\ undone' = undone \ {e}
                                     ELSE UNCHANGED losses
  BY DEF Handle
<1>3. /\ Logged' = Logged /\ pos \in Nat /\ Len(log) \in Nat
      /\ \A j \in 1..pos' : (j \in 1..pos \/ j = i) /\ j \in 1..Len(log)
  BY EventType DEF Logged, TypeOK
<1> HIDE DEF e, u, row
<1>4. CASE ~WatermarkApplies(e, row)
  <2>1. index' = index /\ skipped' = skipped /\ undone' = undone
    BY <1>1, <1>2, <1>4 DEF Apply, losses, row
  <2>2. ~(index[u].seq[S(e)] < e.seq)
    BY <1>1, <1>4, EventType DEF WatermarkApplies, S, row
  <2>3. Marked'
    <3>1. \A j \in 1..pos' : index'[log'[j].user].seq[S(log'[j])] < log'[j].seq => log'[j] \in skipped' \cup undone'
      BY <2>1, <2>2, <1>3 DEF Marked, e, u
    <3> QED
      BY <3>1, <2>1 DEF Marked
  <2>4. WatermarkHonest'
    BY <2>1, <1>3 DEF WatermarkHonest
  <2> QED
    BY <1>1, <2>1, <2>3, <2>4
<1>5. CASE WatermarkApplies(e, row)
  <2> DEFINE new == Overwrite(row, e)
  <2>1. /\ index' = [index EXCEPT ![u] = new]
        /\ skipped' = skipped \ {e} /\ undone' = undone \ {e}
    BY <1>2, <1>5 DEF Apply
  <2>2. /\ new \in Rows
        /\ \A c \in Columns : new.cols[c] = IF c \in Writes[e.kind] THEN e.seq ELSE row.cols[c]
        /\ \A s \in Schemas : new.seq[s] = IF s = S(e) THEN e.seq ELSE row.seq[s]
        /\ e.kind = "user.deleted" => new.deleted
        /\ e.kind # "user.created" => (row.deleted => new.deleted)
    BY <1>1, OverwriteType DEF S
  <2> HIDE DEF new
  <2>3. index'[u] = new /\ \A v \in Users : v # u => index'[v] = index[v]
    BY <1>1, <2>1
  <2>4. index' \in [Users -> Rows]
    BY <1>1, <2>1, <2>2
  <2>5. row.seq[S(e)] < e.seq /\ row.seq[S(e)] \in Nat
    BY <1>1, <1>5, EventType DEF WatermarkApplies, S, row
  \* A twin of e with another seq stands before or behind it in the log.
  <2>6. ASSUME NEW j \in 1..Len(log), Twins(log[j], e)
        PROVE  /\ j < i => log[j].seq < e.seq
               /\ i < j => e.seq < log[j].seq
               /\ log[j].seq \in Nat /\ (j < i \/ i < j \/ log[j] = e)
               /\ log[j].user = u /\ S(log[j]) = S(e)
    BY <2>6, EventType DEF Ordered, Twins, e, u
  <2>7. Marked'
    <3>1. ASSUME NEW f \in inflight PROVE index'[f.user].seq[S(f)] < f.seq
      <4>0. f.user \in Users /\ S(f) \in Schemas
        BY EventType
      <4>1. CASE f.user = u /\ S(f) = S(e)
        BY <4>1, <1>1, <2>2, <2>3 DEF Ordered, Twins, u
      <4>2. CASE ~(f.user = u /\ S(f) = S(e))
        BY <4>0, <4>2, <2>2, <2>3 DEF Marked, row
      <4> QED
        BY <4>1, <4>2
    <3>2. ASSUME NEW v \in Users, NEW s \in Schemas PROVE index'[v].seq[s] <= serial[s]
      <4>1. e.seq <= serial[S(e)]
        BY <1>1 DEF Ordered
      <4> QED
        BY <4>1, <2>2, <2>3 DEF Marked, row
    <3>3. ASSUME NEW j \in 1..pos', index'[log[j].user].seq[S(log[j])] < log[j].seq
          PROVE  log[j] \in skipped' \cup undone'
      <4>1. j \in 1..Len(log) /\ log[j].user \in Users /\ S(log[j]) \in Schemas /\ log[j].seq \in Nat
        BY <1>3, EventType
      <4>2. CASE Twins(log[j], e)
        <5>1. index'[log[j].user].seq[S(log[j])] = e.seq
          BY <4>1, <4>2, <2>2, <2>3, <2>6
        <5>2. log[j] # e /\ j # i
          BY <5>1, <3>3, <1>1 DEF e
        <5>3. j \in 1..pos /\ index[log[j].user].seq[S(log[j])] < log[j].seq
          <6>1. row.seq[S(e)] < log[j].seq
            BY <5>1, <3>3, <4>1, <2>5, <1>1
          <6> QED
            BY <6>1, <5>2, <1>3, <4>1, <4>2, <2>6 DEF row
        <5> QED
          BY <5>2, <5>3, <2>1 DEF Marked
      <4>3. CASE ~Twins(log[j], e)
        <5>1. log[j] # e /\ j # i
          BY <4>3 DEF Twins, e
        <5>2. index'[log[j].user].seq[S(log[j])] = index[log[j].user].seq[S(log[j])]
          BY <4>1, <4>3, <2>2, <2>3 DEF Twins, u, row
        <5> QED
          BY <5>1, <5>2, <3>3, <1>3, <2>1 DEF Marked
      <4> QED
        BY <4>2, <4>3
    <3> QED
      BY <3>1, <3>2, <3>3 DEF Marked
  <2>8. WatermarkHonest'
    <3> SUFFICES ASSUME NEW f \in Logged, f \notin skipped', f \notin undone', f.seq <= index'[f.user].seq[S(f)]
                 PROVE  /\ \A c \in Writes[f.kind] : f.seq <= index'[f.user].cols[c]
                        /\ f.kind = "user.deleted" => index'[f.user].deleted
      BY <1>3 DEF WatermarkHonest, S
    <3>1. /\ f.user \in Users /\ S(f) \in Schemas /\ f.seq \in Nat /\ f.kind \in Kinds
          /\ Writes[f.kind] \subseteq Columns
      BY EventType
    <3>2. PICK j \in 1..Len(log) : f = log[j]
      BY EventType
    <3>3. (f # e /\ f.seq <= index[f.user].seq[S(f)]) =>
            /\ \A c \in Writes[f.kind] : f.seq <= index[f.user].cols[c]
            /\ f.kind = "user.deleted" => index[f.user].deleted
      BY <2>1 DEF WatermarkHonest, S
    <3>4. CASE f.user # u
      <4>1. f # e /\ index'[f.user] = index[f.user]
        BY <3>1, <3>4, <2>3 DEF u
      <4> QED
        BY <4>1, <3>3
    <3>5. CASE f.user = u /\ S(f) # S(e)
      <4>1. f # e /\ f.seq <= row.seq[S(f)]
        BY <3>1, <3>5, <2>2, <2>3
      <4>2. /\ \A c \in Writes[f.kind] : f.seq <= row.cols[c]
            /\ f.kind = "user.deleted" => row.deleted
        BY <3>3, <3>5, <4>1 DEF row
      <4>3. \A c \in Writes[f.kind] : c \notin Writes[e.kind] /\ c \in Columns
        BY <3>1, <3>5, <1>1, KindFacts DEF S
      <4>4. f.kind = "user.deleted" => e.kind # "user.created"
        BY <3>1, <3>5, <1>1, KindFacts DEF S
      <4> QED
        BY <4>2, <4>3, <4>4, <3>5, <2>2, <2>3
    <3>6. CASE f = e
      BY <3>6, <3>1, <2>2, <2>3, <1>1 DEF u
    <3>7. CASE f.user = u /\ S(f) = S(e) /\ f # e
      <4>1. f.seq <= e.seq /\ Twins(log[j], e)
        BY <3>7, <3>2, <2>2, <2>3, <1>1 DEF Twins, u
      <4>2. j < i /\ f.seq < e.seq
        BY <4>1, <3>2, <3>7, <2>6, <1>1
      <4>3. f.seq <= row.seq[S(f)]
        <5> SUFFICES ASSUME ~(f.seq <= row.seq[S(f)]) PROVE FALSE
          OBVIOUS
        <5>1. index[f.user].seq[S(f)] < f.seq
          BY <3>7, <3>1, <2>5 DEF row
        <5>2. j \in 1..pos
          BY <4>2, <1>3
        <5>3. f \in skipped \cup undone
          BY <5>1, <5>2, <3>2 DEF Marked
        <5> QED
          BY <5>3, <3>7, <2>1
      <4>4. /\ \A c \in Writes[f.kind] : f.seq <= row.cols[c]
            /\ f.kind = "user.deleted" => row.deleted
        BY <3>3, <3>7, <4>3 DEF row
      <4>5. f.kind = "user.deleted" => e.kind # "user.created"
        <5> SUFFICES ASSUME f.kind = "user.deleted", e.kind = "user.created" PROVE FALSE
          OBVIOUS
        <5>1. e.seq < f.seq
          BY <3>7, <1>1 DEF Born, u
        <5> QED
          BY <5>1, <4>2, <3>1, <1>1
      <4> QED
        BY <4>1, <4>4, <4>5, <3>1, <3>7, <2>2, <2>3, <1>1
    <3> QED
      BY <3>4, <3>5, <3>6, <3>7
  <2> QED
    BY <2>1, <2>3, <2>4, <2>7, <2>8, <1>5 DEF e, u, row
<1> QED
  BY <1>4, <1>5

\* The projector gives an event up.
LEMMA SkipStep ==
    ASSUME TypeOK, Marked, WatermarkHonest, Skip
    PROVE  Marked' /\ WatermarkHonest' /\ skipped' \subseteq Events
<1>1. /\ pos < Len(log) /\ pos \in Nat /\ Len(log) \in Nat
      /\ pos' = pos + 1 /\ UNCHANGED <<source, index, undone>>
      /\ skipped' = IF WatermarkApplies(log[pos + 1], index[log[pos + 1].user])
                    THEN skipped \cup {log[pos + 1]} ELSE skipped
  BY EventType DEF Skip, TypeOK
<1>2. log[pos + 1] \in Events
  BY <1>1, EventType
<1>3. skipped \subseteq skipped' /\ skipped' \subseteq Events
  BY <1>1, <1>2 DEF TypeOK
<1>4. \A j \in 1..pos' : index[log[j].user].seq[S(log[j])] < log[j].seq => log[j] \in skipped' \cup undone
  <2>1. ~WatermarkApplies(log[pos + 1], index[log[pos + 1].user]) =>
            ~(index[log[pos + 1].user].seq[S(log[pos + 1])] < log[pos + 1].seq)
    BY <1>2, EventType DEF WatermarkApplies, S
  <2>2. \A j \in 1..pos' : j \in 1..pos \/ j = pos + 1
    BY <1>1
  <2> QED
    BY <1>1, <1>3, <2>1, <2>2 DEF Marked
<1>5. Marked'
  BY <1>1, <1>4 DEF Marked, source
<1>6. WatermarkHonest'
  BY <1>1, <1>3 DEF WatermarkHonest, source, Logged
<1> QED
  BY <1>3, <1>5, <1>6

\* What an upsert of the rebuild does.
LEMMA Upserting ==
    ASSUME TypeOK, Upsert
    PROVE  /\ page[1] \in [user : Users, cols : [Columns -> Nat]] /\ 1 \in 1..Len(page)
           /\ index'[page[1].user] = [cols |-> page[1].cols, deleted |-> FALSE, seq |-> floor]
           /\ \A v \in Users : v # page[1].user => index'[v] = index[v]
           /\ index' \in [Users -> Rows]
           /\ \A e \in Events : e.user # page[1].user => /\ e \in skipped' <=> e \in skipped
                                                         /\ e \in undone' <=> e \in undone
           /\ \A i \in 1..pos : (log[i].user = page[1].user /\ log[i].seq > floor[S(log[i])]) => log[i] \in undone'
           /\ skipped' \subseteq Events /\ undone' \subseteq Events
           /\ UNCHANGED <<source, pos, floor, after, bounds>>
<1>1. page \in Seq([user : Users, cols : [Columns -> Nat]]) /\ page # << >> /\ Len(page) \in Nat
  BY DEF TypeOK, Upsert
<1>2. 1 \in 1..Len(page) /\ page[1] \in [user : Users, cols : [Columns -> Nat]]
  <2> DEFINE R == [user : Users, cols : [Columns -> Nat]]
  <2>1. page \in Seq(R) /\ page # << >>
    BY <1>1
  <2> HIDE DEF R
  <2>2. Len(page) \in Nat \ {0}
    BY <2>1, EmptySeq
  <2>3. 1 \in 1..Len(page)
    BY <2>2
  <2>4. page[1] \in R
    BY <2>1, <2>3, ElementOfSeq
  <2> QED
    BY <2>3, <2>4 DEF R
<1>3. index' = [index EXCEPT ![page[1].user] = RebuiltRow(page[1].cols)] /\ Reconcile(page[1].user)
      /\ UNCHANGED <<source, pos, floor, after, bounds>>
  BY DEF Upsert
<1>4. RebuiltRow(page[1].cols) \in Rows
  BY <1>2 DEF RebuiltRow, Rows, TypeOK
<1>5. /\ skipped' = {e \in skipped : e.user # page[1].user \/ (e.user = page[1].user /\ e.seq > floor[S(e)])}
      /\ undone' = {e \in undone : e.user # page[1].user}
                   \cup {e \in {log[i] : i \in 1..pos} : e.user = page[1].user /\ e.seq > floor[S(e)]}
  BY <1>3 DEF Reconcile, S
<1>6. \A i \in 1..pos : log[i] \in Events
  BY EventType DEF TypeOK
<1>7. index \in [Users -> Rows] /\ skipped \subseteq Events /\ undone \subseteq Events
  BY DEF TypeOK
<1>8. /\ index'[page[1].user] = [cols |-> page[1].cols, deleted |-> FALSE, seq |-> floor]
      /\ \A v \in Users : v # page[1].user => index'[v] = index[v]
      /\ index' \in [Users -> Rows]
  BY <1>2, <1>3, <1>4, <1>7 DEF RebuiltRow
<1> QED
  BY <1>2, <1>3, <1>5, <1>6, <1>7, <1>8

\* The rebuild overwrites a row.
LEMMA UpsertStep ==
    ASSUME TypeOK, Marked, Floors, Pages, WatermarkHonest, Upsert
    PROVE  Marked' /\ WatermarkHonest'
<1> DEFINE u == page[1].user
<1>1. /\ step = "upsert" /\ u \in Users /\ 1 \in 1..Len(page)
      /\ index'[u].cols = page[1].cols /\ index'[u].seq = floor
      /\ \A v \in Users : v # u => index'[v] = index[v]
      /\ log' = log /\ inflight' = inflight /\ serial' = serial /\ pos' = pos /\ Logged' = Logged
  BY Upserting DEF Upsert, source, Logged
<1>2. /\ \A e \in Events : e.user # u => /\ e \in skipped' <=> e \in skipped
                                         /\ e \in undone' <=> e \in undone
      /\ \A i \in 1..pos : (log[i].user = u /\ log[i].seq > floor[S(log[i])]) => log[i] \in undone'
  BY Upserting
<1> HIDE DEF u
<1>3. \A i \in 1..pos : log[i] \in Events
  BY EventType DEF TypeOK
<1>4. Marked'
  <2>1. ASSUME NEW f \in inflight PROVE index'[f.user].seq[S(f)] < f.seq
    <3>1. f.user \in Users /\ S(f) \in Schemas
      BY EventType
    <3>2. S(f) \in Floored
      BY <3>1, <1>1 DEF Floored
    <3> QED
      BY <3>1, <3>2, <1>1 DEF Floors, Marked
  <2>2. ASSUME NEW v \in Users, NEW s \in Schemas PROVE index'[v].seq[s] <= serial[s]
    BY <1>1, EventType DEF Marked
  <2>3. ASSUME NEW i \in 1..pos, index'[log[i].user].seq[S(log[i])] < log[i].seq
        PROVE  log[i] \in skipped' \cup undone'
    <3>1. log[i] \in Events /\ log[i].user \in Users /\ S(log[i]) \in Schemas /\ log[i].seq \in Nat
          /\ floor[S(log[i])] \in Nat
      BY <1>3, EventType
    <3>2. CASE log[i].user = u
      BY <3>1, <3>2, <2>3, <1>1, <1>2
    <3>3. CASE log[i].user # u
      BY <3>1, <3>3, <2>3, <1>1, <1>2 DEF Marked
    <3> QED
      BY <3>2, <3>3
  <2> QED
    BY <2>1, <2>2, <2>3, <1>1 DEF Marked
<1>5. WatermarkHonest'
  <2> SUFFICES ASSUME NEW f \in Logged, f \notin skipped', f \notin undone', f.seq <= index'[f.user].seq[S(f)]
               PROVE  /\ \A c \in Writes[f.kind] : f.seq <= index'[f.user].cols[c]
                      /\ f.kind = "user.deleted" => index'[f.user].deleted
    BY <1>1 DEF WatermarkHonest, S
  <2>1. f \in Events /\ f.user \in Users /\ Writes[f.kind] \subseteq Columns
    BY EventType
  <2>2. CASE f.user = u
    <3>1. f.seq <= floor[S(f)]
      BY <2>2, <1>1
    <3>2. f.kind # "user.deleted" /\ \A c \in Writes[f.kind] \cap Read : f.seq <= page[1].cols[c]
      BY <2>2, <3>1, <1>1 DEF Pages, u
    <3> QED
      BY <2>1, <2>2, <3>2, <1>1 DEF Read
  <2>3. CASE f.user # u
    <3>1. f \notin skipped /\ f \notin undone /\ index'[f.user] = index[f.user]
      BY <2>1, <2>3, <1>1, <1>2
    <3> QED
      BY <3>1 DEF WatermarkHonest, S
  <2> QED
    BY <2>2, <2>3
<1> QED
  BY <1>4, <1>5

-------------------------------------------------------------------------------
(* The writers.                                                             *)

\* A writer draws an id above every other of its schema.
LEMMA Inserting ==
    ASSUME TypeOK, Ordered, NEW u \in Users, NEW kind \in Written, Insert(u, kind)
    PROVE  LET s == SchemaOf(kind)
               e == [kind |-> kind, user |-> u, seq |-> serial[s] + 1]
           IN  /\ e \in Events /\ S(e) = s /\ e.user = u /\ e.kind = kind /\ e.seq = serial[s] + 1
               /\ s \in Schemas /\ Possible(u, kind)
               /\ \A f \in inflight : ~Twins(f, e)
               /\ inflight' = inflight \cup {e}
               /\ serial' \in [Schemas -> Nat] /\ serial'[s] = serial[s] + 1 /\ serial'[s] <= MaxSeq(s)
               /\ \A t \in Schemas : t # s => serial'[t] = serial[t]
               /\ UNCHANGED <<log, pos, index, losses, cli, bounds>> /\ Logged' = Logged
<1> DEFINE s == SchemaOf(kind)
           e == [kind |-> kind, user |-> u, seq |-> serial[s] + 1]
<1>1. kind \in Kinds /\ s \in Schemas
  BY RebuildAssumption, KindFacts
<1>2. serial \in [Schemas -> Nat] /\ \A t \in Schemas : MaxSeq(t) \in Nat
  BY RebuildAssumption DEF TypeOK, MaxSeq
<1>3. /\ serial[s] < MaxSeq(s) /\ Possible(u, kind)
      /\ \A f \in inflight : ~(f.user = u /\ SchemaOf(f.kind) = s)
      /\ serial' = [serial EXCEPT ![s] = @ + 1]
      /\ inflight' = inflight \cup {e}
      /\ UNCHANGED <<log, pos, index, losses, cli, bounds>>
  BY DEF Insert
<1>4. e \in Events /\ S(e) = s /\ e.user = u /\ e.kind = kind /\ e.seq = serial[s] + 1
  BY <1>1, <1>2 DEF Events, S
<1>5. /\ serial' \in [Schemas -> Nat] /\ serial'[s] = serial[s] + 1 /\ serial'[s] <= MaxSeq(s)
      /\ \A t \in Schemas : t # s => serial'[t] = serial[t]
  BY <1>1, <1>2, <1>3
<1>6. \A f \in inflight : ~Twins(f, e)
  BY <1>3, <1>4 DEF Twins, S
<1>7. Logged' = Logged
  BY <1>3 DEF Logged
<1> QED
  BY <1>1, <1>3, <1>4, <1>5, <1>6, <1>7

\* A transaction commits.
LEMMA Committing ==
    ASSUME TypeOK, Commit
    PROVE  \E e \in inflight :
              /\ e \in Events /\ inflight' = inflight \ {e}
              /\ log' \in Seq(Events) /\ Len(log') = Len(log) + 1 /\ log'[Len(log) + 1] = e
              /\ \A i \in 1..Len(log) : log'[i] = log[i]
              /\ Logged' = Logged \cup {e}
              /\ UNCHANGED <<serial, pos, index, losses, cli, bounds>>
<1>1. PICK e \in inflight :
        /\ inflight' = inflight \ {e}
        /\ log' = Append(log, e)
        /\ UNCHANGED <<serial, pos, index, losses, cli, bounds>>
  BY DEF Commit
<1>2. e \in Events /\ log \in Seq(Events) /\ Len(log) \in Nat
  BY DEF TypeOK
<1>3. /\ log' \in Seq(Events) /\ Len(log') = Len(log) + 1 /\ log'[Len(log) + 1] = e
      /\ \A i \in 1..Len(log) : log'[i] = log[i]
  <2> HIDE DEF Events
  <2> QED
    BY <1>1, <1>2, AppendProperties
<1>4. 1..Len(log') = (1..Len(log)) \cup {Len(log) + 1}
  BY <1>2, <1>3
<1>5. Logged' = Logged \cup {e}
  <2>1. Logged' = {log'[i] : i \in 1..Len(log')}
    BY DEF Logged
  <2> QED
    BY <2>1, <1>3, <1>4 DEF Logged
<1> QED
  BY <1>1, <1>2, <1>3, <1>5

\* The order of the ids is the order of the commits, user by user and schema by
\* schema: the row is locked from the insert to the commit.
LEMMA OrderedStep ==
    ASSUME TypeOK, Ordered, [Next]_vars
    PROVE  Ordered'
<1>1. CASE \E u \in Users : \E kind \in Written : Insert(u, kind)
  <2>1. PICK u \in Users : \E kind \in Written : Insert(u, kind)
    BY <1>1
  <2>2. PICK kind \in Written : Insert(u, kind)
    BY <2>1
  <2> DEFINE s == SchemaOf(kind)
             e == [kind |-> kind, user |-> u, seq |-> serial[s] + 1]
  <2>3. /\ e \in Events /\ S(e) = s /\ e.seq = serial[s] + 1 /\ s \in Schemas
        /\ \A f \in inflight : ~Twins(f, e)
        /\ inflight' = inflight \cup {e}
        /\ serial'[s] = serial[s] + 1
        /\ \A t \in Schemas : t # s => serial'[t] = serial[t]
        /\ log' = log /\ Logged' = Logged
    BY <2>2, Inserting
  <2> HIDE DEF s, e
  <2>4. \A f \in Logged \cup inflight : f.seq \in Nat /\ S(f) \in Schemas /\ f.seq <= serial[S(f)]
    BY EventType DEF Ordered
  <2>5. \A t \in Schemas : serial[t] \in Nat
    BY EventType
  <2>6. \A f \in (Logged \cup inflight)' : f.seq <= serial'[S(f)]
    BY <2>3, <2>4, <2>5
  <2>7. \A d \in Logged', f \in inflight' : Twins(d, f) => d.seq < f.seq
    BY <2>3, <2>4, <2>5 DEF Ordered, Twins
  <2>8. \A d, f \in inflight' : Twins(d, f) => d = f
    BY <2>3 DEF Ordered, Twins
  <2>9. \A i, j \in 1..Len(log') : (i < j /\ Twins(log'[i], log'[j])) => log'[i].seq < log'[j].seq
    BY <2>3 DEF Ordered
  <2> QED
    BY <2>6, <2>7, <2>8, <2>9 DEF Ordered
<1>2. CASE Commit
  <2>1. PICK e \in inflight :
              /\ inflight' = inflight \ {e}
              /\ Len(log') = Len(log) + 1 /\ log'[Len(log) + 1] = e
              /\ \A i \in 1..Len(log) : log'[i] = log[i]
              /\ Logged' = Logged \cup {e}
              /\ UNCHANGED <<serial, pos, index, losses, cli, bounds>>
    BY <1>2, Committing
  <2>2. Len(log) \in Nat /\ \A i \in 1..Len(log) : log[i] \in Logged
    BY EventType
  <2>3. \A f \in (Logged \cup inflight)' : f.seq <= serial'[S(f)]
    BY <2>1 DEF Ordered
  <2>4. \A d \in Logged', f \in inflight' : Twins(d, f) => d.seq < f.seq
    BY <2>1 DEF Ordered
  <2>5. \A d, f \in inflight' : Twins(d, f) => d = f
    BY <2>1 DEF Ordered
  <2>6. ASSUME NEW i \in 1..Len(log'), NEW j \in 1..Len(log'), i < j, Twins(log'[i], log'[j])
        PROVE  log'[i].seq < log'[j].seq
    <3>1. i \in 1..Len(log)
      BY <2>1, <2>2, <2>6
    <3>2. CASE j \in 1..Len(log)
      BY <3>1, <3>2, <2>1, <2>6 DEF Ordered
    <3>3. CASE j = Len(log) + 1
      BY <3>1, <3>3, <2>1, <2>2, <2>6 DEF Ordered
    <3> QED
      BY <3>2, <3>3, <2>1, <2>2
  <2> QED
    BY <2>3, <2>4, <2>5, <2>6 DEF Ordered
<1>3. CASE UNCHANGED source
  BY <1>3 DEF Ordered, Logged, source
<1> QED
  BY <1>1, <1>2, <1>3 DEF Next, Project, ProjectAgain, Skip, ReadFloorIdm, ReadFloorApp, ReadPage, ReadNames,
                          Upsert, Abort, vars

\* A user is created once and only deleted afterwards.
LEMMA BornStep ==
    ASSUME TypeOK, Ordered, Born, [Next]_vars
    PROVE  Born'
<1>0. \A e \in Events : e.kind \in {"user.created", "user.deleted"} => S(e) = "idm"
  BY EventType, KindFacts DEF S
<1>1. CASE \E u \in Users : \E kind \in Written : Insert(u, kind)
  <2>1. PICK u \in Users : \E kind \in Written : Insert(u, kind)
    BY <1>1
  <2>2. PICK kind \in Written : Insert(u, kind)
    BY <2>1
  <2> DEFINE s == SchemaOf(kind)
             e == [kind |-> kind, user |-> u, seq |-> serial[s] + 1]
  <2>3. /\ e.user = u /\ e.kind = kind /\ Possible(u, kind)
        /\ inflight' = inflight \cup {e} /\ Logged' = Logged
    BY <2>2, Inserting
  <2> HIDE DEF s, e
  <2>4. kind = "user.deleted" => Happened(u, "user.created")
    BY <2>3 DEF Possible, Alive
  <2>5. kind = "user.created" => ~Happened(u, "user.created")
    BY <2>3 DEF Possible
  <2> QED
    BY <2>3, <2>4, <2>5 DEF Born, Happened
<1>2. CASE Commit
  <2>1. PICK e \in inflight :
              /\ inflight' = inflight \ {e} /\ Logged' = Logged \cup {e}
    BY <1>2, Committing
  <2>2. Logged \subseteq Events /\ inflight \subseteq Events
    BY EventType
  <2>3. ASSUME NEW c \in Logged', NEW d \in Logged',
               c.user = d.user, c.kind = "user.created", d.kind = "user.deleted"
        PROVE  c.seq < d.seq
    <3>1. c # e
      <4> SUFFICES ASSUME c = e PROVE FALSE
        OBVIOUS
      <4>1. d \in Logged \cup inflight
        BY <2>1
      <4>2. Happened(d.user, "user.created")
        BY <4>1, <2>3 DEF Born
      <4> QED
        BY <4>2, <2>3 DEF Born
    <3>2. c \in Logged
      BY <3>1, <2>1
    <3>3. CASE d = e
      BY <3>2, <3>3, <2>2, <2>3, <1>0 DEF Ordered, Twins
    <3> QED
      BY <3>2, <3>3, <2>1, <2>3 DEF Born
  <2>4. \A d \in (Logged \cup inflight)' : d.kind = "user.deleted" => Happened(d.user, "user.created")'
    BY <2>1 DEF Born, Happened
  <2>5. \A c \in inflight' : c.kind = "user.created" => ~Happened(c.user, "user.created")'
    <3> SUFFICES ASSUME NEW c \in inflight', c.kind = "user.created", Happened(c.user, "user.created")'
                 PROVE  FALSE
      OBVIOUS
    <3>1. PICK d \in Logged' : d.user = c.user /\ d.kind = "user.created"
      BY DEF Happened
    <3>2. d \notin Logged
      BY <3>1, <2>1 DEF Born, Happened
    <3>3. d = e /\ c \in inflight /\ c # e
      BY <3>2, <2>1
    <3> QED
      BY <3>1, <3>3, <2>2, <1>0 DEF Ordered, Twins
  <2> QED
    BY <2>3, <2>4, <2>5 DEF Born
<1>3. CASE UNCHANGED source
  BY <1>3 DEF Born, Happened, Logged, source
<1> QED
  BY <1>1, <1>2, <1>3 DEF Next, Project, ProjectAgain, Skip, ReadFloorIdm, ReadFloorApp, ReadPage, ReadNames,
                          Upsert, Abort, vars

-------------------------------------------------------------------------------
(* The steps of the invariant.                                              *)

\* Whatever happens, a watermark stays honest and what was handled on record.
LEMMA HonestStep ==
    ASSUME IInv, [Next]_vars
    PROVE  Marked' /\ WatermarkHonest'
<1>0. TypeOK /\ Ordered /\ Born /\ Marked /\ Floors /\ Pages /\ WatermarkHonest
  BY DEF IInv
<1>1. CASE \E u \in Users : \E kind \in Written : Insert(u, kind)
  <2>1. PICK u \in Users : \E kind \in Written : Insert(u, kind)
    BY <1>1
  <2>2. PICK kind \in Written : Insert(u, kind)
    BY <2>1
  <2> DEFINE s == SchemaOf(kind)
             e == [kind |-> kind, user |-> u, seq |-> serial[s] + 1]
  <2>3. /\ S(e) = s /\ e.seq = serial[s] + 1 /\ e.user = u /\ s \in Schemas
        /\ inflight' = inflight \cup {e}
        /\ serial'[s] = serial[s] + 1
        /\ \A t \in Schemas : t # s => serial'[t] = serial[t]
        /\ UNCHANGED <<log, pos, index, losses>> /\ Logged' = Logged
    BY <2>2, <1>0, Inserting
  <2> HIDE DEF s, e
  <2>4. /\ \A t \in Schemas : serial[t] \in Nat
        /\ \A v \in Users, t \in Schemas : index[v].seq[t] \in Nat /\ index[v].seq[t] <= serial[t]
    BY <1>0, EventType DEF Marked
  <2>5. \A f \in inflight' : index'[f.user].seq[S(f)] < f.seq
    <3>1. index[u].seq[s] < serial[s] + 1
      BY <2>3, <2>4
    <3> QED
      BY <3>1, <2>3, <1>0 DEF Marked
  <2>6. \A v \in Users, t \in Schemas : index'[v].seq[t] <= serial'[t]
    BY <2>3, <2>4
  <2>7. Marked'
    BY <2>3, <2>5, <2>6, <1>0 DEF Marked, losses
  <2> QED
    BY <2>3, <2>7, <1>0 DEF WatermarkHonest, losses
<1>2. CASE Commit
  <2>1. PICK e \in inflight :
              /\ e \in Events /\ inflight' = inflight \ {e}
              /\ \A i \in 1..Len(log) : log'[i] = log[i]
              /\ Logged' = Logged \cup {e}
              /\ UNCHANGED <<serial, pos, index, losses>>
    BY <1>2, <1>0, Committing
  <2>2. pos \in Nat /\ Len(log) \in Nat /\ pos <= Len(log)
    BY <1>0 DEF TypeOK
  <2>3. \A i \in 1..pos : log'[i] = log[i]
    BY <2>1, <2>2
  <2>4. Marked'
    BY <2>1, <2>3, <1>0 DEF Marked, losses
  <2>5. ~(e.seq <= index[e.user].seq[S(e)])
    BY <2>1, <1>0, EventType DEF Marked
  <2>6. WatermarkHonest'
    BY <2>1, <2>5, <1>0 DEF WatermarkHonest, losses, S
  <2> QED
    BY <2>4, <2>6
<1>3. CASE Project
  <2>1. /\ pos < Len(log) /\ Handle(log[pos + 1]) /\ pos' = pos + 1
        /\ UNCHANGED <<log, serial, inflight>>
    BY <1>3 DEF Project, source
  <2>2. pos + 1 \in 1..Len(log) /\ pos \in Nat
    BY <2>1, <1>0 DEF TypeOK
  <2> QED
    BY <2>1, <2>2, <1>0, HandleStep
<1>4. CASE ProjectAgain
  <2>1. PICK i \in 1..pos : Handle(log[i])
    BY <1>4 DEF ProjectAgain
  <2>2. UNCHANGED <<log, serial, inflight>> /\ pos' = pos
    BY <1>4 DEF ProjectAgain, source
  <2>3. i \in 1..Len(log) /\ i <= pos'
    BY <2>2, <1>0 DEF TypeOK
  <2> QED
    BY <2>1, <2>2, <2>3, <1>0, HandleStep
<1>5. CASE Skip
  BY <1>5, <1>0, SkipStep
<1>6. CASE Upsert
  BY <1>6, <1>0, UpsertStep
<1>7. CASE UNCHANGED <<source, pos, index, losses>>
  BY <1>7, <1>0 DEF Marked, WatermarkHonest, Logged, source, losses
<1> QED
  BY <1>1, <1>2, <1>3, <1>4, <1>5, <1>6, <1>7
     DEF Next, ReadFloorIdm, ReadFloorApp, ReadPage, ReadNames, Abort, vars

\* A watermark of the rebuild is an id that was drawn.
LEMMA FloorType ==
    ASSUME TypeOK, Ordered, NEW s \in Schemas
    PROVE  /\ Newest(Committed(s)) \in Nat /\ Newest(Committed(s)) <= serial[s]
           /\ \A e \in Logged : S(e) = s => e.seq <= Newest(Committed(s))
<1> DEFINE X == Committed(s)
<1>1. \A e \in Logged : S(e) = s => e.seq \in Nat /\ e.seq <= serial[s]
  BY EventType DEF Ordered
<1>2. X = {e.seq : e \in {d \in Logged : S(d) = s}}
  BY DEF Committed, S
<1>3. X \in SUBSET Nat /\ serial[s] \in Nat /\ \A n \in X : n <= serial[s]
  BY <1>1, <1>2, EventType
<1>4. \A e \in Logged : S(e) = s => e.seq \in X
  BY <1>2
<1> HIDE DEF X
<1>5. Newest(X) \in Nat /\ NewestOf(Newest(X), X)
  BY <1>3, NewestExists
<1> QED
  BY <1>3, <1>4, <1>5 DEF NewestOf, X

\* Reading a watermark: behind the table lock it is below all that will commit.
LEMMA Flooring ==
    ASSUME TypeOK, Ordered, NEW s \in Schemas, ReadWatermark(s)
    PROVE  /\ floor' \in [Schemas -> Nat] /\ floor'[s] <= serial[s]
           /\ \A t \in Schemas : t # s => floor'[t] = floor[t]
           /\ \A e \in inflight : S(e) # s
<1>1. floor \in [Schemas -> Nat]
  BY DEF TypeOK
<1>2. floor' = [floor EXCEPT ![s] = Newest(Committed(s))] /\ \A e \in inflight : S(e) # s
  BY DEF ReadWatermark, S
<1>3. Newest(Committed(s)) \in Nat /\ Newest(Committed(s)) <= serial[s]
  BY FloorType
<1> QED
  BY <1>1, <1>2, <1>3

\* What is in flight once a watermark is read lies above it.
LEMMA FloorsStep ==
    ASSUME IInv, [Next]_vars
    PROVE  Floors'
<1>0. TypeOK /\ Ordered /\ Floors
  BY DEF IInv
<1>1. CASE \E u \in Users : \E kind \in Written : Insert(u, kind)
  <2>1. PICK u \in Users : \E kind \in Written : Insert(u, kind)
    BY <1>1
  <2>2. PICK kind \in Written : Insert(u, kind)
    BY <2>1
  <2> DEFINE s == SchemaOf(kind)
             e == [kind |-> kind, user |-> u, seq |-> serial[s] + 1]
  <2>3. /\ S(e) = s /\ e.seq = serial[s] + 1 /\ s \in Schemas
        /\ inflight' = inflight \cup {e}
        /\ UNCHANGED cli
    BY <2>2, <1>0, Inserting
  <2> HIDE DEF s, e
  <2>4. floor[s] < serial[s] + 1
    BY <2>3, <1>0, EventType
  <2> QED
    BY <2>3, <2>4, <1>0 DEF Floors, Floored, cli
<1>2. CASE Commit
  <2>1. inflight' \subseteq inflight /\ UNCHANGED cli
    BY <1>2 DEF Commit
  <2> QED
    BY <2>1, <1>0 DEF Floors, Floored, cli
<1>3. CASE ReadFloorIdm
  <2>1. ReadWatermark("idm") /\ step' = "floor_app" /\ written' = {} /\ inflight' = inflight
    BY <1>3 DEF ReadFloorIdm, source
  <2>2. Floored' = {"idm"}
    BY <2>1 DEF Floored, Schemas
  <2>3. \A e \in inflight' : S(e) # "idm"
    BY <2>1 DEF ReadWatermark, S
  <2> QED
    BY <2>1, <2>2, <2>3 DEF Floors
<1>4. CASE ReadFloorApp
  <2>1. ReadWatermark("app") /\ step = "floor_app" /\ step' = "page" /\ inflight' = inflight
    BY <1>4 DEF ReadFloorApp, source
  <2>2. \A e \in inflight : S(e) # "app" /\ S(e) \in Schemas
    BY <2>1, <1>0, EventType DEF ReadWatermark, S
  <2>3. "app" \in Schemas
    BY DEF Schemas
  <2>4. \A t \in Schemas : t # "app" => floor'[t] = floor[t]
    BY <2>1, <2>3, <1>0, Flooring
  <2>5. \A e \in inflight : S(e) = "idm" /\ S(e) \in Floored
    BY <2>1, <2>2 DEF Schemas, Floored
  <2> QED
    BY <2>1, <2>2, <2>4, <2>5, <1>0 DEF Floors
<1>5. CASE ReadPage \/ ReadNames \/ Upsert
  <2>1. /\ step \in {"page", "names", "upsert"} /\ step' \in {"page", "names", "upsert", "done"}
        /\ floor' = floor /\ inflight' = inflight
    BY <1>5 DEF ReadPage, ReadNames, Upsert, AfterUpsert, source
  <2> QED
    BY <2>1, <1>0 DEF Floors, Floored
<1>6. CASE Abort
  BY <1>6, <1>0 DEF Abort, Floors, Floored, source
<1>7. CASE UNCHANGED <<inflight, cli>>
  BY <1>7, <1>0 DEF Floors, Floored, cli
<1> QED
  BY <1>1, <1>2, <1>3, <1>4, <1>5, <1>6, <1>7
     DEF Next, Project, ProjectAgain, Skip, vars, source

-------------------------------------------------------------------------------
(* The pages of the rebuild.                                                *)

PageRows == [user : Users, cols : [Columns -> Nat]]

\* A page holds live users with their columns, all but the display name.
LEMMA Paging ==
    ASSUME TypeOK, Ordered, ReadPage
    PROVE  \/ step' = "done" /\ page' = page /\ after' = after
           \/ /\ step' = "names" /\ page' \in Seq(PageRows) /\ page' # << >> /\ after' \in Users \cup {0}
              /\ \A k \in 1..Len(page') :
                    /\ page'[k].user \in Users /\ Alive(page'[k].user)
                    /\ \A c \in Columns \ {"display_name"} : page'[k].cols[c] = Current(page'[k].user, c)
<1> DEFINE live == {u \in Users : Alive(u) /\ u > after}
           Row(u) == [user |-> u, cols |-> [c \in Columns |-> IF c = "display_name" THEN 0 ELSE Current(u, c)]]
<1>1. PICK listing \in Listings :
        LET users == FirstOf(listing, PageLimit)
        IN  IF users = << >>
            THEN /\ step' = "done"
                 /\ UNCHANGED <<after, page>>
            ELSE /\ step' = "names"
                 /\ after' = IF Len(listing) > PageLimit THEN users[Len(users)] ELSE 0
                 /\ page' = [k \in 1..Len(users) |-> Row(users[k])]
  BY DEF ReadPage
<1> DEFINE users == FirstOf(listing, PageLimit)
<1>2. listing \in [1..Cardinality(live) -> live]
  BY DEF Listings
<1>3. Cardinality(live) \in Nat
  BY RebuildAssumption, FS_Subset, FS_CardinalityType
<1>4. listing \in Seq(live) /\ Len(listing) \in Nat
  <2> HIDE DEF live
  <2> QED
    BY <1>2, <1>3
<1>5. PageLimit \in Nat
  BY RebuildAssumption
<1>6. users \in Seq(live)
  <2> DEFINE n == IF Len(listing) < PageLimit THEN Len(listing) ELSE PageLimit
  <2>1. n \in Int /\ n <= Len(listing)
    BY <1>4, <1>5
  <2> HIDE DEF live
  <2>2. \A k \in 1..n : listing[k] \in live
    BY <1>4, <2>1, ElementOfSeq
  <2>3. SubSeq(listing, 1, n) \in Seq(live)
    <3> HIDE DEF n
    <3> QED
      BY <2>1, <2>2, SubSeqProperties
  <2> QED
    BY <2>3 DEF FirstOf
<1> HIDE DEF users
<1>7. CASE users = << >>
  BY <1>1, <1>7 DEF users
<1>8. CASE users # << >>
  <2>1. /\ step' = "names"
        /\ after' = IF Len(listing) > PageLimit THEN users[Len(users)] ELSE 0
        /\ page' = [k \in 1..Len(users) |-> Row(users[k])]
    BY <1>1, <1>8 DEF users
  <2>2. Len(users) \in Nat \ {0} /\ \A k \in 1..Len(users) : users[k] \in live
    <3> HIDE DEF live
    <3> QED
      BY <1>6, <1>8, EmptySeq, ElementOfSeq
  <2>3. \A u \in live : Row(u) \in PageRows
    BY CurrentType DEF PageRows
  <2> HIDE DEF Row
  <2>4. page' \in [1..Len(users) -> PageRows]
    BY <2>1, <2>2, <2>3
  <2>5. page' \in Seq(PageRows) /\ Len(page') = Len(users) /\ page' # << >>
    <3> HIDE DEF PageRows
    <3> QED
      BY <2>2, <2>4
  <2>6. after' \in Users \cup {0}
    BY <2>1, <2>2
  <2>7. \A k \in 1..Len(page') : page'[k] = Row(users[k]) /\ users[k] \in live
    BY <2>1, <2>2, <2>5
  <2>8. ASSUME NEW k \in 1..Len(page')
        PROVE  /\ page'[k].user \in Users /\ Alive(page'[k].user)
               /\ \A c \in Columns \ {"display_name"} : page'[k].cols[c] = Current(page'[k].user, c)
    <3> DEFINE u == users[k]
    <3>1. page'[k] = Row(u) /\ u \in live
      BY <2>7
    <3> HIDE DEF u
    <3>2. page'[k].user = u /\ u \in Users /\ Alive(u)
      BY <3>1 DEF Row
    <3>3. \A c \in Columns \ {"display_name"} : page'[k].cols[c] = Current(u, c)
      BY <3>1 DEF Row
    <3> QED
      BY <3>2, <3>3
  <2>9. step' = "names"
    BY <2>1
  <2> QED
    BY <2>5, <2>6, <2>8, <2>9, Zenon
<1> QED
  BY <1>7, <1>8

\* The display names fill the page.
LEMMA Naming ==
    ASSUME TypeOK, Ordered, ReadNames
    PROVE  /\ page' \in Seq(PageRows) /\ page' # << >> /\ Len(page') = Len(page)
           /\ \A k \in 1..Len(page) :
                /\ page'[k].user = page[k].user /\ page[k].user \in Users
                /\ \A c \in Columns \ {"display_name"} : page'[k].cols[c] = page[k].cols[c]
                /\ page'[k].cols["display_name"] = Current(page[k].user, "display_name")
<1> DEFINE Row(k) == [page[k] EXCEPT !.cols["display_name"] = Current(page[k].user, "display_name")]
<1>1. page \in Seq(PageRows) /\ page # << >> /\ page' = [k \in 1..Len(page) |-> Row(k)]
  BY DEF ReadNames, TypeOK, PageRows
<1>2. Len(page) \in Nat \ {0} /\ \A k \in 1..Len(page) : page[k] \in PageRows
  <2> HIDE DEF PageRows
  <2> QED
    BY <1>1, EmptySeq, ElementOfSeq
<1>3. ASSUME NEW k \in 1..Len(page)
      PROVE  /\ Row(k) \in PageRows /\ Row(k).user = page[k].user /\ page[k].user \in Users
             /\ \A c \in Columns \ {"display_name"} : Row(k).cols[c] = page[k].cols[c]
             /\ Row(k).cols["display_name"] = Current(page[k].user, "display_name")
  <2>1. page[k] \in PageRows
    BY <1>2
  <2>2. page[k].user \in Users /\ "display_name" \in Columns
    BY <2>1 DEF PageRows, Columns
  <2>3. Current(page[k].user, "display_name") \in Nat
    BY <2>2, CurrentType
  <2> QED
    BY <2>1, <2>2, <2>3 DEF PageRows
<1> HIDE DEF Row
<1>4. page' \in [1..Len(page) -> PageRows]
  BY <1>1, <1>3
<1>5. page' \in Seq(PageRows) /\ Len(page') = Len(page) /\ page' # << >>
  <2> HIDE DEF PageRows
  <2> QED
    BY <1>2, <1>4
<1> QED
  BY <1>1, <1>3, <1>5

\* An upsert takes the first row off the page.
LEMMA Popping ==
    ASSUME TypeOK, Upsert
    PROVE  /\ page' \in Seq(PageRows)
           /\ \A k \in 1..Len(page') : page'[k] = page[k + 1] /\ k + 1 \in 1..Len(page)
           /\ \/ step' = "upsert" /\ page' # << >>
              \/ step' \in {"page", "done"} /\ page' = << >>
<1>1. page \in Seq(PageRows) /\ page # << >> /\ page' = Tail(page)
  BY DEF Upsert, TypeOK, PageRows
<1>2. Len(page) \in Nat \ {0} /\ page' \in Seq(PageRows) /\ Len(page') = Len(page) - 1
      /\ \A k \in 1..Len(page') : page'[k] = page[k + 1]
  <2> HIDE DEF PageRows
  <2> QED
    BY <1>1, EmptySeq, HeadTailProperties
<1>3. step' = IF Len(page) > 1 THEN "upsert" ELSE IF after = 0 THEN "done" ELSE "page"
  BY DEF Upsert, AfterUpsert
<1>4. page' = << >> <=> Len(page') = 0
  <2> HIDE DEF PageRows
  <2> QED
    BY <1>2, EmptySeq
<1> QED
  BY <1>2, <1>3, <1>4

\* What is read after the watermarks is not older than they are.
LEMMA PagesStep ==
    ASSUME IInv, [Next]_vars
    PROVE  Pages'
<1>0. TypeOK /\ Ordered /\ Floors /\ Pages
  BY DEF IInv
<1>1. CASE Commit
  <2>1. PICK e \in inflight : /\ e \in Events /\ Logged' = Logged \cup {e}
                              /\ UNCHANGED cli
    BY <1>1, <1>0, Committing
  <2>2. S(e) \in Schemas /\ e.seq \in Nat /\ floor[S(e)] \in Nat
    BY <2>1, <1>0, EventType
  <2>3. CASE page = << >>
    BY <2>1, <2>3 DEF Pages, cli
  <2>4. CASE page # << >>
    <3>1. S(e) \in Floored
      BY <2>2, <2>4, <1>0 DEF TypeOK, Floored
    <3>2. ~(e.seq <= floor[S(e)])
      BY <3>1, <2>2, <1>0 DEF Floors
    <3> QED
      BY <2>1, <3>2, <1>0 DEF Pages, Read, cli
  <2> QED
    BY <2>3, <2>4
<1>2. CASE ReadPage
  <2>1. step = "page" /\ page = << >> /\ floor' = floor /\ Logged' = Logged
    BY <1>2, <1>0 DEF ReadPage, TypeOK, source, Logged
  <2>2. CASE page' = page
    BY <2>1, <2>2 DEF Pages
  <2>3. CASE /\ step' = "names"
             /\ \A k \in 1..Len(page') :
                    /\ page'[k].user \in Users /\ Alive(page'[k].user)
                    /\ \A c \in Columns \ {"display_name"} : page'[k].cols[c] = Current(page'[k].user, c)
    <3>1. Read' = Columns \ {"display_name"}
      BY <2>3 DEF Read
    <3>2. SUFFICES ASSUME NEW k \in 1..Len(page'), NEW e \in Logged, e.user = page'[k].user
                   PROVE  /\ e.kind # "user.deleted"
                          /\ \A c \in Writes[e.kind] \cap Read' : e.seq <= page'[k].cols[c]
      BY <2>1 DEF Pages
    <3>3. e.kind # "user.deleted"
      BY <3>2, <2>3 DEF Alive, Happened
    <3>4. ASSUME NEW c \in Writes[e.kind] \cap Read' PROVE e.seq <= page'[k].cols[c]
      <4>1. page'[k].user \in Users /\ c \in Columns /\ page'[k].cols[c] = Current(page'[k].user, c)
        BY <3>1, <2>3
      <4>2. e.seq <= Current(page'[k].user, c)
        BY <4>1, <3>2, <1>0, CurrentType
      <4> QED
        BY <4>1, <4>2
    <3> QED
      BY <3>3, <3>4
  <2> QED
    BY <1>0, <1>2, <2>2, <2>3, Paging
<1>3. CASE ReadNames
  <2>1. step = "names" /\ step' = "upsert" /\ floor' = floor /\ Logged' = Logged
    BY <1>3 DEF ReadNames, source, Logged
  <2>2. /\ Len(page') = Len(page)
        /\ \A k \in 1..Len(page) :
                /\ page'[k].user = page[k].user /\ page[k].user \in Users
                /\ \A c \in Columns \ {"display_name"} : page'[k].cols[c] = page[k].cols[c]
                /\ page'[k].cols["display_name"] = Current(page[k].user, "display_name")
    BY <1>0, <1>3, Naming
  <2>3. Read' = Columns /\ Read = Columns \ {"display_name"} /\ "display_name" \in Columns
    BY <2>1 DEF Read, Columns
  <2>4. SUFFICES ASSUME NEW k \in 1..Len(page), NEW e \in Logged, e.user = page[k].user, e.seq <= floor[S(e)]
                 PROVE  /\ e.kind # "user.deleted"
                        /\ \A c \in Writes[e.kind] \cap Columns : e.seq <= page'[k].cols[c]
    BY <2>1, <2>2, <2>3 DEF Pages
  <2>5. /\ e.kind # "user.deleted"
        /\ \A c \in Writes[e.kind] \cap Read : e.seq <= page[k].cols[c]
    BY <2>4, <1>0 DEF Pages
  <2>6. ASSUME NEW c \in Writes[e.kind] \cap Columns PROVE e.seq <= page'[k].cols[c]
    <3>1. CASE c = "display_name"
      <4>1. e.seq <= Current(page[k].user, c)
        BY <2>2, <2>4, <1>0, CurrentType
      <4> QED
        BY <3>1, <4>1, <2>2
    <3>2. CASE c # "display_name"
      BY <3>2, <2>2, <2>3, <2>5
    <3> QED
      BY <3>1, <3>2
  <2> QED
    BY <2>5, <2>6
<1>4. CASE Upsert
  <2>1. step = "upsert" /\ floor' = floor /\ Logged' = Logged
    BY <1>4 DEF Upsert, source, Logged
  <2>2. CASE page' = << >>
    BY <2>2 DEF Pages
  <2>3. CASE /\ step' = "upsert"
             /\ \A k \in 1..Len(page') : page'[k] = page[k + 1] /\ k + 1 \in 1..Len(page)
    BY <2>1, <2>3, <1>0 DEF Pages, Read
  <2> QED
    BY <1>0, <1>4, <2>2, <2>3, Popping
<1>5. CASE page' = << >>
  BY <1>5 DEF Pages
<1>6. CASE UNCHANGED <<log, cli>>
  BY <1>6, <1>0 DEF Pages, Logged, Read, cli
<1>7. ReadFloorApp => page' = << >>
  BY <1>0 DEF ReadFloorApp, TypeOK
<1> QED
  BY <1>1, <1>2, <1>3, <1>4, <1>5, <1>6, <1>7
     DEF Next, Insert, Project, ProjectAgain, Skip, ReadFloorIdm, Abort, vars, source

\* While nothing is committed, the pages and the rows written from them are the
\* users' current state.
LEMMA HealedStep ==
    ASSUME IInv, [Next]_vars
    PROVE  Healed'
<1>0. TypeOK /\ Ordered /\ Floors /\ Healed
  BY DEF IInv
<1> DEFINE Fresh(k) == \A c \in Read : page[k].cols[c] = Current(page[k].user, c)
           Whole(u) == /\ \A c \in Columns : index[u].cols[c] = Current(u, c)
                       /\ ~index[u].deleted
                       /\ \A s \in Schemas : index[u].seq[s] = floor[s]
<1>1. CASE Commit
  <2>1. PICK e \in inflight : /\ e \in Events /\ Logged' = Logged \cup {e}
                              /\ UNCHANGED cli
    BY <1>1, <1>0, Committing
  <2>2. S(e) \in Schemas /\ e.seq \in Nat /\ floor[S(e)] \in Nat
    BY <2>1, <1>0, EventType
  <2>3. SUFFICES ASSUME step \in {"page", "names", "upsert", "done"}, Quiet' PROVE FALSE
    BY <2>1 DEF Healed, cli
  <2>4. S(e) \in Floored
    BY <2>2, <2>3 DEF Floored
  <2>5. ~(e.seq <= floor[S(e)])
    BY <2>2, <2>4, <1>0 DEF Floors
  <2> QED
    BY <2>1, <2>3, <2>5 DEF Quiet, cli, S
<1>2. CASE Project \/ ProjectAgain
  <2>1. PICK i \in 1..Len(log) : Handle(log[i])
    <3>1. CASE Project
      <4>1. pos < Len(log) /\ Handle(log[pos + 1])
        BY <3>1 DEF Project
      <4>2. pos + 1 \in 1..Len(log)
        BY <4>1, <1>0 DEF TypeOK
      <4> QED
        BY <4>1, <4>2
    <3>2. CASE ProjectAgain
      <4>1. PICK i \in 1..pos : Handle(log[i])
        BY <3>2 DEF ProjectAgain
      <4>2. i \in 1..Len(log)
        BY <1>0 DEF TypeOK
      <4> QED
        BY <4>1, <4>2
    <3> QED
      BY <1>2, <3>1, <3>2
  <2> DEFINE e == log[i]
  <2>2. log' = log /\ UNCHANGED cli
    BY <1>2 DEF Project, ProjectAgain, source
  <2>3. Logged' = Logged
    BY <2>2 DEF Logged
  <2>4. SUFFICES ASSUME step \in {"page", "names", "upsert", "done"}, Quiet
                 PROVE  \A u \in written : index'[u] = index[u]
    BY <2>2, <2>3, <1>0 DEF Healed, Quiet, Read, Current, cli
  <2>5. /\ e \in Logged /\ e \in Events /\ e.user \in Users /\ S(e) \in Schemas /\ e.seq \in Nat
        /\ index \in [Users -> Rows]
    BY <1>0, EventType DEF TypeOK
  <2>6. e.seq <= floor[S(e)] /\ floor[S(e)] \in Nat
    BY <2>4, <2>5, <1>0, EventType DEF Quiet, S
  <2>7. index' = [index EXCEPT ![e.user] = Apply(index[e.user], e)]
    BY <2>1 DEF Handle
  <2> HIDE DEF e
  <2>8. ASSUME NEW u \in written PROVE index'[u] = index[u]
    <3>1. u \in Users
      BY <1>0 DEF TypeOK
    <3>2. CASE u # e.user
      BY <3>1, <3>2, <2>5, <2>7
    <3>3. CASE u = e.user
      <4>1. index[u].seq[S(e)] = floor[S(e)]
        BY <2>4, <2>5, <1>0 DEF Healed
      <4>2. ~WatermarkApplies(e, index[u])
        BY <4>1, <2>5, <2>6 DEF WatermarkApplies, S
      <4> QED
        BY <3>1, <3>3, <4>2, <2>5, <2>7 DEF Apply
    <3> QED
      BY <3>2, <3>3
  <2> QED
    BY <2>8
<1>3. CASE ReadFloorApp
  <2>1. written' = {} /\ page' = << >>
    BY <1>3, <1>0 DEF ReadFloorApp, Floors, TypeOK
  <2> QED
    BY <2>1 DEF Healed
<1>4. CASE ReadPage \/ ReadNames \/ Upsert
  <2>1. /\ floor' = floor /\ Logged' = Logged /\ step \in {"page", "names", "upsert"}
        /\ Quiet' = Quiet
    BY <1>4 DEF ReadPage, ReadNames, Upsert, source, Logged, Quiet
  <2>2. \A u, c : Current(u, c)' = Current(u, c)
    BY <2>1 DEF Current
  <2> SUFFICES ASSUME Quiet
               PROVE  /\ \A k \in 1..Len(page') : Fresh(k)'
                      /\ \A u \in written' : Whole(u)'
    BY <2>1 DEF Healed
  <2>3. (\A k \in 1..Len(page) : Fresh(k)) /\ (\A u \in written : Whole(u))
    BY <2>1, <1>0 DEF Healed
  <2>4. CASE ReadPage
    <3>1. UNCHANGED <<index, floor, written>> /\ step = "page" /\ page = << >>
      BY <2>4, <1>0 DEF ReadPage, TypeOK
    <3>2. \A u \in written' : Whole(u)'
      BY <3>1, <2>2, <2>3
    <3>3. CASE page' = page
      BY <3>1, <3>2, <3>3
    <3>4. CASE /\ step' = "names"
               /\ \A k \in 1..Len(page') :
                    \A c \in Columns \ {"display_name"} : page'[k].cols[c] = Current(page'[k].user, c)
      <4>1. Read' = Columns \ {"display_name"}
        BY <3>4 DEF Read
      <4> QED
        BY <4>1, <3>2, <3>4, <2>2
    <3> QED
      BY <3>3, <3>4, <2>4, <1>0, Paging
  <2>5. CASE ReadNames
    <3>1. UNCHANGED <<index, floor, written>> /\ step = "names" /\ step' = "upsert"
      BY <2>5 DEF ReadNames
    <3>2. \A u \in written' : Whole(u)'
      BY <3>1, <2>2, <2>3
    <3>3. /\ Len(page') = Len(page)
          /\ \A k \in 1..Len(page) :
                /\ page'[k].user = page[k].user
                /\ \A c \in Columns \ {"display_name"} : page'[k].cols[c] = page[k].cols[c]
                /\ page'[k].cols["display_name"] = Current(page[k].user, "display_name")
      BY <2>5, <1>0, Naming
    <3>4. Read' = Columns /\ Read = Columns \ {"display_name"}
      BY <3>1 DEF Read
    <3>5. ASSUME NEW k \in 1..Len(page'), NEW c \in Columns PROVE page'[k].cols[c] = Current(page'[k].user, c)
      <4>1. CASE c = "display_name"
        BY <4>1, <3>3
      <4>2. CASE c # "display_name"
        BY <4>2, <3>3, <3>4, <2>3
      <4> QED
        BY <4>1, <4>2
    <3> QED
      BY <3>2, <3>4, <3>5, <2>2
  <2>6. CASE Upsert
    <3> DEFINE w == page[1].user
    <3>1. /\ w \in Users /\ 1 \in 1..Len(page)
          /\ index'[w] = [cols |-> page[1].cols, deleted |-> FALSE, seq |-> floor]
          /\ \A v \in Users : v # w => index'[v] = index[v]
      BY <2>6, <1>0, Upserting
    <3>2. written' = written \cup {w} /\ step = "upsert" /\ written \subseteq Users
      BY <2>6, <1>0 DEF Upsert, TypeOK
    <3>3. Read = Columns
      BY <3>2 DEF Read
    <3>4. \A c \in Columns : page[1].cols[c] = Current(w, c)
      BY <3>1, <3>3, <2>3
    <3> HIDE DEF w
    <3>5. ASSUME NEW u \in written' PROVE Whole(u)'
      <4>1. CASE u = w
        <5>1. index'[u].cols = page[1].cols /\ ~index'[u].deleted /\ index'[u].seq = floor
          BY <4>1, <3>1
        <5>2. \A c \in Columns : index'[u].cols[c] = Current(u, c)
          BY <4>1, <5>1, <3>4
        <5> QED
          BY <5>1, <5>2, <2>1, <2>2
      <4>2. CASE u # w
        <5>1. u \in written /\ index'[u] = index[u]
          BY <4>2, <3>1, <3>2
        <5> QED
          BY <5>1, <2>1, <2>2, <2>3
      <4> QED
        BY <4>1, <4>2
    <3>6. \A k \in 1..Len(page') : page'[k] = page[k + 1] /\ k + 1 \in 1..Len(page)
      BY <2>6, <1>0, Popping
    <3>7. Read' \subseteq Columns
      BY DEF Read
    <3>8. \A k \in 1..Len(page') : Fresh(k)'
      BY <3>3, <3>6, <3>7, <2>2, <2>3
    <3> QED
      BY <3>5, <3>8
  <2> QED
    BY <1>4, <2>4, <2>5, <2>6
<1>5. CASE step' \notin {"page", "names", "upsert", "done"}
  BY <1>5 DEF Healed
<1>6. CASE UNCHANGED <<log, index, cli>>
  <2>1. Logged' = Logged
    BY <1>6 DEF Logged
  <2> QED
    BY <1>6, <2>1, <1>0 DEF Healed, Quiet, Read, Current, cli
<1> QED
  BY <1>1, <1>2, <1>3, <1>4, <1>5, <1>6
     DEF Next, Insert, Skip, ReadFloorIdm, Abort, vars, source

\* Every action keeps the types.
LEMMA TypesStep ==
    ASSUME IInv, [Next]_vars
    PROVE  TypeOK'
<1>0. TypeOK /\ Ordered /\ Born /\ Marked /\ WatermarkHonest
  BY DEF IInv
<1> DEFINE Sourced == /\ serial \in [Schemas -> Nat] /\ \A s \in Schemas : serial[s] <= MaxSeq(s)
                      /\ inflight \subseteq Events /\ log \in Seq(Events)
           Handled == /\ pos \in 0..Len(log) /\ index \in [Users -> Rows]
                      /\ skipped \subseteq Events /\ undone \subseteq Events
           Rebuilt == /\ step \in Steps /\ floor \in [Schemas -> Nat] /\ \A s \in Schemas : floor[s] <= serial[s]
                      /\ after \in Users \cup {0} /\ page \in Seq(PageRows)
                      /\ page # << >> <=> step \in {"names", "upsert"}
                      /\ written \subseteq Users
           Bounded == skips \in 0..MaxSkips /\ repeats \in 0..MaxRepeats /\ runs \in 0..MaxRuns
<1>a. TypeOK <=> (Sourced /\ Handled /\ Rebuilt /\ Bounded)
  BY DEF TypeOK, PageRows
<1>b. TypeOK' <=> (Sourced' /\ Handled' /\ Rebuilt' /\ Bounded')
  BY DEF TypeOK, PageRows
<1>c. Sourced /\ Handled /\ Rebuilt /\ Bounded
  BY <1>0, <1>a
<1>1. CASE \E u \in Users : \E kind \in Written : Insert(u, kind)
  <2>1. PICK u \in Users : \E kind \in Written : Insert(u, kind)
    BY <1>1
  <2>2. PICK kind \in Written : Insert(u, kind)
    BY <2>1
  <2> DEFINE s == SchemaOf(kind)
             e == [kind |-> kind, user |-> u, seq |-> serial[s] + 1]
  <2>3. /\ e \in Events /\ s \in Schemas
        /\ inflight' = inflight \cup {e}
        /\ serial' \in [Schemas -> Nat] /\ serial'[s] = serial[s] + 1 /\ serial'[s] <= MaxSeq(s)
        /\ \A t \in Schemas : t # s => serial'[t] = serial[t]
        /\ UNCHANGED <<log, pos, index, losses, cli, bounds>>
    BY <2>2, <1>0, Inserting
  <2> HIDE DEF s, e
  <2>4. Sourced'
    BY <2>3, <1>c
  <2>5. \A t \in Schemas : serial[t] <= serial'[t] /\ serial[t] \in Nat /\ serial'[t] \in Nat /\ floor[t] \in Nat
    <3>1. \A t \in Schemas : serial[t] \in Nat /\ serial'[t] \in Nat /\ floor[t] \in Nat
      BY <2>3, <1>c
    <3>2. \A t \in Schemas : serial'[t] = serial[t] \/ serial'[t] = serial[t] + 1
      BY <2>3
    <3> QED
      BY <3>1, <3>2
  <2>6. Rebuilt'
    BY <2>3, <2>5, <1>c DEF cli
  <2>7. Handled' /\ Bounded'
    BY <2>3, <1>c DEF losses, bounds
  <2> QED
    BY <2>4, <2>6, <2>7, <1>b
<1>2. CASE Commit
  <2>1. PICK e \in inflight :
              /\ e \in Events /\ inflight' = inflight \ {e}
              /\ log' \in Seq(Events) /\ Len(log') = Len(log) + 1
              /\ UNCHANGED <<serial, pos, index, losses, cli, bounds>>
    BY <1>2, <1>0, Committing
  <2>2. Sourced'
    BY <2>1, <1>c
  <2>3. Len(log) \in Nat
    BY <1>c
  <2>4. Handled'
    BY <2>1, <2>3, <1>c DEF losses
  <2>5. Rebuilt' /\ Bounded'
    BY <2>1, <1>c DEF cli, bounds
  <2> QED
    BY <2>2, <2>4, <2>5, <1>b
<1>3. CASE Project
  <2>1. /\ pos < Len(log) /\ Handle(log[pos + 1]) /\ pos' = pos + 1
        /\ UNCHANGED <<log, serial, inflight, cli, bounds>>
    BY <1>3 DEF Project, source
  <2>2. pos + 1 \in 1..Len(log) /\ pos' \in 0..Len(log)
    BY <2>1, <1>c
  <2>3. index' \in [Users -> Rows] /\ skipped' \subseteq skipped /\ undone' \subseteq undone
    BY <2>1, <2>2, <1>0, HandleStep
  <2>4. Handled'
    BY <2>1, <2>2, <2>3, <1>c
  <2>5. Sourced' /\ Rebuilt' /\ Bounded'
    BY <2>1, <1>c DEF cli, bounds
  <2> QED
    BY <2>4, <2>5, <1>b
<1>4. CASE ProjectAgain
  <2>1. PICK i \in 1..pos : Handle(log[i])
    BY <1>4 DEF ProjectAgain
  <2>2. /\ UNCHANGED <<log, serial, inflight, cli, skips, runs>> /\ pos' = pos
        /\ repeats < MaxRepeats /\ repeats' = repeats + 1
    BY <1>4 DEF ProjectAgain, source
  <2>3. i \in 1..Len(log) /\ i <= pos'
    BY <2>2, <1>c
  <2>4. index' \in [Users -> Rows] /\ skipped' \subseteq skipped /\ undone' \subseteq undone
    BY <2>1, <2>2, <2>3, <1>0, HandleStep
  <2>5. Handled'
    BY <2>2, <2>4, <1>c
  <2>6. Bounded'
    BY <2>2, <1>c, RebuildAssumption
  <2>7. Sourced' /\ Rebuilt'
    BY <2>2, <1>c DEF cli
  <2> QED
    BY <2>5, <2>6, <2>7, <1>b
<1>5. CASE Skip
  <2>1. /\ pos < Len(log) /\ skips < MaxSkips /\ pos' = pos + 1 /\ skips' = skips + 1
        /\ UNCHANGED <<serial, inflight, log, index, undone, cli, repeats, runs>>
    BY <1>5 DEF Skip, source
  <2>2. skipped' \subseteq Events
    BY <1>5, <1>0, SkipStep
  <2>3. Handled'
    BY <2>1, <2>2, <1>c
  <2>4. Bounded'
    BY <2>1, <1>c, RebuildAssumption
  <2>5. Sourced' /\ Rebuilt'
    BY <2>1, <1>c DEF cli
  <2> QED
    BY <2>3, <2>4, <2>5, <1>b
<1>6. CASE ReadFloorIdm
  <2>1. /\ runs < MaxRuns /\ ReadWatermark("idm") /\ step' = "floor_app" /\ after' = 0
        /\ page' = << >> /\ written' = {} /\ runs' = runs + 1
        /\ UNCHANGED <<source, pos, index, losses, skips, repeats>>
    BY <1>6 DEF ReadFloorIdm
  <2>2. "idm" \in Schemas
    BY DEF Schemas
  <2>3. floor' \in [Schemas -> Nat] /\ \A s \in Schemas : floor'[s] <= serial[s]
    BY <2>1, <2>2, <1>0, <1>c, Flooring
  <2>4. Rebuilt'
    BY <2>1, <2>3, EmptySeq DEF Steps, source
  <2>5. Bounded'
    BY <2>1, <1>c, RebuildAssumption
  <2>6. Sourced' /\ Handled'
    BY <2>1, <1>c DEF source, losses
  <2> QED
    BY <2>4, <2>5, <2>6, <1>b
<1>7. CASE ReadFloorApp
  <2>1. /\ ReadWatermark("app") /\ step = "floor_app" /\ step' = "page"
        /\ UNCHANGED <<source, pos, index, losses, after, page, written, bounds>>
    BY <1>7 DEF ReadFloorApp
  <2>2. "app" \in Schemas
    BY DEF Schemas
  <2>3. floor' \in [Schemas -> Nat] /\ \A s \in Schemas : floor'[s] <= serial[s]
    BY <2>1, <2>2, <1>0, <1>c, Flooring
  <2>4. Rebuilt'
    BY <2>1, <2>3, <1>c DEF Steps, source
  <2>5. Sourced' /\ Handled' /\ Bounded'
    BY <2>1, <1>c DEF source, losses, bounds
  <2> QED
    BY <2>4, <2>5, <1>b
<1>8. CASE ReadPage
  <2>1. /\ step = "page" /\ UNCHANGED <<source, pos, index, losses, floor, written, bounds>>
    BY <1>8 DEF ReadPage
  <2>2. \/ step' = "done" /\ page' = page /\ after' = after
        \/ step' = "names" /\ page' \in Seq(PageRows) /\ page' # << >> /\ after' \in Users \cup {0}
    BY <1>8, <1>0, Paging
  <2>3. Rebuilt'
    BY <2>1, <2>2, <1>c DEF Steps, source
  <2>4. Sourced' /\ Handled' /\ Bounded'
    BY <2>1, <1>c DEF source, losses, bounds
  <2> QED
    BY <2>3, <2>4, <1>b
<1>9. CASE ReadNames
  <2>1. /\ step' = "upsert" /\ UNCHANGED <<source, pos, index, losses, floor, after, written, bounds>>
    BY <1>9 DEF ReadNames
  <2>2. page' \in Seq(PageRows) /\ page' # << >>
    BY <1>9, <1>0, Naming
  <2>3. Rebuilt'
    BY <2>1, <2>2, <1>c DEF Steps, source
  <2>4. Sourced' /\ Handled' /\ Bounded'
    BY <2>1, <1>c DEF source, losses, bounds
  <2> QED
    BY <2>3, <2>4, <1>b
<1>10. CASE Upsert
  <2>1. /\ page[1].user \in Users
        /\ index' \in [Users -> Rows] /\ skipped' \subseteq Events /\ undone' \subseteq Events
        /\ UNCHANGED <<source, pos, floor, after, bounds>>
    BY <1>10, <1>0, Upserting
  <2>2. written' = written \cup {page[1].user}
    BY <1>10 DEF Upsert
  <2>3. /\ page' \in Seq(PageRows)
        /\ \/ step' = "upsert" /\ page' # << >>
           \/ step' \in {"page", "done"} /\ page' = << >>
    BY <1>10, <1>0, Popping
  <2>4. Rebuilt'
    BY <2>1, <2>2, <2>3, <1>c DEF Steps, source
  <2>5. Sourced' /\ Handled' /\ Bounded'
    BY <2>1, <1>c DEF source, bounds
  <2> QED
    BY <2>4, <2>5, <1>b
<1>11. CASE Abort
  <2>1. /\ step' = "idle" /\ page' = << >>
        /\ UNCHANGED <<source, pos, index, losses, floor, after, written, bounds>>
    BY <1>11 DEF Abort
  <2>2. Rebuilt'
    BY <2>1, <1>c, EmptySeq DEF Steps, source
  <2>3. Sourced' /\ Handled' /\ Bounded'
    BY <2>1, <1>c DEF source, losses, bounds
  <2> QED
    BY <2>2, <2>3, <1>b
<1>12. CASE UNCHANGED vars
  BY <1>12, <1>b, <1>c DEF vars, source, losses, cli, bounds
<1> HIDE DEF Sourced, Handled, Rebuilt, Bounded
<1> QED
  BY <1>1, <1>2, <1>3, <1>4, <1>5, <1>6, <1>7, <1>8, <1>9, <1>10, <1>11, <1>12 DEF Next

-------------------------------------------------------------------------------
(* The theorems.                                                            *)

\* Nothing has been written.
LEMMA InitInv == Init => IInv
<1> SUFFICES ASSUME Init PROVE IInv
  OBVIOUS
<1>1. log = << >> /\ Len(log) = 0 /\ pos = 0 /\ inflight = {} /\ page = << >> /\ step = "idle"
  BY DEF Init
<1>2. Logged = {}
  BY <1>1 DEF Logged
<1>3. EmptyRow \in Rows /\ EmptyRow.seq = [s \in Schemas |-> 0]
  BY DEF EmptyRow, Rows
<1>4. serial = [s \in Schemas |-> 0] /\ floor = [s \in Schemas |-> 0] /\ index = [u \in Users |-> EmptyRow]
  BY DEF Init
<1>5. \A s \in Schemas : MaxSeq(s) \in Nat
  BY RebuildAssumption DEF MaxSeq
<1>6. TypeOK
  BY <1>1, <1>3, <1>4, <1>5, RebuildAssumption, EmptySeq DEF Init, TypeOK, Steps
<1>7. Ordered /\ Born
  BY <1>1, <1>2 DEF Ordered, Born
<1>8. Marked /\ Floors
  BY <1>1, <1>3, <1>4 DEF Marked, Floors
<1>9. Pages /\ Healed /\ WatermarkHonest
  BY <1>1, <1>2 DEF Pages, Healed, WatermarkHonest
<1> QED
  BY <1>6, <1>7, <1>8, <1>9 DEF IInv

\* Every step preserves the invariant.
LEMMA Inductive == IInv /\ [Next]_vars => IInv'
<1> SUFFICES ASSUME IInv, [Next]_vars PROVE IInv'
  OBVIOUS
<1>1. TypeOK /\ Ordered /\ Born
  BY DEF IInv
<1>2. Ordered' /\ Born'
  BY <1>1, OrderedStep, BornStep
<1> QED
  BY <1>2, TypesStep, HonestStep, FloorsStep, PagesStep, HealedStep DEF IInv

\* The invariant holds of every behaviour of writers, projector and rebuild.
LEMMA Invariant == Spec => []IInv
  BY InitInv, Inductive, PTL DEF Spec

\* The variables of the rebuild, the projector and the writers keep their types
\* and bounds, and rows wait on a page only between its read and its upserts.
THEOREM TypeCorrect == Spec => []TypeOK
<1>1. IInv => TypeOK
  BY DEF IInv
<1> QED
  BY Invariant, <1>1, PTL

\* read_outbox_watermark: the watermark a rebuild writes is a true lower bound.  No
\* row claims an event it does not hold, unless the event was given up or projected
\* before an older snapshot.
THEOREM WatermarkIsHonest == Spec => []WatermarkHonest
<1>1. IInv => WatermarkHonest
  BY DEF IInv
<1> QED
  BY Invariant, <1>1, PTL

\* A rebuild beside which nothing commits leaves every row it wrote at the user's
\* current state, whatever the projector had given up and however far it lags.
THEOREM RebuildHealsRows == Spec => []RebuildHeals
<1>1. IInv => RebuildHeals
  BY DEF IInv, Healed, RebuildHeals
<1> QED
  BY Invariant, <1>1, PTL

-------------------------------------------------------------------------------
(* No live user is left out.                                                *)

\* Ids agree with the order of the births.
Agreeing ==
    \A u, v \in Users : (Alive(u) /\ Alive(v) /\ u < v) => ~(Birth(u) > Birth(v))

\* The live users the pages read so far should hold: those up to the cursor, and
\* all of them after the last page.
Behind(u) ==
    \/ step = "done"
    \/ u <= after
    \/ step # "page" /\ after = 0

Covers ==
    /\ step = "floor_app" => after = 0
    /\ (step \in {"page", "names", "upsert", "done"} /\ Quiet /\ Agreeing) =>
        \A u \in Users : (Alive(u) /\ Behind(u)) =>
            u \in written \/ \E k \in 1..Len(page) : page[k].user = u

\* A live user was born.
LEMMA BirthType ==
    ASSUME TypeOK, NEW u \in Users, Alive(u)
    PROVE  Birth(u) \in Nat
<1>1. PICK e \in Logged : e.kind = "user.created" /\ e.user = u
  BY DEF Alive, Happened
<1>2. Logged \subseteq Events
  BY DEF TypeOK, Logged
<1>3. (CHOOSE d \in Logged : d.kind = "user.created" /\ d.user = u) \in Logged
  BY <1>1
<1> QED
  BY <1>2, <1>3 DEF Birth, Events

\* A listing holds every live user behind the cursor; when ids agree with the
\* births it is in the order of the ids.
LEMMA ListingOrder ==
    ASSUME TypeOK, Agreeing, NEW listing \in Listings
    PROVE  /\ listing \in Seq(Users) /\ Len(listing) \in Nat
           /\ \A i \in 1..Len(listing) : listing[i] \in Users /\ listing[i] \in Nat
           /\ \A u \in Users : (Alive(u) /\ u > after) => \E i \in 1..Len(listing) : listing[i] = u
           /\ \A i, j \in 1..Len(listing) : i < j => listing[i] < listing[j]
<1> DEFINE live == {u \in Users : Alive(u) /\ u > after}
           N == Cardinality(live)
<1>1. IsFiniteSet(live) /\ N \in Nat
  BY RebuildAssumption, FS_Subset, FS_CardinalityType
<1>2. listing \in [1..N -> live] /\ \A i, j \in 1..N : i < j => Birth(listing[i]) < Birth(listing[j])
  BY DEF Listings
<1>3. \A u \in live : u \in Users /\ Alive(u) /\ Birth(u) \in Nat /\ u \in Nat
  BY BirthType, RebuildAssumption
<1>4. \A u, v \in live : u < v => ~(Birth(u) > Birth(v))
  BY DEF Agreeing
<1>5. \A u \in Users : (Alive(u) /\ u > after) => u \in live
  OBVIOUS
<1> HIDE DEF live
<1>6. ASSUME NEW i \in 1..N, NEW j \in 1..N, i < j PROVE listing[i] < listing[j]
  <2>1. listing[i] \in live /\ listing[j] \in live /\ Birth(listing[i]) < Birth(listing[j])
    BY <1>2, <1>6
  <2>2. Birth(listing[i]) \in Nat /\ Birth(listing[j]) \in Nat /\ listing[i] \in Nat /\ listing[j] \in Nat
    BY <1>3, <2>1
  <2>3. listing[i] # listing[j]
    BY <2>1, <2>2
  <2>4. ~(listing[j] < listing[i])
    BY <1>4, <2>1, <2>2
  <2> QED
    BY <2>2, <2>3, <2>4
<1>7. ASSUME NEW i \in 1..N, NEW j \in 1..N, listing[i] = listing[j] PROVE i = j
  <2>1. listing[i] \in Nat /\ listing[j] \in Nat
    BY <1>2, <1>3
  <2>2. ~(i < j) /\ ~(j < i)
    BY <1>6, <1>7, <2>1
  <2> QED
    BY <1>1, <2>2
<1>8. listing \in Injection(1..N, live)
  BY <1>2, <1>7, Fun_IsInj
<1>9. IsFiniteSet(1..N) /\ Cardinality(1..N) = N
  BY <1>1, FS_Interval
<1>10. \A u \in live : \E i \in 1..N : listing[i] = u
  <2> DEFINE I == 1..N
  <2>1. listing \in Injection(I, live) /\ IsFiniteSet(I) /\ Cardinality(I) = Cardinality(live)
    BY <1>8, <1>9
  <2> HIDE DEF I
  <2>2. listing \in Surjection(I, live)
    BY <1>1, <2>1, FS_Injection
  <2>3. \A u \in live : \E i \in I : listing[i] = u
    BY <2>2 DEF Surjection
  <2> QED
    BY <2>3 DEF I
<1> HIDE DEF N
<1>12. listing \in [1..N -> Users]
  BY <1>2, <1>3
<1>13. listing \in Seq(Users) /\ Len(listing) = N
  BY <1>1, <1>12
<1> QED
  BY <1>1, <1>2, <1>3, <1>5, <1>6, <1>10, <1>13

\* A page takes the listing up to the next cursor.
LEMMA CoversRead ==
    ASSUME TypeOK, ReadPage, Agreeing, NEW u \in Users, Alive(u), u > after, Behind(u)'
    PROVE  \E k \in 1..Len(page') : page'[k].user = u
<1> DEFINE Row(v) == [user |-> v, cols |-> [c \in Columns |-> IF c = "display_name" THEN 0 ELSE Current(v, c)]]
<1>1. PICK listing \in Listings :
        LET users == FirstOf(listing, PageLimit)
        IN  IF users = << >>
            THEN /\ step' = "done"
                 /\ UNCHANGED <<after, page>>
            ELSE /\ step' = "names"
                 /\ after' = IF Len(listing) > PageLimit THEN users[Len(users)] ELSE 0
                 /\ page' = [k \in 1..Len(users) |-> Row(users[k])]
  BY DEF ReadPage
<1> DEFINE users == FirstOf(listing, PageLimit)
           n == IF Len(listing) < PageLimit THEN Len(listing) ELSE PageLimit
<1>2. /\ listing \in Seq(Users) /\ Len(listing) \in Nat
      /\ \A i \in 1..Len(listing) : listing[i] \in Users /\ listing[i] \in Nat
      /\ \E i \in 1..Len(listing) : listing[i] = u
      /\ \A i, j \in 1..Len(listing) : i < j => listing[i] < listing[j]
  BY ListingOrder
<1>3. PICK i \in 1..Len(listing) : listing[i] = u
  BY <1>2
<1>4. PageLimit \in Nat /\ PageLimit > 0
  BY RebuildAssumption
<1>5. n \in Nat /\ n > 0 /\ n <= Len(listing)
  BY <1>2, <1>3, <1>4
<1>6. \A k \in 1..n : listing[k] \in Users
  BY <1>2, <1>5
<1>7. /\ users \in Seq(Users) /\ Len(users) = n
      /\ \A k \in 1..n : users[k] = listing[k]
  <2>1. users = SubSeq(listing, 1, n)
    BY DEF FirstOf
  <2> HIDE DEF n, users
  <2>2. /\ SubSeq(listing, 1, n) \in Seq(Users)
        /\ Len(SubSeq(listing, 1, n)) = IF 1 <= n THEN n - 1 + 1 ELSE 0
        /\ \A k \in 1..(n - 1 + 1) : SubSeq(listing, 1, n)[k] = listing[1 + k - 1]
    BY <1>5, <1>6, SubSeqProperties
  <2>3. \A k \in 1..n : 1 + k - 1 = k /\ k \in 1..(n - 1 + 1)
    BY <1>5
  <2> QED
    BY <1>5, <2>1, <2>2, <2>3
<1>8. users # << >>
  <2> HIDE DEF users, n
  <2> QED
    BY <1>5, <1>7, EmptySeq
<1>9. /\ step' = "names"
      /\ after' = IF Len(listing) > PageLimit THEN users[Len(users)] ELSE 0
      /\ page' = [k \in 1..Len(users) |-> Row(users[k])]
  BY <1>1, <1>8
<1> HIDE DEF Row
<1>10. i \in 1..n
  <2>1. CASE Len(listing) > PageLimit
    <3>1. n = PageLimit /\ after' = listing[n] /\ n \in 1..Len(listing)
      BY <1>2, <1>4, <1>5, <1>7, <1>9, <2>1
    <3>2. after' # 0
      BY <1>2, <3>1, RebuildAssumption
    <3>3. u <= listing[n]
      BY <1>9, <3>1, <3>2 DEF Behind
    <3>4. ~(n < i)
      BY <1>2, <1>3, <3>1, <3>3
    <3> QED
      BY <1>3, <1>5, <3>4
  <2>2. CASE ~(Len(listing) > PageLimit)
    <3>1. n = Len(listing)
      BY <1>2, <1>4, <2>2
    <3> QED
      BY <1>3, <3>1
  <2> QED
    BY <2>1, <2>2
<1>11. page' = [k \in 1..n |-> Row(users[k])]
  BY <1>7, <1>9
<1>12. page'[i] = Row(u)
  BY <1>3, <1>7, <1>10, <1>11
<1>13. Len(page') = n
  <2> HIDE DEF n, users
  <2> QED
    BY <1>5, <1>11
<1> QED
  BY <1>10, <1>12, <1>13 DEF Row

\* While nothing is committed, what a page should hold it holds.
LEMMA CoversStep ==
    ASSUME IInv, Covers, [Next]_vars
    PROVE  Covers'
<1>0. TypeOK /\ Floors
  BY DEF IInv
<1>c. (step = "floor_app" => after = 0)'
  BY DEF Covers, Next, Insert, Commit, Project, ProjectAgain, Skip, ReadFloorIdm, ReadFloorApp, ReadPage,
         ReadNames, Upsert, AfterUpsert, Abort, vars, cli
<1> SUFFICES ASSUME step' \in {"page", "names", "upsert", "done"}, Quiet', Agreeing',
                    NEW u \in Users, Alive(u)', Behind(u)'
             PROVE  u \in written' \/ \E k \in 1..Len(page') : page'[k].user = u
  BY <1>c DEF Covers
<1>1. CASE UNCHANGED log
  <2>1. Logged' = Logged
    BY <1>1 DEF Logged
  <2>2. Alive(u) /\ Agreeing
    <3>1. \A v : Alive(v)' <=> Alive(v)
      BY <2>1 DEF Alive, Happened
    <3>2. \A v : Birth(v)' = Birth(v)
      BY <2>1 DEF Birth
    <3> QED
      BY <3>1, <3>2 DEF Agreeing
  <2>3. CASE UNCHANGED <<cli>>
    BY <2>1, <2>2, <2>3 DEF Covers, Behind, cli, Quiet
  <2>4. CASE ReadFloorIdm \/ Abort
    BY <2>4 DEF ReadFloorIdm, Abort
  <2>5. CASE ReadFloorApp
    <3>1. step' = "page" /\ after' = 0
      BY <2>5 DEF ReadFloorApp, Covers
    <3> QED
      BY <3>1, RebuildAssumption DEF Behind
  <2>6. CASE ReadPage
    <3>1. step = "page" /\ floor' = floor /\ written' = written
      BY <2>6 DEF ReadPage
    <3>2. Quiet
      BY <2>1, <3>1 DEF Quiet
    <3>3. u \in Nat /\ after \in Nat
      BY <1>0, RebuildAssumption DEF TypeOK
    <3>4. CASE u > after
      BY <1>0, <2>2, <2>6, <3>4, CoversRead
    <3>5. CASE u <= after
      <4>1. u \in written \/ \E k \in 1..Len(page) : page[k].user = u
        BY <2>2, <3>1, <3>2, <3>5 DEF Covers, Behind
      <4>2. Len(page) = 0
        BY <1>0, <3>1 DEF TypeOK
      <4> QED
        BY <3>1, <4>1, <4>2
    <3> QED
      BY <3>3, <3>4, <3>5
  <2>7. CASE ReadNames
    <3>1. step = "names" /\ step' = "upsert" /\ UNCHANGED <<floor, after, written>>
      BY <2>7 DEF ReadNames
    <3>2. Quiet /\ Behind(u)
      BY <2>1, <3>1 DEF Quiet, Behind
    <3>3. u \in written \/ \E k \in 1..Len(page) : page[k].user = u
      BY <2>2, <3>1, <3>2 DEF Covers
    <3>4. /\ Len(page') = Len(page)
          /\ \A k \in 1..Len(page) : page'[k].user = page[k].user
      <4>1. Ordered
        BY DEF IInv
      <4> QED
        BY <1>0, <2>7, <4>1, Naming
    <3> QED
      BY <3>1, <3>3, <3>4
  <2>8. CASE Upsert
    <3>1. /\ step = "upsert" /\ UNCHANGED <<floor, after>> /\ written' = written \cup {page[1].user}
          /\ page' = Tail(page) /\ step' = AfterUpsert
      BY <2>8 DEF Upsert
    <3>2. Quiet
      BY <2>1, <3>1 DEF Quiet
    <3>3. Behind(u)
      BY <3>1 DEF Behind, AfterUpsert
    <3>4. u \in written \/ \E k \in 1..Len(page) : page[k].user = u
      BY <2>2, <3>1, <3>2, <3>3 DEF Covers
    <3>5. CASE u \in written
      BY <3>1, <3>5
    <3>6. ASSUME NEW k \in 1..Len(page), page[k].user = u
          PROVE  u \in written' \/ \E j \in 1..Len(page') : page'[j].user = u
      <4>1. page \in Seq(PageRows) /\ page # << >>
        BY <1>0, <3>1 DEF TypeOK, PageRows
      <4>2. Len(page) \in Nat \ {0} /\ Len(page') = Len(page) - 1
            /\ \A j \in 1..Len(page') : page'[j] = page[j + 1]
        <5> HIDE DEF PageRows
        <5> QED
          BY <3>1, <4>1, EmptySeq, HeadTailProperties
      <4>3. CASE k = 1
        BY <3>1, <3>6, <4>3
      <4>4. CASE k # 1
        <5>1. k - 1 \in 1..Len(page') /\ (k - 1) + 1 = k
          BY <4>2, <4>4
        <5> QED
          BY <3>6, <4>2, <5>1
      <4> QED
        BY <4>3, <4>4
    <3> QED
      BY <3>4, <3>5, <3>6
  <2> QED
    BY <1>1, <2>3, <2>4, <2>5, <2>6, <2>7, <2>8
       DEF Next, Insert, Commit, Project, ProjectAgain, Skip, vars
<1>2. CASE Commit
  <2>1. PICK e \in inflight : Logged' = Logged \cup {e} /\ UNCHANGED cli
    <3>1. Ordered
      BY DEF IInv
    <3> QED
      BY <1>0, <1>2, <3>1, Committing
  <2>2. S(e) \in Schemas /\ e.seq \in Nat /\ floor[S(e)] \in Nat
    BY <2>1, <1>0, EventType
  <2>3. S(e) \in Floored
    BY <2>1, <2>2 DEF Floored, cli
  <2>4. floor[S(e)] < e.seq
    BY <1>0, <2>3 DEF Floors
  <2>5. e.seq <= floor[S(e)]
    BY <2>1 DEF Quiet, cli, S
  <2> QED
    BY <2>2, <2>4, <2>5
<1> QED
  BY <1>1, <1>2
     DEF Next, Insert, Project, ProjectAgain, Skip, ReadFloorIdm, ReadFloorApp, ReadPage, ReadNames,
         Upsert, Abort, vars, source

\* A rebuild beside which nothing commits has written every live user when it is
\* done, unless created_at disagrees with the ids that are the pages' cursor.
THEOREM PagesAreComplete == Spec => []PagesComplete
<1>1. Init => Covers
  BY DEF Init, Covers
<1>2. IInv /\ Covers /\ [Next]_vars => Covers'
  BY CoversStep
<1>3. IInv /\ Covers => PagesComplete
  <2> SUFFICES ASSUME TypeOK, Covers, step = "done", Quiet, Agreeing, NEW u \in Users, Alive(u)
               PROVE  u \in written
    BY DEF PagesComplete, Agreeing, IInv
  <2>1. Len(page) = 0
    BY DEF TypeOK
  <2> QED
    BY <2>1 DEF Covers, Behind
<1> QED
  BY <1>1, <1>2, <1>3, Invariant, PTL DEF Spec
===============================================================================
