------------------------------ MODULE SearchIndex ------------------------------
(***************************************************************************)
(* One row of admin_user_index and the guarded upserts that maintain it     *)
(* (src/features/search/repo/memory.rs and postgres.rs).                    *)
(*                                                                         *)
(* The value of a column is the seq of the event whose payload it holds, 0  *)
(* for the default of a partial row; username, email and email_verified are *)
(* always written together and form the column "account".  Seqs come from a *)
(* bigserial and start at 1, so a watermark of 0 is None.                    *)
(***************************************************************************)
EXTENDS Naturals

Schemas == {"idm", "app"}

Kinds == {"user.created", "user.updated", "user.roles_set", "user.deleted",
          "profile.updated"}

SchemaOf(kind) == IF kind = "profile.updated" THEN "app" ELSE "idm"

Columns == {"account", "roles", "created_at", "display_name"}

\* The columns an event kind carries; `deleted` is set apart below.
Writes == [kind \in Kinds |->
    CASE kind = "user.created"    -> {"account", "roles", "created_at"}
      [] kind = "user.updated"    -> {"account"}
      [] kind = "user.roles_set"  -> {"roles"}
      [] kind = "user.deleted"    -> {}
      [] kind = "profile.updated" -> {"display_name"}]

Rows == [cols : [Columns -> Nat], deleted : BOOLEAN, seq : [Schemas -> Nat]]

EmptyRow == [cols |-> [c \in Columns |-> 0],
             deleted |-> FALSE,
             seq |-> [s \in Schemas |-> 0]]

\* where idm_seq is null or idm_seq < excluded.idm_seq
WatermarkApplies(e, row) == e.seq > row.seq[SchemaOf(e.kind)]

\* Mutant: the upsert forgets to raise the watermark.
OverwriteUnmarked(row, e) ==
    [cols    |-> [c \in Columns |-> IF c \in Writes[e.kind] THEN e.seq ELSE row.cols[c]],
     deleted |-> CASE e.kind = "user.created" -> FALSE
                   [] e.kind = "user.deleted" -> TRUE
                   [] OTHER                   -> row.deleted,
     seq     |-> row.seq]

\* The column writes of the five upserts behind the guard.
Overwrite(row, e) ==
    [cols    |-> [c \in Columns |-> IF c \in Writes[e.kind] THEN e.seq ELSE row.cols[c]],
     deleted |-> CASE e.kind = "user.created" -> FALSE
                   [] e.kind = "user.deleted" -> TRUE
                   [] OTHER                   -> row.deleted,
     seq     |-> [row.seq EXCEPT ![SchemaOf(e.kind)] = e.seq]]

Apply(row, e) == IF WatermarkApplies(e, row) THEN Overwrite(row, e) ELSE row

\* n is the newest seq of S, 0 when there is none.
NewestOf(n, S) == (n = 0 \/ n \in S) /\ \A m \in S : m <= n

Newest(S) == CHOOSE n \in S \cup {0} : NewestOf(n, S)

\* The baseline filter of every admin search: named and not deleted.
Searchable(row) == row.cols["account"] # 0 /\ ~row.deleted
===============================================================================
