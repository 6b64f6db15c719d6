------------------------------- MODULE Database -------------------------------
(* The relational store under the migrations: Django's schema operations as    *)
(* PostgreSQL carries them out.  The framework is not part of the repository;  *)
(* it is modelled from how the files in the two migrations packages use it.    *)
(*                                                                             *)
(* A database is [tables, pending, ok].  A table has a key, columns, rows,     *)
(* uniqueness and check constraints and indexes; a row maps every column to a  *)
(* value, None for NULL and Some for a value nobody looks at.  `pending` holds *)
(* the tables that have deferred foreign-key checks queued in the running      *)
(* transaction: PostgreSQL refuses to alter such a table, which is what the    *)
(* docstring of 0072 is about.  An operation that cannot be carried out leaves *)
(* everything as it was, and the transaction is not ok any more.               *)
EXTENDS Integers, Sequences, FiniteSets

CONSTANTS None, Some

ASSUME NoValueIsAValue == None # Some /\ None \notin Int

(* The usual operators on functions, not taken from module TLC so that proofs  *)
(* can expand them.                                                            *)
a :> b == [x \in {a} |-> b]
f @@ g == [x \in (DOMAIN f) \union (DOMAIN g) |-> IF x \in DOMAIN f THEN f[x] ELSE g[x]]

(* Columns.  Each operator describes a set of fields with the same attributes. *)
ColumnOf(null, unique, to) == [null |-> null, unique |-> unique, ref |-> to]
Column(fields, null, unique, to) == [f \in fields |-> ColumnOf(null, unique, to)]
Need(fields) == Column(fields, FALSE, FALSE, "")
Maybe(fields) == Column(fields, TRUE, FALSE, "")
Only(fields) == Column(fields, FALSE, TRUE, "")
MaybeOnly(fields) == Column(fields, TRUE, TRUE, "")
To(model, fields) == Column(fields, FALSE, FALSE, model)
MaybeTo(model, fields) == Column(fields, TRUE, FALSE, model)
OneTo(model, fields) == Column(fields, FALSE, TRUE, model)
MaybeOneTo(model, fields) == Column(fields, TRUE, TRUE, model)

(* Operations.  Several AddField, AlterField or RemoveField of one model that  *)
(* follow each other are one operation on a set of fields.  AlterType is an    *)
(* AlterField that rewrites the column; `refused` are the values that do not   *)
(* fit the new type.                                                           *)
CreateModel(model, key, cols) == [op |-> "CreateModel", model |-> model, key |-> key, cols |-> cols]
DeleteModel(model) == [op |-> "DeleteModel", model |-> model]
RenameModel(model, to) == [op |-> "RenameModel", model |-> model, to |-> to]
Add(model, cols, value) == [op |-> "AddField", model |-> model, cols |-> cols, value |-> value]
Alter(model, cols) == [op |-> "AlterField", model |-> model, cols |-> cols]
AlterType(model, field, refused) ==
    [op |-> "AlterType", model |-> model, field |-> field, refused |-> refused]
Drop(model, fields) == [op |-> "RemoveField", model |-> model, fields |-> fields]
Rename(model, field, to) == [op |-> "RenameField", model |-> model, field |-> field, to |-> to]
Together(model, fields) == [op |-> "AlterUniqueTogether", model |-> model, fields |-> fields]
Index(model, name, fields) == [op |-> "AddIndex", model |-> model, name |-> name, fields |-> fields]
DropIndex(model, name) == [op |-> "RemoveIndex", model |-> model, name |-> name]
RenameIndex(model, name, to) == [op |-> "RenameIndex", model |-> model, name |-> name, to |-> to]
Unique(model, name, fields, except) ==
    [op |-> "AddUnique", model |-> model, name |-> name, fields |-> fields, except |-> except]
Check(model, name, fields, present) ==
    [op |-> "AddCheck", model |-> model, name |-> name, fields |-> fields, present |-> present]
DropConstraint(model, name) == [op |-> "RemoveConstraint", model |-> model, name |-> name]
RunPython(step) == [op |-> "RunPython", step |-> step]

(* A unique constraint covers every row, or all but those with a value of      *)
(* `except` in that field.                                                     *)
Always == [f \in {} |-> {}]
Except(field, values) == field :> values

Empty == [n \in {} |-> {}]
Table(key, cols, rows, unique, check, idx) ==
    [key |-> key, cols |-> cols, rows |-> rows, unique |-> unique, check |-> check, idx |-> idx]

Without(f, names) == [n \in DOMAIN f \ names |-> f[n]]
Swapped(fields, old, new) == IF old \in fields THEN (fields \ {old}) \union {new} ELSE fields
Renamed(f, old, new) ==
    [n \in Swapped(DOMAIN f, old, new) |-> IF n = new /\ old \in DOMAIN f THEN f[old] ELSE f[n]]

----------------------------------------------------------------------------
(* What the store guarantees of a table.                                       *)
Covered(r, c) == \A f \in DOMAIN c.except : r[f] \notin c.except[f]
Collide(r, s, fields) == \A f \in fields : r[f] # None /\ r[f] = s[f]

Keys(t) == {r[t.key] : r \in t.rows}

RespectsColumns(ts, t) ==
    \A r \in t.rows :
        /\ DOMAIN r = DOMAIN t.cols
        /\ \A f \in DOMAIN t.cols :
              LET c == t.cols[f] IN
              /\ c.null \/ r[f] # None
              /\ c.unique => \A s \in t.rows \ {r} : ~Collide(r, s, {f})
              /\ c.ref # "" => r[f] = None \/ r[f] \in Keys(ts[c.ref])

RespectsConstraints(t) ==
    \A r \in t.rows :
        /\ \A n \in DOMAIN t.unique :
              LET c == t.unique[n] IN
              Covered(r, c) =>
                  \A s \in t.rows \ {r} : Covered(s, c) => ~Collide(r, s, c.fields)
        /\ \A n \in DOMAIN t.check :
              {f \in t.check[n].fields : r[f] # None} \in t.check[n].present

Sound(ts, model) == RespectsColumns(ts, ts[model]) /\ RespectsConstraints(ts[model])
AllSound(ts) == \A m \in DOMAIN ts : Sound(ts, m)

(* Fields that a named constraint or an index mentions cannot be dropped under *)
(* it.                                                                         *)
Mentioned(t) ==
    UNION ({(t.unique[n].fields) \union (DOMAIN t.unique[n].except) : n \in DOMAIN t.unique}
             \union {t.check[n].fields : n \in DOMAIN t.check}
             \union {t.idx[n] : n \in DOMAIN t.idx})

Targets(cols) == {cols[f].ref : f \in DOMAIN cols} \ {""}
Names(ts) == UNION {(DOMAIN ts[m].idx) \union (DOMAIN ts[m].unique \ {"together"}) : m \in DOMAIN ts}

(* The column under its new name, in rows and constraints and as a key.        *)
RenameIn(t, old, new) ==
    Table(IF t.key = old THEN new ELSE t.key,
          Renamed(t.cols, old, new),
          {Renamed(r, old, new) : r \in t.rows},
          [n \in DOMAIN t.unique |->
              [fields |-> Swapped(t.unique[n].fields, old, new),
               except |-> Renamed(t.unique[n].except, old, new)]],
          [n \in DOMAIN t.check |->
              [fields |-> Swapped(t.check[n].fields, old, new),
               present |-> {Swapped(p, old, new) : p \in t.check[n].present}]],
          [n \in DOMAIN t.idx |-> Swapped(t.idx[n], old, new)])

(* The references to a table under its new name.                               *)
Redirect(t, old, new) ==
    Table(t.key,
          [f \in DOMAIN t.cols |->
              ColumnOf(t.cols[f].null, t.cols[f].unique,
                       IF t.cols[f].ref = old THEN new ELSE t.cols[f].ref)],
          t.rows, t.unique, t.check, t.idx)

(* Possible(o, ts) says that the operation can be carried out, Outcome(o, ts)  *)
(* what it leaves.  RemoveIndex is DROP INDEX IF EXISTS.                       *)
Possible(o, ts) ==
    IF o.op = "CreateModel"
    THEN /\ o.model \notin (DOMAIN ts) \union {""} /\ o.key \in DOMAIN o.cols
         /\ Targets(o.cols) \subseteq (DOMAIN ts) \union {o.model}
    ELSE
    /\ o.model \in DOMAIN ts
    /\ LET t == ts[o.model] IN
       CASE o.op = "DeleteModel" ->
                \A m \in DOMAIN ts \ {o.model} : o.model \notin Targets(ts[m].cols)
         [] o.op = "RenameModel" -> o.to \notin (DOMAIN ts) \union {""}
         [] o.op = "AddField" ->
                DOMAIN o.cols \cap DOMAIN t.cols = {} /\ Targets(o.cols) \subseteq DOMAIN ts
         [] o.op = "AlterField" ->
                DOMAIN o.cols \subseteq DOMAIN t.cols /\ Targets(o.cols) \subseteq DOMAIN ts
         [] o.op = "AlterType" ->
                o.field \in DOMAIN t.cols /\ \A r \in t.rows : r[o.field] \notin o.refused
         [] o.op = "RemoveField" ->
                o.fields \subseteq DOMAIN t.cols \ {t.key} /\ o.fields \cap Mentioned(t) = {}
         [] o.op = "RenameField" -> o.field \in DOMAIN t.cols /\ o.to \notin DOMAIN t.cols
         [] o.op = "AlterUniqueTogether" ->
                o.fields \subseteq DOMAIN t.cols /\ (o.fields = {} => "together" \in DOMAIN t.unique)
         [] o.op = "AddIndex" -> o.fields \subseteq DOMAIN t.cols /\ o.name \notin Names(ts)
         [] o.op = "AddUnique" ->
                o.fields \union DOMAIN o.except \subseteq DOMAIN t.cols /\ o.name \notin Names(ts)
         [] o.op = "RemoveIndex" -> TRUE
         [] o.op = "RenameIndex" -> o.name \in DOMAIN t.idx /\ o.to \notin Names(ts)
         [] o.op = "AddCheck" -> o.fields \subseteq DOMAIN t.cols /\ o.name \notin DOMAIN t.check
         [] o.op = "RemoveConstraint" -> o.name \in (DOMAIN t.unique) \union (DOMAIN t.check)
         [] OTHER -> FALSE

Altered(o, t) ==
    CASE o.op = "AddField" ->
           [t EXCEPT !.cols = @ @@ o.cols,
                     !.rows = {r @@ [f \in DOMAIN o.cols |-> o.value] : r \in @}]
      [] o.op = "AlterField" -> [t EXCEPT !.cols = o.cols @@ @]
      [] o.op = "RemoveField" ->
           [t EXCEPT !.cols = Without(@, o.fields), !.rows = {Without(r, o.fields) : r \in @}]
      [] o.op = "RenameField" -> RenameIn(t, o.field, o.to)
      [] o.op = "AlterUniqueTogether" ->
           [t EXCEPT !.unique =
               IF o.fields = {} THEN Without(@, {"together"})
               ELSE ("together" :> [fields |-> o.fields, except |-> Always]) @@ @]
      [] o.op = "AddIndex" -> [t EXCEPT !.idx = @ @@ (o.name :> o.fields)]
      [] o.op = "RemoveIndex" -> [t EXCEPT !.idx = Without(@, {o.name})]
      [] o.op = "RenameIndex" -> [t EXCEPT !.idx = Renamed(@, o.name, o.to)]
      [] o.op = "AddUnique" ->
           [t EXCEPT !.unique = @ @@ (o.name :> [fields |-> o.fields, except |-> o.except])]
      [] o.op = "AddCheck" ->
           [t EXCEPT !.check = @ @@ (o.name :> [fields |-> o.fields, present |-> o.present])]
      [] o.op = "RemoveConstraint" ->
           [t EXCEPT !.unique = Without(@, {o.name}), !.check = Without(@, {o.name})]
      [] OTHER -> t

Outcome(o, ts) ==
    CASE o.op = "CreateModel" -> ts @@ (o.model :> Table(o.key, o.cols, {}, Empty, Empty, Empty))
      [] o.op = "DeleteModel" -> Without(ts, {o.model})
      [] o.op = "RenameModel" ->
           [m \in Swapped(DOMAIN ts, o.model, o.to) |->
               Redirect(Renamed(ts, o.model, o.to)[m], o.model, o.to)]
      [] OTHER -> [ts EXCEPT ![o.model] = Altered(o, @)]

(* A change of help text or choices sends no statement to the store.           *)
SendsNothing(o, ts) == o.op = "AlterField" /\ Outcome(o, ts) = ts

Refuse(d) == [d EXCEPT !.ok = FALSE]
Execute(o, d) ==
    LET after == Outcome(o, d.tables)
        left == IF o.op = "RenameModel" THEN o.to ELSE o.model
    IN IF \/ ~Possible(o, d.tables)
          \/ o.model \in d.pending /\ ~SendsNothing(o, d.tables)
          \/ left \in DOMAIN after /\ ~Sound(after, left)
       THEN Refuse(d)
       ELSE [d EXCEPT !.tables = after]

----------------------------------------------------------------------------
(* Rows, for the data steps.                                                   *)
Rows(ts, model) == ts[model].rows
Get(ts, model, key) == CHOOSE r \in ts[model].rows : r[ts[model].key] = key
Insert(ts, model, rows) == [ts EXCEPT ![model].rows = @ \union rows]
NewRow(t, values) ==
    [f \in DOMAIN t.cols |-> IF f \in DOMAIN values THEN values[f]
                             ELSE IF t.cols[f].null THEN None ELSE Some]

(* QuerySet.delete: the rows, and the rows that refer to them.  No chain of    *)
(* references in these tables is longer than two.                              *)
Entries(ts) == UNION {{m} \X ts[m].rows : m \in DOMAIN ts}
RefersTo(ts, e, g) ==
    \E f \in DOMAIN ts[e[1]].cols :
        g[1] = ts[e[1]].cols[f].ref /\ e[2][f] = g[2][ts[g[1]].key]
Referring(ts, gone) == {e \in Entries(ts) : \E g \in gone : RefersTo(ts, e, g)}
DeleteRows(ts, model, rows) ==
    LET once == ({model} \X rows) \union Referring(ts, {model} \X rows)
        gone == once \union Referring(ts, once)
    IN [m \in DOMAIN ts |-> [ts[m] EXCEPT !.rows = {r \in @ : <<m, r>> \notin gone}]]

(* The tables a data step leaves with foreign-key checks queued: those that    *)
(* lost a row others refer to, and those with a new or changed reference.      *)
Queued(old, new) ==
    {m \in DOMAIN old :
        \/ /\ \E r \in old[m].rows : \A s \in new[m].rows : s[old[m].key] # r[old[m].key]
           /\ \E n \in DOMAIN old : m \in Targets(old[n].cols)
        \/ \E s \in new[m].rows, f \in DOMAIN new[m].cols :
              /\ new[m].cols[f].ref # "" /\ s[f] # None
              /\ \A r \in old[m].rows : r[old[m].key] = s[old[m].key] => r[f] # s[f]}
==============================================================================
