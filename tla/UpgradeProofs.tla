----------------------------- MODULE UpgradeProofs -----------------------------
(* What holds of the upgrade of any installation, whatever its history and its *)
(* rows.                                                                       *)
(*                                                                             *)
(* The inductive invariant says more than that each table respects its own     *)
(* constraints: a table is a record of its six parts, its key and the fields   *)
(* of its constraints are columns of it, and its references name tables that   *)
(* are there.  Without that an operation on one table could break another, or  *)
(* a constraint could come to speak of a field that is gone.                   *)
(*                                                                             *)
(* First come the operations, one lemma for each on what it needs and leaves   *)
(* (Asked, Replaces, Sound, Leaves); then the same with the rows left aside    *)
(* (SamePossible, SameOutcome, Executed); the data steps (RunKeeps); the       *)
(* operations of a migration one after the other (ReachedAll); the actions of  *)
(* `migrate`, each of which is one of SchemaEvolution; and last the three      *)
(* migrations that make the rows fit their own constraint.                     *)
EXTENDS Upgrade, WellFoundedInduction, TLAPS

IsTable(t) == t = Table(t.key, t.cols, t.rows, t.unique, t.check, t.idx)

LEMMA Fields ==
  ASSUME NEW k, NEW c, NEW r, NEW u, NEW h, NEW i, NEW t, t = Table(k, c, r, u, h, i)
  PROVE  IsTable(t) /\ t.key = k /\ t.cols = c /\ t.rows = r /\ t.unique = u /\ t.check = h /\ t.idx = i
<1>1. t.key = k /\ t.cols = c /\ t.rows = r /\ t.unique = u /\ t.check = h /\ t.idx = i
  BY DEF Table
<1> QED BY <1>1 DEF IsTable

\* What an operation on one table leaves of it.
LEMMA AlteredTable ==
  ASSUME NEW o, NEW t, IsTable(t)
  PROVE  /\ o.op = "AddField" =>
              Altered(o, t) = Table(t.key, t.cols @@ o.cols,
                  {r @@ [f \in DOMAIN o.cols |-> o.value] : r \in t.rows}, t.unique, t.check, t.idx)
         /\ o.op = "AlterField" =>
              Altered(o, t) = Table(t.key, o.cols @@ t.cols, t.rows, t.unique, t.check, t.idx)
         /\ o.op = "RemoveField" =>
              Altered(o, t) = Table(t.key, Without(t.cols, o.fields),
                                    {Without(r, o.fields) : r \in t.rows}, t.unique, t.check, t.idx)
         /\ o.op = "RenameField" => Altered(o, t) = RenameIn(t, o.field, o.to)
         /\ o.op = "AlterUniqueTogether" =>
              Altered(o, t) = Table(t.key, t.cols, t.rows,
                  IF o.fields = {} THEN Without(t.unique, {"together"})
                  ELSE ("together" :> [fields |-> o.fields, except |-> Always]) @@ t.unique,
                  t.check, t.idx)
         /\ o.op = "AddIndex" =>
              Altered(o, t) = Table(t.key, t.cols, t.rows, t.unique, t.check, t.idx @@ (o.name :> o.fields))
         /\ o.op = "RemoveIndex" =>
              Altered(o, t) = Table(t.key, t.cols, t.rows, t.unique, t.check, Without(t.idx, {o.name}))
         /\ o.op = "RenameIndex" =>
              Altered(o, t) = Table(t.key, t.cols, t.rows, t.unique, t.check, Renamed(t.idx, o.name, o.to))
         /\ o.op = "AddUnique" =>
              Altered(o, t) = Table(t.key, t.cols, t.rows,
                  t.unique @@ (o.name :> [fields |-> o.fields, except |-> o.except]), t.check, t.idx)
         /\ o.op = "AddCheck" =>
              Altered(o, t) = Table(t.key, t.cols, t.rows, t.unique,
                  t.check @@ (o.name :> [fields |-> o.fields, present |-> o.present]), t.idx)
         /\ o.op = "RemoveConstraint" =>
              Altered(o, t) = Table(t.key, t.cols, t.rows, Without(t.unique, {o.name}),
                                    Without(t.check, {o.name}), t.idx)
<1>1. CASE o.op = "AddField"
  BY <1>1 DEF Altered, IsTable, Table
<1>2. CASE o.op = "AlterField"
  BY <1>2 DEF Altered, IsTable, Table
<1>3. CASE o.op = "RemoveField"
  BY <1>3 DEF Altered, IsTable, Table
<1>4. CASE o.op = "RenameField"
  BY <1>4 DEF Altered
<1>5. CASE o.op = "AlterUniqueTogether"
  BY <1>5 DEF Altered, IsTable, Table
<1>6. CASE o.op = "AddIndex"
  BY <1>6 DEF Altered, IsTable, Table
<1>7. CASE o.op = "RemoveIndex"
  BY <1>7 DEF Altered, IsTable, Table
<1>8. CASE o.op = "RenameIndex"
  BY <1>8 DEF Altered, IsTable, Table
<1>9. CASE o.op = "AddUnique"
  BY <1>9 DEF Altered, IsTable, Table
<1>10. CASE o.op = "AddCheck"
  BY <1>10 DEF Altered, IsTable, Table
<1>11. CASE o.op = "RemoveConstraint"
  BY <1>11 DEF Altered, IsTable, Table
<1> QED
  BY <1>1, <1>2, <1>3, <1>4, <1>5, <1>6, <1>7, <1>8, <1>9, <1>10, <1>11

LEMMA BareTable ==
  ASSUME NEW t, IsTable(t)
  PROVE  Bare(t) = Table(t.key, t.cols, {}, t.unique, t.check, t.idx)
BY DEF Bare, IsTable, Table

----------------------------------------------------------------------------
(* Schemas that make sense: a key is a column, constraints are about columns,  *)
(* references lead to tables.                                                  *)
Tabular(ts) == ts = [m \in DOMAIN ts |-> ts[m]] /\ \A m \in DOMAIN ts : IsTable(ts[m])
Coherent(t) ==
    /\ t.key \in DOMAIN t.cols
    /\ \A n \in DOMAIN t.unique :
          t.unique[n].fields \subseteq DOMAIN t.cols /\ DOMAIN t.unique[n].except \subseteq DOMAIN t.cols
    /\ \A n \in DOMAIN t.check : t.check[n].fields \subseteq DOMAIN t.cols
Linked(t, names) == \A f \in DOMAIN t.cols : t.cols[f].ref = "" \/ t.cols[f].ref \in names
WellFormed(ts) ==
    /\ "" \notin DOMAIN ts
    /\ \A m \in DOMAIN ts : Coherent(ts[m]) /\ Linked(ts[m], DOMAIN ts)
Aligned(t) == \A r \in t.rows : DOMAIN r = DOMAIN t.cols

LEMMA Merged ==
  ASSUME NEW f, NEW g
  PROVE  /\ DOMAIN (f @@ g) = (DOMAIN f) \union (DOMAIN g)
         /\ \A x \in DOMAIN f : (f @@ g)[x] = f[x]
         /\ \A x \in DOMAIN g \ DOMAIN f : (f @@ g)[x] = g[x]
BY DEF @@

LEMMA Single ==
  ASSUME NEW a, NEW b
  PROVE  DOMAIN (a :> b) = {a} /\ (a :> b)[a] = b
BY DEF :>

LEMMA Kept ==
  ASSUME NEW f, NEW names
  PROVE  /\ DOMAIN Without(f, names) = DOMAIN f \ names
         /\ \A x \in DOMAIN f \ names : Without(f, names)[x] = f[x]
BY DEF Without

LEMMA MergedAt ==
  ASSUME NEW f, NEW g, NEW x, x \in DOMAIN f
  PROVE  x \in DOMAIN (f @@ g) /\ (f @@ g)[x] = f[x]
BY DEF @@

LEMMA KeptAt ==
  ASSUME NEW f, NEW names, NEW x, x \in DOMAIN f, x \notin names
  PROVE  x \in DOMAIN Without(f, names) /\ Without(f, names)[x] = f[x]
BY DEF Without

\* A column under another name.
Moved(f, old, new) == IF f = old THEN new ELSE f

LEMMA Replaced ==
  ASSUME NEW ts, NEW m, NEW t, Tabular(ts), m \in DOMAIN ts, IsTable(t)
  PROVE  /\ Tabular([ts EXCEPT ![m] = t])
         /\ DOMAIN [ts EXCEPT ![m] = t] = DOMAIN ts
         /\ [ts EXCEPT ![m] = t][m] = t
         /\ \A n \in DOMAIN ts \ {m} : [ts EXCEPT ![m] = t][n] = ts[n]
BY DEF Tabular

LEMMA MovedAt ==
  ASSUME NEW f, NEW old, NEW new, NEW x, new \notin DOMAIN f, x \in DOMAIN f
  PROVE  /\ Moved(x, old, new) \in DOMAIN Renamed(f, old, new)
         /\ Renamed(f, old, new)[Moved(x, old, new)] = f[x]
<1>1. Moved(x, old, new) \in Swapped(DOMAIN f, old, new)
  BY DEF Swapped, Moved
<1>2. CASE x = old
  BY <1>1, <1>2 DEF Renamed, Moved
<1>3. CASE x # old
  BY <1>1, <1>3 DEF Renamed, Moved
<1> QED BY <1>2, <1>3

LEMMA MovedDomain ==
  ASSUME NEW f, NEW old, NEW new, new \notin DOMAIN f
  PROVE  \A y : y \in DOMAIN Renamed(f, old, new) <=> \E x \in DOMAIN f : y = Moved(x, old, new)
<1>1. DOMAIN Renamed(f, old, new) = Swapped(DOMAIN f, old, new)
  BY DEF Renamed
<1> QED BY <1>1 DEF Swapped, Moved

LEMMA SwappedIn ==
  ASSUME NEW S, NEW old, NEW new
  PROVE  \A y : y \in Swapped(S, old, new) <=> \E x \in S : y = Moved(x, old, new)
BY DEF Swapped, Moved

\* A table is as sound as before when it is the same and the keys it refers to are.
LEMMA SoundElsewhere ==
  ASSUME NEW ts, NEW us, NEW m, us[m] = ts[m], Sound(ts, m),
         \A f \in DOMAIN ts[m].cols :
            ts[m].cols[f].ref # "" => Keys(us[ts[m].cols[f].ref]) = Keys(ts[ts[m].cols[f].ref])
  PROVE  Sound(us, m)
<1>1. RespectsColumns(us, us[m])
  BY DEF Sound, RespectsColumns
<1>2. RespectsConstraints(us[m])
  BY DEF Sound
<1> QED BY <1>1, <1>2 DEF Sound

----------------------------------------------------------------------------
(* What the operations ask for.                                                *)
LEMMA Asked ==
  ASSUME NEW o, NEW ts
  PROVE  /\ o.op = "AddField" =>
              (Possible(o, ts) <=> o.model \in DOMAIN ts /\ DOMAIN o.cols \cap DOMAIN ts[o.model].cols = {}
                                   /\ Targets(o.cols) \subseteq DOMAIN ts)
         /\ o.op = "AlterField" =>
              (Possible(o, ts) <=> o.model \in DOMAIN ts /\ DOMAIN o.cols \subseteq DOMAIN ts[o.model].cols
                                   /\ Targets(o.cols) \subseteq DOMAIN ts)
         /\ o.op = "AlterType" =>
              (Possible(o, ts) <=> o.model \in DOMAIN ts /\ o.field \in DOMAIN ts[o.model].cols
                                   /\ \A r \in ts[o.model].rows : r[o.field] \notin o.refused)
         /\ o.op = "RemoveField" =>
              (Possible(o, ts) <=> o.model \in DOMAIN ts
                                   /\ o.fields \subseteq DOMAIN ts[o.model].cols \ {ts[o.model].key}
                                   /\ o.fields \cap Mentioned(ts[o.model]) = {})
         /\ o.op = "RenameField" =>
              (Possible(o, ts) <=> o.model \in DOMAIN ts /\ o.field \in DOMAIN ts[o.model].cols
                                   /\ o.to \notin DOMAIN ts[o.model].cols)
<1>1. CASE o.op = "AddField"
  BY <1>1 DEF Possible
<1>2. CASE o.op = "AlterField"
  BY <1>2 DEF Possible
<1>3. CASE o.op = "AlterType"
  BY <1>3 DEF Possible
<1>4. CASE o.op = "RemoveField"
  BY <1>4 DEF Possible
<1>5. CASE o.op = "RenameField"
  BY <1>5 DEF Possible
<1> QED BY <1>1, <1>2, <1>3, <1>4, <1>5

LEMMA AskedOfConstraints ==
  ASSUME NEW o, NEW ts
  PROVE  /\ o.op = "AlterUniqueTogether" =>
              (Possible(o, ts) <=> o.model \in DOMAIN ts /\ o.fields \subseteq DOMAIN ts[o.model].cols
                                   /\ (o.fields = {} => "together" \in DOMAIN ts[o.model].unique))
         /\ o.op = "AddIndex" =>
              (Possible(o, ts) <=> o.model \in DOMAIN ts /\ o.fields \subseteq DOMAIN ts[o.model].cols
                                   /\ o.name \notin Names(ts))
         /\ o.op = "AddUnique" =>
              (Possible(o, ts) <=> o.model \in DOMAIN ts
                                   /\ o.fields \union DOMAIN o.except \subseteq DOMAIN ts[o.model].cols
                                   /\ o.name \notin Names(ts))
         /\ o.op = "RemoveIndex" => (Possible(o, ts) <=> o.model \in DOMAIN ts)
         /\ o.op = "RenameIndex" =>
              (Possible(o, ts) <=> o.model \in DOMAIN ts /\ o.name \in DOMAIN ts[o.model].idx
                                   /\ o.to \notin Names(ts))
         /\ o.op = "AddCheck" =>
              (Possible(o, ts) <=> o.model \in DOMAIN ts /\ o.fields \subseteq DOMAIN ts[o.model].cols
                                   /\ o.name \notin DOMAIN ts[o.model].check)
         /\ o.op = "RemoveConstraint" =>
              (Possible(o, ts) <=> o.model \in DOMAIN ts
                     /\ o.name \in (DOMAIN ts[o.model].unique) \union (DOMAIN ts[o.model].check))
<1>1. CASE o.op = "AlterUniqueTogether"
  BY <1>1 DEF Possible
<1>2. CASE o.op = "AddIndex"
  BY <1>2 DEF Possible
<1>3. CASE o.op = "AddUnique"
  BY <1>3 DEF Possible
<1>4. CASE o.op = "RemoveIndex"
  BY <1>4 DEF Possible
<1>5. CASE o.op = "RenameIndex"
  BY <1>5 DEF Possible
<1>6. CASE o.op = "AddCheck"
  BY <1>6 DEF Possible
<1>7. CASE o.op = "RemoveConstraint"
  BY <1>7 DEF Possible
<1> QED BY <1>1, <1>2, <1>3, <1>4, <1>5, <1>6, <1>7

LEMMA AskedOfTables ==
  ASSUME NEW o, NEW ts
  PROVE  /\ o.op = "CreateModel" =>
              (Possible(o, ts) <=> o.model \notin (DOMAIN ts) \union {""} /\ o.key \in DOMAIN o.cols
                                   /\ Targets(o.cols) \subseteq (DOMAIN ts) \union {o.model})
         /\ o.op = "DeleteModel" =>
              (Possible(o, ts) <=> o.model \in DOMAIN ts
                     /\ \A m \in DOMAIN ts \ {o.model} : o.model \notin Targets(ts[m].cols))
         /\ o.op = "RenameModel" =>
              (Possible(o, ts) <=> o.model \in DOMAIN ts /\ o.to \notin (DOMAIN ts) \union {""})
<1>1. CASE o.op = "CreateModel"
  BY <1>1 DEF Possible
<1>2. CASE o.op = "DeleteModel"
  BY <1>2 DEF Possible
<1>3. CASE o.op = "RenameModel"
  BY <1>3 DEF Possible
<1> QED BY <1>1, <1>2, <1>3

Local == {"AddField", "AlterField", "AlterType", "RemoveField", "RenameField",
          "AlterUniqueTogether", "AddIndex", "RemoveIndex", "RenameIndex", "AddUnique", "AddCheck",
          "RemoveConstraint"}

LEMMA Sorts ==
  ASSUME NEW o, NEW ts, Possible(o, ts)
  PROVE  o.op \in Local \union {"CreateModel", "DeleteModel", "RenameModel"}
BY DEF Possible, Local

LEMMA LocalOutcome ==
  ASSUME NEW o, NEW ts, o.op \in Local
  PROVE  Outcome(o, ts) = [ts EXCEPT ![o.model] = Altered(o, ts[o.model])]
BY DEF Outcome, Local

----------------------------------------------------------------------------
(* An operation on one table leaves a table that makes sense, with the same    *)
(* keys.                                                                       *)
Replaces(u, t, names) == IsTable(u) /\ Coherent(u) /\ Linked(u, names) /\ Keys(u) = Keys(t)

LEMMA AddFieldReplaces ==
  ASSUME NEW o, NEW t, NEW names, IsTable(t), Coherent(t), Linked(t, names), Aligned(t),
         o.op = "AddField", DOMAIN o.cols \cap DOMAIN t.cols = {}, Targets(o.cols) \subseteq names
  PROVE  Replaces(Altered(o, t), t, names)
<1> DEFINE cols == t.cols @@ o.cols
           rows == {r @@ [f \in DOMAIN o.cols |-> o.value] : r \in t.rows}
           u == Table(t.key, cols, rows, t.unique, t.check, t.idx)
<1>1. Altered(o, t) = u
  BY AlteredTable
<1>2. IsTable(u) /\ u.key = t.key /\ u.cols = cols /\ u.rows = rows /\ u.unique = t.unique /\ u.check = t.check
  BY Fields
<1>3. /\ DOMAIN cols = (DOMAIN t.cols) \union DOMAIN o.cols
      /\ \A f \in DOMAIN t.cols : cols[f] = t.cols[f]
      /\ \A f \in DOMAIN o.cols \ DOMAIN t.cols : cols[f] = o.cols[f]
  BY Merged
<1>4. ASSUME NEW r \in t.rows
      PROVE  (r @@ [f \in DOMAIN o.cols |-> o.value])[t.key] = r[t.key]
  <2>1. t.key \in DOMAIN r
    BY DEF Aligned, Coherent
  <2> QED BY <2>1, MergedAt
<1> HIDE DEF cols, u
<1>5. Coherent(u)
  BY <1>2, <1>3 DEF Coherent
<1>6. Linked(u, names)
  BY <1>2, <1>3 DEF Linked, Targets
<1>7. Keys(u) = Keys(t)
  BY <1>2, <1>4 DEF Keys
<1> QED BY <1>1, <1>2, <1>5, <1>6, <1>7 DEF Replaces

LEMMA AlterFieldReplaces ==
  ASSUME NEW o, NEW t, NEW names, IsTable(t), Coherent(t), Linked(t, names),
         o.op = "AlterField", DOMAIN o.cols \subseteq DOMAIN t.cols, Targets(o.cols) \subseteq names
  PROVE  Replaces(Altered(o, t), t, names)
<1> DEFINE cols == o.cols @@ t.cols
           u == Table(t.key, cols, t.rows, t.unique, t.check, t.idx)
<1>1. Altered(o, t) = u
  BY AlteredTable
<1>2. IsTable(u) /\ u.key = t.key /\ u.cols = cols /\ u.rows = t.rows /\ u.unique = t.unique /\ u.check = t.check
  BY Fields
<1>4. /\ DOMAIN cols = (DOMAIN o.cols) \union (DOMAIN t.cols)
      /\ \A f \in DOMAIN o.cols : cols[f] = o.cols[f]
      /\ \A f \in DOMAIN t.cols \ DOMAIN o.cols : cols[f] = t.cols[f]
  BY Merged
<1> HIDE DEF cols, u
<1>3. /\ DOMAIN cols = DOMAIN t.cols
      /\ \A f \in DOMAIN o.cols : cols[f] = o.cols[f]
      /\ \A f \in DOMAIN t.cols \ DOMAIN o.cols : cols[f] = t.cols[f]
  BY <1>4
<1>5. Coherent(u)
  BY <1>2, <1>3 DEF Coherent
<1>6. Linked(u, names)
  BY <1>2, <1>3 DEF Linked, Targets
<1>7. Keys(u) = Keys(t)
  BY <1>2 DEF Keys
<1> QED BY <1>1, <1>2, <1>5, <1>6, <1>7 DEF Replaces

LEMMA MentionedFields ==
  ASSUME NEW t
  PROVE  /\ \A n \in DOMAIN t.unique :
              /\ t.unique[n].fields \subseteq Mentioned(t)
              /\ DOMAIN t.unique[n].except \subseteq Mentioned(t)
         /\ \A n \in DOMAIN t.check : t.check[n].fields \subseteq Mentioned(t)
<1> DEFINE U == {(t.unique[n].fields) \union (DOMAIN t.unique[n].except) : n \in DOMAIN t.unique}
           C == {t.check[n].fields : n \in DOMAIN t.check}
           I == {t.idx[n] : n \in DOMAIN t.idx}
<1>1. Mentioned(t) = UNION (U \union C \union I)
  BY DEF Mentioned
<1>2. \A n \in DOMAIN t.unique : (t.unique[n].fields) \union (DOMAIN t.unique[n].except) \in U
  OBVIOUS
<1>3. \A n \in DOMAIN t.check : t.check[n].fields \in C
  OBVIOUS
<1> HIDE DEF U, C, I
<1>4. \A S \in U \union C : S \subseteq Mentioned(t)
  BY <1>1
<1>5. ASSUME NEW n \in DOMAIN t.unique
      PROVE  t.unique[n].fields \subseteq Mentioned(t) /\ DOMAIN t.unique[n].except \subseteq Mentioned(t)
  <2>1. (t.unique[n].fields) \union (DOMAIN t.unique[n].except) \subseteq Mentioned(t)
    BY <1>2, <1>4
  <2> QED BY <2>1
<1> QED BY <1>3, <1>4, <1>5

LEMMA RemoveFieldReplaces ==
  ASSUME NEW o, NEW t, NEW names, IsTable(t), Coherent(t), Linked(t, names), Aligned(t),
         o.op = "RemoveField", o.fields \subseteq DOMAIN t.cols \ {t.key},
         o.fields \cap Mentioned(t) = {}
  PROVE  Replaces(Altered(o, t), t, names)
<1> DEFINE cols == Without(t.cols, o.fields)
           rows == {Without(r, o.fields) : r \in t.rows}
           u == Table(t.key, cols, rows, t.unique, t.check, t.idx)
<1>1. Altered(o, t) = u
  BY AlteredTable
<1>2. IsTable(u) /\ u.key = t.key /\ u.cols = cols /\ u.rows = rows /\ u.unique = t.unique /\ u.check = t.check
  BY Fields
<1>3. DOMAIN cols = DOMAIN t.cols \ o.fields /\ \A f \in DOMAIN t.cols \ o.fields : cols[f] = t.cols[f]
  BY Kept
<1>4. ASSUME NEW r \in t.rows
      PROVE  Without(r, o.fields)[t.key] = r[t.key]
  <2>1. t.key \in DOMAIN r \ o.fields
    BY DEF Aligned, Coherent
  <2> QED BY <2>1, KeptAt
<1> HIDE DEF cols, u
<1>5. Coherent(u)
  <2>1. t.key \in DOMAIN cols
    BY <1>3 DEF Coherent
  <2>2. ASSUME NEW n \in DOMAIN t.unique
        PROVE  t.unique[n].fields \subseteq DOMAIN cols /\ DOMAIN t.unique[n].except \subseteq DOMAIN cols
    <3>1. t.unique[n].fields \subseteq Mentioned(t) /\ DOMAIN t.unique[n].except \subseteq Mentioned(t)
      BY MentionedFields
    <3> QED BY <3>1, <1>3 DEF Coherent
  <2>3. ASSUME NEW n \in DOMAIN t.check
        PROVE  t.check[n].fields \subseteq DOMAIN cols
    <3>1. t.check[n].fields \subseteq Mentioned(t)
      BY MentionedFields
    <3> QED BY <3>1, <1>3 DEF Coherent
  <2> QED BY <1>2, <2>1, <2>2, <2>3 DEF Coherent
<1>6. Linked(u, names)
  BY <1>2, <1>3 DEF Linked
<1>7. Keys(u) = Keys(t)
  BY <1>2, <1>4 DEF Keys
<1> QED BY <1>1, <1>2, <1>5, <1>6, <1>7 DEF Replaces

LEMMA RenameFieldReplaces ==
  ASSUME NEW o, NEW t, NEW names, IsTable(t), Coherent(t), Linked(t, names), Aligned(t),
         o.op = "RenameField", o.field \in DOMAIN t.cols, o.to \notin DOMAIN t.cols
  PROVE  Replaces(Altered(o, t), t, names)
<1> DEFINE old == o.field
           new == o.to
           u == RenameIn(t, old, new)
<1>1. Altered(o, t) = u
  BY AlteredTable
<1>2. /\ IsTable(u) /\ u.key = Moved(t.key, old, new) /\ u.cols = Renamed(t.cols, old, new)
      /\ u.rows = {Renamed(r, old, new) : r \in t.rows}
      /\ u.unique = [n \in DOMAIN t.unique |->
              [fields |-> Swapped(t.unique[n].fields, old, new),
               except |-> Renamed(t.unique[n].except, old, new)]]
      /\ u.check = [n \in DOMAIN t.check |->
              [fields |-> Swapped(t.check[n].fields, old, new),
               present |-> {Swapped(p, old, new) : p \in t.check[n].present}]]
  BY Fields DEF RenameIn, Moved
<1> HIDE DEF u
<1>3. /\ \A y : y \in DOMAIN u.cols <=> \E f \in DOMAIN t.cols : y = Moved(f, old, new)
      /\ \A f \in DOMAIN t.cols : u.cols[Moved(f, old, new)] = t.cols[f]
  <2>1. u.cols = Renamed(t.cols, old, new)
    BY <1>2
  <2>2. \A y : y \in DOMAIN u.cols <=> \E f \in DOMAIN t.cols : y = Moved(f, old, new)
    BY <2>1, MovedDomain
  <2>3. \A f \in DOMAIN t.cols : Renamed(t.cols, old, new)[Moved(f, old, new)] = t.cols[f]
    BY MovedAt
  <2> QED BY <2>1, <2>2, <2>3
<1>4. ASSUME NEW r \in t.rows
      PROVE  Renamed(r, old, new)[Moved(t.key, old, new)] = r[t.key]
  <2>1. t.key \in DOMAIN r /\ new \notin DOMAIN r
    BY DEF Aligned, Coherent
  <2> QED BY <2>1, MovedAt
<1>5. Coherent(u)
  <2>1. u.key \in DOMAIN u.cols
    BY <1>2, <1>3 DEF Coherent
  <2>2. ASSUME NEW n \in DOMAIN u.unique
        PROVE  u.unique[n].fields \subseteq DOMAIN u.cols /\ DOMAIN u.unique[n].except \subseteq DOMAIN u.cols
    <3>1. /\ t.unique[n].fields \subseteq DOMAIN t.cols /\ DOMAIN t.unique[n].except \subseteq DOMAIN t.cols
          /\ n \in DOMAIN t.unique
      BY <1>2 DEF Coherent
    <3>2. \A y \in u.unique[n].fields : \E f \in t.unique[n].fields : y = Moved(f, old, new)
      BY <1>2, SwappedIn
    <3>3. \A y \in DOMAIN u.unique[n].except :
            \E f \in DOMAIN t.unique[n].except : y = Moved(f, old, new)
      <4>1. u.unique[n].except = Renamed(t.unique[n].except, old, new)
        BY <1>2
      <4>2. new \notin DOMAIN t.unique[n].except
        BY <3>1
      <4> QED BY <4>1, <4>2, MovedDomain
    <3> QED BY <3>1, <3>2, <3>3, <1>3
  <2>3. ASSUME NEW n \in DOMAIN u.check
        PROVE  u.check[n].fields \subseteq DOMAIN u.cols
    <3>1. t.check[n].fields \subseteq DOMAIN t.cols /\ n \in DOMAIN t.check
      BY <1>2 DEF Coherent
    <3>2. \A y \in u.check[n].fields : \E f \in t.check[n].fields : y = Moved(f, old, new)
      BY <1>2, SwappedIn
    <3> QED BY <3>1, <3>2, <1>3
  <2> QED BY <2>1, <2>2, <2>3 DEF Coherent
<1>6. Linked(u, names)
  <2>1. ASSUME NEW g \in DOMAIN u.cols
        PROVE  u.cols[g].ref = "" \/ u.cols[g].ref \in names
    <3>1. PICK f \in DOMAIN t.cols : g = Moved(f, old, new)
      BY <1>3
    <3>2. u.cols[g] = t.cols[f]
      BY <3>1, <1>3
    <3> QED BY <3>2 DEF Linked
  <2> QED BY <2>1 DEF Linked
<1>7. Keys(u) = Keys(t)
  BY <1>2, <1>4 DEF Keys
<1> QED BY <1>1, <1>2, <1>5, <1>6, <1>7 DEF Replaces

LEMMA ConstraintsReplace ==
  ASSUME NEW o, NEW t, NEW names, IsTable(t), Coherent(t), Linked(t, names),
         \/ o.op \in {"AlterType", "AddIndex", "RemoveIndex", "RenameIndex", "RemoveConstraint"}
         \/ o.op = "AlterUniqueTogether" /\ o.fields \subseteq DOMAIN t.cols
         \/ o.op = "AddUnique" /\ o.fields \union DOMAIN o.except \subseteq DOMAIN t.cols
         \/ o.op = "AddCheck" /\ o.fields \subseteq DOMAIN t.cols
  PROVE  Replaces(Altered(o, t), t, names)
<1> DEFINE u == Altered(o, t)
<1>1. CASE o.op = "AlterType"
  <2>1. u = t
    BY <1>1 DEF Altered
  <2> QED BY <2>1 DEF Replaces
<1>2. CASE o.op \in {"AddIndex", "RemoveIndex", "RenameIndex"}
  <2>1. PICK idx : u = Table(t.key, t.cols, t.rows, t.unique, t.check, idx)
    BY <1>2, AlteredTable
  <2> HIDE DEF u
  <2>2. IsTable(u) /\ u.key = t.key /\ u.cols = t.cols /\ u.rows = t.rows /\ u.unique = t.unique /\ u.check = t.check
    BY <2>1, Fields
  <2> QED BY <2>2 DEF Replaces, Coherent, Linked, Keys, u
<1>3. CASE o.op = "RemoveConstraint"
  <2>1. u = Table(t.key, t.cols, t.rows, Without(t.unique, {o.name}), Without(t.check, {o.name}), t.idx)
    BY <1>3, AlteredTable
  <2> HIDE DEF u
  <2>2. /\ IsTable(u) /\ u.key = t.key /\ u.cols = t.cols /\ u.rows = t.rows
        /\ u.unique = Without(t.unique, {o.name}) /\ u.check = Without(t.check, {o.name})
    BY <2>1, Fields
  <2>3. Coherent(u)
    BY <2>2 DEF Coherent, Without
  <2> QED BY <2>2, <2>3 DEF Replaces, Linked, Keys, u
<1>4. CASE o.op = "AlterUniqueTogether" /\ o.fields \subseteq DOMAIN t.cols
  <2> DEFINE unique == IF o.fields = {} THEN Without(t.unique, {"together"})
                       ELSE ("together" :> [fields |-> o.fields, except |-> Always]) @@ t.unique
  <2>1. u = Table(t.key, t.cols, t.rows, unique, t.check, t.idx)
    BY <1>4, AlteredTable
  <2> HIDE DEF u
  <2>2. /\ IsTable(u) /\ u.key = t.key /\ u.cols = t.cols /\ u.rows = t.rows
        /\ u.unique = unique /\ u.check = t.check
    BY <2>1, Fields
  <2>3. ASSUME NEW n \in DOMAIN unique
        PROVE  unique[n].fields \subseteq DOMAIN t.cols /\ DOMAIN unique[n].except \subseteq DOMAIN t.cols
    BY <1>4, <2>3 DEF Coherent, Without, @@, :>, Always
  <2> HIDE DEF unique
  <2>4. Coherent(u)
    BY <2>2, <2>3 DEF Coherent
  <2> QED BY <2>2, <2>4 DEF Replaces, Linked, Keys, u
<1>5. CASE o.op = "AddUnique" /\ o.fields \union DOMAIN o.except \subseteq DOMAIN t.cols
  <2> DEFINE unique == t.unique @@ (o.name :> [fields |-> o.fields, except |-> o.except])
  <2>1. u = Table(t.key, t.cols, t.rows, unique, t.check, t.idx)
    BY <1>5, AlteredTable
  <2> HIDE DEF u
  <2>2. /\ IsTable(u) /\ u.key = t.key /\ u.cols = t.cols /\ u.rows = t.rows
        /\ u.unique = unique /\ u.check = t.check
    BY <2>1, Fields
  <2>3. ASSUME NEW n \in DOMAIN unique
        PROVE  unique[n].fields \subseteq DOMAIN t.cols /\ DOMAIN unique[n].except \subseteq DOMAIN t.cols
    BY <1>5, <2>3 DEF Coherent, @@, :>
  <2> HIDE DEF unique
  <2>4. Coherent(u)
    BY <2>2, <2>3 DEF Coherent
  <2> QED BY <2>2, <2>4 DEF Replaces, Linked, Keys, u
<1>6. CASE o.op = "AddCheck" /\ o.fields \subseteq DOMAIN t.cols
  <2> DEFINE check == t.check @@ (o.name :> [fields |-> o.fields, present |-> o.present])
  <2>1. u = Table(t.key, t.cols, t.rows, t.unique, check, t.idx)
    BY <1>6, AlteredTable
  <2> HIDE DEF u
  <2>2. /\ IsTable(u) /\ u.key = t.key /\ u.cols = t.cols /\ u.rows = t.rows
        /\ u.unique = t.unique /\ u.check = check
    BY <2>1, Fields
  <2>3. ASSUME NEW n \in DOMAIN check
        PROVE  check[n].fields \subseteq DOMAIN t.cols
    BY <1>6, <2>3 DEF Coherent, @@, :>
  <2> HIDE DEF check
  <2>4. Coherent(u)
    BY <2>2, <2>3 DEF Coherent
  <2> QED BY <2>2, <2>4 DEF Replaces, Linked, Keys, u
<1> QED BY <1>1, <1>2, <1>3, <1>4, <1>5, <1>6

LEMMA LocalReplaces ==
  ASSUME NEW o, NEW ts, Tabular(ts), WellFormed(ts), Possible(o, ts), o.op \in Local,
         NEW t, t = ts[o.model], Aligned(t)
  PROVE  /\ o.model \in DOMAIN ts
         /\ Replaces(Altered(o, t), t, DOMAIN ts)
<1>1. o.model \in DOMAIN ts
  BY Asked, AskedOfConstraints DEF Local
<1>2. IsTable(t) /\ Coherent(t) /\ Linked(t, DOMAIN ts)
  BY <1>1 DEF Tabular, WellFormed
<1>3. CASE o.op = "AddField"
  BY <1>2, <1>3, Asked, AddFieldReplaces
<1>4. CASE o.op = "AlterField"
  BY <1>2, <1>4, Asked, AlterFieldReplaces
<1>5. CASE o.op = "RemoveField"
  BY <1>2, <1>5, Asked, RemoveFieldReplaces
<1>6. CASE o.op = "RenameField"
  BY <1>2, <1>6, Asked, RenameFieldReplaces
<1>7. CASE o.op \in {"AlterType", "AddIndex", "RemoveIndex", "RenameIndex", "RemoveConstraint",
                     "AlterUniqueTogether", "AddUnique", "AddCheck"}
  <2>1. \/ o.op \in {"AlterType", "AddIndex", "RemoveIndex", "RenameIndex", "RemoveConstraint"}
        \/ o.op = "AlterUniqueTogether" /\ o.fields \subseteq DOMAIN t.cols
        \/ o.op = "AddUnique" /\ o.fields \union DOMAIN o.except \subseteq DOMAIN t.cols
        \/ o.op = "AddCheck" /\ o.fields \subseteq DOMAIN t.cols
    BY <1>7, AskedOfConstraints
  <2> QED BY <1>1, <1>2, <2>1, ConstraintsReplace
<1> QED BY <1>1, <1>3, <1>4, <1>5, <1>6, <1>7 DEF Local

----------------------------------------------------------------------------
(* Operations that ask nothing new of the rows leave a sound table sound.  The *)
(* row r becomes g[r].                                                         *)
Inherits(ts, us, t, u, g, y) ==
    \/ \E f \in DOMAIN t.cols :
          /\ \A r \in t.rows : g[r][y] = r[f]
          /\ t.cols[f].null => u.cols[y].null
          /\ u.cols[y].unique => t.cols[f].unique
          /\ u.cols[y].ref # "" =>
                t.cols[f].ref # "" /\ Keys(us[u.cols[y].ref]) = Keys(ts[t.cols[f].ref])
    \/ u.cols[y].null /\ \A r \in t.rows : g[r][y] = None
    \/ ~u.cols[y].unique /\ u.cols[y].ref = "" /\ \A r \in t.rows : g[r][y] # None
Retains(u, t, fields) ==
    /\ \A n \in DOMAIN u.unique :
          /\ n \in DOMAIN t.unique /\ u.unique[n] = t.unique[n]
          /\ t.unique[n].fields \subseteq fields /\ DOMAIN t.unique[n].except \subseteq fields
    /\ \A n \in DOMAIN u.check :
          /\ n \in DOMAIN t.check /\ u.check[n] = t.check[n]
          /\ t.check[n].fields \subseteq fields

LEMMA SameColumns ==
  ASSUME NEW ts, NEW us, NEW t, NEW u, NEW g, RespectsColumns(ts, t),
         u.rows = {g[r] : r \in t.rows},
         \A r \in t.rows : DOMAIN g[r] = DOMAIN u.cols,
         \A y \in DOMAIN u.cols : Inherits(ts, us, t, u, g, y)
  PROVE  RespectsColumns(us, u)
<1> SUFFICES ASSUME NEW p \in u.rows
             PROVE  /\ DOMAIN p = DOMAIN u.cols
                    /\ \A y \in DOMAIN u.cols :
                          /\ u.cols[y].null \/ p[y] # None
                          /\ u.cols[y].unique => \A q \in u.rows \ {p} : ~Collide(p, q, {y})
                          /\ u.cols[y].ref # "" => p[y] = None \/ p[y] \in Keys(us[u.cols[y].ref])
  BY DEF RespectsColumns
<1>1. PICK r \in t.rows : p = g[r]
  OBVIOUS
<1>2. DOMAIN p = DOMAIN u.cols
  BY <1>1
<1>3. ASSUME NEW y \in DOMAIN u.cols
      PROVE  /\ u.cols[y].null \/ p[y] # None
             /\ u.cols[y].unique => \A q \in u.rows \ {p} : ~Collide(p, q, {y})
             /\ u.cols[y].ref # "" => p[y] = None \/ p[y] \in Keys(us[u.cols[y].ref])
  <2>1. CASE \E f \in DOMAIN t.cols :
                  /\ \A q \in t.rows : g[q][y] = q[f]
                  /\ t.cols[f].null => u.cols[y].null
                  /\ u.cols[y].unique => t.cols[f].unique
                  /\ u.cols[y].ref # "" =>
                        /\ t.cols[f].ref # ""
                        /\ Keys(us[u.cols[y].ref]) = Keys(ts[t.cols[f].ref])
    <3>1. PICK f \in DOMAIN t.cols :
                  /\ \A q \in t.rows : g[q][y] = q[f]
                  /\ t.cols[f].null => u.cols[y].null
                  /\ u.cols[y].unique => t.cols[f].unique
                  /\ u.cols[y].ref # "" =>
                        /\ t.cols[f].ref # ""
                        /\ Keys(us[u.cols[y].ref]) = Keys(ts[t.cols[f].ref])
      BY <2>1
    <3>2. p[y] = r[f]
      BY <3>1, <1>1
    <3>3. /\ t.cols[f].null \/ r[f] # None
          /\ t.cols[f].unique => \A s \in t.rows \ {r} : ~Collide(r, s, {f})
          /\ t.cols[f].ref # "" => r[f] = None \/ r[f] \in Keys(ts[t.cols[f].ref])
      BY DEF RespectsColumns
    <3>4. ASSUME u.cols[y].unique, NEW q \in u.rows \ {p}
          PROVE  ~Collide(p, q, {y})
      <4>1. PICK s \in t.rows : q = g[s]
        OBVIOUS
      <4>2. s # r /\ q[y] = s[f]
        BY <4>1, <1>1, <3>1
      <4>3. ~Collide(r, s, {f})
        BY <4>2, <3>1, <3>3, <3>4
      <4> QED BY <4>2, <4>3, <3>2 DEF Collide
    <3>5. u.cols[y].null \/ p[y] # None
      BY <3>1, <3>2, <3>3
    <3>6. u.cols[y].ref # "" => p[y] = None \/ p[y] \in Keys(us[u.cols[y].ref])
      BY <3>1, <3>2, <3>3
    <3> QED BY <3>4, <3>5, <3>6
  <2>2. CASE u.cols[y].null /\ \A q \in t.rows : g[q][y] = None
    BY <1>1, <2>2 DEF Collide
  <2>3. CASE /\ ~u.cols[y].unique /\ u.cols[y].ref = ""
             /\ \A q \in t.rows : g[q][y] # None
    BY <1>1, <2>3
  <2> QED BY <2>1, <2>2, <2>3 DEF Inherits
<1> QED BY <1>2, <1>3

LEMMA SameConstraints ==
  ASSUME NEW t, NEW u, NEW g, NEW M, RespectsConstraints(t),
         u.rows = {g[r] : r \in t.rows},
         \A r \in t.rows : \A f \in M : g[r][f] = r[f],
         Retains(u, t, M)
  PROVE  RespectsConstraints(u)
<1> SUFFICES ASSUME NEW p \in u.rows
             PROVE  /\ \A n \in DOMAIN u.unique :
                          Covered(p, u.unique[n]) =>
                              \A q \in u.rows \ {p} :
                                  Covered(q, u.unique[n]) => ~Collide(p, q, u.unique[n].fields)
                    /\ \A n \in DOMAIN u.check :
                          {f \in u.check[n].fields : p[f] # None} \in u.check[n].present
  BY DEF RespectsConstraints
<1>1. PICK r \in t.rows : p = g[r]
  OBVIOUS
<1>2. ASSUME NEW n \in DOMAIN u.unique, Covered(p, u.unique[n]),
             NEW q \in u.rows \ {p}, Covered(q, u.unique[n])
      PROVE  ~Collide(p, q, u.unique[n].fields)
  <2>1. PICK s \in t.rows : q = g[s]
    OBVIOUS
  <2>2. s # r
    BY <2>1, <1>1
  <2>3. Covered(r, t.unique[n]) /\ Covered(s, t.unique[n])
    BY <1>1, <1>2, <2>1 DEF Covered, Retains
  <2>4. ~Collide(r, s, t.unique[n].fields)
    BY <1>2, <2>2, <2>3 DEF RespectsConstraints, Retains
  <2> QED BY <1>1, <1>2, <2>1, <2>4 DEF Collide, Retains
<1>3. ASSUME NEW n \in DOMAIN u.check
      PROVE  {f \in u.check[n].fields : p[f] # None} \in u.check[n].present
  <2>1. {f \in u.check[n].fields : p[f] # None} = {f \in t.check[n].fields : r[f] # None}
    BY <1>1 DEF Retains
  <2> QED BY <2>1 DEF RespectsConstraints, Retains
<1> QED BY <1>2, <1>3

\* The other tables keep what they refer to.
KeepsKeys(us, ts) == \A n \in DOMAIN ts : Keys(us[n]) = Keys(ts[n])

LEMMA AddFieldSound ==
  ASSUME NEW o, NEW ts, NEW us, NEW t, RespectsColumns(ts, t), RespectsConstraints(t),
         IsTable(t), Coherent(t), Linked(t, DOMAIN ts), KeepsKeys(us, ts),
         o.op = "AddField", DOMAIN o.cols \cap DOMAIN t.cols = {},
         ~MayRefuse(o, ts)
  PROVE  RespectsColumns(us, Altered(o, t)) /\ RespectsConstraints(Altered(o, t))
<1> DEFINE X == [f \in DOMAIN o.cols |-> o.value]
           cols == t.cols @@ o.cols
           rows == {r @@ X : r \in t.rows}
           u == Altered(o, t)
           g == [r \in t.rows |-> r @@ X]
<1>1. /\ u.cols = cols /\ u.rows = rows
      /\ u.unique = t.unique /\ u.check = t.check
  <2>1. u = Table(t.key, cols, rows, t.unique, t.check, t.idx)
    BY AlteredTable
  <2> HIDE DEF cols, rows, u
  <2> QED BY <2>1, Fields
<1>2. /\ DOMAIN cols = (DOMAIN t.cols) \union DOMAIN o.cols
      /\ \A f \in DOMAIN t.cols : cols[f] = t.cols[f]
      /\ \A f \in DOMAIN o.cols \ DOMAIN t.cols : cols[f] = o.cols[f]
  BY Merged
<1>3. ASSUME NEW r \in t.rows
      PROVE  /\ DOMAIN g[r] = DOMAIN cols
             /\ \A f \in DOMAIN t.cols : g[r][f] = r[f]
             /\ \A f \in DOMAIN o.cols : g[r][f] = o.value
  <2>1. DOMAIN r = DOMAIN t.cols
    BY DEF RespectsColumns
  <2>2. DOMAIN X = DOMAIN o.cols /\ \A f \in DOMAIN X : X[f] = o.value
    OBVIOUS
  <2> HIDE DEF X
  <2>4. g[r] = r @@ X
    OBVIOUS
  <2> HIDE DEF g, cols
  <2>3. /\ DOMAIN g[r] = (DOMAIN r) \union DOMAIN X
        /\ \A x \in DOMAIN r : g[r][x] = r[x]
        /\ \A x \in DOMAIN X \ DOMAIN r : g[r][x] = X[x]
    BY <2>4 DEF @@
  <2> QED BY <1>2, <2>1, <2>2, <2>3, <2>4
<1>4. u.rows = {g[r] : r \in t.rows}
  BY <1>1
<1> HIDE DEF u, g, X
<1>5. ASSUME NEW y \in DOMAIN u.cols
      PROVE  Inherits(ts, us, t, u, g, y)
  <2>1. CASE y \in DOMAIN t.cols
    <3>1. u.cols[y] = t.cols[y]
      BY <1>1, <1>2, <2>1
    <3>2. \A r \in t.rows : g[r][y] = r[y]
      BY <1>3, <2>1
    <3>3. u.cols[y].ref # "" => Keys(us[u.cols[y].ref]) = Keys(ts[t.cols[y].ref])
      BY <2>1, <3>1 DEF Linked, KeepsKeys
    <3> QED BY <2>1, <3>1, <3>2, <3>3 DEF Inherits
  <2>2. CASE y \in DOMAIN o.cols \ DOMAIN t.cols
    <3>1. u.cols[y] = o.cols[y]
      BY <1>1, <1>2, <2>2
    <3>2. \A r \in t.rows : g[r][y] = o.value
      BY <1>3, <2>2
    <3>3. IF o.value = None THEN o.cols[y].null ELSE ~o.cols[y].unique /\ o.cols[y].ref = ""
      BY <2>2 DEF MayRefuse
    <3> QED BY <2>2, <3>1, <3>2, <3>3 DEF Inherits
  <2> QED BY <1>1, <1>2, <2>1, <2>2
<1>6. RespectsColumns(us, u)
  <2>1. \A r \in t.rows : DOMAIN g[r] = DOMAIN u.cols
    BY <1>1, <1>3
  <2> HIDE DEF cols
  <2> QED BY <2>1, <1>4, <1>5, SameColumns
<1>7. RespectsConstraints(u)
  <2>1. \A r \in t.rows : \A f \in DOMAIN t.cols : g[r][f] = r[f]
    BY <1>3
  <2>2. Retains(u, t, DOMAIN t.cols)
    BY <1>1 DEF Coherent, Retains
  <2> HIDE DEF cols
  <2> QED BY <2>1, <2>2, <1>4, SameConstraints
<1> QED BY <1>6, <1>7 DEF u

LEMMA AlterFieldSound ==
  ASSUME NEW o, NEW ts, NEW us, NEW t, RespectsColumns(ts, t), RespectsConstraints(t),
         IsTable(t), Coherent(t), Linked(t, DOMAIN ts), KeepsKeys(us, ts),
         o.op = "AlterField", DOMAIN o.cols \subseteq DOMAIN t.cols,
         \A f \in DOMAIN o.cols : ~Tightens(t.cols[f], o.cols[f])
  PROVE  RespectsColumns(us, Altered(o, t)) /\ RespectsConstraints(Altered(o, t))
<1> DEFINE cols == o.cols @@ t.cols
           u == Altered(o, t)
           g == [r \in t.rows |-> r]
<1>1. /\ u.cols = cols /\ u.rows = t.rows
      /\ u.unique = t.unique /\ u.check = t.check
  <2>1. u = Table(t.key, cols, t.rows, t.unique, t.check, t.idx)
    BY AlteredTable
  <2> QED BY <2>1, Fields
<1>2. /\ DOMAIN cols = (DOMAIN o.cols) \union DOMAIN t.cols
      /\ \A f \in DOMAIN o.cols : cols[f] = o.cols[f]
      /\ \A f \in DOMAIN t.cols \ DOMAIN o.cols : cols[f] = t.cols[f]
  BY Merged
<1>3. \A r \in t.rows : g[r] = r
  OBVIOUS
<1> HIDE DEF u, g, cols
<1>4. u.rows = {g[r] : r \in t.rows}
  BY <1>1, <1>3
<1>5. ASSUME NEW y \in DOMAIN u.cols
      PROVE  Inherits(ts, us, t, u, g, y)
  <2>1. y \in DOMAIN t.cols
    BY <1>1, <1>2
  <2>2. /\ t.cols[y].null => u.cols[y].null
        /\ u.cols[y].unique => t.cols[y].unique
        /\ u.cols[y].ref \in {"", t.cols[y].ref}
    BY <1>1, <1>2, <2>1 DEF Tightens
  <2>3. u.cols[y].ref # "" => t.cols[y].ref # "" /\ Keys(us[u.cols[y].ref]) = Keys(ts[t.cols[y].ref])
    BY <2>1, <2>2 DEF Linked, KeepsKeys
  <2> QED BY <1>3, <2>1, <2>2, <2>3 DEF Inherits
<1>6. RespectsColumns(us, u)
  <2>1. \A r \in t.rows : DOMAIN g[r] = DOMAIN u.cols
    BY <1>1, <1>2, <1>3 DEF RespectsColumns
  <2> QED BY <2>1, <1>4, <1>5, SameColumns
<1>7. RespectsConstraints(u)
  BY <1>1 DEF RespectsConstraints
<1> QED BY <1>6, <1>7 DEF u

LEMMA RemoveFieldSound ==
  ASSUME NEW o, NEW ts, NEW us, NEW t, RespectsColumns(ts, t), RespectsConstraints(t),
         IsTable(t), Coherent(t), Linked(t, DOMAIN ts), KeepsKeys(us, ts),
         o.op = "RemoveField", o.fields \cap Mentioned(t) = {}
  PROVE  RespectsColumns(us, Altered(o, t)) /\ RespectsConstraints(Altered(o, t))
<1> DEFINE cols == Without(t.cols, o.fields)
           rows == {Without(r, o.fields) : r \in t.rows}
           u == Altered(o, t)
           g == [r \in t.rows |-> Without(r, o.fields)]
<1>1. /\ u.cols = cols /\ u.rows = rows
      /\ u.unique = t.unique /\ u.check = t.check
  <2>1. u = Table(t.key, cols, rows, t.unique, t.check, t.idx)
    BY AlteredTable
  <2> HIDE DEF cols, rows, u
  <2> QED BY <2>1, Fields
<1>2. DOMAIN cols = DOMAIN t.cols \ o.fields /\ \A f \in DOMAIN t.cols \ o.fields : cols[f] = t.cols[f]
  BY Kept
<1>3. ASSUME NEW r \in t.rows
      PROVE  /\ DOMAIN g[r] = DOMAIN cols
             /\ \A f \in DOMAIN t.cols \ o.fields : g[r][f] = r[f]
  <2>1. DOMAIN r = DOMAIN t.cols
    BY DEF RespectsColumns
  <2>2. g[r] = Without(r, o.fields)
    OBVIOUS
  <2> HIDE DEF g, cols
  <2>3. DOMAIN g[r] = DOMAIN r \ o.fields /\ \A f \in DOMAIN r \ o.fields : g[r][f] = r[f]
    BY <2>2 DEF Without
  <2> QED BY <1>2, <2>1, <2>3
<1>4. u.rows = {g[r] : r \in t.rows}
  BY <1>1
<1> HIDE DEF u, g, cols, rows
<1>5. ASSUME NEW y \in DOMAIN u.cols
      PROVE  Inherits(ts, us, t, u, g, y)
  <2>1. y \in DOMAIN t.cols \ o.fields /\ u.cols[y] = t.cols[y]
    BY <1>1, <1>2
  <2>2. \A r \in t.rows : g[r][y] = r[y]
    BY <1>3, <2>1
  <2>3. u.cols[y].ref # "" => Keys(us[u.cols[y].ref]) = Keys(ts[t.cols[y].ref])
    BY <2>1 DEF Linked, KeepsKeys
  <2> QED BY <2>1, <2>2, <2>3 DEF Inherits
<1>6. RespectsColumns(us, u)
  <2>1. \A r \in t.rows : DOMAIN g[r] = DOMAIN u.cols
    BY <1>1, <1>3
  <2> QED BY <2>1, <1>4, <1>5, SameColumns
<1>7. RespectsConstraints(u)
  <2>1. \A r \in t.rows : \A f \in DOMAIN t.cols \ o.fields : g[r][f] = r[f]
    BY <1>3
  <2>2. ASSUME NEW n \in DOMAIN t.unique
        PROVE  /\ t.unique[n].fields \subseteq DOMAIN t.cols \ o.fields
               /\ DOMAIN t.unique[n].except \subseteq DOMAIN t.cols \ o.fields
    BY MentionedFields DEF Coherent
  <2>3. ASSUME NEW n \in DOMAIN t.check
        PROVE  t.check[n].fields \subseteq DOMAIN t.cols \ o.fields
    BY MentionedFields DEF Coherent
  <2>4. Retains(u, t, DOMAIN t.cols \ o.fields)
    BY <1>1, <2>2, <2>3 DEF Retains
  <2> QED BY <2>1, <2>4, <1>4, SameConstraints
<1> QED BY <1>6, <1>7 DEF u

LEMMA RenameFieldSound ==
  ASSUME NEW o, NEW ts, NEW us, NEW t, RespectsColumns(ts, t), RespectsConstraints(t),
         IsTable(t), Coherent(t), Linked(t, DOMAIN ts), KeepsKeys(us, ts),
         o.op = "RenameField", o.field \in DOMAIN t.cols, NEW old, NEW new, old = o.field, new = o.to,
         new \notin DOMAIN t.cols
  PROVE  RespectsColumns(us, Altered(o, t)) /\ RespectsConstraints(Altered(o, t))
<1> DEFINE u == Altered(o, t)
           rows == {Renamed(r, old, new) : r \in t.rows}
           unique == [n \in DOMAIN t.unique |->
              [fields |-> Swapped(t.unique[n].fields, old, new),
               except |-> Renamed(t.unique[n].except, old, new)]]
           check == [n \in DOMAIN t.check |->
              [fields |-> Swapped(t.check[n].fields, old, new),
               present |-> {Swapped(p, old, new) : p \in t.check[n].present}]]
           g == [r \in t.rows |-> Renamed(r, old, new)]
<1>1. /\ u.cols = Renamed(t.cols, old, new) /\ u.rows = rows
      /\ u.unique = unique /\ u.check = check
  <2> DEFINE key == IF t.key = old THEN new ELSE t.key
             idx == [n \in DOMAIN t.idx |-> Swapped(t.idx[n], old, new)]
  <2>1. u = Table(key, Renamed(t.cols, old, new), rows, unique, check, idx)
    <3>1. u = RenameIn(t, old, new)
      BY AlteredTable
    <3> QED BY <3>1 DEF RenameIn
  <2> HIDE DEF key, idx, rows, unique, check, u
  <2> QED BY <2>1, Fields
<1>2. /\ \A y : y \in DOMAIN u.cols <=> \E f \in DOMAIN t.cols : y = Moved(f, old, new)
      /\ \A f \in DOMAIN t.cols : u.cols[Moved(f, old, new)] = t.cols[f]
  <2> HIDE DEF u
  <2>1. u.cols = Renamed(t.cols, old, new)
    BY <1>1
  <2>2. \A y : y \in DOMAIN u.cols <=> \E f \in DOMAIN t.cols : y = Moved(f, old, new)
    BY <2>1, MovedDomain
  <2>3. \A f \in DOMAIN t.cols : Renamed(t.cols, old, new)[Moved(f, old, new)] = t.cols[f]
    BY MovedAt
  <2> QED BY <2>1, <2>2, <2>3
<1>3. ASSUME NEW r \in t.rows
      PROVE  /\ DOMAIN g[r] = DOMAIN u.cols
             /\ \A f \in DOMAIN t.cols : g[r][Moved(f, old, new)] = r[f]
  <2>1. DOMAIN r = DOMAIN t.cols
    BY DEF RespectsColumns
  <2>2. g[r] = Renamed(r, old, new)
    OBVIOUS
  <2> HIDE DEF g, u
  <2>3. DOMAIN g[r] = DOMAIN u.cols
    BY <1>1, <2>1, <2>2 DEF Renamed
  <2>4. ASSUME NEW f \in DOMAIN t.cols
        PROVE  Renamed(r, old, new)[Moved(f, old, new)] = r[f]
    BY <2>1, MovedAt
  <2> QED BY <2>2, <2>3, <2>4
<1>4. u.rows = {g[r] : r \in t.rows}
  BY <1>1
<1> HIDE DEF u, g, rows
<1>5. ASSUME NEW y \in DOMAIN u.cols
      PROVE  Inherits(ts, us, t, u, g, y)
  <2>1. PICK f \in DOMAIN t.cols : y = Moved(f, old, new)
    BY <1>2
  <2>2. u.cols[y] = t.cols[f]
    BY <1>2, <2>1
  <2>3. \A r \in t.rows : g[r][y] = r[f]
    BY <1>3, <2>1
  <2>4. u.cols[y].ref # "" => Keys(us[u.cols[y].ref]) = Keys(ts[t.cols[f].ref])
    BY <2>2 DEF Linked, KeepsKeys
  <2> QED BY <2>2, <2>3, <2>4 DEF Inherits
<1>6. RespectsColumns(us, u)
  <2>1. \A r \in t.rows : DOMAIN g[r] = DOMAIN u.cols
    BY <1>3
  <2> QED BY <2>1, <1>4, <1>5, SameColumns
<1>7. ASSUME NEW r \in t.rows, NEW n \in DOMAIN t.unique
      PROVE  Covered(g[r], u.unique[n]) => Covered(r, t.unique[n])
  <2>1. ASSUME NEW f \in DOMAIN t.unique[n].except, Covered(g[r], u.unique[n])
        PROVE  r[f] \notin t.unique[n].except[f]
    <3> DEFINE e == t.unique[n].except
               y == Moved(f, old, new)
    <3>1. new \notin DOMAIN e /\ f \in DOMAIN t.cols
      BY DEF Coherent
    <3>2. u.unique[n].except = Renamed(e, old, new)
      BY <1>1
    <3>3. y \in DOMAIN Renamed(e, old, new) /\ Renamed(e, old, new)[y] = e[f]
      BY <3>1, MovedAt
    <3>4. g[r][y] = r[f]
      BY <1>3, <3>1
    <3> HIDE DEF y, e
    <3>5. g[r][y] \notin Renamed(e, old, new)[y]
      BY <2>1, <3>2, <3>3 DEF Covered
    <3> QED BY <3>3, <3>4, <3>5 DEF e
  <2> QED BY <2>1 DEF Covered
<1>8. ASSUME NEW r \in t.rows, NEW s \in t.rows, NEW n \in DOMAIN t.unique
      PROVE  Collide(g[r], g[s], u.unique[n].fields) => Collide(r, s, t.unique[n].fields)
  <2>1. u.unique[n].fields = Swapped(t.unique[n].fields, old, new)
    BY <1>1
  <2>2. ASSUME NEW f \in t.unique[n].fields
        PROVE  /\ Moved(f, old, new) \in u.unique[n].fields
               /\ g[r][Moved(f, old, new)] = r[f] /\ g[s][Moved(f, old, new)] = s[f]
    <3>1. f \in DOMAIN t.cols
      BY DEF Coherent
    <3> QED BY <2>1, <3>1, <1>3, SwappedIn
  <2> QED BY <2>2 DEF Collide
<1>9. ASSUME NEW r \in t.rows, NEW n \in DOMAIN t.check
      PROVE  {f \in u.check[n].fields : g[r][f] # None} \in u.check[n].present
  <2> DEFINE p == {f \in t.check[n].fields : r[f] # None}
             q == {f \in u.check[n].fields : g[r][f] # None}
  <2>1. p \in t.check[n].present
    BY DEF RespectsConstraints
  <2>2. /\ u.check[n].fields = Swapped(t.check[n].fields, old, new)
        /\ u.check[n].present = {Swapped(x, old, new) : x \in t.check[n].present}
    BY <1>1
  <2>3. \A y : y \in q <=> \E f \in p : y = Moved(f, old, new)
    <3>1. \A f \in t.check[n].fields : g[r][Moved(f, old, new)] = r[f]
      BY <1>3 DEF Coherent
    <3>2. \A y : y \in u.check[n].fields <=> \E f \in t.check[n].fields : y = Moved(f, old, new)
      BY <2>2, SwappedIn
    <3> QED BY <3>1, <3>2
  <2>4. \A y : y \in Swapped(p, old, new) <=> \E f \in p : y = Moved(f, old, new)
    BY SwappedIn
  <2> HIDE DEF p, q
  <2>5. q = Swapped(p, old, new)
    BY <2>3, <2>4
  <2>6. q \in u.check[n].present
    BY <2>1, <2>2, <2>5
  <2> QED BY <2>6 DEF q
<1>10. RespectsConstraints(u)
  <2>1. DOMAIN u.unique = DOMAIN t.unique /\ DOMAIN u.check = DOMAIN t.check
    BY <1>1
  <2> HIDE DEF unique, check
  <2>2. ASSUME NEW p \in u.rows, NEW n \in DOMAIN u.unique, Covered(p, u.unique[n]),
               NEW q \in u.rows \ {p}, Covered(q, u.unique[n])
        PROVE  ~Collide(p, q, u.unique[n].fields)
    <3>1. PICK r \in t.rows : p = g[r]
      BY <1>4
    <3>2. PICK s \in t.rows : q = g[s]
      BY <1>4
    <3>3. r # s /\ n \in DOMAIN t.unique
      BY <2>1, <3>1, <3>2
    <3>4. Covered(r, t.unique[n]) /\ Covered(s, t.unique[n])
      BY <1>7, <2>2, <3>1, <3>2, <3>3
    <3>5. ~Collide(r, s, t.unique[n].fields)
      BY <3>3, <3>4 DEF RespectsConstraints
    <3> QED BY <1>8, <3>1, <3>2, <3>3, <3>5
  <2>3. ASSUME NEW p \in u.rows, NEW n \in DOMAIN u.check
        PROVE  {f \in u.check[n].fields : p[f] # None} \in u.check[n].present
    <3>1. PICK r \in t.rows : p = g[r]
      BY <1>4
    <3> QED BY <1>9, <2>1, <3>1
  <2> QED BY <2>2, <2>3 DEF RespectsConstraints
<1> QED BY <1>6, <1>10 DEF u

LEMMA ConstraintsSound ==
  ASSUME NEW o, NEW ts, NEW us, NEW t, RespectsColumns(ts, t), RespectsConstraints(t),
         IsTable(t), Coherent(t), Linked(t, DOMAIN ts), KeepsKeys(us, ts),
         o.op \in {"AlterType", "AddIndex", "RemoveIndex", "RenameIndex", "RemoveConstraint",
                   "AlterUniqueTogether"},
         ~MayRefuse(o, ts)
  PROVE  RespectsColumns(us, Altered(o, t)) /\ RespectsConstraints(Altered(o, t))
<1> DEFINE u == Altered(o, t)
           g == [r \in t.rows |-> r]
<1>1. /\ u.cols = t.cols /\ u.rows = t.rows
      /\ \A n \in DOMAIN u.unique : n \in DOMAIN t.unique /\ u.unique[n] = t.unique[n]
      /\ \A n \in DOMAIN u.check : n \in DOMAIN t.check /\ u.check[n] = t.check[n]
  <2>1. CASE o.op = "AlterType"
    BY <2>1 DEF Altered
  <2>2. CASE o.op \in {"AddIndex", "RemoveIndex", "RenameIndex"}
    <3>1. PICK idx : u = Table(t.key, t.cols, t.rows, t.unique, t.check, idx)
      BY <2>2, AlteredTable
    <3> HIDE DEF u
    <3>2. u.cols = t.cols /\ u.rows = t.rows /\ u.unique = t.unique /\ u.check = t.check
      BY <3>1, Fields
    <3> QED BY <3>2
  <2>3. CASE o.op = "RemoveConstraint"
    <3> DEFINE unique == Without(t.unique, {o.name})
               check == Without(t.check, {o.name})
    <3>1. u = Table(t.key, t.cols, t.rows, unique, check, t.idx)
      BY <2>3, AlteredTable
    <3>2. /\ \A n \in DOMAIN unique : n \in DOMAIN t.unique /\ unique[n] = t.unique[n]
          /\ \A n \in DOMAIN check : n \in DOMAIN t.check /\ check[n] = t.check[n]
      BY DEF Without
    <3> HIDE DEF u, unique, check
    <3>3. u.cols = t.cols /\ u.rows = t.rows /\ u.unique = unique /\ u.check = check
      BY <3>1, Fields
    <3> QED BY <3>2, <3>3
  <2>4. CASE o.op = "AlterUniqueTogether"
    <3>1. o.fields = {}
      BY <2>4 DEF MayRefuse
    <3> DEFINE unique == Without(t.unique, {"together"})
    <3>2. u = Table(t.key, t.cols, t.rows, unique, t.check, t.idx)
      BY <2>4, <3>1, AlteredTable
    <3>3. \A n \in DOMAIN unique : n \in DOMAIN t.unique /\ unique[n] = t.unique[n]
      BY DEF Without
    <3> HIDE DEF u, unique
    <3>4. u.cols = t.cols /\ u.rows = t.rows /\ u.unique = unique /\ u.check = t.check
      BY <3>2, Fields
    <3> QED BY <3>3, <3>4
  <2> QED BY <2>1, <2>2, <2>3, <2>4
<1>2. \A r \in t.rows : g[r] = r
  OBVIOUS
<1> HIDE DEF u, g
<1>3. u.rows = {g[r] : r \in t.rows}
  BY <1>1, <1>2
<1>4. ASSUME NEW y \in DOMAIN u.cols
      PROVE  Inherits(ts, us, t, u, g, y)
  <2>1. u.cols[y].ref # "" => Keys(us[u.cols[y].ref]) = Keys(ts[t.cols[y].ref])
    BY <1>1 DEF Linked, KeepsKeys
  <2> QED BY <1>1, <1>2, <2>1 DEF Inherits
<1>5. RespectsColumns(us, u)
  <2>1. \A r \in t.rows : DOMAIN g[r] = DOMAIN u.cols
    BY <1>1, <1>2 DEF RespectsColumns
  <2> QED BY <2>1, <1>3, <1>4, SameColumns
<1>6. RespectsConstraints(u)
  <2>1. Retains(u, t, DOMAIN t.cols)
    BY <1>1 DEF Retains, Coherent
  <2>2. \A r \in t.rows : \A f \in DOMAIN t.cols : g[r][f] = r[f]
    BY <1>2
  <2> QED BY <2>1, <2>2, <1>3, SameConstraints
<1> QED BY <1>5, <1>6 DEF u

\* No row of a sound table stops an operation that asks nothing new.
LEMMA LocalSound ==
  ASSUME NEW o, NEW ts, NEW us, NEW t, Tabular(ts), WellFormed(ts), Possible(o, ts), o.op \in Local,
         t = ts[o.model], Sound(ts, o.model), KeepsKeys(us, ts), ~MayRefuse(o, ts)
  PROVE  RespectsColumns(us, Altered(o, t)) /\ RespectsConstraints(Altered(o, t))
<1>1. o.model \in DOMAIN ts
  BY Asked, AskedOfConstraints DEF Local
<1>2. /\ IsTable(t) /\ Coherent(t) /\ Linked(t, DOMAIN ts)
      /\ RespectsColumns(ts, t) /\ RespectsConstraints(t)
  BY <1>1 DEF Tabular, WellFormed, Sound
<1>3. CASE o.op = "AddField"
  <2>1. DOMAIN o.cols \cap DOMAIN t.cols = {}
    BY <1>3, Asked
  <2> QED BY <1>2, <1>3, <2>1, AddFieldSound
<1>4. CASE o.op = "AlterField"
  <2>1. DOMAIN o.cols \subseteq DOMAIN t.cols
    BY <1>4, Asked
  <2>2. \A f \in DOMAIN o.cols : ~Tightens(t.cols[f], o.cols[f])
    BY <1>4 DEF MayRefuse
  <2> QED BY <1>2, <1>4, <2>1, <2>2, AlterFieldSound
<1>5. CASE o.op = "RemoveField"
  <2>1. o.fields \cap Mentioned(t) = {}
    BY <1>5, Asked
  <2> QED BY <1>2, <1>5, <2>1, RemoveFieldSound
<1>6. CASE o.op = "RenameField"
  <2>1. o.field \in DOMAIN t.cols /\ o.to \notin DOMAIN t.cols
    BY <1>6, Asked
  <2> QED BY <1>2, <1>6, <2>1, RenameFieldSound
<1>7. CASE o.op \in {"AlterType", "AddIndex", "RemoveIndex", "RenameIndex", "RemoveConstraint",
                     "AlterUniqueTogether"}
  BY <1>2, <1>7, ConstraintsSound
<1>8. o.op \notin {"AddUnique", "AddCheck"}
  BY DEF MayRefuse
<1> QED BY <1>3, <1>4, <1>5, <1>6, <1>7, <1>8 DEF Local

----------------------------------------------------------------------------
(* What an operation leaves of all tables.                                     *)
Leaves(o, ts, us, left) ==
    /\ Tabular(us) /\ WellFormed(us)
    /\ \A n \in DOMAIN us \ {left} : Sound(us, n)
    /\ ~MayRefuse(o, ts) /\ left \in DOMAIN us => Sound(us, left)

LEMMA LocalLeaves ==
  ASSUME NEW o, NEW ts, Tabular(ts), WellFormed(ts), AllSound(ts), Possible(o, ts), o.op \in Local
  PROVE  Leaves(o, ts, Outcome(o, ts), o.model)
<1> DEFINE m == o.model
           t == ts[m]
           u == Altered(o, t)
           us == [ts EXCEPT ![m] = u]
<1>1. m \in DOMAIN ts
  BY Asked, AskedOfConstraints DEF Local
<1>2. Sound(ts, m) /\ Aligned(t)
  BY <1>1 DEF AllSound, Sound, Aligned, RespectsColumns
<1>3. Replaces(u, t, DOMAIN ts)
  <2>1. PICK x : x = ts[o.model]
    OBVIOUS
  <2>2. Replaces(Altered(o, x), x, DOMAIN ts)
    BY <1>2, <2>1, LocalReplaces
  <2> QED BY <2>1, <2>2
<1>4. Outcome(o, ts) = us
  BY LocalOutcome
<1> HIDE DEF u
<1>5. /\ Tabular(us) /\ DOMAIN us = DOMAIN ts /\ us[m] = u
      /\ \A n \in DOMAIN ts \ {m} : us[n] = ts[n]
  BY <1>1, <1>3, Replaced DEF Replaces
<1> HIDE DEF us
<1>6. WellFormed(us)
  BY <1>1, <1>3, <1>5 DEF WellFormed, Replaces
<1>7. KeepsKeys(us, ts)
  BY <1>1, <1>3, <1>5 DEF KeepsKeys, Replaces
<1>8. ASSUME NEW n \in DOMAIN ts \ {m}
      PROVE  Sound(us, n)
  <2>1. us[n] = ts[n] /\ Sound(ts, n)
    BY <1>5 DEF AllSound
  <2>2. Linked(ts[n], DOMAIN ts)
    BY DEF WellFormed
  <2>3. \A f \in DOMAIN ts[n].cols :
            ts[n].cols[f].ref # "" => Keys(us[ts[n].cols[f].ref]) = Keys(ts[ts[n].cols[f].ref])
    BY <1>7, <2>2 DEF Linked, KeepsKeys
  <2> QED BY <2>1, <2>3, SoundElsewhere
<1>9. ~MayRefuse(o, ts) => Sound(us, m)
  <2>1. PICK x : x = ts[o.model]
    OBVIOUS
  <2>2. ~MayRefuse(o, ts) => RespectsColumns(us, Altered(o, x)) /\ RespectsConstraints(Altered(o, x))
    BY <1>2, <1>7, <2>1, LocalSound
  <2>3. us[m] = Altered(o, x)
    BY <1>5, <2>1 DEF u
  <2> QED BY <2>2, <2>3 DEF Sound
<1> QED BY <1>4, <1>5, <1>6, <1>8, <1>9 DEF Leaves

LEMMA CreateLeaves ==
  ASSUME NEW o, NEW ts, Tabular(ts), WellFormed(ts), AllSound(ts), Possible(o, ts), o.op = "CreateModel"
  PROVE  Leaves(o, ts, Outcome(o, ts), o.model)
<1> DEFINE m == o.model
           u == Table(o.key, o.cols, {}, Empty, Empty, Empty)
           us == ts @@ (m :> u)
<1>1. m \notin DOMAIN ts /\ m # "" /\ o.key \in DOMAIN o.cols /\ Targets(o.cols) \subseteq (DOMAIN ts) \union {m}
  BY AskedOfTables
<1>2. Outcome(o, ts) = us
  BY DEF Outcome
<1>3. /\ IsTable(u) /\ u.key = o.key /\ u.cols = o.cols /\ u.rows = {}
      /\ u.unique = Empty /\ u.check = Empty
  BY Fields
<1> HIDE DEF u
<1>4. /\ us = [n \in (DOMAIN ts) \union {m} |-> IF n \in DOMAIN ts THEN ts[n] ELSE u]
      /\ DOMAIN us = (DOMAIN ts) \union {m}
  BY DEF @@, :>
<1>5. us[m] = u /\ \A n \in DOMAIN ts : us[n] = ts[n]
  BY <1>1, <1>4
<1> HIDE DEF us
<1>6. Tabular(us)
  <2>1. us = [n \in DOMAIN us |-> us[n]]
    BY <1>4
  <2> QED BY <1>3, <1>4, <1>5, <2>1 DEF Tabular
<1>7. WellFormed(us)
  <2>1. Coherent(u)
    BY <1>1, <1>3 DEF Coherent, Empty
  <2>2. Linked(u, DOMAIN us)
    BY <1>1, <1>3, <1>4 DEF Linked, Targets
  <2>3. \A n \in DOMAIN ts : Coherent(us[n]) /\ Linked(us[n], DOMAIN us)
    BY <1>4, <1>5 DEF WellFormed, Linked
  <2> QED BY <1>1, <1>4, <1>5, <2>1, <2>2, <2>3 DEF WellFormed
<1>8. ASSUME NEW n \in DOMAIN ts
      PROVE  Sound(us, n)
  <2>1. us[n] = ts[n] /\ Sound(ts, n)
    BY <1>5 DEF AllSound
  <2>2. Linked(ts[n], DOMAIN ts)
    BY DEF WellFormed
  <2>3. \A f \in DOMAIN ts[n].cols :
            ts[n].cols[f].ref # "" => Keys(us[ts[n].cols[f].ref]) = Keys(ts[ts[n].cols[f].ref])
    BY <1>5, <2>2 DEF Linked
  <2> QED BY <2>1, <2>3, SoundElsewhere
<1>9. Sound(us, m)
  BY <1>3, <1>5 DEF Sound, RespectsColumns, RespectsConstraints
<1> QED BY <1>2, <1>4, <1>6, <1>7, <1>8, <1>9 DEF Leaves

LEMMA DeleteLeaves ==
  ASSUME NEW o, NEW ts, Tabular(ts), WellFormed(ts), AllSound(ts), Possible(o, ts), o.op = "DeleteModel"
  PROVE  Leaves(o, ts, Outcome(o, ts), o.model)
<1> DEFINE m == o.model
           us == Without(ts, {m})
<1>1. m \in DOMAIN ts /\ \A n \in DOMAIN ts \ {m} : m \notin Targets(ts[n].cols)
  BY AskedOfTables
<1>2. Outcome(o, ts) = us
  BY DEF Outcome
<1>3. /\ us = [n \in DOMAIN ts \ {m} |-> ts[n]]
      /\ DOMAIN us = DOMAIN ts \ {m}
      /\ \A n \in DOMAIN ts \ {m} : us[n] = ts[n]
  BY DEF Without
<1> HIDE DEF us
<1>4. Tabular(us)
  <2>1. us = [n \in DOMAIN us |-> us[n]]
    BY <1>3
  <2> QED BY <1>3, <2>1 DEF Tabular
<1>5. ASSUME NEW n \in DOMAIN ts \ {m}
      PROVE  Linked(ts[n], DOMAIN us)
  BY <1>1, <1>3 DEF WellFormed, Linked, Targets
<1>6. WellFormed(us)
  BY <1>3, <1>5 DEF WellFormed
<1>7. ASSUME NEW n \in DOMAIN us
      PROVE  Sound(us, n)
  <2>1. us[n] = ts[n] /\ Sound(ts, n)
    BY <1>3 DEF AllSound
  <2>2. \A f \in DOMAIN ts[n].cols :
            ts[n].cols[f].ref # "" => Keys(us[ts[n].cols[f].ref]) = Keys(ts[ts[n].cols[f].ref])
    BY <1>3, <1>5 DEF Linked
  <2> QED BY <2>1, <2>2, SoundElsewhere
<1> QED BY <1>2, <1>3, <1>4, <1>6, <1>7 DEF Leaves

LEMMA Redirected ==
  ASSUME NEW t, NEW old, NEW new, NEW u, u = Redirect(t, old, new)
  PROVE  /\ IsTable(u) /\ u.key = t.key /\ u.rows = t.rows /\ u.unique = t.unique /\ u.check = t.check
         /\ DOMAIN u.cols = DOMAIN t.cols
         /\ \A f \in DOMAIN t.cols :
               /\ u.cols[f].null = t.cols[f].null /\ u.cols[f].unique = t.cols[f].unique
               /\ u.cols[f].ref = Moved(t.cols[f].ref, old, new)
<1> DEFINE cols == [f \in DOMAIN t.cols |->
                      ColumnOf(t.cols[f].null, t.cols[f].unique,
                               IF t.cols[f].ref = old THEN new ELSE t.cols[f].ref)]
<1>1. u = Table(t.key, cols, t.rows, t.unique, t.check, t.idx)
  BY DEF Redirect
<1>2. /\ DOMAIN cols = DOMAIN t.cols
      /\ \A f \in DOMAIN t.cols :
               /\ cols[f].null = t.cols[f].null /\ cols[f].unique = t.cols[f].unique
               /\ cols[f].ref = Moved(t.cols[f].ref, old, new)
  BY DEF ColumnOf, Moved
<1> HIDE DEF cols
<1>3. /\ IsTable(u) /\ u.key = t.key /\ u.cols = cols /\ u.rows = t.rows
      /\ u.unique = t.unique /\ u.check = t.check
  BY <1>1, Fields
<1> QED BY <1>2, <1>3

LEMMA RenameLeaves ==
  ASSUME NEW o, NEW ts, Tabular(ts), WellFormed(ts), AllSound(ts), Possible(o, ts), o.op = "RenameModel"
  PROVE  Leaves(o, ts, Outcome(o, ts), o.to)
<1>0. PICK old, new : old = o.model /\ new = o.to
  OBVIOUS
<1> DEFINE us == [m \in Swapped(DOMAIN ts, old, new) |-> Redirect(Renamed(ts, old, new)[m], old, new)]
<1>1. old \in DOMAIN ts /\ old # "" /\ new \notin DOMAIN ts /\ new # ""
  BY <1>0, AskedOfTables DEF WellFormed
<1>2. Outcome(o, ts) = us
  BY <1>0 DEF Outcome
<1>3. \A y : y \in DOMAIN us <=> \E n \in DOMAIN ts : y = Moved(n, old, new)
  BY SwappedIn
<1>4. ASSUME NEW n \in DOMAIN ts
      PROVE  us[Moved(n, old, new)] = Redirect(ts[n], old, new)
  <2>1. PICK y : y = Moved(n, old, new) /\ y \in Swapped(DOMAIN ts, old, new)
    BY SwappedIn
  <2>2. Renamed(ts, old, new)[y] = ts[n]
    BY <1>1, <2>1 DEF Renamed, Moved
  <2>3. us[y] = Redirect(Renamed(ts, old, new)[y], old, new)
    BY <2>1
  <2> QED BY <2>1, <2>2, <2>3
<1>5. us = [m \in DOMAIN us |-> us[m]]
  OBVIOUS
<1> HIDE DEF us
<1>6. ASSUME NEW n \in DOMAIN ts
      PROVE  Keys(us[Moved(n, old, new)]) = Keys(ts[n])
  BY <1>4, Redirected DEF Keys
<1>7. Tabular(us)
  <2>1. ASSUME NEW y \in DOMAIN us
        PROVE  IsTable(us[y])
    <3>1. PICK n \in DOMAIN ts : y = Moved(n, old, new)
      BY <1>3
    <3>2. us[y] = Redirect(ts[n], old, new)
      BY <3>1, <1>4
    <3> QED BY <3>2, Redirected
  <2> QED BY <1>5, <2>1 DEF Tabular
<1>8. ASSUME NEW n \in DOMAIN ts, NEW f \in DOMAIN ts[n].cols
      PROVE  \/ ts[n].cols[f].ref = "" /\ Moved(ts[n].cols[f].ref, old, new) = ""
             \/ ts[n].cols[f].ref \in DOMAIN ts /\ Moved(ts[n].cols[f].ref, old, new) \in DOMAIN us
  <2>1. ts[n].cols[f].ref = "" \/ ts[n].cols[f].ref \in DOMAIN ts
    BY DEF WellFormed, Linked
  <2> QED BY <2>1, <1>1, <1>3 DEF Moved
<1>9. WellFormed(us)
  <2>1. "" \notin DOMAIN us
    BY <1>1, <1>3 DEF Moved, WellFormed
  <2>2. ASSUME NEW y \in DOMAIN us
        PROVE  Coherent(us[y]) /\ Linked(us[y], DOMAIN us)
    <3>1. PICK n \in DOMAIN ts : y = Moved(n, old, new)
      BY <1>3
    <3>2. us[y] = Redirect(ts[n], old, new)
      BY <3>1, <1>4
    <3>3. Coherent(us[y])
      <4>1. Coherent(ts[n])
        BY DEF WellFormed
      <4>2. /\ us[y].key = ts[n].key /\ us[y].unique = ts[n].unique /\ us[y].check = ts[n].check
            /\ DOMAIN us[y].cols = DOMAIN ts[n].cols
        BY <3>2, Redirected
      <4> QED BY <4>1, <4>2 DEF Coherent
    <3>4. /\ DOMAIN us[y].cols = DOMAIN ts[n].cols
          /\ \A f \in DOMAIN ts[n].cols : us[y].cols[f].ref = Moved(ts[n].cols[f].ref, old, new)
      BY <3>2, Redirected
    <3>5. Linked(us[y], DOMAIN us)
      BY <3>4, <1>8 DEF Linked
    <3> QED BY <3>3, <3>5
  <2> QED BY <2>1, <2>2 DEF WellFormed
<1>10. ASSUME NEW y \in DOMAIN us
       PROVE  Sound(us, y)
  <2>1. PICK n \in DOMAIN ts : y = Moved(n, old, new)
    BY <1>3
  <2> DEFINE t == ts[n]
             u == us[y]
  <2>2. u = Redirect(t, old, new)
    BY <2>1, <1>4
  <2>3. RespectsColumns(ts, t) /\ RespectsConstraints(t)
    BY DEF AllSound, Sound
  <2> HIDE DEF u, t
  <2>4. /\ u.rows = t.rows /\ u.unique = t.unique /\ u.check = t.check
        /\ DOMAIN u.cols = DOMAIN t.cols
        /\ \A f \in DOMAIN t.cols :
               /\ u.cols[f].null = t.cols[f].null /\ u.cols[f].unique = t.cols[f].unique
               /\ u.cols[f].ref = Moved(t.cols[f].ref, old, new)
    BY <2>2, Redirected
  <2>5. ASSUME NEW f \in DOMAIN t.cols, u.cols[f].ref # ""
        PROVE  t.cols[f].ref # "" /\ Keys(us[u.cols[f].ref]) = Keys(ts[t.cols[f].ref])
    <3>1. u.cols[f].ref = Moved(t.cols[f].ref, old, new)
      BY <2>4
    <3>2. t.cols[f].ref \in DOMAIN ts /\ t.cols[f].ref # ""
      BY <1>8, <2>5, <3>1 DEF t, WellFormed
    <3> QED BY <3>1, <3>2, <1>6
  <2>6. RespectsColumns(us, u)
    BY <2>3, <2>4, <2>5 DEF RespectsColumns
  <2>7. RespectsConstraints(u)
    BY <2>3, <2>4 DEF RespectsConstraints
  <2> QED BY <2>6, <2>7 DEF Sound, u
<1> QED BY <1>2, <1>7, <1>9, <1>10 DEF Leaves

----------------------------------------------------------------------------
(* The schema after an operation is what the operation makes of the schema.    *)
LEMMA BareOf ==
  ASSUME NEW k, NEW c, NEW r, NEW u, NEW h, NEW i
  PROVE  Bare(Table(k, c, r, u, h, i)) = Table(k, c, {}, u, h, i)
BY DEF Bare, Table

LEMMA BareFields ==
  ASSUME NEW t, IsTable(t), NEW b, b = Bare(t)
  PROVE  /\ IsTable(b) /\ b.key = t.key /\ b.cols = t.cols /\ b.rows = {} /\ b.unique = t.unique
         /\ b.check = t.check /\ b.idx = t.idx
<1>1. b = Table(t.key, t.cols, {}, t.unique, t.check, t.idx)
  BY BareTable
<1> QED BY <1>1, Fields

LEMMA BareAltered ==
  ASSUME NEW o, NEW t, IsTable(t), o.op \in Local, NEW b, b = Bare(t)
  PROVE  Bare(Altered(o, t)) = Altered(o, b)
<1>1. /\ IsTable(b) /\ b.key = t.key /\ b.cols = t.cols /\ b.rows = {} /\ b.unique = t.unique
      /\ b.check = t.check /\ b.idx = t.idx
  BY BareFields
<1>2. CASE o.op = "AddField"
  <2>1. Altered(o, t) = Table(t.key, t.cols @@ o.cols,
            {r @@ [f \in DOMAIN o.cols |-> o.value] : r \in t.rows}, t.unique, t.check, t.idx)
    BY <1>2, AlteredTable
  <2>2. Altered(o, b) = Table(b.key, b.cols @@ o.cols,
            {r @@ [f \in DOMAIN o.cols |-> o.value] : r \in b.rows}, b.unique, b.check, b.idx)
    BY <1>1, <1>2, AlteredTable
  <2>3. {r @@ [f \in DOMAIN o.cols |-> o.value] : r \in b.rows} = {}
    BY <1>1
  <2> QED BY <1>1, <2>1, <2>2, <2>3, BareOf
<1>3. CASE o.op = "RemoveField"
  <2>1. Altered(o, t) = Table(t.key, Without(t.cols, o.fields),
            {Without(r, o.fields) : r \in t.rows}, t.unique, t.check, t.idx)
    BY <1>3, AlteredTable
  <2>2. Altered(o, b) = Table(b.key, Without(b.cols, o.fields),
            {Without(r, o.fields) : r \in b.rows}, b.unique, b.check, b.idx)
    BY <1>1, <1>3, AlteredTable
  <2>3. {Without(r, o.fields) : r \in b.rows} = {}
    BY <1>1
  <2> QED BY <1>1, <2>1, <2>2, <2>3, BareOf
<1>4. CASE o.op = "RenameField"
  <2>0. PICK old, new : old = o.field /\ new = o.to
    OBVIOUS
  <2> DEFINE key == IF t.key = old THEN new ELSE t.key
             cols == Renamed(t.cols, old, new)
             rows == {Renamed(r, old, new) : r \in t.rows}
             none == {Renamed(r, old, new) : r \in b.rows}
             unique == [n \in DOMAIN t.unique |->
                [fields |-> Swapped(t.unique[n].fields, old, new),
                 except |-> Renamed(t.unique[n].except, old, new)]]
             check == [n \in DOMAIN t.check |->
                [fields |-> Swapped(t.check[n].fields, old, new),
                 present |-> {Swapped(p, old, new) : p \in t.check[n].present}]]
             idx == [n \in DOMAIN t.idx |-> Swapped(t.idx[n], old, new)]
  <2>1. Altered(o, t) = RenameIn(t, old, new) /\ Altered(o, b) = RenameIn(b, old, new)
    BY <1>1, <1>4, <2>0, AlteredTable
  <2>2. RenameIn(t, old, new) = Table(key, cols, rows, unique, check, idx)
    BY DEF RenameIn
  <2>3. RenameIn(b, old, new) = Table(key, cols, none, unique, check, idx)
    BY <1>1 DEF RenameIn
  <2>4. none = {}
    BY <1>1
  <2> HIDE DEF key, cols, rows, none, unique, check, idx
  <2> QED BY <2>1, <2>2, <2>3, <2>4, BareOf
<1>5. CASE o.op = "AlterType"
  BY <1>5 DEF Altered
<1>6. CASE o.op = "AlterField"
  <2>1. Altered(o, t) = Table(t.key, o.cols @@ t.cols, t.rows,
            t.unique,
            t.check, t.idx)
    BY <1>6, AlteredTable
  <2>2. Altered(o, b) = Table(b.key, o.cols @@ b.cols, b.rows,
            b.unique,
            b.check, b.idx)
    BY <1>1, <1>6, AlteredTable
  <2> QED BY <1>1, <2>1, <2>2, BareOf
<1>7. CASE o.op = "AddIndex"
  <2>1. Altered(o, t) = Table(t.key, t.cols, t.rows,
            t.unique,
            t.check, t.idx @@ (o.name :> o.fields))
    BY <1>7, AlteredTable
  <2>2. Altered(o, b) = Table(b.key, b.cols, b.rows,
            b.unique,
            b.check, b.idx @@ (o.name :> o.fields))
    BY <1>1, <1>7, AlteredTable
  <2> QED BY <1>1, <2>1, <2>2, BareOf
<1>8. CASE o.op = "RemoveIndex"
  <2>1. Altered(o, t) = Table(t.key, t.cols, t.rows,
            t.unique,
            t.check, Without(t.idx, {o.name}))
    BY <1>8, AlteredTable
  <2>2. Altered(o, b) = Table(b.key, b.cols, b.rows,
            b.unique,
            b.check, Without(b.idx, {o.name}))
    BY <1>1, <1>8, AlteredTable
  <2> QED BY <1>1, <2>1, <2>2, BareOf
<1>9. CASE o.op = "RenameIndex"
  <2>1. Altered(o, t) = Table(t.key, t.cols, t.rows,
            t.unique,
            t.check, Renamed(t.idx, o.name, o.to))
    BY <1>9, AlteredTable
  <2>2. Altered(o, b) = Table(b.key, b.cols, b.rows,
            b.unique,
            b.check, Renamed(b.idx, o.name, o.to))
    BY <1>1, <1>9, AlteredTable
  <2> QED BY <1>1, <2>1, <2>2, BareOf
<1>10. CASE o.op = "RemoveConstraint"
  <2>1. Altered(o, t) = Table(t.key, t.cols, t.rows,
            Without(t.unique, {o.name}),
            Without(t.check, {o.name}), t.idx)
    BY <1>10, AlteredTable
  <2>2. Altered(o, b) = Table(b.key, b.cols, b.rows,
            Without(b.unique, {o.name}),
            Without(b.check, {o.name}), b.idx)
    BY <1>1, <1>10, AlteredTable
  <2> QED BY <1>1, <2>1, <2>2, BareOf
<1>11. CASE o.op = "AddUnique"
  <2>1. Altered(o, t) = Table(t.key, t.cols, t.rows,
            t.unique @@ (o.name :> [fields |-> o.fields, except |-> o.except]),
            t.check, t.idx)
    BY <1>11, AlteredTable
  <2>2. Altered(o, b) = Table(b.key, b.cols, b.rows,
            b.unique @@ (o.name :> [fields |-> o.fields, except |-> o.except]),
            b.check, b.idx)
    BY <1>1, <1>11, AlteredTable
  <2> QED BY <1>1, <2>1, <2>2, BareOf
<1>12. CASE o.op = "AddCheck"
  <2>1. Altered(o, t) = Table(t.key, t.cols, t.rows,
            t.unique,
            t.check @@ (o.name :> [fields |-> o.fields, present |-> o.present]), t.idx)
    BY <1>12, AlteredTable
  <2>2. Altered(o, b) = Table(b.key, b.cols, b.rows,
            b.unique,
            b.check @@ (o.name :> [fields |-> o.fields, present |-> o.present]), b.idx)
    BY <1>1, <1>12, AlteredTable
  <2> QED BY <1>1, <2>1, <2>2, BareOf
<1>13. CASE o.op = "AlterUniqueTogether"
  <2>1. Altered(o, t) = Table(t.key, t.cols, t.rows,
            IF o.fields = {} THEN Without(t.unique, {"together"})
            ELSE ("together" :> [fields |-> o.fields, except |-> Always]) @@ t.unique,
            t.check, t.idx)
    BY <1>13, AlteredTable
  <2>2. Altered(o, b) = Table(b.key, b.cols, b.rows,
            IF o.fields = {} THEN Without(b.unique, {"together"})
            ELSE ("together" :> [fields |-> o.fields, except |-> Always]) @@ b.unique,
            b.check, b.idx)
    BY <1>1, <1>13, AlteredTable
  <2> QED BY <1>1, <2>1, <2>2, BareOf
<1> QED
  BY <1>2, <1>3, <1>4, <1>5, <1>6, <1>7, <1>8, <1>9, <1>10, <1>11, <1>12, <1>13 DEF Local

LEMMA SchemaFacts ==
  ASSUME NEW ts, Tabular(ts), NEW s, s = Schema(ts)
  PROVE  /\ DOMAIN s = DOMAIN ts /\ s = [m \in DOMAIN ts |-> s[m]] /\ Tabular(s)
         /\ \A m \in DOMAIN ts :
               /\ s[m] = Bare(ts[m]) /\ IsTable(ts[m]) /\ IsTable(s[m])
               /\ s[m].key = ts[m].key /\ s[m].cols = ts[m].cols /\ s[m].rows = {}
               /\ s[m].unique = ts[m].unique /\ s[m].check = ts[m].check /\ s[m].idx = ts[m].idx
<1>1. /\ DOMAIN s = DOMAIN ts /\ s = [m \in DOMAIN ts |-> s[m]]
      /\ \A m \in DOMAIN ts : s[m] = Bare(ts[m])
  BY DEF Schema
<1>2. ASSUME NEW m \in DOMAIN ts
      PROVE  /\ s[m] = Bare(ts[m]) /\ IsTable(ts[m]) /\ IsTable(s[m])
             /\ s[m].key = ts[m].key /\ s[m].cols = ts[m].cols /\ s[m].rows = {}
             /\ s[m].unique = ts[m].unique /\ s[m].check = ts[m].check /\ s[m].idx = ts[m].idx
  <2>1. IsTable(ts[m])
    BY DEF Tabular
  <2> QED BY <1>1, <2>1, BareFields
<1> QED BY <1>1, <1>2 DEF Tabular

LEMMA WellFormedSchema ==
  ASSUME NEW ts, Tabular(ts)
  PROVE  WellFormed(Schema(ts)) <=> WellFormed(ts)
<1>1. PICK s : s = Schema(ts)
  OBVIOUS
<1>2. /\ DOMAIN s = DOMAIN ts
      /\ \A m \in DOMAIN ts :
               /\ s[m].key = ts[m].key /\ s[m].cols = ts[m].cols
               /\ s[m].unique = ts[m].unique /\ s[m].check = ts[m].check
  BY <1>1, SchemaFacts
<1>3. \A m \in DOMAIN ts : /\ Coherent(s[m]) <=> Coherent(ts[m])
                           /\ Linked(s[m], DOMAIN s) <=> Linked(ts[m], DOMAIN ts)
  BY <1>2 DEF Coherent, Linked
<1> QED BY <1>1, <1>2, <1>3 DEF WellFormed

\* The rows only matter to an operation that they can stop.
LEMMA SamePossible ==
  ASSUME NEW o, NEW ts, Tabular(ts), NEW s, s = Schema(ts)
  PROVE  /\ Possible(o, ts) => Possible(o, s)
         /\ Possible(o, s) /\ (o.op = "AlterType" => ~MayRefuse(o, s)) => Possible(o, ts)
<1>1. /\ DOMAIN s = DOMAIN ts
      /\ \A m \in DOMAIN ts :
               /\ s[m].key = ts[m].key /\ s[m].cols = ts[m].cols /\ s[m].rows = {}
               /\ s[m].unique = ts[m].unique /\ s[m].check = ts[m].check /\ s[m].idx = ts[m].idx
  BY SchemaFacts
<1>2. Names(s) = Names(ts)
  BY <1>1 DEF Names
<1>3. \A m \in DOMAIN ts : Mentioned(s[m]) = Mentioned(ts[m])
  BY <1>1 DEF Mentioned
<1>4. CASE o.op \in {"AddField", "AlterField", "RenameField"}
  BY <1>1, <1>4, Asked
<1>5. CASE o.op = "RemoveField"
  BY <1>1, <1>3, <1>5, Asked
<1>6. CASE o.op = "AlterType"
  BY <1>1, <1>6, Asked DEF MayRefuse
<1>7. CASE o.op \in {"AlterUniqueTogether", "RemoveIndex", "AddCheck", "RemoveConstraint"}
  BY <1>1, <1>7, AskedOfConstraints
<1>8. CASE o.op \in {"AddIndex", "AddUnique", "RenameIndex"}
  BY <1>1, <1>2, <1>8, AskedOfConstraints
<1>9. CASE o.op \in {"CreateModel", "DeleteModel", "RenameModel"}
  <2>1. CASE o.op = "CreateModel"
    BY <1>1, <2>1, AskedOfTables
  <2>2. CASE o.op = "DeleteModel"
    <3>1. \A m \in DOMAIN ts : Targets(s[m].cols) = Targets(ts[m].cols)
      BY <1>1
    <3>2. Possible(o, ts) <=> /\ o.model \in DOMAIN ts
                              /\ \A m \in DOMAIN ts \ {o.model} : o.model \notin Targets(ts[m].cols)
      BY <2>2, AskedOfTables
    <3>3. Possible(o, s) <=> /\ o.model \in DOMAIN s
                             /\ \A m \in DOMAIN s \ {o.model} : o.model \notin Targets(s[m].cols)
      BY <2>2, AskedOfTables
    <3> QED BY <1>1, <3>1, <3>2, <3>3
  <2>3. CASE o.op = "RenameModel"
    BY <1>1, <2>3, AskedOfTables
  <2> QED BY <1>9, <2>1, <2>2, <2>3
<1>10. CASE o.op \notin Local \union {"CreateModel", "DeleteModel", "RenameModel"}
  BY <1>10, Sorts
<1> QED BY <1>4, <1>5, <1>6, <1>7, <1>8, <1>9, <1>10 DEF Local

LEMMA SameRefusal ==
  ASSUME NEW o, NEW ts, Tabular(ts), NEW s, s = Schema(ts), o.model \in DOMAIN ts
  PROVE  MayRefuse(o, s) <=> MayRefuse(o, ts)
<1>1. s[o.model].cols = ts[o.model].cols
  BY SchemaFacts
<1>2. CASE o.op = "AlterField"
  BY <1>1, <1>2 DEF MayRefuse
<1>3. CASE o.op # "AlterField"
  BY <1>3 DEF MayRefuse
<1> QED BY <1>2, <1>3

LEMMA BareRedirected ==
  ASSUME NEW t, IsTable(t), NEW b, b = Bare(t), NEW old, NEW new
  PROVE  Bare(Redirect(t, old, new)) = Redirect(b, old, new)
<1> DEFINE cols(x) == [f \in DOMAIN x.cols |->
              ColumnOf(x.cols[f].null, x.cols[f].unique,
                       IF x.cols[f].ref = old THEN new ELSE x.cols[f].ref)]
<1>1. Redirect(t, old, new) = Table(t.key, cols(t), t.rows, t.unique, t.check, t.idx)
  BY DEF Redirect
<1>2. Redirect(b, old, new) = Table(b.key, cols(b), b.rows, b.unique, b.check, b.idx)
  BY DEF Redirect
<1>3. /\ b.key = t.key /\ b.cols = t.cols /\ b.rows = {} /\ b.unique = t.unique
      /\ b.check = t.check /\ b.idx = t.idx
  BY BareFields
<1>4. cols(b) = cols(t)
  BY <1>3
<1> HIDE DEF cols
<1> QED BY <1>1, <1>2, <1>3, <1>4, BareOf

LEMMA SameOutcome ==
  ASSUME NEW o, NEW ts, Tabular(ts), Possible(o, ts), NEW s, s = Schema(ts)
  PROVE  Schema(Outcome(o, ts)) = Outcome(o, s)
<1>1. /\ DOMAIN s = DOMAIN ts /\ s = [m \in DOMAIN ts |-> s[m]]
      /\ \A m \in DOMAIN ts : s[m] = Bare(ts[m]) /\ IsTable(ts[m])
  BY SchemaFacts
<1>2. CASE o.op \in Local
  <2> DEFINE us == [ts EXCEPT ![o.model] = Altered(o, ts[o.model])]
             v == [s EXCEPT ![o.model] = Altered(o, s[o.model])]
  <2>1. o.model \in DOMAIN ts
    BY <1>2, Asked, AskedOfConstraints DEF Local
  <2>2. Outcome(o, ts) = us /\ Outcome(o, s) = v
    BY <1>2, LocalOutcome
  <2>3. Bare(Altered(o, ts[o.model])) = Altered(o, s[o.model])
    BY <1>1, <1>2, <2>1, BareAltered
  <2>4. /\ DOMAIN us = DOMAIN ts /\ DOMAIN v = DOMAIN ts
        /\ us[o.model] = Altered(o, ts[o.model]) /\ v[o.model] = Altered(o, s[o.model])
        /\ \A n \in DOMAIN ts \ {o.model} : us[n] = ts[n] /\ v[n] = s[n]
    BY <1>1, <2>1
  <2>5. v = [n \in DOMAIN v |-> v[n]]
    BY <1>1
  <2> HIDE DEF us, v
  <2>6. \A n \in DOMAIN ts : Bare(us[n]) = v[n]
    BY <1>1, <2>1, <2>3, <2>4
  <2>7. Schema(us) = v
    BY <2>4, <2>5, <2>6 DEF Schema
  <2> QED BY <2>2, <2>7
<1>3. CASE o.op = "CreateModel"
  <2>0. PICK m, u : m = o.model /\ u = Table(o.key, o.cols, {}, Empty, Empty, Empty)
    OBVIOUS
  <2> DEFINE us == ts @@ (m :> u)
             v == s @@ (m :> u)
  <2>1. m \notin DOMAIN ts
    BY <1>3, <2>0, AskedOfTables
  <2>2. Outcome(o, ts) = us /\ Outcome(o, s) = v
    BY <1>3, <2>0 DEF Outcome
  <2>3. Bare(u) = u
    BY <2>0, BareOf
  <2>4. /\ DOMAIN us = (DOMAIN ts) \union {m} /\ DOMAIN v = (DOMAIN ts) \union {m}
        /\ us[m] = u /\ v[m] = u
        /\ \A n \in DOMAIN ts : us[n] = ts[n] /\ v[n] = s[n]
    BY <1>1, <2>1 DEF @@, :>
  <2>5. v = [n \in DOMAIN v |-> v[n]]
    BY DEF @@
  <2> HIDE DEF us, v
  <2>6. \A n \in DOMAIN us : Bare(us[n]) = v[n]
    BY <1>1, <2>3, <2>4
  <2>7. Schema(us) = v
    BY <2>4, <2>5, <2>6 DEF Schema
  <2> QED BY <2>2, <2>7
<1>4. CASE o.op = "DeleteModel"
  <2> DEFINE us == Without(ts, {o.model})
             v == Without(s, {o.model})
  <2>1. Outcome(o, ts) = us /\ Outcome(o, s) = v
    BY <1>4 DEF Outcome
  <2>2. /\ DOMAIN us = DOMAIN ts \ {o.model} /\ DOMAIN v = DOMAIN us
        /\ \A n \in DOMAIN us : us[n] = ts[n] /\ v[n] = s[n]
        /\ v = [n \in DOMAIN v |-> v[n]]
    BY <1>1 DEF Without
  <2> HIDE DEF us, v
  <2>3. Schema(us) = v
    BY <1>1, <2>2 DEF Schema
  <2> QED BY <2>1, <2>3
<1>5. CASE o.op = "RenameModel"
  <2>0. PICK old, new : old = o.model /\ new = o.to
    OBVIOUS
  <2> DEFINE us == [m \in Swapped(DOMAIN ts, old, new) |-> Redirect(Renamed(ts, old, new)[m], old, new)]
             v == [m \in Swapped(DOMAIN s, old, new) |-> Redirect(Renamed(s, old, new)[m], old, new)]
  <2>1. new \notin DOMAIN ts
    BY <1>5, <2>0, AskedOfTables
  <2>2. Outcome(o, ts) = us /\ Outcome(o, s) = v
    BY <1>5, <2>0 DEF Outcome
  <2>3. ASSUME NEW y \in Swapped(DOMAIN ts, old, new)
        PROVE  Bare(us[y]) = v[y]
    <3>1. PICK n \in DOMAIN ts : y = Moved(n, old, new)
      BY SwappedIn
    <3>2. Renamed(ts, old, new)[y] = ts[n] /\ Renamed(s, old, new)[y] = s[n]
      BY <1>1, <2>1, <3>1 DEF Renamed, Moved
    <3>3. us[y] = Redirect(Renamed(ts, old, new)[y], old, new)
      OBVIOUS
    <3>4. v[y] = Redirect(Renamed(s, old, new)[y], old, new)
      BY <1>1
    <3> HIDE DEF us, v
    <3>5. us[y] = Redirect(ts[n], old, new) /\ v[y] = Redirect(s[n], old, new)
      BY <3>2, <3>3, <3>4
    <3>6. PICK t, b : t = ts[n] /\ b = s[n] /\ b = Bare(t) /\ IsTable(t)
      BY <1>1
    <3>7. Bare(Redirect(t, old, new)) = Redirect(b, old, new)
      BY <3>6, BareRedirected
    <3> QED BY <3>5, <3>6, <3>7
  <2>4. DOMAIN us = Swapped(DOMAIN ts, old, new) /\ DOMAIN v = DOMAIN us /\ v = [n \in DOMAIN v |-> v[n]]
    BY <1>1
  <2> HIDE DEF us, v
  <2>5. Schema(us) = v
    BY <2>3, <2>4 DEF Schema
  <2> QED BY <2>2, <2>5
<1> QED BY <1>2, <1>3, <1>4, <1>5, Sorts

----------------------------------------------------------------------------
(* A database is in order when its tables make sense and respect their         *)
(* constraints.                                                                *)
Good(ts) == Tabular(ts) /\ WellFormed(ts) /\ AllSound(ts)
IsDatabase(d) == d = [tables |-> d.tables, pending |-> d.pending, ok |-> d.ok] /\ d.ok \in BOOLEAN

\* An operation of the schema editor that the store carries out does to the
\* schema what it does with the rows left aside, and leaves the database in
\* order; the store refuses one only when it does not fit the schema, when rows
\* may refuse it, or when checks are pending.
LEMMA Executed ==
  ASSUME NEW o, NEW d, IsDatabase(d), d.ok, Good(d.tables),
         NEW s, s = Schema(d.tables), NEW e, e = Execute(o, d)
  PROVE  /\ IsDatabase(e) /\ e.pending = d.pending
         /\ e.ok => /\ Good(e.tables) /\ Possible(o, s)
                    /\ Schema(e.tables) = Outcome(o, s)
         /\ ~e.ok => ~Possible(o, s) \/ MayRefuse(o, s) \/ d.pending # {}
<1> DEFINE ts == d.tables
           us == Outcome(o, ts)
           left == IF o.op = "RenameModel" THEN o.to ELSE o.model
           refused == \/ ~Possible(o, ts)
                      \/ o.model \in d.pending /\ ~SendsNothing(o, ts)
                      \/ left \in DOMAIN us /\ ~Sound(us, left)
<1>1. e = IF refused THEN Refuse(d) ELSE [d EXCEPT !.tables = us]
  BY DEF Execute
<1>2. ASSUME Possible(o, ts)
      PROVE  Leaves(o, ts, us, left)
  <2>1. CASE o.op \in Local
    BY <1>2, <2>1, LocalLeaves DEF Good, Local
  <2>2. CASE o.op = "CreateModel"
    BY <1>2, <2>2, CreateLeaves DEF Good
  <2>3. CASE o.op = "DeleteModel"
    BY <1>2, <2>3, DeleteLeaves DEF Good
  <2>4. CASE o.op = "RenameModel"
    BY <1>2, <2>4, RenameLeaves DEF Good
  <2> QED BY <1>2, <2>1, <2>2, <2>3, <2>4, Sorts
<1>3. ASSUME Possible(o, ts)
      PROVE  MayRefuse(o, ts) => MayRefuse(o, s)
  <2>1. CASE o.model \in DOMAIN ts
    BY <2>1, SameRefusal DEF Good
  <2>2. CASE o.model \notin DOMAIN ts
    <3>1. o.op = "CreateModel"
      <4>1. CASE o.op \in Local
        BY <1>3, <2>2, <4>1, Asked, AskedOfConstraints DEF Local
      <4>2. CASE o.op \in {"DeleteModel", "RenameModel"}
        BY <1>3, <2>2, <4>2, AskedOfTables
      <4> QED BY <1>3, <4>1, <4>2, Sorts
    <3> QED BY <3>1 DEF MayRefuse
  <2> QED BY <2>1, <2>2
<1>4. Possible(o, ts) => Possible(o, s)
  BY SamePossible DEF Good
<1>5. Possible(o, s) /\ ~MayRefuse(o, s) => Possible(o, ts)
  BY SamePossible DEF Good
<1>6. Possible(o, ts) => Schema(us) = Outcome(o, s)
  BY SameOutcome DEF Good
<1> HIDE DEF us, left
<1>7. CASE refused
  <2>1. e = [tables |-> d.tables, pending |-> d.pending, ok |-> FALSE]
    BY <1>1, <1>7 DEF Refuse, IsDatabase
  <2>2. ~Possible(o, s) \/ MayRefuse(o, s) \/ d.pending # {}
    BY <1>2, <1>3, <1>5, <1>7 DEF Leaves
  <2>3. IsDatabase(e) /\ e.pending = d.pending /\ ~e.ok
    BY <2>1 DEF IsDatabase
  <2> QED BY <2>2, <2>3
<1>8. CASE ~refused
  <2>1. e = [tables |-> us, pending |-> d.pending, ok |-> TRUE]
    BY <1>1, <1>8 DEF IsDatabase
  <2>3. IsDatabase(e) /\ e.pending = d.pending /\ e.ok /\ e.tables = us
    BY <2>1 DEF IsDatabase
  <2>2. Good(us)
    BY <1>2, <1>8 DEF Leaves, Good, AllSound
  <2> QED BY <1>4, <1>6, <1>8, <2>2, <2>3
<1> QED BY <1>7, <1>8

----------------------------------------------------------------------------
(* Data steps leave the schema alone, but for remove_legacy_user_unique.       *)
SameSchema(us, ts) == Tabular(us) /\ Schema(us) = Schema(ts)

LEMMA RowsOnly ==
  ASSUME NEW ts, NEW us, Tabular(ts), DOMAIN us = DOMAIN ts, us = [m \in DOMAIN us |-> us[m]],
         \A m \in DOMAIN ts : \E rows : us[m] = [ts[m] EXCEPT !.rows = rows]
  PROVE  SameSchema(us, ts)
<1>1. ASSUME NEW m \in DOMAIN ts
      PROVE  IsTable(us[m]) /\ Bare(us[m]) = Bare(ts[m])
  <2>1. PICK rows : us[m] = [ts[m] EXCEPT !.rows = rows]
    OBVIOUS
  <2>2. PICK t : t = ts[m] /\ IsTable(t)
    BY DEF Tabular
  <2>3. us[m] = Table(t.key, t.cols, rows, t.unique, t.check, t.idx)
    BY <2>1, <2>2 DEF IsTable, Table
  <2>4. Bare(us[m]) = Table(t.key, t.cols, {}, t.unique, t.check, t.idx)
    BY <2>3, BareOf
  <2> QED BY <2>2, <2>3, <2>4, BareTable, Fields
<1> QED BY <1>1 DEF SameSchema, Tabular, Schema

LEMMA OneTable ==
  ASSUME NEW ts, Tabular(ts), NEW m, NEW rows
  PROVE  SameSchema([ts EXCEPT ![m].rows = rows], ts)
<1> DEFINE us == [ts EXCEPT ![m].rows = rows]
<1>1. DOMAIN us = DOMAIN ts /\ us = [n \in DOMAIN us |-> us[n]]
  BY DEF Tabular
<1>2. ASSUME NEW n \in DOMAIN ts
      PROVE  \E r : us[n] = [ts[n] EXCEPT !.rows = r]
  <2>1. CASE n = m
    <3>1. us[n] = [ts[n] EXCEPT !.rows = rows]
      BY <2>1
    <3> QED BY <3>1
  <2>2. CASE n # m
    <3>1. us[n] = ts[n] /\ IsTable(ts[n])
      BY <2>2 DEF Tabular
    <3>2. us[n] = [ts[n] EXCEPT !.rows = ts[n].rows]
      BY <3>1 DEF IsTable, Table
    <3> QED BY <3>2
  <2> QED BY <2>1, <2>2
<1> HIDE DEF us
<1>3. SameSchema(us, ts)
  BY <1>1, <1>2, RowsOnly
<1> QED BY <1>3 DEF us

LEMMA SameSchemaTwice ==
  ASSUME NEW ts, NEW us, NEW vs, SameSchema(us, ts), SameSchema(vs, us)
  PROVE  SameSchema(vs, ts)
BY DEF SameSchema

LEMMA TwoTables ==
  ASSUME NEW ts, Tabular(ts), NEW m, NEW n, m # n, NEW rows, NEW others
  PROVE  SameSchema([ts EXCEPT ![m].rows = rows, ![n].rows = others], ts)
<1> DEFINE us == [ts EXCEPT ![m].rows = rows]
           vs == [us EXCEPT ![n].rows = others]
<1>1. SameSchema(us, ts)
  BY OneTable
<1>2. [ts EXCEPT ![m].rows = rows, ![n].rows = others] = vs
  OBVIOUS
<1> HIDE DEF us
<1>3. SameSchema(vs, us)
  BY <1>1, OneTable DEF SameSchema
<1> QED BY <1>1, <1>2, <1>3, SameSchemaTwice

LEMMA Inserted ==
  ASSUME NEW ts, Tabular(ts), NEW m, NEW rows
  PROVE  SameSchema(Insert(ts, m, rows), ts)
BY OneTable DEF Insert

LEMMA Deleted ==
  ASSUME NEW ts, Tabular(ts), NEW model, NEW rows
  PROVE  SameSchema(DeleteRows(ts, model, rows), ts)
<1> DEFINE once == ({model} \X rows) \union Referring(ts, {model} \X rows)
           gone == once \union Referring(ts, once)
           us == [m \in DOMAIN ts |-> [ts[m] EXCEPT !.rows = {r \in @ : <<m, r>> \notin gone}]]
<1>1. DeleteRows(ts, model, rows) = us
  BY DEF DeleteRows
<1> HIDE DEF gone
<1>2. DOMAIN us = DOMAIN ts /\ us = [n \in DOMAIN us |-> us[n]]
  OBVIOUS
<1>3. ASSUME NEW n \in DOMAIN ts
      PROVE  \E r : us[n] = [ts[n] EXCEPT !.rows = r]
  OBVIOUS
<1> HIDE DEF us
<1>4. SameSchema(us, ts)
  BY <1>2, <1>3, RowsOnly
<1> QED BY <1>1, <1>4

\* Each data step, by name.
LEMMA forwards_func_keeps ==
  ASSUME NEW ts, Tabular(ts)
  PROVE  SameSchema(forwards_func(ts), ts)
BY OneTable DEF forwards_func

LEMMA assign_systems_keeps ==
  ASSUME NEW ts, Tabular(ts)
  PROVE  SameSchema(assign_systems(ts), ts)
BY OneTable DEF assign_systems

LEMMA create_group_and_permission_keeps ==
  ASSUME NEW ts, Tabular(ts)
  PROVE  SameSchema(create_group_and_permission(ts), ts)
BY OneTable DEF create_group_and_permission

LEMMA migrate_states_forward_keeps ==
  ASSUME NEW ts, Tabular(ts)
  PROVE  SameSchema(migrate_states_forward(ts), ts)
BY OneTable DEF migrate_states_forward

LEMMA assign_userroles_keeps ==
  ASSUME NEW ts, Tabular(ts)
  PROVE  SameSchema(assign_userroles(ts), ts)
BY Inserted DEF assign_userroles

LEMMA clear_user_roles_keeps ==
  ASSUME NEW ts, Tabular(ts)
  PROVE  SameSchema(clear_user_roles(ts), ts)
BY Deleted DEF clear_user_roles

LEMMA clean_encoding_table_keeps ==
  ASSUME NEW ts, Tabular(ts)
  PROVE  SameSchema(clean_encoding_table(ts), ts)
BY Deleted DEF clean_encoding_table

LEMMA remove_duplicate_images_keeps ==
  ASSUME NEW ts, Tabular(ts)
  PROVE  SameSchema(remove_duplicate_images(ts), ts)
BY Deleted DEF remove_duplicate_images

LEMMA clear_findings_keeps ==
  ASSUME NEW ts, Tabular(ts)
  PROVE  SameSchema(clear_findings(ts), ts)
BY Deleted DEF clear_findings

LEMMA _drop_inline_payloads_keeps ==
  ASSUME NEW ts, Tabular(ts)
  PROVE  SameSchema(_drop_inline_payloads(ts), ts)
BY Deleted DEF _drop_inline_payloads

LEMMA assign_system_to_tokens_keeps ==
  ASSUME NEW ts, Tabular(ts)
  PROVE  SameSchema(assign_system_to_tokens(ts), ts)
BY TwoTables DEF assign_system_to_tokens

LEMMA reject_unapproved_deduplication_sets_keeps ==
  ASSUME NEW ts, Tabular(ts)
  PROVE  SameSchema(reject_unapproved_deduplication_sets(ts), ts)
BY TwoTables DEF reject_unapproved_deduplication_sets

LEMMA create_systems_keeps ==
  ASSUME NEW ts, Tabular(ts)
  PROVE  SameSchema(create_systems(ts), ts)
<1> DEFINE created == {NewRow(ts["system"], [id |-> e.name, name |-> e.name]) :
                        e \in Rows(ts, "externalsystem")}
           us == Insert(ts, "system", created)
<1>1. SameSchema(us, ts)
  BY Inserted
<1>2. PICK rows : create_systems(ts) = [us EXCEPT !["externalsystem"].rows = rows]
  BY DEF create_systems
<1> HIDE DEF us
<1>3. SameSchema([us EXCEPT !["externalsystem"].rows = rows], us)
  BY <1>1, OneTable DEF SameSchema
<1> QED BY <1>1, <1>2, <1>3, SameSchemaTwice

LEMMA create_groups_keeps ==
  ASSUME NEW ts, Tabular(ts)
  PROVE  SameSchema(create_groups(ts), ts)
<1> DEFINE live == {s \in Rows(ts, "deduplicationset") : ~s.deleted}
           made == Insert(ts, "deduplicationsetgroup",
                    {[NewRow(ts["deduplicationsetgroup"],
                             [id |-> <<s.reference_pk, s.system>>, reference_pk |-> s.reference_pk,
                              system |-> s.system]) EXCEPT !.deleted = FALSE] : s \in live})
           assigned == [made EXCEPT !["deduplicationset"].rows =
                          {IF s.deleted THEN s
                           ELSE [s EXCEPT !.group = <<s.reference_pk, s.system>>] : s \in @}]
<1>1. SameSchema(made, ts)
  BY Inserted
<1>2. create_groups(ts) = DeleteRows(assigned, "deduplicationset",
                                     {s \in Rows(assigned, "deduplicationset") : s.deleted})
  BY DEF create_groups
<1> HIDE DEF made
<1>3. SameSchema(assigned, made)
  BY <1>1, OneTable DEF SameSchema
<1> HIDE DEF assigned
<1>4. SameSchema(create_groups(ts), assigned)
  BY <1>2, <1>3, Deleted DEF SameSchema
<1> QED BY <1>1, <1>3, <1>4, SameSchemaTwice

LEMMA migrate_hde_tokens_keeps ==
  ASSUME NEW ts, Tabular(ts)
  PROVE  SameSchema(migrate_hde_tokens(ts), ts)
BY Inserted DEF migrate_hde_tokens

\* The column user of the tokens loses its uniqueness, in the schema as in the
\* database.
LEMMA remove_legacy_user_unique_changes ==
  ASSUME NEW ts, Tabular(ts), WellFormed(ts), NEW us, us = remove_legacy_user_unique(ts)
  PROVE  Tabular(us) /\ WellFormed(us) /\ Schema(us) = remove_legacy_user_unique(Schema(ts))
<1>0. PICK s, m : s = Schema(ts) /\ m = "apitoken"
  OBVIOUS
<1> DEFINE Shared(cols) ==
             [f \in DOMAIN cols |-> IF f = "user" THEN ColumnOf(cols[f].null, FALSE, cols[f].ref) ELSE cols[f]]
<1>1. /\ us = [ts EXCEPT ![m].cols = Shared(ts[m].cols)]
      /\ remove_legacy_user_unique(s) = [s EXCEPT ![m].cols = Shared(s[m].cols)]
  BY <1>0 DEF remove_legacy_user_unique
<1>2. /\ DOMAIN s = DOMAIN ts /\ s = [n \in DOMAIN ts |-> s[n]]
      /\ \A n \in DOMAIN ts : /\ s[n] = Bare(ts[n]) /\ IsTable(ts[n]) /\ IsTable(s[n])
                              /\ s[n].cols = ts[n].cols
  BY <1>0, SchemaFacts
<1>3. CASE m \notin DOMAIN ts
  <2>1. us = ts /\ remove_legacy_user_unique(s) = s
    BY <1>1, <1>2, <1>3 DEF Tabular
  <2> QED BY <1>0, <2>1
<1>4. CASE m \in DOMAIN ts
  <2> DEFINE t == ts[m]
             cols == Shared(t.cols)
             u == Table(t.key, cols, t.rows, t.unique, t.check, t.idx)
             b == Table(t.key, cols, {}, t.unique, t.check, t.idx)
  <2>1. /\ DOMAIN cols = DOMAIN t.cols
        /\ \A f \in DOMAIN t.cols : cols[f].ref = t.cols[f].ref
    BY DEF ColumnOf
  <2> HIDE DEF cols
  <2>2. [t EXCEPT !.cols = cols] = u
    BY <1>2, <1>4 DEF IsTable, Table
  <2>3. [Bare(t) EXCEPT !.cols = cols] = b
    <3>1. Bare(t) = Table(t.key, t.cols, {}, t.unique, t.check, t.idx)
      BY <1>2, <1>4, BareTable
    <3> QED BY <3>1 DEF Table
  <2>4. us = [ts EXCEPT ![m] = u]
    BY <1>1, <2>2 DEF cols
  <2>5. remove_legacy_user_unique(s) = [s EXCEPT ![m] = b]
    BY <1>1, <1>2, <1>4, <2>3 DEF cols
  <2>6. IsTable(u) /\ u.key = t.key /\ u.cols = cols /\ u.unique = t.unique /\ u.check = t.check
    BY Fields
  <2>7. Bare(u) = b
    BY BareOf
  <2> HIDE DEF u, b
  <2>8. /\ Tabular(us) /\ DOMAIN us = DOMAIN ts /\ us[m] = u
        /\ \A n \in DOMAIN ts \ {m} : us[n] = ts[n]
    BY <1>4, <2>4, <2>6, Replaced
  <2>9. WellFormed(us)
    <3>1. Coherent(u) /\ Linked(u, DOMAIN ts)
      BY <1>4, <2>1, <2>6 DEF WellFormed, Coherent, Linked
    <3> QED BY <2>8, <3>1 DEF WellFormed
  <2>10. Schema(us) = [s EXCEPT ![m] = b]
    BY <1>2, <1>4, <2>7, <2>8 DEF Schema
  <2> QED BY <1>0, <2>5, <2>8, <2>9, <2>10
<1> QED BY <1>3, <1>4

LEMMA RunKeeps ==
  ASSUME NEW ts, Tabular(ts), WellFormed(ts), NEW step, NEW us, us = Run(step, ts)
  PROVE  /\ Tabular(us) /\ WellFormed(us)
         /\ Schema(us) = IF step = "remove_legacy_user_unique"
                         THEN remove_legacy_user_unique(Schema(ts)) ELSE Schema(ts)
<1>1. SameSchema(us, ts) => Tabular(us) /\ WellFormed(us) /\ Schema(us) = Schema(ts)
  BY WellFormedSchema DEF SameSchema
<1>2. CASE step = "forwards_func"
  <2>1. us = forwards_func(ts)
    BY <1>2 DEF Run
  <2> QED BY <1>1, <1>2, <2>1, forwards_func_keeps
<1>3. CASE step = "assign_systems"
  <2>1. us = assign_systems(ts)
    BY <1>3 DEF Run
  <2> QED BY <1>1, <1>3, <2>1, assign_systems_keeps
<1>4. CASE step = "create_systems"
  <2>1. us = create_systems(ts)
    BY <1>4 DEF Run
  <2> QED BY <1>1, <1>4, <2>1, create_systems_keeps
<1>5. CASE step = "create_group_and_permission"
  <2>1. us = create_group_and_permission(ts)
    BY <1>5 DEF Run
  <2> QED BY <1>1, <1>5, <2>1, create_group_and_permission_keeps
<1>6. CASE step = "assign_userroles"
  <2>1. us = assign_userroles(ts)
    BY <1>6 DEF Run
  <2> QED BY <1>1, <1>6, <2>1, assign_userroles_keeps
<1>7. CASE step = "assign_system_to_tokens"
  <2>1. us = assign_system_to_tokens(ts)
    BY <1>7 DEF Run
  <2> QED BY <1>1, <1>7, <2>1, assign_system_to_tokens_keeps
<1>8. CASE step = "clear_user_roles"
  <2>1. us = clear_user_roles(ts)
    BY <1>8 DEF Run
  <2> QED BY <1>1, <1>8, <2>1, clear_user_roles_keeps
<1>9. CASE step = "clean_encoding_table"
  <2>1. us = clean_encoding_table(ts)
    BY <1>9 DEF Run
  <2> QED BY <1>1, <1>9, <2>1, clean_encoding_table_keeps
<1>10. CASE step = "remove_duplicate_images"
  <2>1. us = remove_duplicate_images(ts)
    BY <1>10 DEF Run
  <2> QED BY <1>1, <1>10, <2>1, remove_duplicate_images_keeps
<1>11. CASE step = "create_groups"
  <2>1. us = create_groups(ts)
    BY <1>11 DEF Run
  <2> QED BY <1>1, <1>11, <2>1, create_groups_keeps
<1>12. CASE step = "clear_findings"
  <2>1. us = clear_findings(ts)
    BY <1>12 DEF Run
  <2> QED BY <1>1, <1>12, <2>1, clear_findings_keeps
<1>13. CASE step = "reject_unapproved_deduplication_sets"
  <2>1. us = reject_unapproved_deduplication_sets(ts)
    BY <1>13 DEF Run
  <2> QED BY <1>1, <1>13, <2>1, reject_unapproved_deduplication_sets_keeps
<1>14. CASE step = "migrate_states_forward"
  <2>1. us = migrate_states_forward(ts)
    BY <1>14 DEF Run
  <2> QED BY <1>1, <1>14, <2>1, migrate_states_forward_keeps
<1>15. CASE step = "_drop_inline_payloads"
  <2>1. us = _drop_inline_payloads(ts)
    BY <1>15 DEF Run
  <2> QED BY <1>1, <1>15, <2>1, _drop_inline_payloads_keeps
<1>16. CASE step = "remove_legacy_user_unique"
  <2>1. us = remove_legacy_user_unique(ts)
    BY <1>16 DEF Run
  <2> QED BY <1>16, <2>1, remove_legacy_user_unique_changes
<1>17. CASE step = "migrate_hde_tokens"
  <2>1. us = migrate_hde_tokens(ts)
    BY <1>17 DEF Run
  <2> QED BY <1>1, <1>17, <2>1, migrate_hde_tokens_keeps
<1>18. CASE step \notin {"forwards_func", "assign_systems", "create_systems", "create_group_and_permission", "assign_userroles", "assign_system_to_tokens", "clear_user_roles", "clean_encoding_table", "remove_duplicate_images", "create_groups", "clear_findings", "reject_unapproved_deduplication_sets", "migrate_states_forward", "_drop_inline_payloads",
             "remove_legacy_user_unique", "migrate_hde_tokens"}
  <2>1. us = ts
    BY <1>18 DEF Run
  <2> QED BY <1>18, <2>1
<1> QED BY <1>2, <1>3, <1>4, <1>5, <1>6, <1>7, <1>8, <1>9, <1>10, <1>11, <1>12, <1>13, <1>14, <1>15, <1>16, <1>17, <1>18

\* The same of any operation.
LEMMA Performs ==
  ASSUME NEW o, NEW d, IsDatabase(d), d.ok, Good(d.tables),
         NEW s, s = Schema(d.tables), NEW e, e = Perform(o, d)
  PROVE  /\ IsDatabase(e)
         /\ e.ok => Good(e.tables) /\ Fits(o, s) /\ Schema(e.tables) = Change(o, s)
         /\ e.ok /\ o.op # "RunPython" => e.pending = d.pending
         /\ ~e.ok => ~Fits(o, s) \/ MayRefuse(o, s) \/ d.pending # {}
<1>1. CASE o.op # "RunPython"
  <2>1. e = Execute(o, d)
    BY <1>1 DEF Perform
  <2>3. /\ IsDatabase(e) /\ e.pending = d.pending
        /\ e.ok => Good(e.tables) /\ Possible(o, s) /\ Schema(e.tables) = Outcome(o, s)
        /\ ~e.ok => ~Possible(o, s) \/ MayRefuse(o, s) \/ d.pending # {}
    BY <2>1, Executed
  <2> QED BY <1>1, <2>3 DEF Fits, Change
<1>2. CASE o.op = "RunPython"
  <2> DEFINE after == Run(o.step, d.tables)
  <2>1. e = RunStep(o, d)
    BY <1>2 DEF Perform
  <2>2. Fits(o, s) /\ MayRefuse(o, s)
    BY <1>2 DEF Fits, MayRefuse
  <2>3. CASE Raises(o.step, d.tables) \/ ~AllSound(after)
    <3>1. e = [d EXCEPT !.ok = FALSE]
      BY <2>1, <2>3 DEF RunStep, Refuse
    <3> QED BY <1>2, <2>2, <3>1 DEF IsDatabase
  <2>4. CASE ~Raises(o.step, d.tables) /\ AllSound(after)
    <3>1. e = [d EXCEPT !.tables = after, !.pending = @ \union Queued(d.tables, after)]
      BY <2>1, <2>4 DEF RunStep
    <3>2. /\ Tabular(after) /\ WellFormed(after)
          /\ Schema(after) = IF o.step = "remove_legacy_user_unique"
                             THEN remove_legacy_user_unique(s) ELSE s
      BY <2>4, RunKeeps DEF Good
    <3> HIDE DEF after
    <3>3. e.tables = after /\ e.ok = d.ok /\ IsDatabase(e)
      BY <3>1 DEF IsDatabase
    <3>4. Schema(after) = Change(o, s)
      BY <1>2, <3>2 DEF Change
    <3> QED BY <1>2, <2>2, <2>4, <3>2, <3>3, <3>4 DEF Good
  <2> QED BY <2>3, <2>4
<1> QED BY <1>1, <1>2

----------------------------------------------------------------------------
(* The operations of a migration one after the other.  A set of numbers that   *)
(* is not empty has a least one: what is wrong nowhere before the first place  *)
(* where it goes wrong is wrong nowhere.                                       *)
LEMMA Least ==
  ASSUME NEW T, T \subseteq Nat, T # {}
  PROVE  \E x \in T : \A y \in T : x <= y
<1>1. IsWellFoundedOn(OpToRel(<, Nat), Nat)
  BY NatLessThanWellFounded
<1>2. PICK x \in T : \A y \in T : ~(<<y, x>> \in OpToRel(<, Nat))
  BY <1>1, WFMin
<1>3. ASSUME NEW y \in T
      PROVE  x <= y
  <2>1. x \in Nat /\ y \in Nat
    OBVIOUS
  <2>2. ~(y < x)
    BY <1>2, <2>1 DEF OpToRel
  <2> QED BY <2>1, <2>2
<1> QED BY <1>3

Performing(f, ops, d, k) ==
    f = [n \in 0 .. k |-> IF n = 0 THEN d ELSE Perform(ops[n], f[n - 1])]

LEMMA PerformedIsExists ==
  ASSUME NEW ops, NEW d
  PROVE  \A k \in Nat : \E f : Performing(f, ops, d, k)
<1> DEFINE T == {k \in Nat : ~\E f : Performing(f, ops, d, k)}
<1> SUFFICES ASSUME T # {} PROVE FALSE
  OBVIOUS
<1>1. PICK k \in T : \A j \in T : k <= j
  BY Least
<1>2. k \in Nat /\ ~\E f : Performing(f, ops, d, k)
  OBVIOUS
<1>3. CASE k = 0
  <2> DEFINE f == [n \in 0 .. 0 |-> d]
  <2>1. Performing(f, ops, d, 0)
    BY DEF Performing
  <2> QED BY <1>2, <1>3, <2>1
<1>4. CASE k # 0
  <2>1. k - 1 \in Nat /\ k - 1 \notin T
    BY <1>1, <1>2, <1>4
  <2>2. PICK g : Performing(g, ops, d, k - 1)
    BY <2>1
  <2> DEFINE f == [n \in 0 .. k |-> IF n = k THEN Perform(ops[k], g[k - 1]) ELSE g[n]]
  <2>3. ASSUME NEW n \in 0 .. k
        PROVE  f[n] = IF n = 0 THEN d ELSE Perform(ops[n], f[n - 1])
    <3>1. CASE n = k
      BY <1>2, <1>4, <3>1
    <3>2. CASE n # k
      <4>1. n \in 0 .. k - 1 /\ (n # 0 => n - 1 \in 0 .. k - 1 /\ n - 1 # k)
        BY <1>2, <1>4, <3>2
      <4>2. g[n] = IF n = 0 THEN d ELSE Perform(ops[n], g[n - 1])
        BY <4>1, <2>2 DEF Performing
      <4> QED BY <1>2, <3>2, <4>1, <4>2
    <3> QED BY <3>1, <3>2
  <2>4. f = [n \in 0 .. k |-> f[n]]
    OBVIOUS
  <2> HIDE DEF f
  <2>5. Performing(f, ops, d, k)
    BY <2>3, <2>4 DEF Performing
  <2> QED BY <1>2, <2>5
<1> QED BY <1>3, <1>4

LEMMA PerformedIs ==
  ASSUME NEW ops, NEW d, Len(ops) \in Nat, NEW f, f = Performed(ops, d)
  PROVE  /\ f[0] = d
         /\ \A n \in 1 .. Len(ops) : f[n] = Perform(ops[n], f[n - 1])
<1>1. \E g : Performing(g, ops, d, Len(ops))
  BY PerformedIsExists
<1>2. f = CHOOSE g : Performing(g, ops, d, Len(ops))
  BY DEF Performed, Performing
<1>3. Performing(f, ops, d, Len(ops))
  BY <1>1, <1>2
<1>4. f = [n \in 0 .. Len(ops) |-> IF n = 0 THEN d ELSE Perform(ops[n], f[n - 1])]
  BY <1>3 DEF Performing
<1>5. f[0] = d
  BY <1>4
<1>6. ASSUME NEW n \in 1 .. Len(ops)
      PROVE  f[n] = Perform(ops[n], f[n - 1])
  BY <1>4
<1> QED BY <1>5, <1>6

Changing(f, ops, s, k) ==
    f = [n \in 0 .. k |-> IF n = 0 THEN s ELSE Change(ops[n], f[n - 1])]

LEMMA ChangedIsExists ==
  ASSUME NEW ops, NEW s
  PROVE  \A k \in Nat : \E f : Changing(f, ops, s, k)
<1> DEFINE T == {k \in Nat : ~\E f : Changing(f, ops, s, k)}
<1> SUFFICES ASSUME T # {} PROVE FALSE
  OBVIOUS
<1>1. PICK k \in T : \A j \in T : k <= j
  BY Least
<1>2. k \in Nat /\ ~\E f : Changing(f, ops, s, k)
  OBVIOUS
<1>3. CASE k = 0
  <2> DEFINE f == [n \in 0 .. 0 |-> s]
  <2>1. Changing(f, ops, s, 0)
    BY DEF Changing
  <2> QED BY <1>2, <1>3, <2>1
<1>4. CASE k # 0
  <2>1. k - 1 \in Nat /\ k - 1 \notin T
    BY <1>1, <1>2, <1>4
  <2>2. PICK g : Changing(g, ops, s, k - 1)
    BY <2>1
  <2> DEFINE f == [n \in 0 .. k |-> IF n = k THEN Change(ops[k], g[k - 1]) ELSE g[n]]
  <2>3. ASSUME NEW n \in 0 .. k
        PROVE  f[n] = IF n = 0 THEN s ELSE Change(ops[n], f[n - 1])
    <3>1. CASE n = k
      BY <1>2, <1>4, <3>1
    <3>2. CASE n # k
      <4>1. n \in 0 .. k - 1 /\ (n # 0 => n - 1 \in 0 .. k - 1 /\ n - 1 # k)
        BY <1>2, <1>4, <3>2
      <4>2. g[n] = IF n = 0 THEN s ELSE Change(ops[n], g[n - 1])
        BY <4>1, <2>2 DEF Changing
      <4> QED BY <1>2, <3>2, <4>1, <4>2
    <3> QED BY <3>1, <3>2
  <2>4. f = [n \in 0 .. k |-> f[n]]
    OBVIOUS
  <2> HIDE DEF f
  <2>5. Changing(f, ops, s, k)
    BY <2>3, <2>4 DEF Changing
  <2> QED BY <1>2, <2>5
<1> QED BY <1>3, <1>4

LEMMA ChangedIs ==
  ASSUME NEW ops, NEW s, Len(ops) \in Nat, NEW f, f = Evolution!Changed(ops, s)
  PROVE  /\ f[0] = s
         /\ \A n \in 1 .. Len(ops) : f[n] = Change(ops[n], f[n - 1])
<1>1. \E g : Changing(g, ops, s, Len(ops))
  BY ChangedIsExists
<1>2. f = CHOOSE g : Changing(g, ops, s, Len(ops))
  BY DEF Evolution!Changed, Changing
<1>3. Changing(f, ops, s, Len(ops))
  BY <1>1, <1>2
<1>4. f = [n \in 0 .. Len(ops) |-> IF n = 0 THEN s ELSE Change(ops[n], f[n - 1])]
  BY <1>3 DEF Changing
<1>5. f[0] = s
  BY <1>4
<1>6. ASSUME NEW n \in 1 .. Len(ops)
      PROVE  f[n] = Change(ops[n], f[n - 1])
  BY <1>4
<1> QED BY <1>5, <1>6

----------------------------------------------------------------------------
(* The migrations are finite sequences of operations.                          *)
Listed(migration) == Len(migration.ops) \in Nat

LEMMA Lengths == \A m \in All : Len(Migration(m).ops) \in Nat
<1>1. \A x \in {api0001, api0002, api0003, api0004, api0005, api0006, api0007, api0008, api0009,
              api0010, api0011} : Listed(x)
  BY DEF Listed, After, NotAtomic, api0001, api0002, api0003, api0004, api0005, api0006, api0007,
  api0008, api0009, api0010, api0011, first_set_models, first_other_models
<1>2. \A x \in {api0012, api0013, api0014, api0015, api0016, api0017, api0018, api0019, api0020,
              api0021, api0022} : Listed(x)
  BY DEF Listed, After, NotAtomic, api0012, api0013, api0014, api0015, api0016, api0017, api0018,
  api0019, api0020, api0021, api0022
<1>3. \A x \in {api0023, api0024, api0025, api0026, api0027, api0028, api0029, api0030, api0031,
              api0032, api0033} : Listed(x)
  BY DEF Listed, After, NotAtomic, api0023, api0024, api0025, api0026, api0027, api0028, api0029,
  api0030, api0031, api0032, api0033
<1>4. \A x \in {api0034, api0035, api0036, api0037, api0038, api0039, api0040, api0041, api0042,
              api0043, api0044} : Listed(x)
  BY DEF Listed, After, NotAtomic, api0034, api0035, api0036, api0037, api0038, api0039, api0040,
  api0041, api0042, api0043, api0044
<1>5. \A x \in {api0045, api0046, api0047, api0048, api0049, api0050, api0051, api0052, api0053,
              api0054, api0055} : Listed(x)
  BY DEF Listed, After, NotAtomic, api0045, api0046, api0047, api0048, api0049, api0050, api0051,
  api0052, api0053, api0054, api0055, finding_help_text
<1>6. \A x \in {api0056, api0057, api0058, api0059, api0060, api0061, api0062, api0063, api0064,
              api0065, api0066} : Listed(x)
  BY DEF Listed, After, NotAtomic, api0056, api0057, api0058, api0059, api0060, api0061, api0062,
  api0063, api0064, api0065, api0066, chunk_jobs, main_job
<1>7. \A x \in {api0067, api0068, api0069, api0070, api0071, api0072, api0073, api0074, api0075,
              api0076, api0077} : Listed(x)
  BY DEF Listed, After, NotAtomic, api0067, api0068, api0069, api0070, api0071, api0072, api0073,
  api0074, api0075, api0076, api0077
<1>8. \A x \in {security0001, security0002, security0003, security0004, security0005, security0006,
              security0007, security0008, security0009, hope_api_auth0001} : Listed(x)
  BY DEF Listed, After, NotAtomic, security0001, security0002, security0003, security0004,
  security0005, security0006, security0007, security0008, security0009, hope_api_auth0001,
  first_users, first_roles
<1>9. ASSUME NEW n \in DOMAIN Steps.api PROVE Listed(Steps.api[n])
  <2>1. Steps.api[n] \in {
            api0001, api0002, api0003, api0004, api0005, api0006, api0007, api0008, api0009,
            api0010, api0011, api0012, api0013, api0014, api0015, api0016, api0017, api0018,
            api0019, api0020, api0021, api0022, api0023, api0024, api0025, api0026, api0027,
            api0028, api0029, api0030, api0031, api0032, api0033, api0034, api0035, api0036,
            api0037, api0038, api0039, api0040, api0041, api0042, api0043, api0044, api0045,
            api0046, api0047, api0048, api0049, api0050, api0051, api0052, api0053, api0054,
            api0055, api0056, api0057, api0058, api0059, api0060, api0061, api0062, api0063,
            api0064, api0065, api0066, api0067, api0068, api0069, api0070, api0071, api0072,
            api0073, api0074, api0075, api0076, api0077}
    BY DEF Steps
  <2> QED BY <1>1, <1>2, <1>3, <1>4, <1>5, <1>6, <1>7, <2>1
<1>10. ASSUME NEW n \in DOMAIN Steps.security PROVE Listed(Steps.security[n])
  <2>1. Steps.security[n] \in {security0001, security0002, security0003, security0004, security0005, security0006,
            security0007, security0008, security0009}
    BY DEF Steps
  <2> QED BY <1>8, <2>1
<1>11. ASSUME NEW n \in DOMAIN Steps.hope_api_auth PROVE Listed(Steps.hope_api_auth[n])
  BY <1>8 DEF Steps
<1>12. ASSUME NEW m \in All
      PROVE  m[1] \in {"api", "security", "hope_api_auth"} /\ m[2] \in DOMAIN Steps[m[1]]
  <2>1. PICK app \in DOMAIN Steps : m \in {<<app, n>> : n \in DOMAIN Steps[app]}
    BY DEF All
  <2>2. DOMAIN Steps = {"api", "security", "hope_api_auth"}
    BY DEF Steps
  <2> HIDE DEF Steps
  <2> QED BY <2>1, <2>2
<1> QED BY <1>9, <1>10, <1>11, <1>12 DEF Migration, Listed

----------------------------------------------------------------------------
(* After n operations of a transaction the database is in order and its        *)
(* schema is what the schema alone would be, or the transaction is lost at an  *)
(* operation where the schema alone may stop.                                  *)
Reached(ops, s, e, n) ==
    /\ IsDatabase(e)
    /\ e.ok => /\ Good(e.tables)
               /\ Schema(e.tables) = Evolution!Changed(ops, s)[n]
               /\ Evolution!AllFit(ops, s, n)
               /\ e.pending # {} => Evolution!Stirred(ops, n)
    /\ ~e.ok => \E k \in 1 .. n : Evolution!MayStopAt(ops, s, k)

LEMMA ReachedNext ==
  ASSUME NEW ops, NEW s, Len(ops) \in Nat, NEW n \in 1 .. Len(ops), NEW d, Reached(ops, s, d, n - 1),
         NEW e, e = Perform(ops[n], d)
  PROVE  Reached(ops, s, e, n)
<1>0. PICK c : c = Evolution!Changed(ops, s)
  OBVIOUS
<1>1. c[n] = Change(ops[n], c[n - 1])
  BY <1>0, ChangedIs
<1>2. CASE ~d.ok
  <2>1. e = d
    BY <1>2 DEF Perform
  <2>2. PICK k \in 1 .. n - 1 : Evolution!MayStopAt(ops, s, k)
    BY <1>2 DEF Reached
  <2>3. k \in 1 .. n
    OBVIOUS
  <2> QED BY <1>2, <2>1, <2>2, <2>3 DEF Reached
<1>3. CASE d.ok
  <2>1. PICK b : b = Schema(d.tables)
    OBVIOUS
  <2>2. /\ IsDatabase(d) /\ Good(d.tables) /\ b = c[n - 1]
        /\ Evolution!AllFit(ops, s, n - 1)
        /\ d.pending # {} => Evolution!Stirred(ops, n - 1)
    BY <1>0, <1>3, <2>1 DEF Reached
  <2>3. /\ IsDatabase(e)
        /\ e.ok => Good(e.tables) /\ Fits(ops[n], b) /\ Schema(e.tables) = Change(ops[n], b)
        /\ e.ok /\ ops[n].op # "RunPython" => e.pending = d.pending
        /\ ~e.ok => ~Fits(ops[n], b) \/ MayRefuse(ops[n], b) \/ d.pending # {}
    <3>1. PICK o : o = ops[n] /\ e = Perform(o, d)
      OBVIOUS
    <3>2. /\ IsDatabase(e)
          /\ e.ok => Good(e.tables) /\ Fits(o, b) /\ Schema(e.tables) = Change(o, b)
          /\ e.ok /\ o.op # "RunPython" => e.pending = d.pending
          /\ ~e.ok => ~Fits(o, b) \/ MayRefuse(o, b) \/ d.pending # {}
      <4>1. IsDatabase(d) /\ d.ok /\ Good(d.tables)
        BY <1>3, <2>2
      <4> QED BY <2>1, <3>1, <4>1, Performs
    <3> QED BY <3>1, <3>2
  <2>4. ASSUME e.ok
        PROVE  Evolution!AllFit(ops, s, n)
    <3>1. ASSUME NEW k \in 1 .. n
          PROVE  Fits(ops[k], c[k - 1])
      <4>1. CASE k = n
        BY <2>2, <2>3, <2>4, <4>1
      <4>2. CASE k # n
        <5>1. k \in 1 .. n - 1
          BY <4>2
        <5> QED BY <1>0, <2>2, <5>1 DEF Evolution!AllFit
      <4> QED BY <4>1, <4>2
    <3> QED BY <1>0, <3>1 DEF Evolution!AllFit
  <2>5. ASSUME e.ok, e.pending # {}
        PROVE  Evolution!Stirred(ops, n)
    <3>1. CASE ops[n].op = "RunPython"
      BY <3>1 DEF Evolution!Stirred
    <3>2. CASE ops[n].op # "RunPython"
      <4>1. PICK k \in 1 .. n - 1 : ops[k].op = "RunPython"
        BY <2>2, <2>3, <2>5, <3>2 DEF Evolution!Stirred
      <4>2. k \in 1 .. n
        OBVIOUS
      <4> QED BY <4>1, <4>2 DEF Evolution!Stirred
    <3> QED BY <3>1, <3>2
  <2>6. ASSUME ~e.ok
        PROVE  Evolution!MayStopAt(ops, s, n)
    BY <1>0, <2>2, <2>3, <2>6 DEF Evolution!MayStopAt
  <2> QED BY <1>0, <1>1, <2>2, <2>3, <2>4, <2>5, <2>6 DEF Reached
<1> QED BY <1>2, <1>3

LEMMA ReachedAll ==
  ASSUME NEW ops, Len(ops) \in Nat, NEW d, IsDatabase(d), d.ok, Good(d.tables), d.pending = {},
         NEW s, s = Schema(d.tables), NEW f, f = Performed(ops, d)
  PROVE  \A n \in 0 .. Len(ops) : Reached(ops, s, f[n], n)
<1> DEFINE T == {n \in 0 .. Len(ops) : ~Reached(ops, s, f[n], n)}
<1> SUFFICES ASSUME T # {} PROVE FALSE
  OBVIOUS
<1>1. T \subseteq Nat
  OBVIOUS
<1>2. PICK n \in T : \A m \in T : n <= m
  <2> HIDE DEF T
  <2> QED BY <1>1, Least
<1>3. n \in 0 .. Len(ops) /\ ~Reached(ops, s, f[n], n)
  OBVIOUS
<1>4. CASE n = 0
  <2>1. f[0] = d
    BY PerformedIs
  <2>2. Evolution!Changed(ops, s)[0] = s
    BY ChangedIs
  <2>3. Evolution!AllFit(ops, s, 0)
    BY DEF Evolution!AllFit
  <2>4. Reached(ops, s, d, 0)
    BY <2>2, <2>3 DEF Reached
  <2> QED BY <1>3, <1>4, <2>1, <2>4
<1>5. CASE n # 0
  <2>1. n \in 1 .. Len(ops) /\ n - 1 \in 0 .. Len(ops) /\ n - 1 \notin T
    BY <1>2, <1>3, <1>5
  <2>2. f[n] = Perform(ops[n], f[n - 1])
    BY <2>1, PerformedIs
  <2>3. Reached(ops, s, f[n - 1], n - 1)
    BY <2>1
  <2> QED BY <1>3, <2>1, <2>2, <2>3, ReachedNext
<1> QED BY <1>4, <1>5

----------------------------------------------------------------------------
(* Rows the application writes do not touch the schema, and the store takes    *)
(* only sound ones.                                                            *)
LEMMA WrittenGood ==
  ASSUME NEW ts, Good(ts), NEW m
  PROVE  Good(Written(ts, m)) /\ Schema(Written(ts, m)) = Schema(ts)
<1> DEFINE us == WithRows(ts, Finished(m))
<1>1. SameSchema(us, ts)
  <2>1. DOMAIN us = DOMAIN ts /\ us = [t \in DOMAIN us |-> us[t]]
    BY DEF WithRows
  <2>2. \A t \in DOMAIN ts : \E rows : us[t] = [ts[t] EXCEPT !.rows = rows]
    BY DEF WithRows
  <2> HIDE DEF us
  <2> QED BY <2>1, <2>2, RowsOnly DEF Good
<1>2. Tabular(us) /\ WellFormed(us)
  BY <1>1, WellFormedSchema DEF SameSchema, Good
<1>3. CASE AllSound(us)
  BY <1>1, <1>2, <1>3 DEF Written, Good, SameSchema
<1>4. CASE ~AllSound(us)
  BY <1>4 DEF Written
<1> QED BY <1>3, <1>4

LEMMA OpenedGood ==
  ASSUME Good(tables)
  PROVE  IsDatabase(Opened) /\ Opened.ok /\ Opened.pending = {} /\ Opened.tables = tables
BY DEF IsDatabase, Opened

LEMMA FirstGood == Good(auth_tables) /\ Schema(auth_tables) = auth_tables
<1> DEFINE cols == Only({"name"}) @@ Maybe({"permission"})
           t == Table("name", cols, {}, Empty, Empty, Empty)
           ts == "group" :> t
<1>1. auth_tables = ts
  BY DEF auth_tables
<1>2. /\ DOMAIN cols = {"name", "permission"}
      /\ \A f \in DOMAIN cols : cols[f].ref = ""
  BY DEF Only, Maybe, Column, ColumnOf, @@
<1> HIDE DEF cols
<1>3. IsTable(t) /\ t.key = "name" /\ t.cols = cols /\ t.rows = {} /\ t.unique = Empty /\ t.check = Empty
  BY Fields
<1>4. Bare(t) = t
  BY BareOf
<1> HIDE DEF t
<1>5. DOMAIN ts = {"group"} /\ ts["group"] = t /\ ts = [m \in DOMAIN ts |-> ts[m]]
  BY DEF :>
<1>6. Tabular(ts)
  BY <1>3, <1>5 DEF Tabular
<1>7. WellFormed(ts)
  BY <1>2, <1>3, <1>5 DEF WellFormed, Coherent, Linked, Empty
<1>8. AllSound(ts)
  BY <1>3, <1>5 DEF AllSound, Sound, RespectsColumns, RespectsConstraints
<1>9. Schema(ts) = ts
  BY <1>4, <1>5 DEF Schema
<1> QED BY <1>1, <1>6, <1>7, <1>8, <1>9 DEF Good

----------------------------------------------------------------------------
(* Every table respects its own constraints at all times, in an upgrade of any *)
(* installation, and the schema makes sense.                                   *)
Invariant == UpgradeTypeOK /\ Good(tables)

LEMMA InitInvariant == UpgradeInit => Invariant
<1> SUFFICES ASSUME UpgradeInit PROVE Invariant
  OBVIOUS
<1>1. Good(tables)
  BY FirstGood DEF UpgradeInit
<1>2. UpgradeTypeOK
  BY <1>1 DEF UpgradeInit, UpgradeTypeOK, Good
<1> QED BY <1>1, <1>2 DEF Invariant

LEMMA MigrateStep ==
  ASSUME Invariant, NEW m \in All, Migrate(m)
  PROVE  Good(tables)' /\ UpgradeTypeOK' /\ (Evolution!Apply(m) \/ Evolution!Stop(m))
<1>0. PICK ops, s, d, f : /\ ops = Migration(m).ops /\ s = Schema(tables)
                          /\ d = Opened /\ f = Performed(ops, d)
  OBVIOUS
<1>1. Len(ops) \in Nat
  BY <1>0, Lengths
<1>2. Reached(ops, s, f[Len(ops)], Len(ops))
  <2>1. IsDatabase(d) /\ d.ok /\ d.pending = {} /\ d.tables = tables /\ Good(tables)
    BY <1>0, OpenedGood DEF Invariant
  <2>2. \A n \in 0 .. Len(ops) : Reached(ops, s, f[n], n)
    BY <1>0, <1>1, <2>1, ReachedAll
  <2>3. Len(ops) \in 0 .. Len(ops)
    BY <1>1
  <2> QED BY <2>2, <2>3
<1>3. PICK e : e = f[Len(ops)]
  OBVIOUS
<1>4. Evolution!Due(m) /\ Migration(m).atomic
  BY DEF Migrate, CanApply, Evolution!Due
<1>5. UNCHANGED <<current, done, cut, seed>>
  BY DEF Migrate
<1>6. CASE e.ok
  <2>1. tables' = Written(e.tables, m) /\ applied' = applied \union {m} /\ UNCHANGED failed
    BY <1>0, <1>3, <1>6 DEF Migrate, Record
  <2>2. Good(e.tables) /\ Schema(e.tables) = Evolution!Changed(ops, s)[Len(ops)] /\ Evolution!AllFit(ops, s, Len(ops))
    BY <1>2, <1>3, <1>6 DEF Reached
  <2>3. Good(tables)' /\ Schema(tables)' = Evolution!Changed(ops, s)[Len(ops)]
    BY <2>1, <2>2, WrittenGood
  <2>4. Evolution!Apply(m)
    BY <1>0, <1>4, <1>5, <2>1, <2>2, <2>3 DEF Evolution!Apply
  <2>5. UpgradeTypeOK'
    BY <1>5, <2>1, <2>3 DEF Invariant, UpgradeTypeOK, Good
  <2> QED BY <2>3, <2>4, <2>5
<1>7. CASE ~e.ok
  <2>1. UNCHANGED <<tables, applied>> /\ failed' = m
    BY <1>0, <1>3, <1>7 DEF Migrate
  <2>2. \E k \in 1 .. Len(ops) : Evolution!MayStopAt(ops, s, k)
    BY <1>2, <1>3, <1>7 DEF Reached
  <2>3. Evolution!Stop(m)
    BY <1>0, <1>4, <1>5, <2>1, <2>2 DEF Evolution!Stop
  <2>4. Good(tables)' /\ UpgradeTypeOK'
    BY <1>5, <2>1 DEF Invariant, UpgradeTypeOK
  <2> QED BY <2>3, <2>4
<1> QED BY <1>6, <1>7

LEMMA BeginStep ==
  ASSUME Invariant, NEW m \in All, Begin(m)
  PROVE  Good(tables)' /\ UpgradeTypeOK' /\ Evolution!Start(m)
<1>1. UNCHANGED <<tables, applied, cut, failed, seed>> /\ current' = m /\ done' = 0
  BY DEF Begin
<1>2. Evolution!Start(m)
  BY <1>1 DEF Begin, CanApply, Evolution!Due, Evolution!Start
<1>3. Len(Migration(m).ops) \in Nat
  BY Lengths
<1>4. UpgradeTypeOK'
  BY <1>1, <1>3 DEF Invariant, UpgradeTypeOK
<1> QED BY <1>1, <1>2, <1>4 DEF Invariant

LEMMA CarryOutStep ==
  ASSUME Invariant, CarryOut
  PROVE  Good(tables)' /\ UpgradeTypeOK' /\ (Evolution!Step \/ Evolution!StopInside)
<1>0. PICK o, s, d, e : /\ o = Migration(current).ops[done + 1] /\ s = Schema(tables)
                        /\ d = Opened /\ e = Perform(o, d)
  OBVIOUS
<1>1. current \in All /\ current # None /\ done < Len(Migration(current).ops)
  BY DEF CarryOut, Invariant, UpgradeTypeOK
<1>2. Len(Migration(current).ops) \in Nat /\ done \in 0 .. Len(Migration(current).ops)
  BY <1>1, Lengths DEF Invariant, UpgradeTypeOK
<1>3. /\ IsDatabase(e)
      /\ e.ok => Good(e.tables) /\ Fits(o, s) /\ Schema(e.tables) = Change(o, s)
      /\ ~e.ok => ~Fits(o, s) \/ MayRefuse(o, s)
  <2>1. IsDatabase(d) /\ d.ok /\ d.pending = {} /\ d.tables = tables /\ Good(tables)
    BY <1>0, OpenedGood DEF Invariant
  <2> QED BY <1>0, <2>1, Performs
<1>4. Evolution!UnderWay /\ Evolution!NextOperation = o
  BY <1>0, <1>1 DEF Evolution!UnderWay, Evolution!NextOperation
<1>5. UNCHANGED <<applied, cut, seed>>
  BY DEF CarryOut
<1>6. CASE e.ok
  <2>1. tables' = e.tables /\ done' = done + 1 /\ UNCHANGED <<failed, current>>
    BY <1>0, <1>6 DEF CarryOut
  <2>2. Schema(tables)' = Change(o, s) /\ Good(tables)'
    BY <1>3, <1>6, <2>1
  <2>3. Evolution!Step
    BY <1>0, <1>3, <1>4, <1>5, <1>6, <2>1, <2>2 DEF Evolution!Step
  <2>4. UpgradeTypeOK'
    BY <1>1, <1>2, <1>5, <2>1, <2>2 DEF Invariant, UpgradeTypeOK, Good
  <2> QED BY <2>2, <2>3, <2>4
<1>7. CASE ~e.ok
  <2>1. failed' = current /\ current' = None /\ done' = 0 /\ UNCHANGED tables
    BY <1>0, <1>7 DEF CarryOut
  <2>2. Evolution!StopInside
    BY <1>0, <1>3, <1>4, <1>5, <1>7, <2>1 DEF Evolution!StopInside
  <2>3. UpgradeTypeOK'
    BY <1>1, <1>5, <2>1 DEF Invariant, UpgradeTypeOK
  <2> QED BY <2>1, <2>2, <2>3 DEF Invariant
<1> QED BY <1>6, <1>7

LEMMA FinishStep ==
  ASSUME Invariant, Finish
  PROVE  Good(tables)' /\ UpgradeTypeOK' /\ Evolution!Complete
<1>1. /\ tables' = Written(tables, current) /\ applied' = applied \union {current}
      /\ current' = None /\ done' = 0 /\ UNCHANGED <<cut, failed, seed>>
  BY DEF Finish, Record
<1>2. Good(tables)' /\ UNCHANGED Schema(tables)
  BY <1>1, WrittenGood DEF Invariant
<1>3. Evolution!Complete
  BY <1>1, <1>2 DEF Finish, Evolution!Complete
<1>4. UpgradeTypeOK'
  BY <1>1, <1>2 DEF Finish, Invariant, UpgradeTypeOK, Good
<1> QED BY <1>2, <1>3, <1>4

LEMMA KilledStep ==
  ASSUME Invariant, Killed
  PROVE  Good(tables)' /\ UpgradeTypeOK' /\ Evolution!Die
<1>1. Evolution!Die
  BY DEF Killed, Evolution!Die
<1>2. UNCHANGED <<tables, applied, failed, seed>> /\ current' = None /\ done' = 0
  BY DEF Killed
<1>3. cut' \subseteq cut \union {current} /\ current \in All
  BY DEF Killed, Invariant, UpgradeTypeOK
<1>4. UpgradeTypeOK'
  BY <1>2, <1>3 DEF Invariant, UpgradeTypeOK
<1> QED BY <1>1, <1>2, <1>4 DEF Invariant

LEMMA KilledInsideStep ==
  ASSUME Invariant, KilledInside
  PROVE  Good(tables)' /\ UpgradeTypeOK' /\ Evolution!DieInside
<1>0. PICK o, s, d, e : /\ o = Migration(current).ops[done + 1] /\ s = Schema(tables)
                        /\ d = Opened /\ e = Perform(o, d)
  OBVIOUS
<1>1. current \in All /\ current # None /\ done < Len(Migration(current).ops)
  BY DEF KilledInside, Invariant, UpgradeTypeOK
<1>2. o.op = "AddIndex" /\ e.ok /\ tables' = e.tables
  BY <1>0 DEF KilledInside
<1>3. Good(e.tables) /\ Fits(o, s) /\ Schema(e.tables) = Change(o, s)
  <2>1. IsDatabase(d) /\ d.ok /\ d.pending = {} /\ d.tables = tables /\ Good(tables)
    BY <1>0, OpenedGood DEF Invariant
  <2> QED BY <1>0, <1>1, <1>2, <2>1, Performs
<1>4. Evolution!UnderWay /\ Evolution!NextOperation = o
  BY <1>0, <1>1 DEF Evolution!UnderWay, Evolution!NextOperation
<1>5. /\ UNCHANGED <<applied, failed, seed>> /\ cut' = cut \union {current}
      /\ current' = None /\ done' = 0
  BY DEF KilledInside
<1>6. Schema(tables)' = Change(o, s) /\ Good(tables)'
  BY <1>2, <1>3
<1>7. Evolution!DieInside
  BY <1>0, <1>2, <1>3, <1>4, <1>5, <1>6 DEF Evolution!DieInside
<1>8. UpgradeTypeOK'
  BY <1>1, <1>5, <1>6 DEF Invariant, UpgradeTypeOK, Good
<1> QED BY <1>6, <1>7, <1>8

LEMMA NextInvariant ==
  ASSUME Invariant, [UpgradeNext]_upgradeVars
  PROVE  Invariant' /\ [Evolution!EvolutionNext]_(Evolution!evolutionVars)
<1>1. CASE UNCHANGED upgradeVars
  BY <1>1 DEF upgradeVars, Invariant, UpgradeTypeOK, Evolution!evolutionVars
<1>2. ASSUME NEW m \in All, Migrate(m)
      PROVE  Invariant' /\ [Evolution!EvolutionNext]_(Evolution!evolutionVars)
  BY <1>2, MigrateStep DEF Invariant, Evolution!EvolutionNext
<1>3. ASSUME NEW m \in All, Begin(m)
      PROVE  Invariant' /\ [Evolution!EvolutionNext]_(Evolution!evolutionVars)
  BY <1>3, BeginStep DEF Invariant, Evolution!EvolutionNext
<1>4. CASE CarryOut
  BY <1>4, CarryOutStep DEF Invariant, Evolution!EvolutionNext
<1>5. CASE Finish
  BY <1>5, FinishStep DEF Invariant, Evolution!EvolutionNext
<1>6. CASE Killed
  BY <1>6, KilledStep DEF Invariant, Evolution!EvolutionNext
<1>7. CASE KilledInside
  BY <1>7, KilledInsideStep DEF Invariant, Evolution!EvolutionNext
<1> QED BY <1>1, <1>2, <1>3, <1>4, <1>5, <1>6, <1>7 DEF UpgradeNext

(* Whatever the history of an installation and wherever its upgrade stops or   *)
(* is killed, no table breaks its own constraints, and the bookkeeping of      *)
(* `migrate` stays in its range.                                               *)
THEOREM UpgradeTypeCorrect == UpgradeSpec => []UpgradeTypeOK
<1>1. Invariant => UpgradeTypeOK
  BY DEF Invariant
<1> QED BY <1>1, InitInvariant, NextInvariant, PTL DEF UpgradeSpec

(* For any rows, the schema evolves as it does with the rows left aside: they  *)
(* decide whether an operation that asks more of them, or a data step, is      *)
(* carried out, and nothing else about the schema.                             *)
THEOREM UpgradeEvolves == UpgradeSpec => EvolvesAsItsSchema
<1>1. UpgradeInit => Evolution!EvolutionInit
  BY FirstGood DEF UpgradeInit, Evolution!EvolutionInit
<1> QED
  BY <1>1, InitInvariant, NextInvariant, PTL
  DEF UpgradeSpec, EvolvesAsItsSchema, Evolution!EvolutionSpec

(* The tables of the models, as far as the schema goes.                        *)
LEMMA ModelsOfTheSchema ==
  ASSUME Good(tables), TheModels(Schema(tables))
  PROVE  TheModels(tables)
<1> PICK s : s = Schema(tables)
  OBVIOUS
<1>1. /\ DOMAIN s = DOMAIN tables
      /\ \A m \in DOMAIN tables :
            /\ s[m].cols = tables[m].cols /\ s[m].unique = tables[m].unique
            /\ s[m].check = tables[m].check /\ s[m].idx = tables[m].idx
  BY SchemaFacts DEF Good
<1>2. TheModels(s)
  OBVIOUS
<1>3. DOMAIN tables = DOMAIN Models \union Foreign
  BY <1>1, <1>2 DEF TheModels
<1>4. ASSUME NEW m \in DOMAIN Models
      PROVE  Models[m] = Model(tables[m].cols, tables[m].unique, tables[m].check, tables[m].idx)
  <2>1. Models[m] = Model(s[m].cols, s[m].unique, s[m].check, s[m].idx)
    BY <1>2 DEF TheModels
  <2>2. m \in DOMAIN tables
    BY <1>3
  <2> QED BY <1>1, <2>1, <2>2
<1> QED BY <1>3, <1>4 DEF TheModels

(* If the schema alone, in all orders and with every stop and crash, ends as   *)
(* that of the models (the invariant EvolvesToTheModels, which SchemaUpgrade   *)
(* checks completely), so do the tables of every installation, whatever its    *)
(* history and its rows.                                                       *)
THEOREM EveryInstallationEndsWithTheModels ==
  (Evolution!EvolutionSpec => [](applied = All => TheModels(Schema(tables))))
      => (UpgradeSpec => []SchemaIsTheModels)
<1>1. UpgradeSpec => Evolution!EvolutionSpec
  BY UpgradeEvolves DEF EvolvesAsItsSchema
<1>2. UpgradeSpec => []Invariant
  BY InitInvariant, NextInvariant, PTL DEF UpgradeSpec
<1>3. ASSUME Invariant, applied = All => TheModels(Schema(tables))
      PROVE  SchemaIsTheModels
  BY <1>3, ModelsOfTheSchema DEF Invariant, SchemaIsTheModels, Complete
<1> QED BY <1>1, <1>2, <1>3, PTL

----------------------------------------------------------------------------
(* Three migrations make the rows fit before they add a constraint: 0035       *)
(* deletes images, 0051 findings, and 0059 sets sets at rest.  The tables keep *)
(* their schema and the keys that others refer to.                             *)
LEMMA SchemasAgree ==
  ASSUME NEW ts, NEW us, Tabular(ts), SameSchema(us, ts)
  PROVE  /\ DOMAIN us = DOMAIN ts
         /\ \A m \in DOMAIN ts :
               /\ IsTable(us[m]) /\ us[m].key = ts[m].key /\ us[m].cols = ts[m].cols
               /\ us[m].unique = ts[m].unique /\ us[m].check = ts[m].check /\ us[m].idx = ts[m].idx
<1> PICK s : s = Schema(ts)
  OBVIOUS
<1>1. /\ DOMAIN s = DOMAIN ts
      /\ \A m \in DOMAIN ts :
            /\ s[m].key = ts[m].key /\ s[m].cols = ts[m].cols
            /\ s[m].unique = ts[m].unique /\ s[m].check = ts[m].check /\ s[m].idx = ts[m].idx
  BY SchemaFacts
<1>2. s = Schema(us) /\ Tabular(us)
  BY DEF SameSchema
<1>3. /\ DOMAIN s = DOMAIN us
      /\ \A m \in DOMAIN us :
            /\ IsTable(us[m]) /\ s[m].key = us[m].key /\ s[m].cols = us[m].cols
            /\ s[m].unique = us[m].unique /\ s[m].check = us[m].check /\ s[m].idx = us[m].idx
  BY <1>2, SchemaFacts
<1> QED BY <1>1, <1>3

OnlyRowsOf(ts, us, model) == \A m \in DOMAIN ts \ {model} : us[m].rows = ts[m].rows

(* A table nobody refers to loses the rows that are deleted, and no other      *)
(* table loses any.                                                            *)
LEMMA DeletesAlone ==
  ASSUME NEW ts, Tabular(ts), NEW model, model \in DOMAIN ts, model # "", Alone(ts, model), NEW rows,
         NEW us, us = DeleteRows(ts, model, rows)
  PROVE  /\ \A r : r \in us[model].rows <=> r \in ts[model].rows /\ r \notin rows
         /\ OnlyRowsOf(ts, us, model)
<1> DEFINE first == {model} \X rows
           once == first \union Referring(ts, first)
           gone == once \union Referring(ts, once)
<1>1. us = [m \in DOMAIN ts |-> [ts[m] EXCEPT !.rows = {r \in @ : <<m, r>> \notin gone}]]
  BY DEF DeleteRows
<1>2. Referring(ts, first) = {}
  <2> SUFFICES ASSUME NEW e \in Entries(ts), NEW g \in first, RefersTo(ts, e, g)
               PROVE  FALSE
    BY DEF Referring
  <2>1. g[1] = model
    OBVIOUS
  <2>2. e[1] \in DOMAIN ts
    <3>1. PICK m \in DOMAIN ts : e \in {m} \X ts[m].rows
      BY DEF Entries
    <3> QED BY <3>1
  <2>3. PICK f \in DOMAIN ts[e[1]].cols : g[1] = ts[e[1]].cols[f].ref
    BY DEF RefersTo
  <2>4. model \in Targets(ts[e[1]].cols)
    BY <2>1, <2>3 DEF Targets
  <2> QED BY <2>2, <2>4 DEF Alone
<1>3. once = first
  BY <1>2
<1>4. gone = first
  BY <1>2, <1>3
<1> HIDE DEF gone
<1>5. \A m \in DOMAIN ts : us[m].rows = {r \in ts[m].rows : <<m, r>> \notin first}
  <2> TAKE m \in DOMAIN ts
  <2> DEFINE t == ts[m]
             left == {r \in t.rows : <<m, r>> \notin gone}
  <2>1. us[m] = [t EXCEPT !.rows = left]
    BY <1>1
  <2>2. t = Table(t.key, t.cols, t.rows, t.unique, t.check, t.idx)
    BY DEF Tabular, IsTable
  <2> HIDE DEF t
  <2>3. us[m].rows = left
    <3> HIDE DEF left
    <3> QED BY <2>1, <2>2 DEF Table
  <2> QED BY <1>4, <2>3 DEF t
<1>6. us[model].rows = ts[model].rows \ rows
  <2>1. \A r : <<model, r>> \in first <=> r \in rows
    OBVIOUS
  <2> QED BY <1>5, <2>1
<1>7. ASSUME NEW m \in DOMAIN ts \ {model}
      PROVE  us[m].rows = ts[m].rows
  <2>1. \A r : <<m, r>> \notin first
    OBVIOUS
  <2> QED BY <1>5, <2>1
<1> QED BY <1>6, <1>7 DEF OnlyRowsOf

LEMMA FewerStillFit ==
  ASSUME NEW ts, NEW us, NEW t, NEW u, RespectsColumns(ts, t), RespectsConstraints(t),
         u.rows \subseteq t.rows, u.cols = t.cols, u.unique = t.unique, u.check = t.check,
         \A f \in DOMAIN t.cols : t.cols[f].ref # "" => Keys(us[t.cols[f].ref]) = Keys(ts[t.cols[f].ref])
  PROVE  RespectsColumns(us, u) /\ RespectsConstraints(u)
<1>1. ASSUME NEW r \in u.rows
      PROVE  /\ DOMAIN r = DOMAIN u.cols
             /\ \A f \in DOMAIN u.cols :
                   /\ u.cols[f].null \/ r[f] # None
                   /\ u.cols[f].unique => \A s \in u.rows \ {r} : ~Collide(r, s, {f})
                   /\ u.cols[f].ref # "" => r[f] = None \/ r[f] \in Keys(us[u.cols[f].ref])
  <2>1. r \in t.rows
    OBVIOUS
  <2>2. /\ DOMAIN r = DOMAIN t.cols
        /\ \A f \in DOMAIN t.cols :
              /\ t.cols[f].null \/ r[f] # None
              /\ t.cols[f].unique => \A s \in t.rows \ {r} : ~Collide(r, s, {f})
              /\ t.cols[f].ref # "" => r[f] = None \/ r[f] \in Keys(ts[t.cols[f].ref])
    BY <2>1 DEF RespectsColumns
  <2> QED BY <2>2
<1>2. ASSUME NEW r \in u.rows
      PROVE  /\ \A n \in DOMAIN u.unique :
                   Covered(r, u.unique[n]) =>
                       \A s \in u.rows \ {r} :
                           Covered(s, u.unique[n]) => ~Collide(r, s, u.unique[n].fields)
             /\ \A n \in DOMAIN u.check :
                   {f \in u.check[n].fields : r[f] # None} \in u.check[n].present
  <2>1. r \in t.rows
    OBVIOUS
  <2>2. /\ \A n \in DOMAIN t.unique :
              Covered(r, t.unique[n]) =>
                  \A s \in t.rows \ {r} :
                      Covered(s, t.unique[n]) => ~Collide(r, s, t.unique[n].fields)
        /\ \A n \in DOMAIN t.check :
              {f \in t.check[n].fields : r[f] # None} \in t.check[n].present
    BY <2>1 DEF RespectsConstraints
  <2> QED BY <2>2
<1> QED BY <1>1, <1>2 DEF RespectsColumns, RespectsConstraints

LEMMA FewerRows ==
  ASSUME NEW ts, NEW us, NEW model, Good(ts), SameSchema(us, ts), model \in DOMAIN ts, model # "",
         Alone(ts, model), us[model].rows \subseteq ts[model].rows, OnlyRowsOf(ts, us, model)
  PROVE  AllSound(us) /\ Queued(ts, us) = {}
<1>1. /\ DOMAIN us = DOMAIN ts
      /\ \A m \in DOMAIN ts :
            /\ us[m].key = ts[m].key /\ us[m].cols = ts[m].cols
            /\ us[m].unique = ts[m].unique /\ us[m].check = ts[m].check
  BY SchemasAgree DEF Good
<1>2. ASSUME NEW m \in DOMAIN ts
      PROVE  us[m].rows \subseteq ts[m].rows
  <2>1. CASE m = model
    BY <2>1
  <2>2. CASE m # model
    <3>1. us[m].rows = ts[m].rows
      BY <2>2 DEF OnlyRowsOf
    <3> QED BY <3>1
  <2> QED BY <2>1, <2>2
<1>3. ASSUME NEW m \in DOMAIN ts \ {model}
      PROVE  Keys(us[m]) = Keys(ts[m])
  <2>1. us[m].rows = ts[m].rows /\ us[m].key = ts[m].key
    BY <1>1 DEF OnlyRowsOf
  <2> QED BY <2>1 DEF Keys
<1>4. \A m \in DOMAIN ts : \A f \in DOMAIN ts[m].cols : ts[m].cols[f].ref # model
  <2> SUFFICES ASSUME NEW m \in DOMAIN ts, NEW f \in DOMAIN ts[m].cols, ts[m].cols[f].ref = model
               PROVE  FALSE
    OBVIOUS
  <2>1. model \in Targets(ts[m].cols)
    BY DEF Targets
  <2> QED BY <2>1 DEF Alone
<1>5. ASSUME NEW m \in DOMAIN ts
      PROVE  Sound(us, m)
  <2>1. RespectsColumns(ts, ts[m]) /\ RespectsConstraints(ts[m])
    BY DEF Good, AllSound, Sound
  <2>2. Linked(ts[m], DOMAIN ts)
    BY DEF Good, WellFormed
  <2>3. ASSUME NEW f \in DOMAIN ts[m].cols, ts[m].cols[f].ref # ""
        PROVE  Keys(us[ts[m].cols[f].ref]) = Keys(ts[ts[m].cols[f].ref])
    <3>1. ts[m].cols[f].ref \in DOMAIN ts \ {model}
      BY <1>4, <2>2, <2>3 DEF Linked
    <3> QED BY <1>3, <3>1
  <2>4. /\ us[m].rows \subseteq ts[m].rows /\ us[m].cols = ts[m].cols
        /\ us[m].unique = ts[m].unique /\ us[m].check = ts[m].check
    BY <1>1, <1>2
  <2>5. RespectsColumns(us, us[m]) /\ RespectsConstraints(us[m])
    BY <2>1, <2>3, <2>4, FewerStillFit
  <2> QED BY <2>5 DEF Sound
<1>6. ASSUME NEW m \in DOMAIN ts,
             \E r \in ts[m].rows : \A s \in us[m].rows : s[ts[m].key] # r[ts[m].key],
             \E n \in DOMAIN ts : m \in Targets(ts[n].cols)
      PROVE  FALSE
  <2>1. m # model
    BY <1>6 DEF Alone
  <2>2. us[m].rows = ts[m].rows
    BY <2>1 DEF OnlyRowsOf
  <2> QED BY <1>6, <2>2
<1>7. ASSUME NEW m \in DOMAIN ts, NEW s \in us[m].rows, NEW f \in DOMAIN us[m].cols,
             \A r \in ts[m].rows : r[ts[m].key] = s[ts[m].key] => r[f] # s[f]
      PROVE  FALSE
  <2>1. s \in ts[m].rows
    BY <1>2
  <2> QED BY <1>7, <2>1
<1>8. \A m \in DOMAIN ts : m \notin Queued(ts, us)
  BY <1>6, <1>7 DEF Queued
<1>9. Queued(ts, us) \subseteq DOMAIN ts
  BY DEF Queued
<1> QED BY <1>1, <1>5, <1>8, <1>9 DEF AllSound

\* The tables with the table of one model put in place of another that has the
\* same keys.
LEMMA SoundInPlace ==
  ASSUME NEW ts, NEW m, m \in DOMAIN ts, NEW u, Good(ts), Replaces(u, ts[m], DOMAIN ts),
         u.cols = ts[m].cols, u.rows = ts[m].rows
  PROVE  RespectsColumns([ts EXCEPT ![m] = u], u)
<1> DEFINE us == [ts EXCEPT ![m] = u]
<1>1. us[m] = u /\ \A n \in DOMAIN ts \ {m} : us[n] = ts[n]
  BY Replaced DEF Good, Replaces
<1> HIDE DEF us
<1>2. \A n \in DOMAIN ts : Keys(us[n]) = Keys(ts[n])
  BY <1>1 DEF Replaces
<1>3. RespectsColumns(ts, ts[m]) /\ Linked(ts[m], DOMAIN ts)
  BY DEF Good, AllSound, Sound, WellFormed
<1>4. ASSUME NEW r \in u.rows
      PROVE  /\ DOMAIN r = DOMAIN u.cols
             /\ \A f \in DOMAIN u.cols :
                   /\ u.cols[f].null \/ r[f] # None
                   /\ u.cols[f].unique => \A s \in u.rows \ {r} : ~Collide(r, s, {f})
                   /\ u.cols[f].ref # "" => r[f] = None \/ r[f] \in Keys(us[u.cols[f].ref])
  <2>1. /\ DOMAIN r = DOMAIN ts[m].cols
        /\ \A f \in DOMAIN ts[m].cols :
              /\ ts[m].cols[f].null \/ r[f] # None
              /\ ts[m].cols[f].unique => \A s \in ts[m].rows \ {r} : ~Collide(r, s, {f})
              /\ ts[m].cols[f].ref # "" => r[f] = None \/ r[f] \in Keys(ts[ts[m].cols[f].ref])
    BY <1>3 DEF RespectsColumns
  <2>2. \A f \in DOMAIN ts[m].cols : ts[m].cols[f].ref = "" \/ ts[m].cols[f].ref \in DOMAIN ts
    BY <1>3 DEF Linked
  <2> QED BY <1>2, <2>1, <2>2
<1> QED BY <1>4 DEF RespectsColumns, us

\* A uniqueness constraint can be added when no two rows it covers collide.
Distinct(rows, c) ==
    \A r \in rows : Covered(r, c) => \A s \in rows \ {r} : Covered(s, c) => ~Collide(r, s, c.fields)
Added(o) == [fields |-> o.fields, except |-> IF o.op = "AddUnique" THEN o.except ELSE Always]

LEMMA UniqueAdded ==
  ASSUME NEW o, NEW t, IsTable(t),
         \/ o.op = "AddUnique"
         \/ o.op = "AlterUniqueTogether" /\ o.fields # {},
         NEW u, u = Altered(o, t)
  PROVE  /\ u.cols = t.cols /\ u.rows = t.rows /\ u.check = t.check
         /\ \A n \in DOMAIN u.unique :
               \/ u.unique[n] = Added(o)
               \/ n \in DOMAIN t.unique /\ u.unique[n] = t.unique[n]
<1>1. CASE o.op = "AddUnique"
  <2> DEFINE c == [fields |-> o.fields, except |-> o.except]
             unique == t.unique @@ (o.name :> c)
  <2>1. u = Table(t.key, t.cols, t.rows, unique, t.check, t.idx)
    BY <1>1, AlteredTable
  <2>2. c = Added(o)
    BY <1>1 DEF Added
  <2> HIDE DEF c
  <2>3. \A n \in DOMAIN unique : unique[n] = c \/ (n \in DOMAIN t.unique /\ unique[n] = t.unique[n])
    BY DEF @@, :>
  <2> HIDE DEF unique
  <2>4. u.cols = t.cols /\ u.rows = t.rows /\ u.unique = unique /\ u.check = t.check
    BY <2>1, Fields
  <2> QED BY <2>2, <2>3, <2>4
<1>2. CASE o.op = "AlterUniqueTogether" /\ o.fields # {}
  <2> DEFINE c == [fields |-> o.fields, except |-> Always]
             unique == IF o.fields = {} THEN Without(t.unique, {"together"})
                       ELSE ("together" :> c) @@ t.unique
  <2>1. u = Table(t.key, t.cols, t.rows, unique, t.check, t.idx)
    BY <1>2, AlteredTable
  <2>2. c = Added(o)
    BY <1>2 DEF Added
  <2> HIDE DEF c
  <2>3. \A n \in DOMAIN unique : unique[n] = c \/ (n \in DOMAIN t.unique /\ unique[n] = t.unique[n])
    BY <1>2 DEF @@, :>
  <2> HIDE DEF unique
  <2>4. u.cols = t.cols /\ u.rows = t.rows /\ u.unique = unique /\ u.check = t.check
    BY <2>1, Fields
  <2> QED BY <2>2, <2>3, <2>4
<1> QED BY <1>1, <1>2

LEMMA UniqueFits ==
  ASSUME NEW o, NEW ts, Good(ts), Possible(o, ts),
         \/ o.op = "AddUnique"
         \/ o.op = "AlterUniqueTogether" /\ o.fields # {},
         Distinct(ts[o.model].rows, Added(o))
  PROVE  Sound(Outcome(o, ts), o.model)
<1> PICK m, t, c : m = o.model /\ t = ts[m] /\ c = Added(o)
  OBVIOUS
<1> DEFINE u == Altered(o, t)
           us == [ts EXCEPT ![m] = u]
<1>1. m \in DOMAIN ts /\ o.op \in Local
  BY Asked, AskedOfConstraints DEF Local
<1>2. Outcome(o, ts) = us
  BY <1>1, LocalOutcome
<1>3. IsTable(t) /\ RespectsConstraints(t)
  BY <1>1 DEF Good, Tabular, AllSound, Sound
<1>4. Replaces(u, t, DOMAIN ts)
  <2>1. Aligned(t)
    BY <1>1 DEF Good, AllSound, Sound, RespectsColumns, Aligned
  <2>2. Tabular(ts) /\ WellFormed(ts)
    BY DEF Good
  <2> QED BY <1>1, <2>1, <2>2, LocalReplaces
<1>5. /\ u.cols = t.cols /\ u.rows = t.rows /\ u.check = t.check
      /\ \A n \in DOMAIN u.unique :
            \/ u.unique[n] = c
            \/ n \in DOMAIN t.unique /\ u.unique[n] = t.unique[n]
  BY <1>3, UniqueAdded
<1> HIDE DEF u
<1>6. RespectsColumns(us, u)
  BY <1>1, <1>4, <1>5, SoundInPlace
<1>7. ASSUME NEW r \in u.rows, NEW n \in DOMAIN u.unique, Covered(r, u.unique[n]),
             NEW s \in u.rows \ {r}, Covered(s, u.unique[n])
      PROVE  ~Collide(r, s, u.unique[n].fields)
  <2>1. CASE u.unique[n] = c
    BY <1>5, <1>7, <2>1 DEF Distinct
  <2>2. CASE n \in DOMAIN t.unique /\ u.unique[n] = t.unique[n]
    BY <1>3, <1>5, <1>7, <2>2 DEF RespectsConstraints
  <2> QED BY <1>5, <2>1, <2>2
<1>8. ASSUME NEW r \in u.rows, NEW n \in DOMAIN u.check
      PROVE  {f \in u.check[n].fields : r[f] # None} \in u.check[n].present
  BY <1>3, <1>5 DEF RespectsConstraints
<1>9. RespectsConstraints(u)
  BY <1>7, <1>8 DEF RespectsConstraints
<1>10. us[m] = u
  BY <1>1, <1>4, Replaced DEF Good, Replaces
<1> QED BY <1>2, <1>6, <1>9, <1>10 DEF Sound

\* An empty table stays empty, and nothing is wrong with it.
LEMMA EmptyFits ==
  ASSUME NEW o, NEW ts, Good(ts), Possible(o, ts), o.op \in Local, ts[o.model].rows = {}
  PROVE  Sound(Outcome(o, ts), o.model) /\ Outcome(o, ts)[o.model].rows = {}
<1> PICK m, t : m = o.model /\ t = ts[m]
  OBVIOUS
<1> DEFINE u == Altered(o, t)
           us == [ts EXCEPT ![m] = u]
<1>1. m \in DOMAIN ts
  BY Asked, AskedOfConstraints DEF Local
<1>2. Outcome(o, ts) = us
  BY <1>1, LocalOutcome
<1>3. IsTable(t)
  BY <1>1 DEF Good, Tabular
<1>4. Replaces(u, t, DOMAIN ts)
  <2>1. Aligned(t)
    BY <1>1 DEF Good, AllSound, Sound, RespectsColumns, Aligned
  <2>2. Tabular(ts) /\ WellFormed(ts)
    BY DEF Good
  <2> QED BY <1>1, <2>1, <2>2, LocalReplaces
<1> HIDE DEF u
<1>5. Keys(u) = {}
  <2>1. Keys(t) = {}
    BY DEF Keys
  <2> QED BY <1>4, <2>1 DEF Replaces
<1>6. u.rows = {}
  <2> SUFFICES ASSUME NEW r \in u.rows PROVE FALSE
    OBVIOUS
  <2>1. r[u.key] \in Keys(u)
    BY DEF Keys
  <2> QED BY <1>5, <2>1
<1>7. us[m] = u
  BY <1>1, <1>4, Replaced DEF Good, Replaces
<1> QED BY <1>2, <1>6, <1>7 DEF Sound, RespectsColumns, RespectsConstraints

\* The database of a transaction in which nothing has gone wrong.
InOrder(d) == IsDatabase(d) /\ d.ok /\ d.pending = {} /\ Good(d.tables)

\* The store carries out an operation that fits and leaves its table sound.
LEMMA CarriedOut ==
  ASSUME NEW o, NEW d, InOrder(d), o.op \in Local,
         Possible(o, d.tables), Sound(Outcome(o, d.tables), o.model), NEW e, e = Perform(o, d)
  PROVE  InOrder(e) /\ e.tables = Outcome(o, d.tables)
<1> DEFINE us == Outcome(o, d.tables)
<1>0. IsDatabase(d) /\ d.ok /\ d.pending = {} /\ Good(d.tables)
  BY DEF InOrder
<1>1. e = Execute(o, d)
  BY <1>0 DEF Perform, Local
<1> HIDE DEF us
<1>2. e = [d EXCEPT !.tables = us]
  <2>1. Execute(o, d) = [d EXCEPT !.tables = Outcome(o, d.tables)]
    BY <1>0 DEF Execute, Local
  <2> QED BY <1>1, <2>1 DEF us
<1>3. e.ok /\ e.pending = {} /\ e.tables = us
  BY <1>0, <1>2 DEF IsDatabase
<1>4. IsDatabase(e) /\ (e.ok => Good(e.tables))
  BY <1>0, Performs
<1> QED BY <1>3, <1>4 DEF us, InOrder

\* So it does a data step that leaves sound rows and no checks.
LEMMA CarriedOutData ==
  ASSUME NEW o, NEW d, InOrder(d), o.op = "RunPython", NEW us, us = Run(o.step, d.tables),
         ~Raises(o.step, d.tables), AllSound(us), Queued(d.tables, us) = {},
         NEW e, e = Perform(o, d)
  PROVE  InOrder(e) /\ e.tables = us
<1>0. IsDatabase(d) /\ d.ok /\ d.pending = {} /\ Good(d.tables)
  BY DEF InOrder
<1>1. e = RunStep(o, d)
  BY <1>0 DEF Perform
<1>2. e = [d EXCEPT !.tables = us, !.pending = @ \union Queued(d.tables, us)]
  BY <1>1 DEF RunStep
<1>3. e.ok /\ e.pending = {} /\ e.tables = us
  BY <1>0, <1>2 DEF IsDatabase
<1>4. IsDatabase(e) /\ (e.ok => Good(e.tables))
  BY <1>0, Performs
<1> QED BY <1>3, <1>4 DEF InOrder

\* Rows that are each the newest of those like them do not collide.
LEMMA NewestDistinct ==
  ASSUME NEW rows, NEW left, NEW c,
         \A r \in left : r = Newest(Alike(rows, r, c.fields))
  PROVE  Distinct(left, c)
<1> SUFFICES ASSUME NEW r \in left, NEW s \in left \ {r}, Collide(r, s, c.fields)
             PROVE  FALSE
  BY DEF Distinct
<1>1. \A f \in c.fields : r[f] = s[f]
  BY DEF Collide
<1>2. Alike(rows, r, c.fields) = Alike(rows, s, c.fields)
  BY <1>1 DEF Alike
<1>3. r = Newest(Alike(rows, r, c.fields)) /\ s = Newest(Alike(rows, s, c.fields))
  OBVIOUS
<1> QED BY <1>2, <1>3

\* What a migration asks of the schema, the tables have.
LEMMA FindsItsTables ==
  ASSUME NEW ops, Len(ops) \in Nat, NEW d, InOrder(d), NEW s, s = Schema(d.tables),
         Evolution!AllFit(ops, s, Len(ops)), NEW f, f = Performed(ops, d),
         NEW n \in 1 .. Len(ops), f[n - 1].ok, NEW o, o = ops[n], o.op \notin {"RunPython", "AlterType"}
  PROVE  Possible(o, f[n - 1].tables)
<1>1. n - 1 \in 0 .. Len(ops)
  OBVIOUS
<1>2. Reached(ops, s, f[n - 1], n - 1)
  <2>1. IsDatabase(d) /\ d.ok /\ d.pending = {} /\ Good(d.tables)
    BY DEF InOrder
  <2>2. \A k \in 0 .. Len(ops) : Reached(ops, s, f[k], k)
    BY <2>1, ReachedAll
  <2> QED BY <1>1, <2>2
<1>3. PICK ts, b : ts = f[n - 1].tables /\ b = Evolution!Changed(ops, s)[n - 1]
  OBVIOUS
<1>4. Tabular(ts) /\ Schema(ts) = b
  BY <1>2, <1>3 DEF Reached, Good
<1>5. Possible(o, b)
  BY <1>3 DEF Evolution!AllFit, Fits
<1> QED BY <1>3, <1>4, <1>5, SamePossible
LEMMA AloneIn ==
  ASSUME NEW ts, Tabular(ts), NEW model, Alone(Schema(ts), model)
  PROVE  Alone(ts, model)
<1> PICK s : s = Schema(ts)
  OBVIOUS
<1>1. DOMAIN s = DOMAIN ts /\ \A m \in DOMAIN ts : s[m].cols = ts[m].cols
  BY SchemaFacts
<1> QED BY <1>1 DEF Alone

\* 0035: of the images with one reference the newest is left, and the
\* constraint is added.
LEMMA Migration35 ==
  ASSUME NEW ops, ops = api0035.ops, NEW d, InOrder(d), NEW s, s = Schema(d.tables),
         Evolution!AllFit(ops, s, Len(ops)), Alone(s, "image"), NEW f, f = Performed(ops, d)
  PROVE  f[Len(ops)].ok
<1> DEFINE fields == {"deduplication_set", "reference_pk"}
<1> PICK o1, o2, ts, us : /\ o1 = RunPython("remove_duplicate_images")
                          /\ o2 = Together("image", fields)
                          /\ ts = d.tables /\ us = remove_duplicate_images(ts)
  OBVIOUS
<1>1. Len(ops) = 2 /\ ops[1] = o1 /\ ops[2] = o2
  BY DEF api0035, After
<1>2. f[0] = d /\ f[1] = Perform(o1, d) /\ f[2] = Perform(o2, f[1])
  <2>1. 1 \in 1 .. 2 /\ 2 \in 1 .. 2 /\ 1 - 1 = 0 /\ 2 - 1 = 1
    OBVIOUS
  <2> QED BY <1>1, <2>1, PerformedIs
<1>3. o1.op = "RunPython" /\ o1.step = "remove_duplicate_images"
  BY DEF RunPython
<1>4. o2.op = "AlterUniqueTogether" /\ o2.model = "image" /\ o2.fields = fields
  BY DEF Together
<1>5. Good(ts) /\ us = Run(o1.step, ts) /\ ~Raises(o1.step, ts)
  BY <1>3 DEF InOrder, Run, Raises
<1>6. SameSchema(us, ts)
  BY <1>5, remove_duplicate_images_keeps DEF Good
<1>7. Possible(o2, s)
  <2>1. Evolution!Changed(ops, s)[1] = Change(o1, s)
    BY <1>1, ChangedIs
  <2>2. Change(o1, s) = s
    BY <1>3 DEF Change
  <2>3. Fits(o2, Evolution!Changed(ops, s)[2 - 1])
    BY <1>1 DEF Evolution!AllFit
  <2> QED BY <1>4, <2>1, <2>2, <2>3 DEF Fits
<1>8. Possible(o2, us) /\ "image" \in DOMAIN ts
  <2>1. Possible(o2, us)
    BY <1>4, <1>6, <1>7, SamePossible DEF SameSchema
  <2>2. "image" \in DOMAIN us
    BY <1>4, <2>1, AskedOfConstraints
  <2> QED BY <1>5, <1>6, <2>1, <2>2, SchemasAgree DEF Good
<1>9. Alone(ts, "image")
  BY <1>5, AloneIn DEF Good
<1> DEFINE rows == ts["image"].rows
           gone == {r \in rows : r # Newest(Alike(rows, r, fields))}
<1>10. us["image"].rows = rows \ gone /\ OnlyRowsOf(ts, us, "image")
  <2>1. us = DeleteRows(ts, "image", gone)
    BY DEF remove_duplicate_images, Rows
  <2>2. Tabular(ts) /\ "image" # ""
    BY <1>5 DEF Good
  <2>3. PICK less : less = gone
    OBVIOUS
  <2> HIDE DEF gone
  <2>4. PICK model : model = "image"
    OBVIOUS
  <2>5. us = DeleteRows(ts, model, less)
    BY <2>1, <2>3, <2>4
  <2>6. Tabular(ts) /\ model \in DOMAIN ts /\ model # "" /\ Alone(ts, model)
    BY <1>8, <1>9, <2>2, <2>4
  <2>7. OnlyRowsOf(ts, us, model)
    BY <2>5, <2>6, DeletesAlone
  <2>8. \A r : r \in us[model].rows <=> r \in ts[model].rows /\ r \notin less
    BY <2>5, <2>6, DeletesAlone
  <2> QED BY <2>3, <2>4, <2>7, <2>8
<1>11. AllSound(us) /\ Queued(ts, us) = {}
  <2>1. us["image"].rows \subseteq ts["image"].rows
    BY <1>10
  <2> QED BY <1>5, <1>6, <1>8, <1>9, <1>10, <2>1, FewerRows
<1>12. InOrder(f[1]) /\ f[1].tables = us
  BY <1>2, <1>3, <1>5, <1>11, CarriedOutData
<1>13. Distinct(us["image"].rows, Added(o2))
  <2>1. Added(o2).fields = fields
    BY <1>4 DEF Added
  <2>2. \A r \in us["image"].rows : r = Newest(Alike(rows, r, fields))
    BY <1>10
  <2>3. PICK c, left, all : c = Added(o2) /\ left = us["image"].rows /\ all = rows
    OBVIOUS
  <2> HIDE DEF rows, fields
  <2>4. \A r \in left : r = Newest(Alike(all, r, c.fields))
    BY <2>1, <2>2, <2>3
  <2>5. Distinct(left, c)
    BY <2>4, NewestDistinct
  <2> QED BY <2>3, <2>5
<1>14. Sound(Outcome(o2, us), o2.model)
  <2>1. Good(us) /\ o2.fields # {}
    BY <1>4, <1>12 DEF InOrder
  <2> QED BY <1>4, <1>8, <1>13, <2>1, UniqueFits
<1>15. InOrder(f[2])
  <2>1. o2.op \in Local
    BY <1>4 DEF Local
  <2> QED BY <1>2, <1>8, <1>12, <1>14, <2>1, CarriedOut
<1> QED BY <1>1, <1>15 DEF InOrder

\* One operation on a table without rows.
LEMMA EmptyStep ==
  ASSUME NEW ops, Len(ops) \in Nat, NEW d, InOrder(d), NEW s, s = Schema(d.tables),
         Evolution!AllFit(ops, s, Len(ops)), NEW f, f = Performed(ops, d),
         NEW n \in 1 .. Len(ops), NEW o, o = ops[n], o.op \in Local \ {"AlterType"},
         InOrder(f[n - 1]), f[n - 1].tables[o.model].rows = {}
  PROVE  InOrder(f[n]) /\ f[n].tables[o.model].rows = {}
<1>1. f[n] = Perform(o, f[n - 1])
  BY PerformedIs
<1>2. PICK e : e = f[n - 1]
  OBVIOUS
<1>3. Possible(o, e.tables)
  BY <1>2, FindsItsTables DEF InOrder, Local
<1>4. Sound(Outcome(o, e.tables), o.model) /\ Outcome(o, e.tables)[o.model].rows = {}
  BY <1>2, <1>3, EmptyFits DEF InOrder
<1> QED BY <1>1, <1>2, <1>3, <1>4, CarriedOut

\* 0051: no finding is left, and the constraints of an empty table hold.
LEMMA Migration51 ==
  ASSUME NEW ops, ops = api0051.ops, NEW d, InOrder(d), NEW s, s = Schema(d.tables),
         Evolution!AllFit(ops, s, Len(ops)), Alone(s, "finding"), NEW f, f = Performed(ops, d)
  PROVE  f[Len(ops)].ok
<1> PICK o1, ts, us : /\ o1 = RunPython("clear_findings")
                      /\ ts = d.tables /\ us = clear_findings(ts)
  OBVIOUS
<1>1. Len(ops) = 7 /\ ops[1] = o1
  BY DEF api0051, After
<1>2. f[0] = d /\ f[1] = Perform(o1, d)
  <2>1. 1 \in 1 .. 7 /\ 1 - 1 = 0
    OBVIOUS
  <2> QED BY <1>1, <2>1, PerformedIs
<1>3. o1.op = "RunPython" /\ o1.step = "clear_findings"
  BY DEF RunPython
<1>4. \A n \in 2 .. 7 : ops[n].model = "finding" /\ ops[n].op \in Local \ {"AlterType"}
  BY DEF api0051, After, DropConstraint, DropIndex, Drop, Alter, Unique, Local
<1>5. Good(ts) /\ us = Run(o1.step, ts) /\ ~Raises(o1.step, ts)
  BY <1>3 DEF InOrder, Run, Raises
<1>6. SameSchema(us, ts)
  BY <1>5, clear_findings_keeps DEF Good
<1>7. "finding" \in DOMAIN ts
  <2>1. Evolution!Changed(ops, s)[1] = Change(o1, s)
    BY <1>1, ChangedIs
  <2>2. Change(o1, s) = s
    BY <1>3 DEF Change
  <2>3. Fits(ops[2], Evolution!Changed(ops, s)[2 - 1])
    BY <1>1 DEF Evolution!AllFit
  <2>4. ops[2] = DropConstraint("finding", "unique_finding")
    BY DEF api0051, After
  <2>5. Possible(DropConstraint("finding", "unique_finding"), s)
    BY <2>1, <2>2, <2>3, <2>4 DEF Fits, DropConstraint
  <2>6. "finding" \in DOMAIN s
    BY <2>5 DEF Possible, DropConstraint
  <2> QED BY <1>5, <2>6, SchemaFacts DEF Good
<1>8. Alone(ts, "finding")
  BY <1>5, AloneIn DEF Good
<1>9. us["finding"].rows = {} /\ OnlyRowsOf(ts, us, "finding")
  <2>1. us = DeleteRows(ts, "finding", ts["finding"].rows)
    BY DEF clear_findings, Rows
  <2>2. Tabular(ts) /\ "finding" # ""
    BY <1>5 DEF Good
  <2>3. PICK less : less = ts["finding"].rows
    OBVIOUS
  <2>4. PICK model : model = "finding"
    OBVIOUS
  <2>5. us = DeleteRows(ts, model, less)
    BY <2>1, <2>3, <2>4
  <2>6. Tabular(ts) /\ model \in DOMAIN ts /\ model # "" /\ Alone(ts, model)
    BY <1>7, <1>8, <2>2, <2>4
  <2>7. OnlyRowsOf(ts, us, model)
    BY <2>5, <2>6, DeletesAlone
  <2>8. \A r : r \in us[model].rows <=> r \in ts[model].rows /\ r \notin less
    BY <2>5, <2>6, DeletesAlone
  <2> QED BY <2>3, <2>4, <2>7, <2>8
<1>10. AllSound(us) /\ Queued(ts, us) = {}
  <2>1. us["finding"].rows \subseteq ts["finding"].rows
    BY <1>9
  <2> QED BY <1>5, <1>6, <1>7, <1>8, <1>9, <2>1, FewerRows
<1> DEFINE Emptied(e) == InOrder(e) /\ e.tables["finding"].rows = {}
<1>11. Emptied(f[1])
  <2>1. InOrder(f[1]) /\ f[1].tables = us
    BY <1>2, <1>3, <1>5, <1>10, CarriedOutData
  <2> QED BY <1>9, <2>1
<1>12. ASSUME NEW n \in 2 .. 7, Emptied(f[n - 1])
       PROVE  Emptied(f[n])
  <2>1. n \in 1 .. Len(ops) /\ Len(ops) \in Nat
    BY <1>1
  <2>2. PICK o : o = ops[n]
    OBVIOUS
  <2>3. o.model = "finding" /\ o.op \in Local \ {"AlterType"}
    BY <1>4, <2>2
  <2>4. InOrder(f[n - 1]) /\ f[n - 1].tables[o.model].rows = {}
    BY <1>12, <2>3
  <2>5. InOrder(f[n]) /\ f[n].tables[o.model].rows = {}
    BY <2>1, <2>2, <2>3, <2>4, EmptyStep
  <2> QED BY <2>3, <2>5
<1> HIDE DEF Emptied
<1>13. Emptied(f[2])
  BY <1>11, <1>12
<1>14. Emptied(f[3])
  BY <1>12, <1>13
<1>15. Emptied(f[4])
  BY <1>12, <1>14
<1>16. Emptied(f[5])
  BY <1>12, <1>15
<1>17. Emptied(f[6])
  BY <1>12, <1>16
<1>18. Emptied(f[7])
  BY <1>12, <1>17
<1> QED BY <1>1, <1>18 DEF Emptied, InOrder

\* A data step that rewrites rows in place leaves every key, and every
\* reference of a row, as it was.
RowsKept(rows, others, key, cols) ==
    /\ \A r \in rows : \E s \in others : s[key] = r[key]
    /\ \A s \in others : \E r \in rows :
          r[key] = s[key] /\ \A f \in DOMAIN cols : cols[f].ref # "" => r[f] = s[f]
Undisturbed(ts, us) ==
    /\ SameSchema(us, ts)
    /\ \A m \in DOMAIN ts : RowsKept(ts[m].rows, us[m].rows, ts[m].key, ts[m].cols)

LEMMA UndisturbedTwice ==
  ASSUME NEW ts, NEW us, NEW vs, Tabular(ts), Undisturbed(ts, us), Undisturbed(us, vs)
  PROVE  Undisturbed(ts, vs)
<1>1. SameSchema(us, ts) /\ SameSchema(vs, us) /\ SameSchema(vs, ts)
  BY SameSchemaTwice DEF Undisturbed
<1>2. DOMAIN us = DOMAIN ts /\ \A m \in DOMAIN ts : us[m].key = ts[m].key /\ us[m].cols = ts[m].cols
  BY <1>1, SchemasAgree
<1>3. ASSUME NEW R, NEW S, NEW T, NEW key, NEW cols, RowsKept(R, S, key, cols), RowsKept(S, T, key, cols)
      PROVE  RowsKept(R, T, key, cols)
  <2>1. ASSUME NEW r \in R
        PROVE  \E s \in T : s[key] = r[key]
    <3>1. PICK q \in S : q[key] = r[key]
      BY <1>3 DEF RowsKept
    <3>2. PICK s \in T : s[key] = q[key]
      BY <1>3 DEF RowsKept
    <3> QED BY <3>1, <3>2
  <2>2. ASSUME NEW s \in T
        PROVE  \E r \in R :
                  r[key] = s[key] /\ \A f \in DOMAIN cols : cols[f].ref # "" => r[f] = s[f]
    <3>1. PICK q \in S : q[key] = s[key] /\ \A f \in DOMAIN cols : cols[f].ref # "" => q[f] = s[f]
      BY <1>3 DEF RowsKept
    <3>2. PICK r \in R : r[key] = q[key] /\ \A f \in DOMAIN cols : cols[f].ref # "" => r[f] = q[f]
      BY <1>3 DEF RowsKept
    <3> QED BY <3>1, <3>2
  <2> QED BY <2>1, <2>2 DEF RowsKept
<1> QED BY <1>1, <1>2, <1>3 DEF Undisturbed

LEMMA NothingQueued ==
  ASSUME NEW ts, NEW us, Tabular(ts), Undisturbed(ts, us)
  PROVE  Queued(ts, us) = {}
<1>1. \A m \in DOMAIN ts : us[m].key = ts[m].key /\ us[m].cols = ts[m].cols
  <2>1. SameSchema(us, ts)
    BY DEF Undisturbed
  <2> QED BY <2>1, SchemasAgree
<1>2. ASSUME NEW m \in DOMAIN ts, NEW r \in ts[m].rows,
             \A s \in us[m].rows : s[ts[m].key] # r[ts[m].key]
      PROVE  FALSE
  BY <1>2 DEF Undisturbed, RowsKept
<1>3. ASSUME NEW m \in DOMAIN ts, NEW s \in us[m].rows, NEW f \in DOMAIN us[m].cols,
             us[m].cols[f].ref # "",
             \A r \in ts[m].rows : r[ts[m].key] = s[ts[m].key] => r[f] # s[f]
      PROVE  FALSE
  <2>1. ts[m].cols[f].ref # "" /\ f \in DOMAIN ts[m].cols
    BY <1>1, <1>3
  <2>2. PICK r \in ts[m].rows : r[ts[m].key] = s[ts[m].key] /\ r[f] = s[f]
    BY <2>1 DEF Undisturbed, RowsKept
  <2> QED BY <1>3, <2>2
<1>4. \A m \in DOMAIN ts : m \notin Queued(ts, us)
  BY <1>2, <1>3 DEF Queued
<1>5. Queued(ts, us) \subseteq DOMAIN ts
  BY DEF Queued
<1> QED BY <1>4, <1>5

\* A field in no constraint can be rewritten with any value.
Rewrites(g, rows, field) ==
    \A r \in rows : /\ DOMAIN g[r] = DOMAIN r /\ g[r][field] # None
                    /\ \A f \in DOMAIN r \ {field} : g[r][f] = r[f]

Mapped(rows, g, from) == rows = {g[r] : r \in from}

Agree(g, rows, fields) == \A r \in rows : \A f \in fields : g[r][f] = r[f]

LEMMA MappedConstraints ==
  ASSUME NEW t, NEW u, NEW g, NEW M, RespectsConstraints(t), Mapped(u.rows, g, t.rows),
         Agree(g, t.rows, M), Retains(u, t, M)
  PROVE  RespectsConstraints(u)
<1>1. u.rows = {g[r] : r \in t.rows}
  BY DEF Mapped
<1>2. \A r \in t.rows : \A f \in M : g[r][f] = r[f]
  BY DEF Agree
<1> QED BY <1>1, <1>2, SameConstraints

LEMMA TableRewritten ==
  ASSUME NEW ts, NEW us, NEW t, NEW u, NEW g, NEW field,
         RespectsColumns(ts, t), RespectsConstraints(t), Coherent(t), Linked(t, DOMAIN ts),
         field \in DOMAIN t.cols, t.cols[field] = ColumnOf(FALSE, FALSE, ""),
         field # t.key, field \notin Mentioned(t), Rewrites(g, t.rows, field),
         u.key = t.key, u.cols = t.cols, u.unique = t.unique, u.check = t.check,
         Mapped(u.rows, g, t.rows)
  PROVE  /\ KeepsKeys(us, ts) => RespectsColumns(us, u)
         /\ RespectsConstraints(u) /\ Keys(u) = Keys(t) /\ RowsKept(t.rows, u.rows, t.key, t.cols)
<1>1. ~t.cols[field].unique /\ t.cols[field].ref = ""
  <2>1. PICK c : c = ColumnOf(FALSE, FALSE, "")
    OBVIOUS
  <2>2. ~c.unique /\ c.ref = ""
    BY <2>1 DEF ColumnOf
  <2> QED BY <2>1, <2>2
<1>2. \A r \in t.rows : DOMAIN r = DOMAIN t.cols
  BY DEF RespectsColumns
<1>3. \A r \in t.rows : g[r][t.key] = r[t.key]
  BY <1>2 DEF Coherent, Rewrites
<1>4. RowsKept(t.rows, u.rows, t.key, t.cols)
  <2>1. \A r \in t.rows : \E s \in u.rows : s[t.key] = r[t.key]
    BY <1>3 DEF Mapped
  <2>2. ASSUME NEW s \in u.rows
        PROVE  \E r \in t.rows :
                  r[t.key] = s[t.key] /\ \A f \in DOMAIN t.cols : t.cols[f].ref # "" => r[f] = s[f]
    <3>1. PICK r \in t.rows : s = g[r]
      BY DEF Mapped
    <3>2. \A f \in DOMAIN t.cols : t.cols[f].ref # "" => r[f] = s[f]
      BY <1>1, <1>2, <3>1 DEF Rewrites
    <3> QED BY <1>3, <3>1, <3>2
  <2> QED BY <2>1, <2>2 DEF RowsKept
<1>5. Keys(u) = Keys(t)
  <2>1. ASSUME NEW r \in t.rows
        PROVE  r[t.key] \in Keys(u)
    <3>1. PICK s \in u.rows : s[t.key] = r[t.key]
      BY <1>4 DEF RowsKept
    <3> QED BY <3>1 DEF Keys
  <2>2. ASSUME NEW s \in u.rows
        PROVE  s[u.key] \in Keys(t)
    <3>1. PICK r \in t.rows : r[t.key] = s[t.key]
      BY <1>4 DEF RowsKept
    <3> QED BY <3>1 DEF Keys
  <2>3. \A k : k \in Keys(u) <=> k \in Keys(t)
    BY <2>1, <2>2 DEF Keys
  <2> QED BY <2>3
<1>6. ASSUME KeepsKeys(us, ts)
      PROVE  RespectsColumns(us, u)
  <2>1. ASSUME NEW y \in DOMAIN u.cols
        PROVE  Inherits(ts, us, t, u, g, y)
    <3>1. CASE y = field
      BY <1>1, <3>1 DEF Inherits, Rewrites
    <3>2. CASE y # field
      <4>1. \A r \in t.rows : g[r][y] = r[y]
        BY <1>2, <3>2 DEF Rewrites
      <4>2. u.cols[y].ref # "" => Keys(us[u.cols[y].ref]) = Keys(ts[t.cols[y].ref])
        BY <1>6 DEF Linked, KeepsKeys
      <4> QED BY <4>1, <4>2 DEF Inherits
    <3> QED BY <3>1, <3>2
  <2>2. \A r \in t.rows : DOMAIN g[r] = DOMAIN u.cols
    BY <1>2 DEF Rewrites
  <2>3. u.rows = {g[r] : r \in t.rows}
    BY DEF Mapped
  <2> QED BY <2>1, <2>2, <2>3, SameColumns
<1>7. RespectsConstraints(u)
  <2> PICK M : M = DOMAIN t.cols \ {field}
    OBVIOUS
  <2>1. Agree(g, t.rows, M)
    BY <1>2 DEF Rewrites, Agree
  <2>2. Retains(u, t, M)
    <3>1. /\ \A n \in DOMAIN t.unique :
                t.unique[n].fields \subseteq M /\ DOMAIN t.unique[n].except \subseteq M
          /\ \A n \in DOMAIN t.check : t.check[n].fields \subseteq M
      BY MentionedFields DEF Coherent
    <3> QED BY <3>1 DEF Retains
  <2> QED BY <2>1, <2>2, MappedConstraints
<1> QED BY <1>4, <1>5, <1>6, <1>7

LEMMA FieldRewritten ==
  ASSUME NEW ts, Good(ts), NEW m, NEW field, Ordinary(ts, m, field), NEW g, NEW us,
         us = [ts EXCEPT ![m].rows = {g[r] : r \in ts[m].rows}], Rewrites(g, ts[m].rows, field)
  PROVE  Good(us) /\ Undisturbed(ts, us)
<1> PICK t, u : t = ts[m] /\ u = us[m]
  OBVIOUS
<1>0. Tabular(ts) /\ WellFormed(ts) /\ AllSound(ts)
  BY DEF Good
<1>1. /\ m \in DOMAIN ts /\ field \in DOMAIN t.cols /\ t.cols[field] = ColumnOf(FALSE, FALSE, "")
      /\ field # t.key /\ field \notin Mentioned(t)
  BY DEF Ordinary
<1>2. SameSchema(us, ts)
  BY <1>0, OneTable
<1>3. /\ DOMAIN us = DOMAIN ts
      /\ u.key = t.key /\ u.cols = t.cols /\ u.unique = t.unique /\ u.check = t.check
  <2>1. PICK vs : vs = us
    OBVIOUS
  <2>2. SameSchema(vs, ts)
    BY <1>2, <2>1
  <2>3. /\ DOMAIN vs = DOMAIN ts
        /\ \A n \in DOMAIN ts :
              /\ vs[n].key = ts[n].key /\ vs[n].cols = ts[n].cols
              /\ vs[n].unique = ts[n].unique /\ vs[n].check = ts[n].check
    BY <1>0, <2>2, SchemasAgree
  <2> QED BY <1>1, <2>1, <2>3
<1>4. IsTable(t) /\ Coherent(t) /\ Linked(t, DOMAIN ts)
  BY <1>0, <1>1 DEF Tabular, WellFormed
<1>5. Mapped(u.rows, g, t.rows) /\ Rewrites(g, t.rows, field)
  <2> DEFINE rows == {g[r] : r \in t.rows}
  <2>1. u = [t EXCEPT !.rows = rows]
    BY <1>1
  <2> HIDE DEF rows
  <2>2. u.rows = rows
    BY <1>4, <2>1 DEF IsTable, Table
  <2> QED BY <2>2 DEF rows, Mapped
<1>6. \A n \in DOMAIN ts \ {m} : us[n] = ts[n]
  BY <1>1
<1>7. RespectsColumns(ts, t) /\ RespectsConstraints(t)
  BY <1>0, <1>1 DEF AllSound, Sound
<1>8. PICK vs : vs = us
  OBVIOUS
<1>9. /\ KeepsKeys(vs, ts) => RespectsColumns(vs, u)
      /\ RespectsConstraints(u) /\ Keys(u) = Keys(t) /\ RowsKept(t.rows, u.rows, t.key, t.cols)
  BY <1>1, <1>3, <1>4, <1>5, <1>7, TableRewritten
<1>10. KeepsKeys(vs, ts)
  BY <1>6, <1>8, <1>9 DEF KeepsKeys
<1>11. ASSUME NEW n \in DOMAIN ts
       PROVE  Sound(vs, n) /\ RowsKept(ts[n].rows, vs[n].rows, ts[n].key, ts[n].cols)
  <2>1. CASE n = m
    BY <1>8, <1>9, <1>10, <2>1 DEF Sound
  <2>2. CASE n # m
    <3>1. vs[n] = ts[n] /\ Sound(ts, n) /\ Linked(ts[n], DOMAIN ts)
      BY <1>0, <1>6, <1>8, <2>2 DEF AllSound, WellFormed
    <3>2. \A f \in DOMAIN ts[n].cols :
             ts[n].cols[f].ref # "" => Keys(vs[ts[n].cols[f].ref]) = Keys(ts[ts[n].cols[f].ref])
      BY <1>10, <3>1 DEF Linked, KeepsKeys
    <3>3. RowsKept(ts[n].rows, vs[n].rows, ts[n].key, ts[n].cols)
      BY <3>1 DEF RowsKept
    <3> QED BY <3>1, <3>2, <3>3, SoundElsewhere
  <2> QED BY <2>1, <2>2
<1>12. SameSchema(vs, ts) /\ DOMAIN vs = DOMAIN ts
  BY <1>2, <1>3, <1>8
<1>13. Good(vs) /\ Undisturbed(ts, vs)
  BY <1>0, <1>11, <1>12, WellFormedSchema DEF Good, AllSound, SameSchema, Undisturbed
<1> QED BY <1>8, <1>13

LEMMA OrdinaryIn ==
  ASSUME NEW ts, Tabular(ts), NEW m, NEW field
  PROVE  Ordinary(Schema(ts), m, field) <=> Ordinary(ts, m, field)
<1> PICK s : s = Schema(ts)
  OBVIOUS
<1>1. /\ DOMAIN s = DOMAIN ts
      /\ \A n \in DOMAIN ts :
            /\ s[n].key = ts[n].key /\ s[n].cols = ts[n].cols
            /\ s[n].unique = ts[n].unique /\ s[n].check = ts[n].check /\ s[n].idx = ts[n].idx
  BY SchemaFacts
<1>2. \A n \in DOMAIN ts : Mentioned(s[n]) = Mentioned(ts[n])
  BY <1>1 DEF Mentioned
<1> QED BY <1>1, <1>2 DEF Ordinary

\* Setting a field of some rows to a number.
SetField(r, chosen, field, value) == IF r \in chosen THEN [r EXCEPT ![field] = value] ELSE r
WithField(ts, m, chosen, field, value) ==
    [ts EXCEPT ![m].rows = {SetField(r, chosen, field, value) : r \in ts[m].rows}]

LEMMA FieldSet ==
  ASSUME NEW ts, NEW m, NEW field, Good(ts), Ordinary(ts, m, field), NEW chosen, NEW value \in Int,
         NEW us, us = WithField(ts, m, chosen, field, value)
  PROVE  /\ Good(us) /\ Undisturbed(ts, us)
         /\ us[m].rows = {SetField(r, chosen, field, value) : r \in ts[m].rows}
         /\ \A n \in DOMAIN ts \ {m} : us[n] = ts[n]
<1>1. value # None
  BY NoValueIsAValue
<1> PICK t : t = ts[m]
  OBVIOUS
<1>2. /\ RespectsColumns(ts, t) /\ IsTable(t) /\ m \in DOMAIN ts
      /\ field \in DOMAIN t.cols /\ t.cols[field] = ColumnOf(FALSE, FALSE, "")
  BY DEF Good, Tabular, AllSound, Sound, Ordinary
<1>3. t.cols[field].null = FALSE
  <2>1. PICK c : c = ColumnOf(FALSE, FALSE, "")
    OBVIOUS
  <2>2. c.null = FALSE
    BY <2>1 DEF ColumnOf
  <2> QED BY <1>2, <2>1, <2>2
<1>4. \A r \in t.rows : field \in DOMAIN r /\ r[field] # None
  BY <1>2, <1>3 DEF RespectsColumns
<1> DEFINE g == [r \in t.rows |-> SetField(r, chosen, field, value)]
           rows == {SetField(r, chosen, field, value) : r \in t.rows}
<1>5. ASSUME NEW r \in t.rows
      PROVE  /\ DOMAIN g[r] = DOMAIN r /\ g[r][field] # None
             /\ \A f \in DOMAIN r \ {field} : g[r][f] = r[f]
  <2>1. g[r] = SetField(r, chosen, field, value)
    OBVIOUS
  <2>2. CASE r \in chosen
    <3>1. g[r] = [r EXCEPT ![field] = value]
      BY <2>1, <2>2 DEF SetField
    <3> QED BY <1>1, <1>4, <3>1
  <2>3. CASE r \notin chosen
    <3>1. g[r] = r
      BY <2>1, <2>3 DEF SetField
    <3> QED BY <1>4, <3>1
  <2> QED BY <2>2, <2>3
<1>6. us = [ts EXCEPT ![m].rows = rows]
  BY DEF WithField
<1>7. rows = {g[r] : r \in t.rows}
  OBVIOUS
<1>8. us[m].rows = rows
  <2> HIDE DEF rows
  <2>1. us[m] = [t EXCEPT !.rows = rows]
    BY <1>2, <1>6
  <2> QED BY <1>2, <2>1 DEF IsTable, Table
<1>9. \A n \in DOMAIN ts \ {m} : us[n] = ts[n]
  BY <1>6
<1>10. Good(us) /\ Undisturbed(ts, us)
  <2>1. Rewrites(g, t.rows, field)
    BY <1>5 DEF Rewrites
  <2>2. us = [ts EXCEPT ![m].rows = {g[r] : r \in ts[m].rows}]
    BY <1>6, <1>7
  <2> HIDE DEF g
  <2> QED BY <2>1, <2>2, FieldRewritten
<1> QED BY <1>8, <1>9, <1>10

\* 0059: of the sets of a group all but the newest are set at rest, and the
\* constraint on the others is added.
LEMMA Migration59 ==
  ASSUME NEW ops, ops = api0059.ops, NEW d, InOrder(d), NEW s, s = Schema(d.tables),
         Evolution!AllFit(ops, s, Len(ops)), NEW f, f = Performed(ops, d),
         Ordinary(s, "deduplicationset", "state"), Ordinary(s, "encoding", "state")
  PROVE  f[Len(ops)].ok
<1> PICK o1, o2, ts, vs :
      /\ o1 = RunPython("reject_unapproved_deduplication_sets")
      /\ o2 = Unique("deduplicationset", "unique_active_deduplication_set_per_group", {"group"},
                     Except("state", {INACTIVE_STATE}))
      /\ ts = d.tables /\ vs = reject_unapproved_deduplication_sets(ts)
  OBVIOUS
<1>1. Len(ops) = 2 /\ ops[1] = o1 /\ ops[2] = o2
  BY DEF api0059, After
<1>2. f[0] = d /\ f[1] = Perform(o1, d) /\ f[2] = Perform(o2, f[1])
  <2>1. 1 \in 1 .. 2 /\ 2 \in 1 .. 2 /\ 1 - 1 = 0 /\ 2 - 1 = 1
    OBVIOUS
  <2> QED BY <1>1, <2>1, PerformedIs
<1>3. o1.op = "RunPython" /\ o1.step = "reject_unapproved_deduplication_sets"
  BY DEF RunPython
<1>4. /\ o2.op = "AddUnique" /\ o2.model = "deduplicationset" /\ o2.fields = {"group"}
      /\ o2.except = Except("state", {INACTIVE_STATE})
  BY DEF Unique
<1>5. Good(ts) /\ vs = Run(o1.step, ts) /\ ~Raises(o1.step, ts)
  BY <1>3 DEF InOrder, Run, Raises
<1>6. Tabular(ts) /\ AllSound(ts)
  BY <1>5 DEF Good
<1>7. Possible(o2, s)
  <2>1. Evolution!Changed(ops, s)[1] = Change(o1, s)
    BY <1>1, ChangedIs
  <2>2. Change(o1, s) = s
    BY <1>3 DEF Change
  <2>3. Fits(o2, Evolution!Changed(ops, s)[2 - 1])
    BY <1>1 DEF Evolution!AllFit
  <2> QED BY <1>4, <2>1, <2>2, <2>3 DEF Fits
<1>8. Ordinary(ts, "deduplicationset", "state") /\ Ordinary(ts, "encoding", "state")
  BY <1>6, OrdinaryIn
<1> DEFINE sets == ts["deduplicationset"].rows
           encodings == ts["encoding"].rows
           outdated == {r \in sets : r # Newest(Alike(sets, r, {"group"}))}
           rejected == {r \in encodings : r.deduplication_set \in {r2.id : r2 \in outdated}}
<1> DEFINE us == WithField(ts, "deduplicationset", outdated, "state", INACTIVE_STATE)
           ws == WithField(us, "encoding", rejected, "state", REJECTED_STATE)
           set == {SetField(r, outdated, "state", INACTIVE_STATE) : r \in sets}
<1>9. /\ Good(us) /\ Undisturbed(ts, us)
      /\ us["deduplicationset"].rows = set /\ us["encoding"] = ts["encoding"]
  <2> HIDE DEF outdated
  <2>1. "encoding" \in DOMAIN ts \ {"deduplicationset"}
    BY <1>8 DEF Ordinary
  <2>2. PICK n : n = INACTIVE_STATE /\ n \in Int
    BY DEF INACTIVE_STATE
  <2>3. PICK m, field : m = "deduplicationset" /\ field = "state"
    OBVIOUS
  <2>4. PICK vs2 : vs2 = WithField(ts, m, outdated, field, n)
    OBVIOUS
  <2>5. us = vs2
    BY <2>2, <2>3, <2>4
  <2>6. Good(ts) /\ Ordinary(ts, m, field)
    BY <1>5, <1>8, <2>3
  <2>7. /\ Good(vs2) /\ Undisturbed(ts, vs2)
        /\ vs2[m].rows = {SetField(r, outdated, field, n) : r \in ts[m].rows}
        /\ \A k \in DOMAIN ts \ {m} : vs2[k] = ts[k]
    BY <2>2, <2>4, <2>6, FieldSet
  <2> HIDE DEF us
  <2> QED BY <2>1, <2>2, <2>3, <2>5, <2>7
<1>10. vs = ws
  <2>1. set = {IF r \in outdated THEN [r EXCEPT !.state = INACTIVE_STATE] ELSE r : r \in sets}
    BY DEF SetField
  <2> DEFINE B == {SetField(r, rejected, "state", REJECTED_STATE) : r \in encodings}
  <2>2. B = {IF r.deduplication_set \in {r2.id : r2 \in outdated}
             THEN [r EXCEPT !.state = REJECTED_STATE] ELSE r : r \in encodings}
    BY DEF SetField
  <2> DEFINE A1 == {IF r \in outdated THEN [r EXCEPT !.state = INACTIVE_STATE] ELSE r : r \in sets}
             B1 == {IF r.deduplication_set \in {r2.id : r2 \in outdated}
                    THEN [r EXCEPT !.state = REJECTED_STATE] ELSE r : r \in encodings}
  <2>3. vs = [ts EXCEPT !["deduplicationset"].rows = A1, !["encoding"].rows = B1]
    BY DEF reject_unapproved_deduplication_sets, Rows
  <2>4. us = [ts EXCEPT !["deduplicationset"].rows = set]
    BY DEF WithField
  <2>5. ws = [us EXCEPT !["encoding"].rows = B]
    <3>1. ws = [us EXCEPT !["encoding"].rows =
                   {SetField(r, rejected, "state", REJECTED_STATE) : r \in us["encoding"].rows}]
      BY DEF WithField
    <3> HIDE DEF us, rejected
    <3> QED BY <1>9, <3>1
  <2>6. A1 = set /\ B1 = B
    BY <2>1, <2>2
  <2> HIDE DEF A1, B1, set, B, us, ws
  <2> QED BY <2>3, <2>4, <2>5, <2>6
<1> HIDE DEF us, set
<1>11. Ordinary(us, "encoding", "state")
  <2>1. Schema(us) = Schema(ts) /\ Tabular(us)
    BY <1>9 DEF Undisturbed, SameSchema
  <2> QED BY <1>6, <1>8, <2>1, OrdinaryIn
<1>12. Good(ws) /\ Undisturbed(us, ws) /\ ws["deduplicationset"] = us["deduplicationset"]
  <2> HIDE DEF rejected
  <2>1. "deduplicationset" \in DOMAIN us \ {"encoding"}
    <3>1. "deduplicationset" \in DOMAIN ts /\ SameSchema(us, ts)
      BY <1>8, <1>9 DEF Ordinary, Undisturbed
    <3> QED BY <1>6, <3>1, SchemasAgree
  <2>2. PICK n : n = REJECTED_STATE /\ n \in Int
    BY DEF REJECTED_STATE
  <2>3. PICK m, field : m = "encoding" /\ field = "state"
    OBVIOUS
  <2>4. PICK vs2 : vs2 = WithField(us, m, rejected, field, n)
    OBVIOUS
  <2>5. ws = vs2
    BY <2>2, <2>3, <2>4
  <2>6. Good(us) /\ Ordinary(us, m, field)
    BY <1>9, <1>11, <2>3
  <2>7. Good(vs2) /\ Undisturbed(us, vs2) /\ \A k \in DOMAIN us \ {m} : vs2[k] = us[k]
    BY <2>2, <2>4, <2>6, FieldSet
  <2> HIDE DEF ws
  <2> QED BY <2>1, <2>3, <2>5, <2>7
<1>13. ws["deduplicationset"].rows = set
  BY <1>9, <1>12
<1> HIDE DEF ws
<1>14. AllSound(vs) /\ Queued(ts, vs) = {} /\ Schema(vs) = s /\ Tabular(vs)
  <2>1. Undisturbed(ts, ws)
    BY <1>6, <1>9, <1>12, UndisturbedTwice
  <2> QED BY <1>6, <1>10, <1>12, <2>1, NothingQueued DEF Good, Undisturbed, SameSchema
<1>15. InOrder(f[1]) /\ f[1].tables = vs
  BY <1>2, <1>3, <1>5, <1>14, CarriedOutData
<1>16. Possible(o2, vs)
  BY <1>4, <1>7, <1>14, SamePossible
<1>17. Distinct(vs["deduplicationset"].rows, Added(o2))
  <2> PICK c, rows : c = Added(o2) /\ rows = vs["deduplicationset"].rows
    OBVIOUS
  <2>1. c.fields = {"group"} /\ c.except = Except("state", {INACTIVE_STATE})
    BY <1>4 DEF Added
  <2>2. ASSUME NEW p \in rows, Covered(p, c)
        PROVE  p = Newest(Alike(sets, p, c.fields))
    <3>1. PICK r \in sets : p = SetField(r, outdated, "state", INACTIVE_STATE)
      BY <1>10, <1>13 DEF set
    <3>2. p["state"] # INACTIVE_STATE
      <4>1. DOMAIN c.except = {"state"} /\ c.except["state"] = {INACTIVE_STATE}
        BY <2>1 DEF Except, :>
      <4> QED BY <2>2, <4>1 DEF Covered
    <3>3. "state" \in DOMAIN r
      <4>1. RespectsColumns(ts, ts["deduplicationset"]) /\ "state" \in DOMAIN ts["deduplicationset"].cols
        BY <1>6, <1>8 DEF AllSound, Sound, Ordinary
      <4> QED BY <4>1 DEF RespectsColumns
    <3>4. r \notin outdated
      <4> HIDE DEF outdated
      <4> SUFFICES ASSUME r \in outdated PROVE FALSE
        OBVIOUS
      <4>1. p = [r EXCEPT !["state"] = INACTIVE_STATE]
        BY <3>1 DEF SetField
      <4> QED BY <3>2, <3>3, <4>1
    <3>5. p = r
      BY <3>1, <3>4 DEF SetField
    <3> QED BY <2>1, <3>4, <3>5
  <2> DEFINE left == {p \in rows : Covered(p, c)}
  <2>3. Distinct(left, c)
    <3>1. \A p \in left : p = Newest(Alike(sets, p, c.fields))
      BY <2>2
    <3>2. PICK all, some : all = sets /\ some = left
      OBVIOUS
    <3>3. \A p \in some : p = Newest(Alike(all, p, c.fields))
      BY <3>1, <3>2
    <3>4. Distinct(some, c)
      BY <3>3, NewestDistinct
    <3> QED BY <3>2, <3>4
  <2> QED BY <2>3 DEF Distinct
<1>18. Sound(Outcome(o2, vs), o2.model)
  <2>1. Good(vs)
    BY <1>15 DEF InOrder
  <2> QED BY <1>4, <1>16, <1>17, <2>1, UniqueFits
<1>19. InOrder(f[2])
  <2>1. o2.op \in Local
    BY <1>4 DEF Local
  <2> QED BY <1>2, <1>15, <1>16, <1>18, <2>1, CarriedOut
<1> QED BY <1>1, <1>19 DEF InOrder

\* What the runs of SchemaUpgrade find of the schema alone, for a migration
\* that is due.
Prepared(m) ==
    /\ m \notin cut => Evolution!AllFit(Migration(m).ops, Schema(tables), Len(Migration(m).ops))
    /\ ClearsItsWay(m, Schema(tables))
SchemaIsReady == \A m \in All : Evolution!Due(m) => Prepared(m)

\* Only what runs outside a transaction is under way or cut short.
OutsideTransactions ==
    /\ \A m \in cut : ~Migration(m).atomic
    /\ current # None => ~Migration(current).atomic

LEMMA CarriedOutWhole ==
  ASSUME Good(tables), NEW m \in {api(35), api(51), api(59)}, OutsideTransactions, Prepared(m)
  PROVE  Performed(Migration(m).ops, Opened)[Len(Migration(m).ops)].ok
<1>0. PICK ops, s, d, f : /\ ops = Migration(m).ops /\ s = Schema(tables)
                          /\ d = Opened /\ f = Performed(ops, d)
  OBVIOUS
<1>1. InOrder(d) /\ d.tables = tables
  BY <1>0, OpenedGood DEF InOrder
<1>2. CASE m = api(35)
  <2>1. Migration(m) = api0035
    BY <1>2 DEF Migration, Steps, api
  <2>2. ops = api0035.ops /\ m \notin cut
    BY <1>0, <2>1 DEF OutsideTransactions, api0035, After
  <2>3. Evolution!AllFit(ops, s, Len(ops)) /\ Alone(s, "image")
    BY <1>0, <1>2, <2>2 DEF Prepared, ClearsItsWay
  <2> QED BY <1>0, <1>1, <2>2, <2>3, Migration35
<1>3. CASE m = api(51)
  <2>1. Migration(m) = api0051
    BY <1>3 DEF Migration, Steps, api
  <2>2. ops = api0051.ops /\ m \notin cut
    BY <1>0, <2>1 DEF OutsideTransactions, api0051, After
  <2>3. Evolution!AllFit(ops, s, Len(ops)) /\ Alone(s, "finding")
    BY <1>0, <1>3, <2>2 DEF Prepared, ClearsItsWay
  <2> QED BY <1>0, <1>1, <2>2, <2>3, Migration51
<1>4. CASE m = api(59)
  <2>1. Migration(m) = api0059
    BY <1>4 DEF Migration, Steps, api
  <2>2. ops = api0059.ops /\ m \notin cut
    BY <1>0, <2>1 DEF OutsideTransactions, api0059, After
  <2>3. /\ Evolution!AllFit(ops, s, Len(ops))
        /\ Ordinary(s, "deduplicationset", "state") /\ Ordinary(s, "encoding", "state")
    BY <1>0, <1>4, <2>2 DEF Prepared, ClearsItsWay
  <2> QED BY <1>0, <1>1, <2>2, <2>3, Migration59
<1> QED BY <1>2, <1>3, <1>4

LEMMA InTransactions == \A m \in {api(35), api(51), api(59)} : m \in All /\ Migration(m).atomic
<1>1. Migration(api(35)) = api0035 /\ Migration(api(51)) = api0051 /\ Migration(api(59)) = api0059
  BY DEF Migration, Steps, api
<1>2. api0035.atomic /\ api0051.atomic /\ api0059.atomic
  BY DEF api0035, api0051, api0059, After
<1>3. ASSUME NEW n \in {35, 51, 59}
      PROVE  api(n) \in All
  <2>1. "api" \in DOMAIN Steps /\ n \in DOMAIN Steps["api"]
    BY DEF Steps
  <2> HIDE DEF Steps
  <2> QED BY <2>1 DEF All, api
<1> QED BY <1>1, <1>2, <1>3

LEMMA ClearedWayStep ==
  ASSUME Invariant, OutsideTransactions, ClearedWayIsOpen, SchemaIsReady, [UpgradeNext]_upgradeVars
  PROVE  OutsideTransactions' /\ ClearedWayIsOpen'
<1>1. CASE UNCHANGED upgradeVars
  BY <1>1 DEF upgradeVars, OutsideTransactions, ClearedWayIsOpen
<1>2. ASSUME NEW m \in All, Migrate(m)
      PROVE  OutsideTransactions' /\ ClearedWayIsOpen'
  <2>1. UNCHANGED <<current, cut>> /\ failed = None
    BY <1>2 DEF Migrate, CanApply
  <2>2. Prepared(m)
    BY <1>2 DEF Migrate, CanApply, Evolution!Due, SchemaIsReady
  <2>3. m \in {api(35), api(51), api(59)} =>
            Performed(Migration(m).ops, Opened)[Len(Migration(m).ops)].ok
    BY <2>2, CarriedOutWhole DEF Invariant
  <2>4. m \in {api(35), api(51), api(59)} => UNCHANGED failed
    BY <1>2, <2>3 DEF Migrate
  <2>5. failed' \in {m, failed}
    BY <1>2 DEF Migrate
  <2> QED BY <2>1, <2>4, <2>5 DEF OutsideTransactions, ClearedWayIsOpen
<1>3. ASSUME NEW m \in All, Begin(m)
      PROVE  OutsideTransactions' /\ ClearedWayIsOpen'
  BY <1>3 DEF Begin, OutsideTransactions, ClearedWayIsOpen
<1>4. CASE CarryOut
  <2>1. /\ UNCHANGED cut /\ current' \in {current, None} /\ failed' \in {current, failed}
        /\ ~Migration(current).atomic /\ current # None
    BY <1>4 DEF CarryOut, OutsideTransactions
  <2> QED BY <2>1, InTransactions DEF OutsideTransactions, ClearedWayIsOpen
<1>5. CASE Finish
  BY <1>5 DEF Finish, OutsideTransactions, ClearedWayIsOpen
<1>6. CASE Killed
  BY <1>6 DEF Killed, OutsideTransactions, ClearedWayIsOpen
<1>7. CASE KilledInside
  BY <1>7 DEF KilledInside, OutsideTransactions, ClearedWayIsOpen
<1> QED BY <1>1, <1>2, <1>3, <1>4, <1>5, <1>6, <1>7 DEF UpgradeNext

(* If the schema alone is always ready for what is due (the invariants         *)
(* EveryOperationFits and TheWayIsClear, which SchemaUpgrade checks            *)
(* completely), then 0035, 0051 and 0059 go through in every installation,     *)
(* whatever its rows: what they delete or rewrite is enough for the constraint *)
(* they add, and leaves no pending check in its way.                           *)
THEOREM ClearedWayStaysOpen ==
  (Evolution!EvolutionSpec => []SchemaIsReady) => (UpgradeSpec => []ClearedWayIsOpen)
<1>1. UpgradeSpec => Evolution!EvolutionSpec
  BY UpgradeEvolves DEF EvolvesAsItsSchema
<1>2. UpgradeSpec => []Invariant
  BY InitInvariant, NextInvariant, PTL DEF UpgradeSpec
<1>3. UpgradeInit => OutsideTransactions /\ ClearedWayIsOpen
  BY DEF UpgradeInit, OutsideTransactions, ClearedWayIsOpen
<1> QED BY <1>1, <1>2, <1>3, ClearedWayStep, PTL DEF UpgradeSpec
==============================================================================
