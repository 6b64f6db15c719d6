-------------------------------- MODULE Upgrade --------------------------------
(* `migrate` over the life of an installation: it applies the migrations that  *)
(* are not applied yet, in any order their dependencies allow (`migrate` and   *)
(* `migrate <app>` take different ones).  A migration is one transaction,      *)
(* except the four that build indexes concurrently: they run operation by      *)
(* operation, and a process that dies inside leaves what it did unrecorded.    *)
(* Between releases the application writes rows.  `seed` is the history of an  *)
(* installation: the releases it has run, each with the migrations it shipped  *)
(* and the rows that were written while it was in use; a history with no       *)
(* release is a fresh installation of the present code.                        *)
EXTENDS Schemas

CONSTANT Seeds      \* sequences of [name, ships, rows], rows a sequence of <<model, values>>

VARIABLES
    tables,         \* the database
    applied,        \* the rows of django_migrations
    current,        \* a migration outside a transaction that is under way
    done,           \* how many of its operations have been carried out
    cut,            \* migrations a crash left half carried out
    failed,         \* the migration that stopped the upgrade
    seed

upgradeVars == <<tables, applied, current, done, cut, failed, seed>>

UpgradeInit ==
    /\ tables = auth_tables
    /\ applied = {} /\ current = None /\ done = 0 /\ cut = {} /\ failed = None
    /\ seed \in Seeds

(* The rows of a release are there once its last migration has been applied;   *)
(* the store takes no rows that break its constraints.                         *)
Values(model, rows) == {rows[n][2] : n \in {k \in DOMAIN rows : rows[k][1] = model}}
Finished(m) == {n \in DOMAIN seed : m \in seed[n].ships /\ seed[n].ships \subseteq applied \union {m}}
WithRows(ts, releases) ==
    [t \in DOMAIN ts |->
        LET new == {NewRow(ts[t], v) : v \in UNION {Values(t, seed[n].rows) : n \in releases}}
        IN [ts[t] EXCEPT !.rows = @ \union new]]
Written(ts, m) ==
    LET written == WithRows(ts, Finished(m)) IN IF AllSound(written) THEN written ELSE ts

Record(m, ts) ==
    /\ applied' = applied \union {m}
    /\ tables' = Written(ts, m)

CanApply(m) ==
    /\ failed = None /\ current = None
    /\ m \in All \ applied
    /\ Migration(m).after \subseteq applied
    /\ \A n \in DOMAIN seed : m \in seed[n].ships \/ seed[n].ships \subseteq applied

Opened == [tables |-> tables, pending |-> {}, ok |-> TRUE]
(* The database after each of the operations.                                  *)
Performed(ops, d) ==
    LET after[n \in 0 .. Len(ops)] == IF n = 0 THEN d ELSE Perform(ops[n], after[n - 1])
    IN after

(* A migration in a transaction is applied and recorded, or not at all.        *)
Migrate(m) ==
    /\ CanApply(m) /\ Migration(m).atomic
    /\ LET ops == Migration(m).ops
           d == Performed(ops, Opened)[Len(ops)]
       IN IF d.ok
          THEN Record(m, d.tables) /\ UNCHANGED failed
          ELSE failed' = m /\ UNCHANGED <<tables, applied>>
    /\ UNCHANGED <<current, done, cut, seed>>

Begin(m) ==
    /\ CanApply(m) /\ ~Migration(m).atomic
    /\ current' = m /\ done' = 0
    /\ UNCHANGED <<tables, applied, cut, failed, seed>>

CarryOut ==
    /\ current # None /\ done < Len(Migration(current).ops)
    /\ LET d == Perform(Migration(current).ops[done + 1], Opened) IN
       IF d.ok
       THEN tables' = d.tables /\ done' = done + 1 /\ UNCHANGED <<failed, current>>
       ELSE failed' = current /\ current' = None /\ done' = 0 /\ UNCHANGED tables
    /\ UNCHANGED <<applied, cut, seed>>

(* Mutants: the count of operations is not reset; a migration is recorded with *)
(* operations left.                                                            *)
FinishAndCount ==
    /\ current # None /\ done = Len(Migration(current).ops)
    /\ Record(current, tables)
    /\ current' = None
    /\ UNCHANGED <<done, cut, failed, seed>>
FinishEarly ==
    /\ current # None /\ done <= Len(Migration(current).ops)
    /\ Record(current, tables)
    /\ current' = None /\ done' = 0
    /\ UNCHANGED <<cut, failed, seed>>
Finish ==
    /\ current # None /\ done = Len(Migration(current).ops)
    /\ Record(current, tables)
    /\ current' = None /\ done' = 0
    /\ UNCHANGED <<cut, failed, seed>>

(* The process is killed.  Inside a transaction nothing is left of its work.   *)
Killed ==
    /\ current # None
    /\ cut' = IF done = 0 THEN cut ELSE cut \union {current}
    /\ current' = None /\ done' = 0
    /\ UNCHANGED <<tables, applied, failed, seed>>

(* Killed in the middle of CREATE INDEX CONCURRENTLY: the index stays, invalid *)
(* and under its name, although the operation has not been carried out.        *)
KilledInside ==
    /\ current # None /\ done < Len(Migration(current).ops)
    /\ LET o == Migration(current).ops[done + 1]
           d == Perform(o, Opened)
       IN o.op = "AddIndex" /\ d.ok /\ tables' = d.tables
    /\ cut' = cut \union {current}
    /\ current' = None /\ done' = 0
    /\ UNCHANGED <<applied, failed, seed>>

UpgradeNext ==
    \/ \E m \in All : Migrate(m) \/ Begin(m)
    \/ CarryOut \/ Finish \/ Killed \/ KilledInside

UpgradeSpec == UpgradeInit /\ [][UpgradeNext]_upgradeVars

----------------------------------------------------------------------------
(* The schema evolves as it does with the rows left aside, whatever the rows:  *)
(* what TLC finds of the schema alone (SchemaUpgrade) is so for every          *)
(* installation, and rows stop an upgrade only at an operation that asks more  *)
(* of them than before, or at a data step.                                     *)
Evolution == INSTANCE SchemaEvolution WITH schema <- Schema(tables), First <- auth_tables
EvolvesAsItsSchema == Evolution!EvolutionSpec

Complete == applied = All
Early(model) == UNION {Values(model, seed[n].rows) : n \in {k \in DOMAIN seed : seed[k].name = "early"}}
Late(model) == UNION {Values(model, seed[n].rows) : n \in {k \in DOMAIN seed : seed[k].name = "late"}}

(* Type invariant: every table respects its own constraints at all times.      *)
UpgradeTypeOK ==
    /\ applied \subseteq All /\ cut \subseteq All
    /\ current \in All \union {None} /\ failed \in All \union {None}
    /\ done \in 0 .. IF current = None THEN 0 ELSE Len(Migration(current).ops)
    /\ AllSound(tables)

(* The upgrade stops at a migration only for one of these reasons: a token     *)
(* whose user had no external system gets no system, which 0026 requires; two  *)
(* systems used the same reference, which a group may hold once (0039); an     *)
(* API token has the key of an old token (0075, which says so); or the process *)
(* was killed inside one of the migrations that run without a transaction,     *)
(* whose indexes and constraints are already there when it is run again.       *)
UpgradeStopsOnlyOn ==
    failed # None =>
        \/ failed \in cut /\ ~Migration(failed).atomic
        \/ /\ failed = api(26)
           /\ \E k \in Early("hdetoken") :
                 \E u \in Early("user") :
                    u.id = k.user /\ u.external_system = None
        \/ /\ failed = api(39)
           /\ \E s, t \in Early("deduplicationset") :
                 /\ ~s.deleted /\ ~t.deleted
                 /\ s.reference_pk = t.reference_pk /\ s.external_system # t.external_system
        \/ /\ failed = api(75)
           /\ {k.key : k \in Late("hdetoken")} \cap {k.key : k \in Late("apitoken")} # {}

(* Rows never stop the migrations that clear the way for their constraint:     *)
(* 0035, 0051 and 0059.                                                        *)
ClearedWayIsOpen == failed # None => failed \notin {api(35), api(51), api(59)}

(* However the two applications were migrated, whatever was killed and run     *)
(* again, an upgrade that completes leaves the tables of the models: same      *)
(* columns, references, constraints and indexes, and no table besides.         *)
SchemaIsTheModels == Complete => TheModels(tables)

(* The reference a set had of its own (until 0038) is the reference of its     *)
(* group after the upgrade, for every set that was not deleted; and only the   *)
(* deleted ones are gone.                                                      *)
LiveSetsKeepTheirReference ==
    Complete =>
        \A s \in Early("deduplicationset") :
            LET now == {r \in Rows(tables, "deduplicationset") : r.id = s.id} IN
            IF s.deleted THEN now = {}
            ELSE \E r \in now :
                    Get(tables, "deduplicationsetgroup", r.group).reference_pk = s.reference_pk

(* Of the images of a live set with the same reference one survives the new    *)
(* uniqueness (0035), with its file, and none is newer; deleted sets leave     *)
(* none.                                                                       *)
NewestImageSurvives ==
    Complete =>
        \A i \in Early("image") :
            LET same == Alike(Early("image"), i, {"deduplication_set", "reference_pk"})
                left == {j \in same : \E r \in Rows(tables, "encoding") :
                                        r.id = j.id /\ r.filename = j.filename}
                live == \E s \in Early("deduplicationset") :
                            s.id = i.deduplication_set /\ ~s.deleted
            IN IF live
               THEN \E j \in left : left = {j} /\ \A k \in same : k.created_at <= j.created_at
               ELSE left = {}

(* A token keeps its key and its user through 0024-0026 and 0075, a user may   *)
(* hold several, and its user ends in the group that may call the API.         *)
TokensStayValid ==
    Complete =>
        \A k \in Early("hdetoken") :
            /\ \E t \in Rows(tables, "apitoken") : t.key = k.key /\ t.user = k.user
            /\ \E g \in Rows(tables, "user_groups") :
                  g.user = k.user /\ g.group = API_USERS_GROUP_NAME

(* The docstring of 0070 (lines 7-13) says which new state each old state      *)
(* becomes.  The updates are made one after the other on the same column, so   *)
(* a set moved to a number that is also an old state is moved again.           *)
StatesAreMapped ==
    Complete =>
        \A s \in Late("deduplicationset") :
            \E r \in Rows(tables, "deduplicationset"), pair \in {OLD_TO_NEW[n] : n \in DOMAIN OLD_TO_NEW} :
                r.id = s.id /\ s.state = pair[1] /\ r.state = pair[2]
==============================================================================
