----------------------------- MODULE SchemaUpgrade -----------------------------
(* The schema through all migrations, for installations with any rows: every   *)
(* order of the two applications, every stop the rows may cause, and crashes   *)
(* inside the migrations that run without a transaction.                       *)
EXTENDS Schemas

VARIABLES schema, applied, current, done, cut, failed

INSTANCE SchemaEvolution WITH First <- auth_tables

(* Whatever the order of the two applications, a migration finds the tables,   *)
(* columns, constraints and indexes its operations are about, unless a crash   *)
(* left it half carried out: rows apart, no order of `migrate` is a dead end.  *)
EveryOperationFits ==
    \A m \in All \ cut :
        Due(m) => AllFit(Migration(m).ops, schema, Len(Migration(m).ops))

(* The three migrations that first make the rows fit their new constraint can  *)
(* do so: nothing refers to the images and findings that 0035 and 0051 delete, *)
(* and the states that 0059 rewrites are free of constraints.                  *)
TheWayIsClear == \A m \in All : Due(m) => ClearsItsWay(m, schema)

(* An upgrade that completes leaves the schema of the models, whatever was     *)
(* killed on the way.                                                          *)
EvolvesToTheModels == applied = All => TheModels(schema)
==============================================================================
