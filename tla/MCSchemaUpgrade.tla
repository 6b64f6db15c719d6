---------------------------- MODULE MCSchemaUpgrade ----------------------------
(* The upgrade of the installations of MCUpgrade, and beside it that of the    *)
(* schema with the rows left aside, as two systems of which one is at work:    *)
(* the other rests in its initial state.                                       *)
EXTENDS MCUpgrade

VARIABLES schema, schemaApplied, schemaCurrent, schemaDone, schemaCut, schemaFailed

Rowless == INSTANCE SchemaUpgrade
            WITH applied <- schemaApplied, current <- schemaCurrent, done <- schemaDone,
                 cut <- schemaCut, failed <- schemaFailed

rowlessVars == <<schema, schemaApplied, schemaCurrent, schemaDone, schemaCut, schemaFailed>>

RowsLeftAside == schemaApplied # {} \/ schemaFailed # None
Installed == applied # {} \/ failed # None

InstallationStep == ~RowsLeftAside /\ UNCHANGED rowlessVars
SchemaStep == ~Installed /\ seed = << >> /\ UNCHANGED upgradeVars

BothNext ==
    \/ \E m \in All : Migrate(m) /\ InstallationStep
    \/ \E m \in All : Begin(m) /\ InstallationStep
    \/ CarryOut /\ InstallationStep
    \/ Finish /\ InstallationStep
    \/ Killed /\ InstallationStep
    \/ KilledInside /\ InstallationStep
    \/ \E m \in All : Rowless!Apply(m) /\ SchemaStep
    \/ \E m \in All : Rowless!Stop(m) /\ SchemaStep
    \/ \E m \in All : Rowless!Start(m) /\ SchemaStep
    \/ Rowless!Step /\ SchemaStep
    \/ Rowless!StopInside /\ SchemaStep
    \/ Rowless!Complete /\ SchemaStep
    \/ Rowless!Die /\ SchemaStep
    \/ Rowless!DieInside /\ SchemaStep

BothInit == UpgradeInit /\ Rowless!EvolutionInit
BothSpec == BothInit /\ [][BothNext]_<<upgradeVars, rowlessVars>>

(* Whatever the order of the two applications, a migration that no crash left  *)
(* half carried out finds the tables, columns and constraints it is about.     *)
EveryOperationFits == Rowless!EveryOperationFits

(* 0035, 0051 and 0059 can make the rows fit: nothing refers to what they      *)
(* delete, nothing constrains what they rewrite.                               *)
TheWayIsClear == Rowless!TheWayIsClear

(* All migrations leave the tables of the models, whatever was killed.         *)
EvolvesToTheModels == Rowless!EvolvesToTheModels
================================================================================
