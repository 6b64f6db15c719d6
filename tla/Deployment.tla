------------------------------ MODULE Deployment ------------------------------
(* A release is rolled out: several containers run `upgrade` on one database   *)
(* at the same time, with the synchronization of the models (compose.yml) or   *)
(* without it (`setup` of docker-entrypoint.sh), while others run `syncmodels` *)
(* on the same directory.  upgrade goes through its parts in order and halts   *)
(* the container at the first that fails; `restart: always` starts it again.   *)
(*                                                                             *)
(* `migrate` is external, modelled from its use: it takes no lock, decides     *)
(* what is to be applied when it starts, and a migration another process has   *)
(* applied meanwhile fails, or passes when it changes nothing in the database. *)
EXTENDS FileSync

CONSTANTS Upgraders,    \* containers that run `upgrade`
          NoSyncModels, \* those that run it with --no-sync-models
          Migrations,   \* how many migrations the release has
          MaxFaults     \* how much goes wrong (a bound)

ASSUME DeploymentAssumption ==
    /\ Upgraders \subseteq Procs \ Forced /\ NoSyncModels \subseteq Upgraders
    /\ Migrations \in Nat /\ MaxFaults \in Nat

VARIABLES stage, accounts, migrated, planned, faults

upgradeVars == <<stage, accounts, migrated, planned>>
deploymentVars == <<syncVars, upgradeVars, faults>>

Accounts == {"superuser", "groups"}
Stages == {"environment", "models", "static", "plan", "migrate", "contenttypes", "superuser",
           "createsuperuser", "groups", "completed", "halted"}

DeploymentInit ==
    /\ SyncInit
    /\ stage = [p \in Upgraders |-> "environment"]
    /\ accounts = {} /\ migrated = 0 /\ planned = [p \in Upgraders |-> 0]
    /\ faults = 0

Enter(p, s) == stage' = [stage EXCEPT ![p] = s]
Fault == faults < MaxFaults /\ faults' = faults + 1

(* halt(e): the part fails, for a reason outside the model.                    *)
Halt(p) == Enter(p, "halted") /\ Fault /\ UNCHANGED <<accounts, migrated, planned>>
Pass(p, s) == Enter(p, s) /\ UNCHANGED <<accounts, migrated, planned, faults>>

(* A mutant: the database is checked before it is migrated.                    *)
RunChecksMigrated(p) ==
    /\ stage[p] = "environment"
    /\ Pass(p, IF migrated < Migrations THEN "halted"
               ELSE IF p \in NoSyncModels THEN "static" ELSE "models")
    /\ UNCHANGED syncVars
(* _run_env, _run_check; without its models the next part is collectstatic.    *)
RunChecks(p) ==
    /\ stage[p] = "environment"
    /\ Pass(p, IF p \in NoSyncModels THEN "static" ELSE "models") \/ Halt(p)
    /\ UNCHANGED syncVars

(* A step of syncmodels that fails, and where the failure ends.                *)
FaultIfFailed(p) ==
    IF pc'[p] \in {"cleanupFailed", "killed"} \/ (pc[p] = "setup" /\ pc'[p] = "halted")
    THEN Fault ELSE UNCHANGED faults

(* A mutant: a failure to synchronize is logged, and the upgrade goes on.      *)
RunSyncModelsAnyway(p) ==
    /\ stage[p] = "models"
    /\ SyncStep(p) /\ FaultIfFailed(p)
    /\ Enter(p, IF pc'[p] \in {"done", "halted"} THEN "static" ELSE "models")
    /\ UNCHANGED <<accounts, migrated, planned>>
(* _run_syncmodels: the command of FileSync, whose halt exits the process.     *)
RunSyncModels(p) ==
    /\ stage[p] = "models"
    /\ SyncStep(p) /\ FaultIfFailed(p)
    /\ Enter(p, CASE pc'[p] = "done" -> "static" [] pc'[p] = "halted" -> "halted" [] OTHER -> "models")
    /\ UNCHANGED <<accounts, migrated, planned>>

RunCollectStatic(p) ==
    /\ stage[p] = "static"
    /\ Pass(p, "plan") \/ Halt(p)
    /\ UNCHANGED syncVars

(* A mutant: the release is taken for applied.                                 *)
PlanNoMigrations(p) ==
    /\ stage[p] = "plan"
    /\ Enter(p, "migrate")
    /\ planned' = [planned EXCEPT ![p] = Migrations]
    /\ UNCHANGED <<syncVars, accounts, migrated, faults>>
(* _run_migrate: the plan is made from what is applied by now.                 *)
PlanMigrations(p) ==
    /\ stage[p] = "plan"
    /\ Enter(p, "migrate")
    /\ planned' = [planned EXCEPT ![p] = migrated]
    /\ UNCHANGED <<syncVars, accounts, migrated, faults>>

ApplyMigration(p) ==
    /\ stage[p] = "migrate" /\ planned[p] < Migrations
    /\ \/ /\ planned[p] = migrated
          /\ migrated' = migrated + 1 /\ planned' = [planned EXCEPT ![p] = @ + 1]
          /\ UNCHANGED <<stage, accounts, faults>>
       \/ /\ planned[p] < migrated
          /\ planned' = [planned EXCEPT ![p] = @ + 1]
          /\ UNCHANGED <<stage, accounts, migrated, faults>>
       \/ /\ planned[p] < migrated
          /\ Pass(p, "halted")
       \/ Halt(p)
    /\ UNCHANGED syncVars

(* create_extra_permissions, then _run_remove_stale_contenttypes.              *)
FinishMigrate(p) ==
    /\ \/ stage[p] = "migrate" /\ planned[p] = Migrations /\ Pass(p, "contenttypes")
       \/ stage[p] = "contenttypes" /\ (Pass(p, "superuser") \/ Halt(p))
    /\ UNCHANGED syncVars

(* _create_superuser: exists(), then createsuperuser, which fails when the     *)
(* name has been taken in between.  Without ADMIN_EMAIL, a fault of the        *)
(* environment, nobody is created, and the part fails unless somebody was.     *)
FindSuperuser(p) ==
    /\ stage[p] = "superuser"
    /\ \/ Pass(p, IF "superuser" \in accounts THEN "groups" ELSE "createsuperuser")
       \/ "superuser" \notin accounts /\ Halt(p)
    /\ UNCHANGED syncVars
CreateSuperuser(p) ==
    /\ stage[p] = "createsuperuser"
    /\ IF "superuser" \in accounts
       THEN Pass(p, "halted")
       ELSE /\ accounts' = accounts \union {"superuser"} /\ Enter(p, "groups")
            /\ UNCHANGED <<migrated, planned, faults>>
    /\ UNCHANGED syncVars

(* _create_groups: get_or_create, which settles a race by itself.              *)
CreateGroups(p) ==
    /\ stage[p] = "groups"
    /\ accounts' = accounts \union {"groups"} /\ Enter(p, "completed")
    /\ UNCHANGED <<syncVars, migrated, planned, faults>>

KillContainer(p) ==
    /\ stage[p] \notin {"halted", "completed"}
    /\ Enter(p, "halted") /\ Fault
    /\ IF stage[p] = "models" THEN Die(p) ELSE UNCHANGED syncVars
    /\ UNCHANGED <<accounts, migrated, planned>>

RestartContainer(p) ==
    /\ stage[p] = "halted"
    /\ Enter(p, "environment") /\ Restarted(p)
    /\ UNCHANGED <<accounts, migrated, planned, faults>>

UpgradeStep(p) ==
    \/ RunChecks(p) \/ RunSyncModels(p) \/ RunCollectStatic(p)
    \/ PlanMigrations(p) \/ ApplyMigration(p) \/ FinishMigrate(p)
    \/ FindSuperuser(p) \/ CreateSuperuser(p) \/ CreateGroups(p) \/ RestartContainer(p)

(* Containers that run `syncmodels` alone.                                     *)
Others == Procs \ Upgraders
OtherStep(p) == SyncStep(p) /\ FaultIfFailed(p) /\ UNCHANGED upgradeVars
OtherEvent(p) == (Die(p) \/ RunAgain(p)) /\ FaultIfFailed(p) /\ UNCHANGED upgradeVars

DeploymentNext ==
    \/ \E p \in Upgraders : UpgradeStep(p) \/ KillContainer(p)
    \/ \E p \in Others : OtherStep(p) \/ OtherEvent(p)

(* Running processes run, and a container that halted is started again.        *)
DeploymentFairness ==
    /\ \A p \in Upgraders : WF_deploymentVars(UpgradeStep(p))
    /\ \A p \in Others : WF_deploymentVars(OtherStep(p))

DeploymentSpec ==
    DeploymentInit /\ [][DeploymentNext]_deploymentVars /\ DeploymentFairness

----------------------------------------------------------------------------
(* Type invariant; no container is ahead of the database.                      *)
DeploymentTypeOK ==
    /\ SyncTypeOK
    /\ stage \in [Upgraders -> Stages] /\ accounts \subseteq Accounts
    /\ migrated \in 0 .. Migrations /\ faults \in 0 .. MaxFaults
    /\ planned \in [Upgraders -> 0 .. Migrations]
    /\ \A p \in Upgraders : planned[p] <= migrated

(* An upgrade that completes has what it serves: every migration applied, by   *)
(* whoever, the accounts, and every file of the models unless it was told not  *)
(* to bring them, whatever was killed, halted and started again on the way.    *)
ServesWhatItNeeds ==
    \A p \in Upgraders :
        stage[p] = "completed" =>
            /\ migrated = Migrations /\ accounts = Accounts
            /\ p \notin NoSyncModels => \A f \in FileIds : content[f] # absent

(* Every rollout ends: each upgrade completes, or its container has been       *)
(* halted as often as it is started; none waits for the lock of a model file   *)
(* for good, which another container may have taken and died with.             *)
RolloutEnds ==
    \A p \in Upgraders :
        <>(stage[p] = "completed" \/ (stage[p] = "halted" /\ runs[p] = MaxRuns[p]))

(* Two upgrades at once may halt each other (a migration or the superuser of   *)
(* the other is already there), but never both for good: as long as nothing    *)
(* fails by itself, one of them completes.                                     *)
SomeUpgradeCompletes ==
    <>(faults > 0 \/ \E p \in Upgraders : stage[p] = "completed")
================================================================================
