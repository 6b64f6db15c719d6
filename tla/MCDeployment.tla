------------------------------ MODULE MCDeployment ------------------------------
(* The backend of compose.yml, the setup job and a forced synchronization.     *)
EXTENDS Deployment

MCMaxRuns == [backend |-> 2, setup |-> 2, pod |-> 2]
=================================================================================
