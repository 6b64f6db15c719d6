------------------------------ MODULE MCGroupData ------------------------------
(***************************************************************************)
(* Instances of GroupData for TLC: three pictures, two of them of the same *)
(* person, one of these too blurred for the stricter settings, and one of  *)
(* nobody.                                                                 *)
(***************************************************************************)
EXTENDS GroupData, TLC

MCMetrics == {"Sharpness"}

Sharp(n) == [m \in MCMetrics |-> n]

MCPhoto ==
  [ ann |-> [quality |-> Sharp(90), faces |-> 1, confidence |-> 99],
    anna |-> [quality |-> Sharp(40), faces |-> 1, confidence |-> 95],
    wall |-> [quality |-> None, faces |-> 0, confidence |-> 0] ]

MCImages == DOMAIN MCPhoto

\* anna is ann on another, less sharp picture.
MCMatch ==
  [i \in MCImages |-> [k \in MCImages |->
     IF i = k THEN 10000 ELSE IF {i, k} = {"ann", "anna"} THEN 7000 ELSE 0]]

Strict == [face |-> 90, duplicate |-> 50, quality |-> Sharp(60)]
Lenient == [face |-> 90, duplicate |-> 60, quality |-> Sharp(0)]
MCConfigs == {Strict, Lenient}

MCSets == {"first", "second"}

MCOffered ==
  [d \in MCSets |->
     IF d = "first" THEN (1 :> {"ann"}) @@ (2 :> {"anna"})
                    ELSE (1 :> {"ann", "wall"}) @@ (2 :> {})]

\* The requests and actions of one behaviour: those whose interplay is at stake.  A
\* behaviour is followed while both sets are settled, a smaller one while one of them is.
Smaller ==
  { {"late_request"},
    {"late_upload", "config", "restart"},
    {"admin_clear", "admin_findings", "admin_encode", "admin_deduplicate", "killed",
     "cleanup"},
    {"admin_encode", "restart", "storage_fails"},
    {"admin_findings", "admin_deduplicate", "cleanup", "storage_fails"} }

MCScenarios ==
  Smaller \cup
  { {"late_request", "clear"},
    {"late_request", "config"},
    {"admin_settings", "clear"} }

SomeSettled ==
  IF actors \in Smaller THEN disturbed # Sets ELSE disturbed = {}
================================================================================
