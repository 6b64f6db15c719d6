----------------------------- MODULE MCAdminEngine -----------------------------
(***************************************************************************)
(* Instances of AdminEngine for TLC.                                       *)
(***************************************************************************)
EXTENDS AdminEngine, TLC

\* Sets, jobs and workers are interchangeable, as in DedupEngine.
Symmetry == Permutations(Sets) \cup Permutations(Jobs) \cup Permutations(Workers)

\* Bounds the change forms: they are opened on a set whose run is under way or that waits
\* for its judgement, and may be saved at any time later.
FormStates == {"ENCODING_IN_PROGRESS", "DEDUPLICATED"}

FormsOfInterest == \A a \in Admins : adm'[a].pc = "form" => adm'[a].seen \in FormStates
================================================================================
