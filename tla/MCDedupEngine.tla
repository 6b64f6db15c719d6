----------------------------- MODULE MCDedupEngine -----------------------------
(***************************************************************************)
(* Instances of DedupEngine for TLC.                                       *)
(***************************************************************************)
EXTENDS DedupEngine, TLC

\* Jobs, sets, requests and workers are interchangeable: no action and no safety
\* property tells one from another.  Runs with liveness do not use it.
Symmetry ==
  Permutations(Sets) \cup Permutations(Jobs)
    \cup Permutations(Requests) \cup Permutations(Workers)
================================================================================
