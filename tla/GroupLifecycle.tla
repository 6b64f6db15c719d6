----------------------------- MODULE GroupLifecycle -----------------------------
(***************************************************************************)
(* What a deduplication set group promises its clients, with no lock, job, *)
(* message or copy in memory: its sets move along the lifecycle, at most   *)
(* one of them holds the active slot, at most one run is under way, only   *)
(* the run moves its own set while it works, a run that ends with its set  *)
(* in progress has given it up, and approved and rejected sets never move  *)
(* again.                                                                  *)
(***************************************************************************)
EXTENDS DeduplicationSet

CONSTANTS Sets, None

VARIABLES
  state,    \* state[d], None while there is no such set
  current,  \* the set the run of the group works on, None when there is no run
  stranded, \* sets their last run gave up while they were in progress
  deleted

vars == <<state, current, stranded, deleted>>

Init ==
  /\ state = [d \in Sets |-> None]
  /\ current = None
  /\ stranded = {}
  /\ deleted = FALSE

Move(d, from, to) ==
  /\ state[d] \in from
  /\ to \in VALID_TRANSITIONS[state[d]]
  /\ state' = [state EXCEPT ![d] = to]

SlotIsFree == \A d \in Sets : state[d] \notin BLOCKING_STATES

Create(d) ==
  /\ ~deleted
  /\ state[d] = None
  /\ SlotIsFree
  /\ state' = [state EXCEPT ![d] = "EMPTY"]
  /\ UNCHANGED <<current, stranded, deleted>>

Register(d) ==
  /\ \/ Move(d, {"EMPTY"}, "UPLOADING_IN_PROGRESS")
     \/ Move(d, {"UPLOADING_IN_PROGRESS"}, "READY")
  /\ UNCHANGED <<current, stranded, deleted>>

\* Findings are judged once they are complete; the run may still be writing its log.
Judge(d) ==
  /\ \E verdict \in FinalStates : Move(d, {"DEDUPLICATED"}, verdict)
  /\ UNCHANGED <<current, stranded, deleted>>

\* New settings put a processed set back, between runs only.
Reset(d) ==
  /\ current = None
  /\ ~deleted
  /\ Move(d, {"ENCODED", "DEDUPLICATED"}, "READY")
  /\ UNCHANGED <<current, stranded, deleted>>

StartRun(d) ==
  /\ current = None
  /\ ~deleted
  /\ \A e \in Sets \ {d} : state[e] \notin BLOCKING_STATES
  /\ Move(d, PROCESSABLE_STATES, "ENCODING_IN_PROGRESS")
  /\ current' = d
  /\ stranded' = stranded \ {d}
  /\ UNCHANGED deleted

\* The steps of find_duplicates.
RunStep(d) ==
  /\ current = d
  /\ d \notin stranded
  /\ \/ \E to \in {"ENCODED", "ENCODING_FAILED"} : Move(d, {"ENCODING_IN_PROGRESS"}, to)
     \/ Move(d, {"ENCODED"}, "DEDUPLICATION_IN_PROGRESS")
     \/ \E to \in {"DEDUPLICATED", "DEDUPLICATION_FAILED"} :
          Move(d, {"DEDUPLICATION_IN_PROGRESS"}, to)
  /\ UNCHANGED <<current, stranded, deleted>>

\* The start of the second stage was not recorded, and its handler fails the set.
FailUnrecorded(d) ==
  /\ current = d
  /\ state[d] = "ENCODED"
  /\ state' = [state EXCEPT ![d] = "DEDUPLICATION_FAILED"]
  /\ UNCHANGED <<current, stranded, deleted>>

\* The run is killed, or cannot record how it failed ...
GiveUp ==
  /\ current # None
  /\ state[current] \in InProgress
  /\ stranded' = stranded \cup {current}
  /\ UNCHANGED <<state, current, deleted>>

\* ... and another attempt at the same job takes the set up again.
TakeUp ==
  /\ current \in stranded
  /\ stranded' = stranded \ {current}
  /\ UNCHANGED <<state, current, deleted>>

EndRun ==
  /\ current # None
  /\ state[current] \in InProgress => current \in stranded
  /\ current' = None
  /\ UNCHANGED <<state, stranded, deleted>>

Delete ==
  /\ current = None
  /\ ~deleted
  /\ deleted' = TRUE
  /\ UNCHANGED <<state, current, stranded>>

Next ==
  \/ \E d \in Sets :
       \/ Create(d) \/ Register(d) \/ Judge(d) \/ Reset(d)
       \/ StartRun(d) \/ RunStep(d) \/ FailUnrecorded(d)
  \/ GiveUp \/ TakeUp \/ EndRun
  \/ Delete

Spec == Init /\ [][Next]_vars
================================================================================
