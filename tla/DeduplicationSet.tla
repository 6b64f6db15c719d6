---------------------------- MODULE DeduplicationSet ----------------------------
(***************************************************************************)
(* The lifecycle of a deduplication set: the states of its row, the table  *)
(* of transitions set_state accepts, and the groups of states the API, the *)
(* worker and the unique constraint of the table decide by.                *)
(***************************************************************************)

VALID_TRANSITIONS ==
  [ EMPTY                     |-> {"UPLOADING_IN_PROGRESS"},
    UPLOADING_IN_PROGRESS     |-> {"UPLOADING_IN_PROGRESS", "READY"},
    READY                     |-> {"ENCODING_IN_PROGRESS"},
    ENCODING_IN_PROGRESS      |-> {"ENCODED", "ENCODING_FAILED"},
    ENCODED                   |-> {"DEDUPLICATION_IN_PROGRESS", "ENCODING_IN_PROGRESS", "READY"},
    ENCODING_FAILED           |-> {"ENCODING_IN_PROGRESS"},
    DEDUPLICATION_IN_PROGRESS |-> {"DEDUPLICATED", "DEDUPLICATION_FAILED"},
    DEDUPLICATED              |-> {"APPROVED", "REJECTED", "READY", "ENCODED"},
    DEDUPLICATION_FAILED      |-> {"DEDUPLICATION_IN_PROGRESS", "ENCODING_IN_PROGRESS"},
    APPROVED                  |-> {},
    REJECTED                  |-> {} ]

State ==
  { "EMPTY", "UPLOADING_IN_PROGRESS", "READY", "ENCODING_IN_PROGRESS", "ENCODED",
    "ENCODING_FAILED", "DEDUPLICATION_IN_PROGRESS", "DEDUPLICATED",
    "DEDUPLICATION_FAILED", "APPROVED", "REJECTED" }

PROCESSABLE_STATES == {"READY", "ENCODED", "ENCODING_FAILED", "DEDUPLICATION_FAILED"}

\* The states that keep the group's unique slot; BLOCKING_STATES of the model and
\* the condition of its partial unique index name the same seven.
BLOCKING_STATES ==
  State \ {"ENCODING_FAILED", "DEDUPLICATION_FAILED", "APPROVED", "REJECTED"}

\* Where a cancelled run leaves its set; in any other state the set is left alone.
CANCELLED_STATES ==
  [ ENCODING_IN_PROGRESS      |-> "ENCODING_FAILED",
    DEDUPLICATION_IN_PROGRESS |-> "DEDUPLICATION_FAILED" ]

\* set_state's check; it looks at the object in memory, never at the row.
Allowed(memory, target) == target \in VALID_TRANSITIONS[memory]

FinalStates == {"APPROVED", "REJECTED"}

InProgress == {"ENCODING_IN_PROGRESS", "DEDUPLICATION_IN_PROGRESS"}
================================================================================
