------------------------------- MODULE DedupEngine -------------------------------
(***************************************************************************)
(* The control of one deduplication set group: the API requests, the       *)
(* broker that carries the processing jobs, and the Celery workers that    *)
(* run find_duplicates.  They share the rows of the database: the group    *)
(* (processing_locked, deleted), its deduplication sets (state, log) and   *)
(* the job rows.  A request or a run is a process that reads a row, keeps  *)
(* the copy in memory, and writes the row again some steps later; every    *)
(* action is what happens between two points where another process can    *)
(* see or change the shared rows.                                          *)
(*                                                                         *)
(* The images, the embeddings and the findings are not part of this        *)
(* module: encode_faces and dedupe_all either finish, fail, or stop        *)
(* because a cancellation was requested.                                   *)
(***************************************************************************)
EXTENDS Naturals, DeduplicationSet

CONSTANTS
  Sets,       \* rows of deduplication sets the group may come to hold
  Jobs,       \* rows of MainJob: bounds how many runs are started
  Requests,   \* slots of API requests that are served at the same time
  Workers,    \* Celery worker processes
  None,       \* no set, no job, no state
  Endpoints,  \* the endpoints clients use in this instance
  Faults,     \* the faults of the environment in this instance
  MaxFaults   \* bounds how many faults happen

AllEndpoints ==
  { "create", "upload", "ready", "process", "approve", "reject", "clear",
    "config", "delete", "cancel" }

\* request: the web process dies, or job.queue() raises, after the lock was taken
\* crash: the whole worker dies (its node goes, or it is stopped without mercy) inside
\*   find_duplicates, before its set is DEDUPLICATED: nobody acknowledges the message
\* done_crash: the same after that
\* late_crash: the same after find_duplicates returned, before the late ack
\* killed: only the process of the pool that runs find_duplicates is killed (out of
\*   memory): its parent records WorkerLostError and acknowledges the message
\* early: the visibility timeout ends while the worker still runs the task
\* exception: a statement of find_duplicates other than the two computations raises
AllFaults ==
  {"request", "crash", "done_crash", "late_crash", "killed", "early", "exception"}

\* A row of MainJob: its set, the kind of run, and a termination that was asked for.
JobRow == [ds : Sets, encode_only : BOOLEAN, cancel : BOOLEAN]

ASSUME EngineAssumption ==
  /\ None \notin Sets \cup Jobs \cup State
  /\ None \notin JobRow
  /\ Endpoints \subseteq AllEndpoints
  /\ Faults \subseteq AllFaults
  /\ MaxFaults \in Nat

VARIABLES
  state,    \* state[d]: the state column of set d, None while the row is absent
  log,      \* log[d]: how many entries its log column has
  stranded, \* history: sets the last run gave up while they were in progress
  locked,   \* processing_locked of the group row
  deleted,  \* deleted of the group row
  job,      \* job[j]: the MainJob row, None until it is created
  msg,      \* msg[j]: where the broker has the task message of job j; "lost" when it was
            \* acknowledged for a run that never released the lock
  req,      \* req[h]: the request served in slot h
  run,      \* run[w]: the task worker w executes
  faults    \* faults so far

vars == <<state, log, stranded, locked, deleted, job, msg, req, run, faults>>
setVars == <<state, log, stranded>>
groupVars == <<locked, deleted>>
jobVars == <<job, msg>>

IdleRequest == [pc |-> "idle", ds |-> None, seen |-> None, job |-> None]
IdleRun == [pc |-> "idle", job |-> None, mem |-> None, log |-> 0]

RequestPc ==
  { "idle", "upload", "ready", "approve", "reject", "clear", "config",
    "process", "start", "queue", "lost" }
RunPc ==
  { "idle", "begin", "encode", "encoded", "start_dedupe", "dedupe", "deduped",
    "log", "log_failed", "error", "release", "ack" }

TypeOK ==
  /\ state \in [Sets -> State \cup {None}]
  /\ log \in [Sets -> Nat]
  /\ stranded \subseteq Sets
  /\ locked \in BOOLEAN
  /\ deleted \in BOOLEAN
  /\ job \in [Jobs -> JobRow \cup {None}]
  /\ msg \in [Jobs -> {"none", "queued", "unacked", "done", "lost"}]
  /\ req \in [Requests -> [pc : RequestPc, ds : Sets \cup {None},
                           seen : State \cup {None}, job : Jobs \cup {None}]]
  /\ run \in [Workers -> [pc : RunPc, job : Jobs \cup {None},
                          mem : State \cup {None}, log : Nat]]
  /\ faults \in 0..MaxFaults

Init ==
  /\ state = [d \in Sets |-> None]
  /\ log = [d \in Sets |-> 0]
  /\ stranded = {}
  /\ locked = FALSE
  /\ deleted = FALSE
  /\ job = [j \in Jobs |-> None]
  /\ msg = [j \in Jobs |-> "none"]
  /\ req = [h \in Requests |-> IdleRequest]
  /\ run = [w \in Workers |-> IdleRun]
  /\ faults = 0

Fault(f) ==
  /\ f \in Faults
  /\ faults < MaxFaults
  /\ faults' = faults + 1

\* The partial unique index: at most one set of the group in a blocking state.
Fits(d, target) ==
  target \in BLOCKING_STATES =>
    \A e \in Sets \ {d} : state[e] \notin BLOCKING_STATES

\* A config update keeps the group row locked from its SELECT ... FOR UPDATE to its
\* commit: every other statement that writes or locks the group row waits.
RowFree == \A h \in Requests : req[h].pc # "config"

-----------------------------------------------------------------------------
(***************************************************************************)
(* API requests.                                                           *)
(***************************************************************************)

\* The states in which an endpoint goes on after get_object.
Admits ==
  [ upload  |-> {"EMPTY", "UPLOADING_IN_PROGRESS"},
    ready   |-> {"UPLOADING_IN_PROGRESS"},
    process |-> PROCESSABLE_STATES,
    approve |-> {"DEDUPLICATED"},
    reject  |-> {"DEDUPLICATED"},
    clear   |-> State \ {"APPROVED"} ]

\* A request reads its set; what it saw is all it will know of it.
Receive(h, endpoint, d) ==
  /\ endpoint \in Endpoints
  /\ req[h].pc = "idle"
  /\ ~deleted
  /\ state[d] \in Admits[endpoint]
  /\ req' = [req EXCEPT ![h] =
               [pc |-> endpoint, ds |-> d, seen |-> state[d], job |-> None]]
  /\ UNCHANGED <<setVars, groupVars, jobVars, run, faults>>

Reply(h) == req' = [req EXCEPT ![h] = IdleRequest]

\* set_state on the object the request holds, and the end of the request; a refused
\* transition or a violated index leaves the row as it was.
SetState(h, target) ==
  LET d == req[h].ds IN
  /\ state' = IF Allowed(req[h].seen, target) /\ Fits(d, target)
              THEN [state EXCEPT ![d] = target]
              ELSE state
  /\ Reply(h)
  /\ UNCHANGED <<log, stranded, groupVars, jobVars, run, faults>>

\* Only the batch that saw the set empty writes its state.
Upload(h) ==
  /\ req[h].pc = "upload"
  /\ \/ /\ req[h].seen = "EMPTY"
        /\ SetState(h, "UPLOADING_IN_PROGRESS")
     \/ /\ req[h].seen # "EMPTY"
        /\ Reply(h)
        /\ UNCHANGED <<setVars, groupVars, jobVars, run, faults>>

Ready(h) == req[h].pc = "ready" /\ SetState(h, "READY")

Approve(h) == req[h].pc = "approve" /\ SetState(h, "APPROVED")

Reject(h) == req[h].pc = "reject" /\ SetState(h, "REJECTED")

\* Assigns the column without set_state: no transition is refused.
Clear(h) ==
  LET d == req[h].ds IN
  /\ req[h].pc = "clear"
  /\ state' = IF Fits(d, "EMPTY") THEN [state EXCEPT ![d] = "EMPTY"] ELSE state
  /\ Reply(h)
  /\ UNCHANGED <<log, stranded, groupVars, jobVars, run, faults>>

FreeJobs == {j \in Jobs : job[j] = None}

\* Mutant: the UPDATE does not ask for processing_locked = FALSE.
AcquireTaken(h) ==
  /\ req[h].pc = "process"
  /\ RowFree
  /\ ~deleted /\ FreeJobs # {}
  /\ locked' = TRUE
  /\ req' = [req EXCEPT ![h].pc = "start"]
  /\ UNCHANGED <<setVars, deleted, jobVars, run, faults>>

\* Mutant: the UPDATE does not ask for deleted = FALSE.
AcquireDeleted(h) ==
  /\ req[h].pc = "process"
  /\ RowFree
  /\ ~locked /\ FreeJobs # {}
  /\ locked' = TRUE
  /\ req' = [req EXCEPT ![h].pc = "start"]
  /\ UNCHANGED <<setVars, deleted, jobVars, run, faults>>

\* process, the conditional UPDATE of acquire_processing_lock.  A request beyond the
\* bound on job rows is answered like one that finds the group busy.
Acquire(h) ==
  /\ req[h].pc = "process"
  /\ RowFree
  /\ \/ /\ ~deleted /\ ~locked /\ FreeJobs # {}
        /\ locked' = TRUE
        /\ req' = [req EXCEPT ![h].pc = "start"]
     \/ /\ deleted \/ locked \/ FreeJobs = {}
        /\ Reply(h)
        /\ UNCHANGED locked
  /\ UNCHANGED <<setVars, deleted, jobVars, run, faults>>

\* Mutant: the lock is kept when the transaction fails.
StartKeepsLock(h) ==
  LET d == req[h].ds IN
  /\ req[h].pc = "start"
  /\ \/ /\ Fits(d, "ENCODING_IN_PROGRESS")
        /\ state' = [state EXCEPT ![d] = "ENCODING_IN_PROGRESS"]
        /\ \E j \in FreeJobs, encode_only \in BOOLEAN :
             /\ job' = [job EXCEPT ![j] =
                          [ds |-> d, encode_only |-> encode_only, cancel |-> FALSE]]
             /\ req' = [req EXCEPT ![h] =
                           [pc |-> "queue", ds |-> d, seen |-> req[h].seen, job |-> j]]
     \/ /\ ~Fits(d, "ENCODING_IN_PROGRESS")
        /\ Reply(h)
        /\ UNCHANGED <<state, job>>
  /\ UNCHANGED <<log, stranded, groupVars, msg, run, faults>>

\* process, the transaction that moves the set and creates the job; when it fails the
\* lock is released and the error goes to the client.
Start(h) ==
  LET d == req[h].ds
      accepted == /\ Allowed(req[h].seen, "ENCODING_IN_PROGRESS")
                  /\ Fits(d, "ENCODING_IN_PROGRESS")
  IN
  /\ req[h].pc = "start"
  /\ \/ /\ accepted
        /\ state' = [state EXCEPT ![d] = "ENCODING_IN_PROGRESS"]
        /\ \E j \in FreeJobs, encode_only \in BOOLEAN :
             /\ job' = [job EXCEPT ![j] =
                          [ds |-> d, encode_only |-> encode_only, cancel |-> FALSE]]
             /\ req' = [req EXCEPT ![h] =
                           [pc |-> "queue", ds |-> d, seen |-> req[h].seen, job |-> j]]
        /\ stranded' = stranded \ {d}
        /\ UNCHANGED locked
     \/ /\ ~accepted
        /\ locked' = FALSE
        /\ Reply(h)
        /\ UNCHANGED <<state, stranded, job>>
  /\ UNCHANGED <<log, deleted, msg, run, faults>>

\* process, job.queue().
Queue(h) ==
  /\ req[h].pc = "queue"
  /\ msg' = [msg EXCEPT ![req[h].job] = "queued"]
  /\ Reply(h)
  /\ UNCHANGED <<setVars, groupVars, job, run, faults>>

\* The process that serves the request dies with the lock taken, or job.queue(), which
\* no handler surrounds, raises.  The slot remembers a set it left in progress.
LoseRequest(h) ==
  /\ req[h].pc \in {"start", "queue"}
  /\ Fault("request")
  /\ req' = [req EXCEPT ![h] =
               [pc |-> "lost", ds |-> IF req[h].pc = "queue" THEN req[h].ds ELSE None,
                seen |-> None, job |-> None]]
  /\ UNCHANGED <<setVars, groupVars, jobVars, run>>

\* Mutant: settings are changed without the processing lock.
ConfigUnlocked(h) ==
  /\ "config" \in Endpoints
  /\ req[h].pc = "idle"
  /\ ~deleted
  /\ \E d \in Sets :
       /\ state[d] \in {"ENCODED", "DEDUPLICATED"}
       /\ req' = [req EXCEPT ![h] =
                    [pc |-> "config", ds |-> d, seen |-> state[d], job |-> None]]
  /\ UNCHANGED <<setVars, groupVars, jobVars, run, faults>>

\* POST config up to the read of the set it has to reset: the row of the group is
\* locked, processing_locked was free (it is set and reset inside the transaction, so
\* nobody sees it), and no set is approved.
ConfigRead(h) ==
  /\ "config" \in Endpoints
  /\ req[h].pc = "idle"
  /\ RowFree
  /\ ~deleted /\ ~locked
  /\ \A d \in Sets : state[d] # "APPROVED"
  /\ LET processed == {d \in Sets : state[d] \in {"ENCODED", "DEDUPLICATED"}} IN
     \/ /\ processed = {}
        /\ req' = [req EXCEPT ![h] = [IdleRequest EXCEPT !.pc = "config"]]
     \/ \E d \in processed :
          req' = [req EXCEPT ![h] =
                    [pc |-> "config", ds |-> d, seen |-> state[d], job |-> None]]
  /\ UNCHANGED <<setVars, groupVars, jobVars, run, faults>>

\* POST config, from there to the commit.
ConfigCommit(h) ==
  /\ req[h].pc = "config"
  /\ \/ /\ req[h].ds # None
        /\ SetState(h, "READY")
     \/ /\ req[h].ds = None
        /\ Reply(h)
        /\ UNCHANGED <<setVars, groupVars, jobVars, run, faults>>

\* POST on the sets: checks and inserts in one transaction that holds the group row.
Create(d) ==
  /\ "create" \in Endpoints
  /\ RowFree
  /\ ~deleted
  /\ state[d] = None
  /\ Fits(d, "EMPTY")
  /\ state' = [state EXCEPT ![d] = "EMPTY"]
  /\ UNCHANGED <<log, stranded, groupVars, jobVars, req, run, faults>>

\* DELETE on the group: one transaction under SELECT ... FOR UPDATE.
SoftDelete ==
  /\ "delete" \in Endpoints
  /\ RowFree
  /\ ~deleted /\ ~locked
  /\ deleted' = TRUE
  /\ UNCHANGED <<setVars, locked, jobVars, req, run, faults>>

\* An administrator asks for the termination of a job that is not over.
Cancel(j) ==
  /\ "cancel" \in Endpoints
  /\ job[j] # None
  /\ msg[j] \in {"queued", "unacked"}
  /\ ~job[j].cancel
  /\ job' = [job EXCEPT ![j].cancel = TRUE]
  /\ UNCHANGED <<setVars, groupVars, msg, req, run, faults>>

-----------------------------------------------------------------------------
(***************************************************************************)
(* The worker: find_duplicates.                                            *)
(***************************************************************************)

Cancelled(w) == job[run[w].job].cancel

Goto(w, pc) == run' = [run EXCEPT ![w].pc = pc]

\* The run goes on with another state in memory.
Remember(w, mem, pc) ==
  run' = [run EXCEPT ![w] = [pc |-> pc, job |-> run[w].job, mem |-> mem, log |-> run[w].log]]

\* Mutant: the log is not read again when the run begins.
DeliverOldLog(w) ==
  /\ run[w].pc = "idle"
  /\ \E j \in Jobs :
       /\ msg[j] = "queued"
       /\ msg' = [msg EXCEPT ![j] = "unacked"]
       /\ run' = [run EXCEPT ![w] = [pc |-> "begin", job |-> j,
                                     mem |-> state[job[j].ds], log |-> 0]]
  /\ UNCHANGED <<setVars, groupVars, job, req, faults>>

\* Mutant: the message is acknowledged when it is received.
DeliverEarlyAck(w) ==
  /\ run[w].pc = "idle"
  /\ \E j \in Jobs :
       /\ msg[j] = "queued"
       /\ msg' = [msg EXCEPT ![j] = "done"]
       /\ run' = [run EXCEPT ![w] = [pc |-> "begin", job |-> j,
                                     mem |-> state[job[j].ds], log |-> log[job[j].ds]]]
  /\ UNCHANGED <<setVars, groupVars, job, req, faults>>

\* The message is handed to a worker, which loads the job, its set and the group.
Deliver(w) ==
  /\ run[w].pc = "idle"
  /\ \E j \in Jobs :
       /\ msg[j] = "queued"
       /\ msg' = [msg EXCEPT ![j] = "unacked"]
       /\ run' = [run EXCEPT ![w] = [pc |-> "begin", job |-> j,
                                     mem |-> state[job[j].ds], log |-> log[job[j].ds]]]
       /\ stranded' = stranded \ {job[j].ds}
  /\ UNCHANGED <<state, log, groupVars, job, req, faults>>

\* A run of job j ends for good and leaves its set as it is.
GiveUp(j) ==
  stranded' = stranded \cup {d \in Sets : d = job[j].ds /\ state[d] \in InProgress}

\* Those loads are outside of the try block: when one raises, the task fails, the message
\* is acknowledged, and nothing releases the lock.
LoadFails(w) ==
  /\ run[w].pc = "idle"
  /\ Fault("exception")
  /\ \E j \in Jobs :
       /\ msg[j] = "queued"
       /\ msg' = [msg EXCEPT ![j] = "lost"]
       /\ GiveUp(j)
  /\ UNCHANGED <<state, log, groupVars, job, req, run>>

Begin(w) ==
  /\ run[w].pc = "begin"
  /\ ~Cancelled(w)
  /\ Goto(w, "encode")
  /\ UNCHANGED <<setVars, groupVars, jobVars, req, faults>>

Encode(w) ==
  /\ run[w].pc = "encode"
  /\ Goto(w, "encoded")
  /\ UNCHANGED <<setVars, groupVars, jobVars, req, faults>>

\* set_state on the set the run holds.  The check is made on the copy in memory, which
\* is changed before the row is: the index may still refuse the row.
Advance(w, target, next) ==
  LET d == job[run[w].job].ds IN
  /\ \/ /\ ~Allowed(run[w].mem, target)
        /\ Goto(w, "error")
        /\ UNCHANGED state
     \/ /\ Allowed(run[w].mem, target)
        /\ Fits(d, target)
        /\ state' = [state EXCEPT ![d] = target]
        /\ Remember(w, target, next)
     \/ /\ Allowed(run[w].mem, target)
        /\ ~Fits(d, target)
        /\ Remember(w, target, "error")
        /\ UNCHANGED state
  /\ UNCHANGED <<log, stranded, groupVars, jobVars, req, faults>>

SetEncoded(w) ==
  /\ run[w].pc = "encoded"
  /\ ~Cancelled(w)
  /\ Advance(w, "ENCODED",
             IF job[run[w].job].encode_only THEN "log" ELSE "start_dedupe")

StartDedupe(w) ==
  /\ run[w].pc = "start_dedupe"
  /\ Advance(w, "DEDUPLICATION_IN_PROGRESS", "dedupe")

Dedupe(w) ==
  /\ run[w].pc = "dedupe"
  /\ Goto(w, "deduped")
  /\ UNCHANGED <<setVars, groupVars, jobVars, req, faults>>

SetDeduplicated(w) ==
  /\ run[w].pc = "deduped"
  /\ Advance(w, "DEDUPLICATED", "log")

\* The whole list is saved: the entries the run loaded when it began, and its own.
AppendLog(w) ==
  LET d == job[run[w].job].ds IN
  /\ run[w].pc \in {"log", "log_failed"}
  /\ log' = [log EXCEPT ![d] = run[w].log + 1]
  /\ Goto(w, "release")
  /\ UNCHANGED <<state, stranded, groupVars, jobVars, req, faults>>

\* Mutant: a cancelled run gets a state of its own.
StopWithNewState(w) ==
  /\ run[w].pc \in {"begin", "encode", "encoded", "dedupe"}
  /\ Cancelled(w)
  /\ state' = [state EXCEPT ![job[run[w].job].ds] = "CANCELLED"]
  /\ Goto(w, "log_failed")
  /\ UNCHANGED <<log, stranded, groupVars, jobVars, req, faults>>

\* Mutant: a cancelled run only stops.
StopSilently(w) ==
  /\ run[w].pc \in {"begin", "encode", "encoded", "dedupe"}
  /\ Cancelled(w)
  /\ Goto(w, "log_failed")
  /\ UNCHANGED <<setVars, groupVars, jobVars, req, faults>>

\* A check for cancellation raises, and the run puts its set in the failed state.
StopCancelled(w) ==
  LET d == job[run[w].job].ds
      inProgress == run[w].mem \in DOMAIN CANCELLED_STATES
      stopped == CANCELLED_STATES[run[w].mem]
  IN
  /\ run[w].pc \in {"begin", "encode", "encoded", "dedupe"}
  /\ Cancelled(w)
  /\ \/ /\ inProgress
        /\ state' = [state EXCEPT ![d] = stopped]
        /\ Remember(w, stopped, "log_failed")
     \/ /\ ~inProgress
        /\ Goto(w, "log_failed")
        /\ UNCHANGED state
  /\ UNCHANGED <<log, stranded, groupVars, jobVars, req, faults>>

\* encode_faces or dedupe_all raises, which needs no fault of the environment, or
\* another statement of the try block does, or one of a handler (the notification or the
\* log), which only the finally block follows.
Raise(w) ==
  /\ \/ /\ run[w].pc \in {"encode", "dedupe"}
        /\ Goto(w, "error")
        /\ UNCHANGED faults
     \/ /\ run[w].pc \in {"begin", "encoded", "start_dedupe", "log"}
        /\ Fault("exception")
        /\ Goto(w, "error")
     \/ /\ run[w].pc = "log_failed"
        /\ Fault("exception")
        /\ Goto(w, "release")
  /\ UNCHANGED <<setVars, groupVars, jobVars, req>>

\* The state the handler of an exception sets, by the object in memory.
FailedState(mem) ==
  IF mem = "DEDUPLICATION_IN_PROGRESS" THEN "DEDUPLICATION_FAILED" ELSE "ENCODING_FAILED"

\* Mutant: the handler forces the failed state.
FailByForce(w) ==
  LET target == FailedState(run[w].mem) IN
  /\ run[w].pc = "error"
  /\ state' = [state EXCEPT ![job[run[w].job].ds] = target]
  /\ Remember(w, target, "log_failed")
  /\ UNCHANGED <<log, stranded, groupVars, jobVars, req, faults>>

\* Mutant: the handler logs the error and leaves the state alone.
FailSilently(w) ==
  /\ run[w].pc = "error"
  /\ Goto(w, "log_failed")
  /\ UNCHANGED <<setVars, groupVars, jobVars, req, faults>>

\* Mutant: an error inside the handler skips the release of the lock.
FailWithoutFinally(w) ==
  LET d == job[run[w].job].ds IN
  /\ run[w].pc = "error"
  /\ \/ /\ Allowed(run[w].mem, "ENCODING_FAILED")
        /\ state' = [state EXCEPT ![d] = "ENCODING_FAILED"]
        /\ Remember(w, "ENCODING_FAILED", "log_failed")
     \/ /\ ~Allowed(run[w].mem, "ENCODING_FAILED")
        /\ Goto(w, "ack")
        /\ UNCHANGED state
  /\ UNCHANGED <<log, stranded, groupVars, jobVars, req, faults>>

\* The handler of every other exception; when its own set_state is refused, the
\* ValueError leaves the handler and nothing is logged.
Fail(w) ==
  LET target == FailedState(run[w].mem) IN
  /\ run[w].pc = "error"
  /\ \/ /\ Allowed(run[w].mem, target)
        /\ state' = [state EXCEPT ![job[run[w].job].ds] = target]
        /\ Remember(w, target, "log_failed")
        /\ UNCHANGED stranded
     \/ /\ ~Allowed(run[w].mem, target)
        /\ Goto(w, "release")
        /\ GiveUp(run[w].job)
        /\ UNCHANGED state
  /\ UNCHANGED <<log, groupVars, jobVars, req, faults>>

\* The states set_state writes in the try block.
Writes ==
  [ encoded      |-> "ENCODED",
    start_dedupe |-> "DEDUPLICATION_IN_PROGRESS",
    deduped      |-> "DEDUPLICATED" ]

\* save() of set_state raises: the object in memory has moved and the row has not.  In
\* the try block the handler follows, which judges by the object; in a handler only the
\* finally block does.
WriteFails(w) ==
  /\ Fault("exception")
  /\ \/ /\ run[w].pc \in DOMAIN Writes
        /\ run[w].pc = "encoded" => ~Cancelled(w)
        /\ Allowed(run[w].mem, Writes[run[w].pc])
        /\ Remember(w, Writes[run[w].pc], "error")
        /\ UNCHANGED stranded
     \/ /\ run[w].pc = "error"
        /\ Allowed(run[w].mem, FailedState(run[w].mem))
        /\ Remember(w, FailedState(run[w].mem), "release")
        /\ GiveUp(run[w].job)
     \/ /\ run[w].pc \in {"begin", "encode", "encoded", "dedupe"}
        /\ Cancelled(w)
        /\ run[w].mem \in DOMAIN CANCELLED_STATES
        /\ Remember(w, CANCELLED_STATES[run[w].mem], "release")
        /\ GiveUp(run[w].job)
  /\ UNCHANGED <<state, log, groupVars, jobVars, req>>

\* The finally block: whoever holds the lock, it is released.
Release(w) ==
  /\ run[w].pc = "release"
  /\ RowFree
  /\ locked' = FALSE
  /\ Goto(w, "ack")
  /\ UNCHANGED <<setVars, deleted, jobVars, req, faults>>

\* save() in release_processing_lock raises: the task fails, which is acknowledged like
\* its success, and the lock stays.
ReleaseFails(w) ==
  LET j == run[w].job IN
  /\ run[w].pc = "release"
  /\ Fault("exception")
  /\ msg' = [msg EXCEPT ![j] = IF @ = "unacked" THEN "lost" ELSE @]
  /\ run' = [run EXCEPT ![w] = IdleRun]
  /\ UNCHANGED <<setVars, groupVars, job, req>>

\* The late acknowledgement; it removes the message only while it is unacknowledged.
Ack(w) ==
  LET j == run[w].job IN
  /\ run[w].pc = "ack"
  /\ msg' = [msg EXCEPT ![j] = IF @ = "unacked" THEN "done" ELSE @]
  /\ run' = [run EXCEPT ![w] = IdleRun]
  /\ UNCHANGED <<setVars, groupVars, job, req, faults>>

\* The process that executes the task is killed and the worker, its parent, lives: tasks
\* are acknowledged late, but not rejected when their process is lost, so the message is
\* acknowledged and no finally block ran.
Kill(w) ==
  LET j == run[w].job IN
  /\ run[w].pc \notin {"idle", "ack"}
  /\ Fault("killed")
  /\ msg' = [msg EXCEPT ![j] = IF @ = "unacked" THEN "lost" ELSE @]
  /\ run' = [run EXCEPT ![w] = IdleRun]
  /\ GiveUp(j)
  /\ UNCHANGED <<state, log, groupVars, job, req>>

\* The whole worker dies, parent and process: nobody acknowledges.
Crash(w) ==
  /\ run[w].pc # "idle"
  /\ Fault(CASE run[w].pc = "ack" -> "late_crash"
             [] run[w].pc # "ack" /\ run[w].mem = "DEDUPLICATED" -> "done_crash"
             [] OTHER -> "crash")
  /\ run' = [run EXCEPT ![w] = IdleRun]
  /\ UNCHANGED <<setVars, groupVars, jobVars, req>>

\* The visibility timeout gives the unacknowledged message of a dead worker back to the
\* queue; that of a killed process was acknowledged and stays away.
Redeliver(j) ==
  /\ msg[j] = "unacked"
  /\ \A w \in Workers : run[w].job # j
  /\ msg' = [msg EXCEPT ![j] = "queued"]
  /\ UNCHANGED <<setVars, groupVars, job, req, run, faults>>

\* The same while the worker is only slow: the task runs longer than the timeout.
RedeliverEarly(j) ==
  /\ msg[j] = "unacked"
  /\ \E w \in Workers : run[w].job = j
  /\ Fault("early")
  /\ msg' = [msg EXCEPT ![j] = "queued"]
  /\ UNCHANGED <<setVars, groupVars, job, req, run>>

-----------------------------------------------------------------------------
RequestStep(h) ==
  \/ Upload(h) \/ Ready(h) \/ Approve(h) \/ Reject(h) \/ Clear(h)
  \/ Acquire(h) \/ Start(h) \/ Queue(h)
  \/ ConfigCommit(h)

WorkerStep(w) ==
  \/ Begin(w) \/ Encode(w) \/ SetEncoded(w) \/ StartDedupe(w) \/ Dedupe(w)
  \/ SetDeduplicated(w) \/ AppendLog(w) \/ StopCancelled(w) \/ Fail(w)
  \/ Release(w) \/ Ack(w)

Next ==
  \/ \E h \in Requests :
       \/ \E endpoint \in DOMAIN Admits, d \in Sets : Receive(h, endpoint, d)
       \/ ConfigRead(h) \/ RequestStep(h) \/ LoseRequest(h)
  \/ \E d \in Sets : Create(d)
  \/ SoftDelete
  \/ \E j \in Jobs : Cancel(j) \/ Redeliver(j) \/ RedeliverEarly(j)
  \/ \E w \in Workers :
       \/ Deliver(w) \/ WorkerStep(w) \/ Crash(w)
       \/ LoadFails(w) \/ Raise(w) \/ WriteFails(w) \/ ReleaseFails(w) \/ Kill(w)

Spec == Init /\ [][Next]_vars

\* A request that was received is served to its end, a worker that is alive executes
\* its task, an idle worker takes a waiting message, and the broker gives back the
\* unacknowledged messages of dead workers.  No client has to send a request.
Fairness ==
  /\ \A h \in Requests : WF_vars(RequestStep(h))
  /\ \A w \in Workers : WF_vars(WorkerStep(w)) /\ WF_vars(Deliver(w))
  /\ \A j \in Jobs : WF_vars(Redeliver(j))

FairSpec == Spec /\ Fairness

-----------------------------------------------------------------------------
(***************************************************************************)
(* What the processing lock is for.                                        *)
(***************************************************************************)

\* Worker w is inside find_duplicates.
Running(w) == run[w].pc \notin {"idle", "ack"}

\* Request h took the lock for a job it has not queued yet.
Starting(h) == req[h].pc \in {"start", "queue"}

\* Job j still has a run in front of it or under way: its message waits, or is with a
\* worker that has not released the lock, or with one that died.
Live(j) ==
  \/ msg[j] = "queued"
  \/ msg[j] = "unacked" /\ \A w \in Workers : ~(run[w].pc = "ack" /\ run[w].job = j)

\* Only one processing job runs per group at a time (the lock process and the admin
\* actions take before queuing, and find_duplicates releases in its finally block).
OneRunPerGroup ==
  \A v, w \in Workers : Running(v) /\ Running(w) => v = w

\* The message of job j was acknowledged for a run that did not release the lock.
LostJob(j) == msg[j] = "lost"

\* The lock is set exactly while something will release it: a request between
\* acquire_processing_lock and job.queue(), or a job whose find_duplicates has not
\* reached its finally block, the redelivered one of a dead worker included.  The locks
\* nobody will release are that of a request which died before it queued its job, and
\* that of a job whose process was killed, or whose load or release raised: the stuck
\* lock an operator clears by hand.
LockMatchesWork ==
  locked <=> \/ \E h \in Requests : Starting(h) \/ req[h].pc = "lost"
             \/ \E j \in Jobs : Live(j) \/ LostJob(j)

\* A set is never left in an in-progress state with no run that will move it on, unless
\* its run was killed or could not write the failed state (stranded): every other such
\* set belongs to a live job or to the request that is about to queue it (or died before
\* it did).
InProgressIsOwned ==
  \A d \in Sets \ stranded :
    state[d] \in InProgress =>
      \/ \E h \in Requests : req[h].pc \in {"queue", "lost"} /\ req[h].ds = d
      \/ \E j \in Jobs : Live(j) /\ job[j].ds = d

\* A soft-deleted group has no run and starts none (soft_delete refuses a locked group,
\* acquire_processing_lock a deleted one).
DeletedIsQuiet ==
  deleted => /\ \A h \in Requests : ~Starting(h)
             /\ \A j \in Jobs : ~Live(j)

\* The audit log is append-only: an attempt that logs itself adds an entry and
\* overwrites none (each saves the whole list it loaded when it began).
LogAppendOnly ==
  [][\A w \in Workers :
       AppendLog(w) => LET d == job[run[w].job].ds IN log'[d] = log[d] + 1]_vars

\* process moves only sets in a processable state into a run.
ProcessFromProcessable ==
  [][\A d \in Sets :
       state'[d] = "ENCODING_IN_PROGRESS" =>
         state[d] \in PROCESSABLE_STATES \cup {"ENCODING_IN_PROGRESS"}]_vars

\* Approved and rejected are final: no request and no run moves such a set again.
FinalIsFinal ==
  [][\A d \in Sets : state[d] \in FinalStates => state'[d] = state[d]]_vars

(***************************************************************************)
(* What the requests and the runs assume of each other.                    *)
(***************************************************************************)

\* The copy of the state a run decides by is the state of the row: no request moved
\* the set under the run, except to judge findings that were already complete.  A write
\* that failed leaves the handler with a copy one transition ahead of the row; past the
\* handlers the copy decides nothing.
MemoryIsFresh ==
  \A w \in Workers :
    run[w].pc \notin {"idle", "release", "ack"} =>
      LET d == job[run[w].job].ds IN
      \/ state[d] = run[w].mem
      \/ run[w].mem = "DEDUPLICATED" /\ state[d] \in FinalStates
      \/ run[w].pc = "error" /\ state[d] # None /\ Allowed(state[d], run[w].mem)

\* A client that follows the documented protocol: after it asked for a full run it calls
\* process again only when the run is over, and does not mistake the passing ENCODED of
\* that run for the end of an encode_only one.
Patience ==
  (\E h \in Requests : req[h].pc = "idle" /\ req'[h].pc = "process") =>
    \A j \in Jobs : Live(j) => job[j].encode_only

\* A lock that is taken is released, by the request, the run, or its redelivery after the
\* death of a worker; only a run that was lost with its message acknowledged leaves it.
LockIsReleased == locked ~> (~locked \/ \E j \in Jobs : LostJob(j))

\* A set whose job waits in the queue does not stay in an in-progress state, whichever
\* worker dies and however often the message is delivered, unless a run gave it up.
InProgressEnds ==
  \A d \in Sets, j \in Jobs :
    (state[d] \in InProgress /\ msg[j] = "queued" /\ job[j].ds = d)
      ~> (state[d] \notin InProgress \/ d \in stranded)

\* A queued job of a full run brings its set into one of the terminal states a client
\* polls for (approved and rejected come after them).
FullRunIsTerminal ==
  \A j \in Jobs :
    (job[j] # None /\ Live(j) /\ ~job[j].encode_only) ~>
      /\ job[j] # None
      /\ state[job[j].ds] \in
           {"DEDUPLICATED", "ENCODING_FAILED", "DEDUPLICATION_FAILED"} \cup FinalStates

(***************************************************************************)
(* The group keeps the promise of GroupLifecycle: its run is the one of    *)
(* the job that was created and whose lock is not released yet; that of a  *)
(* lost job never is.                                                      *)
(***************************************************************************)
CurrentJobs ==
  {req[h].job : h \in {h \in Requests : req[h].pc = "queue"}}
    \cup {j \in Jobs : Live(j) \/ LostJob(j)}

CurrentSet ==
  IF CurrentJobs = {} THEN None ELSE job[CHOOSE j \in CurrentJobs : TRUE].ds

Lifecycle == INSTANCE GroupLifecycle WITH current <- CurrentSet

\* Seen through CurrentSet, every step of requests, broker and workers is a step of the
\* abstract lifecycle or leaves it alone.
ImplementsLifecycle == Lifecycle!Spec
================================================================================
