------------------------------ MODULE AdminEngine ------------------------------
(***************************************************************************)
(* DedupEngine with the people who operate it: the buttons and the forms   *)
(* of the admin site, and the cleanup task that deletes old sets together  *)
(* with their job rows.  They write the same rows as the requests and the  *)
(* workers, mostly by force: a button sets a state whatever the state was, *)
(* a form saves what it showed when it was opened.                         *)
(***************************************************************************)
EXTENDS DedupEngine

CONSTANTS
  Admins,      \* admin requests that are served at the same time
  Operations,  \* what the admin site is used for in this instance
  MaxAdmin     \* bounds how often

\* job: the Encode and Deduplicate buttons of a set; force: Clear Embeddings and the
\* Remove button of its findings; unlock: the Unlock button of the group; form: the
\* change form of a set; settings: the change form of the group; requeue: the Queue
\* button of a job; cleanup: the periodic cleanup_redundant_data.
AllOperations == {"job", "force", "unlock", "form", "settings", "requeue", "cleanup"}

ASSUME AdminAssumption ==
  /\ Operations \subseteq AllOperations
  /\ MaxAdmin \in Nat

VARIABLES
  adm,         \* adm[a]: the admin request in slot a
  gone,        \* jobs whose row was deleted with their set
  sweep,       \* the set the cleanup has collected and not deleted yet
  spent,       \* admin operations so far
  stuck,       \* a worker dropped the message of a deleted job that held the lock
  adrift,      \* sets with a state no run stands behind: written by their change form, or
               \* left by a request that died, after its lock was released by hand
  overridden   \* the lock was released, taken back or bypassed by hand

adminVars == <<adm, gone, sweep, spent, stuck, adrift, overridden>>
allVars == <<vars, adminVars>>

IdleAdmin == [pc |-> "idle", ds |-> None, seen |-> None, job |-> None,
              locked |-> FALSE, deleted |-> FALSE]

AdminTypeOK ==
  /\ TypeOK
  /\ adm \in [Admins -> [pc : {"idle", "start", "queue", "lost", "form", "settings"},
                         ds : Sets \cup {None}, seen : State \cup {None},
                         job : Jobs \cup {None}, locked : BOOLEAN, deleted : BOOLEAN]]
  /\ gone \subseteq {j \in Jobs : job[j] # None}
  /\ sweep \in Sets \cup {None}
  /\ spent \in 0..MaxAdmin
  /\ stuck \in BOOLEAN
  /\ adrift \subseteq Sets
  /\ overridden \in BOOLEAN

AdminInit ==
  /\ Init
  /\ adm = [a \in Admins |-> IdleAdmin]
  /\ gone = {}
  /\ sweep = None
  /\ spent = 0
  /\ stuck = FALSE
  /\ adrift = {}
  /\ overridden = FALSE

Operate(operation) ==
  /\ operation \in Operations
  /\ spent < MaxAdmin
  /\ spent' = spent + 1

Answer(a) == adm' = [adm EXCEPT ![a] = IdleAdmin]

AdminStarting(a) == adm[a].pc \in {"start", "queue"}

\* Somebody will release the lock that is set.
Held ==
  \/ \E h \in Requests : Starting(h)
  \/ \E a \in Admins : AdminStarting(a)
  \/ \E j \in Jobs : Live(j)

-----------------------------------------------------------------------------
(***************************************************************************)
(* Encode and Deduplicate: _make_job_action.                               *)
(***************************************************************************)

\* Mutant: the button does not look at the lock.
AdminAcquireTaken(a, d) ==
  /\ Operate("job")
  /\ adm[a].pc = "idle" /\ RowFree /\ FreeJobs # {}
  /\ state[d] # None /\ ~deleted
  /\ locked' = TRUE
  /\ adm' = [adm EXCEPT ![a] = [IdleAdmin EXCEPT !.pc = "start", !.ds = d]]
  /\ UNCHANGED <<setVars, deleted, jobVars, req, run, faults, gone, sweep, stuck, adrift,
                 overridden>>

\* Mutant: the lock of a deleted group can be taken.
AdminAcquireDeleted(a, d) ==
  /\ Operate("job")
  /\ adm[a].pc = "idle" /\ RowFree /\ FreeJobs # {}
  /\ state[d] # None /\ ~locked
  /\ locked' = TRUE
  /\ adm' = [adm EXCEPT ![a] = [IdleAdmin EXCEPT !.pc = "start", !.ds = d]]
  /\ UNCHANGED <<setVars, deleted, jobVars, req, run, faults, gone, sweep, stuck, adrift,
                 overridden>>

\* The lock is taken like process takes it, but from any state of the set; a group that
\* is locked or deleted only gets a message.
AdminAcquire(a, d) ==
  /\ Operate("job")
  /\ adm[a].pc = "idle" /\ RowFree /\ FreeJobs # {}
  /\ state[d] # None /\ ~deleted
  /\ \/ /\ ~locked
        /\ locked' = TRUE
        /\ adm' = [adm EXCEPT ![a] = [IdleAdmin EXCEPT !.pc = "start", !.ds = d]]
     \/ /\ locked
        /\ UNCHANGED <<locked, adm>>
  /\ UNCHANGED <<setVars, deleted, jobVars, req, run, faults, gone, sweep, stuck, adrift,
                 overridden>>

\* Mutant: the violated index leaves the lock.
AdminStartKeepsLock(a) ==
  LET d == adm[a].ds IN
  /\ adm[a].pc = "start"
  /\ \/ /\ Fits(d, "ENCODING_IN_PROGRESS") /\ state[d] # None
        /\ state' = [state EXCEPT ![d] = "ENCODING_IN_PROGRESS"]
        /\ \E j \in FreeJobs, encode_only \in BOOLEAN :
             /\ job' = [job EXCEPT ![j] =
                          [ds |-> d, encode_only |-> encode_only, cancel |-> FALSE]]
             /\ adm' = [adm EXCEPT ![a].pc = "queue", ![a].job = j]
        /\ adrift' = adrift \ {d}
        /\ UNCHANGED locked
     \/ /\ ~Fits(d, "ENCODING_IN_PROGRESS") \/ state[d] = None
        /\ Answer(a)
        /\ UNCHANGED <<state, job, adrift, locked>>
  /\ UNCHANGED <<log, stranded, deleted, msg, req, run, faults, gone, sweep, spent, stuck,
                 overridden>>

\* Mutant: the job is created without its set.
AdminStartDetached(a) ==
  LET d == adm[a].ds IN
  /\ adm[a].pc = "start"
  /\ state[d] # None /\ Fits(d, "ENCODING_IN_PROGRESS")
  /\ state' = [state EXCEPT ![d] = "ENCODING_IN_PROGRESS"]
  /\ \E j \in FreeJobs :
       /\ job' = [job EXCEPT ![j] = [ds |-> None, encode_only |-> FALSE, cancel |-> FALSE]]
       /\ adm' = [adm EXCEPT ![a].pc = "queue", ![a].job = j]
  /\ adrift' = adrift \ {d}
  /\ UNCHANGED <<log, stranded, groupVars, msg, req, run, faults, gone, sweep, spent, stuck,
                 overridden>>

\* The transaction: the state is forced and the job created.  A violated index releases
\* the lock; every other error (the row is gone) leaves it.
AdminStart(a) ==
  LET d == adm[a].ds IN
  /\ adm[a].pc = "start"
  /\ \/ /\ state[d] # None /\ Fits(d, "ENCODING_IN_PROGRESS")
        /\ state' = [state EXCEPT ![d] = "ENCODING_IN_PROGRESS"]
        /\ \E j \in FreeJobs, encode_only \in BOOLEAN :
             /\ job' = [job EXCEPT ![j] =
                          [ds |-> d, encode_only |-> encode_only, cancel |-> FALSE]]
             /\ adm' = [adm EXCEPT ![a].pc = "queue", ![a].job = j]
        /\ stranded' = stranded \ {d}
        /\ adrift' = adrift \ {d}
        /\ UNCHANGED locked
     \/ /\ state[d] # None /\ ~Fits(d, "ENCODING_IN_PROGRESS")
        /\ locked' = FALSE
        /\ Answer(a)
        /\ UNCHANGED <<state, stranded, job, adrift>>
     \/ /\ state[d] = None
        /\ adm' = [adm EXCEPT ![a] = [IdleAdmin EXCEPT !.pc = "lost"]]
        /\ UNCHANGED <<state, stranded, job, adrift, locked>>
  /\ UNCHANGED <<log, deleted, msg, req, run, faults, gone, sweep, spent, stuck,
                 overridden>>

AdminQueue(a) ==
  /\ adm[a].pc = "queue"
  /\ msg' = [msg EXCEPT ![adm[a].job] = "queued"]
  /\ Answer(a)
  /\ UNCHANGED <<setVars, groupVars, job, req, run, faults, gone, sweep, spent, stuck,
                 adrift, overridden>>

\* The web process dies, or a statement raises anything but an IntegrityError.
AdminLose(a) ==
  /\ AdminStarting(a)
  /\ Fault("request")
  /\ adm' = [adm EXCEPT ![a] =
               [IdleAdmin EXCEPT !.pc = "lost",
                                 !.ds = IF adm[a].pc = "queue" THEN adm[a].ds ELSE None]]
  /\ UNCHANGED <<setVars, groupVars, jobVars, req, run, gone, sweep, spent, stuck, adrift,
                 overridden>>

-----------------------------------------------------------------------------
(***************************************************************************)
(* The other buttons and the forms.                                        *)
(***************************************************************************)

\* Clear Embeddings and Remove: one transaction, no lock, from any state.
AdminForce(d) ==
  /\ Operate("force")
  /\ state[d] # None /\ ~deleted
  /\ \E target \in {"READY", "ENCODED"} :
       /\ Fits(d, target)
       /\ state' = [state EXCEPT ![d] = target]
  /\ adrift' = adrift \ {d}
  /\ UNCHANGED <<log, stranded, groupVars, jobVars, req, run, faults, adm, gone, sweep, stuck,
                 overridden>>

\* Unlock processing, shown while the group is locked.  A lock that a request or a job
\* left for good is nobody's from here on.
Unlock ==
  /\ Operate("unlock")
  /\ locked /\ ~deleted /\ RowFree
  /\ locked' = FALSE
  /\ stuck' = FALSE
  /\ req' = [h \in Requests |-> IF req[h].pc = "lost" THEN IdleRequest ELSE req[h]]
  /\ adm' = [a \in Admins |-> IF adm[a].pc = "lost" THEN IdleAdmin ELSE adm[a]]
  /\ msg' = [j \in Jobs |-> IF LostJob(j) THEN "done" ELSE msg[j]]
  /\ adrift' = adrift
       \cup {d \in Sets : \/ \E h \in Requests : req[h].pc = "lost" /\ req[h].ds = d
                        \/ \E a \in Admins : adm[a].pc = "lost" /\ adm[a].ds = d}
  /\ overridden' = (overridden \/ Held)
  /\ UNCHANGED <<setVars, deleted, job, run, faults, gone, sweep>>

\* The change form of a set shows its state as an editable field ...
OpenForm(a, d) ==
  /\ Operate("form")
  /\ adm[a].pc = "idle"
  /\ state[d] # None /\ ~deleted
  /\ adm' = [adm EXCEPT ![a] = [IdleAdmin EXCEPT !.pc = "form", !.ds = d, !.seen = state[d]]]
  /\ UNCHANGED <<setVars, groupVars, jobVars, req, run, faults, gone, sweep, stuck, adrift,
                 overridden>>

\* ... and saving it, to change the name say, writes that state back.
SaveForm(a) ==
  LET d == adm[a].ds IN
  /\ adm[a].pc = "form"
  /\ Answer(a)
  /\ \/ /\ state[d] # None /\ Fits(d, adm[a].seen)
        /\ state' = [state EXCEPT ![d] = adm[a].seen]
        /\ adrift' = IF state[d] = adm[a].seen THEN adrift ELSE adrift \cup {d}
     \/ /\ state[d] = None \/ ~Fits(d, adm[a].seen)
        /\ UNCHANGED <<state, adrift>>
  /\ UNCHANGED <<log, stranded, groupVars, jobVars, req, run, faults, gone, sweep, spent, stuck,
                 overridden>>

\* The settings form loads the row of the group ...
LoadSettings(a) ==
  /\ Operate("settings")
  /\ adm[a].pc = "idle" /\ ~deleted
  /\ adm' = [adm EXCEPT ![a] = [IdleAdmin EXCEPT !.pc = "settings", !.locked = locked,
                                                 !.deleted = deleted]]
  /\ UNCHANGED <<setVars, groupVars, jobVars, req, run, faults, gone, sweep, stuck, adrift,
                 overridden>>

\* ... and saves every column of it.  Whether it refuses depends on embeddings, which
\* are not part of this module.
SaveSettings(a) ==
  /\ adm[a].pc = "settings" /\ RowFree
  /\ Answer(a)
  /\ \/ /\ locked' = adm[a].locked
        /\ deleted' = adm[a].deleted
        /\ overridden' = (overridden \/ <<locked, deleted>> # <<locked', deleted'>>)
     \/ UNCHANGED <<groupVars, overridden>>
  /\ UNCHANGED <<setVars, jobVars, req, run, faults, gone, sweep, spent, stuck, adrift>>

\* The Queue button of a job that is not queued: nobody takes the lock.
Requeue(j) ==
  /\ Operate("requeue")
  /\ job[j] # None /\ j \notin gone /\ msg[j] \in {"none", "done", "lost"}
  /\ \A h \in Requests : req[h].job # j
  /\ \A a \in Admins : adm[a].job # j
  /\ msg' = [msg EXCEPT ![j] = "queued"]
  /\ overridden' = TRUE
  /\ UNCHANGED <<setVars, groupVars, job, req, run, faults, adm, gone, sweep, stuck, adrift>>

-----------------------------------------------------------------------------
(***************************************************************************)
(* cleanup_redundant_data.  Its sets were rejected two months ago: no      *)
(* request of a client that began before is still served.                  *)
(***************************************************************************)
Collect(d) ==
  /\ Operate("cleanup")
  /\ sweep = None
  /\ state[d] = "REJECTED"
  /\ \A h \in Requests : req[h].ds # d
  /\ sweep' = d
  /\ UNCHANGED <<vars, adm, gone, stuck, adrift, overridden>>

\* The rows that were collected are deleted by their keys, whatever became of the state;
\* the job rows of the set go with it.
Sweep ==
  /\ sweep # None
  /\ state' = [state EXCEPT ![sweep] = None]
  /\ log' = [log EXCEPT ![sweep] = 0]
  /\ gone' = gone \cup {j \in Jobs : job[j] # None /\ job[j].ds = sweep}
  /\ stranded' = stranded \ {sweep}
  /\ adrift' = adrift \ {sweep}
  /\ sweep' = None
  /\ UNCHANGED <<groupVars, jobVars, req, run, faults, adm, spent, stuck, overridden>>

\* find_duplicates for a job that is gone: MainJob.objects.get raises before the try
\* block, so the lock stays.
DropMessage(w, j) ==
  /\ run[w].pc = "idle" /\ msg[j] = "queued" /\ j \in gone
  /\ msg' = [msg EXCEPT ![j] = "done"]
  /\ stuck' = locked
  /\ UNCHANGED <<setVars, groupVars, job, req, run, faults, adm, gone, sweep, spent, adrift,
                 overridden>>

\* A run whose rows are gone: its next save raises, so does the one in the handler, and
\* the finally block is all that is left.
StopGone(w) ==
  /\ Running(w) /\ run[w].job \in gone
  /\ RowFree
  /\ locked' = FALSE
  /\ run' = [run EXCEPT ![w].pc = "ack"]
  /\ UNCHANGED <<setVars, deleted, jobVars, req, faults, adm, gone, sweep, spent, stuck,
                 adrift, overridden>>

-----------------------------------------------------------------------------
\* A step of the requests, the broker and the workers; runs of deleted jobs take the
\* steps above.
EngineStep ==
  /\ Next
  /\ \A w \in Workers : run'[w] = run[w] \/ run'[w].job \notin gone
  /\ adrift' = adrift \ {d \in Sets : state'[d] # state[d]}
  /\ UNCHANGED <<adm, gone, sweep, spent, stuck, overridden>>

AdminStep ==
  \/ \E a \in Admins :
       \/ \E d \in Sets : AdminAcquire(a, d) \/ OpenForm(a, d)
       \/ AdminStart(a) \/ AdminQueue(a) \/ AdminLose(a)
       \/ SaveForm(a) \/ LoadSettings(a) \/ SaveSettings(a)
  \/ \E d \in Sets : AdminForce(d) \/ Collect(d)
  \/ \E j \in Jobs : Requeue(j)
  \/ Unlock
  \/ Sweep

AdminNext ==
  \/ EngineStep
  \/ AdminStep
  \/ \E w \in Workers : StopGone(w) \/ \E j \in Jobs : DropMessage(w, j)

AdminSpec == AdminInit /\ [][AdminNext]_allVars

-----------------------------------------------------------------------------
\* The buttons that start a job share the lock with process, so there is still one run
\* at a time; only an Unlock under a run, a Queue button or a settings form that saves a
\* stale lock lets a second one in.
OneRunUnlessOverridden == overridden \/ OneRunPerGroup

\* A lock nobody will release was left by a request that died, by a job whose row the
\* cleanup deleted, or by a run whose process was killed or whose release raised: nothing
\* else the admin site does loses it or leaves it behind.
LockIsAccounted ==
  overridden \/
    (locked <=> \/ Held
                \/ stuck
                \/ \E j \in Jobs : LostJob(j)
                \/ \E h \in Requests : req[h].pc = "lost"
                \/ \E a \in Admins : adm[a].pc = "lost")

\* A set in an in-progress state has a run in front of it or under way, even when states
\* were forced and locks overridden under the runs; the exceptions are a request that
\* died, a form that wrote back the state of a run long over (adrift), and a run that was
\* killed or could not write the failed state (stranded).
InProgressIsAccounted ==
  \A d \in Sets :
    state[d] \in InProgress =>
      \/ d \in adrift \cup stranded
      \/ \E h \in Requests : req[h].pc \in {"queue", "lost"} /\ req[h].ds = d
      \/ \E a \in Admins : adm[a].pc \in {"queue", "lost"} /\ adm[a].ds = d
      \/ \E j \in Jobs : Live(j) /\ job[j].ds = d

\* A deleted group stays quiet: no button starts a job in it either.
DeletedStaysQuiet ==
  overridden \/ (deleted => DeletedIsQuiet /\ \A a \in Admins : ~AdminStarting(a))

\* Runs that follow each other, started by clients or by buttons, add to the log of a
\* set and overwrite nothing, unless the lock was overridden.
LogKeptUnlessOverridden ==
  [][\A w \in Workers :
       (AppendLog(w) /\ ~overridden /\ run[w].job \notin gone) =>
         LET d == job[run[w].job].ds IN log'[d] = log[d] + 1]_allVars
================================================================================
