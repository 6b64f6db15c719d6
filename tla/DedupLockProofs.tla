---------------------------- MODULE DedupLockProofs ----------------------------
(***************************************************************************)
(* The processing lock of DedupEngine is a token.  A request takes it,     *)
(* passes it with the message of the job to the queue, the delivery passes *)
(* it to a worker, the death of that worker back to the broker, and the    *)
(* finally block gives it back.  When only the process of the run is       *)
(* killed, or the load before the try block or the release itself raises,  *)
(* the message is acknowledged and the token stays with the lost job for   *)
(* good.  Two faults make a second token: a message that is delivered      *)
(* again while its worker still runs (early), and one that is delivered    *)
(* again after its worker released the lock but died before the late       *)
(* acknowledgement (late_crash).  Without these two the token exists once, *)
(* for any number of sets, jobs, requests and workers.                     *)
(***************************************************************************)
EXTENDS DedupEngineProofs

\* No message is delivered while, or after, its run holds or gave back the lock.
NoDuplication == Faults \cap {"early", "late_crash"} = {}

\* Where the message of a job is: with the one worker that executes it, or, while a
\* request, and only one, is about to queue the job, nowhere.
Delivery ==
  /\ \A w \in Workers : run[w].pc # "idle" => msg[run[w].job] = "unacked"
  /\ \A v, w \in Workers : run[v].pc # "idle" /\ run[w].job = run[v].job => v = w
  /\ \A h \in Requests :
       req[h].pc = "queue" => /\ msg[req[h].job] = "none"
                              /\ job[req[h].job].ds = req[h].ds
  /\ \A g, h \in Requests :
       req[g].pc = "queue" /\ req[h].pc = "queue" /\ req[g].job = req[h].job => g = h

\* Job j has the token: it is live, or was lost with it.
Carries(j) == Live(j) \/ LostJob(j)

\* Who holds the token: one request, or one job, exactly while the lock is set.
Exclusive ==
  /\ \A g, h \in Requests : Holds(g) /\ Holds(h) => g = h
  /\ \A h \in Requests, j \in Jobs : ~(Holds(h) /\ Carries(j))
  /\ \A i, j \in Jobs : Carries(i) /\ Carries(j) => i = j
  /\ \A h \in Requests : Holds(h) => locked
  /\ \A j \in Jobs : Carries(j) => locked
  /\ locked => (\E h \in Requests : Holds(h)) \/ (\E j \in Jobs : Carries(j))

Lock == Delivery /\ Exclusive

\* Deletion and the lock exclude each other.
Quiet == deleted => ~locked

Inv == Shape /\ Rows /\ Lock /\ Quiet

-----------------------------------------------------------------------------
(***************************************************************************)
(* How a step may move the token, whoever else may have one.               *)
(***************************************************************************)
RequestsKeep == \A h \in Requests : Holds(h)' <=> Holds(h)
JobsKeep == \A j \in Jobs : Carries(j)' <=> Carries(j)

Stays == UNCHANGED locked /\ RequestsKeep /\ JobsKeep

Taken(h) ==
  /\ ~locked /\ ~deleted /\ locked' = TRUE
  /\ \A g \in Requests : Holds(g)' <=> g = h \/ Holds(g)
  /\ JobsKeep

Returned(h) ==
  /\ Holds(h) /\ locked' = FALSE
  /\ \A g \in Requests : Holds(g)' <=> g # h /\ Holds(g)
  /\ JobsKeep

Passed(h, j) ==
  /\ Holds(h) /\ UNCHANGED locked
  /\ \A g \in Requests : Holds(g)' <=> g # h /\ Holds(g)
  /\ \A i \in Jobs : Carries(i)' <=> i = j \/ Carries(i)

Released(j) ==
  /\ Carries(j) /\ locked' = FALSE
  /\ RequestsKeep
  /\ \A i \in Jobs : Carries(i)' <=> i # j /\ Carries(i)

Moved ==
  \/ Stays
  \/ \E h \in Requests : Taken(h) \/ Returned(h) \/ \E j \in Jobs : Passed(h, j)
  \/ \E j \in Jobs : Released(j)

\* The job of a worker inside find_duplicates is live.
LEMMA RunningIsLive ==
  ASSUME Shape, Delivery, NEW w \in Workers, Running(w)
  PROVE  run[w].job \in Jobs /\ Live(run[w].job)
BY DEF Shape, TypeOK, RunShape, Delivery, Running, Live

\* A request that goes on without queueing anything new finds its job as it was.
LEMMA QueueingKeeps ==
  ASSUME Shape, NEW G, RowsBut(G), Delivery, [Next]_vars, UNCHANGED msg,
         \A h \in Requests : req'[h].pc = "queue" => req'[h] = req[h]
  PROVE  /\ \A h \in Requests :
              req'[h].pc = "queue" => /\ msg'[req'[h].job] = "none"
                                      /\ job'[req'[h].job].ds = req'[h].ds
         /\ \A g, h \in Requests :
              req'[g].pc = "queue" /\ req'[h].pc = "queue" /\ req'[g].job = req'[h].job
                => g = h
<1>1. ASSUME NEW h \in Requests, req'[h].pc = "queue"
      PROVE  msg'[req'[h].job] = "none" /\ job'[req'[h].job].ds = req'[h].ds
  <2>1. req'[h] = req[h] /\ req[h].pc = "queue"
    BY <1>1
  <2>2. req[h].job \in Jobs /\ job[req[h].job] # None
    BY <2>1 DEF Shape, RequestShape, RowsBut
  <2>3. job'[req[h].job].ds = job[req[h].job].ds
    BY <2>2, JobsStay
  <2> QED
    BY <2>1, <2>3 DEF Delivery
<1> QED
  BY <1>1 DEF Delivery

\* A step that leaves the token alone leaves the messages where they are.
LEMMA FrameMoves ==
  ASSUME Shape, NEW G, RowsBut(G), Delivery, [Next]_vars, Frame
  PROVE  Delivery' /\ Moved
<1>1. Moved
  BY DEF Frame, Carries, LostJob, Live, Holds, Moved, Stays, RequestsKeep, JobsKeep
<1>2. \A h \in Requests : req'[h].pc = "queue" => req'[h] = req[h]
  BY DEF Frame, Holds
<1>3. UNCHANGED msg
  BY DEF Frame
<1>4. Delivery'
  BY <1>2, <1>3, QueueingKeeps DEF Frame, Delivery
<1> QED
  BY <1>1, <1>4

\* The steps of process take the token, pass it to the queue or give it back.
LEMMA RequestMoves ==
  ASSUME Shape, NEW G, RowsBut(G), Delivery, [Next]_vars, NEW h \in Requests,
         Acquire(h) \/ Start(h) \/ Queue(h) \/ LoseRequest(h)
  PROVE  Delivery' /\ Moved
<1> USE DEF Shape, TypeOK, RequestShape
<1>0. UNCHANGED run
  BY DEF Acquire, Start, Queue, LoseRequest
<1>1. CASE Acquire(h)
  <2>1. UNCHANGED <<job, msg>>
    BY <1>1 DEF Acquire, jobVars
  <2>2. JobsKeep
    BY <1>0, <2>1 DEF JobsKeep, Carries, LostJob, Live
  <2>3. CASE Reply(h) /\ UNCHANGED locked
    <3>1. RequestsKeep
      BY <1>1, <2>3 DEF Acquire, Reply, IdleRequest, Holds, RequestsKeep
    <3>2. \A g \in Requests : req'[g].pc = "queue" => req'[g] = req[g]
      BY <2>3 DEF Reply, IdleRequest
    <3>3. Delivery'
      BY <1>0, <2>1, <3>2, QueueingKeeps DEF Delivery
    <3> QED
      BY <2>2, <2>3, <3>1, <3>3 DEF Moved, Stays
  <2>4. CASE ~deleted /\ ~locked /\ locked' = TRUE /\ req' = [req EXCEPT ![h].pc = "start"]
    <3>1. \A g \in Requests : Holds(g)' <=> g = h \/ Holds(g)
      BY <2>4 DEF Holds
    <3>2. \A g \in Requests : req'[g].pc = "queue" => req'[g] = req[g]
      BY <2>4
    <3>3. Delivery'
      BY <1>0, <2>1, <3>2, QueueingKeeps DEF Delivery
    <3> QED
      BY <2>2, <2>4, <3>1, <3>3 DEF Moved, Taken
  <2> QED
    BY <1>1, <2>3, <2>4 DEF Acquire
<1>2. CASE Start(h)
  <2>1. UNCHANGED msg /\ Holds(h)
    BY <1>2 DEF Start, Holds
  <2>2. JobsKeep
    BY <1>0, <2>1 DEF JobsKeep, Carries, LostJob, Live
  <2>3. CASE locked' = FALSE /\ Reply(h) /\ UNCHANGED job
    <3>1. \A g \in Requests : Holds(g)' <=> g # h /\ Holds(g)
      BY <2>3 DEF Reply, IdleRequest, Holds
    <3>2. \A g \in Requests : req'[g].pc = "queue" => req'[g] = req[g]
      BY <2>3 DEF Reply, IdleRequest
    <3>3. Delivery'
      BY <1>0, <2>1, <3>2, QueueingKeeps DEF Delivery
    <3> QED
      BY <2>1, <2>2, <2>3, <3>1, <3>3 DEF Moved, Returned
  <2>4. CASE ~(locked' = FALSE /\ Reply(h) /\ UNCHANGED job)
    <3>1. PICK j \in FreeJobs, encode_only \in BOOLEAN :
            /\ job' = [job EXCEPT ![j] = [ds |-> req[h].ds, encode_only |-> encode_only,
                                         cancel |-> FALSE]]
            /\ req' = [req EXCEPT ![h] = [pc |-> "queue", ds |-> req[h].ds,
                                           seen |-> req[h].seen, job |-> j]]
            /\ UNCHANGED locked
      BY <1>2, <2>4 DEF Start
    <3>2. j \in Jobs /\ job[j] = None /\ msg[j] = "none"
      BY DEF FreeJobs, RowsBut
    <3>3. RequestsKeep
      BY <2>1, <3>1 DEF Holds, RequestsKeep
    <3>4. Moved
      BY <2>2, <3>1, <3>3 DEF Moved, Stays
    <3>5. job'[j].ds = req[h].ds
      BY <3>1, <3>2
    <3>6. ASSUME NEW g \in Requests, g # h, req'[g].pc = "queue"
          PROVE  /\ req'[g] = req[g] /\ req'[g].job # j
                 /\ job'[req[g].job] = job[req[g].job]
      <4>1. req'[g] = req[g]
        BY <3>1, <3>6
      <4>2. req[g].job # j
        BY <3>2, <3>6, <4>1 DEF RowsBut
      <4> QED
        BY <3>1, <4>1, <4>2
    <3>7. req'[h].job = j /\ req'[h].ds = req[h].ds
      BY <3>1
    <3>8. \A g \in Requests :
            req'[g].pc = "queue" => /\ msg'[req'[g].job] = "none"
                                    /\ job'[req'[g].job].ds = req'[g].ds
      BY <2>1, <3>2, <3>5, <3>6, <3>7 DEF Delivery
    <3>9. \A f, g \in Requests :
            req'[f].pc = "queue" /\ req'[g].pc = "queue" /\ req'[f].job = req'[g].job
              => f = g
      BY <3>6, <3>7 DEF Delivery
    <3> QED
      BY <1>0, <2>1, <3>4, <3>8, <3>9 DEF Delivery
  <2> QED
    BY <2>3, <2>4
<1>3. CASE Queue(h)
  <2> DEFINE j == req[h].job
  <2>1. /\ req[h].pc = "queue" /\ Holds(h) /\ j \in Jobs /\ msg[j] = "none"
        /\ msg' = [msg EXCEPT ![j] = "queued"]
        /\ UNCHANGED <<locked, job>>
    BY <1>3 DEF Queue, Holds, Delivery, groupVars
  <2>2. \A g \in Requests : Holds(g)' <=> g # h /\ Holds(g)
    BY <1>3 DEF Queue, Reply, IdleRequest, Holds
  <2>3. \A i \in Jobs : Carries(i)' <=> i = j \/ Carries(i)
    BY <1>0, <2>1 DEF Carries, LostJob, Live
  <2>4. Moved
    BY <2>1, <2>2, <2>3 DEF Moved, Passed
  <2>5. \A g \in Requests : req'[g].pc = "queue" => g # h /\ req'[g] = req[g]
    BY <1>3 DEF Queue, Reply, IdleRequest
  <2> QED
    BY <1>0, <2>1, <2>4, <2>5 DEF Delivery
<1>4. CASE LoseRequest(h)
  <2>1. UNCHANGED <<locked, job, msg>>
    BY <1>4 DEF LoseRequest, groupVars, jobVars
  <2>2. RequestsKeep
    BY <1>4 DEF LoseRequest, Holds, RequestsKeep
  <2>3. JobsKeep
    BY <1>0, <2>1 DEF JobsKeep, Carries, LostJob, Live
  <2>4. \A g \in Requests : req'[g].pc = "queue" => req'[g] = req[g]
    BY <1>4 DEF LoseRequest
  <2>5. Delivery'
    BY <1>0, <2>1, <2>4, QueueingKeeps DEF Delivery
  <2> QED
    BY <2>1, <2>2, <2>3, <2>5 DEF Moved, Stays
<1> QED
  BY <1>1, <1>2, <1>3, <1>4

\* The worker takes the token over with the message and gives it back in find_duplicates'
\* finally block; its death leaves the token with the broker, and so does the end of a
\* task that never reached its finally block.
LEMMA WorkerMoves ==
  ASSUME NoDuplication, Shape, Delivery, NEW w \in Workers,
         \/ Deliver(w) \/ Release(w) \/ Ack(w) \/ Crash(w)
         \/ LoadFails(w) \/ ReleaseFails(w) \/ Kill(w)
  PROVE  Delivery' /\ Moved
<1> USE DEF Shape, TypeOK, RunShape
<1>0. UNCHANGED <<job, req>>
  BY DEF Deliver, Release, Ack, Crash, LoadFails, ReleaseFails, Kill, jobVars
<1>6. RequestsKeep
  BY <1>0 DEF Holds, RequestsKeep
<1>5. \A v \in Workers : IF run[v].pc = "idle" THEN run[v].job = None
                                              ELSE run[v].job \in Jobs /\ run[v].job # None
  BY EngineAssumption DEF EngineAssumption
<1>1. CASE Deliver(w)
  <2>1. PICK j \in Jobs :
          /\ msg[j] = "queued"
          /\ msg' = [msg EXCEPT ![j] = "unacked"]
          /\ run' = [run EXCEPT ![w] = [pc |-> "begin", job |-> j,
                                        mem |-> state[job[j].ds], log |-> log[job[j].ds]]]
    BY <1>1 DEF Deliver
  <2>2. run[w].pc = "idle" /\ run[w].job = None /\ UNCHANGED locked
    BY <1>1 DEF Deliver, groupVars
  <2>3. \A v \in Workers : run[v].job # j
    BY <1>5, <2>1, EngineAssumption DEF Delivery, EngineAssumption
  <2>4. JobsKeep
    BY <2>1, <2>2, <2>3 DEF JobsKeep, Carries, LostJob, Live
  <2>5. Moved
    BY <1>6, <2>2, <2>4 DEF Moved, Stays
  <2>6. Delivery'
    BY <1>0, <2>1, <2>2, <2>3 DEF Delivery, RequestShape
  <2> QED
    BY <2>5, <2>6
<1>2. CASE Release(w)
  <2> DEFINE j == run[w].job
  <2>1. /\ run[w].pc = "release" /\ Running(w) /\ UNCHANGED msg /\ locked' = FALSE
        /\ msg[j] = "unacked"
        /\ run' = [run EXCEPT ![w].pc = "ack"]
    BY <1>2 DEF Release, Goto, Running, Delivery, jobVars
  <2>2. j \in Jobs /\ Live(j) /\ Carries(j)
    BY <2>1, RunningIsLive DEF Carries
  <2>3. \A i \in Jobs : Carries(i)' <=> i # j /\ Carries(i)
    BY <2>1, <2>2 DEF Carries, LostJob, Live
  <2>4. Moved
    BY <1>6, <2>1, <2>2, <2>3 DEF Moved, Released
  <2>7. Delivery'
    BY <1>0, <2>1 DEF Delivery, Running
  <2> QED
    BY <2>4, <2>7
<1>3. CASE Ack(w)
  <2> DEFINE j == run[w].job
  <2>1. /\ run[w].pc = "ack" /\ j \in Jobs /\ msg[j] = "unacked" /\ UNCHANGED locked
        /\ msg' = [msg EXCEPT ![j] = "done"]
        /\ run' = [run EXCEPT ![w] = IdleRun]
    BY <1>3 DEF Ack, Delivery, groupVars
  <2>2. \A v \in Workers \ {w} : run[v].pc # "idle" => run[v].job # j
    BY <2>1 DEF Delivery
  <2>3. JobsKeep
    BY <2>1 DEF JobsKeep, Carries, LostJob, Live, IdleRun
  <2>4. Moved
    BY <1>6, <2>1, <2>3 DEF Moved, Stays
  <2>5. Delivery'
    BY <1>0, <1>5, <2>1, <2>2 DEF Delivery, IdleRun, RequestShape
  <2> QED
    BY <2>4, <2>5
<1>4. CASE Crash(w)
  <2>1. UNCHANGED <<locked, msg>> /\ run' = [run EXCEPT ![w] = IdleRun]
    BY <1>4 DEF Crash, groupVars, jobVars
  <2>2. run[w].pc # "ack"
    BY <1>4 DEF Crash, Fault, NoDuplication
  <2>3. JobsKeep
    BY <2>1, <2>2 DEF JobsKeep, Carries, LostJob, Live, IdleRun
  <2>4. Moved
    BY <1>6, <2>1, <2>3 DEF Moved, Stays
  <2>5. Delivery'
    BY <1>0, <1>5, <2>1 DEF Delivery, IdleRun
  <2> QED
    BY <2>4, <2>5
<1>7. CASE LoadFails(w)
  <2>1. PICK j \in Jobs : msg[j] = "queued" /\ msg' = [msg EXCEPT ![j] = "lost"]
    BY <1>7 DEF LoadFails
  <2>2. UNCHANGED <<locked, run>>
    BY <1>7 DEF LoadFails, groupVars
  <2>3. JobsKeep
    BY <2>1, <2>2 DEF JobsKeep, Carries, LostJob, Live
  <2>4. Moved
    BY <1>6, <2>2, <2>3 DEF Moved, Stays
  <2>5. Delivery'
    BY <1>0, <1>5, <2>1, <2>2 DEF Delivery, RequestShape
  <2> QED
    BY <2>4, <2>5
<1>8. CASE ReleaseFails(w) \/ Kill(w)
  <2> DEFINE j == run[w].job
  <2>1. /\ run[w].pc \notin {"idle", "ack"} /\ j \in Jobs /\ msg[j] = "unacked" /\ UNCHANGED locked
        /\ msg' = [msg EXCEPT ![j] = "lost"]
        /\ run' = [run EXCEPT ![w] = IdleRun]
    BY <1>8 DEF ReleaseFails, Kill, Delivery, groupVars
  <2>2. \A v \in Workers \ {w} : run[v].pc # "idle" => run[v].job # j
    BY <2>1 DEF Delivery
  <2>6. Live(j)
    BY <2>1, RunningIsLive DEF Running
  <2>3. JobsKeep
    BY <2>1, <2>6 DEF JobsKeep, Carries, LostJob, Live, IdleRun
  <2>4. Moved
    BY <1>6, <2>1, <2>3 DEF Moved, Stays
  <2>5. Delivery'
    BY <1>0, <1>5, <2>1, <2>2 DEF Delivery, IdleRun, RequestShape
  <2> QED
    BY <2>4, <2>5
<1> QED
  BY <1>1, <1>2, <1>3, <1>4, <1>7, <1>8

\* The broker gives back only messages whose worker is dead.
LEMMA BrokerMoves ==
  ASSUME NoDuplication, Shape, Delivery, NEW j \in Jobs, Redeliver(j) \/ RedeliverEarly(j)
  PROVE  Delivery' /\ Moved
<1> USE DEF Shape, TypeOK, RunShape, RequestShape
<1>1. Redeliver(j)
  BY DEF RedeliverEarly, Fault, NoDuplication
<1>2. /\ msg[j] = "unacked" /\ msg' = [msg EXCEPT ![j] = "queued"]
      /\ \A w \in Workers : run[w].job # j
      /\ UNCHANGED <<locked, job, req, run>>
  BY <1>1 DEF Redeliver, groupVars
<1>3. JobsKeep /\ RequestsKeep
  BY <1>2 DEF JobsKeep, RequestsKeep, Carries, LostJob, Live, Holds
<1>4. Moved
  BY <1>2, <1>3 DEF Moved, Stays
<1>5. Delivery'
  BY <1>2 DEF Delivery
<1> QED
  BY <1>4, <1>5

\* A step knows where each message goes, and moves the token in one of five ways.
LEMMA Moves ==
  ASSUME NoDuplication, Shape, NEW G, RowsBut(G), Delivery, [Next]_vars
  PROVE  Delivery' /\ Moved
BY TokenOrFrame, FrameMoves, RequestMoves, WorkerMoves, BrokerMoves DEF TokenStep

\* Each of the five keeps a token unique that was unique.
LEMMA ExclusiveStep ==
  ASSUME Exclusive, Moved
  PROVE  Exclusive'
<1>1. CASE Stays
  BY <1>1 DEF Stays, RequestsKeep, JobsKeep, Exclusive
<1>2. ASSUME NEW h \in Requests, Taken(h)
      PROVE  Exclusive'
  BY <1>2 DEF Taken, JobsKeep, Exclusive
<1>3. ASSUME NEW h \in Requests, Returned(h)
      PROVE  Exclusive'
  BY <1>3 DEF Returned, JobsKeep, Exclusive
<1>4. ASSUME NEW h \in Requests, NEW j \in Jobs, Passed(h, j)
      PROVE  Exclusive'
  BY <1>4 DEF Passed, Exclusive
<1>5. ASSUME NEW j \in Jobs, Released(j)
      PROVE  Exclusive'
  BY <1>5 DEF Released, RequestsKeep, Exclusive
<1> QED
  BY <1>1, <1>2, <1>3, <1>4, <1>5 DEF Moved

\* A lock is taken only in a group that is not deleted, a group deleted only without it.
LEMMA QuietStep ==
  ASSUME Shape, Quiet, [Next]_vars
  PROVE  Quiet'
<1>1. CASE UNCHANGED groupVars
  BY <1>1 DEF Quiet, groupVars
<1>2. CASE SoftDelete
  BY <1>2 DEF SoftDelete, Quiet
<1>3. ASSUME NEW h \in Requests, RequestStep(h) \/ LoseRequest(h) \/ ConfigRead(h)
      PROVE  Quiet'
  BY <1>3 DEF RequestStep, Upload, Ready, Approve, Reject, Clear, Acquire, Start, Queue,
              ConfigCommit, SetState, LoseRequest, ConfigRead, Quiet, groupVars
<1>4. ASSUME NEW w \in Workers,
             \/ WorkerStep(w) \/ Deliver(w) \/ Raise(w) \/ Crash(w)
             \/ LoadFails(w) \/ WriteFails(w) \/ ReleaseFails(w) \/ Kill(w)
      PROVE  Quiet'
  BY <1>4 DEF WorkerStep, Begin, Encode, SetEncoded, StartDedupe, Dedupe, SetDeduplicated,
              AppendLog, StopCancelled, Fail, Release, Ack, Advance, Deliver, Raise, Crash,
              LoadFails, WriteFails, ReleaseFails, Kill, Quiet, groupVars
<1>5. ASSUME NEW h \in Requests,
             \E endpoint \in DOMAIN Admits, d \in Sets : Receive(h, endpoint, d)
      PROVE  UNCHANGED groupVars
  BY <1>5 DEF Receive
<1>6. ASSUME \/ \E d \in Sets : Create(d)
             \/ \E j \in Jobs : Cancel(j) \/ Redeliver(j) \/ RedeliverEarly(j)
      PROVE  UNCHANGED groupVars
  BY <1>6 DEF Create, Cancel, Redeliver, RedeliverEarly
<1>7. ASSUME UNCHANGED vars
      PROVE  UNCHANGED groupVars
  BY <1>7 DEF vars, groupVars
<1> QED
  BY <1>1, <1>2, <1>3, <1>4, <1>5, <1>6, <1>7 DEF Next

-----------------------------------------------------------------------------
\* The inductive invariant.
THEOREM Invariance ==
  ASSUME NoDuplication
  PROVE  Spec => []Inv
<1>1. Init => Inv
  <2> SUFFICES ASSUME Init PROVE Inv
    OBVIOUS
  <2>1. Rows
    BY DEF Init, IdleRequest, Rows, RowsBut
  <2>2. Delivery
    BY DEF Init, IdleRequest, IdleRun, Delivery
  <2>3. Exclusive
    BY DEF Init, IdleRequest, Exclusive, Holds, Carries, LostJob, Live
  <2> QED
    BY <2>1, <2>2, <2>3, InitShape DEF Inv, Lock, Quiet, Init
<1>2. Inv /\ [Next]_vars => Inv'
  <2> SUFFICES ASSUME Inv, [Next]_vars PROVE Inv'
    OBVIOUS
  <2>1. Shape' /\ Rows' /\ Quiet'
    BY NextShape, RowsStep, QuietStep DEF Inv, Rows, Spares
  <2>2. Lock'
    BY Moves, ExclusiveStep DEF Inv, Rows, Lock
  <2> QED
    BY <2>1, <2>2 DEF Inv
<1> QED
  BY <1>1, <1>2, PTL DEF Spec

\* Two running tasks would be two live jobs, or one that is delivered twice.
LEMMA OnlyRun ==
  ASSUME Inv
  PROVE  OneRunPerGroup
<1> SUFFICES ASSUME NEW v \in Workers, NEW w \in Workers, Running(v), Running(w)
             PROVE  v = w
  BY DEF OneRunPerGroup
<1>1. /\ run[v].job \in Jobs /\ Live(run[v].job)
      /\ run[w].job \in Jobs /\ Live(run[w].job)
  BY RunningIsLive DEF Inv, Lock
<1>2. run[v].job = run[w].job
  BY <1>1 DEF Inv, Lock, Exclusive, Carries
<1> QED
  BY <1>2 DEF Inv, Lock, Delivery, Running

\* Nothing runs while a message waits.
LEMMA NoneRuns ==
  ASSUME Inv, NEW j \in Jobs, msg[j] = "queued", NEW w \in Workers
  PROVE  ~Running(w)
<1> SUFFICES ASSUME Running(w) PROVE FALSE
  OBVIOUS
<1>1. run[w].job \in Jobs /\ Live(run[w].job) /\ msg[run[w].job] = "unacked"
  BY RunningIsLive DEF Inv, Lock, Delivery, Running
<1> QED
  BY <1>1 DEF Live, Inv, Lock, Exclusive, Carries

\* Only one processing job runs per group at a time.
THEOREM OneRunPerGroupHolds ==
  ASSUME NoDuplication
  PROVE  Spec => []OneRunPerGroup
BY OnlyRun, Invariance, PTL

\* The lock is set exactly while a request or a live job will release it, or its request
\* died before it queued the job, or the job was lost with its message acknowledged.
THEOREM LockMatchesWorkHolds ==
  ASSUME NoDuplication
  PROVE  Spec => []LockMatchesWork
<1>1. Inv => LockMatchesWork
  BY DEF Inv, Lock, Exclusive, Carries, LockMatchesWork, Holds, Starting
<1> QED
  BY <1>1, Invariance, PTL

\* A soft-deleted group has no run and starts none.
THEOREM DeletedIsQuietHolds ==
  ASSUME NoDuplication
  PROVE  Spec => []DeletedIsQuiet
<1>1. Inv => DeletedIsQuiet
  BY DEF Inv, Lock, Exclusive, Carries, Quiet, DeletedIsQuiet, Holds, Starting
<1> QED
  BY <1>1, Invariance, PTL

-----------------------------------------------------------------------------
\* A run that has not logged itself yet holds the log of its set as the row has it, unless
\* its job is in G.
LogFreshBut(G) ==
  \A w \in Workers :
    Running(w) /\ run[w].pc # "release" /\ run[w].job \notin G
      => run[w].log = log[job[run[w].job].ds]

LogFresh == LogFreshBut({})

\* Only a delivery starts a run, and only the run writes the log of its set.
LEMMA LogFreshStep ==
  ASSUME Shape, NEW G, RowsBut(G), Delivery, OneRunPerGroup, LogFreshBut(G), [Next]_vars,
         Spares(G)
  PROVE  LogFreshBut(G)'
<1> USE DEF Shape, TypeOK, RunShape
<1>1. ASSUME NEW w \in Workers, Running(w)
      PROVE  job'[run[w].job].ds = job[run[w].job].ds
  <2>1. run[w].job \in Jobs /\ job[run[w].job] # None
    BY <1>1, RunningIsLive DEF Running, Delivery, RowsBut
  <2> QED
    BY <2>1, JobsStay
<1>2. ASSUME UNCHANGED log,
             \A w \in Workers : Running(w)' /\ run'[w].pc # "release" =>
               /\ Running(w) /\ run[w].pc # "release"
               /\ run'[w].job = run[w].job /\ run'[w].log = run[w].log
      PROVE  LogFreshBut(G)'
  BY <1>1, <1>2 DEF LogFreshBut
<1>3. ASSUME NEW w \in Workers, Deliver(w)
      PROVE  LogFreshBut(G)'
  <2>1. PICK j \in Jobs :
          run' = [run EXCEPT ![w] = [pc |-> "begin", job |-> j,
                                     mem |-> state[job[j].ds], log |-> log[job[j].ds]]]
    BY <1>3 DEF Deliver
  <2>2. UNCHANGED <<job, log>>
    BY <1>3 DEF Deliver, setVars
  <2> QED
    BY <2>1, <2>2 DEF LogFreshBut, Running
<1>4. ASSUME NEW w \in Workers, AppendLog(w)
      PROVE  LogFreshBut(G)'
  <2>1. Running(w) /\ run' = [run EXCEPT ![w].pc = "release"]
    BY <1>4 DEF AppendLog, Goto, Running
  <2>2. \A v \in Workers \ {w} : ~Running(v) /\ run'[v] = run[v]
    BY <2>1 DEF OneRunPerGroup
  <2> QED
    BY <2>1, <2>2 DEF LogFreshBut, Running
<1>5. ASSUME NEW w \in Workers,
             \/ Begin(w) \/ Encode(w) \/ SetEncoded(w) \/ StartDedupe(w) \/ Dedupe(w)
             \/ SetDeduplicated(w) \/ StopCancelled(w) \/ Fail(w) \/ Raise(w)
             \/ WriteFails(w)
      PROVE  LogFreshBut(G)'
  <2>1. run[w].pc \notin {"idle", "ack", "release"} /\ UNCHANGED log
    BY <1>5 DEF Begin, Encode, SetEncoded, StartDedupe, Dedupe, SetDeduplicated,
                StopCancelled, Fail, Raise, WriteFails, Writes, Advance, setVars
  <2>2. \E pc, mem : Goto(w, pc) \/ Remember(w, mem, pc)
    BY <1>5 DEF Begin, Encode, SetEncoded, StartDedupe, Dedupe, SetDeduplicated,
                StopCancelled, Fail, Raise, WriteFails, Writes, Advance
  <2>3. \A v \in Workers :
          /\ v # w => run'[v] = run[v]
          /\ run'[v].job = run[v].job /\ run'[v].log = run[v].log
    BY <2>2 DEF Goto, Remember
  <2> QED
    BY <1>2, <2>1, <2>3 DEF Running
<1>6. ASSUME NEW w \in Workers,
             Release(w) \/ Ack(w) \/ Crash(w) \/ ReleaseFails(w) \/ Kill(w)
      PROVE  LogFreshBut(G)'
  <2>1. UNCHANGED log /\ \A v \in Workers \ {w} : run'[v] = run[v]
    BY <1>6 DEF Release, Ack, Crash, ReleaseFails, Kill, Goto, setVars
  <2>2. run'[w].pc \in {"idle", "ack"}
    BY <1>6 DEF Release, Ack, Crash, ReleaseFails, Kill, Goto, IdleRun
  <2> QED
    BY <1>2, <2>1, <2>2 DEF Running
<1>7. CASE UNCHANGED <<log, run>>
  BY <1>2, <1>7 DEF Running
<1>8. ASSUME NEW h \in Requests,
             \/ \E endpoint \in DOMAIN Admits, d \in Sets : Receive(h, endpoint, d)
             \/ ConfigRead(h) \/ RequestStep(h) \/ LoseRequest(h)
      PROVE  UNCHANGED <<log, run>>
  BY <1>8 DEF Receive, ConfigRead, RequestStep, LoseRequest, Upload, Ready, Approve, Reject,
              Clear, Acquire, Start, Queue, ConfigCommit, SetState, setVars
<1>9. ASSUME \/ \E d \in Sets : Create(d)
             \/ SoftDelete
             \/ \E j \in Jobs : Cancel(j) \/ Redeliver(j) \/ RedeliverEarly(j)
             \/ \E w \in Workers : LoadFails(w)
             \/ UNCHANGED vars
      PROVE  UNCHANGED <<log, run>>
  BY <1>9 DEF LoadFails, Create, SoftDelete, Cancel, Redeliver, RedeliverEarly, vars, setVars
<1> QED
  BY <1>3, <1>4, <1>5, <1>6, <1>7, <1>8, <1>9 DEF Next, WorkerStep

\* The audit log is append-only: a run that logs itself adds one entry to the log as it is.
THEOREM LogAppendOnlyHolds ==
  ASSUME NoDuplication
  PROVE  Spec => LogAppendOnly
<1>1. Init => LogFresh
  BY DEF Init, IdleRun, LogFresh, LogFreshBut, Running
<1>2. Inv /\ OneRunPerGroup /\ LogFresh /\ [Next]_vars => LogFresh'
  BY LogFreshStep DEF Inv, Rows, Lock, LogFresh, Spares
<1>3. Inv /\ LogFresh =>
        \A w \in Workers :
          AppendLog(w) => LET d == job[run[w].job].ds IN log'[d] = log[d] + 1
  <2> SUFFICES ASSUME Inv, LogFresh, NEW w \in Workers, AppendLog(w)
               PROVE  log'[job[run[w].job].ds] = log[job[run[w].job].ds] + 1
    OBVIOUS
  <2>1. Running(w) /\ run[w].pc # "release"
    BY DEF AppendLog, Running
  <2>2. run[w].job \in Jobs /\ job[run[w].job] # None
    BY <2>1, RunningIsLive DEF Running, Inv, Lock, Delivery, Rows, RowsBut
  <2>3. job[run[w].job].ds \in Sets
    BY <2>2 DEF Inv, Shape, TypeOK, JobRow
  <2>4. run[w].log = log[job[run[w].job].ds]
    BY <2>1 DEF LogFresh, LogFreshBut
  <2> QED
    BY <2>3, <2>4 DEF AppendLog, Inv, Shape, TypeOK
<1> QED
  BY <1>1, <1>2, <1>3, Invariance, OneRunPerGroupHolds, PTL DEF Spec, LogAppendOnly

-----------------------------------------------------------------------------
(***************************************************************************)
(* No set is left in an in-progress state without a run that will move it  *)
(* on, unless a run gave it up.  Beside the token this needs what a run    *)
(* knows of its set: while the row is in progress the copy in memory       *)
(* agrees with it, and the run has not come to its log yet.  The copy may  *)
(* be ahead of the row when the unique index refused the row, and then the *)
(* row is not in progress, as two blocking sets of one group do not exist, *)
(* or when the write raised, and then the run is in its handler of         *)
(* exceptions, or past it with the set given up.                           *)
(***************************************************************************)

\* At most one set of the group is in a blocking state.
Slot ==
  \A d, e \in Sets : state[d] \in BLOCKING_STATES /\ state[e] \in BLOCKING_STATES => d = e

\* What a run knows of a set that is in progress.
Knows(w) ==
  LET d == job[run[w].job].ds IN
  state[d] \in InProgress =>
    /\ run[w].pc \notin {"log", "log_failed"}
    /\ run[w].pc = "release" => d \in stranded
    /\ run[w].pc \notin {"error", "release"} => state[d] = run[w].mem

Knowledge == \A w \in Workers : Running(w) => Knows(w)

\* Somebody will move set d on.
Owned(d) ==
  \/ \E h \in Requests : req[h].pc \in {"queue", "lost"} /\ req[h].ds = d
  \/ \E j \in Jobs : Live(j) /\ job[j].ds = d

StateInv == Slot /\ Knowledge /\ InProgressIsOwned

-----------------------------------------------------------------------------
\* Which of the states are in progress and which are blocking.
LEMMA StateFacts ==
  /\ InProgress \subseteq BLOCKING_STATES
  /\ {"EMPTY", "UPLOADING_IN_PROGRESS", "READY", "APPROVED", "REJECTED", "ENCODED",
      "DEDUPLICATED", "ENCODING_FAILED", "DEDUPLICATION_FAILED"} \cap InProgress = {}
  /\ {"APPROVED", "REJECTED", "ENCODING_FAILED", "DEDUPLICATION_FAILED"} \cap BLOCKING_STATES = {}
BY DEF InProgress, BLOCKING_STATES, State

\* Every other step writes no state.
LEMMA StateChanges ==
  ASSUME [Next]_vars
  PROVE  \/ UNCHANGED state
         \/ \E d \in Sets : Create(d)
         \/ \E h \in Requests : RequestStep(h)
         \/ \E w \in Workers : SetEncoded(w) \/ StartDedupe(w) \/ SetDeduplicated(w)
                               \/ StopCancelled(w) \/ Fail(w)
BY DEF Next, vars, setVars, Receive, ConfigRead, LoseRequest, SoftDelete, Cancel, Redeliver,
       RedeliverEarly, Deliver, Raise, Crash, LoadFails, WriteFails, ReleaseFails, Kill,
       WorkerStep, Begin, Encode, Dedupe, AppendLog,
       Release, Ack

\* The rows and the messages are where the proofs of one step need them; the jobs of G may
\* have lost their set.
Located(G) == Shape /\ RowsBut(G) /\ Delivery

\* The invariant of the engine locates everything.
LEMMA InvLocated ==
  ASSUME Inv
  PROVE  Located({})
BY DEF Inv, Rows, Lock, Located

\* The set of a running task is a set.
LEMMA RunSet ==
  ASSUME NEW G, Located(G), NEW w \in Workers, Running(w)
  PROVE  /\ run[w].job \in Jobs /\ job[run[w].job] # None /\ job[run[w].job].ds \in Sets
         /\ Live(run[w].job)
<1>1. run[w].job \in Jobs /\ Live(run[w].job)
  BY RunningIsLive DEF Located
<1>2. job[run[w].job] # None
  BY <1>1 DEF Running, Located, Delivery, RowsBut
<1> QED
  BY <1>1, <1>2 DEF Located, Shape, TypeOK, JobRow

\* A step writes at most one set, into a state that fits the slot.
LEMMA OneWrite ==
  ASSUME NEW G, Located(G), [Next]_vars
  PROVE  \/ UNCHANGED state
         \/ \E d \in Sets, target \in State :
              Fits(d, target) /\ state' = [state EXCEPT ![d] = target]
<1> USE DEF Located, Shape, TypeOK, RequestShape, RunShape
<1>0. {"EMPTY", "UPLOADING_IN_PROGRESS", "READY", "APPROVED", "REJECTED", "ENCODED",
       "DEDUPLICATED", "ENCODING_FAILED", "DEDUPLICATION_FAILED", "ENCODING_IN_PROGRESS",
       "DEDUPLICATION_IN_PROGRESS"} \subseteq State
  BY DEF State
<1>1. ASSUME NEW d \in Sets, Create(d)
      PROVE  \E target \in State : Fits(d, target) /\ state' = [state EXCEPT ![d] = target]
  BY <1>0, <1>1 DEF Create
<1>2. ASSUME NEW h \in Requests, RequestStep(h)
      PROVE  \/ UNCHANGED state
             \/ \E d \in Sets, target \in State :
                  Fits(d, target) /\ state' = [state EXCEPT ![d] = target]
  <2>1. ASSUME NEW target \in State, SetState(h, target), req[h].ds \in Sets
        PROVE  UNCHANGED state \/ (Fits(req[h].ds, target)
                                   /\ state' = [state EXCEPT ![req[h].ds] = target])
    BY <2>1 DEF SetState
  <2>2. CASE Upload(h)
    BY <1>0, <2>1, <2>2 DEF Upload, setVars
  <2>3. CASE Ready(h) \/ Approve(h) \/ Reject(h)
    BY <1>0, <2>1, <2>3 DEF Ready, Approve, Reject
  <2>4. CASE Clear(h)
    BY <1>0, <2>4 DEF Clear
  <2>5. CASE Acquire(h) \/ Queue(h)
    BY <2>5 DEF Acquire, Queue, setVars
  <2>6. CASE Start(h)
    BY <1>0, <2>6 DEF Start
  <2>7. CASE ConfigCommit(h)
    BY <1>0, <2>1, <2>7 DEF ConfigCommit, setVars
  <2> QED
    BY <1>2, <2>2, <2>3, <2>4, <2>5, <2>6, <2>7 DEF RequestStep
<1>3. ASSUME NEW w \in Workers,
             \/ SetEncoded(w) \/ StartDedupe(w) \/ SetDeduplicated(w)
             \/ StopCancelled(w) \/ Fail(w)
      PROVE  \/ UNCHANGED state
             \/ \E d \in Sets, target \in State :
                  Fits(d, target) /\ state' = [state EXCEPT ![d] = target]
  <2> DEFINE d == job[run[w].job].ds
  <2>1. d \in Sets
    BY <1>3, RunSet DEF Running, SetEncoded, StartDedupe, SetDeduplicated, StopCancelled, Fail
  <2>2. CASE SetEncoded(w) \/ StartDedupe(w) \/ SetDeduplicated(w)
    <3>1. \E target \in {"ENCODED", "DEDUPLICATION_IN_PROGRESS", "DEDUPLICATED"} :
            UNCHANGED state \/ (Fits(d, target) /\ state' = [state EXCEPT ![d] = target])
      BY <2>2 DEF SetEncoded, StartDedupe, SetDeduplicated, Advance
    <3> HIDE DEF d
    <3> QED
      BY <1>0, <2>1, <3>1
  <2>3. CASE StopCancelled(w) \/ Fail(w)
    <3>1. \E target \in {"ENCODING_FAILED", "DEDUPLICATION_FAILED"} :
            UNCHANGED state \/ state' = [state EXCEPT ![d] = target]
      BY <2>3, CancelledStateType DEF StopCancelled, Fail, FailedState
    <3>2. Fits(d, "ENCODING_FAILED") /\ Fits(d, "DEDUPLICATION_FAILED")
      BY StateFacts DEF Fits
    <3> HIDE DEF d
    <3> QED
      BY <1>0, <2>1, <3>1, <3>2
  <2> QED
    BY <1>3, <2>2, <2>3
<1> QED
  BY <1>1, <1>2, <1>3, StateChanges

\* The unique index: a step that fits the slot keeps it.
LEMMA SlotStep ==
  ASSUME NEW G, Located(G), Slot, [Next]_vars
  PROVE  Slot'
BY OneWrite DEF Slot, Fits, Located, Shape, TypeOK

\* A live job stays live until its run releases the lock or is lost.
LEMMA LiveStays ==
  ASSUME NEW G, Located(G), [Next]_vars, NEW j \in Jobs, Live(j), msg'[j] # "lost",
         \A w \in Workers : Release(w) => run[w].job # j
  PROVE  Live(j)'
<1> USE DEF Located, Shape, TypeOK, RunShape
<1>1. CASE Frame
  BY <1>1 DEF Frame, Live
<1>2. ASSUME NEW h \in Requests, Acquire(h) \/ Start(h) \/ Queue(h) \/ LoseRequest(h)
      PROVE  Live(j)'
  <2>1. CASE Queue(h)
    BY <2>1 DEF Queue, Live
  <2>2. CASE ~Queue(h)
    BY <1>2, <2>2 DEF Acquire, Start, LoseRequest, jobVars, Live
  <2> QED
    BY <2>1, <2>2
<1>3. ASSUME NEW w \in Workers, Deliver(w)
      PROVE  Live(j)'
  <2>1. PICK i \in Jobs :
          /\ msg[i] = "queued"
          /\ msg' = [msg EXCEPT ![i] = "unacked"]
          /\ run' = [run EXCEPT ![w] = [pc |-> "begin", job |-> i,
                                        mem |-> state[job[i].ds], log |-> log[job[i].ds]]]
    BY <1>3 DEF Deliver
  <2>2. CASE i = j
    BY <2>1, <2>2 DEF Live, Delivery
  <2>3. CASE i # j
    BY <2>1, <2>3 DEF Live
  <2> QED
    BY <2>2, <2>3
<1>4. ASSUME NEW w \in Workers, Release(w)
      PROVE  Live(j)'
  BY <1>4 DEF Release, Goto, Live, jobVars
<1>5. ASSUME NEW w \in Workers, Ack(w)
      PROVE  Live(j)'
  BY <1>5 DEF Ack, Delivery, Live, IdleRun
<1>6. ASSUME NEW w \in Workers, Crash(w)
      PROVE  Live(j)'
  BY <1>6 DEF Crash, Live, IdleRun, jobVars
<1>7. ASSUME NEW i \in Jobs, Redeliver(i) \/ RedeliverEarly(i)
      PROVE  Live(j)'
  BY <1>7 DEF Redeliver, RedeliverEarly, Live
<1>8. ASSUME NEW w \in Workers, LoadFails(w)
      PROVE  Live(j)'
  BY <1>8 DEF LoadFails, Live
<1>9. ASSUME NEW w \in Workers, ReleaseFails(w) \/ Kill(w)
      PROVE  Live(j)'
  <2>1. /\ msg' = [msg EXCEPT ![run[w].job] = IF @ = "unacked" THEN "lost" ELSE @]
        /\ run' = [run EXCEPT ![w] = IdleRun]
    BY <1>9 DEF ReleaseFails, Kill
  <2> QED
    BY <2>1 DEF Live, IdleRun
<1> QED
  BY <1>1, <1>2, <1>3, <1>4, <1>5, <1>6, <1>7, <1>8, <1>9, TokenOrFrame DEF TokenStep

\* A job that is lost stays so.
LEMMA LostStays ==
  ASSUME NEW G, Located(G), [Next]_vars, NEW j \in Jobs, LostJob(j)
  PROVE  LostJob(j)'
<1> USE DEF Located, Shape, TypeOK, RequestShape, LostJob
<1>1. CASE Frame
  BY <1>1 DEF Frame
<1>2. ASSUME NEW h \in Requests, Acquire(h) \/ Start(h) \/ Queue(h) \/ LoseRequest(h)
      PROVE  LostJob(j)'
  BY <1>2 DEF Acquire, Start, Queue, LoseRequest, jobVars, Delivery
<1>3. ASSUME NEW w \in Workers,
             \/ Deliver(w) \/ Release(w) \/ Ack(w) \/ Crash(w)
             \/ LoadFails(w) \/ ReleaseFails(w) \/ Kill(w)
      PROVE  LostJob(j)'
  BY <1>3 DEF Deliver, Release, Ack, Crash, LoadFails, ReleaseFails, Kill, jobVars
<1>4. ASSUME NEW i \in Jobs, Redeliver(i) \/ RedeliverEarly(i)
      PROVE  LostJob(j)'
  BY <1>4 DEF Redeliver, RedeliverEarly
<1> QED
  BY <1>1, <1>2, <1>3, <1>4, TokenOrFrame DEF TokenStep

\* A set that is owned stays owned until a run of it releases the lock or is lost.
LEMMA OwnedStays ==
  ASSUME NoDuplication, Inv, [Next]_vars, NEW d \in Sets, Owned(d),
         \A j \in Jobs : Live(j) /\ job[j].ds = d => msg'[j] # "lost",
         \A w \in Workers : Release(w) => job[run[w].job].ds # d
  PROVE  Owned(d)'
<1>1. ASSUME NEW j \in Jobs, Live(j), job[j].ds = d
      PROVE  Owned(d)'
  <2>1. Live(j)'
    BY <1>1, LiveStays, InvLocated
  <2>2. job[j] # None
    BY <1>1 DEF Live, Inv, Rows, RowsBut
  <2>3. job'[j].ds = d
    BY <1>1, <2>2, JobsStay DEF Inv
  <2> QED
    BY <2>1, <2>3 DEF Owned
<1>2. ASSUME NEW h \in Requests, req[h].pc \in {"queue", "lost"}, req[h].ds = d
      PROVE  Owned(d)'
  <2>1. CASE Queue(h)
    <3> DEFINE j == req[h].job
    <3>1. j \in Jobs /\ job[j].ds = d /\ msg'[j] = "queued" /\ UNCHANGED job
      BY <1>2, <2>1 DEF Queue, Inv, Shape, TypeOK, RequestShape, Lock, Delivery
    <3> QED
      BY <3>1 DEF Owned, Live
  <2>2. CASE LoseRequest(h)
    <3>1. req'[h].pc = "lost" /\ req'[h].ds = d
      BY <1>2, <2>2 DEF LoseRequest, Inv, Shape, TypeOK
    <3> QED
      BY <3>1 DEF Owned
  <2>3. CASE ~Queue(h) /\ ~LoseRequest(h)
    <3>1. ASSUME NEW g \in Requests, Acquire(g) \/ Start(g) \/ Queue(g) \/ LoseRequest(g)
          PROVE  req'[h] = req[h]
      <4>1. g # h
        BY <1>2, <2>3, <3>1 DEF Acquire, Start
      <4> QED
        BY <3>1, <4>1 DEF Acquire, Start, Queue, LoseRequest, Reply, Inv, Shape, TypeOK
    <3>2. ASSUME \/ \E w \in Workers :
                       \/ Deliver(w) \/ Release(w) \/ Ack(w) \/ Crash(w)
                       \/ LoadFails(w) \/ ReleaseFails(w) \/ Kill(w)
                 \/ \E j \in Jobs : Redeliver(j) \/ RedeliverEarly(j)
          PROVE  req'[h] = req[h]
      BY <3>2 DEF Deliver, Release, Ack, Crash, LoadFails, ReleaseFails, Kill, Redeliver,
                  RedeliverEarly
    <3>3. ASSUME Frame
          PROVE  req'[h] = req[h]
      BY <1>2, <3>3 DEF Frame, Holds
    <3>4. req'[h] = req[h]
      BY <3>1, <3>2, <3>3, TokenOrFrame DEF TokenStep, Inv
    <3> QED
      BY <1>2, <3>4 DEF Owned
  <2> QED
    BY <2>1, <2>2, <2>3
<1> QED
  BY <1>1, <1>2 DEF Owned

\* Only the transaction of process and a run that goes on to compare put a set in progress.
LEMMA EntersProgress ==
  ASSUME NEW G, Located(G), [Next]_vars, NEW d \in Sets, state'[d] \in InProgress, state'[d] # state[d]
  PROVE  \/ \E h \in Requests : /\ Start(h)
                                 /\ req'[h].pc = "queue" /\ req'[h].ds = d
         \/ \E w \in Workers : StartDedupe(w) /\ job[run[w].job].ds = d
<1> USE DEF Located, Shape, TypeOK, RequestShape, RunShape
<1>1. ASSUME NEW e \in Sets, Create(e)
      PROVE  FALSE
  BY <1>1, StateFacts DEF Create
<1>2. ASSUME NEW h \in Requests, RequestStep(h)
      PROVE  Start(h) /\ req'[h].pc = "queue" /\ req'[h].ds = d
  <2>1. CASE Start(h)
    BY <2>1 DEF Start
  <2>2. CASE ~Start(h)
    BY <1>2, <2>2, StateFacts DEF RequestStep, Upload, Ready, Approve, Reject, Clear, Acquire,
       Queue, ConfigCommit, SetState, setVars
  <2> QED
    BY <2>1, <2>2
<1>3. ASSUME NEW w \in Workers, StartDedupe(w)
      PROVE  job[run[w].job].ds = d
  BY <1>3 DEF StartDedupe, Advance
<1>4. ASSUME NEW w \in Workers,
             SetEncoded(w) \/ SetDeduplicated(w) \/ StopCancelled(w) \/ Fail(w)
      PROVE  FALSE
  BY <1>4, StateFacts, CancelledStateType
  DEF SetEncoded, SetDeduplicated, StopCancelled, Fail, FailedState, Advance
<1> QED
  BY <1>1, <1>2, <1>3, <1>4, StateChanges

\* A job that is lost leaves its set among the stranded ones, unless its run had come to
\* the release.
LEMMA LostStrands ==
  ASSUME NEW G, Located(G), [Next]_vars, NEW j \in Jobs, msg[j] # "lost", msg'[j] = "lost",
         state[job[j].ds] \in InProgress, job[j].ds \in Sets
  PROVE  \/ job[j].ds \in stranded'
         \/ \E w \in Workers : ReleaseFails(w) /\ run[w].job = j
<1> USE DEF Located, Shape, TypeOK, RunShape, RequestShape
<1>1. CASE Frame
  BY <1>1 DEF Frame
<1>2. ASSUME NEW h \in Requests, Acquire(h) \/ Start(h) \/ Queue(h) \/ LoseRequest(h)
      PROVE  FALSE
  BY <1>2 DEF Acquire, Start, Queue, LoseRequest, jobVars
<1>3. ASSUME NEW w \in Workers, Deliver(w) \/ Release(w) \/ Ack(w) \/ Crash(w)
      PROVE  FALSE
  BY <1>3 DEF Deliver, Release, Ack, Crash, jobVars
<1>4. ASSUME NEW i \in Jobs, Redeliver(i) \/ RedeliverEarly(i)
      PROVE  FALSE
  BY <1>4 DEF Redeliver, RedeliverEarly
<1>5. ASSUME NEW w \in Workers, LoadFails(w)
      PROVE  job[j].ds \in stranded'
  BY <1>5 DEF LoadFails, GiveUp
<1>6. ASSUME NEW w \in Workers, Kill(w)
      PROVE  job[j].ds \in stranded'
  BY <1>6 DEF Kill, GiveUp
<1>7. ASSUME NEW w \in Workers, ReleaseFails(w)
      PROVE  run[w].job = j
  BY <1>7 DEF ReleaseFails
<1> QED
  BY <1>1, <1>2, <1>3, <1>4, <1>5, <1>6, <1>7, TokenOrFrame DEF TokenStep

\* Only a new run of a set, or another attempt at the same one, takes it up again.
LEMMA TakenUp ==
  ASSUME NEW G, Located(G), [Next]_vars, NEW d \in stranded, d \notin stranded'
  PROVE  \/ \E h \in Requests : Start(h) /\ req'[h].pc = "queue" /\ req'[h].ds = d
         \/ \E w \in Workers, j \in Jobs : /\ Deliver(w) /\ run'[w].job = j /\ job'[j].ds = d
                                            /\ msg[j] = "queued" /\ Live(j)'
<1> USE DEF Located, Shape, TypeOK
<1>1. ASSUME NEW h \in Requests, Start(h)
      PROVE  req'[h].pc = "queue" /\ req'[h].ds = d
  BY <1>1 DEF Start
<1>2. ASSUME NEW w \in Workers, Deliver(w)
      PROVE  \E j \in Jobs : /\ run'[w].job = j /\ job'[j].ds = d
                             /\ msg[j] = "queued" /\ Live(j)'
  <2>1. PICK j \in Jobs :
          /\ msg[j] = "queued"
          /\ msg' = [msg EXCEPT ![j] = "unacked"]
          /\ run' = [run EXCEPT ![w] = [pc |-> "begin", job |-> j,
                                        mem |-> state[job[j].ds], log |-> log[job[j].ds]]]
          /\ stranded' = stranded \ {job[j].ds}
          /\ UNCHANGED job
    BY <1>2 DEF Deliver
  <2>2. run'[w].job = j /\ job'[j].ds = d
    BY <2>1
  <2>3. Live(j)'
    BY <2>1 DEF Live, Delivery
  <2> QED
    BY <2>1, <2>2, <2>3
<1>3. ASSUME NEW h \in Requests,
             \/ \E endpoint \in DOMAIN Admits, e \in Sets : Receive(h, endpoint, e)
             \/ ConfigRead(h) \/ LoseRequest(h) \/ (RequestStep(h) /\ ~Start(h))
      PROVE  FALSE
  BY <1>3 DEF Receive, ConfigRead, LoseRequest, RequestStep, Upload, Ready, Approve, Reject,
              Clear, Acquire, Queue, ConfigCommit, SetState, setVars
<1>4. ASSUME NEW w \in Workers,
             \/ WorkerStep(w) \/ Crash(w)
             \/ LoadFails(w) \/ Raise(w) \/ WriteFails(w) \/ ReleaseFails(w) \/ Kill(w)
      PROVE  FALSE
  BY <1>4 DEF WorkerStep, Begin, Encode, SetEncoded, StartDedupe, Dedupe, SetDeduplicated,
              AppendLog, StopCancelled, Fail, Release, Ack, Advance, Crash, LoadFails, Raise,
              WriteFails, ReleaseFails, Kill, GiveUp, setVars
<1>5. ASSUME \/ \E e \in Sets : Create(e)
             \/ SoftDelete
             \/ \E j \in Jobs : Cancel(j) \/ Redeliver(j) \/ RedeliverEarly(j)
             \/ UNCHANGED vars
      PROVE  FALSE
  BY <1>5 DEF Create, SoftDelete, Cancel, Redeliver, RedeliverEarly, vars, setVars
<1> QED
  BY <1>1, <1>2, <1>3, <1>4, <1>5 DEF Next

\* A set that a run has just finished with is not in progress, or given up.
LEMMA OwnedStep ==
  ASSUME NoDuplication, Inv, OneRunPerGroup, Knowledge, InProgressIsOwned, [Next]_vars
  PROVE  InProgressIsOwned'
<1> SUFFICES ASSUME NEW d \in Sets, d \notin stranded', state'[d] \in InProgress
             PROVE  Owned(d)'
  BY DEF InProgressIsOwned, Owned
<1>1. CASE state'[d] = state[d] /\ d \notin stranded
  <2>1. Owned(d)
    BY <1>1 DEF InProgressIsOwned, Owned
  <2>2. ASSUME NEW w \in Workers, Release(w) \/ ReleaseFails(w)
        PROVE  job[run[w].job].ds # d
    BY <1>1, <2>2 DEF Release, ReleaseFails, Running, Knowledge, Knows
  <2>3. ASSUME NEW j \in Jobs, Live(j), job[j].ds = d
        PROVE  msg'[j] # "lost"
    BY <1>1, <2>2, <2>3, LostStrands, InvLocated DEF Live, Inv, Shape, TypeOK
  <2> QED
    BY <2>1, <2>2, <2>3, OwnedStays
<1>2. ASSUME NEW h \in Requests, req'[h].pc = "queue", req'[h].ds = d
      PROVE  Owned(d)'
  BY <1>2 DEF Owned
<1>3. ASSUME NEW w \in Workers, StartDedupe(w), job[run[w].job].ds = d
      PROVE  Owned(d)'
  <2>1. Running(w)
    BY <1>3 DEF StartDedupe, Running
  <2>2. Owned(d)
    BY <1>3, <2>1, RunSet, InvLocated DEF Owned
  <2>3. ASSUME NEW v \in Workers, Release(v)
        PROVE  FALSE
    BY <1>3, <2>1, <2>3 DEF Release, StartDedupe, Running, OneRunPerGroup
  <2>4. \A j \in Jobs : Live(j) => msg'[j] # "lost"
    BY <1>3 DEF StartDedupe, Advance, jobVars, Live
  <2> QED
    BY <2>2, <2>3, <2>4, OwnedStays
<1>4. CASE state'[d] = state[d] /\ d \in stranded
  BY <1>2, <1>4, TakenUp, InvLocated DEF Owned
<1> QED
  BY <1>1, <1>2, <1>3, <1>4, EntersProgress, InvLocated

\* What a run writes, and what it leaves in memory, agree while the set is in progress and
\* no write raised.
LEMMA RunKnows ==
  ASSUME Inv, Slot, NEW w \in Workers, Running(w), Knows(w),
         \/ SetEncoded(w) \/ StartDedupe(w) \/ SetDeduplicated(w)
         \/ StopCancelled(w) \/ Fail(w) \/ WriteFails(w)
  PROVE  Knows(w)'
<1> USE DEF Inv, Shape, TypeOK, RunShape
<1> DEFINE d == job[run[w].job].ds
<1>1. d \in Sets /\ UNCHANGED job
  BY RunSet, InvLocated
  DEF SetEncoded, StartDedupe, SetDeduplicated, StopCancelled, Fail, WriteFails, Advance, jobVars
<1>2. ASSUME NEW target, NEW next, Advance(w, target, next),
             target \notin InProgress \/ next = "dedupe"
      PROVE  Knows(w)'
  <2>1. CASE Goto(w, "error") /\ UNCHANGED state
    BY <1>1, <2>1 DEF Goto, Knows
  <2>2. CASE state' = [state EXCEPT ![d] = target] /\ Remember(w, target, next)
    BY <1>1, <1>2, <2>2 DEF Remember, Knows
  <2>3. CASE ~Fits(d, target) /\ Remember(w, target, "error") /\ UNCHANGED state
    <3>1. state[d] \notin InProgress
      BY <1>1, <2>3, StateFacts DEF Fits, Slot
    <3> QED
      BY <1>1, <2>3, <3>1 DEF Remember, Knows
  <2> QED
    BY <1>2, <2>1, <2>2, <2>3 DEF Advance
<1>3. CASE SetEncoded(w)
  BY <1>2, <1>3, StateFacts DEF SetEncoded
<1>4. CASE StartDedupe(w)
  BY <1>2, <1>4 DEF StartDedupe
<1>5. CASE SetDeduplicated(w)
  BY <1>2, <1>5, StateFacts DEF SetDeduplicated
<1>6. ASSUME NEW target \in {"ENCODING_FAILED", "DEDUPLICATION_FAILED"},
             state' = [state EXCEPT ![d] = target], Remember(w, target, "log_failed")
      PROVE  Knows(w)'
  BY <1>1, <1>6, StateFacts DEF Remember, Knows
<1>7. ASSUME NEW next, Goto(w, next), UNCHANGED state, run[w].mem \notin InProgress,
             run[w].pc \notin {"error", "release"}
      PROVE  Knows(w)'
  BY <1>1, <1>7 DEF Goto, Knows
<1>10. ASSUME GiveUp(run[w].job), UNCHANGED state,
              run'[w].job = run[w].job, run'[w].pc = "release"
       PROVE  Knows(w)'
  BY <1>1, <1>10 DEF GiveUp, Knows
<1>8. CASE StopCancelled(w)
  <2>1. InProgress = DOMAIN CANCELLED_STATES
    BY DEF InProgress, CANCELLED_STATES
  <2>2. CASE run[w].mem \in InProgress
    <3>1. CANCELLED_STATES[run[w].mem] \in {"ENCODING_FAILED", "DEDUPLICATION_FAILED"}
      BY <2>1, <2>2, CancelledStateType
    <3> QED
      BY <1>6, <1>8, <2>1, <2>2, <3>1 DEF StopCancelled
  <2>3. CASE run[w].mem \notin InProgress
    BY <1>7, <1>8, <2>1, <2>3 DEF StopCancelled
  <2> QED
    BY <2>2, <2>3
<1>9. CASE Fail(w)
  <2>1. FailedState(run[w].mem) \in {"ENCODING_FAILED", "DEDUPLICATION_FAILED"}
    BY DEF FailedState
  <2>2. \/ /\ state' = [state EXCEPT ![d] = FailedState(run[w].mem)]
           /\ Remember(w, FailedState(run[w].mem), "log_failed")
        \/ Goto(w, "release") /\ GiveUp(run[w].job) /\ UNCHANGED state
    BY <1>9 DEF Fail
  <2> QED
    BY <1>6, <1>10, <2>1, <2>2 DEF Goto
<1>11. CASE WriteFails(w)
  <2>1. UNCHANGED state /\ run'[w].job = run[w].job
    BY <1>11 DEF WriteFails, Remember
  <2>2. \/ run'[w].pc = "error"
        \/ run'[w].pc = "release" /\ GiveUp(run[w].job)
    BY <1>11 DEF WriteFails, Remember
  <2> QED
    BY <1>1, <1>10, <2>1, <2>2 DEF Knows
<1> QED
  BY <1>3, <1>4, <1>5, <1>8, <1>9, <1>11

\* Every step keeps what the runs know of their sets.
LEMMA KnowledgeStep ==
  ASSUME Inv, Slot, Knowledge, OneRunPerGroup, [Next]_vars
  PROVE  Knowledge'
<1> USE DEF Inv, Shape, TypeOK, RunShape
<1>1. ASSUME NEW w \in Workers, Running(w)
      PROVE  job[run[w].job].ds \in Sets /\ job'[run[w].job].ds = job[run[w].job].ds
  BY <1>1, RunSet, InvLocated, JobsStay
<1>10. ASSUME NEW w \in Workers, Running(w), job[run[w].job].ds \in stranded
       PROVE  job[run[w].job].ds \in stranded'
  <2>1. run[w].job \in Jobs /\ Live(run[w].job) /\ msg[run[w].job] = "unacked"
    BY <1>10, RunSet, InvLocated DEF Lock, Delivery, Running
  <2>2. ASSUME NEW h \in Requests, Start(h)
        PROVE  FALSE
    BY <2>1, <2>2 DEF Start, Lock, Exclusive, Holds, Carries
  <2>3. ASSUME NEW j \in Jobs, msg[j] = "queued"
        PROVE  FALSE
    BY <2>1, <2>3 DEF Live, Lock, Exclusive, Carries
  <2> QED
    BY <1>10, <2>2, <2>3, TakenUp, InvLocated
<1>2. ASSUME UNCHANGED state, NEW w \in Workers, Running(w),
             run'[w].job = run[w].job, run'[w].mem = run[w].mem,
             \/ run'[w].pc = run[w].pc
             \/ run[w].pc \in {"log", "log_failed"}
             \/ /\ run'[w].pc \notin {"log", "log_failed", "release"}
                /\ run[w].pc \notin {"error", "release"}
      PROVE  Knows(w)'
  BY <1>1, <1>2, <1>10 DEF Knowledge, Knows
<1>3. ASSUME UNCHANGED run
      PROVE  Knowledge'
  <2> SUFFICES ASSUME NEW w \in Workers, Running(w)
               PROVE  Knows(w)'
    BY <1>3 DEF Knowledge, Running
  <2> DEFINE d == job[run[w].job].ds
  <2>1. Knows(w) /\ d \in Sets /\ job'[run[w].job].ds = d
    BY <1>1 DEF Knowledge
  <2>2. CASE state'[d] = state[d]
    BY <1>3, <1>10, <2>1, <2>2 DEF Knows
  <2>3. CASE state'[d] \notin InProgress
    BY <1>3, <2>1, <2>3 DEF Knows
  <2>4. ASSUME NEW h \in Requests, Start(h)
        PROVE  FALSE
    BY <2>4, RunSet, InvLocated DEF Start, Lock, Exclusive, Holds, Carries
  <2>5. ASSUME NEW v \in Workers, StartDedupe(v), state'[d] # state[d]
        PROVE  FALSE
    <3>1. run'[v].pc # run[v].pc
      BY <2>5 DEF StartDedupe, Advance, Goto, Remember
    <3> QED
      BY <1>3, <3>1
  <2> QED
    BY <2>1, <2>2, <2>3, <2>4, <2>5, EntersProgress, InvLocated
<1>4. ASSUME NEW w \in Workers, Deliver(w)
      PROVE  Knowledge'
  <2>1. PICK j \in Jobs :
          run' = [run EXCEPT ![w] = [pc |-> "begin", job |-> j,
                                     mem |-> state[job[j].ds], log |-> log[job[j].ds]]]
    BY <1>4 DEF Deliver
  <2>2. UNCHANGED <<job, state>>
    BY <1>4 DEF Deliver
  <2>3. Knows(w)'
    BY <2>1, <2>2 DEF Knows
  <2>4. ASSUME NEW v \in Workers \ {w}, Running(v)
        PROVE  Knows(v)'
    BY <1>2, <2>1, <2>2, <2>4
  <2> QED
    BY <2>1, <2>3, <2>4 DEF Knowledge, Running
<1>5. ASSUME NEW w \in Workers, Running(w), \A v \in Workers \ {w} : run'[v] = run[v],
             Running(w)' => Knows(w)'
      PROVE  Knowledge'
  <2>1. \A v \in Workers \ {w} : ~Running(v)'
    BY <1>5 DEF OneRunPerGroup, Running
  <2> QED
    BY <1>5, <2>1 DEF Knowledge
<1>6. ASSUME NEW w \in Workers,
             \/ SetEncoded(w) \/ StartDedupe(w) \/ SetDeduplicated(w)
             \/ StopCancelled(w) \/ Fail(w) \/ WriteFails(w)
      PROVE  Knowledge'
  <2>1. Running(w)
    BY <1>6 DEF Running, SetEncoded, StartDedupe, SetDeduplicated, StopCancelled, Fail,
                WriteFails, Writes
  <2>2. Knows(w)'
    BY <1>6, <2>1, RunKnows DEF Knowledge
  <2>3. \A v \in Workers \ {w} : run'[v] = run[v]
    BY <1>6 DEF SetEncoded, StartDedupe, SetDeduplicated, StopCancelled, Fail,
                WriteFails, Advance, Goto, Remember
  <2> QED
    BY <1>5, <2>1, <2>2, <2>3
<1>7. ASSUME NEW w \in Workers, Begin(w) \/ Encode(w) \/ Dedupe(w) \/ Raise(w) \/ AppendLog(w)
      PROVE  Knowledge'
  <2>1. Running(w) /\ UNCHANGED state /\ \A v \in Workers \ {w} : run'[v] = run[v]
    BY <1>7 DEF Begin, Encode, Dedupe, Raise, AppendLog, Running, Goto, setVars
  <2>2. /\ run'[w].job = run[w].job /\ run'[w].mem = run[w].mem
        /\ \/ run[w].pc \in {"log", "log_failed"}
           \/ /\ run'[w].pc \notin {"log", "log_failed", "release"}
              /\ run[w].pc \notin {"error", "release"}
    BY <1>7 DEF Begin, Encode, Dedupe, Raise, AppendLog, Goto
  <2> QED
    BY <1>2, <1>5, <2>1, <2>2
<1>8. ASSUME NEW w \in Workers,
             Release(w) \/ Ack(w) \/ Crash(w) \/ ReleaseFails(w) \/ Kill(w)
      PROVE  Knowledge'
  <2>1. UNCHANGED state /\ \A v \in Workers \ {w} : run'[v] = run[v]
    BY <1>8 DEF Release, Ack, Crash, ReleaseFails, Kill, Goto, setVars
  <2>2. ~Running(w)'
    BY <1>8 DEF Release, Ack, Crash, ReleaseFails, Kill, Goto, IdleRun, Running
  <2>3. ASSUME NEW v \in Workers, Running(v)'
        PROVE  Knows(v)'
    <3>1. run'[v] = run[v] /\ Running(v)
      BY <2>1, <2>2, <2>3 DEF Running
    <3> QED
      BY <1>2, <2>1, <3>1
  <2> QED
    BY <2>3 DEF Knowledge
<1>9. ASSUME \/ \E h \in Requests :
                  \/ \E endpoint \in DOMAIN Admits, d \in Sets : Receive(h, endpoint, d)
                  \/ ConfigRead(h) \/ RequestStep(h) \/ LoseRequest(h)
             \/ \E d \in Sets : Create(d)
             \/ SoftDelete
             \/ \E j \in Jobs : Cancel(j) \/ Redeliver(j) \/ RedeliverEarly(j)
             \/ \E w \in Workers : LoadFails(w)
             \/ UNCHANGED vars
      PROVE  UNCHANGED run
  BY <1>9 DEF LoadFails, Receive, ConfigRead, RequestStep, LoseRequest, Upload, Ready, Approve, Reject,
              Clear, Acquire, Start, Queue, ConfigCommit, SetState, Create, SoftDelete, Cancel,
              Redeliver, RedeliverEarly, vars
<1> QED
  BY <1>3, <1>4, <1>6, <1>7, <1>8, <1>9 DEF Next, WorkerStep

\* A set in progress that no run gave up belongs to a live job, or to the request that is
\* about to queue it or died before it did.
THEOREM InProgressIsOwnedHolds ==
  ASSUME NoDuplication
  PROVE  Spec => []InProgressIsOwned
<1>1. Init => StateInv
  BY EngineAssumption DEF EngineAssumption, Init, StateInv, Slot, Knowledge, InProgressIsOwned, IdleRun, Running,
     BLOCKING_STATES, InProgress, State
<1>2. Inv /\ OneRunPerGroup /\ StateInv /\ [Next]_vars => StateInv'
  BY SlotStep, InvLocated, KnowledgeStep, OwnedStep DEF StateInv
<1>3. StateInv => InProgressIsOwned
  BY DEF StateInv
<1> QED
  BY <1>1, <1>2, <1>3, Invariance, OneRunPerGroupHolds, PTL DEF Spec
================================================================================
