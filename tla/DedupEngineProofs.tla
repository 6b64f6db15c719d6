--------------------------- MODULE DedupEngineProofs ---------------------------
(***************************************************************************)
(* Proofs about DedupEngine, for any number of sets, jobs, requests and    *)
(* workers.                                                                *)
(*                                                                         *)
(* The processing lock is a token.  It is taken by a request, passed with  *)
(* the message of the job to the queue, with the delivery to a worker, by  *)
(* a crash back to the broker, and given back by the finally block; it     *)
(* stays with the job when the process of the run is killed, or when the   *)
(* load before the try block or the release raises.  Two faults duplicate  *)
(* the token: a redelivery while the worker still runs (early), and one    *)
(* after the lock was released (late_crash).  Without them the token       *)
(* exists once.                                                            *)
(***************************************************************************)
EXTENDS DedupEngine, TLAPS

\* The fields of a request and of a run that its program counter gives a meaning to.
RequestShape ==
  \A h \in Requests :
    /\ req[h].pc \notin {"idle", "config", "lost"} => req[h].ds \in Sets /\ req[h].seen \in State
    /\ req[h].pc = "queue" => req[h].job \in Jobs

RunShape ==
  \A w \in Workers :
    /\ run[w].pc # "idle" => run[w].job \in Jobs /\ run[w].mem \in State
    /\ run[w].pc = "idle" => run[w].job = None

Shape == TypeOK /\ RequestShape /\ RunShape

USE EngineAssumption DEF EngineAssumption, AllEndpoints, AllFaults, JobRow

-----------------------------------------------------------------------------
\* The initial state is well typed.
LEMMA InitShape == Init => Shape
<1> SUFFICES ASSUME Init PROVE Shape
  OBVIOUS
<1>1. /\ state \in [Sets -> State \cup {None}]
      /\ log \in [Sets -> Nat]
      /\ stranded \subseteq Sets
      /\ locked \in BOOLEAN /\ deleted \in BOOLEAN
      /\ job \in [Jobs -> JobRow \cup {None}]
      /\ msg \in [Jobs -> {"none", "queued", "unacked", "done", "lost"}]
  BY DEF Init
<1>6. faults \in 0..MaxFaults
  BY DEF Init
<1>2. req \in [Requests -> [pc : RequestPc, ds : Sets \cup {None},
                           seen : State \cup {None}, job : Jobs \cup {None}]]
  BY DEF Init, IdleRequest, RequestPc
<1>3. run \in [Workers -> [pc : RunPc, job : Jobs \cup {None},
                          mem : State \cup {None}, log : Nat]]
  BY DEF Init, IdleRun, RunPc
<1>4. RequestShape
  BY DEF Init, IdleRequest, RequestShape
<1>5. RunShape
  BY DEF Init, IdleRun, RunShape
<1> QED
  BY <1>1, <1>2, <1>3, <1>4, <1>5, <1>6 DEF Shape, TypeOK

\* A state the cancellation table gives is a state of a set.
LEMMA CancelledStateType ==
  ASSUME NEW s \in DOMAIN CANCELLED_STATES
  PROVE  CANCELLED_STATES[s] \in {"ENCODING_FAILED", "DEDUPLICATION_FAILED"}
BY DEF CANCELLED_STATES

\* set_state on a request's object, and the end of that request, keep the types.
LEMMA SetStateShape ==
  ASSUME Shape, NEW h \in Requests, NEW target \in State, SetState(h, target)
  PROVE  Shape'
BY DEF Shape, TypeOK, RequestShape, RunShape, SetState, Reply, IdleRequest, RequestPc, RunPc,
       groupVars, jobVars

\* The same for a request that only ends.
LEMMA ReplyShape ==
  ASSUME Shape, NEW h \in Requests, Reply(h),
         UNCHANGED <<setVars, groupVars, jobVars, run, faults>>
  PROVE  Shape'
BY DEF Shape, TypeOK, RequestShape, RunShape, Reply, IdleRequest, RequestPc, RunPc,
       setVars, groupVars, jobVars

\* Every action of a request keeps the types.
LEMMA RequestStepShape ==
  ASSUME Shape, NEW h \in Requests, RequestStep(h)
  PROVE  Shape'
<1> USE DEF Shape, TypeOK, RequestShape, RunShape
<1>1. CASE Upload(h)
  <2>1. "UPLOADING_IN_PROGRESS" \in State
    BY DEF State
  <2> QED
    BY <1>1, <2>1, SetStateShape, ReplyShape DEF Upload
<1>2. CASE Ready(h) \/ Approve(h) \/ Reject(h)
  <2>1. {"READY", "APPROVED", "REJECTED"} \subseteq State
    BY DEF State
  <2> QED
    BY <1>2, <2>1, SetStateShape DEF Ready, Approve, Reject
<1>3. CASE Clear(h)
  BY <1>3 DEF Clear, Reply, IdleRequest, State, RequestPc, groupVars, jobVars
<1>4. CASE Acquire(h)
  <2>1. CASE Reply(h) /\ UNCHANGED locked
    BY <1>4, <2>1, ReplyShape DEF Acquire, groupVars
  <2>2. CASE locked' = TRUE /\ req' = [req EXCEPT ![h].pc = "start"]
    <3>1. req' \in [Requests -> [pc : RequestPc, ds : Sets \cup {None},
                                seen : State \cup {None}, job : Jobs \cup {None}]]
      <4>1. "start" \in RequestPc
        BY DEF RequestPc
      <4>2. req \in [Requests -> [pc : RequestPc, ds : Sets \cup {None},
                                 seen : State \cup {None}, job : Jobs \cup {None}]]
        OBVIOUS
      <4> HIDE DEF Shape, TypeOK, RequestShape, RunShape
      <4> QED
        BY <2>2, <4>1, <4>2
    <3>2. RequestShape'
      BY <1>4, <2>2 DEF Acquire
    <3> QED
      BY <1>4, <2>2, <3>1, <3>2 DEF Acquire, setVars, jobVars
  <2> QED
    BY <1>4, <2>1, <2>2 DEF Acquire
<1>5. CASE Start(h)
  <2>1. CASE Reply(h) /\ locked' = FALSE /\ UNCHANGED <<state, job>>
    BY <1>5, <2>1 DEF Start, Reply, IdleRequest, RequestPc
  <2>2. CASE \E j \in FreeJobs, encode_only \in BOOLEAN :
               /\ state' = [state EXCEPT ![req[h].ds] = "ENCODING_IN_PROGRESS"]
               /\ job' = [job EXCEPT ![j] = [ds |-> req[h].ds, encode_only |-> encode_only,
                                            cancel |-> FALSE]]
               /\ req' = [req EXCEPT ![h] = [pc |-> "queue", ds |-> req[h].ds,
                                              seen |-> req[h].seen, job |-> j]]
               /\ UNCHANGED locked
    <3>1. PICK j \in FreeJobs, encode_only \in BOOLEAN :
               /\ state' = [state EXCEPT ![req[h].ds] = "ENCODING_IN_PROGRESS"]
               /\ job' = [job EXCEPT ![j] = [ds |-> req[h].ds, encode_only |-> encode_only,
                                            cancel |-> FALSE]]
               /\ req' = [req EXCEPT ![h] = [pc |-> "queue", ds |-> req[h].ds,
                                              seen |-> req[h].seen, job |-> j]]
               /\ UNCHANGED locked
      BY <2>2
    <3>2. j \in Jobs /\ req[h].ds \in Sets /\ "ENCODING_IN_PROGRESS" \in State
      BY <1>5 DEF Start, FreeJobs, State
    <3>3. req' \in [Requests -> [pc : RequestPc, ds : Sets \cup {None},
                                seen : State \cup {None}, job : Jobs \cup {None}]]
      BY <3>1, <3>2 DEF RequestPc
    <3>4. RequestShape'
      BY <1>5, <3>1, <3>2 DEF Start
    <3>5. /\ job' \in [Jobs -> JobRow \cup {None}]
          /\ state' \in [Sets -> State \cup {None}]
      BY <3>1, <3>2
    <3> QED
      BY <1>5, <3>1, <3>3, <3>4, <3>5 DEF Start
  <2> QED
    BY <1>5, <2>1, <2>2 DEF Start
<1>6. CASE Queue(h)
  BY <1>6 DEF Queue, Reply, IdleRequest, RequestPc, setVars, groupVars
<1>7. CASE ConfigCommit(h)
  <2>1. "READY" \in State
    BY DEF State
  <2> QED
    BY <1>7, <2>1, SetStateShape, ReplyShape DEF ConfigCommit
<1> QED
  BY <1>1, <1>2, <1>3, <1>4, <1>5, <1>6, <1>7 DEF RequestStep

\* set_state on a run's set keeps the types.
LEMMA AdvanceShape ==
  ASSUME Shape, NEW w \in Workers, run[w].pc # "idle",
         NEW target \in State, NEW next \in RunPc \ {"idle"}, Advance(w, target, next)
  PROVE  Shape'
BY DEF Shape, TypeOK, RequestShape, RunShape, Advance, Goto, Remember, RunPc, groupVars, jobVars

\* A run that only moves on keeps the types.
LEMMA GotoShape ==
  ASSUME Shape, NEW w \in Workers, run[w].pc # "idle",
         NEW next \in RunPc \ {"idle"}, Goto(w, next),
         UNCHANGED <<setVars, groupVars, jobVars, req>>, faults' \in 0..MaxFaults
  PROVE  Shape'
BY DEF Shape, TypeOK, RequestShape, RunShape, Goto, Remember, RunPc, setVars, groupVars, jobVars

\* Every action of a worker that executes its task keeps the types.
LEMMA WorkerStepShape ==
  ASSUME Shape, NEW w \in Workers, WorkerStep(w)
  PROVE  Shape'
<1>0. /\ faults \in 0..MaxFaults
      /\ {"ENCODED", "DEDUPLICATION_IN_PROGRESS", "DEDUPLICATED",
          "ENCODING_FAILED", "DEDUPLICATION_FAILED"} \subseteq State
      /\ {"encode", "encoded", "start_dedupe", "dedupe", "deduped", "log", "log_failed",
          "error", "release", "ack"} \subseteq RunPc \ {"idle"}
  BY DEF Shape, TypeOK, State, RunPc
<1>1. CASE Begin(w)
  BY <1>0, <1>1, GotoShape DEF Begin
<1>2. CASE Encode(w) \/ Dedupe(w)
  BY <1>0, <1>2, GotoShape DEF Encode, Dedupe
<1>3. CASE SetEncoded(w)
  <2>1. CASE job[run[w].job].encode_only
    BY <1>0, <1>3, <2>1, AdvanceShape DEF SetEncoded
  <2>2. CASE ~job[run[w].job].encode_only
    BY <1>0, <1>3, <2>2, AdvanceShape DEF SetEncoded
  <2> QED
    BY <2>1, <2>2
<1>4. CASE StartDedupe(w) \/ SetDeduplicated(w)
  BY <1>0, <1>4, AdvanceShape DEF StartDedupe, SetDeduplicated
<1>5. CASE AppendLog(w)
  <2> USE DEF Shape, TypeOK
  <2>1. run[w].log + 1 \in Nat
    OBVIOUS
  <2>2. log' \in [Sets -> Nat]
    BY <1>5, <2>1 DEF AppendLog
  <2>3. /\ run' \in [Workers -> [pc : RunPc, job : Jobs \cup {None},
                              mem : State \cup {None}, log : Nat]]
        /\ RunShape'
    BY <1>5 DEF AppendLog, Goto, Remember, RunPc, RunShape
  <2> QED
    BY <1>5, <2>2, <2>3 DEF AppendLog, RequestShape, groupVars, jobVars
<1>6. CASE StopCancelled(w)
  <2>1. CASE run[w].mem \in DOMAIN CANCELLED_STATES
    <3> DEFINE s == CANCELLED_STATES[run[w].mem]
    <3>1. s \in State
      BY <1>0, <2>1, CancelledStateType
    <3> HIDE DEF s
    <3>2. /\ state' = [state EXCEPT ![job[run[w].job].ds] = s]
          /\ Remember(w, s, "log_failed")
          /\ UNCHANGED <<log, stranded, groupVars, jobVars, req, faults>>
          /\ run[w].pc # "idle"
      BY <1>6, <2>1 DEF StopCancelled, s
    <3>3. state' \in [Sets -> State \cup {None}]
      BY <3>1, <3>2 DEF Shape, TypeOK
    <3>4. run' \in [Workers -> [pc : RunPc, job : Jobs \cup {None},
                               mem : State \cup {None}, log : Nat]]
      BY <3>1, <3>2 DEF Shape, TypeOK, RunPc, RunShape, Remember
    <3>5. RunShape'
      BY <3>1, <3>2 DEF Shape, TypeOK, RunShape, Remember
    <3> QED
      BY <3>2, <3>3, <3>4, <3>5 DEF Shape, TypeOK, RequestShape, groupVars, jobVars
  <2>2. CASE run[w].mem \notin DOMAIN CANCELLED_STATES
    BY <1>0, <1>6, <2>2, GotoShape DEF StopCancelled, setVars
  <2> QED
    BY <2>1, <2>2
<1>7. CASE Fail(w)
  <2> DEFINE target == FailedState(run[w].mem)
  <2>1. target \in State
    BY <1>0 DEF FailedState
  <2>2. /\ run[w].pc # "idle"
        /\ UNCHANGED <<log, groupVars, jobVars, req, faults>>
        /\ \/ /\ state' = [state EXCEPT ![job[run[w].job].ds] = target]
              /\ Remember(w, target, "log_failed")
              /\ UNCHANGED stranded
           \/ Goto(w, "release") /\ GiveUp(run[w].job) /\ UNCHANGED state
    BY <1>7 DEF Fail
  <2> HIDE DEF target
  <2>3. run' \in [Workers -> [pc : RunPc, job : Jobs \cup {None},
                             mem : State \cup {None}, log : Nat]]
    <3>1. CASE Remember(w, target, "log_failed")
      BY <2>1, <2>2, <3>1 DEF Shape, TypeOK, RunPc, RunShape, Remember
    <3>2. CASE Goto(w, "release")
      BY <3>2 DEF Shape, TypeOK, RunPc, Goto
    <3> QED
      BY <2>2, <3>1, <3>2
  <2>4. RunShape'
    BY <2>1, <2>2 DEF Shape, TypeOK, RunShape, Goto, Remember
  <2>5. state' \in [Sets -> State \cup {None}] /\ stranded' \subseteq Sets
    BY <2>1, <2>2 DEF Shape, TypeOK, GiveUp
  <2> QED
    BY <2>2, <2>3, <2>4, <2>5 DEF Shape, TypeOK, RequestShape, groupVars, jobVars
<1>8. CASE Release(w)
  <2>1. /\ run' \in [Workers -> [pc : RunPc, job : Jobs \cup {None},
                              mem : State \cup {None}, log : Nat]]
        /\ RunShape'
    BY <1>8 DEF Release, Goto, Shape, TypeOK, RunShape, RunPc
  <2> QED
    BY <1>8, <2>1 DEF Release, Shape, TypeOK, RequestShape, setVars, jobVars
<1>9. CASE Ack(w)
  BY <1>9 DEF Ack, IdleRun, Shape, TypeOK, RequestShape, RunShape, RunPc, setVars, groupVars
<1> QED
  BY <1>1, <1>2, <1>3, <1>4, <1>5, <1>6, <1>7, <1>8, <1>9 DEF WorkerStep

\* A request that is received, and every fault of a request, keep the types.
LEMMA ReceiveShape ==
  ASSUME Shape, NEW h \in Requests,
         \/ \E endpoint \in DOMAIN Admits, d \in Sets : Receive(h, endpoint, d)
         \/ ConfigRead(h)
         \/ LoseRequest(h)
  PROVE  Shape'
<1> USE DEF Shape, TypeOK, RequestShape, RunShape
<1>1. CASE \E endpoint \in DOMAIN Admits, d \in Sets : Receive(h, endpoint, d)
  <2>1. PICK endpoint \in DOMAIN Admits, d \in Sets : Receive(h, endpoint, d)
    BY <1>1
  <2>2. endpoint \in RequestPc \ {"idle", "config", "lost", "queue"}
    BY DEF Admits, RequestPc
  <2>3. Admits[endpoint] \subseteq State
    BY DEF Admits, PROCESSABLE_STATES, State
  <2>4. state[d] \in State
    BY <2>1, <2>3 DEF Receive
  <2> QED
    BY <2>1, <2>2, <2>4 DEF Receive, setVars, groupVars, jobVars
<1>2. CASE ConfigRead(h)
  <2>1. \/ req' = [req EXCEPT ![h] = [pc |-> "config", ds |-> None, seen |-> None, job |-> None]]
        \/ \E d \in Sets :
             /\ state[d] \in {"ENCODED", "DEDUPLICATED"}
             /\ req' = [req EXCEPT ![h] = [pc |-> "config", ds |-> d, seen |-> state[d], job |-> None]]
    BY <1>2 DEF ConfigRead, IdleRequest
  <2>2. {"ENCODED", "DEDUPLICATED"} \subseteq State /\ "config" \in RequestPc
    BY DEF State, RequestPc
  <2>3. req' \in [Requests -> [pc : RequestPc, ds : Sets \cup {None},
                              seen : State \cup {None}, job : Jobs \cup {None}]]
    BY <2>1, <2>2
  <2>4. RequestShape'
    BY <1>2, <2>1 DEF ConfigRead, setVars
  <2> QED
    BY <1>2, <2>3, <2>4 DEF ConfigRead, setVars, groupVars, jobVars
<1>3. CASE LoseRequest(h)
  <2>1. req' \in [Requests -> [pc : RequestPc, ds : Sets \cup {None},
                              seen : State \cup {None}, job : Jobs \cup {None}]]
    BY <1>3 DEF LoseRequest, RequestPc
  <2>2. faults' \in 0..MaxFaults
    BY <1>3 DEF LoseRequest, Fault
  <2>3. RequestShape'
    BY <1>3 DEF LoseRequest
  <2> QED
    BY <1>3, <2>1, <2>2, <2>3 DEF LoseRequest, setVars, groupVars, jobVars
<1> QED
  BY <1>1, <1>2, <1>3

\* The same for what happens to the set, the group, the job rows and the broker.
LEMMA EnvironmentShape ==
  ASSUME Shape,
         \/ \E d \in Sets : Create(d)
         \/ SoftDelete
         \/ \E j \in Jobs : Cancel(j) \/ Redeliver(j) \/ RedeliverEarly(j)
  PROVE  Shape'
<1> USE DEF Shape, TypeOK, RequestShape, RunShape
<1>1. CASE \E d \in Sets : Create(d)
  BY <1>1 DEF Create, State, groupVars, jobVars
<1>2. CASE SoftDelete
  BY <1>2 DEF SoftDelete, setVars, jobVars
<1>3. ASSUME NEW j \in Jobs, Cancel(j)
      PROVE  Shape'
  <2>1. job' \in [Jobs -> JobRow \cup {None}]
    <3>1. job[j] \in JobRow
      BY <1>3 DEF Cancel
    <3>2. [job[j] EXCEPT !.cancel = TRUE] \in JobRow
      BY <3>1
    <3>3. job' = [job EXCEPT ![j] = [job[j] EXCEPT !.cancel = TRUE]]
      BY <1>3 DEF Cancel
    <3> QED
      BY <3>2, <3>3
  <2> QED
    BY <1>3, <2>1 DEF Cancel, setVars, groupVars
<1>4. ASSUME NEW j \in Jobs, Redeliver(j) \/ RedeliverEarly(j)
      PROVE  Shape'
  <2>1. faults' \in 0..MaxFaults
    BY <1>4 DEF Redeliver, RedeliverEarly, Fault
  <2>2. msg' \in [Jobs -> {"none", "queued", "unacked", "done", "lost"}]
    BY <1>4 DEF Redeliver, RedeliverEarly
  <2> QED
    BY <1>4, <2>1, <2>2 DEF Redeliver, RedeliverEarly, setVars, groupVars
<1> QED
  BY <1>1, <1>2, <1>3, <1>4

\* The rows a message or a queueing request names exist, and so does the set of a job
\* that is not in G.
RowsBut(G) ==
  /\ \A h \in Requests : req[h].pc = "queue" => job[req[h].job] # None
  /\ \A j \in Jobs : msg[j] # "none" => job[j] # None
  /\ \A j \in Jobs : job[j] # None /\ j \notin G => state[job[j].ds] # None

Rows == RowsBut({})

\* No run of a job in G takes part in the step.
Spares(G) == \A w \in Workers : run'[w] = run[w] \/ run'[w].job \notin G

\* A delivery, every exception and every death of a worker keep the types.
LEMMA WorkerShape ==
  ASSUME Shape, NEW G, RowsBut(G), Spares(G), NEW w \in Workers,
         \/ Deliver(w) \/ Raise(w) \/ Crash(w)
         \/ LoadFails(w) \/ WriteFails(w) \/ ReleaseFails(w) \/ Kill(w)
  PROVE  Shape'
<1>0. faults \in 0..MaxFaults
  BY DEF Shape, TypeOK
<1>1. CASE Deliver(w)
  <2>1. PICK j \in Jobs :
          /\ msg[j] = "queued"
          /\ msg' = [msg EXCEPT ![j] = "unacked"]
          /\ run' = [run EXCEPT ![w] = [pc |-> "begin", job |-> j,
                                        mem |-> state[job[j].ds], log |-> log[job[j].ds]]]
    BY <1>1 DEF Deliver
  <2>4. j \notin G
    BY <1>1, <2>1 DEF Deliver, Spares, Shape, TypeOK
  <2>2. job[j].ds \in Sets /\ state[job[j].ds] \in State /\ log[job[j].ds] \in Nat
    BY <2>1, <2>4 DEF RowsBut, Shape, TypeOK
  <2>3. /\ run' \in [Workers -> [pc : RunPc, job : Jobs \cup {None},
                                mem : State \cup {None}, log : Nat]]
        /\ RunShape'
    BY <2>1, <2>2 DEF Shape, TypeOK, RunShape, RunPc
  <2> QED
    BY <1>1, <2>1, <2>3 DEF Deliver, Shape, TypeOK, RequestShape, setVars, groupVars
<1>2. CASE Raise(w)
  <2>1. faults' \in 0..MaxFaults
    BY <1>0, <1>2 DEF Raise, Fault
  <2>2. {"error", "release"} \subseteq RunPc \ {"idle"}
    BY DEF RunPc
  <2> QED
    BY <1>2, <2>1, <2>2, GotoShape DEF Raise
<1>3. CASE Crash(w)
  <2>1. faults' \in 0..MaxFaults
    BY <1>0, <1>3 DEF Crash, Fault
  <2>2. /\ run' \in [Workers -> [pc : RunPc, job : Jobs \cup {None},
                                mem : State \cup {None}, log : Nat]]
        /\ RunShape'
    BY <1>3 DEF Crash, IdleRun, Shape, TypeOK, RunShape, RunPc
  <2> QED
    BY <1>3, <2>1, <2>2 DEF Crash, Shape, TypeOK, RequestShape, setVars, groupVars, jobVars
<1>4. CASE LoadFails(w)
  <2>1. faults' \in 0..MaxFaults
    BY <1>0, <1>4 DEF LoadFails, Fault
  <2>2. stranded' \subseteq Sets
    BY <1>4 DEF LoadFails, GiveUp, Shape, TypeOK
  <2>3. msg' \in [Jobs -> {"none", "queued", "unacked", "done", "lost"}]
    BY <1>4 DEF LoadFails, Shape, TypeOK
  <2> QED
    BY <1>4, <2>1, <2>2, <2>3 DEF LoadFails, Shape, TypeOK, RequestShape, RunShape, groupVars
<1>5. CASE WriteFails(w)
  <2>1. faults' \in 0..MaxFaults
    BY <1>0, <1>5 DEF WriteFails, Fault
  <2>2. PICK mem \in State, pc \in RunPc \ {"idle"} : Remember(w, mem, pc)
    <3>1. CASE run[w].pc \in DOMAIN Writes /\ Remember(w, Writes[run[w].pc], "error")
      BY <3>1 DEF Writes, State, RunPc
    <3>2. CASE Remember(w, FailedState(run[w].mem), "release")
      BY <3>2 DEF FailedState, State, RunPc
    <3>3. CASE /\ run[w].mem \in DOMAIN CANCELLED_STATES
               /\ Remember(w, CANCELLED_STATES[run[w].mem], "release")
      <4>1. CANCELLED_STATES[run[w].mem] \in State
        BY <3>3, CancelledStateType DEF State
      <4> QED
        BY <3>3, <4>1 DEF RunPc
    <3> QED
      BY <1>5, <3>1, <3>2, <3>3 DEF WriteFails
  <2>3. stranded' \subseteq Sets
    BY <1>5 DEF WriteFails, GiveUp, Shape, TypeOK
  <2>4. run[w].pc # "idle"
    BY <1>5 DEF WriteFails, Writes
  <2>5. run' \in [Workers -> [pc : RunPc, job : Jobs \cup {None},
                             mem : State \cup {None}, log : Nat]]
    BY <2>2, <2>4 DEF Shape, TypeOK, RunShape, Remember
  <2>6. RunShape'
    BY <2>2, <2>4 DEF Shape, TypeOK, RunShape, Remember
  <2> QED
    BY <1>5, <2>1, <2>3, <2>5, <2>6 DEF WriteFails, Shape, TypeOK, RequestShape, groupVars, jobVars
<1>6. CASE ReleaseFails(w) \/ Kill(w)
  <2>1. faults' \in 0..MaxFaults
    BY <1>0, <1>6 DEF ReleaseFails, Kill, Fault
  <2>5. run' = [run EXCEPT ![w] = IdleRun]
    BY <1>6 DEF ReleaseFails, Kill
  <2>2. /\ run' \in [Workers -> [pc : RunPc, job : Jobs \cup {None},
                                mem : State \cup {None}, log : Nat]]
        /\ RunShape'
    BY <2>5 DEF IdleRun, Shape, TypeOK, RunShape, RunPc
  <2>3. stranded' \subseteq Sets
    BY <1>6 DEF ReleaseFails, Kill, GiveUp, setVars, Shape, TypeOK
  <2>4. msg' \in [Jobs -> {"none", "queued", "unacked", "done", "lost"}]
    BY <1>6 DEF ReleaseFails, Kill, Shape, TypeOK
  <2> QED
    BY <1>6, <2>1, <2>2, <2>3, <2>4
    DEF ReleaseFails, Kill, Shape, TypeOK, RequestShape, setVars, groupVars
<1> QED
  BY <1>1, <1>2, <1>3, <1>4, <1>5, <1>6

\* Every step keeps the types.
LEMMA NextShape ==
  ASSUME Shape, NEW G, RowsBut(G), Spares(G), [Next]_vars
  PROVE  Shape'
<1>1. CASE Next
  BY <1>1, ReceiveShape, RequestStepShape, EnvironmentShape, WorkerShape, WorkerStepShape DEF Next
<1>2. CASE UNCHANGED vars
  BY <1>2 DEF vars, setVars, groupVars, jobVars, Shape, TypeOK, RequestShape, RunShape
<1> QED
  BY <1>1, <1>2

-----------------------------------------------------------------------------
\* No step removes the row of a set.
LEMMA SetsStay ==
  ASSUME Shape, [Next]_vars, NEW d \in Sets, state[d] # None
  PROVE  state'[d] # None
<1> USE DEF Shape, TypeOK, State
<1>1. CASE UNCHANGED state
  BY <1>1
<1>2. CASE \E e \in Sets : Create(e)
  BY <1>2 DEF Create
<1>3. ASSUME NEW h \in Requests, RequestStep(h)
      PROVE  state'[d] # None
  BY <1>3 DEF RequestStep, Upload, Ready, Approve, Reject, Clear, Acquire, Start, Queue,
              ConfigCommit, SetState, setVars
<1>4. ASSUME NEW w \in Workers, WorkerStep(w)
      PROVE  state'[d] # None
  <2>1. CASE StopCancelled(w)
    BY <2>1, CancelledStateType DEF StopCancelled
  <2>2. CASE ~StopCancelled(w)
    BY <1>4, <2>2 DEF WorkerStep, Begin, Encode, SetEncoded, StartDedupe, Dedupe,
                SetDeduplicated, AppendLog, Fail, FailedState, Release, Ack, Advance, setVars
  <2> QED
    BY <2>1, <2>2
<1>5. ASSUME NEW h \in Requests,
             \/ \E endpoint \in DOMAIN Admits, e \in Sets : Receive(h, endpoint, e)
             \/ ConfigRead(h) \/ LoseRequest(h)
      PROVE  UNCHANGED state
  BY <1>5 DEF Receive, ConfigRead, LoseRequest, setVars
<1>6. ASSUME NEW j \in Jobs, Cancel(j) \/ Redeliver(j) \/ RedeliverEarly(j)
      PROVE  UNCHANGED state
  BY <1>6 DEF Cancel, Redeliver, RedeliverEarly, setVars
<1>7. ASSUME NEW w \in Workers,
             \/ Deliver(w) \/ Raise(w) \/ Crash(w)
             \/ LoadFails(w) \/ WriteFails(w) \/ ReleaseFails(w) \/ Kill(w)
      PROVE  UNCHANGED state
  BY <1>7 DEF Deliver, Raise, Crash, LoadFails, WriteFails, ReleaseFails, Kill, setVars
<1>8. ASSUME SoftDelete
      PROVE  UNCHANGED state
  BY <1>8 DEF SoftDelete, setVars
<1>9. ASSUME UNCHANGED vars
      PROVE  UNCHANGED state
  BY <1>9 DEF vars
<1> QED
  BY <1>1, <1>2, <1>3, <1>4, <1>5, <1>6, <1>7, <1>8, <1>9 DEF Next

\* Only the transaction of process and a cancellation write job rows, and neither
\* removes a row, gives it to another set, or makes it a run of the other kind.
LEMMA JobsStay ==
  ASSUME Shape, [Next]_vars, NEW j \in Jobs, job[j] # None
  PROVE  job'[j] # None /\ job'[j].ds = job[j].ds /\ job'[j].encode_only = job[j].encode_only
<1> USE DEF Shape, TypeOK
<1>1. CASE UNCHANGED job
  BY <1>1
<1>2. ASSUME NEW h \in Requests, RequestStep(h)
      PROVE  job'[j] # None /\ job'[j].ds = job[j].ds /\ job'[j].encode_only = job[j].encode_only
  <2>1. CASE Start(h)
    BY <2>1 DEF Start, FreeJobs
  <2>2. CASE ~Start(h)
    BY <1>2, <2>2 DEF RequestStep, Upload, Ready, Approve, Reject, Clear, Acquire, Queue,
                ConfigCommit, SetState, jobVars
  <2> QED
    BY <2>1, <2>2
<1>3. ASSUME NEW i \in Jobs, Cancel(i)
      PROVE  job'[j] # None /\ job'[j].ds = job[j].ds /\ job'[j].encode_only = job[j].encode_only
  <2>1. job' = [job EXCEPT ![i] = [job[i] EXCEPT !.cancel = TRUE]]
    BY <1>3 DEF Cancel
  <2>2. job[i] \in JobRow
    BY <1>3 DEF Cancel
  <2>3. [job[i] EXCEPT !.cancel = TRUE] \in JobRow
    BY <2>2
  <2>4. /\ [job[i] EXCEPT !.cancel = TRUE].ds = job[i].ds
        /\ [job[i] EXCEPT !.cancel = TRUE].encode_only = job[i].encode_only
    BY <2>2
  <2>5. [job[i] EXCEPT !.cancel = TRUE] # None
    BY <2>2, <2>3
  <2> QED
    BY <2>1, <2>4, <2>5
<1>4. ASSUME NEW w \in Workers, WorkerStep(w)
      PROVE  UNCHANGED job
  BY <1>4 DEF WorkerStep, Begin, Encode, SetEncoded, StartDedupe, Dedupe, SetDeduplicated,
              AppendLog, StopCancelled, Fail, Release, Ack, Advance, jobVars
<1>5. ASSUME NEW h \in Requests,
             \/ \E endpoint \in DOMAIN Admits, e \in Sets : Receive(h, endpoint, e)
             \/ ConfigRead(h) \/ LoseRequest(h)
      PROVE  UNCHANGED job
  BY <1>5 DEF Receive, ConfigRead, LoseRequest, jobVars
<1>6. ASSUME NEW i \in Jobs, Redeliver(i) \/ RedeliverEarly(i)
      PROVE  UNCHANGED job
  BY <1>6 DEF Redeliver, RedeliverEarly
<1>7. ASSUME NEW w \in Workers,
             \/ Deliver(w) \/ Raise(w) \/ Crash(w)
             \/ LoadFails(w) \/ WriteFails(w) \/ ReleaseFails(w) \/ Kill(w)
      PROVE  UNCHANGED job
  BY <1>7 DEF Deliver, Raise, Crash, LoadFails, WriteFails, ReleaseFails, Kill, jobVars
<1>8. ASSUME SoftDelete \/ \E d \in Sets : Create(d)
      PROVE  UNCHANGED job
  BY <1>8 DEF SoftDelete, Create, jobVars
<1>9. ASSUME UNCHANGED vars
      PROVE  UNCHANGED job
  BY <1>9 DEF vars
<1> QED
  BY <1>1, <1>2, <1>3, <1>4, <1>5, <1>6, <1>7, <1>8, <1>9 DEF Next

-----------------------------------------------------------------------------
\* Request h has the token.
Holds(h) == req[h].pc \in {"start", "queue", "lost"}

\* The steps that pass the token on, or the message it travels with.
TokenStep ==
  \/ \E h \in Requests : Acquire(h) \/ Start(h) \/ Queue(h) \/ LoseRequest(h)
  \/ \E w \in Workers :
       \/ Deliver(w) \/ Release(w) \/ Ack(w) \/ Crash(w)
       \/ LoadFails(w) \/ ReleaseFails(w) \/ Kill(w)
  \/ \E j \in Jobs : Redeliver(j) \/ RedeliverEarly(j)

\* What every other step leaves alone.
Frame ==
  /\ UNCHANGED <<locked, msg>>
  /\ \A j \in Jobs : job'[j] = None <=> job[j] = None
  /\ \A w \in Workers :
       /\ run'[w].job = run[w].job
       /\ run'[w].pc = "idle" <=> run[w].pc = "idle"
       /\ run'[w].pc = "ack" <=> run[w].pc = "ack"
  /\ \A h \in Requests : Holds(h) \/ Holds(h)' => req'[h] = req[h]

\* A step passes the token on or leaves it alone.
LEMMA TokenOrFrame ==
  ASSUME Shape, [Next]_vars
  PROVE  TokenStep \/ Frame
<1> USE DEF Shape, TypeOK
<1>1. ASSUME NEW h \in Requests,
             \/ \E endpoint \in DOMAIN Admits, d \in Sets : Receive(h, endpoint, d)
             \/ ConfigRead(h)
      PROVE  Frame
  <2>1. \A endpoint \in DOMAIN Admits : endpoint \notin {"start", "queue", "lost"}
    BY DEF Admits
  <2>2. \A g \in Requests : Holds(g) \/ Holds(g)' => req'[g] = req[g]
    BY <1>1, <2>1 DEF Receive, ConfigRead, Holds, IdleRequest
  <2> QED
    BY <1>1, <2>2 DEF Receive, ConfigRead, Frame, jobVars, groupVars
<1>2. ASSUME NEW h \in Requests, RequestStep(h)
      PROVE  TokenStep \/ Frame
  <2>1. CASE Acquire(h) \/ Start(h) \/ Queue(h)
    BY <2>1 DEF TokenStep
  <2>2. CASE Upload(h) \/ Ready(h) \/ Approve(h) \/ Reject(h) \/ Clear(h) \/ ConfigCommit(h)
    <3>1. req[h].pc \notin {"start", "queue", "lost"} /\ Reply(h)
      BY <2>2 DEF Upload, Ready, Approve, Reject, Clear, ConfigCommit, SetState
    <3>2. UNCHANGED <<locked, msg, job, run>>
      BY <2>2 DEF Upload, Ready, Approve, Reject, Clear, ConfigCommit, SetState, groupVars, jobVars
    <3>3. \A g \in Requests : Holds(g) \/ Holds(g)' => req'[g] = req[g]
      BY <3>1 DEF Reply, IdleRequest, Holds
    <3> QED
      BY <3>2, <3>3 DEF Frame
  <2> QED
    BY <1>2, <2>1, <2>2 DEF RequestStep
<1>3. ASSUME NEW w \in Workers, WorkerStep(w) \/ Raise(w) \/ WriteFails(w)
      PROVE  TokenStep \/ Frame
  <2>1. CASE Release(w) \/ Ack(w)
    BY <2>1 DEF TokenStep
  <2>2. CASE ~Release(w) /\ ~Ack(w)
    <3>1. UNCHANGED <<locked, msg, job, req>>
      BY <1>3, <2>2 DEF WorkerStep, Raise, WriteFails, Writes, Begin, Encode, SetEncoded, StartDedupe, Dedupe,
                  SetDeduplicated, AppendLog, StopCancelled, Fail, Advance, groupVars, jobVars
    <3>2. run[w].pc \notin {"idle", "ack"}
      BY <1>3, <2>2 DEF WorkerStep, Raise, WriteFails, Writes, Begin, Encode, SetEncoded, StartDedupe, Dedupe,
                  SetDeduplicated, AppendLog, StopCancelled, Fail
    <3>3. \E pc \in RunPc \ {"idle", "ack"} : \E mem : Goto(w, pc) \/ Remember(w, mem, pc)
      BY <1>3, <2>2 DEF WorkerStep, Raise, WriteFails, Writes, Begin, Encode, SetEncoded, StartDedupe, Dedupe,
                  SetDeduplicated, AppendLog, StopCancelled, Fail, Advance, RunPc
    <3>4. \A v \in Workers :
            /\ run'[v].job = run[v].job
            /\ run'[v].pc = "idle" <=> run[v].pc = "idle"
            /\ run'[v].pc = "ack" <=> run[v].pc = "ack"
      BY <3>2, <3>3 DEF Goto, Remember
    <3> QED
      BY <3>1, <3>4 DEF Frame
  <2> QED
    BY <2>1, <2>2
<1>4. ASSUME NEW j \in Jobs, Cancel(j)
      PROVE  Frame
  <2>1. \A i \in Jobs : job'[i] = None <=> job[i] = None
    BY <1>4, JobsStay DEF Cancel, Next
  <2> QED
    BY <1>4, <2>1 DEF Cancel, Frame, groupVars
<1>5. ASSUME SoftDelete \/ \E d \in Sets : Create(d)
      PROVE  Frame
  BY <1>5 DEF SoftDelete, Create, Frame, groupVars, jobVars
<1>6. ASSUME UNCHANGED vars
      PROVE  Frame
  BY <1>6 DEF vars, Frame
<1> QED
  BY <1>1, <1>2, <1>3, <1>4, <1>5, <1>6 DEF Next, TokenStep

\* Every step keeps the rows that are named by others.
LEMMA RowsStep ==
  ASSUME Shape, NEW G, RowsBut(G), [Next]_vars
  PROVE  RowsBut(G)'
<1> USE DEF Shape, TypeOK, RequestShape
<1>1. \A j \in Jobs : job[j] # None =>
        /\ job'[j] # None
        /\ job'[j].ds = job[j].ds
        /\ j \notin G => state'[job'[j].ds] # None
  <2> SUFFICES ASSUME NEW j \in Jobs, job[j] # None
               PROVE  /\ job'[j] # None
                      /\ job'[j].ds = job[j].ds
                      /\ j \notin G => state'[job'[j].ds] # None
    OBVIOUS
  <2>1. job'[j] # None /\ job'[j].ds = job[j].ds
    BY JobsStay
  <2>2. job[j].ds \in Sets /\ (j \notin G => state[job[j].ds] # None)
    BY DEF RowsBut
  <2>3. j \notin G => state'[job[j].ds] # None
    BY <2>2, SetsStay
  <2> QED
    BY <2>1, <2>3
<1>2. CASE Frame
  BY <1>1, <1>2 DEF Frame, RowsBut, Holds
<1>3. ASSUME NEW h \in Requests, Acquire(h) \/ Start(h) \/ Queue(h) \/ LoseRequest(h)
      PROVE  RowsBut(G)'
  <2>1. CASE Acquire(h) \/ LoseRequest(h)
    <3>1. UNCHANGED <<job, msg>>
      BY <2>1 DEF Acquire, LoseRequest, jobVars
    <3>2. \A g \in Requests : req'[g].pc = "queue" => req'[g] = req[g]
      BY <2>1 DEF Acquire, LoseRequest, Reply, IdleRequest
    <3> QED
      BY <1>1, <3>1, <3>2 DEF RowsBut
  <2>2. CASE Queue(h)
    <3>1. req[h].pc = "queue" /\ req[h].job \in Jobs /\ job[req[h].job] # None
      BY <2>2 DEF Queue, RowsBut
    <3>2. /\ UNCHANGED job
          /\ msg' = [msg EXCEPT ![req[h].job] = "queued"]
      BY <2>2 DEF Queue
    <3>3. \A g \in Requests : req'[g].pc = "queue" => req'[g] = req[g]
      BY <2>2 DEF Queue, Reply, IdleRequest
    <3> QED
      BY <1>1, <3>1, <3>2, <3>3 DEF RowsBut
  <2>3. CASE Start(h) /\ Reply(h) /\ UNCHANGED job
    <3>1. UNCHANGED msg
      BY <2>3 DEF Start
    <3>2. \A g \in Requests : req'[g].pc = "queue" => req'[g] = req[g]
      BY <2>3 DEF Reply, IdleRequest
    <3> QED
      BY <1>1, <2>3, <3>1, <3>2 DEF RowsBut
  <2>4. CASE Start(h) /\ ~(Reply(h) /\ UNCHANGED job)
    <3>1. PICK j \in FreeJobs, encode_only \in BOOLEAN :
            /\ state' = [state EXCEPT ![req[h].ds] = "ENCODING_IN_PROGRESS"]
            /\ job' = [job EXCEPT ![j] = [ds |-> req[h].ds, encode_only |-> encode_only,
                                         cancel |-> FALSE]]
            /\ req' = [req EXCEPT ![h] = [pc |-> "queue", ds |-> req[h].ds,
                                           seen |-> req[h].seen, job |-> j]]
            /\ UNCHANGED msg
      BY <2>4 DEF Start
    <3>2. j \in Jobs /\ job[j] = None /\ req[h].ds \in Sets
      BY <2>4 DEF Start, FreeJobs
    <3>3. job'[j] \in JobRow /\ job'[j].ds = req[h].ds
      BY <3>1, <3>2
    <3>4. job'[j] # None /\ state'[job'[j].ds] # None
      BY <3>1, <3>2, <3>3 DEF State
    <3>5. \A i \in Jobs \ {j} : job'[i] = job[i]
      BY <3>1, <3>2
    <3>6. \A g \in Requests : req'[g].pc = "queue" => req'[g] = req[g] \/ req'[g].job = j
      BY <3>1
    <3> HIDE DEF JobRow
    <3> QED
      BY <1>1, <3>1, <3>4, <3>5, <3>6 DEF RowsBut
  <2> QED
    BY <1>3, <2>1, <2>2, <2>3, <2>4
<1>4. ASSUME NEW w \in Workers,
             \/ Deliver(w) \/ Release(w) \/ Ack(w) \/ Crash(w)
             \/ LoadFails(w) \/ ReleaseFails(w) \/ Kill(w)
      PROVE  RowsBut(G)'
  <2>1. UNCHANGED <<job, req>> /\ \A j \in Jobs : msg'[j] # "none" => msg[j] # "none"
    BY <1>4 DEF Deliver, Release, Ack, Crash, LoadFails, ReleaseFails, Kill, jobVars
  <2> QED
    BY <1>1, <2>1 DEF RowsBut
<1>5. ASSUME NEW j \in Jobs, Redeliver(j) \/ RedeliverEarly(j)
      PROVE  RowsBut(G)'
  <2>1. UNCHANGED <<job, req>> /\ \A i \in Jobs : msg'[i] # "none" => msg[i] # "none"
    BY <1>5 DEF Redeliver, RedeliverEarly
  <2> QED
    BY <1>1, <2>1 DEF RowsBut
<1> QED
  BY <1>2, <1>3, <1>4, <1>5, TokenOrFrame DEF TokenStep

\* Type correctness: rows, messages, requests and runs keep the types of DedupEngine,
\* whatever faults happen.
THEOREM TypeCorrect == Spec => []TypeOK
<1>1. Init => Shape /\ Rows
  <2> SUFFICES ASSUME Init PROVE Rows
    BY InitShape
  <2> QED
    BY DEF Init, IdleRequest, Rows, RowsBut
<1>2. Shape /\ Rows /\ [Next]_vars => (Shape /\ Rows)'
  BY NextShape, RowsStep DEF Rows, Spares
<1>3. Shape /\ Rows => TypeOK
  BY DEF Shape
<1> QED
  BY <1>1, <1>2, <1>3, PTL DEF Spec

================================================================================
