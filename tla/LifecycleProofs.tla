---------------------------- MODULE LifecycleProofs ----------------------------
(***************************************************************************)
(* DedupEngine implements GroupLifecycle for a client that sends one       *)
(* request at a time, waits for a full run before it asks for the next,    *)
(* does not use clear, and whose workers do not die as a whole with a set  *)
(* already Deduplicated; for any number of sets, jobs and workers, and     *)
(* whenever the process of a run is killed or one of its statements        *)
(* raises, those that write the state and release the lock included.       *)
(*                                                                         *)
(* The violated runs show why each is needed: what a request or a run read *)
(* would be stale when it is acted on.  The invariant says the contrary:   *)
(* what a request saw is still so (RequestsCurrent), and so is what a run  *)
(* remembers, apart from a judgement of its findings and from a write that *)
(* raised (RunsCurrent).                                                   *)
(***************************************************************************)
EXTENDS DedupLockProofs

\* One request at a time, no clear, and no fault but exceptions, killed processes, and the
\* death of workers that have not finished their set.
Serial ==
  /\ \A g, h \in Requests : g = h
  /\ "clear" \notin Endpoints
  /\ Faults \subseteq {"crash", "killed", "exception"}

PatientSpec == Init /\ [][Next /\ Patience]_vars

\* The states in which a run may be waiting for a worker.
Resumable ==
  { "ENCODING_IN_PROGRESS", "ENCODED", "ENCODING_FAILED",
    "DEDUPLICATION_IN_PROGRESS", "DEDUPLICATION_FAILED" }

\* What a request read is still so when it acts on it.
SeenCurrent(h) ==
  /\ req[h].pc \in {"upload", "ready", "approve", "reject", "process"} =>
       state[req[h].ds] = req[h].seen /\ req[h].seen \in Admits[req[h].pc]
  /\ req[h].pc = "start" => state[req[h].ds] = req[h].seen /\ req[h].seen \in PROCESSABLE_STATES
  /\ req[h].pc = "process" => \A j \in Jobs : Live(j) => job[j].encode_only
  /\ req[h].pc = "queue" => state[req[h].ds] = "ENCODING_IN_PROGRESS"
  /\ req[h].pc = "config" =>
       /\ ~locked /\ ~deleted
       /\ req[h].ds # None => /\ state[req[h].ds] = req[h].seen
                              /\ req[h].seen \in {"ENCODED", "DEDUPLICATED"}
  /\ req[h].pc \notin {"clear", "lost"}

RequestsCurrent == \A h \in Requests : SeenCurrent(h)

\* A write of run w raised: it remembers the state that its set does not have.
Unrecorded(w) ==
  LET s == state[job[run[w].job].ds] IN
  \/ s = "ENCODING_IN_PROGRESS" /\ run[w].mem = "ENCODED"
  \/ /\ s = "ENCODED" /\ run[w].mem = "DEDUPLICATION_IN_PROGRESS"
     /\ ~job[run[w].job].encode_only
  \/ s = "DEDUPLICATION_IN_PROGRESS" /\ run[w].mem = "DEDUPLICATED"

\* What a run remembers is so, unless its findings were judged meanwhile or a write raised,
\* and it is where that state belongs; a set it leaves in progress was given up.
Fresh(w) ==
  LET d == job[run[w].job].ds IN
  /\ run[w].mem \in Resumable \cup {"DEDUPLICATED"}
  /\ \/ state[d] = run[w].mem
     \/ run[w].mem = "DEDUPLICATED" /\ state[d] \in FinalStates
     \/ run[w].pc = "error" /\ Unrecorded(w)
     \/ run[w].pc = "release" /\ state[d] \in Resumable
  /\ run[w].mem = "DEDUPLICATED" => run[w].pc \in {"log", "log_failed", "error", "release"}
  /\ run[w].pc = "start_dedupe" => run[w].mem = "ENCODED" /\ ~job[run[w].job].encode_only
  /\ run[w].pc \in {"log", "log_failed"} => run[w].mem \notin InProgress
  /\ run[w].pc = "release" => (state[d] \in InProgress => d \in stranded)
  /\ run[w].pc # "release" => d \notin stranded

\* Job j has its run in front of it.
Waiting(j) == Live(j) /\ \A w \in Workers : run[w].job # j

RunsCurrent ==
  /\ \A j \in Jobs : Waiting(j) => state[job[j].ds] \in Resumable
  /\ \A w \in Workers : Running(w) => Fresh(w)

SerialInv == Inv /\ Slot /\ RequestsCurrent /\ RunsCurrent

-----------------------------------------------------------------------------
\* The faults that would duplicate a message are none of those admitted.
LEMMA SerialDelivers ==
  ASSUME Serial
  PROVE  NoDuplication
BY DEF Serial, NoDuplication

\* Which faults cannot happen.
LEMMA SerialFaults ==
  ASSUME Serial
  PROVE  /\ ~Fault("request") /\ ~Fault("late_crash") /\ ~Fault("done_crash") /\ ~Fault("early")
BY DEF Serial, Fault

\* The states a run moves its set through, and nothing else.  It fails a set that is still
\* ENCODED when the start of the second stage was not recorded.
RunMove(w) ==
  LET d == job[run[w].job].ds IN
  \E to \in State :
    /\ state' = [state EXCEPT ![d] = to]
    /\ \/ state[d] = "ENCODING_IN_PROGRESS" /\ to \in {"ENCODED", "ENCODING_FAILED"}
       \/ /\ state[d] = "ENCODED" /\ ~job[run[w].job].encode_only
          /\ to \in {"DEDUPLICATION_IN_PROGRESS", "DEDUPLICATION_FAILED"}
       \/ /\ state[d] = "DEDUPLICATION_IN_PROGRESS"
          /\ to \in {"DEDUPLICATED", "DEDUPLICATION_FAILED"}

\* The steps of a run that write the state of its set, or fail to.
StateStep(w) ==
  \/ SetEncoded(w) \/ StartDedupe(w) \/ SetDeduplicated(w) \/ StopCancelled(w) \/ Fail(w)
  \/ WriteFails(w)

\* A run whose memory is current writes what its set may become, and remembers it.
LEMMA RunWrites ==
  ASSUME SerialInv, NEW w \in Workers, StateStep(w)
  PROVE  /\ \/ UNCHANGED state /\ (UNCHANGED stranded \/ GiveUp(run[w].job))
            \/ RunMove(w) /\ UNCHANGED stranded /\ run[w].pc # "release"
         /\ Running(w) /\ Running(w)' /\ Fresh(w)'
         /\ run'[w].job = run[w].job /\ \A v \in Workers \ {w} : run'[v] = run[v]
         /\ UNCHANGED <<groupVars, jobVars, req>>
<1> DEFINE d == job[run[w].job].ds
<1> USE DEF Inv, Shape, TypeOK, RunShape
<1>0. "error" \in RunPc /\ "log" \in RunPc /\ "start_dedupe" \in RunPc /\ "dedupe" \in RunPc
  BY DEF RunPc
<1>1. Running(w) /\ d \in Sets
  BY RunSet, InvLocated DEF SerialInv, StateStep, Running, SetEncoded, StartDedupe,
     SetDeduplicated, StopCancelled, Fail, WriteFails, Writes
<1>2. Fresh(w)
  BY <1>1 DEF SerialInv, RunsCurrent
<1>3. /\ \A v \in Workers \ {w} : run'[v] = run[v]
      /\ run'[w].job = run[w].job
      /\ UNCHANGED <<groupVars, jobVars, req>>
  BY DEF StateStep, SetEncoded, StartDedupe, SetDeduplicated, StopCancelled, Fail,
         WriteFails, Advance, Goto, Remember, SerialInv
<1>4. UNCHANGED job
  BY <1>3 DEF jobVars
<1>5. \A target \in State : state[d] \in BLOCKING_STATES => Fits(d, target)
  BY <1>1 DEF Slot, Fits, SerialInv
<1>6. ASSUME NEW target \in {"ENCODED", "DEDUPLICATION_IN_PROGRESS", "DEDUPLICATED"},
             NEW next \in {"log", "start_dedupe", "dedupe"}, Advance(w, target, next)
      PROVE  \/ run'[w].pc = "error" /\ run'[w].mem = run[w].mem /\ UNCHANGED state
             \/ /\ Allowed(run[w].mem, target)
                /\ state' = [state EXCEPT ![d] = target]
                /\ run'[w].pc = next /\ run'[w].mem = target
             \/ /\ Allowed(run[w].mem, target) /\ ~Fits(d, target)
  BY <1>6 DEF Advance, Goto, Remember, SerialInv
<1>15. run[w].pc \notin {"error", "release"} =>
         /\ d \notin stranded
         /\ state[d] = run[w].mem \/ (run[w].mem = "DEDUPLICATED" /\ state[d] \in FinalStates)
  BY <1>2 DEF Fresh
<1>7. ASSUME run'[w].pc = "error", run'[w].mem = run[w].mem, UNCHANGED <<state, stranded>>,
             run[w].pc \notin {"error", "release"}
      PROVE  Running(w)' /\ Fresh(w)'
  BY <1>1, <1>2, <1>3, <1>4, <1>7, <1>15 DEF Fresh, Running
<1>16. ASSUME SetEncoded(w) \/ StartDedupe(w) \/ SetDeduplicated(w) \/ StopCancelled(w)
       PROVE  UNCHANGED stranded /\ run[w].pc \notin {"error", "release"}
  BY <1>16 DEF SetEncoded, StartDedupe, SetDeduplicated, StopCancelled, Advance
<1>8. CASE SetEncoded(w)
  <2>1. run[w].pc = "encoded"
    BY <1>8 DEF SetEncoded
  <2>2. Allowed(run[w].mem, "ENCODED") => state[d] = "ENCODING_IN_PROGRESS"
    BY <1>2, <1>15, <2>1 DEF Fresh, Allowed, VALID_TRANSITIONS, Resumable
  <2>3. Allowed(run[w].mem, "ENCODED") => Fits(d, "ENCODED")
    BY <2>2, <1>5 DEF BLOCKING_STATES, State
  <2>4. CASE /\ Allowed(run[w].mem, "ENCODED")
             /\ state' = [state EXCEPT ![d] = "ENCODED"]
             /\ run'[w].pc = (IF job[run[w].job].encode_only THEN "log" ELSE "start_dedupe")
             /\ run'[w].mem = "ENCODED"
    <3>1. RunMove(w)
      BY <2>2, <2>4 DEF RunMove, State
    <3>2. state'[d] = "ENCODED"
      BY <1>1, <2>4 DEF SerialInv
    <3>3. Fresh(w)'
      BY <1>3, <1>4, <1>8, <1>15, <1>16, <2>4, <3>2 DEF Fresh, Resumable, InProgress
    <3>4. Running(w)'
      BY <2>4 DEF Running
    <3> QED BY <1>1, <1>3, <1>8, <1>16, <3>1, <3>3, <3>4
  <2> QED BY <1>1, <1>3, <1>6, <1>7, <1>8, <1>16, <2>3, <2>4 DEF SetEncoded
<1>9. CASE StartDedupe(w)
  <2>1. run[w].mem = "ENCODED" /\ ~job[run[w].job].encode_only /\ state[d] = "ENCODED"
    BY <1>2, <1>9, <1>15 DEF StartDedupe, Fresh
  <2>3. Fits(d, "DEDUPLICATION_IN_PROGRESS")
    BY <2>1, <1>5 DEF BLOCKING_STATES, State
  <2>4. CASE /\ state' = [state EXCEPT ![d] = "DEDUPLICATION_IN_PROGRESS"]
             /\ run'[w].pc = "dedupe" /\ run'[w].mem = "DEDUPLICATION_IN_PROGRESS"
    <3>1. RunMove(w)
      BY <2>1, <2>4 DEF RunMove, State
    <3>2. state'[d] = "DEDUPLICATION_IN_PROGRESS"
      BY <1>1, <2>4 DEF SerialInv
    <3>3. Fresh(w)'
      BY <1>3, <1>4, <1>9, <1>15, <1>16, <2>4, <3>2 DEF Fresh, Resumable
    <3>4. Running(w)'
      BY <2>4 DEF Running
    <3> QED BY <1>1, <1>3, <1>9, <1>16, <3>1, <3>3, <3>4
  <2> QED BY <1>1, <1>3, <1>6, <1>7, <1>9, <1>16, <2>3, <2>4 DEF StartDedupe
<1>10. CASE SetDeduplicated(w)
  <2>2. Allowed(run[w].mem, "DEDUPLICATED") => state[d] = "DEDUPLICATION_IN_PROGRESS"
    BY <1>2, <1>10, <1>15, <1>16 DEF Fresh, Allowed, VALID_TRANSITIONS, Resumable
  <2>3. Allowed(run[w].mem, "DEDUPLICATED") => Fits(d, "DEDUPLICATED")
    BY <2>2, <1>5 DEF BLOCKING_STATES, State
  <2>4. CASE /\ Allowed(run[w].mem, "DEDUPLICATED")
             /\ state' = [state EXCEPT ![d] = "DEDUPLICATED"]
             /\ run'[w].pc = "log" /\ run'[w].mem = "DEDUPLICATED"
    <3>1. RunMove(w)
      BY <2>2, <2>4 DEF RunMove, State
    <3>2. state'[d] = "DEDUPLICATED"
      BY <1>1, <2>4 DEF SerialInv
    <3>3. Fresh(w)'
      BY <1>3, <1>4, <1>10, <1>15, <1>16, <2>4, <3>2 DEF Fresh, InProgress
    <3>4. Running(w)'
      BY <2>4 DEF Running
    <3> QED BY <1>1, <1>3, <1>10, <1>16, <3>1, <3>3, <3>4
  <2> QED BY <1>1, <1>3, <1>6, <1>7, <1>10, <1>16, <2>3, <2>4 DEF SetDeduplicated
<1>11. ASSUME NEW to \in {"ENCODING_FAILED", "DEDUPLICATION_FAILED"},
              state' = [state EXCEPT ![d] = to], run'[w].pc = "log_failed", run'[w].mem = to,
              UNCHANGED stranded, run[w].pc # "release",
              \/ state[d] = "ENCODING_IN_PROGRESS" /\ to = "ENCODING_FAILED"
              \/ state[d] = "DEDUPLICATION_IN_PROGRESS" /\ to = "DEDUPLICATION_FAILED"
              \/ /\ state[d] = "ENCODED" /\ to = "DEDUPLICATION_FAILED"
                 /\ ~job[run[w].job].encode_only
       PROVE  RunMove(w) /\ Running(w)' /\ Fresh(w)'
  <2>1. RunMove(w)
    BY <1>11 DEF RunMove, State
  <2>2. state'[d] = to
    BY <1>1, <1>11 DEF SerialInv
  <2>3. Fresh(w)'
    BY <1>2, <1>3, <1>4, <1>11, <2>2 DEF Fresh, Resumable, InProgress
  <2> QED BY <1>11, <2>1, <2>3 DEF Running
<1>12. ASSUME UNCHANGED state, run'[w].pc = "release", GiveUp(run[w].job),
              run'[w].mem \in Resumable \cup {"DEDUPLICATED"},
              \/ state[d] \in Resumable
              \/ run'[w].mem = run[w].mem /\ (state[d] = run[w].mem \/ state[d] \in FinalStates)
       PROVE  Running(w)' /\ Fresh(w)'
  <2>1. state[d] \in InProgress => d \in stranded'
    BY <1>1, <1>12 DEF GiveUp
  <2>2. state'[d] = state[d] /\ job'[run'[w].job].ds = d
    BY <1>3, <1>4, <1>12
  <2>3. \/ state[d] = run'[w].mem
        \/ run'[w].mem = "DEDUPLICATED" /\ state[d] \in FinalStates
        \/ state[d] \in Resumable
    BY <1>2, <1>12 DEF Fresh, Unrecorded, Resumable, FinalStates
  <2> HIDE DEF d
  <2> QED
    BY <1>12, <2>1, <2>2, <2>3 DEF Fresh, Running
<1>17. run[w].mem \in Resumable \cup {"DEDUPLICATED"} /\ state[d] \in Resumable \cup {"DEDUPLICATED"} \cup FinalStates
  BY <1>2 DEF Fresh, Unrecorded, Resumable
<1>13. CASE StopCancelled(w)
  <2>1. CASE run[w].mem \in DOMAIN CANCELLED_STATES
    <3>1. state' = [state EXCEPT ![d] = CANCELLED_STATES[run[w].mem]]
      BY <1>13, <2>1 DEF StopCancelled
    <3>2. run'[w].pc = "log_failed" /\ run'[w].mem = CANCELLED_STATES[run[w].mem]
      BY <1>13, <2>1 DEF StopCancelled, Remember, SerialInv
    <3>3. \/ state[d] = "ENCODING_IN_PROGRESS" /\ CANCELLED_STATES[run[w].mem] = "ENCODING_FAILED"
          \/ /\ state[d] = "DEDUPLICATION_IN_PROGRESS"
             /\ CANCELLED_STATES[run[w].mem] = "DEDUPLICATION_FAILED"
      BY <1>13, <1>15, <1>16, <2>1 DEF CANCELLED_STATES
    <3> QED BY <1>1, <1>3, <1>11, <1>13, <1>16, <3>1, <3>2, <3>3
  <2>2. CASE run[w].mem \notin DOMAIN CANCELLED_STATES
    <3>1. run[w].mem \notin InProgress
      BY <2>2 DEF InProgress, CANCELLED_STATES
    <3>2. UNCHANGED state /\ run'[w].pc = "log_failed" /\ run'[w].mem = run[w].mem
      BY <1>13, <2>2 DEF StopCancelled, Goto, SerialInv
    <3>3. Fresh(w)'
      BY <1>2, <1>3, <1>4, <1>13, <1>15, <1>16, <3>1, <3>2 DEF Fresh
    <3>4. Running(w)'
      BY <3>2 DEF Running
    <3> QED BY <1>1, <1>3, <1>13, <1>16, <3>2, <3>3, <3>4
  <2> QED BY <2>1, <2>2
<1>14. CASE Fail(w)
  <2> DEFINE target == FailedState(run[w].mem)
  <2>0. run[w].pc = "error"
    BY <1>14 DEF Fail
  <2>1. CASE Allowed(run[w].mem, target)
    <3>1. \/ state[d] = "ENCODING_IN_PROGRESS" /\ target = "ENCODING_FAILED"
          \/ state[d] = "DEDUPLICATION_IN_PROGRESS" /\ target = "DEDUPLICATION_FAILED"
          \/ /\ state[d] = "ENCODED" /\ target = "DEDUPLICATION_FAILED"
             /\ ~job[run[w].job].encode_only
      <4>1. \/ run[w].mem = "ENCODING_IN_PROGRESS" /\ target = "ENCODING_FAILED"
            \/ run[w].mem = "DEDUPLICATION_IN_PROGRESS" /\ target = "DEDUPLICATION_FAILED"
        BY <1>17, <2>1 DEF FailedState, Allowed, VALID_TRANSITIONS, Resumable
      <4> QED BY <1>2, <2>0, <4>1 DEF Fresh, Unrecorded
    <3>2. state' = [state EXCEPT ![d] = target] /\ Remember(w, target, "log_failed")
          /\ UNCHANGED stranded
      BY <1>14, <2>1 DEF Fail
    <3>3. run'[w].pc = "log_failed" /\ run'[w].mem = target
      BY <3>2 DEF Remember, SerialInv
    <3> HIDE DEF target
    <3> QED BY <1>1, <1>3, <1>11, <2>0, <3>1, <3>2, <3>3
  <2>2. CASE ~Allowed(run[w].mem, target)
    <3>2. UNCHANGED state /\ run'[w].pc = "release" /\ run'[w].mem = run[w].mem
          /\ GiveUp(run[w].job)
      BY <1>14, <2>2 DEF Fail, Goto, SerialInv
    <3>3. \/ state[d] \in Resumable
          \/ state[d] = run[w].mem \/ state[d] \in FinalStates
      BY <1>2, <2>0 DEF Fresh, Unrecorded, Resumable
    <3> QED BY <1>1, <1>3, <1>12, <1>17, <3>2, <3>3
  <2> QED BY <2>1, <2>2
<1>18. CASE WriteFails(w)
  <2>1. CASE /\ run[w].pc \in DOMAIN Writes /\ Allowed(run[w].mem, Writes[run[w].pc])
             /\ Remember(w, Writes[run[w].pc], "error") /\ UNCHANGED <<state, stranded>>
    <3>1. run'[w].pc = "error" /\ run'[w].mem = Writes[run[w].pc]
      BY <2>1 DEF Remember, SerialInv
    <3>2. run[w].pc \in {"encoded", "start_dedupe", "deduped"} /\ state[d] = run[w].mem
      <4>1. run[w].pc \in {"encoded", "start_dedupe", "deduped"}
        BY <2>1 DEF Writes
      <4>2. run[w].mem # "DEDUPLICATED"
        BY <1>2, <4>1 DEF Fresh
      <4> QED BY <1>15, <4>1, <4>2
    <3>3. \/ state[d] = "ENCODING_IN_PROGRESS" /\ run'[w].mem = "ENCODED"
          \/ /\ state[d] = "ENCODED" /\ run'[w].mem = "DEDUPLICATION_IN_PROGRESS"
             /\ ~job[run[w].job].encode_only
          \/ state[d] = "DEDUPLICATION_IN_PROGRESS" /\ run'[w].mem = "DEDUPLICATED"
      BY <1>2, <1>17, <2>1, <3>1, <3>2
      DEF Fresh, Writes, Allowed, VALID_TRANSITIONS, Resumable
    <3>4. Unrecorded(w)'
      BY <1>3, <1>4, <2>1, <3>3 DEF Unrecorded
    <3>5. Fresh(w)' /\ Running(w)'
      BY <1>3, <1>4, <1>15, <2>1, <3>1, <3>2, <3>3, <3>4 DEF Fresh, Resumable, Running
    <3> QED BY <1>1, <1>3, <2>1, <3>5
  <2>2. CASE /\ Remember(w, FailedState(run[w].mem), "release") /\ GiveUp(run[w].job)
             /\ run[w].pc = "error" /\ Allowed(run[w].mem, FailedState(run[w].mem))
             /\ UNCHANGED state
    <3>1. run'[w].pc = "release" /\ run'[w].mem = FailedState(run[w].mem)
      BY <2>2 DEF Remember, SerialInv
    <3>2. run'[w].mem \in Resumable
      BY <3>1 DEF FailedState, Resumable
    <3>3. state[d] \in Resumable
      BY <1>2, <1>17, <2>2
      DEF Fresh, Unrecorded, FailedState, Allowed, VALID_TRANSITIONS, Resumable
    <3> QED BY <1>1, <1>3, <1>12, <2>2, <3>1, <3>2, <3>3
  <2>3. CASE /\ Remember(w, CANCELLED_STATES[run[w].mem], "release") /\ GiveUp(run[w].job)
             /\ run[w].pc \in {"begin", "encode", "encoded", "dedupe"}
             /\ run[w].mem \in DOMAIN CANCELLED_STATES /\ UNCHANGED state
    <3>1. run'[w].pc = "release" /\ run'[w].mem = CANCELLED_STATES[run[w].mem]
      BY <2>3 DEF Remember, SerialInv
    <3>2. run'[w].mem \in Resumable /\ state[d] \in Resumable
      BY <1>15, <2>3, <3>1 DEF CANCELLED_STATES, Resumable
    <3> QED BY <1>1, <1>3, <1>12, <2>3, <3>1, <3>2
  <2> QED BY <1>18, <2>1, <2>2, <2>3 DEF WriteFails
<1> QED
  BY <1>8, <1>9, <1>10, <1>13, <1>14, <1>18 DEF StateStep

-----------------------------------------------------------------------------
\* A job that is live is there, and stays a run of the same kind for the same set.
LEMMA LiveJobs ==
  ASSUME Inv, [Next]_vars, NEW j \in Jobs, Live(j)
  PROVE  /\ job[j] # None /\ job[j].ds \in Sets
         /\ job'[j].ds = job[j].ds /\ job'[j].encode_only = job[j].encode_only
<1>1. job[j] # None
  BY DEF Live, Inv, Rows, RowsBut
<1> QED
  BY <1>1, JobsStay DEF Inv, Shape, TypeOK, JobRow

\* A step beside the runs leaves the states of live jobs alone, or judges findings.
Spared(d) ==
  state'[d] = state[d] \/ (state[d] = "DEDUPLICATED" /\ state'[d] \in FinalStates)

\* A step of somebody else does not make a run's memory stale.
LEMMA FreshKept ==
  ASSUME SerialInv, [Next]_vars, NEW w \in Workers, Running(w), run'[w] = run[w],
         Spared(job[run[w].job].ds), UNCHANGED stranded
  PROVE  Fresh(w)'
<1>1. Fresh(w) /\ Inv
  BY DEF SerialInv, RunsCurrent
<1>2. /\ job'[run[w].job].ds = job[run[w].job].ds
      /\ job'[run[w].job].encode_only = job[run[w].job].encode_only
  BY <1>1, RunningIsLive, LiveJobs DEF Inv, Lock
<1> QED
  BY <1>1, <1>2 DEF Fresh, Unrecorded, Spared, FinalStates, Resumable, InProgress

\* When neither messages nor runs change, only what is written to their sets matters.
LEMMA RunsKept ==
  ASSUME SerialInv, [Next]_vars, UNCHANGED <<run, msg>>,
         \A j \in Jobs : Live(j) => Spared(job[j].ds) /\ UNCHANGED stranded
  PROVE  RunsCurrent'
<1>0. Inv
  BY DEF SerialInv
<1>1. ASSUME NEW w \in Workers, Running(w)'
      PROVE  Fresh(w)'
  <2>1. Running(w) /\ run'[w] = run[w]
    BY <1>1 DEF Running
  <2>2. run[w].job \in Jobs /\ Live(run[w].job)
    BY <1>0, <2>1, RunningIsLive DEF Inv, Lock
  <2> QED BY <2>1, <2>2, FreshKept
<1>2. ASSUME NEW j \in Jobs, Waiting(j)'
      PROVE  state'[job'[j].ds] \in Resumable
  <2>1. Waiting(j) /\ Live(j)
    BY <1>2 DEF Waiting, Live
  <2>2. state[job[j].ds] \in Resumable
    BY <2>1 DEF SerialInv, RunsCurrent
  <2>3. state'[job[j].ds] = state[job[j].ds]
    BY <2>1, <2>2 DEF Spared, Resumable
  <2>4. job'[j].ds = job[j].ds
    BY <1>0, <2>1, LiveJobs
  <2> QED BY <2>2, <2>3, <2>4
<1> QED BY <1>1, <1>2 DEF RunsCurrent

\* When one run moves on, the others are not running, and no other job is live.
LEMMA OneRunMoves ==
  ASSUME SerialInv, [Next]_vars, UNCHANGED msg, NEW w \in Workers, Running(w),
         run'[w].job = run[w].job, \A v \in Workers \ {w} : run'[v] = run[v],
         Running(w)' => Fresh(w)'
  PROVE  RunsCurrent'
<1>0. Inv /\ Shape /\ Delivery /\ Exclusive
  BY DEF SerialInv, Inv, Lock
<1>1. run[w].job \in Jobs /\ Live(run[w].job)
  BY <1>0, RunningIsLive
<1>2. ASSUME NEW v \in Workers, Running(v)'
      PROVE  Fresh(v)'
  BY <1>0, <1>2, OnlyRun DEF OneRunPerGroup, Running
<1>3. ASSUME NEW j \in Jobs, Waiting(j)'
      PROVE  FALSE
  <2>1. j # run[w].job
    BY <1>3 DEF Waiting
  <2>2. msg[j] \in {"queued", "unacked"} /\ \A v \in Workers : run[v].job # j
    BY <1>3, <2>1 DEF Waiting, Live
  <2>3. Live(j)
    BY <2>2 DEF Live
  <2> QED BY <1>0, <1>1, <2>1, <2>3 DEF Exclusive, Carries
<1> QED BY <1>2, <1>3 DEF RunsCurrent

\* A step of a run leaves its memory current.
LEMMA WorkersCurrent ==
  ASSUME SerialInv, [Next]_vars, NEW w \in Workers, WorkerStep(w) \/ Raise(w) \/ WriteFails(w)
  PROVE  RunsCurrent'
<1> USE DEF Inv, Shape, TypeOK, RunShape
<1>0. UNCHANGED state /\ UNCHANGED job /\ Running(w) =>
        \A pc \in RunPc : Goto(w, pc) => /\ run'[w] = [run[w] EXCEPT !.pc = pc]
                                         /\ \A v \in Workers \ {w} : run'[v] = run[v]
                                         /\ run'[w].job = run[w].job /\ run'[w].mem = run[w].mem
                                         /\ run'[w].pc = pc
  BY DEF Goto, SerialInv
<1>1. CASE StateStep(w)
  <2>1. /\ Running(w) /\ Running(w)' /\ Fresh(w)' /\ UNCHANGED jobVars
        /\ run'[w].job = run[w].job /\ \A v \in Workers \ {w} : run'[v] = run[v]
    BY <1>1, RunWrites
  <2> QED BY <2>1, OneRunMoves DEF jobVars
<1>2. ASSUME UNCHANGED <<state, stranded, job, msg>>, Running(w), NEW pc \in RunPc, Goto(w, pc),
             \/ pc \in {"encode", "encoded", "deduped"} /\ run[w].pc \in {"begin", "encode", "dedupe"}
             \/ pc = "error" /\ run[w].pc \notin {"error", "release"}
             \/ run[w].pc \in {"log", "log_failed"} /\ pc = "release"
             \/ pc = "ack"
      PROVE  RunsCurrent'
  <2>1. Fresh(w)
    BY <1>2 DEF SerialInv, RunsCurrent
  <2>2. /\ run'[w].job = run[w].job /\ run'[w].mem = run[w].mem /\ run'[w].pc = pc
        /\ \A v \in Workers \ {w} : run'[v] = run[v]
    BY <1>0, <1>2
  <2>3. Running(w)' => Fresh(w)'
    BY <1>2, <2>1, <2>2 DEF Fresh, Running, FinalStates, InProgress
  <2> QED BY <1>2, <2>2, <2>3, OneRunMoves
<1>3. CASE Begin(w) \/ Encode(w) \/ Dedupe(w)
  <2>1. /\ \/ Goto(w, "encode") \/ Goto(w, "encoded") \/ Goto(w, "deduped")
        /\ run[w].pc \in {"begin", "encode", "dedupe"} /\ UNCHANGED <<state, stranded, job, msg>>
    BY <1>3 DEF Begin, Encode, Dedupe, setVars, jobVars
  <2>2. Running(w) /\ {"encode", "encoded", "deduped"} \subseteq RunPc
    BY <2>1 DEF Running, RunPc
  <2> QED BY <1>2, <2>1, <2>2
<1>4. CASE AppendLog(w)
  BY <1>2, <1>4 DEF AppendLog, Running, RunPc, jobVars
<1>5. CASE Raise(w)
  <2>1. \/ run[w].pc \notin {"error", "release"} /\ Goto(w, "error")
        \/ run[w].pc = "log_failed" /\ Goto(w, "release")
    BY <1>5 DEF Raise
  <2>2. run[w].pc \notin {"idle", "ack"} /\ UNCHANGED <<state, stranded, job, msg>>
    BY <1>5 DEF Raise, setVars, jobVars
  <2>3. Running(w) /\ {"error", "release"} \subseteq RunPc
    BY <2>2 DEF Running, RunPc
  <2> QED BY <1>2, <2>1, <2>2, <2>3
<1>6. CASE Release(w)
  BY <1>2, <1>6 DEF Release, Running, RunPc, setVars, jobVars
<1>7. CASE Ack(w)
  <2>1. /\ run[w].pc = "ack" /\ run' = [run EXCEPT ![w] = IdleRun] /\ UNCHANGED <<setVars, job>>
        /\ msg' = [msg EXCEPT ![run[w].job] = IF @ = "unacked" THEN "done" ELSE @]
    BY <1>7 DEF Ack
  <2>2. ASSUME NEW v \in Workers, Running(v)'
        PROVE  Fresh(v)'
    <3>1. v # w /\ run'[v] = run[v] /\ Running(v)
      BY <2>1, <2>2 DEF Running, IdleRun, SerialInv
    <3> QED BY <2>1, <3>1, FreshKept DEF setVars, Spared
  <2>3. ASSUME NEW j \in Jobs, Waiting(j)'
        PROVE  state'[job'[j].ds] \in Resumable
    <3>1. j # run[w].job /\ msg[j] = msg'[j]
      BY <2>1, <2>3 DEF Waiting, Live, SerialInv, Lock, Delivery
    <3>2. \A v \in Workers : run[v].job # j
      BY <2>1, <2>3, <3>1 DEF Waiting, SerialInv
    <3>3. Waiting(j)
      BY <2>3, <3>1, <3>2 DEF Waiting, Live
    <3> QED BY <2>1, <3>3 DEF setVars, SerialInv, RunsCurrent
  <2> QED BY <2>2, <2>3 DEF RunsCurrent
<1> QED
  BY <1>1, <1>3, <1>4, <1>5, <1>6, <1>7 DEF WorkerStep, StateStep

\* The broker gives a message to a worker, or back to the queue; a worker dies, or the
\* task ends without its finally block.
LEMMA BrokerCurrent ==
  ASSUME Serial, SerialInv, [Next]_vars,
         \/ \E w \in Workers :
              Deliver(w) \/ Crash(w) \/ LoadFails(w) \/ ReleaseFails(w) \/ Kill(w)
         \/ \E j \in Jobs : Redeliver(j) \/ RedeliverEarly(j)
  PROVE  RunsCurrent'
<1> USE DEF Inv, Shape, TypeOK, RunShape
<1>0. SerialInv /\ Inv
  BY DEF SerialInv
<1>1. ASSUME NEW w \in Workers, Deliver(w)
      PROVE  RunsCurrent'
  <2>1. PICK j \in Jobs :
          /\ msg[j] = "queued"
          /\ msg' = [msg EXCEPT ![j] = "unacked"]
          /\ run' = [run EXCEPT ![w] = [pc |-> "begin", job |-> j,
                                        mem |-> state[job[j].ds], log |-> log[job[j].ds]]]
          /\ stranded' = stranded \ {job[j].ds}
    BY <1>1 DEF Deliver
  <2>2. UNCHANGED <<state, job>> /\ run[w].pc = "idle"
    BY <1>1 DEF Deliver
  <2>3. \A v \in Workers : run[v].job # j
    <3>1. \A v \in Workers : run[v].pc # "idle" => msg[run[v].job] = "unacked"
      BY <1>0 DEF Lock, Delivery
    <3>2. \A v \in Workers : run[v].pc = "idle" => run[v].job = None
      BY <1>0
    <3>3. j # None
      BY <2>1, EngineAssumption DEF EngineAssumption
    <3> QED BY <2>1, <3>1, <3>2, <3>3
  <2>4. state[job[j].ds] \in Resumable
    BY <1>0, <2>1, <2>3 DEF RunsCurrent, SerialInv, Waiting, Live
  <2>5. ASSUME NEW v \in Workers, Running(v)'
        PROVE  Fresh(v)'
    <3>1. CASE v = w
      <4>1. run'[w].pc = "begin" /\ run'[w].job = j /\ run'[w].mem = state[job[j].ds]
        BY <2>1, <1>0
      <4> QED BY <2>1, <3>1, <4>1, <2>2, <2>4 DEF Fresh, Resumable
    <3>2. CASE v # w
      <4>1. run'[v] = run[v] /\ Running(v)
        BY <2>1, <2>5, <3>2, <1>0 DEF Running
      <4> QED BY <4>1, <2>1, <1>0, NoneRuns
    <3> QED BY <3>1, <3>2
  <2>6. ASSUME NEW i \in Jobs, Waiting(i)'
        PROVE  state'[job'[i].ds] \in Resumable
    <3>1. i # j
      <4>1. run'[w].job = j
        BY <2>1, <1>0
      <4> QED BY <2>6, <4>1 DEF Waiting
    <3>2. msg'[i] = msg[i]
      BY <2>1, <3>1, <1>0
    <3>3. \A v \in Workers : run[v].job # i
      <4>1. run[w].job = None
        BY <2>2, <1>0
      <4>2. \A v \in Workers \ {w} : run'[v] = run[v]
        BY <2>1, <1>0
      <4>3. i # None
        BY EngineAssumption DEF EngineAssumption
      <4>4. \A v \in Workers : run'[v].job # i
        BY <2>6 DEF Waiting
      <4> QED BY <4>1, <4>2, <4>3, <4>4
    <3>4. Waiting(i)
      BY <2>6, <3>2, <3>3 DEF Waiting, Live
    <3> QED BY <2>2, <3>4 DEF SerialInv, RunsCurrent
  <2> QED BY <2>5, <2>6 DEF RunsCurrent
<1>2. ASSUME NEW w \in Workers, Crash(w)
      PROVE  RunsCurrent'
  <2>1. /\ run[w].pc # "idle" /\ run' = [run EXCEPT ![w] = IdleRun]
        /\ UNCHANGED <<state, stranded, job, msg>>
    BY <1>2 DEF Crash, setVars, jobVars
  <2>2. run[w].pc # "ack" /\ run[w].mem # "DEDUPLICATED"
    BY <1>2, SerialFaults DEF Crash
  <2>3. Running(w) /\ Fresh(w)
    BY <2>1, <2>2 DEF Running, SerialInv, RunsCurrent
  <2>4. run[w].job \in Jobs /\ Live(run[w].job)
    BY <1>0, <2>3, RunningIsLive DEF Lock
  <2>5. state[job[run[w].job].ds] \in Resumable
    BY <2>2, <2>3 DEF Fresh, Unrecorded, Resumable
  <2>6. ASSUME NEW v \in Workers, Running(v)'
        PROVE  Fresh(v)'
    <3>1. v # w /\ run'[v] = run[v] /\ Running(v)
      BY <2>1, <2>6, <1>0 DEF Running, IdleRun
    <3> QED BY <2>1, <3>1, FreshKept DEF Spared
  <2>7. ASSUME NEW i \in Jobs, Waiting(i)'
        PROVE  state'[job'[i].ds] \in Resumable
    <3>1. CASE i = run[w].job
      BY <2>1, <2>5, <3>1
    <3>2. CASE i # run[w].job
      <4>1. \A v \in Workers : run[v].job # i
        BY <2>1, <2>7, <3>2, <1>0 DEF Waiting
      <4>2. Waiting(i)
        BY <2>1, <2>7, <4>1 DEF Waiting, Live
      <4> QED BY <2>1, <4>2 DEF SerialInv, RunsCurrent
    <3> QED BY <3>1, <3>2
  <2> QED BY <2>6, <2>7 DEF RunsCurrent
<1>3. ASSUME NEW j \in Jobs, Redeliver(j)
      PROVE  RunsCurrent'
  <2>1. /\ msg[j] = "unacked" /\ \A w \in Workers : run[w].job # j
        /\ msg' = [msg EXCEPT ![j] = "queued"] /\ UNCHANGED <<state, stranded, job, run>>
    BY <1>3 DEF Redeliver, setVars
  <2>2. ASSUME NEW v \in Workers, Running(v)'
        PROVE  Fresh(v)'
    <3>1. run'[v] = run[v] /\ Running(v)
      BY <2>1, <2>2 DEF Running
    <3> QED BY <2>1, <3>1, FreshKept DEF Spared
  <2>3. ASSUME NEW i \in Jobs, Waiting(i)'
        PROVE  state'[job'[i].ds] \in Resumable
    <3>1. Waiting(i)
      BY <2>1, <2>3, <1>0 DEF Waiting, Live
    <3> QED BY <2>1, <3>1 DEF SerialInv, RunsCurrent
  <2> QED BY <2>2, <2>3 DEF RunsCurrent
<1>4. ASSUME NEW j \in Jobs, RedeliverEarly(j)
      PROVE  FALSE
  BY <1>4, SerialFaults DEF RedeliverEarly
<1>5. ASSUME NEW w \in Workers, ReleaseFails(w) \/ Kill(w)
      PROVE  RunsCurrent'
  <2>1. /\ Running(w) /\ run' = [run EXCEPT ![w] = IdleRun]
        /\ msg' = [msg EXCEPT ![run[w].job] = IF @ = "unacked" THEN "lost" ELSE @]
        /\ UNCHANGED <<state, job>>
    BY <1>5 DEF ReleaseFails, Kill, Running, setVars
  <2>2. \A v \in Workers : ~Running(v)'
    BY <1>0, <2>1, OnlyRun DEF OneRunPerGroup, Running, IdleRun
  <2>3. run[w].job \in Jobs /\ msg[run[w].job] = "unacked"
    BY <1>0, <2>1 DEF Running, Lock, Delivery
  <2>4. ASSUME NEW i \in Jobs, Waiting(i)'
        PROVE  state'[job'[i].ds] \in Resumable
    <3>1. i # run[w].job
      BY <1>0, <2>1, <2>3, <2>4 DEF Waiting, Live
    <3>2. \A v \in Workers : run[v].job # i
      BY <1>0, <2>1, <2>4, <3>1 DEF Waiting
    <3>3. Waiting(i)
      BY <1>0, <2>1, <2>4, <3>1, <3>2 DEF Waiting, Live
    <3> QED BY <2>1, <3>3 DEF SerialInv, RunsCurrent
  <2> QED BY <2>2, <2>4 DEF RunsCurrent
<1>6. ASSUME NEW w \in Workers, LoadFails(w)
      PROVE  RunsCurrent'
  <2>1. PICK j \in Jobs : msg[j] = "queued" /\ msg' = [msg EXCEPT ![j] = "lost"]
    BY <1>6 DEF LoadFails
  <2>2. UNCHANGED <<state, job, run>>
    BY <1>6 DEF LoadFails
  <2>3. \A v \in Workers : ~Running(v)'
    BY <1>0, <2>1, <2>2, NoneRuns DEF Running
  <2>4. ASSUME NEW i \in Jobs, Waiting(i)'
        PROVE  state'[job'[i].ds] \in Resumable
    <3>1. Waiting(i)
      BY <1>0, <2>1, <2>2, <2>4 DEF Waiting, Live
    <3> QED BY <2>2, <3>1 DEF SerialInv, RunsCurrent
  <2> QED BY <2>3, <2>4 DEF RunsCurrent
<1> QED
  BY <1>1, <1>2, <1>3, <1>4, <1>5, <1>6

-----------------------------------------------------------------------------
\* While a request has the lock, or nobody has, no job is live.
LEMMA NoneLive ==
  ASSUME Inv, NEW j \in Jobs, Live(j)
  PROVE  locked /\ \A h \in Requests : ~Holds(h)
BY DEF Inv, Lock, Exclusive, Carries

\* Where the set of a live job may be.
LEMMA LiveStates ==
  ASSUME SerialInv, NEW j \in Jobs, Live(j)
  PROVE  state[job[j].ds] \in Resumable \cup {"DEDUPLICATED"} \cup FinalStates
<1>0. Inv /\ Shape /\ Delivery
  BY DEF SerialInv, Inv, Lock
<1>1. CASE Waiting(j)
  BY <1>1 DEF SerialInv, RunsCurrent
<1>2. CASE ~Waiting(j)
  <2>1. PICK w \in Workers : run[w].job = j
    BY <1>2 DEF Waiting
  <2>2. run[w].pc # "idle"
    BY <1>0, <2>1, EngineAssumption DEF Shape, RunShape, EngineAssumption
  <2>3. run[w].pc # "ack"
    BY <1>0, <2>1, <2>2 DEF Live, Delivery
  <2>4. Fresh(w)
    BY <2>2, <2>3 DEF Running, SerialInv, RunsCurrent
  <2> QED BY <2>1, <2>4 DEF Fresh, Unrecorded, Resumable
<1> QED BY <1>1, <1>2

\* What a request writes: it is what the lifecycle allows from the state the row has.
RequestMove(h) ==
  LET d == req[h].ds IN
  /\ d \in Sets
  /\ \E to \in State :
       /\ state' = [state EXCEPT ![d] = to]
       /\ \/ state[d] = "EMPTY" /\ to = "UPLOADING_IN_PROGRESS"
          \/ state[d] = "UPLOADING_IN_PROGRESS" /\ to = "READY"
          \/ state[d] = "DEDUPLICATED" /\ to \in FinalStates
          \/ req[h].pc = "config" /\ state[d] \in {"ENCODED", "DEDUPLICATED"} /\ to = "READY"
          \/ /\ Start(h) /\ Fits(d, "ENCODING_IN_PROGRESS")
             /\ state[d] \in PROCESSABLE_STATES /\ to = "ENCODING_IN_PROGRESS"

\* A request whose memory is current writes what its set may become.
LEMMA RequestWrites ==
  ASSUME SerialInv, NEW h \in Requests, RequestStep(h)
  PROVE  UNCHANGED state \/ RequestMove(h)
<1> DEFINE d == req[h].ds
<1>0. SeenCurrent(h) /\ RequestShape /\ TypeOK
  BY DEF SerialInv, Inv, Shape, RequestsCurrent
<1>1. CASE Upload(h)
  <2>1. req[h].pc = "upload" /\ d \in Sets /\ state[d] = req[h].seen
    BY <1>0, <1>1 DEF Upload, SeenCurrent, RequestShape
  <2>2. UNCHANGED state \/ (req[h].seen = "EMPTY"
                           /\ state' = [state EXCEPT ![d] = "UPLOADING_IN_PROGRESS"])
    BY <1>1 DEF Upload, SetState, setVars
  <2> QED BY <2>1, <2>2 DEF RequestMove, State
<1>2. CASE Ready(h)
  <2>1. req[h].pc = "ready" /\ d \in Sets /\ state[d] = "UPLOADING_IN_PROGRESS"
    BY <1>0, <1>2 DEF Ready, SeenCurrent, RequestShape, Admits
  <2>2. UNCHANGED state \/ state' = [state EXCEPT ![d] = "READY"]
    BY <1>2 DEF Ready, SetState
  <2> QED BY <2>1, <2>2 DEF RequestMove, State
<1>3. CASE Approve(h) \/ Reject(h)
  <2>1. req[h].pc \in {"approve", "reject"} /\ d \in Sets /\ state[d] = "DEDUPLICATED"
    BY <1>0, <1>3 DEF Approve, Reject, SeenCurrent, RequestShape, Admits
  <2>2. \/ UNCHANGED state
        \/ state' = [state EXCEPT ![d] = "APPROVED"]
        \/ state' = [state EXCEPT ![d] = "REJECTED"]
    BY <1>3 DEF Approve, Reject, SetState
  <2> QED BY <2>1, <2>2 DEF RequestMove, State, FinalStates
<1>4. CASE Clear(h)
  BY <1>0, <1>4 DEF Clear, SeenCurrent
<1>5. CASE Acquire(h) \/ Queue(h)
  BY <1>5 DEF Acquire, Queue, setVars
<1>6. CASE Start(h)
  <2>1. d \in Sets /\ state[d] \in PROCESSABLE_STATES
    BY <1>0, <1>6 DEF Start, SeenCurrent, RequestShape
  <2>2. \/ UNCHANGED state
        \/ /\ Fits(d, "ENCODING_IN_PROGRESS")
           /\ state' = [state EXCEPT ![d] = "ENCODING_IN_PROGRESS"]
    BY <1>6 DEF Start
  <2> QED BY <1>6, <2>1, <2>2 DEF RequestMove, State
<1>7. CASE ConfigCommit(h)
  <2>1. CASE req[h].ds # None
    <3>1. req[h].pc = "config" /\ d \in Sets /\ state[d] \in {"ENCODED", "DEDUPLICATED"}
      BY <1>0, <1>7, <2>1 DEF ConfigCommit, SeenCurrent, TypeOK
    <3>2. UNCHANGED state \/ state' = [state EXCEPT ![d] = "READY"]
      BY <1>7, <2>1 DEF ConfigCommit, SetState
    <3> QED BY <3>1, <3>2 DEF RequestMove, State
  <2>2. CASE req[h].ds = None
    BY <1>7, <2>2 DEF ConfigCommit, setVars
  <2> QED BY <2>1, <2>2
<1> QED
  BY <1>1, <1>2, <1>3, <1>4, <1>5, <1>6, <1>7 DEF RequestStep

\* A request does not write the set of a live job, except to judge it.
LEMMA RequestSpares ==
  ASSUME SerialInv, NEW h \in Requests, RequestStep(h), NEW j \in Jobs, Live(j)
  PROVE  Spared(job[j].ds)
<1>0. Inv /\ SeenCurrent(h)
  BY DEF SerialInv, RequestsCurrent
<1>1. state[job[j].ds] \in Resumable \cup {"DEDUPLICATED"} \cup FinalStates
  BY LiveStates
<1>2. req[h].pc # "config" /\ ~Start(h)
  BY <1>0, NoneLive DEF SeenCurrent, Start, Holds
<1>3. job[j].ds \in Sets
  BY <1>0 DEF Live, Inv, Rows, RowsBut, Shape, TypeOK, JobRow
<1>4. CASE RequestMove(h)
  <2>1. PICK to \in State :
          /\ state' = [state EXCEPT ![req[h].ds] = to]
          /\ \/ state[req[h].ds] \in {"EMPTY", "UPLOADING_IN_PROGRESS"}
             \/ state[req[h].ds] = "DEDUPLICATED" /\ to \in FinalStates
    BY <1>2, <1>4 DEF RequestMove
  <2>2. CASE req[h].ds = job[j].ds
    <3>1. state[req[h].ds] \notin {"EMPTY", "UPLOADING_IN_PROGRESS"}
      BY <1>1, <2>2 DEF Resumable, FinalStates
    <3>2. state'[job[j].ds] = to
      BY <1>0, <1>3, <2>1, <2>2 DEF Inv, Shape, TypeOK
    <3> QED BY <2>1, <2>2, <3>1, <3>2 DEF Spared
  <2>3. CASE req[h].ds # job[j].ds
    BY <1>0, <1>3, <2>1, <2>3 DEF Spared, Inv, Shape, TypeOK
  <2> QED BY <2>2, <2>3
<1>5. CASE UNCHANGED state
  BY <1>5 DEF Spared
<1> QED BY <1>4, <1>5, RequestWrites

\* Requests, clients and administrators leave the memory of the runs current.
LEMMA RunsCurrentStep ==
  ASSUME Serial, SerialInv, [Next]_vars
  PROVE  RunsCurrent'
<1>0. Inv /\ TypeOK /\ Delivery
  BY DEF SerialInv, Inv, Shape, Lock
<1>1. ASSUME NEW h \in Requests, RequestStep(h), ~Queue(h)
      PROVE  RunsCurrent'
  <2>1. UNCHANGED <<run, msg>>
    BY <1>1 DEF RequestStep, Upload, Ready, Approve, Reject, Clear, Acquire, Start,
       ConfigCommit, SetState, jobVars
  <2>2. \A j \in Jobs : Live(j) => Spared(job[j].ds)
    BY <1>1, RequestSpares
  <2>3. CASE UNCHANGED stranded
    BY <2>1, <2>2, <2>3, RunsKept
  <2>4. CASE Start(h)
    BY <1>0, <2>1, <2>4, NoneLive, RunsKept DEF Start, Holds
  <2>5. UNCHANGED stranded \/ Start(h)
    BY <1>1 DEF RequestStep, Upload, Ready, Approve, Reject, Clear, Acquire, ConfigCommit,
       SetState, setVars
  <2> QED BY <2>3, <2>4, <2>5
<1>2. ASSUME NEW h \in Requests, Queue(h)
      PROVE  RunsCurrent'
  <2>1. /\ req[h].pc = "queue" /\ msg' = [msg EXCEPT ![req[h].job] = "queued"]
        /\ UNCHANGED <<state, stranded, job, run>>
    BY <1>2 DEF Queue, setVars
  <2>2. SeenCurrent(h)
    BY DEF SerialInv, RequestsCurrent
  <2>3. state[job[req[h].job].ds] = "ENCODING_IN_PROGRESS"
    BY <1>0, <2>1, <2>2 DEF SeenCurrent, Delivery
  <2>4. ASSUME NEW w \in Workers, Running(w)'
        PROVE  Fresh(w)'
    <3>1. run'[w] = run[w] /\ Running(w)
      BY <2>1, <2>4 DEF Running
    <3> QED BY <2>1, <3>1, FreshKept DEF Spared
  <2>5. ASSUME NEW j \in Jobs, Waiting(j)'
        PROVE  state'[job'[j].ds] \in Resumable
    <3>1. CASE j = req[h].job
      BY <2>1, <2>3, <3>1 DEF Resumable
    <3>2. CASE j # req[h].job
      <4>1. msg'[j] = msg[j]
        BY <1>0, <2>1, <3>2 DEF TypeOK
      <4>2. Waiting(j)
        BY <2>1, <2>5, <4>1 DEF Waiting, Live
      <4> QED BY <2>1, <4>2 DEF SerialInv, RunsCurrent
    <3> QED BY <3>1, <3>2
  <2> QED BY <2>4, <2>5 DEF RunsCurrent
<1>3. ASSUME NEW h \in Requests,
             \/ \E endpoint \in DOMAIN Admits, d \in Sets : Receive(h, endpoint, d)
             \/ ConfigRead(h)
      PROVE  RunsCurrent'
  <2>1. UNCHANGED <<run, msg, state, stranded>>
    BY <1>3 DEF Receive, ConfigRead, setVars, jobVars
  <2> QED BY <2>1, RunsKept DEF Spared
<1>4. ASSUME NEW h \in Requests, LoseRequest(h)
      PROVE  FALSE
  BY <1>4, SerialFaults DEF LoseRequest
<1>5. ASSUME NEW d \in Sets, Create(d)
      PROVE  RunsCurrent'
  <2>1. /\ state[d] = None /\ state' = [state EXCEPT ![d] = "EMPTY"]
        /\ UNCHANGED <<run, msg, stranded>>
    BY <1>5 DEF Create, jobVars
  <2>2. ASSUME NEW j \in Jobs, Live(j)
        PROVE  Spared(job[j].ds)
    <3>1. state[job[j].ds] # None
      BY <1>0, <2>2 DEF Live, Inv, Rows, RowsBut
    <3> QED BY <1>0, <2>1, <3>1 DEF Spared, TypeOK
  <2> QED BY <2>1, <2>2, RunsKept
<1>6. CASE SoftDelete \/ UNCHANGED vars \/ \E j \in Jobs : Cancel(j)
  <2>1. UNCHANGED <<run, msg, state, stranded>>
    BY <1>6 DEF SoftDelete, Cancel, vars, setVars, jobVars
  <2> QED BY <2>1, RunsKept DEF Spared
<1> QED
  BY <1>1, <1>2, <1>3, <1>4, <1>5, <1>6, WorkersCurrent, BrokerCurrent DEF Next

-----------------------------------------------------------------------------
\* No step of others makes stale what a request saw.
LEMMA SeenStays ==
  ASSUME SerialInv, [Next]_vars, NEW h \in Requests, req'[h] = req[h],
         req[h].ds \in Sets => state'[req[h].ds] = state[req[h].ds] \/ req[h].pc = "idle",
         req[h].pc = "config" => UNCHANGED groupVars,
         req[h].pc = "process" => \A j \in Jobs : Live(j)' => Live(j)
  PROVE  SeenCurrent(h)'
<1>0. Inv /\ SeenCurrent(h) /\ TypeOK /\ RequestShape
  BY DEF SerialInv, RequestsCurrent, Inv, Shape
<1>1. req[h].pc = "process" => \A j \in Jobs : Live(j)' => job'[j].encode_only
  BY <1>0, LiveJobs DEF SeenCurrent
<1>2. req[h].ds # None => req[h].ds \in Sets
  BY <1>0 DEF TypeOK
<1>3. req[h].pc \in {"upload", "ready", "approve", "reject", "process", "start", "queue"} =>
        req[h].ds \in Sets /\ state'[req[h].ds] = state[req[h].ds]
  BY <1>0 DEF RequestShape
<1> QED
  BY <1>0, <1>1, <1>2, <1>3 DEF SeenCurrent, groupVars

\* A run does not move the set of a request that is being served.
LEMMA RunSpares ==
  ASSUME SerialInv, NEW w \in Workers, Running(w), RunMove(w),
         NEW h \in Requests, req[h].pc # "idle", req[h].ds \in Sets
  PROVE  state'[req[h].ds] = state[req[h].ds]
<1>0. Inv /\ SeenCurrent(h) /\ TypeOK /\ RequestShape
  BY DEF SerialInv, RequestsCurrent, Inv, Shape
<1>1. run[w].job \in Jobs /\ Live(run[w].job)
  BY <1>0, RunningIsLive DEF Inv, Lock
<1> DEFINE d == job[run[w].job].ds
<1>2. PICK to \in State :
        /\ state' = [state EXCEPT ![d] = to]
        /\ \/ state[d] \in InProgress
           \/ state[d] = "ENCODED" /\ ~job[run[w].job].encode_only
  BY DEF RunMove, InProgress
<1>3. CASE req[h].ds = d
  <2>1. req[h].pc \notin {"start", "queue", "config", "clear", "lost"}
    BY <1>0, <1>1, NoneLive DEF SeenCurrent, Holds
  <2>2. req[h].pc \in {"upload", "ready", "approve", "reject", "process"}
    BY <1>0, <2>1 DEF TypeOK, RequestPc
  <2>3. state[d] \in Admits[req[h].pc]
    BY <1>0, <1>3, <2>2 DEF SeenCurrent
  <2>4. CASE req[h].pc = "process"
    <3>1. job[run[w].job].encode_only
      BY <1>0, <1>1, <2>4 DEF SeenCurrent
    <3>2. state[d] \in PROCESSABLE_STATES
      BY <2>3, <2>4 DEF Admits
    <3> QED BY <1>2, <3>1, <3>2 DEF PROCESSABLE_STATES, InProgress
  <2>5. CASE req[h].pc # "process"
    <3>1. state[d] \in {"EMPTY", "UPLOADING_IN_PROGRESS", "DEDUPLICATED"}
      BY <2>2, <2>3, <2>5 DEF Admits
    <3> QED BY <1>2, <3>1 DEF InProgress
  <2> QED BY <2>4, <2>5
<1>4. CASE req[h].ds # d
  BY <1>0, <1>2, <1>4 DEF TypeOK
<1> QED BY <1>3, <1>4

\* Nobody but a request moves the set of a request.
LEMMA SeenSetStays ==
  ASSUME SerialInv, [Next]_vars, UNCHANGED req,
         NEW h \in Requests, req[h].pc # "idle", req[h].ds \in Sets
  PROVE  state'[req[h].ds] = state[req[h].ds]
<1>0. Inv /\ SeenCurrent(h) /\ TypeOK /\ RequestShape
  BY DEF SerialInv, RequestsCurrent, Inv, Shape
<1>1. ASSUME NEW d \in Sets, Create(d)
      PROVE  state'[req[h].ds] = state[req[h].ds]
  <2>1. state[req[h].ds] # None
    BY <1>0, EngineAssumption DEF SeenCurrent, TypeOK, RequestPc, RequestShape, EngineAssumption, State
  <2> QED BY <1>0, <1>1, <2>1 DEF Create, TypeOK
<1>2. ASSUME NEW g \in Requests, RequestStep(g)
      PROVE  FALSE
  BY <1>0, <1>2 DEF RequestStep, Upload, Ready, Approve, Reject, Clear, Acquire, Start, Queue,
     ConfigCommit, SetState, Reply, IdleRequest, TypeOK
<1>3. ASSUME NEW w \in Workers, StateStep(w)
      PROVE  state'[req[h].ds] = state[req[h].ds]
  BY <1>3, RunWrites, RunSpares
<1> QED
  BY <1>1, <1>2, <1>3, StateChanges DEF StateStep

\* With the same requests, no job becomes live.
LEMMA NoNewRun ==
  ASSUME Serial, SerialInv, [Next]_vars, UNCHANGED req, NEW j \in Jobs, Live(j)'
  PROVE  Live(j)
<1>1. Moved
  BY Moves, SerialDelivers DEF SerialInv, Inv, Rows, Lock
<1>2. Carries(j)
  BY <1>1 DEF Moved, Stays, JobsKeep, Taken, Returned, Passed, Released, Holds, Carries
<1>3. LostJob(j) => LostJob(j)'
  BY LostStays, InvLocated DEF SerialInv
<1> QED
  BY <1>2, <1>3 DEF Carries, LostJob, Live

\* The group's row is left alone while a settings change holds it.
LEMMA ConfigHoldsRow ==
  ASSUME TypeOK, [Next]_vars, UNCHANGED req, NEW h \in Requests, req[h].pc = "config"
  PROVE  UNCHANGED groupVars
<1>0. ~RowFree
  BY DEF RowFree
<1>1. ASSUME NEW g \in Requests,
             \/ \E endpoint \in DOMAIN Admits, d \in Sets : Receive(g, endpoint, d)
             \/ ConfigRead(g)
      PROVE  UNCHANGED groupVars
  BY <1>1 DEF Receive, ConfigRead
<1>2. ASSUME NEW g \in Requests, RequestStep(g)
      PROVE  UNCHANGED groupVars
  <2>1. CASE Start(g)
    <3>1. \/ req' = [req EXCEPT ![g] = IdleRequest]
          \/ \E j \in Jobs : req' = [req EXCEPT ![g] =
               [pc |-> "queue", ds |-> req[g].ds, seen |-> req[g].seen, job |-> j]]
      BY <2>1 DEF Start, Reply, FreeJobs
    <3>2. req'[g].pc # req[g].pc
      BY <2>1, <3>1 DEF Start, IdleRequest, TypeOK
    <3> QED
      BY <3>2
  <2> QED
    BY <1>0, <1>2, <2>1 DEF RequestStep, Upload, Ready, Approve, Reject, Clear, Acquire, Queue,
       ConfigCommit, SetState
<1>3. ASSUME NEW w \in Workers,
             \/ WorkerStep(w) \/ Deliver(w) \/ Raise(w) \/ Crash(w)
             \/ LoadFails(w) \/ WriteFails(w) \/ ReleaseFails(w) \/ Kill(w)
      PROVE  UNCHANGED groupVars
  BY <1>0, <1>3 DEF WorkerStep, Begin, Encode, SetEncoded, StartDedupe, Dedupe, SetDeduplicated,
              AppendLog, StopCancelled, Fail, Release, Ack, Advance, Deliver, Raise, Crash,
              LoadFails, WriteFails, ReleaseFails, Kill
<1>4. ASSUME \/ \E d \in Sets : Create(d)
             \/ \E j \in Jobs : Cancel(j) \/ Redeliver(j) \/ RedeliverEarly(j)
             \/ SoftDelete \/ \E g \in Requests : LoseRequest(g)
      PROVE  UNCHANGED groupVars
  BY <1>0, <1>4 DEF Create, Cancel, Redeliver, RedeliverEarly, SoftDelete, LoseRequest
<1>5. CASE UNCHANGED vars
  BY <1>5 DEF vars, groupVars
<1> QED
  BY <1>1, <1>2, <1>3, <1>4, <1>5 DEF Next

\* What requests saw stays so.
LEMMA RequestsCurrentStep ==
  ASSUME Serial, SerialInv, [Next /\ Patience]_vars
  PROVE  RequestsCurrent'
<1>0. Inv /\ TypeOK /\ RequestShape /\ Delivery /\ [Next]_vars
  BY DEF SerialInv, Inv, Shape, Lock
<1>1. CASE UNCHANGED req
  <2> SUFFICES ASSUME NEW h \in Requests
               PROVE  SeenCurrent(h)'
    BY DEF RequestsCurrent
  <2>1. req'[h] = req[h]
    BY <1>1
  <2>2. req[h].ds \in Sets => state'[req[h].ds] = state[req[h].ds] \/ req[h].pc = "idle"
    BY <1>0, <1>1, SeenSetStays
  <2>3. req[h].pc = "config" => UNCHANGED groupVars
    BY <1>0, <1>1, ConfigHoldsRow
  <2>4. \A j \in Jobs : Live(j)' => Live(j)
    BY <1>0, <1>1, NoNewRun
  <2> QED BY <1>0, <2>1, <2>2, <2>3, <2>4, SeenStays
<1>2. ASSUME NEW h \in Requests, SeenCurrent(h)'
      PROVE  RequestsCurrent'
  BY <1>2 DEF Serial, RequestsCurrent
<1>3. ASSUME NEW h \in Requests, req'[h] = IdleRequest
      PROVE  RequestsCurrent'
  <2>1. SeenCurrent(h)'
    BY <1>3 DEF SeenCurrent, IdleRequest
  <2> QED BY <1>2, <2>1
<1>4. ASSUME NEW h \in Requests, NEW endpoint \in DOMAIN Admits, NEW d \in Sets,
             Next /\ Patience, Receive(h, endpoint, d)
      PROVE  RequestsCurrent'
  <2>1. /\ endpoint \in Endpoints /\ state[d] \in Admits[endpoint]
        /\ req'[h] = [pc |-> endpoint, ds |-> d, seen |-> state[d], job |-> None]
        /\ req[h].pc = "idle" /\ UNCHANGED <<state, job, msg, run>>
    BY <1>0, <1>4 DEF Receive, setVars, jobVars, TypeOK
  <2>2. endpoint \in {"upload", "ready", "process", "approve", "reject"}
    BY <2>1 DEF Admits, Serial
  <2>3. req'[h].pc = endpoint /\ req'[h].ds = d /\ req'[h].seen = state[d]
    BY <2>1
  <2>4. endpoint = "process" => \A j \in Jobs : Live(j) => job[j].encode_only
    BY <1>4, <2>1, <2>3 DEF Patience
  <2>5. \A j \in Jobs : Live(j)' <=> Live(j)
    BY <2>1 DEF Live
  <2>6. SeenCurrent(h)'
    BY <2>1, <2>2, <2>3, <2>4, <2>5 DEF SeenCurrent
  <2> QED BY <1>2, <2>6
<1>5. ASSUME NEW h \in Requests, ConfigRead(h)
      PROVE  RequestsCurrent'
  <2>1. ~deleted /\ ~locked /\ UNCHANGED <<state, groupVars>>
    BY <1>5 DEF ConfigRead, setVars
  <2>2. \/ req'[h] = [IdleRequest EXCEPT !.pc = "config"]
        \/ \E d \in Sets :
             /\ state[d] \in {"ENCODED", "DEDUPLICATED"}
             /\ req'[h] = [pc |-> "config", ds |-> d, seen |-> state[d], job |-> None]
    BY <1>0, <1>5 DEF ConfigRead, TypeOK
  <2>3. SeenCurrent(h)'
    <3>1. CASE req'[h] = [IdleRequest EXCEPT !.pc = "config"]
      <4>1. req'[h].pc = "config" /\ req'[h].ds = None
        BY <3>1 DEF IdleRequest
      <4> QED BY <2>1, <4>1 DEF SeenCurrent, groupVars
    <3>2. ASSUME NEW d \in Sets, state[d] \in {"ENCODED", "DEDUPLICATED"},
                 req'[h] = [pc |-> "config", ds |-> d, seen |-> state[d], job |-> None]
          PROVE  SeenCurrent(h)'
      <4>1. req'[h].pc = "config" /\ req'[h].ds = d /\ req'[h].seen = state[d]
        BY <3>2
      <4> QED BY <2>1, <3>2, <4>1 DEF SeenCurrent, groupVars
    <3> QED BY <2>2, <3>1, <3>2
  <2> QED BY <1>2, <2>3
<1>6. ASSUME NEW h \in Requests, RequestStep(h)
      PROVE  RequestsCurrent'
  <2>0. SeenCurrent(h)
    BY DEF SerialInv, RequestsCurrent
  <2>1. CASE Upload(h) \/ Ready(h) \/ Approve(h) \/ Reject(h) \/ Clear(h) \/ Queue(h) \/ ConfigCommit(h)
    <3>1. req'[h] = IdleRequest
      BY <1>0, <2>1 DEF Upload, Ready, Approve, Reject, Clear, Queue, ConfigCommit, SetState, Reply, TypeOK
    <3> QED BY <1>3, <3>1
  <2>2. CASE Acquire(h)
    <3>1. CASE req' = [req EXCEPT ![h].pc = "start"]
      <4>1. req'[h].pc = "start" /\ req'[h].ds = req[h].ds /\ req'[h].seen = req[h].seen
        BY <1>0, <3>1 DEF TypeOK
      <4>2. req[h].pc = "process" /\ UNCHANGED state
        BY <2>2 DEF Acquire, setVars
      <4>3. SeenCurrent(h)'
        BY <2>0, <4>1, <4>2 DEF SeenCurrent, Admits
      <4> QED BY <1>2, <4>3
    <3>2. CASE Reply(h)
      BY <1>0, <1>3, <3>2 DEF Reply, TypeOK
    <3> QED BY <2>2, <3>1, <3>2 DEF Acquire
  <2>3. CASE Start(h)
    <3>1. CASE Reply(h)
      BY <1>0, <1>3, <3>1 DEF Reply, TypeOK
    <3>2. ASSUME state' = [state EXCEPT ![req[h].ds] = "ENCODING_IN_PROGRESS"], NEW j \in Jobs,
                 req' = [req EXCEPT ![h] =
                           [pc |-> "queue", ds |-> req[h].ds, seen |-> req[h].seen, job |-> j]]
          PROVE  RequestsCurrent'
      <4>1. req[h].ds \in Sets
        BY <1>0, <2>3 DEF Start, RequestShape
      <4>2. req'[h].pc = "queue" /\ req'[h].ds = req[h].ds
        BY <1>0, <3>2 DEF TypeOK
      <4>3. state'[req[h].ds] = "ENCODING_IN_PROGRESS"
        BY <1>0, <3>2, <4>1 DEF TypeOK
      <4>4. SeenCurrent(h)'
        BY <4>2, <4>3 DEF SeenCurrent
      <4> QED BY <1>2, <4>4
    <3> QED BY <2>3, <3>1, <3>2 DEF Start, FreeJobs
  <2> QED BY <1>6, <2>1, <2>2, <2>3 DEF RequestStep
<1>7. ASSUME NEW h \in Requests, LoseRequest(h)
      PROVE  FALSE
  BY <1>7, SerialFaults DEF LoseRequest
<1>8. \/ UNCHANGED req
      \/ \E h \in Requests :
           \/ Next /\ Patience /\ \E endpoint \in DOMAIN Admits, d \in Sets : Receive(h, endpoint, d)
           \/ ConfigRead(h) \/ RequestStep(h) \/ LoseRequest(h)
  BY DEF Next, vars, Create, SoftDelete, Cancel, Redeliver, RedeliverEarly, Deliver, WorkerStep,
     Raise, Crash, Begin, Encode, SetEncoded, StartDedupe, Dedupe, SetDeduplicated, AppendLog,
     StopCancelled, Fail, Release, Ack, Advance, LoadFails, WriteFails, ReleaseFails, Kill
<1> QED
  BY <1>1, <1>4, <1>5, <1>6, <1>7, <1>8

-----------------------------------------------------------------------------
\* The invariant of the waiting client, for every value of the constants.
THEOREM SerialInvariance ==
  ASSUME Serial
  PROVE  PatientSpec => []SerialInv
<1>1. Spec => []Inv
  BY Invariance, SerialDelivers
<1>2. PatientSpec => Spec
  <2>1. [Next /\ Patience]_vars => [Next]_vars
    OBVIOUS
  <2> QED BY <2>1, PTL DEF PatientSpec, Spec
<1>3. Init => Slot /\ RequestsCurrent /\ RunsCurrent
  <2> SUFFICES ASSUME Init PROVE Slot /\ RequestsCurrent /\ RunsCurrent
    OBVIOUS
  <2>1. Slot
    BY EngineAssumption DEF EngineAssumption, Init, Slot, BLOCKING_STATES
  <2>2. RequestsCurrent
    BY DEF Init, IdleRequest, RequestsCurrent, SeenCurrent
  <2>3. RunsCurrent
    BY DEF Init, IdleRun, RunsCurrent, Waiting, Live, Running
  <2> QED BY <2>1, <2>2, <2>3
<1>4. Inv /\ Slot /\ RequestsCurrent /\ RunsCurrent /\ [Next /\ Patience]_vars
        => (Slot /\ RequestsCurrent /\ RunsCurrent)'
  <2> SUFFICES ASSUME SerialInv, [Next /\ Patience]_vars
               PROVE  Slot' /\ RequestsCurrent' /\ RunsCurrent'
    BY DEF SerialInv
  <2>1. [Next]_vars
    OBVIOUS
  <2>2. Slot'
    BY <2>1, SlotStep, InvLocated DEF SerialInv
  <2> QED BY <2>1, <2>2, RequestsCurrentStep, RunsCurrentStep
<1> QED
  BY <1>1, <1>2, <1>3, <1>4, PTL DEF PatientSpec, SerialInv

\* The copy of the state a run decides by is the state of the row, or the row was judged
\* after the findings were complete, or a write of the run raised.
THEOREM MemoryIsFreshHolds ==
  ASSUME Serial
  PROVE  PatientSpec => []MemoryIsFresh
<1>1. SerialInv => MemoryIsFresh
  <2> SUFFICES ASSUME SerialInv, NEW w \in Workers, run[w].pc \notin {"idle", "release", "ack"}
               PROVE  LET d == job[run[w].job].ds IN
                      \/ state[d] = run[w].mem
                      \/ run[w].mem = "DEDUPLICATED" /\ state[d] \in FinalStates
                      \/ run[w].pc = "error" /\ state[d] # None /\ Allowed(state[d], run[w].mem)
    BY DEF MemoryIsFresh
  <2>1. Fresh(w)
    BY DEF SerialInv, RunsCurrent, Running
  <2>2. Unrecorded(w) => /\ state[job[run[w].job].ds] # None
                         /\ Allowed(state[job[run[w].job].ds], run[w].mem)
    BY EngineAssumption DEF Unrecorded, EngineAssumption, State, Allowed, VALID_TRANSITIONS
  <2> QED
    BY <2>1, <2>2 DEF Fresh
<1> QED
  BY <1>1, SerialInvariance, PTL

-----------------------------------------------------------------------------
(***************************************************************************)
(* The abstract run: the set of the job that was created and whose lock is *)
(* not released yet.                                                       *)
(***************************************************************************)
\* While a job is live it is the current one.
LEMMA CurrentOfLive ==
  ASSUME Inv, NEW j \in Jobs, Live(j)
  PROVE  CurrentSet = job[j].ds
<1>1. CurrentJobs = {j}
  BY DEF CurrentJobs, Inv, Lock, Exclusive, Carries, Holds
<1> QED
  BY <1>1 DEF CurrentSet

\* Without a lock, and before the job is created, there is none.
LEMMA CurrentOfNobody ==
  ASSUME Inv, ~locked \/ \E h \in Requests : req[h].pc = "start"
  PROVE  CurrentJobs = {} /\ CurrentSet = None
<1>1. CurrentJobs = {}
  <2>1. \A j \in Jobs : ~Live(j) /\ ~LostJob(j)
    BY DEF Inv, Lock, Exclusive, Carries, Holds
  <2>2. \A h \in Requests : req[h].pc # "queue"
    BY DEF Inv, Lock, Exclusive, Holds
  <2> QED BY <2>1, <2>2 DEF CurrentJobs
<1> QED
  BY <1>1 DEF CurrentSet

\* The same jobs are the same run.
LEMMA CurrentKept ==
  ASSUME Inv, [Next]_vars, CurrentJobs' = CurrentJobs
  PROVE  CurrentSet' = CurrentSet
<1>1. CASE CurrentJobs = {}
  BY <1>1 DEF CurrentSet
<1>2. CASE CurrentJobs # {}
  <2> DEFINE j == CHOOSE j \in CurrentJobs : TRUE
  <2>1. j \in CurrentJobs
    BY <1>2
  <2>2. j \in Jobs /\ job[j] # None
    BY <2>1 DEF CurrentJobs, Live, LostJob, Inv, Shape, RequestShape, Rows, RowsBut
  <2>3. job'[j].ds = job[j].ds
    BY <2>2, JobsStay DEF Inv
  <2> QED BY <1>2, <2>3 DEF CurrentSet
<1> QED BY <1>1, <1>2

\* A step that touches neither the messages nor a job that is about to be queued.
LEMMA CurrentBeside ==
  ASSUME Inv, [Next]_vars, UNCHANGED <<msg, run>>,
         \A h \in Requests : req[h].pc = "queue" \/ req'[h].pc = "queue" => req'[h] = req[h]
  PROVE  CurrentSet' = CurrentSet
<1>1. CurrentJobs' = CurrentJobs
  BY DEF CurrentJobs, LostJob, Live
<1> QED BY <1>1, CurrentKept

\* A step of the broker or a run that keeps the lock.
LEMMA CurrentLocked ==
  ASSUME Serial, Inv, [Next]_vars, UNCHANGED <<req, locked>>
  PROVE  CurrentSet' = CurrentSet
<1>1. Moved
  BY Moves, SerialDelivers DEF Inv, Rows, Lock
<1>2. JobsKeep
  BY <1>1 DEF Moved, Stays, Taken, Returned, Passed, Released, Holds, Inv, Lock, Exclusive
<1>3. CurrentJobs' = CurrentJobs
  BY <1>2 DEF CurrentJobs, JobsKeep, Carries
<1> QED BY <1>3, CurrentKept

\* The tables of the lifecycle are those of the engine.
LEMMA SameTables ==
  /\ Lifecycle!VALID_TRANSITIONS = VALID_TRANSITIONS
  /\ Lifecycle!PROCESSABLE_STATES = PROCESSABLE_STATES
  /\ Lifecycle!BLOCKING_STATES = BLOCKING_STATES
  /\ Lifecycle!FinalStates = FinalStates
  /\ Lifecycle!InProgress = InProgress
BY DEF Lifecycle!VALID_TRANSITIONS, VALID_TRANSITIONS, Lifecycle!PROCESSABLE_STATES,
   PROCESSABLE_STATES, Lifecycle!BLOCKING_STATES, BLOCKING_STATES, Lifecycle!FinalStates,
   FinalStates, Lifecycle!InProgress, InProgress, Lifecycle!State, State

\* The engine starts where the lifecycle does.
LEMMA InitImplements == Init => Lifecycle!Init
<1> SUFFICES ASSUME Init PROVE Lifecycle!Init
  OBVIOUS
<1>1. CurrentJobs = {}
  BY DEF Init, IdleRequest, CurrentJobs, LostJob, Live
<1> QED
  BY <1>1 DEF Init, Lifecycle!Init, CurrentSet

\* A run that is given up is that of the lifecycle, unless its set is past the run.
LEMMA GiveUpImplements ==
  ASSUME Inv, NEW j \in Jobs, Live(j), GiveUp(j),
         UNCHANGED <<state, deleted, CurrentSet>>
  PROVE  Lifecycle!Next \/ UNCHANGED Lifecycle!vars
<1> DEFINE d == job[j].ds
<1>1. CurrentSet = d
  BY CurrentOfLive
<1>2. d \in Sets
  BY DEF Live, Inv, Rows, RowsBut, Shape, TypeOK, JobRow
<1>3. d # None
  BY <1>2, EngineAssumption DEF EngineAssumption
<1>4. CASE state[d] \in InProgress
  <2>1. stranded' = stranded \cup {d}
    BY <1>2, <1>4 DEF GiveUp
  <2> HIDE DEF d
  <2> QED BY <1>1, <1>3, <1>4, <2>1, SameTables DEF Lifecycle!Next, Lifecycle!GiveUp
<1>5. CASE state[d] \notin InProgress
  <2>1. stranded' = stranded
    BY <1>5 DEF GiveUp
  <2> QED BY <2>1 DEF Lifecycle!vars
<1> QED BY <1>4, <1>5

\* A state the run of the group writes is a step of find_duplicates.
LEMMA RunImplements ==
  ASSUME Serial, SerialInv, [Next]_vars, NEW w \in Workers, StateStep(w)
  PROVE  Lifecycle!Next \/ UNCHANGED Lifecycle!vars
<1> DEFINE d == job[run[w].job].ds
<1>0. Inv
  BY DEF SerialInv
<1>1. /\ \/ UNCHANGED state /\ (UNCHANGED stranded \/ GiveUp(run[w].job))
         \/ RunMove(w) /\ UNCHANGED stranded /\ run[w].pc # "release"
      /\ Running(w) /\ UNCHANGED <<req, locked, deleted>>
  BY RunWrites DEF groupVars
<1>2. CurrentSet' = CurrentSet
  BY <1>0, <1>1, CurrentLocked
<1>3. run[w].job \in Jobs /\ d \in Sets /\ Live(run[w].job) /\ CurrentSet = d
  BY <1>0, <1>1, RunSet, InvLocated, CurrentOfLive
<1>4. CASE RunMove(w) /\ UNCHANGED stranded /\ run[w].pc # "release"
  <2>1. PICK to \in State :
          /\ state' = [state EXCEPT ![d] = to]
          /\ \/ state[d] = "ENCODING_IN_PROGRESS" /\ to \in {"ENCODED", "ENCODING_FAILED"}
             \/ state[d] = "ENCODED" /\ to \in {"DEDUPLICATION_IN_PROGRESS", "DEDUPLICATION_FAILED"}
             \/ /\ state[d] = "DEDUPLICATION_IN_PROGRESS"
                /\ to \in {"DEDUPLICATED", "DEDUPLICATION_FAILED"}
    BY <1>4 DEF RunMove
  <2>3. d \notin stranded
    BY <1>1, <1>4 DEF SerialInv, RunsCurrent, Fresh
  <2> HIDE DEF d
  <2>4. CASE state[d] = "ENCODED" /\ to = "DEDUPLICATION_FAILED"
    BY <1>1, <1>2, <1>3, <1>4, <2>1, <2>4 DEF Lifecycle!Next, Lifecycle!FailUnrecorded
  <2>5. CASE ~(state[d] = "ENCODED" /\ to = "DEDUPLICATION_FAILED")
    <3>1. to \in VALID_TRANSITIONS[state[d]]
      BY <2>1, <2>5 DEF VALID_TRANSITIONS
    <3>2. Lifecycle!RunStep(d)
      BY <1>1, <1>2, <1>3, <1>4, <2>1, <2>3, <2>5, <3>1, SameTables
         DEF Lifecycle!RunStep, Lifecycle!Move
    <3> QED BY <1>3, <3>2 DEF Lifecycle!Next
  <2> QED BY <2>4, <2>5
<1>5. CASE UNCHANGED <<state, stranded>>
  BY <1>1, <1>2, <1>5 DEF Lifecycle!vars
<1>6. CASE UNCHANGED state /\ GiveUp(run[w].job)
  BY <1>0, <1>1, <1>2, <1>3, <1>6, GiveUpImplements
<1> QED BY <1>1, <1>4, <1>5, <1>6

\* What a request writes is a registration, a judgement, a reset, or the start of a run.
LEMMA RequestImplements ==
  ASSUME Serial, SerialInv, Inv', [Next]_vars, NEW h \in Requests, RequestStep(h)
  PROVE  Lifecycle!Next \/ UNCHANGED Lifecycle!vars
<1> DEFINE d == req[h].ds
<1>0. Inv /\ TypeOK /\ RequestShape /\ SeenCurrent(h)
  BY DEF SerialInv, RequestsCurrent, Inv, Shape
<1>1. \A g \in Requests : g = h
  BY DEF Serial
<1>2. UNCHANGED deleted /\ UNCHANGED run
  BY DEF RequestStep, Upload, Ready, Approve, Reject, Clear, Acquire, Start, Queue, ConfigCommit,
     SetState, groupVars
<1>3. CASE Start(h) /\ Fits(d, "ENCODING_IN_PROGRESS")
  <2>1. d \in Sets /\ state[d] = req[h].seen /\ state[d] \in PROCESSABLE_STATES /\ req[h].pc = "start"
    BY <1>0, <1>3 DEF Start, SeenCurrent, RequestShape
  <2>2. Allowed(req[h].seen, "ENCODING_IN_PROGRESS")
    BY <2>1 DEF Allowed, PROCESSABLE_STATES, VALID_TRANSITIONS
  <2>3. PICK j \in Jobs, encode_only \in BOOLEAN :
          /\ state' = [state EXCEPT ![d] = "ENCODING_IN_PROGRESS"]
          /\ job' = [job EXCEPT ![j] = [ds |-> d, encode_only |-> encode_only, cancel |-> FALSE]]
          /\ req' = [req EXCEPT ![h] = [pc |-> "queue", ds |-> d, seen |-> req[h].seen, job |-> j]]
          /\ stranded' = stranded \ {d}
    BY <1>3, <2>2 DEF Start, FreeJobs
  <2>4. req'[h].pc = "queue" /\ req'[h].job = j /\ job'[j].ds = d
    BY <1>0, <2>3 DEF TypeOK
  <2>5. \A i \in Jobs : ~Live(i)' /\ ~LostJob(i)'
    BY <2>4 DEF Inv, Lock, Exclusive, Carries, Holds
  <2>6. CurrentJobs' = {j}
    BY <1>1, <2>4, <2>5 DEF CurrentJobs
  <2>7. CurrentSet' = d
    BY <2>4, <2>6 DEF CurrentSet
  <2>8. CurrentSet = None /\ ~deleted
    BY <1>0, <2>1, CurrentOfNobody DEF Inv, Lock, Exclusive, Holds, Quiet
  <2>9. \A e \in Sets \ {d} : state[e] \notin BLOCKING_STATES
    BY <1>3 DEF Fits, BLOCKING_STATES, State
  <2>10. "ENCODING_IN_PROGRESS" \in VALID_TRANSITIONS[state[d]]
    BY <2>1, <2>2 DEF Allowed
  <2> HIDE DEF d
  <2>11. Lifecycle!StartRun(d)
    BY <1>2, <2>1, <2>3, <2>7, <2>8, <2>9, <2>10, SameTables DEF Lifecycle!StartRun, Lifecycle!Move
  <2> QED BY <2>1, <2>11 DEF Lifecycle!Next
<1>4. CASE Queue(h)
  <2>1. /\ req[h].pc = "queue" /\ msg' = [msg EXCEPT ![req[h].job] = "queued"]
        /\ req' = [req EXCEPT ![h] = IdleRequest] /\ UNCHANGED <<state, stranded, deleted, job>>
    BY <1>4 DEF Queue, Reply, setVars, groupVars
  <2>2. PICK j \in Jobs : j = req[h].job
    BY <1>0, <2>1 DEF RequestShape
  <2>3. CurrentJobs' = {j}
    <3>1. msg'[j] = "queued"
      BY <1>0, <2>1, <2>2 DEF TypeOK
    <3>2. Live(j)'
      BY <3>1 DEF Live
    <3>3. req'[h].pc = "idle"
      BY <1>0, <2>1 DEF TypeOK, IdleRequest
    <3>4. {g \in Requests : req'[g].pc = "queue"} = {}
      BY <1>1, <3>3
    <3>5. \A i \in Jobs : Live(i)' \/ LostJob(i)' => i = j
      BY <3>2 DEF Inv, Lock, Exclusive, Carries
    <3>6. {i \in Jobs : Live(i)' \/ LostJob(i)'} = {j}
      BY <2>2, <3>2, <3>5
    <3> QED BY <3>4, <3>6 DEF CurrentJobs
  <2>4. CurrentJobs = {j}
    BY <1>0, <1>1, <2>1, <2>2 DEF CurrentJobs, Inv, Lock, Exclusive, Carries, Holds
  <2>5. CurrentSet' = CurrentSet
    BY <1>0, <2>3, <2>4, CurrentKept
  <2> QED BY <2>1, <2>5 DEF Lifecycle!vars
<1>5. CASE ~Queue(h) /\ ~(Start(h) /\ Fits(d, "ENCODING_IN_PROGRESS"))
  <2>1. req[h].pc # "queue"
    BY <1>5 DEF RequestStep, Upload, Ready, Approve, Reject, Clear, Acquire, Start, Queue, ConfigCommit
  <2>2. UNCHANGED msg
    BY <1>5 DEF RequestStep, Upload, Ready, Approve, Reject, Clear, Acquire, Start, ConfigCommit,
       SetState, jobVars
  <2>3. req' = [req EXCEPT ![h] = IdleRequest] \/ req' = [req EXCEPT ![h].pc = "start"]
    BY <1>5 DEF RequestStep, Upload, Ready, Approve, Reject, Clear, Acquire, Start, ConfigCommit,
       SetState, Reply
  <2>4. req'[h].pc # "queue"
    BY <1>0, <2>3 DEF TypeOK, IdleRequest
  <2>8. UNCHANGED stranded
    <3>1. CASE Start(h)
      BY <1>5, <3>1 DEF Start
    <3> QED
      BY <1>5, <3>1 DEF RequestStep, Upload, Ready, Approve, Reject, Clear, Acquire, ConfigCommit,
         SetState, setVars
  <2>5. CurrentSet' = CurrentSet
    BY <1>0, <1>1, <1>2, <2>1, <2>2, <2>4, CurrentBeside
  <2>6. CASE RequestMove(h)
    <3>1. PICK to \in State :
            /\ state' = [state EXCEPT ![d] = to]
            /\ \/ state[d] = "EMPTY" /\ to = "UPLOADING_IN_PROGRESS"
               \/ state[d] = "UPLOADING_IN_PROGRESS" /\ to = "READY"
               \/ state[d] = "DEDUPLICATED" /\ to \in FinalStates
               \/ req[h].pc = "config" /\ state[d] \in {"ENCODED", "DEDUPLICATED"} /\ to = "READY"
      BY <1>5, <2>6 DEF RequestMove
    <3>2. d \in Sets
      BY <2>6 DEF RequestMove
    <3>3. to \in VALID_TRANSITIONS[state[d]]
      BY <3>1 DEF VALID_TRANSITIONS, FinalStates
    <3>4. req[h].pc = "config" => CurrentSet = None /\ ~deleted
      BY <1>0, CurrentOfNobody DEF SeenCurrent
    <3> HIDE DEF d
    <3>5. Lifecycle!Register(d) \/ Lifecycle!Judge(d) \/ Lifecycle!Reset(d)
      BY <1>2, <2>5, <2>8, <3>1, <3>3, <3>4, SameTables
         DEF Lifecycle!Register, Lifecycle!Judge, Lifecycle!Reset, Lifecycle!Move
    <3> QED BY <3>2, <3>5 DEF Lifecycle!Next
  <2>7. CASE UNCHANGED state
    BY <1>2, <2>5, <2>7, <2>8 DEF Lifecycle!vars
  <2> QED BY <2>6, <2>7, RequestWrites
<1> QED BY <1>3, <1>4, <1>5

\* The finally block ends the run, which has left its set out of progress or given it up.
LEMMA ReleaseImplements ==
  ASSUME Serial, SerialInv, Inv', [Next]_vars, NEW w \in Workers, Release(w)
  PROVE  Lifecycle!Next
<1> DEFINE d == job[run[w].job].ds
<1>0. Inv
  BY DEF SerialInv
<1>1. run[w].pc = "release" /\ locked' = FALSE /\ UNCHANGED <<state, stranded, deleted>>
  BY DEF Release, setVars
<1>2. Running(w) /\ Fresh(w)
  BY <1>1 DEF Running, SerialInv, RunsCurrent
<1>3. d \in Sets /\ CurrentSet = d
  BY <1>0, <1>2, RunSet, InvLocated, CurrentOfLive
<1>4. state[d] \in InProgress => d \in stranded
  BY <1>1, <1>2 DEF Fresh
<1>5. CurrentSet' = None
  <2>1. \A j \in Jobs : ~Live(j)' /\ ~LostJob(j)'
    BY <1>1 DEF Inv, Lock, Exclusive, Carries
  <2>2. \A h \in Requests : req'[h].pc # "queue"
    BY <1>1 DEF Inv, Lock, Exclusive, Holds
  <2>3. CurrentJobs' = {}
    BY <2>1, <2>2 DEF CurrentJobs
  <2> QED BY <2>3 DEF CurrentSet
<1>6. d # None
  BY <1>3, EngineAssumption DEF EngineAssumption
<1> HIDE DEF d
<1> QED
  BY <1>1, <1>3, <1>4, <1>5, <1>6, SameTables DEF Lifecycle!Next, Lifecycle!EndRun

\* Every step of requests, broker and workers is a step of the lifecycle or leaves it alone.
LEMMA StepImplements ==
  ASSUME Serial, SerialInv, Inv', [Next]_vars
  PROVE  Lifecycle!Next \/ UNCHANGED Lifecycle!vars
<1>0. Inv /\ TypeOK
  BY DEF SerialInv, Inv, Shape
<1>1. ASSUME NEW d \in Sets, Create(d)
      PROVE  Lifecycle!Next
  <2>1. /\ ~deleted /\ state[d] = None /\ state' = [state EXCEPT ![d] = "EMPTY"]
        /\ Fits(d, "EMPTY") /\ UNCHANGED <<stranded, deleted, msg, run, req>>
    BY <1>1 DEF Create, groupVars, jobVars
  <2>2. CurrentSet' = CurrentSet
    BY <1>0, <2>1, CurrentBeside
  <2>3. \A e \in Sets : state[e] \notin BLOCKING_STATES
    BY <2>1, EngineAssumption DEF Fits, BLOCKING_STATES, State, EngineAssumption
  <2>4. Lifecycle!Create(d)
    BY <2>1, <2>2, <2>3, SameTables DEF Lifecycle!Create, Lifecycle!SlotIsFree
  <2> QED BY <2>4 DEF Lifecycle!Next
<1>2. CASE SoftDelete
  <2>1. ~locked /\ ~deleted /\ deleted' = TRUE /\ UNCHANGED <<state, stranded, msg, run, req>>
    BY <1>2 DEF SoftDelete, setVars, jobVars
  <2>2. CurrentSet' = CurrentSet /\ CurrentSet = None
    BY <1>0, <2>1, CurrentBeside, CurrentOfNobody
  <2> QED BY <2>1, <2>2 DEF Lifecycle!Next, Lifecycle!Delete
<1>3. ASSUME NEW h \in Requests,
             \/ \E endpoint \in DOMAIN Admits, d \in Sets : Receive(h, endpoint, d)
             \/ ConfigRead(h)
      PROVE  UNCHANGED Lifecycle!vars
  <2>1. UNCHANGED <<state, stranded, deleted, msg, run>>
    BY <1>3 DEF Receive, ConfigRead, setVars, groupVars, jobVars
  <2>2. req[h].pc = "idle" /\ req'[h].pc \in DOMAIN Admits \cup {"config"}
    BY <1>0, <1>3 DEF Receive, ConfigRead, TypeOK, IdleRequest
  <2>3. "queue" \notin DOMAIN Admits
    BY DEF Admits
  <2>4. CurrentSet' = CurrentSet
    BY <1>0, <2>1, <2>2, <2>3, CurrentBeside DEF Serial
  <2> QED BY <2>1, <2>4 DEF Lifecycle!vars
<1>4. ASSUME NEW h \in Requests, LoseRequest(h)
      PROVE  FALSE
  BY <1>4, SerialFaults DEF LoseRequest
<1>5. ASSUME \/ \E j \in Jobs : Cancel(j) \/ Redeliver(j) \/ RedeliverEarly(j)
             \/ \E w \in Workers :
                  \/ Raise(w) \/ Crash(w) \/ Begin(w) \/ Encode(w) \/ Dedupe(w)
                  \/ AppendLog(w) \/ Ack(w) \/ ReleaseFails(w)
      PROVE  UNCHANGED Lifecycle!vars
  <2>1. UNCHANGED <<state, stranded, deleted, req, locked>>
    BY <1>5 DEF Cancel, Redeliver, RedeliverEarly, Raise, Crash, Begin, Encode, Dedupe,
       AppendLog, Ack, ReleaseFails, setVars, groupVars
  <2>2. CurrentSet' = CurrentSet
    BY <1>0, <2>1, CurrentLocked
  <2> QED BY <2>1, <2>2 DEF Lifecycle!vars
<1>7. ASSUME NEW w \in Workers, LoadFails(w) \/ Kill(w)
      PROVE  Lifecycle!Next \/ UNCHANGED Lifecycle!vars
  <2>1. UNCHANGED <<state, deleted, req, locked>>
    BY <1>7 DEF LoadFails, Kill, groupVars
  <2>2. CurrentSet' = CurrentSet
    BY <1>0, <2>1, CurrentLocked
  <2>3. PICK j \in Jobs : Live(j) /\ GiveUp(j)
    <3>1. CASE LoadFails(w)
      BY <3>1 DEF LoadFails, Live
    <3>2. CASE Kill(w)
      BY <1>0, <3>2, RunSet, InvLocated DEF Kill, Running
    <3> QED BY <1>7, <3>1, <3>2
  <2> QED BY <1>0, <2>1, <2>2, <2>3, GiveUpImplements
<1>8. ASSUME NEW w \in Workers, Deliver(w)
      PROVE  Lifecycle!Next \/ UNCHANGED Lifecycle!vars
  <2>1. UNCHANGED <<state, deleted, req, locked>>
    BY <1>8 DEF Deliver, groupVars
  <2>2. CurrentSet' = CurrentSet
    BY <1>0, <2>1, CurrentLocked
  <2>3. PICK j \in Jobs : Live(j) /\ stranded' = stranded \ {job[j].ds}
    BY <1>8 DEF Deliver, Live
  <2>4. CurrentSet = job[j].ds
    BY <1>0, <2>3, CurrentOfLive
  <2>5. CASE CurrentSet \in stranded
    BY <2>1, <2>2, <2>3, <2>4, <2>5 DEF Lifecycle!Next, Lifecycle!TakeUp
  <2>6. CASE CurrentSet \notin stranded
    BY <2>1, <2>2, <2>3, <2>4, <2>6 DEF Lifecycle!vars
  <2> QED BY <2>5, <2>6
<1>6. CASE UNCHANGED vars
  <2>1. UNCHANGED <<state, stranded, deleted, req, locked>>
    BY <1>6 DEF vars
  <2>2. CurrentSet' = CurrentSet
    BY <1>0, <2>1, CurrentLocked
  <2> QED BY <2>1, <2>2 DEF Lifecycle!vars
<1> QED
  BY <1>1, <1>2, <1>3, <1>4, <1>5, <1>6, <1>7, <1>8, RequestImplements, RunImplements,
     ReleaseImplements
     DEF Next, WorkerStep, StateStep

\* For the waiting client the engine keeps the promise of GroupLifecycle: seen through
\* CurrentSet, requests, broker, locks and copies in memory disappear.
THEOREM ImplementsLifecycleHolds ==
  ASSUME Serial
  PROVE  PatientSpec => ImplementsLifecycle
<1>1. SerialInv /\ SerialInv' /\ [Next /\ Patience]_vars => [Lifecycle!Next]_(Lifecycle!vars)
  BY StepImplements DEF SerialInv
<1> QED
  BY <1>1, InitImplements, SerialInvariance, PTL
     DEF PatientSpec, ImplementsLifecycle, Lifecycle!Spec

\* Approved and rejected sets are never moved again, as the lifecycle has no such step.
THEOREM FinalIsFinalHolds ==
  ASSUME Serial
  PROVE  PatientSpec => FinalIsFinal
<1>1. SerialInv /\ [Lifecycle!Next]_(Lifecycle!vars) =>
        [\A d \in Sets : state[d] \in FinalStates => state'[d] = state[d]]_vars
  <2> SUFFICES ASSUME SerialInv, [Lifecycle!Next]_(Lifecycle!vars),
                      NEW d \in Sets, state[d] \in FinalStates
               PROVE  state'[d] = state[d]
    OBVIOUS
  <2>1. state \in [Sets -> State \cup {None}]
    BY DEF SerialInv, Inv, Shape, TypeOK
  <2>2. \A to : to \notin VALID_TRANSITIONS[state[d]]
    BY DEF FinalStates, VALID_TRANSITIONS
  <2>3. state[d] # None
    BY EngineAssumption DEF FinalStates, EngineAssumption, State
  <2>4. ASSUME NEW e \in Sets, NEW from, NEW to, Lifecycle!Move(e, from, to)
        PROVE  state'[d] = state[d]
    BY <2>1, <2>2, <2>4, SameTables DEF Lifecycle!Move
  <2> QED
    BY <2>1, <2>3, <2>4 DEF Lifecycle!Next, Lifecycle!Create, Lifecycle!Register, Lifecycle!Judge,
       Lifecycle!Reset, Lifecycle!StartRun, Lifecycle!RunStep, Lifecycle!FailUnrecorded,
       Lifecycle!GiveUp, Lifecycle!TakeUp, Lifecycle!EndRun, Lifecycle!Delete, Lifecycle!vars,
       FinalStates
<1> QED
  BY <1>1, SerialInvariance, ImplementsLifecycleHolds, PTL
     DEF FinalIsFinal, ImplementsLifecycle, Lifecycle!Spec
================================================================================
