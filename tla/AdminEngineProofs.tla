--------------------------- MODULE AdminEngineProofs ---------------------------
(***************************************************************************)
(* Proofs about AdminEngine, for any number of sets, jobs, requests,       *)
(* workers and administrators.                                             *)
(*                                                                         *)
(* The token argument of DedupLockProofs carries over with three more      *)
(* places for the token: an admin request, the slot of one that died, and  *)
(* a job whose message was dropped with its row (stuck).  It is unique as  *)
(* long as nobody overrode the lock.  What does not need the token (types, *)
(* the whereabouts of messages, the unique slot, and that every set in an  *)
(* in-progress state is accounted for) holds whatever was overridden.      *)
(***************************************************************************)
EXTENDS AdminEngine, DedupLockProofs

\* The fields of an admin request that its program counter gives a meaning to.
AdminFields ==
  \A a \in Admins :
    /\ adm[a].pc \in {"start", "queue", "form"} => adm[a].ds \in Sets
    /\ adm[a].pc = "form" => adm[a].seen \in State
    /\ adm[a].pc = "queue" => adm[a].job \in Jobs /\ job[adm[a].job] # None

AdminShape == Shape /\ AdminTypeOK /\ AdminFields /\ RowsBut(gone)

AdminRecord ==
  [pc : {"idle", "start", "queue", "lost", "form", "settings"}, ds : Sets \cup {None},
   seen : State \cup {None}, job : Jobs \cup {None}, locked : BOOLEAN, deleted : BOOLEAN]

-----------------------------------------------------------------------------
\* The records the actions of the admin site write.
LEMMA AdminRecords ==
  ASSUME NEW d \in Sets \cup {None}, NEW s \in State \cup {None},
         NEW l \in BOOLEAN, NEW e \in BOOLEAN,
         NEW pc \in {"idle", "start", "lost", "form", "settings"}
  PROVE  [pc |-> pc, ds |-> d, seen |-> s, job |-> None, locked |-> l, deleted |-> e]
           \in AdminRecord
BY DEF AdminRecord

\* What remains of an admin request that died.
LEMMA LostRecord ==
  ASSUME NEW d \in Sets \cup {None}
  PROVE  /\ [IdleAdmin EXCEPT !.pc = "lost", !.ds = d] \in AdminRecord
         /\ [IdleAdmin EXCEPT !.pc = "lost", !.ds = d].pc = "lost"
         /\ [IdleAdmin EXCEPT !.pc = "lost", !.ds = d].ds = d
BY DEF IdleAdmin, AdminRecord

\* What a form keeps of the row it shows.
LEMMA FormRecord ==
  ASSUME NEW d \in Sets, NEW s \in State
  PROVE  LET r == [IdleAdmin EXCEPT !.pc = "form", !.ds = d, !.seen = s]
         IN  r \in AdminRecord /\ r.pc = "form" /\ r.ds = d /\ r.seen = s
BY DEF IdleAdmin, AdminRecord

\* The same for the settings form.
LEMMA SettingsRecord ==
  ASSUME NEW l \in BOOLEAN, NEW e \in BOOLEAN
  PROVE  LET r == [IdleAdmin EXCEPT !.pc = "settings", !.locked = l, !.deleted = e]
         IN  r \in AdminRecord /\ r.pc = "settings" /\ r.locked = l /\ r.deleted = e
BY DEF IdleAdmin, AdminRecord

\* The initial state is well typed.
LEMMA AdminInitShape == AdminInit => AdminShape
<1> SUFFICES ASSUME AdminInit PROVE AdminShape
  OBVIOUS
<1>1. Shape
  BY InitShape DEF AdminInit
<1>2. RowsBut(gone)
  BY DEF AdminInit, Init, IdleRequest, RowsBut
<1>5. adm \in [Admins -> AdminRecord]
  BY AdminRecords DEF AdminInit, IdleAdmin
<1>6. spent \in 0..MaxAdmin
  BY AdminAssumption DEF AdminInit
<1>3. AdminTypeOK
  BY <1>1, <1>5, <1>6 DEF AdminInit, Shape, AdminTypeOK, AdminRecord
<1>4. AdminFields
  BY DEF AdminInit, IdleAdmin, AdminFields
<1> QED
  BY <1>1, <1>2, <1>3, <1>4 DEF AdminShape

\* A step of the requests, the broker and the workers keeps the types.
LEMMA EngineStepShape ==
  ASSUME AdminShape, EngineStep
  PROVE  AdminShape'
<1>1. [Next]_vars /\ Spares(gone) /\ UNCHANGED <<adm, gone, sweep, spent, stuck, overridden>>
  BY DEF EngineStep, Spares
<1>2. Shape'
  BY <1>1, NextShape DEF AdminShape
<1>3. RowsBut(gone)'
  BY <1>1, RowsStep DEF AdminShape, RowsBut
<1>4. \A j \in Jobs : job[j] # None => job'[j] # None
  BY <1>1, JobsStay DEF AdminShape
<1>5. AdminTypeOK'
  BY <1>1, <1>2, <1>4 DEF EngineStep, AdminShape, AdminTypeOK, Shape
<1>6. AdminFields'
  BY <1>1, <1>4 DEF AdminShape, AdminFields
<1> QED
  BY <1>2, <1>3, <1>5, <1>6 DEF AdminShape


\* A step that writes one admin request, and neither job rows nor what the cleanup keeps.
LEMMA OneAdminShape ==
  ASSUME AdminShape, Shape', NEW a \in Admins, NEW r \in AdminRecord,
         adm' = [adm EXCEPT ![a] = r],
         r.pc \in {"start", "form"} => r.ds \in Sets,
         r.pc = "form" => r.seen \in State,
         r.pc # "queue",
         UNCHANGED <<job, gone, sweep>>,
         spent' \in 0..MaxAdmin, stuck' \in BOOLEAN, adrift' \subseteq Sets,
         overridden' \in BOOLEAN, RowsBut(gone)'
  PROVE  AdminShape'
<1>1. adm' \in [Admins -> AdminRecord]
  BY DEF AdminShape, AdminTypeOK, AdminRecord
<1>2. AdminTypeOK'
  BY <1>1 DEF AdminShape, AdminTypeOK, AdminRecord, Shape
<1>3. AdminFields'
  BY DEF AdminShape, AdminTypeOK, AdminFields
<1> QED
  BY <1>2, <1>3 DEF AdminShape

\* The bound on admin operations.
LEMMA OperateType ==
  ASSUME AdminTypeOK, NEW operation, Operate(operation)
  PROVE  spent' \in 0..MaxAdmin
<1>1. spent \in Nat /\ spent < MaxAdmin /\ spent' = spent + 1 /\ MaxAdmin \in Nat
  BY AdminAssumption DEF AdminTypeOK, Operate, AdminAssumption
<1> QED
  BY <1>1

\* So does every step of the job buttons.
LEMMA JobButtonShape ==
  ASSUME AdminShape, NEW a \in Admins,
         \/ \E d \in Sets : AdminAcquire(a, d)
         \/ AdminStart(a) \/ AdminQueue(a) \/ AdminLose(a)
  PROVE  AdminShape'
<1>0. /\ Shape /\ AdminTypeOK /\ AdminFields /\ RowsBut(gone)
      /\ spent \in 0..MaxAdmin /\ stuck \in BOOLEAN /\ adrift \subseteq Sets
      /\ overridden \in BOOLEAN /\ MaxAdmin \in Nat
  BY AdminAssumption DEF AdminShape, AdminTypeOK, AdminAssumption
<1>1. ASSUME NEW d \in Sets, AdminAcquire(a, d)
      PROVE  AdminShape'
  <2>1. Shape' /\ RowsBut(gone)'
    BY <1>0, <1>1 DEF AdminAcquire, Shape, TypeOK, RequestShape, RunShape, RowsBut, setVars, jobVars
  <2>2. spent' \in 0..MaxAdmin
    BY <1>0, <1>1, OperateType DEF AdminAcquire
  <2>3. CASE UNCHANGED adm
    BY <1>0, <1>1, <2>1, <2>2, <2>3 DEF AdminAcquire, AdminShape, AdminTypeOK, AdminFields, Shape, jobVars
  <2>4. CASE ~UNCHANGED adm
    <3> DEFINE r == [pc |-> "start", ds |-> d, seen |-> None, job |-> None,
                     locked |-> FALSE, deleted |-> FALSE]
    <3>1. adm' = [adm EXCEPT ![a] = r] /\ UNCHANGED <<job, gone, sweep, stuck, adrift, overridden>>
      BY <1>1, <2>4 DEF AdminAcquire, IdleAdmin, jobVars, Operate
    <3>2. r \in AdminRecord /\ r.pc = "start" /\ r.ds = d
      BY AdminRecords
    <3> HIDE DEF r
    <3> QED
      BY <1>0, <2>1, <2>2, <3>1, <3>2, OneAdminShape
  <2> QED
    BY <2>3, <2>4
<1>2. CASE AdminStart(a)
  <2> DEFINE d == adm[a].ds
  <2>0. d \in Sets /\ "ENCODING_IN_PROGRESS" \in State
    BY <1>0, <1>2 DEF AdminStart, State, AdminFields
  <2>1. CASE UNCHANGED <<state, job, adrift>>
    <3>1. Shape' /\ RowsBut(gone)'
      BY <1>0, <1>2, <2>1 DEF AdminStart, Shape, TypeOK, RequestShape, RunShape, RowsBut
    <3>2. ASSUME NEW j \in FreeJobs, NEW encode_only \in BOOLEAN,
                 job' = [job EXCEPT ![j] =
                          [ds |-> d, encode_only |-> encode_only, cancel |-> FALSE]]
          PROVE  FALSE
      <4>1. [ds |-> d, encode_only |-> encode_only, cancel |-> FALSE] \in JobRow
        BY <2>0 DEF JobRow
      <4>2. job'[j] # None /\ job[j] = None
        BY <1>0, <3>2, <4>1, EngineAssumption DEF EngineAssumption, FreeJobs, Shape, TypeOK
      <4> QED
        BY <2>1, <4>2
    <3>3. PICK r \in AdminRecord : adm' = [adm EXCEPT ![a] = r] /\ r.pc \in {"idle", "lost"}
      <4> DEFINE q(pc) == [pc |-> pc, ds |-> None, seen |-> None, job |-> None,
                           locked |-> FALSE, deleted |-> FALSE]
      <4>1. q("idle") \in AdminRecord /\ q("lost") \in AdminRecord
        BY AdminRecords
      <4>2. adm' = [adm EXCEPT ![a] = q("idle")] \/ adm' = [adm EXCEPT ![a] = q("lost")]
        BY <1>2, <3>2 DEF AdminStart, Answer, IdleAdmin
      <4> QED
        BY <4>1, <4>2
    <3> QED
      BY <1>0, <1>2, <2>1, <3>1, <3>3, OneAdminShape DEF AdminStart
  <2>2. CASE ~UNCHANGED <<state, job, adrift>>
    <3>1. PICK j \in FreeJobs, encode_only \in BOOLEAN :
            /\ state' = [state EXCEPT ![d] = "ENCODING_IN_PROGRESS"]
            /\ job' = [job EXCEPT ![j] =
                         [ds |-> d, encode_only |-> encode_only, cancel |-> FALSE]]
            /\ adm' = [adm EXCEPT ![a].pc = "queue", ![a].job = j]
            /\ adrift' = adrift \ {d}
            /\ stranded' = stranded \ {d}
            /\ UNCHANGED locked
      BY <1>2, <2>2 DEF AdminStart
    <3>2. j \in Jobs /\ job[j] = None
      BY DEF FreeJobs
    <3>3. [ds |-> d, encode_only |-> encode_only, cancel |-> FALSE] \in JobRow
      BY <2>0 DEF JobRow
    <3>4. /\ state' \in [Sets -> State \cup {None}]
          /\ job' \in [Jobs -> JobRow \cup {None}]
          /\ job'[j] # None /\ job'[j].ds = d /\ state'[d] # None
          /\ \A i \in Jobs \ {j} : job'[i] = job[i]
          /\ \A e \in Sets \ {d} : state'[e] = state[e]
      BY <1>0, <2>0, <3>1, <3>2, <3>3, EngineAssumption DEF EngineAssumption, Shape, TypeOK
    <3>5. UNCHANGED <<log, deleted, msg, req, run, faults, gone, sweep, spent, stuck, overridden>>
      BY <1>2 DEF AdminStart
    <3>6. /\ adm' \in [Admins -> AdminRecord]
          /\ AdminFields'
      <4> DEFINE r == [[adm[a] EXCEPT !.pc = "queue"] EXCEPT !.job = j]
      <4>1. adm \in [Admins -> AdminRecord]
        BY <1>0 DEF AdminTypeOK, AdminRecord
      <4>2. r \in AdminRecord /\ r.pc = "queue" /\ r.job = j /\ r.ds = d
        BY <3>2, <4>1 DEF AdminRecord
      <4>3. adm' = [adm EXCEPT ![a] = r]
        BY <3>1, <4>1
      <4> HIDE DEF r
      <4>4. adm' \in [Admins -> AdminRecord]
        BY <4>1, <4>2, <4>3
      <4>5. \A b \in Admins \ {a} : adm'[b] = adm[b]
        BY <4>1, <4>3
      <4>6. adm'[a] = r
        BY <4>1, <4>3
      <4>7. \A i \in Jobs : job[i] # None => job'[i] # None
        BY <3>2, <3>4
      <4> QED
        BY <1>0, <2>0, <3>2, <3>4, <4>2, <4>4, <4>5, <4>6, <4>7 DEF AdminFields
    <3> HIDE DEF JobRow
    <3>7. Shape'
      BY <1>0, <3>1, <3>4, <3>5 DEF Shape, TypeOK, RequestShape, RunShape
    <3>8. AdminTypeOK'
      BY <1>0, <3>1, <3>2, <3>4, <3>5, <3>6, <3>7 DEF Shape, AdminTypeOK, AdminRecord
    <3>9. RowsBut(gone)'
      <4>1. \A i \in Jobs : job[i] # None => i # j
        BY <3>2
      <4>2. \A i \in Jobs \ {j} : job[i] # None /\ i \notin gone => state'[job[i].ds] # None
        BY <1>0, <3>4 DEF RowsBut, Shape, TypeOK, JobRow
      <4> QED
        BY <1>0, <3>1, <3>4, <3>5, <4>1, <4>2 DEF RowsBut
    <3> QED
      BY <3>6, <3>7, <3>8, <3>9 DEF AdminShape
  <2> QED
    BY <2>1, <2>2
<1>3. CASE AdminQueue(a)
  <2>1. adm[a].job \in Jobs /\ job[adm[a].job] # None
    BY <1>0, <1>3 DEF AdminQueue, AdminFields
  <2>2. Shape' /\ RowsBut(gone)'
    BY <1>0, <1>3, <2>1 DEF AdminQueue, Shape, TypeOK, RequestShape, RunShape, RowsBut, setVars, groupVars
  <2>3. IdleAdmin \in AdminRecord /\ IdleAdmin.pc = "idle"
    BY AdminRecords DEF IdleAdmin
  <2> QED
    BY <1>0, <1>3, <2>2, <2>3, OneAdminShape DEF AdminQueue, Answer
<1>4. CASE AdminLose(a)
  <2>0. /\ UNCHANGED <<setVars, groupVars, jobVars, req, run, gone, sweep, spent, stuck, adrift,
                       overridden>>
        /\ Fault("request")
    BY <1>4 DEF AdminLose
  <2>6. faults' \in 0..MaxFaults
    BY <1>0, <2>0, EngineAssumption DEF EngineAssumption, Fault, Shape, TypeOK
  <2>1. Shape' /\ RowsBut(gone)'
    BY <1>0, <2>0, <2>6 DEF Shape, TypeOK, RequestShape, RunShape, RowsBut, setVars, groupVars, jobVars
  <2>2. PICK d \in Sets \cup {None} :
          adm' = [adm EXCEPT ![a] = [IdleAdmin EXCEPT !.pc = "lost", !.ds = d]]
    BY <1>0, <1>4 DEF AdminLose, AdminFields
  <2>3. PICK r \in AdminRecord : adm' = [adm EXCEPT ![a] = r] /\ r.pc = "lost"
    BY <2>2, LostRecord
  <2> QED
    BY <1>0, <2>0, <2>1, <2>3, OneAdminShape DEF jobVars
<1> QED
  BY <1>1, <1>2, <1>3, <1>4

\* A step that leaves the admin requests, the job rows and what is gone alone.
LEMMA SameAdminShape ==
  ASSUME AdminShape, Shape', RowsBut(gone)', UNCHANGED <<adm, job, gone>>,
         sweep' \in Sets \cup {None}, spent' \in 0..MaxAdmin, stuck' \in BOOLEAN,
         adrift' \subseteq Sets, overridden' \in BOOLEAN
  PROVE  AdminShape'
BY DEF AdminShape, AdminTypeOK, AdminFields, Shape

\* The forms and the buttons that force a state or release the lock keep the types.
LEMMA FormShape ==
  ASSUME AdminShape, NEW a \in Admins,
         \/ \E d \in Sets : OpenForm(a, d)
         \/ SaveForm(a) \/ LoadSettings(a) \/ SaveSettings(a)
  PROVE  AdminShape'
<1>0. /\ Shape /\ AdminTypeOK /\ AdminFields /\ RowsBut(gone)
      /\ spent \in 0..MaxAdmin /\ stuck \in BOOLEAN /\ adrift \subseteq Sets
      /\ overridden \in BOOLEAN /\ IdleAdmin \in AdminRecord /\ IdleAdmin.pc = "idle"
  BY AdminRecords DEF AdminShape, AdminTypeOK, IdleAdmin
<1>1. ASSUME NEW d \in Sets, OpenForm(a, d)
      PROVE  AdminShape'
  <2>1. Shape' /\ RowsBut(gone)'
    BY <1>0, <1>1 DEF OpenForm, Shape, TypeOK, RequestShape, RunShape, RowsBut, setVars,
                      groupVars, jobVars
  <2>3. state[d] \in State
    BY <1>0, <1>1 DEF OpenForm, Shape, TypeOK
  <2>4. PICK r \in AdminRecord :
          adm' = [adm EXCEPT ![a] = r] /\ r.pc = "form" /\ r.ds = d /\ r.seen \in State
    <3> DEFINE r == [IdleAdmin EXCEPT !.pc = "form", !.ds = d, !.seen = state[d]]
    <3>1. r \in AdminRecord /\ r.pc = "form" /\ r.ds = d /\ r.seen = state[d]
      BY <2>3, FormRecord
    <3>2. adm' = [adm EXCEPT ![a] = r]
      BY <1>1 DEF OpenForm
    <3> HIDE DEF r
    <3> QED
      BY <2>3, <3>1, <3>2
  <2>5. spent' \in 0..MaxAdmin
    BY <1>0, <1>1, OperateType DEF OpenForm
  <2> QED
    BY <1>0, <1>1, <2>1, <2>4, <2>5, OneAdminShape DEF OpenForm, jobVars
<1>2. CASE SaveForm(a)
  <2>1. adm[a].ds \in Sets /\ adm[a].seen \in State /\ adm[a].seen # None
    BY <1>0, <1>2, EngineAssumption DEF SaveForm, AdminFields, EngineAssumption
  <2>2. Shape' /\ RowsBut(gone)'
    <3>1. /\ state' \in [Sets -> State \cup {None}]
          /\ \A d \in Sets : state[d] # None => state'[d] # None
          /\ UNCHANGED <<log, stranded, groupVars, jobVars, req, run, faults, gone>>
      BY <1>0, <1>2, <2>1 DEF SaveForm, Shape, TypeOK
    <3> QED
      BY <1>0, <3>1 DEF Shape, TypeOK, RequestShape, RunShape, RowsBut, groupVars, jobVars, JobRow
  <2>3. adrift' \subseteq Sets /\ UNCHANGED <<job, gone, sweep, spent, stuck, overridden>>
    BY <1>0, <1>2, <2>1 DEF SaveForm, jobVars
  <2> QED
    BY <1>0, <1>2, <2>2, <2>3, OneAdminShape DEF SaveForm, Answer
<1>3. CASE LoadSettings(a)
  <2>1. Shape' /\ RowsBut(gone)'
    BY <1>0, <1>3 DEF LoadSettings, Shape, TypeOK, RequestShape, RunShape, RowsBut, setVars,
                      groupVars, jobVars
  <2>3. PICK r \in AdminRecord : adm' = [adm EXCEPT ![a] = r] /\ r.pc = "settings"
    <3>1. locked \in BOOLEAN /\ deleted \in BOOLEAN
      BY <1>0 DEF Shape, TypeOK
    <3> QED
      BY <1>3, <3>1, SettingsRecord DEF LoadSettings
  <2>4. spent' \in 0..MaxAdmin
    BY <1>0, <1>3, OperateType DEF LoadSettings
  <2> QED
    BY <1>0, <1>3, <2>1, <2>3, <2>4, OneAdminShape DEF LoadSettings, jobVars
<1>4. CASE SaveSettings(a)
  <2>1. locked' \in BOOLEAN /\ deleted' \in BOOLEAN /\ overridden' \in BOOLEAN
    BY <1>0, <1>4 DEF SaveSettings, AdminTypeOK, Shape, TypeOK, groupVars
  <2>2. UNCHANGED <<setVars, jobVars, req, run, faults, gone, sweep, spent, stuck, adrift>>
    BY <1>4 DEF SaveSettings
  <2>3. Shape' /\ RowsBut(gone)'
    BY <1>0, <2>1, <2>2 DEF Shape, TypeOK, RequestShape, RunShape, RowsBut, setVars, jobVars
  <2> QED
    BY <1>0, <1>4, <2>1, <2>2, <2>3, OneAdminShape DEF SaveSettings, Answer, jobVars
<1> QED
  BY <1>1, <1>2, <1>3, <1>4

\* So do the buttons that name no admin request, and the cleanup.
LEMMA ForceShape ==
  ASSUME AdminShape,
         \/ \E d \in Sets : AdminForce(d) \/ Collect(d)
         \/ \E j \in Jobs : Requeue(j)
         \/ Unlock
         \/ Sweep
         \/ \E w \in Workers : StopGone(w) \/ \E j \in Jobs : DropMessage(w, j)
  PROVE  AdminShape'
<1>0. /\ Shape /\ AdminTypeOK /\ AdminFields /\ RowsBut(gone)
      /\ spent \in 0..MaxAdmin /\ stuck \in BOOLEAN /\ adrift \subseteq Sets
      /\ overridden \in BOOLEAN /\ sweep \in Sets \cup {None} /\ locked \in BOOLEAN
  BY DEF AdminShape, AdminTypeOK, Shape, TypeOK
<1>1. ASSUME NEW d \in Sets, AdminForce(d)
      PROVE  AdminShape'
  <2>1. /\ state' \in [Sets -> State \cup {None}]
        /\ \A e \in Sets : state[e] # None => state'[e] # None
    BY <1>0, <1>1, EngineAssumption DEF AdminForce, Shape, TypeOK, State, EngineAssumption
  <2>2. UNCHANGED <<log, stranded, groupVars, jobVars, req, run, faults, adm, gone, sweep, stuck,
                    overridden>>
    BY <1>1 DEF AdminForce
  <2>3. Shape' /\ RowsBut(gone)'
    BY <1>0, <2>1, <2>2 DEF Shape, TypeOK, RequestShape, RunShape, RowsBut, groupVars, jobVars, JobRow
  <2>4. spent' \in 0..MaxAdmin
    BY <1>0, <1>1, OperateType DEF AdminForce
  <2>5. adrift' \subseteq Sets
    BY <1>0, <1>1 DEF AdminForce
  <2> QED
    BY <1>0, <2>2, <2>3, <2>4, <2>5, SameAdminShape DEF jobVars
<1>2. ASSUME NEW d \in Sets, Collect(d)
      PROVE  AdminShape'
  <2>1. spent' \in 0..MaxAdmin
    BY <1>0, <1>2, OperateType DEF Collect
  <2>2. UNCHANGED <<vars, adm, gone, stuck, adrift, overridden>> /\ sweep' \in Sets \cup {None}
    BY <1>2 DEF Collect
  <2>3. Shape' /\ RowsBut(gone)'
    BY <1>0, <2>2 DEF Shape, TypeOK, RequestShape, RunShape, RowsBut, vars
  <2> QED
    BY <1>0, <2>1, <2>2, <2>3, SameAdminShape DEF vars
<1>3. ASSUME NEW j \in Jobs, Requeue(j)
      PROVE  AdminShape'
  <2>1. spent' \in 0..MaxAdmin
    BY <1>0, <1>3, OperateType DEF Requeue
  <2>2. /\ UNCHANGED <<setVars, groupVars, job, req, run, faults, adm, gone, sweep, stuck, adrift>>
        /\ overridden' = TRUE /\ msg' = [msg EXCEPT ![j] = "queued"] /\ job[j] # None
    BY <1>3 DEF Requeue
  <2>3. Shape' /\ RowsBut(gone)'
    BY <1>0, <2>2 DEF Shape, TypeOK, RequestShape, RunShape, RowsBut, setVars, groupVars
  <2> QED
    BY <1>0, <2>1, <2>2, <2>3, SameAdminShape
<1>4. CASE Unlock
  <2>1. spent' \in 0..MaxAdmin
    BY <1>0, <1>4, OperateType DEF Unlock
  <2>2. /\ UNCHANGED <<setVars, deleted, job, run, faults, gone, sweep>>
        /\ msg' = [j \in Jobs |-> IF LostJob(j) THEN "done" ELSE msg[j]]
        /\ locked' = FALSE /\ stuck' = FALSE /\ adrift' \subseteq Sets
        /\ overridden' \in BOOLEAN
        /\ req' = [h \in Requests |-> IF req[h].pc = "lost" THEN IdleRequest ELSE req[h]]
        /\ adm' = [a \in Admins |-> IF adm[a].pc = "lost" THEN IdleAdmin ELSE adm[a]]
    BY <1>0, <1>4 DEF Unlock, Held
  <2>3. IdleAdmin \in AdminRecord /\ IdleAdmin.pc = "idle"
    BY AdminRecords DEF IdleAdmin
  <2>4. adm' \in [Admins -> AdminRecord] /\ AdminFields'
    BY <1>0, <2>2, <2>3 DEF AdminTypeOK, AdminRecord, AdminFields
  <2>5. req' \in [Requests -> [pc : RequestPc, ds : Sets \cup {None},
                              seen : State \cup {None}, job : Jobs \cup {None}]]
    BY <1>0, <2>2 DEF Shape, TypeOK, IdleRequest, RequestPc
  <2>8. msg' \in [Jobs -> {"none", "queued", "unacked", "done", "lost"}]
    BY <1>0, <2>2 DEF Shape, TypeOK
  <2>6. Shape' /\ RowsBut(gone)'
    BY <1>0, <2>2, <2>5, <2>8 DEF Shape, TypeOK, RequestShape, RunShape, RowsBut, setVars,
                                  IdleRequest, LostJob
  <2>7. AdminTypeOK'
    BY <1>0, <2>1, <2>2, <2>4, <2>6 DEF AdminTypeOK, AdminRecord, Shape
  <2> QED
    BY <2>4, <2>6, <2>7 DEF AdminShape
<1>5. CASE Sweep
  <2>1. sweep \in Sets /\ sweep' = None
    BY <1>0, <1>5 DEF Sweep
  <2>2. /\ state' = [state EXCEPT ![sweep] = None]
        /\ log' = [log EXCEPT ![sweep] = 0]
        /\ gone' = gone \cup {j \in Jobs : job[j] # None /\ job[j].ds = sweep}
        /\ adrift' = adrift \ {sweep} /\ stranded' = stranded \ {sweep}
        /\ UNCHANGED <<groupVars, jobVars, req, run, faults, adm, spent, stuck, overridden>>
    BY <1>5 DEF Sweep
  <2>3. Shape'
    BY <1>0, <2>1, <2>2 DEF Shape, TypeOK, RequestShape, RunShape, groupVars, jobVars
  <2>4. RowsBut(gone)'
    BY <1>0, <2>1, <2>2 DEF RowsBut, jobVars, Shape, TypeOK, JobRow
  <2>5. AdminTypeOK'
    BY <1>0, <2>1, <2>2, <2>3 DEF AdminTypeOK, Shape, jobVars
  <2>6. AdminFields'
    BY <1>0, <2>2 DEF AdminFields, jobVars
  <2> QED
    BY <2>3, <2>4, <2>5, <2>6 DEF AdminShape
<1>6. ASSUME NEW w \in Workers, StopGone(w)
      PROVE  AdminShape'
  <2>1. /\ run[w].pc # "idle" /\ locked' = FALSE /\ run' = [run EXCEPT ![w].pc = "ack"]
        /\ UNCHANGED <<setVars, deleted, jobVars, req, faults, adm, gone, sweep, spent, stuck,
                 adrift, overridden>>
    BY <1>6 DEF StopGone, Running
  <2>2. /\ run' \in [Workers -> [pc : RunPc, job : Jobs \cup {None},
                              mem : State \cup {None}, log : Nat]]
        /\ RunShape'
    BY <1>0, <2>1 DEF Shape, TypeOK, RunShape, RunPc
  <2>3. Shape' /\ RowsBut(gone)'
    BY <1>0, <2>1, <2>2 DEF Shape, TypeOK, RequestShape, RowsBut, setVars, jobVars
  <2> QED
    BY <1>0, <2>1, <2>3, SameAdminShape DEF jobVars
<1>7. ASSUME NEW w \in Workers, NEW j \in Jobs, DropMessage(w, j)
      PROVE  AdminShape'
  <2>1. /\ msg[j] = "queued" /\ msg' = [msg EXCEPT ![j] = "done"] /\ stuck' = locked
        /\ UNCHANGED <<setVars, groupVars, job, req, run, faults, adm, gone, sweep, spent, adrift,
                 overridden>>
    BY <1>7 DEF DropMessage
  <2>2. Shape' /\ RowsBut(gone)'
    BY <1>0, <2>1 DEF Shape, TypeOK, RequestShape, RunShape, RowsBut, setVars, groupVars
  <2> QED
    BY <1>0, <2>1, <2>2, SameAdminShape
<1> QED
  BY <1>1, <1>2, <1>3, <1>4, <1>5, <1>6, <1>7

\* Every step keeps the types.
LEMMA AdminShapeStep ==
  ASSUME AdminShape, [AdminNext]_allVars
  PROVE  AdminShape'
<1>1. CASE AdminNext
  BY <1>1, EngineStepShape, JobButtonShape, FormShape, ForceShape DEF AdminNext, AdminStep
<1>2. CASE UNCHANGED allVars
  BY <1>2 DEF allVars, adminVars, vars, AdminShape, AdminTypeOK, AdminFields, Shape, TypeOK,
              RequestShape, RunShape, RowsBut
<1> QED
  BY <1>1, <1>2

\* Type correctness of the engine with the people who operate it, whatever they override
\* and whatever faults happen.
THEOREM AdminTypeCorrect == AdminSpec => []AdminTypeOK
<1>1. AdminShape => AdminTypeOK
  BY DEF AdminShape
<1> QED
  BY <1>1, AdminInitShape, AdminShapeStep, PTL DEF AdminSpec

-----------------------------------------------------------------------------
\* Where the message of a job is that an admin request is about to queue: nowhere, and
\* nobody else is about to queue that job.
AdminDelivery ==
  /\ \A a \in Admins :
       adm[a].pc = "queue" => /\ msg[adm[a].job] = "none"
                              /\ job[adm[a].job].ds = adm[a].ds
  /\ \A a, b \in Admins :
       adm[a].pc = "queue" /\ adm[b].pc = "queue" /\ adm[a].job = adm[b].job => a = b
  /\ \A a \in Admins, h \in Requests :
       adm[a].pc = "queue" /\ req[h].pc = "queue" => adm[a].job # req[h].job

\* A job that nobody of the engine is about to queue is not queued.
LEMMA NoneStays ==
  ASSUME Shape, [Next]_vars, NEW j \in Jobs, job[j] # None, msg[j] = "none",
         \A h \in Requests : req[h].pc = "queue" => req[h].job # j
  PROVE  msg'[j] = "none" /\ \A h \in Requests : req'[h].pc = "queue" => req'[h].job # j
<1> USE DEF Shape, TypeOK, RequestShape
<1>1. CASE Frame
  BY <1>1 DEF Frame, Holds
<1>2. ASSUME NEW h \in Requests, Acquire(h) \/ Queue(h) \/ LoseRequest(h)
      PROVE  msg'[j] = "none" /\ \A g \in Requests : req'[g].pc = "queue" => req'[g].job # j
  <2>1. \A g \in Requests : req'[g].pc = "queue" => req'[g] = req[g]
    BY <1>2 DEF Acquire, Queue, LoseRequest, Reply, IdleRequest
  <2>2. msg'[j] = "none"
    BY <1>2 DEF Acquire, Queue, LoseRequest, jobVars
  <2> QED
    BY <2>1, <2>2
<1>3. ASSUME NEW h \in Requests, Start(h)
      PROVE  msg'[j] = "none" /\ \A g \in Requests : req'[g].pc = "queue" => req'[g].job # j
  <2>1. \A g \in Requests :
          req'[g].pc = "queue" => req'[g] = req[g] \/ req'[g].job \in FreeJobs
    BY <1>3 DEF Start, Reply, IdleRequest
  <2>2. j \notin FreeJobs
    BY DEF FreeJobs
  <2> QED
    BY <1>3, <2>1, <2>2 DEF Start
<1>4. ASSUME NEW w \in Workers,
             \/ Deliver(w) \/ Release(w) \/ Ack(w) \/ Crash(w)
             \/ LoadFails(w) \/ ReleaseFails(w) \/ Kill(w)
      PROVE  msg'[j] = "none" /\ UNCHANGED req
  BY <1>4 DEF Deliver, Release, Ack, Crash, LoadFails, ReleaseFails, Kill, jobVars
<1>5. ASSUME NEW i \in Jobs, Redeliver(i) \/ RedeliverEarly(i)
      PROVE  msg'[j] = "none" /\ UNCHANGED req
  BY <1>5 DEF Redeliver, RedeliverEarly
<1> QED
  BY <1>1, <1>2, <1>3, <1>4, <1>5, TokenOrFrame DEF TokenStep

\* A step of the engine leaves the jobs to the admin requests that are about to queue them.
LEMMA EngineDelivery ==
  ASSUME AdminShape, AdminDelivery, EngineStep
  PROVE  AdminDelivery'
<1>1. Shape /\ [Next]_vars /\ UNCHANGED adm
  BY DEF AdminShape, EngineStep
<1>2. ASSUME NEW a \in Admins, adm[a].pc = "queue"
      PROVE  LET j == adm[a].job IN
             /\ msg'[j] = "none" /\ job'[j].ds = adm[a].ds
             /\ \A h \in Requests : req'[h].pc = "queue" => req'[h].job # j
  <2>1. adm[a].job \in Jobs /\ job[adm[a].job] # None
    BY <1>2 DEF AdminShape, AdminFields
  <2>2. /\ msg[adm[a].job] = "none" /\ job[adm[a].job].ds = adm[a].ds
        /\ \A h \in Requests : req[h].pc = "queue" => req[h].job # adm[a].job
    BY <1>2 DEF AdminDelivery
  <2> QED
    BY <1>1, <2>1, <2>2, NoneStays, JobsStay
<1> QED
  BY <1>1, <1>2 DEF AdminDelivery

-----------------------------------------------------------------------------
\* Admin request a has the token.
AdminHolds(a) == adm[a].pc \in {"start", "queue", "lost"}

\* The token is in one place, exactly while the lock is set, and a deleted group has none.
OneToken ==
  /\ \A g, h \in Requests : Holds(g) /\ Holds(h) => g = h
  /\ \A a, b \in Admins : AdminHolds(a) /\ AdminHolds(b) => a = b
  /\ \A i, j \in Jobs : Carries(i) /\ Carries(j) => i = j
  /\ \A h \in Requests, j \in Jobs : ~(Holds(h) /\ Carries(j))
  /\ \A a \in Admins, j \in Jobs : ~(AdminHolds(a) /\ Carries(j))
  /\ \A h \in Requests, a \in Admins : ~(Holds(h) /\ AdminHolds(a))
  /\ stuck => /\ \A h \in Requests : ~Holds(h)
              /\ \A a \in Admins : ~AdminHolds(a)
              /\ \A j \in Jobs : ~Carries(j)
  /\ locked <=> \/ \E h \in Requests : Holds(h)
                \/ \E a \in Admins : AdminHolds(a)
                \/ \E j \in Jobs : Carries(j)
                \/ stuck
  /\ Quiet

Token == overridden \/ OneToken

AdminInv == AdminShape /\ Delivery /\ AdminDelivery /\ Token

AdminsKeep == \A a \in Admins : AdminHolds(a)' <=> AdminHolds(a)

\* A step that moves neither the token nor the lock.
LEMMA TokenStays ==
  ASSUME OneToken, RequestsKeep, JobsKeep, AdminsKeep, UNCHANGED <<groupVars, stuck>>
  PROVE  OneToken'
BY DEF OneToken, RequestsKeep, JobsKeep, AdminsKeep, groupVars, Quiet

\* A step of the engine, which moves the token in one of five ways.
LEMMA EngineToken ==
  ASSUME NoDuplication, AdminInv, EngineStep
  PROVE  Delivery' /\ AdminDelivery' /\ Token'
<1>1. /\ Shape /\ RowsBut(gone) /\ Delivery /\ [Next]_vars
      /\ UNCHANGED <<adm, stuck, overridden>>
  BY DEF AdminInv, AdminShape, EngineStep
<1>2. Delivery' /\ Moved
  BY <1>1, Moves
<1>3. AdminDelivery'
  BY EngineDelivery DEF AdminInv
<1>4. ASSUME OneToken
      PROVE  OneToken'
  <2>0. Quiet'
    BY <1>1, <1>4, QuietStep DEF OneToken
  <2>1. AdminsKeep
    BY <1>1 DEF AdminsKeep, AdminHolds
  <2>2. CASE Stays
    BY <1>1, <1>4, <2>0, <2>1, <2>2 DEF Stays, RequestsKeep, JobsKeep, AdminsKeep, OneToken
  <2>3. ASSUME NEW h \in Requests, Taken(h)
        PROVE  OneToken'
    BY <1>1, <1>4, <2>0, <2>1, <2>3 DEF Taken, JobsKeep, AdminsKeep, OneToken
  <2>4. ASSUME NEW h \in Requests, Returned(h)
        PROVE  OneToken'
    BY <1>1, <1>4, <2>0, <2>1, <2>4 DEF Returned, JobsKeep, AdminsKeep, OneToken
  <2>5. ASSUME NEW h \in Requests, NEW j \in Jobs, Passed(h, j)
        PROVE  OneToken'
    BY <1>1, <1>4, <2>0, <2>1, <2>5 DEF Passed, AdminsKeep, OneToken
  <2>6. ASSUME NEW j \in Jobs, Released(j)
        PROVE  OneToken'
    BY <1>1, <1>4, <2>0, <2>1, <2>6 DEF Released, RequestsKeep, AdminsKeep, OneToken
  <2> QED
    BY <1>2, <2>2, <2>3, <2>4, <2>5, <2>6 DEF Moved
<1> QED
  BY <1>1, <1>2, <1>3, <1>4 DEF AdminInv, Token

\* A step of the admin site that touches neither the jobs, their messages and runs nor the
\* requests leaves the messages where they are.
LEMMA DeliveryStays ==
  ASSUME Delivery, AdminDelivery, UNCHANGED <<job, msg, req, run>>,
         \A a \in Admins : adm'[a].pc = "queue" => adm'[a] = adm[a]
  PROVE  Delivery' /\ AdminDelivery' /\ RequestsKeep /\ JobsKeep
<1>1. Delivery'
  BY DEF Delivery
<1>2. AdminDelivery'
  BY DEF AdminDelivery
<1> QED
  BY <1>1, <1>2 DEF RequestsKeep, JobsKeep, Holds, Carries, LostJob, Live

\* Encode and Deduplicate take the token, pass it to the queue or give it back.
LEMMA JobButtonToken ==
  ASSUME AdminInv, NEW a \in Admins,
         \/ \E d \in Sets : AdminAcquire(a, d)
         \/ AdminStart(a) \/ AdminQueue(a) \/ AdminLose(a)
  PROVE  Delivery' /\ AdminDelivery' /\ Token'
<1>0. /\ Delivery /\ AdminDelivery /\ adm \in [Admins -> AdminRecord]
      /\ job \in [Jobs -> JobRow \cup {None}] /\ msg \in [Jobs -> {"none", "queued", "unacked", "done", "lost"}]
  BY DEF AdminInv, AdminShape, AdminTypeOK, AdminRecord, Shape, TypeOK
<1>1. ASSUME NEW d \in Sets, AdminAcquire(a, d)
      PROVE  Delivery' /\ AdminDelivery' /\ Token'
  <2>1. UNCHANGED <<deleted, job, msg, req, run, stuck, overridden>>
    BY <1>1 DEF AdminAcquire, jobVars
  <2>2. CASE UNCHANGED <<locked, adm>>
    <3>1. AdminsKeep
      BY <2>2 DEF AdminsKeep, AdminHolds
    <3>2. Delivery' /\ AdminDelivery' /\ RequestsKeep /\ JobsKeep
      BY <1>0, <2>1, <2>2, DeliveryStays
    <3> QED
      BY <2>1, <2>2, <3>1, <3>2, TokenStays DEF AdminInv, Token, groupVars
  <2>3. CASE ~UNCHANGED <<locked, adm>>
    <3>1. /\ ~locked /\ ~deleted /\ locked' = TRUE
          /\ adm' = [adm EXCEPT ![a] = [IdleAdmin EXCEPT !.pc = "start", !.ds = d]]
      BY <1>1, <2>3 DEF AdminAcquire
    <3>2. /\ \A b \in Admins \ {a} : adm'[b] = adm[b]
          /\ adm'[a].pc = "start"
      BY <1>0, <3>1 DEF IdleAdmin
    <3>3. Delivery' /\ AdminDelivery' /\ RequestsKeep /\ JobsKeep
      BY <1>0, <2>1, <3>2, DeliveryStays
    <3>4. \A b \in Admins : AdminHolds(b)' <=> b = a \/ AdminHolds(b)
      BY <3>2 DEF AdminHolds
    <3>5. OneToken => OneToken'
      BY <2>1, <3>1, <3>3, <3>4 DEF OneToken, RequestsKeep, JobsKeep, Quiet
    <3> QED
      BY <2>1, <3>3, <3>5 DEF AdminInv, Token
  <2> QED
    BY <2>2, <2>3
<1>2. CASE AdminStart(a)
  <2> DEFINE d == adm[a].ds
  <2>1. /\ adm[a].pc = "start"
        /\ UNCHANGED <<deleted, msg, req, run, stuck, overridden>>
    BY <1>2 DEF AdminStart
  <2>2. CASE locked' = FALSE /\ Answer(a) /\ UNCHANGED job
    <3>1. /\ \A b \in Admins \ {a} : adm'[b] = adm[b]
          /\ adm'[a].pc = "idle"
      BY <1>0, <2>2 DEF Answer, IdleAdmin
    <3>2. Delivery' /\ AdminDelivery' /\ RequestsKeep /\ JobsKeep
      BY <1>0, <2>1, <2>2, <3>1, DeliveryStays
    <3>3. AdminHolds(a) /\ \A b \in Admins : AdminHolds(b)' <=> b # a /\ AdminHolds(b)
      BY <2>1, <3>1 DEF AdminHolds
    <3>4. OneToken => OneToken'
      BY <2>1, <2>2, <3>2, <3>3 DEF OneToken, RequestsKeep, JobsKeep, Quiet
    <3> QED
      BY <2>1, <3>2, <3>4 DEF AdminInv, Token
  <2>3. CASE /\ adm' = [adm EXCEPT ![a] = [IdleAdmin EXCEPT !.pc = "lost"]]
             /\ UNCHANGED <<job, locked>>
    <3>1. /\ \A b \in Admins \ {a} : adm'[b] = adm[b]
          /\ adm'[a].pc = "lost"
      BY <1>0, <2>3 DEF IdleAdmin
    <3>2. Delivery' /\ AdminDelivery' /\ RequestsKeep /\ JobsKeep
      BY <1>0, <2>1, <2>3, <3>1, DeliveryStays
    <3>3. AdminsKeep
      BY <2>1, <3>1 DEF AdminHolds, AdminsKeep
    <3> QED
      BY <2>1, <2>3, <3>2, <3>3, TokenStays DEF AdminInv, Token, groupVars
  <2>4. ASSUME NEW j \in FreeJobs, NEW encode_only \in BOOLEAN,
               job' = [job EXCEPT ![j] =
                         [ds |-> d, encode_only |-> encode_only, cancel |-> FALSE]],
               adm' = [adm EXCEPT ![a].pc = "queue", ![a].job = j],
               UNCHANGED locked
        PROVE  Delivery' /\ AdminDelivery' /\ Token'
    <3>1. j \in Jobs /\ job[j] = None /\ msg[j] = "none"
      BY <1>0 DEF FreeJobs, AdminInv, AdminShape, RowsBut
    <3>2. /\ job'[j].ds = d
          /\ \A i \in Jobs \ {j} : job'[i] = job[i]
      BY <1>0, <2>4, <3>1
    <3>3. /\ \A b \in Admins \ {a} : adm'[b] = adm[b]
          /\ adm'[a].pc = "queue" /\ adm'[a].job = j /\ adm'[a].ds = d
      BY <1>0, <2>4 DEF AdminRecord
    <3>4. \A h \in Requests : req[h].pc = "queue" => req[h].job \in Jobs \ {j}
      BY <3>1 DEF AdminInv, AdminShape, Shape, RequestShape, RowsBut
    <3>5. \A b \in Admins : adm[b].pc = "queue" => adm[b].job \in Jobs \ {j}
      BY <3>1 DEF AdminInv, AdminShape, AdminFields
    <3> HIDE DEF d
    <3>6. Delivery'
      BY <1>0, <2>1, <3>2, <3>4 DEF Delivery
    <3>7. AdminDelivery'
      BY <1>0, <2>1, <3>1, <3>2, <3>3, <3>4, <3>5 DEF AdminDelivery
    <3>8. RequestsKeep /\ JobsKeep /\ AdminsKeep
      BY <2>1, <3>3 DEF RequestsKeep, JobsKeep, AdminsKeep, Holds, Carries, LostJob, Live,
                           AdminHolds
    <3> QED
      BY <2>1, <2>4, <3>6, <3>7, <3>8, TokenStays DEF AdminInv, Token, groupVars
  <2> QED
    BY <1>2, <2>2, <2>3, <2>4 DEF AdminStart
<1>3. CASE AdminQueue(a)
  <2> DEFINE j == adm[a].job
  <2>1. /\ adm[a].pc = "queue" /\ AdminHolds(a) /\ j \in Jobs /\ msg[j] = "none"
        /\ msg' = [msg EXCEPT ![j] = "queued"]
        /\ UNCHANGED <<groupVars, job, req, run, stuck, overridden>>
    BY <1>0, <1>3 DEF AdminQueue, AdminDelivery, AdminHolds, AdminInv, AdminShape, AdminFields
  <2>2. /\ \A b \in Admins \ {a} : adm'[b] = adm[b]
        /\ adm'[a].pc = "idle"
    BY <1>0, <1>3 DEF AdminQueue, Answer, IdleAdmin
  <2>3. \A b \in Admins : AdminHolds(b)' <=> b # a /\ AdminHolds(b)
    BY <2>2 DEF AdminHolds
  <2>4. msg'[j] = "queued" /\ \A i \in Jobs \ {j} : msg'[i] = msg[i]
    BY <1>0, <2>1
  <2>5. \A i \in Jobs : Carries(i)' <=> i = j \/ Carries(i)
    BY <2>1, <2>4 DEF Carries, LostJob, Live
  <2>6. Delivery'
    <3>1. \A h \in Requests : req[h].pc = "queue" => req[h].job # j /\ req[h].job \in Jobs
      BY <2>1 DEF AdminInv, AdminDelivery, AdminShape, Shape, RequestShape
    <3>2. \A w \in Workers : run[w].pc # "idle" => run[w].job # j /\ run[w].job \in Jobs
      BY <2>1 DEF AdminInv, Delivery, AdminShape, Shape, RunShape
    <3> QED
      BY <1>0, <2>1, <2>4, <3>1, <3>2 DEF Delivery
  <2>7. AdminDelivery'
    <3>1. \A b \in Admins \ {a} : adm[b].pc = "queue" => adm[b].job # j /\ adm[b].job \in Jobs
      BY <1>0, <2>1 DEF AdminInv, AdminShape, AdminFields, AdminDelivery
    <3> QED
      BY <1>0, <2>1, <2>2, <2>4, <3>1 DEF AdminDelivery
  <2>8. OneToken => OneToken'
    BY <2>1, <2>3, <2>5 DEF OneToken, Holds, groupVars, Quiet
  <2> QED
    BY <2>1, <2>6, <2>7, <2>8 DEF AdminInv, Token
<1>4. CASE AdminLose(a)
  <2>1. /\ UNCHANGED <<groupVars, job, msg, req, run, stuck, overridden>>
        /\ adm[a].pc \in {"start", "queue"}
    BY <1>4 DEF AdminLose, AdminStarting, jobVars
  <2>2. /\ \A b \in Admins \ {a} : adm'[b] = adm[b]
        /\ adm'[a].pc = "lost"
    BY <1>0, <1>4 DEF AdminLose, IdleAdmin
  <2>3. Delivery' /\ AdminDelivery' /\ RequestsKeep /\ JobsKeep
    BY <1>0, <2>1, <2>2, DeliveryStays
  <2>4. AdminsKeep
    BY <2>1, <2>2 DEF AdminHolds, AdminsKeep
  <2> QED
    BY <2>1, <2>3, <2>4, TokenStays DEF AdminInv, Token
<1> QED
  BY <1>1, <1>2, <1>3, <1>4

\* The forms leave the token alone, or overrode it.
LEMMA FormToken ==
  ASSUME AdminInv, NEW a \in Admins,
         \/ \E d \in Sets : OpenForm(a, d)
         \/ SaveForm(a) \/ LoadSettings(a) \/ SaveSettings(a)
  PROVE  Delivery' /\ AdminDelivery' /\ Token'
<1>0. /\ Delivery /\ AdminDelivery /\ adm \in [Admins -> AdminRecord]
      /\ overridden \in BOOLEAN
  BY DEF AdminInv, AdminShape, AdminTypeOK, AdminRecord, Shape, TypeOK
<1>1. /\ adm[a].pc \in {"idle", "form", "settings"}
      /\ UNCHANGED <<job, msg, req, run, stuck>>
  BY DEF OpenForm, LoadSettings, SaveForm, SaveSettings, jobVars
<1>2. \A b \in Admins :
        IF b = a THEN adm'[b].pc \in {"idle", "form", "settings"} ELSE adm'[b] = adm[b]
  <2>1. ASSUME NEW r, adm' = [adm EXCEPT ![a] = r], r.pc \in {"idle", "form", "settings"}
        PROVE  \A b \in Admins :
                 IF b = a THEN adm'[b].pc \in {"idle", "form", "settings"} ELSE adm'[b] = adm[b]
    BY <1>0, <2>1
  <2>2. ASSUME NEW d \in Sets, OpenForm(a, d)
        PROVE  \A b \in Admins :
                 IF b = a THEN adm'[b].pc \in {"idle", "form", "settings"} ELSE adm'[b] = adm[b]
    <3> DEFINE r == [IdleAdmin EXCEPT !.pc = "form", !.ds = d, !.seen = state[d]]
    <3>1. r.pc = "form"
      BY DEF IdleAdmin
    <3>2. adm' = [adm EXCEPT ![a] = r]
      BY <2>2 DEF OpenForm
    <3> HIDE DEF r
    <3> QED
      BY <2>1, <3>1, <3>2
  <2>3. CASE LoadSettings(a)
    <3> DEFINE r == [IdleAdmin EXCEPT !.pc = "settings", !.locked = locked, !.deleted = deleted]
    <3>1. r.pc = "settings"
      BY DEF IdleAdmin
    <3>2. adm' = [adm EXCEPT ![a] = r]
      BY <2>3 DEF LoadSettings
    <3> HIDE DEF r
    <3> QED
      BY <2>1, <3>1, <3>2
  <2>4. CASE SaveForm(a) \/ SaveSettings(a)
    <3>1. adm' = [adm EXCEPT ![a] = IdleAdmin]
      BY <2>4 DEF SaveForm, SaveSettings, Answer
    <3>2. IdleAdmin.pc = "idle"
      BY DEF IdleAdmin
    <3> QED
      BY <2>1, <3>1, <3>2
  <2> QED
    BY <2>2, <2>3, <2>4
<1>3. Delivery' /\ AdminDelivery' /\ RequestsKeep /\ JobsKeep
  BY <1>0, <1>1, <1>2, DeliveryStays
<1>4. AdminsKeep
  BY <1>1, <1>2 DEF AdminsKeep, AdminHolds
<1>5. ~overridden' => ~overridden /\ UNCHANGED groupVars
  BY <1>0 DEF OpenForm, SaveForm, LoadSettings, SaveSettings, groupVars
<1> QED
  BY <1>1, <1>3, <1>4, <1>5, TokenStays DEF AdminInv, Token

\* Unlock and Queue override the token, unless nobody had it; the cleanup leaves the lock
\* of a job it deleted to nobody, or its run gives it back.
LEMMA ForceToken ==
  ASSUME AdminInv,
         \/ \E d \in Sets : AdminForce(d) \/ Collect(d)
         \/ \E j \in Jobs : Requeue(j)
         \/ Unlock
         \/ Sweep
         \/ \E w \in Workers : StopGone(w) \/ \E j \in Jobs : DropMessage(w, j)
  PROVE  Delivery' /\ AdminDelivery' /\ Token'
<1>0. /\ Delivery /\ AdminDelivery /\ adm \in [Admins -> AdminRecord] /\ Shape
      /\ msg \in [Jobs -> {"none", "queued", "unacked", "done", "lost"}]
      /\ \A w \in Workers : run[w].pc # "idle" => run[w].job \in Jobs
      /\ \A h \in Requests : req[h].pc = "queue" => req[h].job \in Jobs
      /\ \A a \in Admins : adm[a].pc = "queue" => adm[a].job \in Jobs
      /\ run \in [Workers -> [pc : RunPc, job : Jobs \cup {None},
                              mem : State \cup {None}, log : Nat]]
  BY DEF AdminInv, AdminShape, AdminTypeOK, AdminRecord, AdminFields, Shape, TypeOK,
         RequestShape, RunShape
<1>1. CASE Sweep \/ \E d \in Sets : AdminForce(d) \/ Collect(d)
  <2>1. UNCHANGED <<groupVars, job, msg, req, run, adm, stuck, overridden>>
    BY <1>1 DEF Sweep, AdminForce, Collect, jobVars, groupVars, vars
  <2>2. Delivery' /\ AdminDelivery' /\ RequestsKeep /\ JobsKeep
    BY <1>0, <2>1, DeliveryStays
  <2>3. AdminsKeep
    BY <2>1 DEF AdminsKeep, AdminHolds
  <2> QED
    BY <2>1, <2>2, <2>3, TokenStays DEF AdminInv, Token
<1>2. ASSUME NEW j \in Jobs, Requeue(j)
      PROVE  Delivery' /\ AdminDelivery' /\ Token'
  <2>1. /\ msg[j] \in {"none", "done", "lost"} /\ overridden' = TRUE
        /\ \A h \in Requests : req[h].job # j
        /\ \A a \in Admins : adm[a].job # j
        /\ msg' = [msg EXCEPT ![j] = "queued"]
        /\ UNCHANGED <<job, req, run, adm>>
    BY <1>2 DEF Requeue
  <2>2. \A w \in Workers : run[w].pc # "idle" => run[w].job # j
    BY <2>1 DEF AdminInv, Delivery
  <2>3. Delivery'
    BY <1>0, <2>1, <2>2 DEF Delivery
  <2>4. AdminDelivery'
    BY <1>0, <2>1 DEF AdminDelivery
  <2> QED
    BY <2>1, <2>3, <2>4 DEF Token
<1>3. CASE Unlock
  <2>1. /\ locked' = FALSE /\ stuck' = FALSE /\ overridden' = (overridden \/ Held)
        /\ req' = [h \in Requests |-> IF req[h].pc = "lost" THEN IdleRequest ELSE req[h]]
        /\ adm' = [a \in Admins |-> IF adm[a].pc = "lost" THEN IdleAdmin ELSE adm[a]]
        /\ msg' = [j \in Jobs |-> IF LostJob(j) THEN "done" ELSE msg[j]]
        /\ UNCHANGED <<deleted, job, run>>
    BY <1>3 DEF Unlock
  <2>2. /\ \A h \in Requests : IF req[h].pc = "lost" THEN req'[h].pc = "idle"
                                                      ELSE req'[h] = req[h]
        /\ \A a \in Admins : IF adm[a].pc = "lost" THEN adm'[a].pc = "idle"
                                                    ELSE adm'[a] = adm[a]
    BY <2>1 DEF IdleRequest, IdleAdmin
  <2>3. \A h \in Requests : req'[h].pc = "queue" => req'[h] = req[h]
    BY <2>2
  <2>4. \A a \in Admins : adm'[a].pc = "queue" => adm'[a] = adm[a]
    BY <2>2
  <2>5. Delivery' /\ AdminDelivery'
    BY <1>0, <2>1, <2>3, <2>4 DEF Delivery, AdminDelivery, LostJob
  <2>6. ~overridden' => OneToken'
    <3> SUFFICES ASSUME ~Held
                 PROVE  OneToken'
      BY <2>1
    <3>1. /\ \A h \in Requests : ~Holds(h)'
          /\ \A a \in Admins : ~AdminHolds(a)'
      BY <2>2 DEF Held, Starting, AdminStarting, Holds, AdminHolds
    <3>2. \A j \in Jobs : ~Carries(j)'
      BY <2>1 DEF Held, Carries, LostJob, Live
    <3> QED
      BY <2>1, <3>1, <3>2 DEF OneToken, Quiet
  <2> QED
    BY <2>5, <2>6 DEF Token
<1>4. ASSUME NEW w \in Workers, StopGone(w)
      PROVE  Delivery' /\ AdminDelivery' /\ Token'
  <2> DEFINE j == run[w].job
  <2>1. /\ Running(w) /\ locked' = FALSE
        /\ run' = [run EXCEPT ![w].pc = "ack"]
        /\ UNCHANGED <<deleted, job, msg, req, adm, stuck, overridden>>
    BY <1>4 DEF StopGone, jobVars
  <2>2. j \in Jobs /\ Carries(j) /\ msg[j] = "unacked"
    BY <1>0, <2>1, RunningIsLive DEF Running, Delivery, Carries
  <2>3. /\ \A v \in Workers \ {w} : run'[v] = run[v]
        /\ run'[w].pc = "ack" /\ run'[w].job = j
    BY <1>0, <2>1
  <2>4. \A i \in Jobs : Carries(i)' <=> i # j /\ Carries(i)
    BY <2>1, <2>2, <2>3 DEF Carries, LostJob, Live
  <2>5. Delivery' /\ AdminDelivery'
    BY <1>0, <2>1, <2>3 DEF Running, Delivery, AdminDelivery
  <2>6. OneToken => OneToken'
    BY <2>1, <2>2, <2>4 DEF OneToken, Holds, AdminHolds, Quiet
  <2> QED
    BY <2>1, <2>5, <2>6 DEF AdminInv, Token
<1>5. ASSUME NEW w \in Workers, NEW j \in Jobs, DropMessage(w, j)
      PROVE  Delivery' /\ AdminDelivery' /\ Token'
  <2>1. /\ msg[j] = "queued" /\ msg' = [msg EXCEPT ![j] = "done"] /\ stuck' = locked
        /\ UNCHANGED <<groupVars, job, req, run, adm, overridden>>
    BY <1>5 DEF DropMessage
  <2>2. \A i \in Jobs : Carries(i)' <=> i # j /\ Carries(i)
    BY <1>0, <2>1 DEF Carries, LostJob, Live
  <2>3. Delivery' /\ AdminDelivery'
    BY <1>0, <2>1 DEF Delivery, AdminDelivery
  <2>4. Carries(j)
    BY <2>1 DEF Carries, Live
  <2>5. OneToken => OneToken'
    BY <2>1, <2>2, <2>4 DEF OneToken, Holds, AdminHolds, groupVars, Quiet
  <2> QED
    BY <2>1, <2>3, <2>5 DEF AdminInv, Token
<1> QED
  BY <1>1, <1>2, <1>3, <1>4, <1>5

\* The inductive invariant: types, the whereabouts of messages, and the token.
THEOREM AdminInvariance ==
  ASSUME NoDuplication
  PROVE  AdminSpec => []AdminInv
<1>1. AdminInit => AdminInv
  <2> SUFFICES ASSUME AdminInit PROVE AdminInv
    OBVIOUS
  <2>1. Delivery /\ AdminDelivery
    BY DEF AdminInit, Init, IdleRequest, IdleRun, IdleAdmin, Delivery, AdminDelivery
  <2>2. OneToken
    BY DEF AdminInit, Init, IdleRequest, IdleAdmin, OneToken, Holds, AdminHolds, Carries,
           LostJob, Live, Quiet
  <2> QED
    BY <2>1, <2>2, AdminInitShape DEF AdminInv, Token
<1>2. AdminInv /\ [AdminNext]_allVars => AdminInv'
  <2> SUFFICES ASSUME AdminInv, [AdminNext]_allVars PROVE AdminInv'
    OBVIOUS
  <2>1. AdminShape'
    BY AdminShapeStep DEF AdminInv
  <2>2. CASE AdminNext
    BY <2>1, <2>2, EngineToken, JobButtonToken, FormToken, ForceToken
       DEF AdminNext, AdminStep, AdminInv
  <2>3. CASE UNCHANGED allVars
    <3>1. UNCHANGED <<groupVars, job, msg, req, run, adm, stuck, overridden>>
      BY <2>3 DEF allVars, adminVars, vars, groupVars
    <3>2. Delivery' /\ AdminDelivery' /\ RequestsKeep /\ JobsKeep
      BY <3>1, DeliveryStays DEF AdminInv
    <3>3. AdminsKeep
      BY <3>1 DEF AdminsKeep, AdminHolds
    <3> QED
      BY <2>1, <3>1, <3>2, <3>3, TokenStays DEF AdminInv, Token
  <2> QED
    BY <2>2, <2>3
<1> QED
  BY <1>1, <1>2, PTL DEF AdminSpec

\* Two runs have two live jobs, and one token has one.
LEMMA OneRun ==
  ASSUME AdminInv, ~overridden
  PROVE  OneRunPerGroup
<1> SUFFICES ASSUME NEW v \in Workers, NEW w \in Workers, Running(v), Running(w)
             PROVE  v = w
  BY DEF OneRunPerGroup
<1>1. /\ run[v].job \in Jobs /\ Live(run[v].job)
      /\ run[w].job \in Jobs /\ Live(run[w].job)
  BY RunningIsLive DEF AdminInv, AdminShape
<1>2. run[v].job = run[w].job
  BY <1>1 DEF AdminInv, Token, OneToken, Carries
<1> QED
  BY <1>2 DEF AdminInv, Delivery, Running

\* Requests and buttons share the lock: at most one run at a time, until somebody releases
\* the lock, takes it back or goes round it by hand.
THEOREM OneRunUnlessOverriddenHolds ==
  ASSUME NoDuplication
  PROVE  AdminSpec => []OneRunUnlessOverridden
<1>1. AdminInv => OneRunUnlessOverridden
  BY OneRun DEF OneRunUnlessOverridden
<1> QED
  BY <1>1, AdminInvariance, PTL

\* A lock nobody will release was left by a request that died, by the cleanup, or by a job
\* lost with its message acknowledged; the admin site loses no lock and leaves none behind.
THEOREM LockIsAccountedHolds ==
  ASSUME NoDuplication
  PROVE  AdminSpec => []LockIsAccounted
<1>1. AdminInv => LockIsAccounted
  BY DEF AdminInv, Token, OneToken, Carries, LockIsAccounted, Held, Holds, AdminHolds,
         Starting, AdminStarting
<1> QED
  BY <1>1, AdminInvariance, PTL

\* A deleted group has no run, and neither a request nor a button starts one.
THEOREM DeletedStaysQuietHolds ==
  ASSUME NoDuplication
  PROVE  AdminSpec => []DeletedStaysQuiet
<1>1. AdminInv => DeletedStaysQuiet
  BY DEF AdminInv, Token, OneToken, Carries, Quiet, DeletedStaysQuiet, DeletedIsQuiet,
         Holds, AdminHolds, Starting, AdminStarting
<1> QED
  BY <1>1, AdminInvariance, PTL

-----------------------------------------------------------------------------
\* While nobody overrode the lock, a run that has not logged itself yet holds the log of
\* its set as the row has it; a run of a deleted job logs nothing.
AdminLog == overridden \/ LogFreshBut(gone)

\* The admin site writes no log, and the cleanup only the log of a set it deletes with
\* its jobs.
LEMMA AdminLogStep ==
  ASSUME AdminInv, AdminLog, [AdminNext]_allVars
  PROVE  AdminLog'
<1>0. /\ Shape /\ AdminTypeOK /\ RowsBut(gone) /\ Delivery
      /\ overridden \in BOOLEAN
      /\ \A w \in Workers : Running(w) => run[w].job \in Jobs /\ job[run[w].job] # None
  BY DEF AdminInv, AdminShape, AdminTypeOK, Shape, RunShape, Running, RowsBut, Delivery
<1>1. CASE EngineStep
  <2>1. /\ [Next]_vars /\ Spares(gone) /\ UNCHANGED <<gone, overridden>>
    BY <1>1 DEF EngineStep, Spares
  <2>2. ASSUME ~overridden
        PROVE  LogFreshBut(gone)'
    <3>1. OneRunPerGroup /\ LogFreshBut(gone)
      BY <2>2, OneRun DEF AdminLog
    <3> QED
      BY <1>0, <2>1, <3>1, LogFreshStep DEF LogFreshBut
  <2> QED
    BY <2>1, <2>2 DEF AdminLog
<1>2. CASE Sweep
  <2>1. /\ sweep \in Sets
        /\ log' = [log EXCEPT ![sweep] = 0]
        /\ gone' = gone \cup {j \in Jobs : job[j] # None /\ job[j].ds = sweep}
        /\ UNCHANGED <<job, run, overridden>>
    BY <1>0, <1>2 DEF Sweep, AdminTypeOK, jobVars
  <2>2. ASSUME NEW w \in Workers, Running(w), run[w].job \notin gone'
        PROVE  /\ run[w].job \notin gone
               /\ log'[job[run[w].job].ds] = log[job[run[w].job].ds]
    <3>1. run[w].job \in Jobs /\ job[run[w].job] # None
      BY <1>0, <2>2
    <3>2. run[w].job \notin gone /\ job[run[w].job].ds # sweep
      BY <2>1, <2>2, <3>1
    <3>3. job[run[w].job].ds \in Sets
      BY <1>0, <3>1 DEF Shape, TypeOK, JobRow
    <3> QED
      BY <1>0, <2>1, <3>2, <3>3 DEF Shape, TypeOK
  <2> QED
    BY <2>1, <2>2 DEF AdminLog, LogFreshBut, Running
<1>3. ASSUME UNCHANGED <<log, gone>>, ~overridden' => ~overridden,
             \A j \in Jobs : job[j] # None => job'[j] = job[j],
             \A w \in Workers : run'[w] = run[w] \/ run'[w].pc = "ack"
      PROVE  AdminLog'
  BY <1>0, <1>3 DEF AdminLog, LogFreshBut, Running
<1>4. ASSUME NEW a \in Admins, AdminStart(a)
      PROVE  AdminLog'
  <2>1. UNCHANGED <<log, gone, overridden, run>>
    BY <1>4 DEF AdminStart
  <2>2. \A j \in Jobs : job[j] # None => job'[j] = job[j]
    BY <1>0, <1>4 DEF AdminStart, FreeJobs, Shape, TypeOK
  <2> QED
    BY <1>3, <2>1, <2>2
<1>5. ASSUME \/ \E a \in Admins :
                  \/ \E d \in Sets : AdminAcquire(a, d) \/ OpenForm(a, d)
                  \/ AdminQueue(a) \/ AdminLose(a)
                  \/ SaveForm(a) \/ LoadSettings(a) \/ SaveSettings(a)
             \/ \E d \in Sets : AdminForce(d) \/ Collect(d)
             \/ \E j \in Jobs : Requeue(j)
             \/ Unlock
             \/ \E w \in Workers, j \in Jobs : DropMessage(w, j)
             \/ UNCHANGED allVars
      PROVE  AdminLog'
  <2>1. UNCHANGED <<log, gone, job, run>>
    BY <1>5 DEF AdminAcquire, OpenForm, AdminQueue, AdminLose, SaveForm, LoadSettings,
       SaveSettings, AdminForce, Collect, Requeue, Unlock, DropMessage, setVars, jobVars,
       vars, allVars, adminVars
  <2>2. ~overridden' => ~overridden
    BY <1>0, <1>5 DEF AdminAcquire, OpenForm, AdminQueue, AdminLose, SaveForm, LoadSettings,
       SaveSettings, AdminForce, Collect, Requeue, Unlock, DropMessage, allVars, adminVars
  <2> QED
    BY <1>3, <2>1, <2>2
<1>6. ASSUME NEW w \in Workers, StopGone(w)
      PROVE  AdminLog'
  <2>1. UNCHANGED <<log, gone, overridden, job>> /\ run' = [run EXCEPT ![w].pc = "ack"]
    BY <1>6 DEF StopGone, setVars, jobVars
  <2>2. \A v \in Workers : run'[v] = run[v] \/ run'[v].pc = "ack"
    BY <1>0, <2>1 DEF Shape, TypeOK
  <2> QED
    BY <1>3, <2>1, <2>2
<1> QED
  BY <1>1, <1>2, <1>4, <1>5, <1>6 DEF AdminNext, AdminStep

\* Runs that follow each other, started by clients or by buttons, each add one entry to the
\* log of their set as it is.
THEOREM LogKeptUnlessOverriddenHolds ==
  ASSUME NoDuplication
  PROVE  AdminSpec => LogKeptUnlessOverridden
<1>1. AdminInit => AdminLog
  BY DEF AdminInit, Init, IdleRun, AdminLog, LogFreshBut, Running
<1>2. AdminInv /\ AdminLog /\ [AdminNext]_allVars => AdminLog'
  BY AdminLogStep
<1>3. AdminInv /\ AdminLog =>
        \A w \in Workers :
          (AppendLog(w) /\ ~overridden /\ run[w].job \notin gone) =>
            LET d == job[run[w].job].ds IN log'[d] = log[d] + 1
  <2> SUFFICES ASSUME AdminInv, AdminLog, NEW w \in Workers, AppendLog(w), ~overridden,
                      run[w].job \notin gone
               PROVE  log'[job[run[w].job].ds] = log[job[run[w].job].ds] + 1
    OBVIOUS
  <2>1. Running(w) /\ run[w].pc # "release"
    BY DEF AppendLog, Running
  <2>2. job[run[w].job].ds \in Sets
    <3>1. Located(gone)
      BY DEF AdminInv, AdminShape, Located
    <3> QED
      BY <2>1, <3>1, RunSet
  <2>3. run[w].log = log[job[run[w].job].ds]
    BY <2>1 DEF AdminLog, LogFreshBut
  <2> QED
    BY <2>2, <2>3 DEF AppendLog, AdminInv, AdminShape, Shape, TypeOK
<1> QED
  BY <1>1, <1>2, <1>3, AdminInvariance, PTL DEF AdminSpec, LogKeptUnlessOverridden

-----------------------------------------------------------------------------
\* Run w saw its set in progress, or is in its handler of exceptions, and has not come to
\* its log.
Moving(w) ==
  /\ run[w].pc \notin {"log", "log_failed", "release", "ack"}
  /\ run[w].pc = "error" \/ run[w].mem \in InProgress

\* Job j will bring its set out of an in-progress state, or give it up: its row is there,
\* its lock is not released, and so does the run that executes it, if any.
Mover(j) ==
  /\ j \notin gone /\ Live(j)
  /\ \A w \in Workers : run[w].job = j => Moving(w)

\* Somebody will move set d on, or the exceptions of InProgressIsAccounted apply.
Accounted(d) ==
  \/ d \in adrift \cup stranded
  \/ \E h \in Requests : req[h].pc = "lost" /\ req[h].ds = d
  \/ \E h \in Requests : req[h].pc = "queue" /\ req[h].ds = d /\ req[h].job \notin gone
  \/ \E a \in Admins : adm[a].pc = "lost" /\ adm[a].ds = d
  \/ \E a \in Admins : adm[a].pc = "queue" /\ adm[a].ds = d /\ adm[a].job \notin gone
  \/ \E j \in Jobs : Mover(j) /\ job[j].ds = d

AllAccounted == \A d \in Sets : state[d] \in InProgress => Accounted(d)

\* The buttons and the forms that write a state respect the unique index, and the cleanup
\* empties the slot.
LEMMA AdminSlotStep ==
  ASSUME AdminInv, Slot, [AdminNext]_allVars
  PROVE  Slot'
<1> USE DEF Slot, Fits
<1>0. /\ state \in [Sets -> State \cup {None}]
      /\ None \notin BLOCKING_STATES
      /\ AdminTypeOK /\ AdminFields /\ Located(gone)
  BY EngineAssumption DEF AdminInv, AdminShape, Shape, TypeOK, Located, BLOCKING_STATES, State,
                          EngineAssumption
<1>1. CASE EngineStep
  <2>1. [Next]_vars
    BY <1>1 DEF EngineStep
  <2> QED
    BY <1>0, <2>1, SlotStep
<1>2. ASSUME NEW d \in Sets, NEW target, Fits(d, target), state' = [state EXCEPT ![d] = target]
      PROVE  Slot'
  BY <1>0, <1>2
<1>3. CASE UNCHANGED state
  BY <1>3
<1>4. ASSUME NEW a \in Admins, AdminStart(a) \/ SaveForm(a)
      PROVE  Slot'
  <2>1. adm[a].ds \in Sets
    BY <1>0, <1>4 DEF AdminStart, SaveForm, AdminFields
  <2> QED
    BY <1>2, <1>3, <1>4, <2>1 DEF AdminStart, SaveForm
<1>5. ASSUME NEW d \in Sets, AdminForce(d)
      PROVE  Slot'
  BY <1>2, <1>5 DEF AdminForce
<1>6. CASE Sweep
  BY <1>0, <1>6 DEF Sweep
<1>7. ASSUME \/ \E a \in Admins :
                  \/ \E d \in Sets : AdminAcquire(a, d) \/ OpenForm(a, d)
                  \/ AdminQueue(a) \/ AdminLose(a) \/ LoadSettings(a) \/ SaveSettings(a)
             \/ \E d \in Sets : Collect(d)
             \/ \E j \in Jobs : Requeue(j)
             \/ Unlock
             \/ \E w \in Workers : StopGone(w) \/ \E j \in Jobs : DropMessage(w, j)
             \/ UNCHANGED allVars
      PROVE  UNCHANGED state
  BY <1>7 DEF AdminAcquire, OpenForm, AdminQueue, AdminLose, LoadSettings, SaveSettings,
     Collect, Requeue, Unlock, StopGone, DropMessage, setVars, vars, allVars
<1> QED
  BY <1>1, <1>3, <1>4, <1>5, <1>6, <1>7 DEF AdminNext, AdminStep

\* A run that is to move its set on and leaves the row in progress is not through with it,
\* or gives it up.
LEMMA RunMovesOn ==
  ASSUME Located(gone), Slot, NEW w \in Workers, Running(w), Moving(w),
         state[job[run[w].job].ds] \in InProgress,
         state'[job[run[w].job].ds] \in InProgress,
         WorkerStep(w) \/ Raise(w) \/ WriteFails(w)
  PROVE  Moving(w)' \/ job[run[w].job].ds \in stranded'
<1> DEFINE d == job[run[w].job].ds
<1>0. /\ state \in [Sets -> State \cup {None}] /\ d \in Sets
      /\ run \in [Workers -> [pc : RunPc, job : Jobs \cup {None},
                              mem : State \cup {None}, log : Nat]]
  BY RunSet DEF Located, Shape, TypeOK
<1>10. GiveUp(run[w].job) => d \in stranded'
  BY <1>0 DEF GiveUp
<1> HIDE DEF d
<1>1. \A target : Fits(d, target)
  BY <1>0, StateFacts DEF Slot, Fits, d
<1>2. ASSUME NEW target, NEW next, Advance(w, target, next), run[w].mem \in InProgress,
             target \notin InProgress \/ (target \in InProgress /\ next = "dedupe")
      PROVE  Moving(w)'
  <2>1. CASE Goto(w, "error")
    BY <1>0, <2>1 DEF Goto, Moving
  <2>2. CASE state' = [state EXCEPT ![d] = target] /\ Remember(w, target, next)
    BY <1>0, <1>2, <2>2 DEF Remember, Moving, d
  <2> QED
    BY <1>1, <1>2, <2>1, <2>2 DEF Advance, d
<1>3. CASE SetEncoded(w) \/ SetDeduplicated(w)
  BY <1>2, <1>3, StateFacts DEF SetEncoded, SetDeduplicated, Moving
<1>4. CASE StartDedupe(w)
  BY <1>2, <1>4 DEF StartDedupe, Moving
<1>5. CASE Begin(w) \/ Encode(w) \/ Dedupe(w) \/ Raise(w)
  BY <1>0, <1>5 DEF Begin, Encode, Dedupe, Raise, Goto, Moving
<1>6. ASSUME NEW target \in {"ENCODING_FAILED", "DEDUPLICATION_FAILED"},
             state' = [state EXCEPT ![d] = target]
      PROVE  FALSE
  BY <1>0, <1>6, StateFacts DEF d
<1>7. ~StopCancelled(w)
  <2>1. InProgress = DOMAIN CANCELLED_STATES
    BY DEF InProgress, CANCELLED_STATES
  <2>2. \A mem \in InProgress :
          CANCELLED_STATES[mem] \in {"ENCODING_FAILED", "DEDUPLICATION_FAILED"}
    BY <2>1, CancelledStateType
  <2> QED
    BY <1>6, <2>1, <2>2 DEF StopCancelled, Moving, d
<1>8. CASE Fail(w)
  <2>1. FailedState(run[w].mem) \in {"ENCODING_FAILED", "DEDUPLICATION_FAILED"}
    BY DEF FailedState
  <2> QED
    BY <1>6, <1>8, <1>10, <2>1 DEF Fail, d
<1>11. CASE WriteFails(w)
  <2>1. CASE run[w].pc \in DOMAIN Writes /\ Remember(w, Writes[run[w].pc], "error")
    BY <1>0, <2>1 DEF Remember, Moving
  <2>2. CASE GiveUp(run[w].job)
    BY <1>10, <2>2 DEF d
  <2> QED
    BY <1>11, <2>1, <2>2 DEF WriteFails
<1>9. ~AppendLog(w) /\ ~Release(w) /\ ~Ack(w)
  BY DEF AppendLog, Release, Ack, Running, Moving
<1> QED
  BY <1>3, <1>4, <1>5, <1>7, <1>8, <1>9, <1>11 DEF WorkerStep, d

\* A run changes by a step of its worker.
LEMMA RunChanges ==
  ASSUME Located(gone), [Next]_vars, NEW w \in Workers
  PROVE  \/ run'[w] = run[w]
         \/ Deliver(w) \/ WorkerStep(w) \/ Raise(w) \/ WriteFails(w)
         \/ Crash(w) \/ ReleaseFails(w) \/ Kill(w)
<1>0. run \in [Workers -> [pc : RunPc, job : Jobs \cup {None},
                           mem : State \cup {None}, log : Nat]]
  BY DEF Located, Shape, TypeOK
<1>1. ASSUME NEW v \in Workers, v # w,
             \/ Deliver(v) \/ WorkerStep(v) \/ Raise(v) \/ WriteFails(v)
             \/ Crash(v) \/ ReleaseFails(v) \/ Kill(v)
      PROVE  run'[w] = run[w]
  BY <1>0, <1>1 DEF Deliver, WorkerStep, Raise, WriteFails, Crash, ReleaseFails, Kill, Begin,
     Encode, SetEncoded, StartDedupe, Dedupe, SetDeduplicated, AppendLog, StopCancelled, Fail,
     Release, Ack, Advance, Goto, Remember
<1>2. ASSUME \/ \E h \in Requests :
                  \/ \E endpoint \in DOMAIN Admits, d \in Sets : Receive(h, endpoint, d)
                  \/ ConfigRead(h) \/ RequestStep(h) \/ LoseRequest(h)
             \/ \E d \in Sets : Create(d)
             \/ SoftDelete
             \/ \E j \in Jobs : Cancel(j) \/ Redeliver(j) \/ RedeliverEarly(j)
             \/ \E v \in Workers : LoadFails(v)
             \/ UNCHANGED vars
      PROVE  UNCHANGED run
  BY <1>2 DEF Receive, ConfigRead, RequestStep, LoseRequest, Upload, Ready, Approve, Reject,
              Clear, Acquire, Start, Queue, ConfigCommit, SetState, Create, SoftDelete, Cancel,
              Redeliver, RedeliverEarly, LoadFails, vars
<1> QED
  BY <1>1, <1>2 DEF Next

\* A worker gives up its job or goes on with it.
LEMMA RunKeepsJob ==
  ASSUME Located(gone), NEW w \in Workers, WorkerStep(w) \/ Raise(w) \/ WriteFails(w)
  PROVE  run'[w].job \in {run[w].job, None}
<1>0. run \in [Workers -> [pc : RunPc, job : Jobs \cup {None},
                           mem : State \cup {None}, log : Nat]]
  BY DEF Located, Shape, TypeOK
<1>1. ASSUME NEW next, Goto(w, next)
      PROVE  run'[w].job = run[w].job
  BY <1>0, <1>1 DEF Goto
<1>2. ASSUME NEW mem, NEW next, Remember(w, mem, next)
      PROVE  run'[w].job = run[w].job
  BY <1>0, <1>2 DEF Remember
<1>3. CASE Ack(w)
  BY <1>0, <1>3 DEF Ack, IdleRun
<1> QED
  BY <1>1, <1>2, <1>3 DEF WorkerStep, Raise, WriteFails, Begin, Encode, SetEncoded,
     StartDedupe, Dedupe, SetDeduplicated, AppendLog, StopCancelled, Fail, Release, Advance

\* Requests, broker and workers leave the job to move its set on as long as the set is in
\* progress, or give the set up.
LEMMA MoverStays ==
  ASSUME Located(gone), Slot, EngineStep, NEW j \in Jobs, Mover(j), job[j].ds \in Sets,
         state[job[j].ds] \in InProgress, state'[job[j].ds] \in InProgress,
         job[j].ds \notin stranded'
  PROVE  Mover(j)'
<1>0. [Next]_vars /\ UNCHANGED gone /\ j # None
  BY EngineAssumption DEF EngineStep, EngineAssumption
<1>1. Live(j)'
  <2>1. \A w \in Workers : Release(w) \/ ReleaseFails(w) => run[w].job # j
    BY DEF Mover, Moving, Release, ReleaseFails
  <2>2. msg'[j] # "lost"
    BY <1>0, <2>1, LostStrands DEF Mover, Live
  <2> QED
    BY <1>0, <2>1, <2>2, LiveStays DEF Mover
<1>2. ASSUME NEW w \in Workers, run'[w].job = j
      PROVE  Moving(w)'
  <2>1. CASE run'[w] = run[w]
    BY <1>2, <2>1 DEF Mover, Moving
  <2>2. CASE Deliver(w)
    <3>1. PICK i \in Jobs :
            run' = [run EXCEPT ![w] = [pc |-> "begin", job |-> i,
                                       mem |-> state[job[i].ds], log |-> log[job[i].ds]]]
      BY <2>2 DEF Deliver
    <3>2. /\ run'[w].job = i /\ run'[w].mem = state[job[i].ds] /\ run'[w].pc = "begin"
      BY <3>1 DEF Located, Shape, TypeOK
    <3> QED
      BY <1>2, <3>2 DEF Moving
  <2>3. CASE WorkerStep(w) \/ Raise(w) \/ WriteFails(w)
    <3>1. run[w].job = j
      BY <1>0, <1>2, <2>3, RunKeepsJob
    <3>2. Moving(w)
      BY <3>1 DEF Mover
    <3>3. Running(w)
      BY <1>0, <3>1, <3>2 DEF Located, Shape, RunShape, Running, Moving
    <3> QED
      BY <2>3, <3>1, <3>2, <3>3, RunMovesOn
  <2>4. CASE Crash(w) \/ ReleaseFails(w) \/ Kill(w)
    BY <1>0, <1>2, <2>4 DEF Crash, ReleaseFails, Kill, IdleRun, Located, Shape, TypeOK
  <2> QED
    BY <1>0, <2>1, <2>2, <2>3, <2>4, RunChanges
<1> QED
  BY <1>0, <1>1, <1>2 DEF Mover

\* A job whose message a request or a button has just sent is executed by nobody yet.
LEMMA QueuedMoves ==
  ASSUME Located(gone), NEW j \in Jobs, j \notin gone, msg[j] = "none",
         msg'[j] = "queued", UNCHANGED <<run, gone>>
  PROVE  Mover(j)'
<1>1. \A w \in Workers : run[w].job # j
  BY EngineAssumption DEF Located, Delivery, Shape, RunShape, EngineAssumption
<1> QED
  BY <1>1 DEF Mover, Live

\* The transaction of process accounts for its set.
LEMMA StartAccounts ==
  ASSUME AdminShape, Located(gone), UNCHANGED gone, NEW d, NEW h \in Requests, Start(h),
         req'[h].pc = "queue", req'[h].ds = d
  PROVE  Accounted(d)'
<1>1. req'[h].job \in FreeJobs
  BY DEF Start, Reply, IdleRequest, Located, Shape, TypeOK
<1>2. req'[h].job \notin gone
  BY <1>1 DEF FreeJobs, AdminShape, AdminTypeOK
<1> QED
  BY <1>2 DEF Accounted

\* So does the delivery of its message, for a set that is in progress.
LEMMA DeliveryAccounts ==
  ASSUME Located(gone), EngineStep, NEW d, NEW w \in Workers, NEW j \in Jobs, Deliver(w),
         run'[w].job = j, job'[j].ds = d, msg[j] = "queued", Live(j)', state[d] \in InProgress
  PROVE  Accounted(d)'
<1>0. /\ run \in [Workers -> [pc : RunPc, job : Jobs \cup {None},
                              mem : State \cup {None}, log : Nat]]
      /\ UNCHANGED gone /\ j # None
  BY EngineAssumption DEF Located, Shape, TypeOK, EngineStep, EngineAssumption
<1>1. PICK i \in Jobs :
        run' = [run EXCEPT ![w] = [pc |-> "begin", job |-> i,
                                   mem |-> state[job[i].ds], log |-> log[job[i].ds]]]
  BY DEF Deliver
<1>2. /\ i = j /\ run'[w].mem = state[d] /\ run'[w].pc = "begin"
      /\ \A v \in Workers \ {w} : run'[v] = run[v]
  BY <1>0, <1>1 DEF Deliver
<1>3. Moving(w)'
  BY <1>2 DEF Moving
<1>4. \A v \in Workers \ {w} : run'[v].job # j
  BY <1>0, <1>2 DEF Located, Delivery, Shape, RunShape
<1>5. j \notin gone
  <2>1. run'[w] # run[w]
    BY <1>2 DEF Deliver
  <2> QED
    BY <2>1 DEF EngineStep
<1>6. Mover(j)'
  BY <1>0, <1>3, <1>4, <1>5 DEF Mover
<1> QED
  BY <1>6 DEF Accounted

\* What accounts for a set goes on to do so while requests, broker and workers take a step.
LEMMA AccountedStays ==
  ASSUME AdminShape, Located(gone), Slot, EngineStep, NEW d \in Sets, Accounted(d),
         state[d] \in InProgress, state'[d] = state[d]
  PROVE  Accounted(d)'
<1>0. /\ [Next]_vars /\ UNCHANGED <<adm, gone>>
      /\ adrift' = adrift \ {e \in Sets : state'[e] # state[e]}
      /\ req \in [Requests -> [pc : RequestPc, ds : Sets \cup {None},
                               seen : State \cup {None}, job : Jobs \cup {None}]]
  BY DEF EngineStep, Located, Shape, TypeOK
<1>1. CASE d \in adrift \/ d \in stranded'
  BY <1>0, <1>1 DEF Accounted
<1>5. CASE d \in stranded /\ d \notin stranded'
  BY <1>0, <1>5, TakenUp, StartAccounts, DeliveryAccounts
<1>2. CASE \E a \in Admins : \/ adm[a].pc = "lost" /\ adm[a].ds = d
                             \/ adm[a].pc = "queue" /\ adm[a].ds = d /\ adm[a].job \notin gone
  BY <1>0, <1>2 DEF Accounted
<1>3. ASSUME NEW j \in Jobs, Mover(j), job[j].ds = d, d \notin stranded'
      PROVE  Accounted(d)'
  <2>1. Mover(j)'
    BY <1>3, MoverStays
  <2>2. job'[j].ds = d
    <3>1. job[j] # None
      BY <1>3 DEF Mover, Live, Located, RowsBut
    <3> QED
      BY <1>0, <1>3, <3>1, JobsStay DEF Located
  <2> QED
    BY <2>1, <2>2 DEF Accounted
<1>4. ASSUME NEW h \in Requests, req[h].ds = d,
             req[h].pc = "lost" \/ (req[h].pc = "queue" /\ req[h].job \notin gone)
      PROVE  Accounted(d)'
  <2>1. CASE req'[h] = req[h]
    BY <1>0, <1>4, <2>1 DEF Accounted
  <2>2. CASE Queue(h)
    <3>1. PICK j \in Jobs :
            /\ j \notin gone /\ msg[j] = "none" /\ msg'[j] = "queued" /\ job[j].ds = d
            /\ UNCHANGED <<run, job>>
      BY <1>4, <2>2 DEF Queue, Located, Shape, TypeOK, RequestShape, Delivery
    <3>2. Mover(j)'
      BY <1>0, <3>1, QueuedMoves
    <3> QED
      BY <3>1, <3>2 DEF Accounted
  <2>3. CASE LoseRequest(h)
    <3>1. req'[h].pc = "lost" /\ req'[h].ds = d
      BY <1>0, <1>4, <2>3 DEF LoseRequest
    <3> QED
      BY <3>1 DEF Accounted
  <2>4. CASE ~Queue(h) /\ ~LoseRequest(h)
    <3>1. ASSUME NEW g \in Requests, Acquire(g) \/ Start(g) \/ Queue(g) \/ LoseRequest(g)
          PROVE  req'[h] = req[h]
      <4>1. g # h
        BY <1>4, <2>4, <3>1 DEF Acquire, Start
      <4> QED
        BY <1>0, <3>1, <4>1 DEF Acquire, Start, Queue, LoseRequest, Reply
    <3>2. ASSUME \/ \E w \in Workers :
                       \/ Deliver(w) \/ Release(w) \/ Ack(w) \/ Crash(w)
                       \/ LoadFails(w) \/ ReleaseFails(w) \/ Kill(w)
                 \/ \E j \in Jobs : Redeliver(j) \/ RedeliverEarly(j)
          PROVE  req'[h] = req[h]
      BY <3>2 DEF Deliver, Release, Ack, Crash, LoadFails, ReleaseFails, Kill, Redeliver,
                  RedeliverEarly
    <3>3. ASSUME Frame
          PROVE  req'[h] = req[h]
      BY <1>4, <3>3 DEF Frame, Holds
    <3>4. req'[h] = req[h]
      BY <1>0, <3>1, <3>2, <3>3, TokenOrFrame DEF TokenStep, Located
    <3> QED
      BY <2>1, <3>4
  <2> QED
    BY <2>2, <2>3, <2>4
<1> QED
  BY <1>1, <1>2, <1>3, <1>4, <1>5 DEF Accounted

\* The transaction of process and the run that goes on to compare account for the set they
\* put in progress.
LEMMA EntersAccounted ==
  ASSUME AdminShape, Located(gone), EngineStep, NEW d \in Sets,
         state'[d] \in InProgress, state'[d] # state[d]
  PROVE  Accounted(d)'
<1>0. [Next]_vars /\ UNCHANGED gone
  BY DEF EngineStep
<1>1. ASSUME NEW h \in Requests, Start(h), req'[h].pc = "queue", req'[h].ds = d
      PROVE  Accounted(d)'
  BY <1>0, <1>1, StartAccounts
<1>2. ASSUME NEW w \in Workers, StartDedupe(w), job[run[w].job].ds = d
      PROVE  Accounted(d)'
  <2>1. PICK j \in Jobs : j = run[w].job /\ Live(j)
    BY <1>2, RunSet DEF StartDedupe, Running
  <2>2. /\ Remember(w, "DEDUPLICATION_IN_PROGRESS", "dedupe")
        /\ UNCHANGED <<job, msg>>
    BY <1>2 DEF StartDedupe, Advance, jobVars
  <2>3. /\ run'[w].job = j /\ Moving(w)'
        /\ run'[w].pc = "dedupe"
        /\ \A v \in Workers \ {w} : run'[v] = run[v]
    BY <2>1, <2>2 DEF Remember, Moving, Located, Shape, TypeOK, InProgress
  <2>4. j \notin gone
    <3>1. run'[w] # run[w]
      BY <1>2, <2>3 DEF StartDedupe
    <3> QED
      BY <2>3, <3>1 DEF EngineStep
  <2>5. \A v \in Workers \ {w} : run[v].job # j
    BY <1>2, <2>1 DEF Located, Delivery, StartDedupe
  <2>6. Live(j)'
    <3>1. ~Release(w)
      BY <1>2 DEF StartDedupe, Release
    <3>2. \A v \in Workers : Release(v) => run[v].job # j
      BY <2>5, <3>1
    <3>3. msg'[j] # "lost"
      BY <2>1, <2>2 DEF Live
    <3> QED
      BY <1>0, <2>1, <3>2, <3>3, LiveStays
  <2>7. Mover(j)'
    BY <1>0, <2>1, <2>3, <2>4, <2>5, <2>6 DEF Mover
  <2> QED
    BY <1>2, <2>1, <2>2, <2>7 DEF Accounted
<1> QED
  BY <1>0, <1>1, <1>2, EntersProgress

\* A step of the admin site that leaves the jobs, their messages and runs alone, and the
\* requests and buttons that account for a set.
LEMMA AccountKept ==
  ASSUME NEW d \in Sets, Accounted(d), UNCHANGED <<job, msg, req, run, gone>>,
         d \in adrift => d \in adrift', d \in stranded => d \in stranded',
         \A a \in Admins : adm[a].pc \in {"queue", "lost"} => adm'[a] = adm[a]
  PROVE  Accounted(d)'
<1>1. \A j \in Jobs : Mover(j) => Mover(j)'
  BY DEF Mover, Moving, Live
<1> QED
  BY <1>1 DEF Accounted

\* The job buttons account for the set they put in progress.
LEMMA JobButtonAccounted ==
  ASSUME AdminInv, AllAccounted, NEW a \in Admins,
         \/ \E d \in Sets : AdminAcquire(a, d)
         \/ AdminStart(a) \/ AdminQueue(a) \/ AdminLose(a)
  PROVE  AllAccounted'
<1>0. /\ Located(gone) /\ AdminFields /\ adm \in [Admins -> AdminRecord]
      /\ state \in [Sets -> State \cup {None}]
      /\ job \in [Jobs -> JobRow \cup {None}]
      /\ msg \in [Jobs -> {"none", "queued", "unacked", "done", "lost"}]
      /\ gone \subseteq {j \in Jobs : job[j] # None}
  BY DEF AdminInv, AdminShape, AdminTypeOK, AdminRecord, Located, Shape, TypeOK
<1> SUFFICES ASSUME NEW d \in Sets, state'[d] \in InProgress
             PROVE  Accounted(d)'
  BY DEF AllAccounted
<1>1. ASSUME NEW e \in Sets, AdminAcquire(a, e)
      PROVE  Accounted(d)'
  <2>1. UNCHANGED <<state, stranded, job, msg, req, run, gone, adrift>> /\ adm[a].pc = "idle"
    BY <1>1 DEF AdminAcquire, setVars, jobVars
  <2>2. \A b \in Admins \ {a} : adm'[b] = adm[b]
    BY <1>0, <1>1 DEF AdminAcquire
  <2> QED
    BY <2>1, <2>2, AccountKept DEF AllAccounted
<1>2. CASE AdminStart(a)
  <2>1. adm[a].pc = "start" /\ UNCHANGED <<msg, req, run, gone>>
    BY <1>2 DEF AdminStart
  <2>2. CASE UNCHANGED <<state, stranded, job, adrift>>
    <3>1. \A b \in Admins \ {a} : adm'[b] = adm[b]
      BY <1>0, <1>2 DEF AdminStart, Answer
    <3> QED
      BY <2>1, <2>2, <3>1, AccountKept DEF AllAccounted
  <2>3. ASSUME NEW j \in FreeJobs, NEW encode_only \in BOOLEAN,
               state' = [state EXCEPT ![adm[a].ds] = "ENCODING_IN_PROGRESS"],
               job' = [job EXCEPT ![j] =
                         [ds |-> adm[a].ds, encode_only |-> encode_only, cancel |-> FALSE]],
               adm' = [adm EXCEPT ![a].pc = "queue", ![a].job = j],
               adrift' = adrift \ {adm[a].ds}, stranded' = stranded \ {adm[a].ds}
        PROVE  Accounted(d)'
    <3>1. j \in Jobs /\ job[j] = None /\ j \notin gone
      BY <1>0 DEF FreeJobs
    <3>2. \A i \in Jobs \ {j} : job'[i] = job[i]
      BY <1>0, <2>3, <3>1
    <3>3. /\ \A b \in Admins \ {a} : adm'[b] = adm[b]
          /\ adm'[a].pc = "queue" /\ adm'[a].job = j /\ adm'[a].ds = adm[a].ds
      BY <1>0, <2>3 DEF AdminRecord
    <3>4. CASE d = adm[a].ds
      BY <2>1, <3>1, <3>3, <3>4 DEF Accounted
    <3>5. CASE d # adm[a].ds
      <4>1. Accounted(d)
        BY <1>0, <2>3, <3>5 DEF AllAccounted
      <4>2. ASSUME NEW i \in Jobs, Mover(i), job[i].ds = d
            PROVE  Mover(i)' /\ job'[i].ds = d
        <5>1. i # j
          BY <1>0, <3>1, <4>2 DEF Mover, Live, Located, RowsBut
        <5> QED
          BY <2>1, <3>2, <4>2, <5>1 DEF Mover, Moving, Live
      <4>3. \A b \in Admins : adm[b].pc \in {"queue", "lost"} => adm'[b] = adm[b]
        BY <2>1, <3>3
      <4>4. (d \in adrift => d \in adrift') /\ (d \in stranded => d \in stranded')
        BY <2>3, <3>5
      <4> QED
        BY <2>1, <4>1, <4>2, <4>3, <4>4 DEF Accounted
    <3> QED
      BY <3>4, <3>5
  <2> QED
    BY <1>2, <2>2, <2>3 DEF AdminStart
<1>3. CASE AdminQueue(a)
  <2>1. PICK j \in Jobs :
          /\ adm[a].job = j /\ msg[j] = "none" /\ job[j].ds = adm[a].ds
          /\ msg' = [msg EXCEPT ![j] = "queued"]
          /\ UNCHANGED <<state, stranded, job, req, run, gone, adrift>>
    BY <1>0, <1>3 DEF AdminQueue, AdminInv, AdminDelivery, AdminFields, setVars
  <2>2. \A b \in Admins \ {a} : adm'[b] = adm[b]
    BY <1>0, <1>3 DEF AdminQueue, Answer
  <2>3. Accounted(d)
    BY <2>1 DEF AllAccounted
  <2>4. ASSUME NEW i \in Jobs, Mover(i)
        PROVE  Mover(i)'
    <3>1. i # j
      BY <2>1, <2>4 DEF Mover, Live
    <3> QED
      BY <1>0, <2>1, <2>4, <3>1 DEF Mover, Moving, Live
  <2>5. j \notin gone => Mover(j)'
    BY <1>0, <2>1, QueuedMoves
  <2>6. adm[a].pc = "queue"
    BY <1>3 DEF AdminQueue
  <2> QED
    BY <2>1, <2>2, <2>3, <2>4, <2>5, <2>6 DEF Accounted
<1>4. CASE AdminLose(a)
  <2>1. /\ UNCHANGED <<state, stranded, job, msg, req, run, gone, adrift>>
        /\ adm[a].pc \in {"start", "queue"}
    BY <1>4 DEF AdminLose, AdminStarting, setVars, jobVars
  <2>2. \A b \in Admins \ {a} : adm'[b] = adm[b]
    BY <1>0, <1>4 DEF AdminLose
  <2>3. adm[a].pc = "queue" => adm'[a].pc = "lost" /\ adm'[a].ds = adm[a].ds
    BY <1>0, <1>4 DEF AdminLose, IdleAdmin
  <2>4. Accounted(d)
    BY <2>1 DEF AllAccounted
  <2>5. \A j \in Jobs : Mover(j) => Mover(j)'
    BY <2>1 DEF Mover, Moving, Live
  <2> QED
    BY <2>1, <2>2, <2>3, <2>4, <2>5 DEF Accounted
<1> QED
  BY <1>1, <1>2, <1>3, <1>4

\* A form that changes a state sets the set adrift; the others change none.
LEMMA FormAccounted ==
  ASSUME AdminInv, AllAccounted, NEW a \in Admins,
         \/ \E d \in Sets : OpenForm(a, d)
         \/ SaveForm(a) \/ LoadSettings(a) \/ SaveSettings(a)
  PROVE  AllAccounted'
<1>0. /\ AdminFields /\ adm \in [Admins -> AdminRecord] /\ adrift \subseteq Sets
      /\ state \in [Sets -> State \cup {None}]
  BY DEF AdminInv, AdminShape, AdminTypeOK, AdminRecord, Shape, TypeOK
<1> SUFFICES ASSUME NEW d \in Sets, state'[d] \in InProgress
             PROVE  Accounted(d)'
  BY DEF AllAccounted
<1>1. UNCHANGED <<stranded, job, msg, req, run, gone>> /\ adm[a].pc \in {"idle", "form", "settings"}
  BY DEF OpenForm, LoadSettings, SaveForm, SaveSettings, setVars, jobVars
<1>2. \A b \in Admins \ {a} : adm'[b] = adm[b]
  BY <1>0 DEF OpenForm, LoadSettings, SaveForm, SaveSettings, Answer
<1>3. adrift \subseteq adrift'
  BY <1>0 DEF OpenForm, LoadSettings, SaveForm, SaveSettings
<1>4. CASE state'[d] = state[d]
  BY <1>1, <1>2, <1>3, <1>4, AccountKept DEF AllAccounted
<1>5. CASE state'[d] # state[d]
  <2>1. SaveForm(a) /\ adm[a].ds \in Sets
    BY <1>0, <1>5 DEF OpenForm, LoadSettings, SaveForm, SaveSettings, setVars, AdminFields
  <2>2. d \in adrift'
    BY <1>0, <1>5, <2>1 DEF SaveForm
  <2> QED
    BY <2>2 DEF Accounted
<1> QED
  BY <1>4, <1>5

\* Nor does a button that forces a state put a set in progress; Unlock sets the sets of the
\* requests that died adrift, and the cleanup deletes a set together with its jobs.
LEMMA ForceAccounted ==
  ASSUME AdminInv, AllAccounted,
         \/ \E d \in Sets : AdminForce(d) \/ Collect(d)
         \/ \E j \in Jobs : Requeue(j)
         \/ Unlock
         \/ Sweep
         \/ \E w \in Workers : StopGone(w) \/ \E j \in Jobs : DropMessage(w, j)
  PROVE  AllAccounted'
<1>0. /\ Located(gone) /\ adm \in [Admins -> AdminRecord] /\ sweep \in Sets \cup {None}
      /\ state \in [Sets -> State \cup {None}]
      /\ job \in [Jobs -> JobRow \cup {None}]
      /\ msg \in [Jobs -> {"none", "queued", "unacked", "done", "lost"}]
      /\ run \in [Workers -> [pc : RunPc, job : Jobs \cup {None},
                              mem : State \cup {None}, log : Nat]]
  BY DEF AdminInv, AdminShape, AdminTypeOK, AdminRecord, Located, Shape, TypeOK
<1> SUFFICES ASSUME NEW d \in Sets, state'[d] \in InProgress
             PROVE  Accounted(d)'
  BY DEF AllAccounted
<1>1. ASSUME NEW e \in Sets, AdminForce(e)
      PROVE  Accounted(d)'
  <2>1. d # e /\ state'[d] = state[d]
    BY <1>0, <1>1, StateFacts DEF AdminForce
  <2>2. UNCHANGED <<stranded, job, msg, req, run, gone, adm>> /\ adrift' = adrift \ {e}
    BY <1>1 DEF AdminForce, jobVars
  <2> QED
    BY <2>1, <2>2, AccountKept DEF AllAccounted
<1>2. ASSUME NEW e \in Sets, Collect(e)
      PROVE  Accounted(d)'
  <2>1. UNCHANGED <<state, stranded, job, msg, req, run, gone, adm, adrift>>
    BY <1>2 DEF Collect, vars
  <2> QED
    BY <2>1, AccountKept DEF AllAccounted
<1>3. ASSUME UNCHANGED <<state, stranded, job, req, adm, gone, adrift>>,
             \A j \in Jobs : Mover(j) => Mover(j)'
      PROVE  Accounted(d)'
  BY <1>3 DEF Accounted, AllAccounted
<1>4. ASSUME NEW j \in Jobs, Requeue(j)
      PROVE  Accounted(d)'
  <2>1. /\ msg[j] \in {"none", "done", "lost"} /\ msg' = [msg EXCEPT ![j] = "queued"]
        /\ UNCHANGED <<state, stranded, job, req, run, adm, gone, adrift>>
    BY <1>4 DEF Requeue, setVars
  <2>2. \A i \in Jobs : Live(i) => i # j /\ msg'[i] = msg[i]
    BY <1>0, <2>1 DEF Live
  <2>3. \A i \in Jobs : Mover(i) => Mover(i)'
    BY <2>1, <2>2 DEF Mover, Moving, Live
  <2> QED
    BY <1>3, <2>1, <2>3
<1>5. CASE Unlock
  <2>1. /\ UNCHANGED <<state, stranded, job, run, gone>>
        /\ \A j \in Jobs : Live(j) => msg'[j] = msg[j]
        /\ \A h \in Requests : req[h].pc # "lost" => req'[h] = req[h]
        /\ \A a \in Admins : adm[a].pc # "lost" => adm'[a] = adm[a]
        /\ adrift \subseteq adrift'
        /\ \A h \in Requests : req[h].pc = "lost" /\ req[h].ds = d => d \in adrift'
        /\ \A a \in Admins : adm[a].pc = "lost" /\ adm[a].ds = d => d \in adrift'
    BY <1>5 DEF Unlock, LostJob, Live, setVars
  <2>2. Accounted(d)
    BY <2>1 DEF AllAccounted
  <2>3. \A j \in Jobs : Mover(j) => Mover(j)'
    BY <2>1 DEF Mover, Moving, Live
  <2> QED
    BY <2>1, <2>2, <2>3 DEF Accounted
<1>6. CASE Sweep
  <2>1. /\ sweep \in Sets /\ state' = [state EXCEPT ![sweep] = None]
        /\ gone' = gone \cup {j \in Jobs : job[j] # None /\ job[j].ds = sweep}
        /\ adrift' = adrift \ {sweep} /\ stranded' = stranded \ {sweep}
        /\ UNCHANGED <<job, msg, req, run, adm>>
    BY <1>0, <1>6 DEF Sweep, jobVars
  <2>2. None \notin InProgress
    BY EngineAssumption DEF EngineAssumption, InProgress, State
  <2>3. d # sweep /\ state'[d] = state[d]
    BY <1>0, <2>1, <2>2
  <2>4. Accounted(d)
    BY <2>3 DEF AllAccounted
  <2>5. \A j \in Jobs : job[j].ds = d /\ j \notin gone => j \notin gone'
    BY <2>1, <2>3
  <2>6. \A h \in Requests :
          req[h].pc = "queue" /\ req[h].ds = d /\ req[h].job \notin gone
            => req[h].job \notin gone'
    BY <1>0, <2>5 DEF Located, Delivery, Shape, RequestShape
  <2>7. \A a \in Admins :
          adm[a].pc = "queue" /\ adm[a].ds = d /\ adm[a].job \notin gone
            => adm[a].job \notin gone'
    BY <2>5 DEF AdminInv, AdminShape, AdminFields, AdminDelivery
  <2>8. \A j \in Jobs : Mover(j) /\ job[j].ds = d => Mover(j)'
    BY <2>1, <2>5 DEF Mover, Moving, Live
  <2> QED
    BY <2>1, <2>3, <2>4, <2>6, <2>7, <2>8 DEF Accounted
<1>7. ASSUME NEW w \in Workers, StopGone(w)
      PROVE  Accounted(d)'
  <2>1. /\ run[w].job \in gone /\ run' = [run EXCEPT ![w].pc = "ack"]
        /\ UNCHANGED <<state, stranded, job, msg, req, adm, gone, adrift>>
    BY <1>7 DEF StopGone, setVars, jobVars
  <2>2. /\ \A v \in Workers \ {w} : run'[v] = run[v]
        /\ run'[w].job = run[w].job
    BY <1>0, <2>1
  <2>3. \A j \in Jobs : Mover(j) => Mover(j)'
    BY <2>1, <2>2 DEF Mover, Moving, Live
  <2> QED
    BY <1>3, <2>1, <2>3
<1>8. ASSUME NEW w \in Workers, NEW j \in Jobs, DropMessage(w, j)
      PROVE  Accounted(d)'
  <2>1. /\ j \in gone /\ msg' = [msg EXCEPT ![j] = "done"]
        /\ UNCHANGED <<state, stranded, job, req, run, adm, gone, adrift>>
    BY <1>8 DEF DropMessage, setVars
  <2>2. \A i \in Jobs : i \notin gone => msg'[i] = msg[i]
    BY <1>0, <2>1
  <2>3. \A i \in Jobs : Mover(i) => Mover(i)'
    BY <2>1, <2>2 DEF Mover, Moving, Live
  <2> QED
    BY <1>3, <2>1, <2>3
<1> QED
  BY <1>1, <1>2, <1>4, <1>5, <1>6, <1>7, <1>8

\* A set in an in-progress state has a run in front of it or under way, whatever was forced
\* or overridden; the exceptions are a request that died and a set adrift.
THEOREM InProgressIsAccountedHolds ==
  ASSUME NoDuplication
  PROVE  AdminSpec => []InProgressIsAccounted
<1>1. AdminInit => Slot /\ AllAccounted
  BY EngineAssumption DEF EngineAssumption, AdminInit, Init, Slot, AllAccounted,
                          BLOCKING_STATES, InProgress, State
<1>2. AdminInv /\ Slot /\ AllAccounted /\ [AdminNext]_allVars => (Slot /\ AllAccounted)'
  <2> SUFFICES ASSUME AdminInv, Slot, AllAccounted, [AdminNext]_allVars
               PROVE  (Slot /\ AllAccounted)'
    OBVIOUS
  <2>1. Slot'
    BY AdminSlotStep
  <2>2. ASSUME EngineStep
        PROVE  AllAccounted'
    <3>1. AdminShape /\ Located(gone)
      BY DEF AdminInv, AdminShape, Located
    <3>2. \A d \in Sets : state'[d] \in InProgress => Accounted(d)'
      BY <2>2, <3>1, EntersAccounted, AccountedStays DEF AllAccounted
    <3> QED
      BY <3>2 DEF AllAccounted
  <2>3. ASSUME UNCHANGED allVars
        PROVE  AllAccounted'
    <3>1. UNCHANGED <<state, stranded, job, msg, req, run, adm, gone, adrift>>
      BY <2>3 DEF allVars, adminVars, vars
    <3>2. \A d \in Sets : state'[d] \in InProgress => Accounted(d)'
      BY <3>1, AccountKept DEF AllAccounted
    <3> QED
      BY <3>2 DEF AllAccounted
  <2> QED
    BY <2>1, <2>2, <2>3, JobButtonAccounted, FormAccounted, ForceAccounted
       DEF AdminNext, AdminStep
<1>3. AllAccounted => InProgressIsAccounted
  BY DEF AllAccounted, Accounted, Mover, InProgressIsAccounted
<1> QED
  BY <1>1, <1>2, <1>3, AdminInvariance, PTL DEF AdminSpec
================================================================================
