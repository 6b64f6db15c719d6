--------------------------- MODULE GroupFindingsProofs ---------------------------
(***************************************************************************)
(* What the findings of GroupData say is true: embeddings are comparable,  *)
(* every image is accounted for, and a set that waits for its approval     *)
(* reports exactly its duplicates, for every value of the constants.       *)
(*                                                                         *)
(* The invariant speaks about sets that are undisturbed (changed by their  *)
(* uploads and runs only).  For such a set a step is of one of ten kinds   *)
(* (Turn), its run of one of three (Course), and its state moves in few    *)
(* ways (StateTurn); each part of the invariant is kept by each kind.      *)
(* What ties two sets together is the slot: a set that is compared, or     *)
(* waits to be judged, holds it, so meanwhile no other set is approved     *)
(* that it does not disturb, no other set has a run, and what it is to be  *)
(* compared with stays.  A settings change shares the group with no run,   *)
(* and what it read of the undisturbed sets stays true (Exclusion).        *)
(***************************************************************************)
EXTENDS GroupDataProofs

USE DEF requests

(***************************************************************************)
(* The slot: the partial unique index allows one set in a blocking state.  *)
(***************************************************************************)
\* The set in a blocking state is the only one.
OneInSlot ==
  \A d, e \in Sets :
    state[d] \in BLOCKING_STATES /\ state[e] \in BLOCKING_STATES => d = e

\* A step leaves the states alone, or moves one set to a state the slot allows.
SlotMove ==
  \/ state' = state
  \/ \E d \in Sets, target \in State \cup {None} :
       /\ state' = [state EXCEPT ![d] = target]
       /\ target \in BLOCKING_STATES => Fits(d, target) \/ state[d] \in BLOCKING_STATES

\* Every action checks the slot, or moves the set that holds it.
LEMMA SlotStep ==
  ASSUME GroupShape, Slots, [Next]_vars
  PROVE  SlotMove
<1>1. CASE UNCHANGED vars
  BY <1>1 DEF vars, SlotMove
<1>2. ASSUME NEW d \in Sets
      PROVE  /\ Create(d) => SlotMove
             /\ Ready(d) => SlotMove
             /\ Process(d) => SlotMove
             /\ \A verdict \in {"APPROVED", "REJECTED"} : Judge(d, verdict) => SlotMove
             /\ AdminClearEmbeddings(d) => SlotMove
             /\ AdminRemoveFindings(d) => SlotMove
             /\ AdminEncode(d) => SlotMove
             /\ AdminDeduplicate(d) => SlotMove
             /\ CleanupSet(d) => SlotMove
  <2>1. Create(d) => SlotMove
    BY DEF Create, SlotMove, State
  <2>2. Ready(d) => SlotMove
    BY DEF Ready, SlotMove, State, BLOCKING_STATES
  <2>3. Process(d) => SlotMove
    BY DEF Process, SlotMove, State
  <2>5. ASSUME NEW verdict \in {"APPROVED", "REJECTED"}, Judge(d, verdict)
        PROVE  SlotMove
    BY <2>5 DEF Judge, SlotMove, State, BLOCKING_STATES
  <2>6. AdminClearEmbeddings(d) => SlotMove
    BY DEF AdminClearEmbeddings, SlotMove, State
  <2>7. AdminRemoveFindings(d) => SlotMove
    BY DEF AdminRemoveFindings, SlotMove, State
  <2>8. AdminEncode(d) => SlotMove
    BY DEF AdminEncode, SlotMove, State
  <2>9. AdminDeduplicate(d) => SlotMove
    BY DEF AdminDeduplicate, SlotMove, State
  <2>10. CleanupSet(d) => SlotMove
    BY NoneApart DEF CleanupSet, SlotMove, BLOCKING_STATES
  <2> QED BY <2>1, <2>2, <2>3, <2>5, <2>6, <2>7, <2>8, <2>9, <2>10
<1>3. ASSUME FinishUpload PROVE SlotMove
  <2>1. "UPLOADING_IN_PROGRESS" \in State
    BY DEF State
  <2> QED BY <1>3, <2>1, UploadStep DEF SlotMove
<1>4. ASSUME WriteEmpty \/ CommitSettings PROVE SlotMove
  <2>1. CASE WriteEmpty
    BY <2>1 DEF WriteEmpty, Slots, SlotMove, State
  <2>2. CASE CommitSettings
    BY <2>2 DEF CommitSettings, Slots, SlotMove, State
  <2> QED BY <1>4, <2>1, <2>2
<1>5. ASSUME SetEncoded \/ StartDedupe \/ SetDeduplicated PROVE SlotMove
  <2>1. run.ds \in Sets
    BY <1>5 DEF SetEncoded, StartDedupe, SetDeduplicated, GroupShape, Pace
  <2>2. \E target \in State : \E next : Advance(target, next)
    BY <1>5 DEF SetEncoded, StartDedupe, SetDeduplicated, State
  <2> QED BY <2>1, <2>2 DEF Advance, SlotMove
<1>6. ASSUME Fail PROVE SlotMove
  <2>1. run.ds \in Sets
    BY <1>6 DEF Fail, GroupShape, Pace
  <2> QED BY <1>6, <2>1 DEF Fail, SlotMove, State, BLOCKING_STATES
<1>7. CASE Next
  <2>1. ASSUME NEW d \in Sets, \/ BeginUpload(d) \/ CleanupFindings(d) \/ CleanupEncodings(d)
                               \/ ReadClear(d) \/ \E endpoint : BeginLate(d, endpoint)
        PROVE  state' = state
    BY <2>1 DEF BeginUpload, CleanupFindings, CleanupEncodings, ReadClear, BeginLate
  <2>2. ASSUME \/ \E s \in Configs : CheckSettings(s) \/ AdminSettings(s)
               \/ DeleteEncodings \/ ReadActiveSet \/ RequestFails
        PROVE  state' = state
    BY <2>2 DEF CheckSettings, AdminSettings, DeleteEncodings, ReadActiveSet, RequestFails
  <2>3. ASSUME NEW k \in Keys, EncodeImage(k) PROVE state' = state
    BY <2>3 DEF EncodeImage
  <2>4. CASE ReadImages \/ CountEmbeddings \/ Compare \/ Raise \/ Finish \/ Restart \/ Killed
    BY <2>4 DEF ReadImages, CountEmbeddings, Compare, Raise, Finish, Restart, Killed, SlotMove
  <2> QED BY <1>2, <1>3, <1>4, <1>5, <1>6, <1>7, <2>1, <2>2, <2>3, <2>4
          DEF Next, RunStep, SlotMove
<1> QED
  BY <1>1, <1>7

\* No run is under way while the settings are changed: the change has the lock.
ChangeAlone == change # IdleChange => run.ds = None

\* What a settings change looked at is still so, but for disturbed sets: none is approved,
\* and the set to be cleared is the only one that is encoded or deduplicated.
ChangeSees ==
  change # IdleChange =>
    \A x \in Sets \ disturbed :
      /\ state[x] # "APPROVED"
      /\ change.pc = "read" /\ state[x] \in {"ENCODED", "DEDUPLICATED"} => x = change.ds

Exclusion == OneInSlot /\ Slots /\ ChangeAlone /\ ChangeSees

\* The set in a blocking state stays the only one.
LEMMA SlotInductive ==
  ASSUME GroupShape, Exclusion, [Next]_vars
  PROVE  OneInSlot'
<1>1. ASSUME NEW d \in Sets, NEW target \in State \cup {None},
             state' = [state EXCEPT ![d] = target],
             target \in BLOCKING_STATES => Fits(d, target) \/ state[d] \in BLOCKING_STATES,
             NEW x \in Sets, NEW y \in Sets,
             state'[x] \in BLOCKING_STATES, state'[y] \in BLOCKING_STATES
      PROVE  x = y
  <2>1. /\ state'[d] = target /\ \A z \in Sets \ {d} : state'[z] = state[z]
    BY <1>1 DEF GroupShape, Typed
  <2>2. CASE x # d /\ y # d
    BY <1>1, <2>1, <2>2 DEF Exclusion, OneInSlot
  <2>3. ASSUME target \in BLOCKING_STATES, NEW z \in Sets \ {d}, state[z] \in BLOCKING_STATES
        PROVE  FALSE
    BY <1>1, <2>3 DEF Exclusion, OneInSlot, Fits
  <2> QED BY <1>1, <2>1, <2>2, <2>3
<1> QED
  BY <1>1, SlotStep DEF Exclusion, SlotMove, OneInSlot

\* No set is there at first.
LEMMA SlotInit ==
  Init => OneInSlot
BY NoneApart DEF Init, OneInSlot, BLOCKING_STATES

-----------------------------------------------------------------------------
(***************************************************************************)
(* What a step does to the images and findings of an undisturbed set.      *)
(***************************************************************************)
\* What a step may do to the images and findings of a set that is undisturbed after it.
Emptied(x) ==
  /\ Rows(x)' = {} /\ ~RunOf(x) /\ ~RunOf(x)'
  /\ state'[x] \in {state[x], "EMPTY", None}
  /\ x \in disturbed => FindingsOf(x)' = {} /\ state'[x] \in {"EMPTY", None}
  /\ FindingsOf(x)' \subseteq FindingsOf(x) /\ \A f \in FindingsOf(x)' : f.first[1] # x

Uploaded(x) ==
  /\ Uploading(x) /\ ~RunOf(x) /\ UNCHANGED <<run, finding, settings>>
  /\ state'[x] \in {state[x], "UPLOADING_IN_PROGRESS"}
  /\ UploadsRow(x)

Dropped(x) ==
  /\ ~RunOf(x) /\ state'[x] \in {"READY", "ENCODING_IN_PROGRESS"}
  /\ \A k \in Keys : row'[x][k] # None => row'[x][k].embedding = None /\ row'[x][k].code = None
  /\ FindingsOf(x)' = {}

Encodes(x) ==
  /\ RunOf(x) /\ run.pc = "encode" /\ ~run.lost
  /\ \E k \in Keys : EncodeImage(k)

Compares(x) ==
  RunOf(x) /\ Compare

LosesPairs(x) ==
  /\ state[x] \notin FinalStates /\ state'[x] \in {"ENCODED", "ENCODING_IN_PROGRESS"}
  /\ FindingsOf(x)' = FindingsOf(x) \ duplicate_findings(x)

Retires(x) ==
  state[x] \in FinalStates /\ state'[x] = state[x] /\ FindingsOf(x)' = {}

Cascades(x) ==
  \E e \in Sets \ {x} :
    /\ Rows(e)' = {} /\ state'[x] = state[x]
    /\ FindingsOf(x)' = {f \in FindingsOf(x) : f.first[1] # e /\ (f.second = None \/ f.second[1] # e)}

SameFindings(x) == FindingsOf(x)' = FindingsOf(x)

Turn(x) ==
  \/ Emptied(x)
  \/ /\ x \notin disturbed
     /\ \/ Uploaded(x) \/ Dropped(x) \/ Encodes(x)
        \/ /\ row'[x] = row[x]
           /\ SameFindings(x) \/ LosesPairs(x) \/ Retires(x) \/ Cascades(x) \/ Compares(x)

\* A step beside the set.
LEMMA TurnStill ==
  ASSUME NEW x, x \notin disturbed, row'[x] = row[x], SameFindings(x)
  PROVE  Turn(x)
BY DEF Turn

\* Requests and admin actions that touch no image and no finding.
LEMMA TurnQuiet ==
  ASSUME GroupShape, NEW x \in Sets, x \notin disturbed', UNCHANGED <<row, finding>>,
         disturbed \subseteq disturbed'
  PROVE  Turn(x)
BY TurnStill DEF SameFindings, FindingsOf

\* An upload.
LEMMA TurnFinishUpload ==
  ASSUME GroupShape, NEW x \in Sets, x \notin disturbed', FinishUpload
  PROVE  Turn(x)
<1>1. /\ upload.ds \in Sets /\ UNCHANGED <<finding, settings, run>>
      /\ x \notin disturbed /\ SameFindings(x)
  BY UploadStep DEF SameFindings, FindingsOf
<1>2. CASE row'[x] = row[x]
  BY <1>1, <1>2, TurnStill
<1>3. CASE row'[x] # row[x]
  <2>1. /\ x = upload.ds /\ UploadsRow(x) /\ Uploading(x) /\ ~RunOf(x)
        /\ state'[x] \in {state[x], "UPLOADING_IN_PROGRESS"}
    BY <1>1, <1>3, UploadStep DEF GroupShape, Typed
  <2> QED BY <1>1, <2>1 DEF Turn, Uploaded
<1> QED
  BY <1>2, <1>3

\* A clear deletes the images of one set, and the findings of others that name it.
LEMMA TurnDeleteEncodings ==
  ASSUME GroupShape, Exclusion, NEW x \in Sets, x \notin disturbed', DeleteEncodings
  PROVE  Turn(x)
<1> DEFINE none == [k \in Keys |-> None]
<1>1. PICK d \in Sets :
         /\ row' = [row EXCEPT ![d] = none] /\ finding' = WithoutEncodings(d)
         /\ state' = state /\ disturbed' = disturbed \cup {e \in {d} : RunOf(e)}
         /\ run' = [run EXCEPT !.lost = @ \/ RunOf(d)]
  BY DEF DeleteEncodings, Disturb, Exclusion, Slots
<1>2. row'[d] = none /\ \A y \in Sets \ {d} : row'[y] = row[y]
  BY <1>1 DEF GroupShape, Typed
<1>3. run'.ds = run.ds
  BY <1>1 DEF GroupShape, Typed, RunRecord
<1>4. Rows(d)' = {}
  BY <1>2 DEF Rows
<1>5. x \notin disturbed
  BY <1>1
<1>6. CASE x = d
  <2>1. ~RunOf(d) /\ ~RunOf(d)'
    BY <1>1, <1>3, <1>6 DEF RunOf
  <2>2. /\ FindingsOf(d)' \subseteq FindingsOf(d) /\ \A f \in FindingsOf(d)' : f.first[1] # d
    BY <1>1 DEF FindingsOf, WithoutEncodings
  <2> QED BY <1>1, <1>4, <1>5, <1>6, <2>1, <2>2 DEF Turn, Emptied
<1>7. CASE x # d
  <2>1. FindingsOf(x)' = {f \in FindingsOf(x) : f.first[1] # d /\ (f.second = None \/ f.second[1] # d)}
    BY <1>1 DEF FindingsOf, WithoutEncodings
  <2>2. Cascades(x)
    BY <1>1, <1>4, <1>7, <2>1 DEF Cascades
  <2> QED BY <1>2, <1>5, <1>7, <2>2 DEF Turn
<1> QED
  BY <1>6, <1>7

\* The state a clear writes: the set has nothing left, or stays as disturbed as it was.
LEMMA TurnWriteEmpty ==
  ASSUME GroupShape, Exclusion, NEW x \in Sets, x \notin disturbed', WriteEmpty
  PROVE  Turn(x)
<1> DEFINE left(d) == RunOf(d) \/ Rows(d) # {} \/ FindingsOf(d) # {}
<1>1. PICK d \in Sets :
         /\ state' = [state EXCEPT ![d] = "EMPTY"]
         /\ UNCHANGED <<row, finding, run>>
         /\ IF left(d) THEN disturbed \subseteq disturbed' ELSE disturbed' = disturbed \ {d}
  BY DEF WriteEmpty, Exclusion, Slots
<1>2. CASE ~left(d) /\ x = d
  <2>1. Rows(d)' = {} /\ ~RunOf(d) /\ ~RunOf(d)' /\ FindingsOf(d)' = {}
    BY <1>1, <1>2 DEF Rows, RunOf, FindingsOf
  <2>2. state'[d] = "EMPTY"
    BY <1>1 DEF GroupShape, Typed
  <2> QED BY <1>2, <2>1, <2>2 DEF Turn, Emptied
<1>3. CASE left(d) \/ x # d
  <2>1. x \notin disturbed
    BY <1>1, <1>3
  <2> QED BY <1>1, <2>1, TurnStill DEF SameFindings, FindingsOf
<1> QED
  BY <1>2, <1>3

\* Steps that take the embeddings and all findings of one set.
LEMMA TurnDropped ==
  ASSUME GroupShape, NEW x \in Sets, x \notin disturbed', NEW d \in Sets,
         row' = WithoutEmbeddings(d), finding' = finding \ FindingsOf(d),
         state'[d] \in {"READY", "ENCODING_IN_PROGRESS"}, x = d => ~RunOf(d),
         disturbed \subseteq disturbed'
  PROVE  Turn(x)
<1>1. /\ \A y \in Sets \ {d} : row'[y] = row[y]
      /\ \A k \in Keys : row'[d][k] # None => row'[d][k].embedding = None /\ row'[d][k].code = None
  BY EmbeddingsDropped DEF GroupShape
<1>2. CASE x = d
  <2>1. FindingsOf(d)' = {}
    BY DEF FindingsOf
  <2> QED BY <1>1, <1>2, <2>1 DEF Turn, Dropped
<1>3. CASE x # d
  <2>1. SameFindings(x)
    BY <1>3 DEF SameFindings, FindingsOf
  <2> QED BY <1>1, <1>3, <2>1, TurnStill
<1> QED
  BY <1>2, <1>3

\* While a settings change is under way no set has a run.
LEMMA ChangeHasNoRun ==
  ASSUME Exclusion, change.pc # "idle", NEW x \in Sets
  PROVE  ~RunOf(x)
BY NoneApart DEF Exclusion, ChangeAlone, IdleChange, RunOf

\* A settings change takes the embeddings of the set it read.
LEMMA TurnCommitSettings ==
  ASSUME GroupShape, Exclusion, NEW x \in Sets, x \notin disturbed', CommitSettings
  PROVE  Turn(x)
<1> DEFINE d == change.ds
<1>1. disturbed \subseteq disturbed' /\ ~RunOf(x) /\ d \in Sets \cup {None}
  BY ChangeHasNoRun DEF CommitSettings, Disturb, Exclusion, Slots
<1>2. ASSUME d # None, state' = [state EXCEPT ![d] = "READY"],
             row' = WithoutEmbeddings(d), finding' = finding \ FindingsOf(d)
      PROVE  Turn(x)
  BY <1>1, <1>2, TurnDropped DEF GroupShape, Typed
<1> QED
  BY <1>1, <1>2, TurnQuiet DEF CommitSettings

\* "Clear Embeddings".
LEMMA TurnAdminClearEmbeddings ==
  ASSUME GroupShape, NEW x \in Sets, x \notin disturbed', NEW d \in Sets, AdminClearEmbeddings(d)
  PROVE  Turn(x)
<1>1. disturbed \subseteq disturbed' /\ (x = d => ~RunOf(d))
  BY DEF AdminClearEmbeddings, Disturb
<1> QED
  BY <1>1, TurnDropped DEF AdminClearEmbeddings, GroupShape, Typed

\* "Encode".
LEMMA TurnAdminEncode ==
  ASSUME GroupShape, NEW x \in Sets, x \notin disturbed', NEW d \in Sets, AdminEncode(d)
  PROVE  Turn(x)
<1>1. disturbed \subseteq disturbed' /\ ~RunOf(d)
  BY IdleIsTyped DEF AdminEncode, Disturb, RunOf
<1> QED
  BY <1>1, TurnDropped DEF AdminEncode, GroupShape, Typed

\* Steps that take the pairs of one set and leave its images.
LEMMA TurnLosesPairs ==
  ASSUME GroupShape, NEW x \in Sets, x \notin disturbed', NEW d \in Sets,
         row' = row, finding' = finding \ duplicate_findings(d),
         state'[d] \in {"ENCODED", "ENCODING_IN_PROGRESS"},
         x = d => state[d] \notin FinalStates, disturbed \subseteq disturbed'
  PROVE  Turn(x)
<1>1. CASE x = d
  <2>1. FindingsOf(d)' = FindingsOf(d) \ duplicate_findings(d)
    BY DEF FindingsOf
  <2> QED BY <1>1, <2>1 DEF Turn, LosesPairs
<1>2. CASE x # d
  <2>1. SameFindings(x)
    BY <1>2 DEF SameFindings, FindingsOf, duplicate_findings
  <2> QED BY <2>1, TurnStill
<1> QED
  BY <1>1, <1>2

\* "Remove" of the findings.
LEMMA TurnAdminRemoveFindings ==
  ASSUME GroupShape, NEW x \in Sets, x \notin disturbed', NEW d \in Sets, AdminRemoveFindings(d)
  PROVE  Turn(x)
<1>1. disturbed \subseteq disturbed' /\ (x = d => state[d] \notin FinalStates)
  BY DEF AdminRemoveFindings, Disturb, FinalStates
<1> QED
  BY <1>1, TurnLosesPairs DEF AdminRemoveFindings, GroupShape, Typed

\* "Deduplicate".
LEMMA TurnAdminDeduplicate ==
  ASSUME GroupShape, NEW x \in Sets, x \notin disturbed', NEW d \in Sets, AdminDeduplicate(d)
  PROVE  Turn(x)
<1>1. disturbed \subseteq disturbed' /\ (x = d => state[d] \notin FinalStates)
  BY DEF AdminDeduplicate, Disturb
<1> QED
  BY <1>1, TurnLosesPairs DEF AdminDeduplicate, GroupShape, Typed

\* A run encodes images of its set only.
LEMMA TurnEncodeImage ==
  ASSUME GroupShape, NEW x \in Sets, x \notin disturbed', NEW k \in Keys, EncodeImage(k)
  PROVE  Turn(x)
<1>1. run.pc = "encode" /\ run.ds \in Sets /\ disturbed' = disturbed
  BY EncodeStep
<1>2. CASE run.lost
  BY <1>1, <1>2, EncodeStep, TurnQuiet
<1>3. CASE ~run.lost /\ x = run.ds
  BY <1>1, <1>3 DEF Turn, Encodes, RunOf
<1>4. CASE ~run.lost /\ x # run.ds
  <2> DEFINE code == row'[run.ds][k].code
  <2>1. row'[x] = row[x] /\ finding' = IF code # None THEN WithErrorFinding(run.ds, k, code) ELSE finding
    BY <1>4, EncodeStep
  <2> HIDE DEF code
  <2>2. SameFindings(x)
    BY <1>4, <2>1 DEF SameFindings, FindingsOf, WithErrorFinding
  <2> QED BY <1>1, <2>1, <2>2, TurnStill
<1> QED
  BY <1>2, <1>3, <1>4

\* A run reports pairs of its set only.
LEMMA TurnCompare ==
  ASSUME GroupShape, NEW x \in Sets, x \notin disturbed', Compare
  PROVE  Turn(x)
<1>1. UNCHANGED <<row, disturbed>>
  BY DEF Compare
<1>2. CASE RunOf(x)
  BY <1>1, <1>2 DEF Turn, Compares
<1>3. CASE ~RunOf(x)
  <2>1. CASE finding' = finding
    BY <1>1, <2>1, TurnQuiet
  <2>2. ASSUME NEW pairs, finding' = WithPairs(run.ds, pairs, run.config)
        PROVE  Turn(x)
    <3>1. SameFindings(x)
      BY <1>3, <2>2 DEF SameFindings, FindingsOf, WithPairs, RunOf
    <3> QED BY <1>1, <3>1, TurnStill
  <2> QED BY <2>1, <2>2 DEF Compare
<1> QED
  BY <1>2, <1>3

\* The three steps of the cleanup.
LEMMA TurnCleanup ==
  ASSUME GroupShape, NEW x \in Sets, x \notin disturbed', NEW d \in Sets,
         CleanupFindings(d) \/ CleanupEncodings(d) \/ CleanupSet(d)
  PROVE  Turn(x)
<1>1. CASE CleanupFindings(d)
  <2>1. /\ state[d] \in FinalStates /\ finding' = finding \ FindingsOf(d)
        /\ UNCHANGED <<state, row, disturbed>>
    BY <1>1 DEF CleanupFindings, Old, FinalStates
  <2>2. CASE x = d
    <3>1. Retires(x)
      BY <2>1, <2>2 DEF Retires, FindingsOf
    <3> QED BY <2>1, <3>1 DEF Turn
  <2>3. CASE x # d
    <3>1. SameFindings(x)
      BY <2>1, <2>3 DEF SameFindings, FindingsOf
    <3> QED BY <2>1, <3>1, TurnStill
  <2> QED BY <2>2, <2>3
<1>2. CASE CleanupEncodings(d)
  <2> DEFINE none == [k \in Keys |-> None]
  <2>1. /\ row' = [row EXCEPT ![d] = none] /\ finding' = WithoutEncodings(d)
        /\ UNCHANGED <<state, run, disturbed>> /\ FindingsOf(d) = {} /\ ~RunOf(d)
        /\ state[d] = "REJECTED"
    BY <1>2 DEF CleanupEncodings, Old
  <2>2. row'[d] = none /\ \A y \in Sets \ {d} : row'[y] = row[y]
    BY <2>1 DEF GroupShape, Typed
  <2>3. CASE x = d
    <3>1. Rows(d)' = {}
      BY <2>2 DEF Rows
    <3>2. FindingsOf(d)' = {}
      BY <2>1 DEF FindingsOf, WithoutEncodings
    <3> QED BY <2>1, <2>3, <3>1, <3>2 DEF Turn, Emptied, RunOf
  <2>4. CASE x # d
    <3>1. FindingsOf(x)' = {f \in FindingsOf(x) : f.first[1] # d /\ (f.second = None \/ f.second[1] # d)}
      BY <2>1 DEF FindingsOf, WithoutEncodings
    <3>2. Cascades(x)
      <4>1. Rows(d)' = {}
        BY <2>2 DEF Rows
      <4> QED BY <2>1, <2>4, <3>1, <4>1 DEF Cascades
    <3> QED BY <2>1, <2>2, <2>4, <3>2 DEF Turn
  <2> QED BY <2>3, <2>4
<1>3. CASE CleanupSet(d)
  <2>1. /\ state' = [state EXCEPT ![d] = None] /\ finding' = finding \ FindingsOf(d)
        /\ UNCHANGED <<row, run>> /\ Rows(d) = {} /\ ~RunOf(d)
        /\ disturbed' = disturbed \ {d}
    BY <1>3 DEF CleanupSet, Old
  <2>2. CASE x = d
    <3>1. Rows(d)' = {}
      BY <2>1 DEF Rows
    <3>2. FindingsOf(d)' = {}
      BY <2>1 DEF FindingsOf
    <3>3. state'[d] = None
      BY <2>1 DEF GroupShape, Typed
    <3> QED BY <2>1, <2>2, <3>1, <3>2, <3>3 DEF Turn, Emptied, RunOf
  <2>3. CASE x # d
    <3>1. SameFindings(x)
      BY <2>1, <2>3 DEF SameFindings, FindingsOf
    <3> QED BY <2>1, <2>3, <3>1, TurnStill
  <2> QED BY <2>2, <2>3
<1> QED
  BY <1>1, <1>2, <1>3

\* Every step is of one of these kinds for every set that is undisturbed after it.
LEMMA Turns ==
  ASSUME GroupShape, Exclusion, [Next]_vars, NEW x \in Sets, x \notin disturbed'
  PROVE  Turn(x)
<1>1. CASE UNCHANGED vars
  BY <1>1, TurnQuiet DEF vars
<1>2. CASE Next
  <2>1. ASSUME NEW d \in Sets,
               \/ Create(d) \/ BeginUpload(d) \/ Ready(d) \/ Process(d) \/ ReadClear(d)
               \/ \E endpoint \in DOMAIN Admits : BeginLate(d, endpoint)
               \/ \E verdict \in {"APPROVED", "REJECTED"} : Judge(d, verdict)
        PROVE  Turn(x)
    <3>1. UNCHANGED <<row, finding>> /\ disturbed \subseteq disturbed'
      BY <2>1 DEF Create, BeginUpload, Ready, Process, ReadClear, BeginLate, Judge, Disturb
    <3> QED BY <3>1, TurnQuiet
  <2>2. ASSUME \/ \E s \in Configs : CheckSettings(s) \/ AdminSettings(s)
               \/ ReadActiveSet \/ RequestFails
        PROVE  Turn(x)
    <3>1. UNCHANGED <<row, finding>> /\ disturbed \subseteq disturbed'
      BY <2>2 DEF CheckSettings, AdminSettings, ReadActiveSet, RequestFails, Disturb
    <3> QED BY <3>1, TurnQuiet
  <2>3. CASE \/ ReadImages \/ SetEncoded \/ StartDedupe \/ CountEmbeddings
             \/ SetDeduplicated \/ Raise \/ Fail \/ Finish \/ Restart \/ Killed
    <3>1. UNCHANGED <<row, finding>> /\ disturbed \subseteq disturbed'
      BY <2>3 DEF ReadImages, SetEncoded, StartDedupe, CountEmbeddings, SetDeduplicated,
                  Raise, Fail, Finish, Restart, Killed, Advance, Disturb
    <3> QED BY <3>1, TurnQuiet
  <2> QED BY <1>2, <2>1, <2>2, <2>3, TurnFinishUpload, TurnDeleteEncodings, TurnWriteEmpty,
             TurnCommitSettings,
             TurnAdminClearEmbeddings, TurnAdminEncode, TurnAdminRemoveFindings,
             TurnAdminDeduplicate, TurnEncodeImage, TurnCompare, TurnCleanup
          DEF Next, RunStep
<1> QED
  BY <1>1, <1>2

-----------------------------------------------------------------------------
(***************************************************************************)
(* What a step does to the run of an undisturbed set.                      *)
(***************************************************************************)
\* What a step may do to the run of a set that is undisturbed after it.
SetsOff(x) ==
  run = IdleRun /\ run'.pc = "begin" /\ run'.mem = "ENCODING_IN_PROGRESS"
  /\ state'[x] = "ENCODING_IN_PROGRESS"

\* Requests beside the run: they judge the set, or take its pairs.
Waits(x) ==
  /\ RunOf(x) /\ run' = run /\ row'[x] = row[x] /\ settings' = settings
  /\ \/ state'[x] = state[x]
     \/ state[x] = "UPLOADING_IN_PROGRESS"
     \/ state[x] = "DEDUPLICATED" /\ state'[x] \in {"APPROVED", "REJECTED", "ENCODED"}

Runs(x) ==
  /\ RunOf(x)
  /\ \/ ReadImages \/ (\E k \in Keys : EncodeImage(k)) \/ SetEncoded \/ StartDedupe
     \/ CountEmbeddings \/ Compare \/ SetDeduplicated \/ Raise \/ Restart

Course(x) == SetsOff(x) \/ Waits(x) \/ Runs(x)

\* A step beside the run.
LEMMA CourseWaits ==
  ASSUME NEW x \in Sets, RunOf(x)', run' = run, row'[x] = row[x], settings' = settings,
         state'[x] = state[x]
  PROVE  Course(x)
BY DEF Course, Waits, RunOf

\* The three ways to start a run.
LEMMA CourseStarts ==
  ASSUME GroupShape, NEW x \in Sets, RunOf(x)', NEW d \in Sets,
         Process(d) \/ AdminEncode(d) \/ AdminDeduplicate(d)
  PROVE  Course(x)
<1>1. /\ run = IdleRun /\ state' = [state EXCEPT ![d] = "ENCODING_IN_PROGRESS"]
      /\ \E e \in BOOLEAN : StartRun(d, e)
  BY DEF Process, AdminEncode, AdminDeduplicate
<1>2. run'.pc = "begin" /\ run'.mem = "ENCODING_IN_PROGRESS" /\ run'.ds = d
  BY <1>1 DEF StartRun, IdleRun
<1> QED
  BY <1>1, <1>2 DEF Course, SetsOff, RunOf, GroupShape, Typed

\* A clear of another set leaves the run alone.
LEMMA CourseDeleteEncodings ==
  ASSUME GroupShape, Exclusion, NEW x \in Sets, x \notin disturbed', RunOf(x)', DeleteEncodings
  PROVE  Course(x)
<1> DEFINE d == clear.ds
<1>1. /\ d \in Sets /\ run' = [run EXCEPT !.lost = run.lost \/ RunOf(d)]
      /\ row' = [row EXCEPT ![d] = [k \in Keys |-> None]] /\ UNCHANGED <<state, settings>>
      /\ RunOf(d) => d \in disturbed'
  BY DEF DeleteEncodings, Disturb, Exclusion, Slots
<1>2. run'.ds = run.ds
  BY <1>1 DEF GroupShape, Typed, RunRecord
<1>3. x # d /\ ~RunOf(d)
  BY <1>1, <1>2 DEF RunOf
<1>4. run' = [run EXCEPT !.lost = run.lost]
  <2>1. (run.lost \/ RunOf(d)) = run.lost
    BY <1>3 DEF GroupShape, Typed, RunRecord
  <2> QED BY <1>1, <2>1
<1>5. run' = run
  BY <1>4 DEF GroupShape, Typed, RunRecord
<1>6. row'[x] = row[x] /\ state'[x] = state[x]
  BY <1>1, <1>3 DEF GroupShape, Typed
<1> QED
  BY <1>1, <1>5, <1>6, CourseWaits

\* A step that leaves the run alone leaves the images of its set alone.
LEMMA CourseBeside ==
  ASSUME GroupShape, Exclusion, [Next]_vars, NEW x \in Sets, x \notin disturbed', RunOf(x)',
         run' = run, settings' = settings,
         \/ state'[x] = state[x]
         \/ state[x] = "UPLOADING_IN_PROGRESS"
         \/ state[x] = "DEDUPLICATED" /\ state'[x] \in {"APPROVED", "REJECTED", "ENCODED"}
  PROVE  Course(x)
<1>1. RunOf(x)
  BY DEF RunOf
<1>2. Turn(x)
  BY Turns
<1>3. row'[x] = row[x] \/ Encodes(x)
  BY <1>1, <1>2 DEF Turn, Emptied, Uploaded, Dropped
<1> QED
  BY <1>1, <1>3 DEF Course, Waits, Runs, Encodes

\* A run stays with its set, ends, or begins.
LEMMA RunSet ==
  ASSUME GroupShape, [Next]_vars
  PROVE  \/ run'.ds = run.ds
         \/ run' = IdleRun
         \/ \E d \in Sets : Process(d) \/ AdminEncode(d) \/ AdminDeduplicate(d)
<1>1. ASSUME NEW d \in Sets, Create(d) \/ BeginUpload(d) \/ Ready(d) \/ ReadClear(d)
             \/ \E endpoint : BeginLate(d, endpoint)
             \/ \E verdict \in {"APPROVED", "REJECTED"} : Judge(d, verdict)
             \/ AdminClearEmbeddings(d) \/ AdminRemoveFindings(d)
             \/ CleanupFindings(d) \/ CleanupEncodings(d) \/ CleanupSet(d)
      PROVE  run'.ds = run.ds
  BY <1>1 DEF Create, BeginUpload, Ready, ReadClear, BeginLate, Judge, AdminClearEmbeddings,
              AdminRemoveFindings, CleanupFindings, CleanupEncodings, CleanupSet
<1>2. ASSUME \/ \E s \in Configs : CheckSettings(s) \/ AdminSettings(s)
             \/ WriteEmpty \/ ReadActiveSet \/ CommitSettings \/ RequestFails
      PROVE  run'.ds = run.ds
  BY <1>2 DEF CheckSettings, AdminSettings, WriteEmpty, ReadActiveSet, CommitSettings, RequestFails
<1>5. ASSUME DeleteEncodings PROVE run'.ds = run.ds
  BY <1>5 DEF DeleteEncodings, GroupShape, Typed, RunRecord
<1>3. ASSUME FinishUpload PROVE run'.ds = run.ds
  BY <1>3, UploadStep
<1>4. ASSUME RunStep PROVE run'.ds = run.ds \/ run' = IdleRun
  <2>1. ASSUME Fail \/ Finish \/ Killed PROVE run' = IdleRun
    BY <2>1 DEF Fail, Finish, Killed
  <2>2. ASSUME NEW k \in Keys, EncodeImage(k) PROVE run'.ds = run.ds
    BY <2>2, EncodeStep
  <2>3. ASSUME Compare PROVE run'.ds = run.ds
    BY <2>3, CompareStep
  <2>4. ASSUME SetEncoded \/ StartDedupe \/ SetDeduplicated PROVE run'.ds = run.ds
    <3>1. \E target, next : Advance(target, next)
      BY <2>4 DEF SetEncoded, StartDedupe, SetDeduplicated
    <3> QED BY <3>1 DEF Advance, GroupShape, Typed, RunRecord
  <2>5. ASSUME ReadImages \/ CountEmbeddings \/ Raise PROVE run'.ds = run.ds
    BY <2>5 DEF ReadImages, CountEmbeddings, Raise, GroupShape, Typed, RunRecord
  <2>6. ASSUME Restart PROVE run'.ds = run.ds
    BY <2>6 DEF Restart, IdleRun
  <2> QED BY <1>4, <2>1, <2>2, <2>3, <2>4, <2>5, <2>6 DEF RunStep
<1> QED
  BY <1>1, <1>2, <1>3, <1>4, <1>5 DEF Next, vars

\* Every step is of one of these kinds for a set with a run that is undisturbed after it.
LEMMA Courses ==
  ASSUME GroupShape, Exclusion, [Next]_vars, NEW x \in Sets, x \notin disturbed', RunOf(x)'
  PROVE  Course(x)
<1> DEFINE Aside == \/ state'[x] = state[x]
                    \/ state[x] = "UPLOADING_IN_PROGRESS"
                    \/ state[x] = "DEDUPLICATED" /\ state'[x] \in {"APPROVED", "REJECTED", "ENCODED"}
           Beside == RunOf(x) => run' = run /\ settings' = settings /\ Aside
<1>1. run'.ds = x /\ x # None /\ x \in Sets
  BY NoneApart DEF RunOf
<1>2. ASSUME NEW d \in Sets
      PROVE  /\ Create(d) => Beside
             /\ BeginUpload(d) \/ ReadClear(d) => Beside
             /\ \A endpoint \in DOMAIN Admits : BeginLate(d, endpoint) => Beside
             /\ Ready(d) => Beside
             /\ \A verdict \in {"APPROVED", "REJECTED"} : Judge(d, verdict) => Beside
             /\ AdminClearEmbeddings(d) => Beside
             /\ AdminRemoveFindings(d) => Beside
             /\ CleanupFindings(d) => Beside
             /\ CleanupEncodings(d) => Beside
             /\ CleanupSet(d) => Beside
  <2>1. Create(d) => Beside
    BY DEF Create, GroupShape, Typed, Absent
  <2>2. Ready(d) => Beside
    BY DEF Ready, Overtaken, Admits, Disturb, GroupShape, Typed
  <2>3. ASSUME NEW verdict \in {"APPROVED", "REJECTED"}, Judge(d, verdict)
        PROVE  Beside
    BY <2>3 DEF Judge, Disturb, GroupShape, Typed
  <2>4. AdminClearEmbeddings(d) => Beside
    BY DEF AdminClearEmbeddings, GroupShape, Typed, Disturb
  <2>5. AdminRemoveFindings(d) => Beside
    BY DEF AdminRemoveFindings, GroupShape, Typed, Disturb
  <2>6. CleanupSet(d) => Beside
    BY DEF CleanupSet, Old, GroupShape, Typed
  <2>7. BeginUpload(d) \/ ReadClear(d) \/ CleanupFindings(d) \/ CleanupEncodings(d) => Beside
    BY DEF BeginUpload, ReadClear, CleanupFindings, CleanupEncodings
  <2>8. \A endpoint : BeginLate(d, endpoint) => Beside
    BY DEF BeginLate
  <2> QED BY <2>1, <2>2, <2>3, <2>4, <2>5, <2>6, <2>7, <2>8
<1>3. FinishUpload => Beside
  BY UploadStep DEF GroupShape, Typed
<1>4. CommitSettings => ~RunOf(x)
  BY ChangeHasNoRun DEF CommitSettings
<1>5. \A s \in Configs : AdminSettings(s) => ~RunOf(x)
  BY DEF AdminSettings, Disturb
<1>10. ReadActiveSet \/ RequestFails \/ (\E s \in Configs : CheckSettings(s)) => Beside
  BY DEF ReadActiveSet, RequestFails, CheckSettings
<1>11. WriteEmpty => Beside
  <2> SUFFICES ASSUME WriteEmpty, RunOf(x) PROVE Beside
    OBVIOUS
  <2>1. clear.ds \in Sets /\ state' = [state EXCEPT ![clear.ds] = "EMPTY"]
        /\ UNCHANGED <<run, settings>> /\ (RunOf(clear.ds) => clear.ds \in disturbed')
    BY DEF WriteEmpty, Exclusion, Slots
  <2>2. state'[x] = state[x]
    BY <2>1 DEF GroupShape, Typed
  <2> QED BY <2>1, <2>2
<1>6. ASSUME Next, ~\E d \in Sets : Process(d) \/ AdminEncode(d) \/ AdminDeduplicate(d),
             ~DeleteEncodings, RunOf(x), ~Runs(x)
      PROVE  run' = run /\ settings' = settings /\ Aside
  <2>1. ASSUME Fail \/ Finish \/ Killed PROVE FALSE
    BY <1>1, <2>1, IdleIsTyped DEF Fail, Finish, Killed
  <2> HIDE DEF Aside
  <2> QED BY <1>2, <1>3, <1>4, <1>5, <1>6, <1>10, <1>11, <2>1 DEF Next, RunStep, Runs
<1>7. (~\E d \in Sets : Process(d) \/ AdminEncode(d) \/ AdminDeduplicate(d)) => RunOf(x)
  BY <1>1, IdleIsTyped, RunSet DEF RunOf
<1>8. CASE UNCHANGED vars
  BY <1>8, CourseWaits DEF vars
<1>9. CASE Next
  <2>1. CASE DeleteEncodings \/ \E d \in Sets : Process(d) \/ AdminEncode(d) \/ AdminDeduplicate(d)
    BY <2>1, CourseStarts, CourseDeleteEncodings
  <2>2. CASE /\ ~DeleteEncodings
             /\ ~\E d \in Sets : Process(d) \/ AdminEncode(d) \/ AdminDeduplicate(d)
    <3>1. RunOf(x)
      BY <1>7, <1>9, <2>2
    <3>2. CASE Runs(x)
      BY <3>2 DEF Course
    <3>3. CASE ~Runs(x)
      <4>1. run' = run /\ settings' = settings /\ Aside
        BY <1>6, <1>9, <2>2, <3>1, <3>3
      <4> QED BY <4>1, CourseBeside
    <3> QED BY <3>2, <3>3
  <2> QED BY <2>1, <2>2
<1> QED
  BY <1>8, <1>9

\* The object in memory of the run of a set, and the row of the set.
InStep(x) ==
  RunOf(x) =>
    /\ \/ run.mem = state[x]
       \/ /\ run.pc = "done" /\ run.mem = "DEDUPLICATED"
          /\ state[x] \in {"ENCODED", "APPROVED", "REJECTED"}
    /\ run.mem = "DEDUPLICATED" => run.pc = "done"
    /\ run.mem \notin {"EMPTY", "UPLOADING_IN_PROGRESS"}

\* Steps of a run that leave its object and the row alone, short of its end.
LEMMA InStepKept ==
  ASSUME NEW x, RunOf(x), InStep(x), run.pc # "done", state'[x] = state[x], run'.mem = run.mem,
         run'.ds = run.ds
  PROVE  InStep(x)'
BY DEF InStep, RunOf

\* set_state of a run whose object agrees with the row finds the slot free: the set holds it.
LEMMA InStepAdvance ==
  ASSUME GroupShape, Exclusion, NEW x \in Sets, RunOf(x), InStep(x),
         NEW target \in State, NEW next \in PCs \ {"idle", "encode"}, Advance(target, next),
         \/ target = "ENCODED"
         \/ target = "DEDUPLICATION_IN_PROGRESS" /\ run.mem = "ENCODED"
         \/ target = "DEDUPLICATED" /\ next = "done",
         run.pc # "idle", run.pc # "done"
  PROVE  /\ InStep(x)' /\ RunOf(x)'
         /\ \/ /\ Allowed(run.mem, target) /\ state'[x] = target
               /\ run'.mem = target /\ run'.pc = next
            \/ state'[x] = state[x] /\ run'.mem = run.mem /\ run'.pc = "error"
<1>1. run.ds = x /\ run'.ds = x /\ run.mem = state[x] /\ run.mem # "DEDUPLICATED"
  BY AdvanceStep DEF RunOf, InStep
<1>2. Allowed(run.mem, target) => Fits(x, target)
  <2>1. run.mem \in State
    BY DEF GroupShape, Pace
  <2>2. Allowed(run.mem, target) => run.mem \in BLOCKING_STATES
    BY <1>1, <2>1 DEF Allowed, VALID_TRANSITIONS, State, BLOCKING_STATES
  <2> QED BY <1>1, <2>2 DEF Fits, Exclusion, OneInSlot
<1>3. \/ /\ Allowed(run.mem, target) /\ state' = [state EXCEPT ![x] = target]
         /\ run'.mem = target /\ run'.pc = next
      \/ state' = state /\ run'.mem = run.mem /\ run'.pc = "error"
  BY <1>1, <1>2, AdvanceStep
<1>4. \/ /\ Allowed(run.mem, target) /\ state'[x] = target
         /\ run'.mem = target /\ run'.pc = next
      \/ state'[x] = state[x] /\ run'.mem = run.mem /\ run'.pc = "error"
  BY <1>3 DEF GroupShape, Typed
<1>5. InStep(x)'
  BY <1>1, <1>4 DEF InStep, RunOf
<1> QED
  BY <1>1, <1>4, <1>5 DEF RunOf

\* What the three calls of set_state in find_duplicates do to a set in step.
LEMMA SetStateInStep ==
  ASSUME GroupShape, Exclusion, NEW x \in Sets, RunOf(x), InStep(x),
         SetEncoded \/ StartDedupe \/ SetDeduplicated
  PROVE  /\ InStep(x)' /\ RunOf(x)' /\ UNCHANGED <<row, finding, settings, disturbed>>
         /\ run'.config = run.config
         /\ \/ state'[x] = state[x] /\ run'.pc = "error"
            \/ SetEncoded /\ state'[x] = "ENCODED" /\ run'.pc \in {"done", "start_dedupe"}
            \/ StartDedupe /\ state'[x] = "DEDUPLICATION_IN_PROGRESS" /\ run'.pc = "count"
            \/ SetDeduplicated /\ state'[x] = "DEDUPLICATED" /\ run'.pc = "done"
<1>1. CASE SetEncoded
  <2> DEFINE next == IF run.encode_only THEN "done" ELSE "start_dedupe"
  <2>1. /\ Advance("ENCODED", next) /\ run.pc = "encode"
        /\ next \in PCs \ {"idle", "encode"} /\ next \in {"done", "start_dedupe"}
        /\ "ENCODED" \in State
    BY <1>1 DEF SetEncoded, PCs, State
  <2> HIDE DEF next
  <2>2. run.pc # "idle" /\ run.pc # "done"
    BY <2>1
  <2> QED BY <1>1, <2>1, <2>2, AdvanceStep, InStepAdvance
<1>2. CASE StartDedupe
  <2>1. /\ Advance("DEDUPLICATION_IN_PROGRESS", "count") /\ run.pc = "start_dedupe"
        /\ run.mem = "ENCODED" /\ "count" \in PCs \ {"idle", "encode"}
        /\ "DEDUPLICATION_IN_PROGRESS" \in State
    BY <1>2 DEF StartDedupe, PCs, State, GroupShape, Pace
  <2>2. run.pc # "idle" /\ run.pc # "done"
    BY <2>1
  <2> QED BY <1>2, <2>1, <2>2, AdvanceStep, InStepAdvance
<1>3. CASE SetDeduplicated
  <2>1. /\ Advance("DEDUPLICATED", "done") /\ run.pc = "deduped"
        /\ "done" \in PCs \ {"idle", "encode"} /\ "DEDUPLICATED" \in State
    BY <1>3 DEF SetDeduplicated, PCs, State
  <2>2. run.pc # "idle" /\ run.pc # "done"
    BY <2>1
  <2> QED BY <1>3, <2>1, <2>2, AdvanceStep, InStepAdvance
<1> QED
  BY <1>1, <1>2, <1>3

\* A redelivered run reads its object again.
LEMMA RestartInStep ==
  ASSUME GroupShape, NEW x \in Sets, RunOf(x), InStep(x), Restart, x \notin disturbed'
  PROVE  /\ InStep(x)' /\ RunOf(x)' /\ run'.pc = "begin" /\ state' = state
         /\ UNCHANGED <<row, finding, settings>>
<1>1. /\ run' = Begun(run.ds, run.encode_only, state[run.ds]) /\ state' = state
      /\ state[x] # "DEDUPLICATED" /\ UNCHANGED <<row, finding, settings>>
  BY DEF Restart, Disturb, RunOf, Begun
<1>2. run'.pc = "begin" /\ run'.ds = x /\ run'.mem = state[x]
  BY <1>1 DEF Begun, IdleRun, RunOf
<1>3. InStep(x)'
  BY <1>1, <1>2 DEF InStep, RunOf
<1> QED
  BY <1>1, <1>2, <1>3 DEF RunOf

\* The object of the run of an undisturbed set stays in step with the row.
LEMMA InStepInductive ==
  ASSUME GroupShape, Exclusion, [Next]_vars, NEW x \in Sets, x \notin disturbed',
         x \notin disturbed => InStep(x)
  PROVE  InStep(x)'
<1> SUFFICES ASSUME RunOf(x)' PROVE InStep(x)'
  BY DEF InStep, RunOf
<1>1. CASE SetsOff(x)
  BY <1>1 DEF SetsOff, InStep
<1>2. ASSUME RunOf(x) PROVE InStep(x)
  <2>1. x \notin disturbed
    BY Turns DEF Turn, Emptied
  <2> QED BY <2>1
<1>3. CASE Waits(x)
  BY <1>2, <1>3 DEF Waits, InStep
<1>4. CASE Runs(x)
  <2>1. RunOf(x) /\ InStep(x)
    BY <1>2, <1>4 DEF Runs
  <2>2. ASSUME NEW k \in Keys, EncodeImage(k) PROVE InStep(x)'
    BY <2>1, <2>2, EncodeStep, InStepKept
  <2>3. ASSUME Compare PROVE InStep(x)'
    BY <2>1, <2>3, CompareStep, InStepKept
  <2>4. ASSUME ReadImages \/ CountEmbeddings \/ Raise PROVE InStep(x)'
    <3>1. /\ run'.mem = run.mem /\ run'.ds = run.ds /\ state' = state /\ run.pc # "done"
      BY <2>4 DEF ReadImages, CountEmbeddings, Raise, GroupShape, Typed, RunRecord
    <3> QED BY <2>1, <3>1, InStepKept
  <2> QED BY <1>4, <2>1, <2>2, <2>3, <2>4, SetStateInStep, RestartInStep DEF Runs
<1> QED
  BY <1>1, <1>3, <1>4, Courses DEF Course

\* What a step may do to the state of a set that is undisturbed before and after it.
Changes(x) ==
  \/ state[x] = None /\ state'[x] = "EMPTY"
  \/ Uploading(x) /\ state'[x] \in {"UPLOADING_IN_PROGRESS", "READY"}
  \/ state[x] = "DEDUPLICATED" /\ state'[x] = "ENCODED"
  \/ state[x] = "DEDUPLICATED" /\ state'[x] \in {"APPROVED", "REJECTED"} /\ change = IdleChange
  \/ state[x] \notin FinalStates /\ state'[x] = "ENCODING_IN_PROGRESS"
  \/ /\ state[x] \notin FinalStates /\ state'[x] = "EMPTY"
     /\ ~RunOf(x) /\ encodings_with_embeddings(x) = {}
  \/ RunOf(x) /\ (SetEncoded \/ StartDedupe \/ SetDeduplicated)
  \/ RunOf(x) /\ state[x] \in InProgress
     /\ state'[x] \in {"ENCODING_FAILED", "DEDUPLICATION_FAILED"}

StateTurn(x) == state'[x] = state[x] \/ Emptied(x) \/ Dropped(x) \/ Changes(x)

\* The state a clear writes.
LEMMA StateTurnWriteEmpty ==
  ASSUME GroupShape, Exclusion, NEW x \in Sets, x \notin disturbed', WriteEmpty
  PROVE  StateTurn(x)
<1> DEFINE left(d) == RunOf(d) \/ Rows(d) # {} \/ FindingsOf(d) # {}
           used(d) == \/ RunOf(d) \/ FindingsOf(d) # {} \/ encodings_with_embeddings(d) # {}
                      \/ state[d] \in FinalStates
<1>1. PICK d \in Sets :
         /\ state' = [state EXCEPT ![d] = "EMPTY"]
         /\ UNCHANGED <<row, finding, run>>
         /\ left(d) /\ used(d) => d \in disturbed'
  BY DEF WriteEmpty, Exclusion, Slots
<1>2. state'[d] = "EMPTY" /\ (x # d => state'[x] = state[x])
  BY <1>1 DEF GroupShape, Typed
<1>3. CASE x # d
  BY <1>2, <1>3 DEF StateTurn
<1>4. CASE x = d /\ ~left(d)
  <2>1. Rows(d)' = {} /\ ~RunOf(d) /\ ~RunOf(d)' /\ FindingsOf(d)' = {}
    BY <1>1, <1>4 DEF Rows, RunOf, FindingsOf
  <2> QED BY <1>2, <1>4, <2>1 DEF StateTurn, Emptied
<1>5. CASE x = d /\ left(d)
  <2>1. ~used(d)
    BY <1>1, <1>5
  <2> QED BY <1>2, <1>5, <2>1 DEF StateTurn, Changes
<1> QED
  BY <1>3, <1>4, <1>5

\* The actions that take the embeddings.
LEMMA StateTurnDropped ==
  ASSUME GroupShape, NEW x \in Sets, NEW d \in Sets,
         row' = WithoutEmbeddings(d), finding' = finding \ FindingsOf(d),
         \/ state' = [state EXCEPT ![d] = "READY"]
         \/ state' = [state EXCEPT ![d] = "ENCODING_IN_PROGRESS"],
         x = d => ~RunOf(d)
  PROVE  StateTurn(x)
<1>1. \A k \in Keys : row'[d][k] # None => row'[d][k].embedding = None /\ row'[d][k].code = None
  BY EmbeddingsDropped DEF GroupShape
<1>2. FindingsOf(d)' = {}
  BY DEF FindingsOf
<1>3. state'[d] \in {"READY", "ENCODING_IN_PROGRESS"} /\ (x # d => state'[x] = state[x])
  BY DEF GroupShape, Typed
<1> QED
  BY <1>1, <1>2, <1>3 DEF StateTurn, Dropped

\* Every step moves an undisturbed set in one of these ways.
LEMMA StateTurns ==
  ASSUME GroupShape, Exclusion, [Next]_vars, NEW x \in Sets, x \notin disturbed, x \notin disturbed',
         InStep(x)
  PROVE  StateTurn(x)
<1>1. ASSUME NEW d \in Sets
      PROVE  /\ Create(d) => StateTurn(x)
             /\ Ready(d) => StateTurn(x)
             /\ Process(d) => StateTurn(x)
             /\ \A verdict \in {"APPROVED", "REJECTED"} : Judge(d, verdict) => StateTurn(x)
             /\ AdminClearEmbeddings(d) => StateTurn(x)
             /\ AdminRemoveFindings(d) => StateTurn(x)
             /\ AdminEncode(d) => StateTurn(x)
             /\ AdminDeduplicate(d) => StateTurn(x)
             /\ CleanupSet(d) => StateTurn(x)
  <2>1. Create(d) => StateTurn(x)
    BY DEF Create, StateTurn, Changes, GroupShape, Typed
  <2>2. Ready(d) => StateTurn(x)
    BY DEF Ready, StateTurn, Changes, GroupShape, Typed, Uploading, Overtaken, Admits, Disturb
  <2>3. Process(d) => StateTurn(x)
    BY DEF Process, StateTurn, Changes, GroupShape, Typed, PROCESSABLE_STATES, FinalStates,
           Overtaken, Admits, Disturb
  <2>4. ASSUME NEW verdict \in {"APPROVED", "REJECTED"}, Judge(d, verdict)
        PROVE  StateTurn(x)
    BY <2>4 DEF Judge, StateTurn, Changes, GroupShape, Typed, Disturb, GroupIsFree
  <2>5. AdminClearEmbeddings(d) => StateTurn(x)
    BY StateTurnDropped DEF AdminClearEmbeddings, Disturb
  <2>6. AdminRemoveFindings(d) => StateTurn(x)
    BY DEF AdminRemoveFindings, StateTurn, Changes, GroupShape, Typed, Disturb
  <2>7. ASSUME AdminEncode(d) PROVE StateTurn(x)
    <3>1. ~RunOf(d)
      BY <2>7, IdleIsTyped DEF AdminEncode, RunOf
    <3> QED BY <2>7, <3>1, StateTurnDropped DEF AdminEncode
  <2>8. AdminDeduplicate(d) => StateTurn(x)
    BY DEF AdminDeduplicate, StateTurn, Changes, GroupShape, Typed, Disturb
  <2>9. ASSUME CleanupSet(d), x = d PROVE Emptied(x)
    <3>1. /\ state'[d] = None /\ Rows(d)' = {} /\ ~RunOf(d) /\ run' = run
          /\ FindingsOf(d)' = {}
      BY <2>9 DEF CleanupSet, Old, GroupShape, Typed, Rows, FindingsOf
    <3> QED BY <2>9, <3>1, NoneApart DEF Emptied, RunOf, State
  <2>10. CleanupSet(d) => StateTurn(x)
    BY <2>9 DEF CleanupSet, GroupShape, Typed, StateTurn
  <2> QED BY <2>1, <2>2, <2>3, <2>4, <2>5, <2>6, <2>7, <2>8, <2>10
<1>2. FinishUpload => StateTurn(x)
  BY UploadStep DEF GroupShape, Typed, StateTurn, Changes
<1>3. ASSUME CommitSettings PROVE StateTurn(x)
  <2>1. change.ds \in Sets \cup {None} /\ ~RunOf(x)
    BY <1>3, ChangeHasNoRun DEF CommitSettings, Exclusion, Slots
  <2>2. CASE state' = state
    BY <2>2 DEF StateTurn
  <2>3. CASE change.ds # None
    BY <1>3, <2>1, <2>3, StateTurnDropped DEF CommitSettings
  <2> QED BY <1>3, <2>2, <2>3 DEF CommitSettings
<1>4. ASSUME SetEncoded \/ StartDedupe \/ SetDeduplicated PROVE StateTurn(x)
  <2>1. run.ds \in Sets
    BY <1>4 DEF SetEncoded, StartDedupe, SetDeduplicated, GroupShape, Pace
  <2>2. CASE RunOf(x)
    BY <1>4, <2>2 DEF StateTurn, Changes
  <2>3. CASE ~RunOf(x)
    <3>1. \E target, next : Advance(target, next)
      BY <1>4 DEF SetEncoded, StartDedupe, SetDeduplicated
    <3>2. state'[x] = state[x]
      BY <2>1, <2>3, <3>1 DEF Advance, RunOf, GroupShape, Typed
    <3> QED BY <3>2 DEF StateTurn
  <2> QED BY <2>2, <2>3
<1>5. ASSUME Fail PROVE StateTurn(x)
  <2> DEFINE target == IF run.mem = "DEDUPLICATION_IN_PROGRESS"
                       THEN "DEDUPLICATION_FAILED" ELSE "ENCODING_FAILED"
  <2>1. /\ run.ds \in Sets /\ run.pc = "error" /\ run.mem \in State
        /\ state' = IF Allowed(run.mem, target) THEN [state EXCEPT ![run.ds] = target] ELSE state
    BY <1>5 DEF Fail, GroupShape, Pace
  <2>2. Allowed(run.mem, target) => run.mem \in InProgress
    BY <2>1 DEF Allowed, VALID_TRANSITIONS, State, InProgress
  <2>3. target \in {"ENCODING_FAILED", "DEDUPLICATION_FAILED"}
    OBVIOUS
  <2> HIDE DEF target
  <2>4. CASE ~RunOf(x)
    <3>1. state'[x] = state[x]
      BY <2>1, <2>4 DEF RunOf, GroupShape, Typed
    <3> QED BY <3>1 DEF StateTurn
  <2>5. CASE RunOf(x)
    <3>1. run.mem = state[x]
      BY <2>1, <2>5 DEF InStep
    <3>2. state'[x] = state[x] \/ (state[x] \in InProgress /\ state'[x] = target)
      BY <2>1, <2>2, <2>5, <3>1 DEF RunOf, GroupShape, Typed
    <3> QED BY <2>3, <2>5, <3>2 DEF StateTurn, Changes
  <2> QED BY <2>4, <2>5
<1>6. CASE UNCHANGED vars
  BY <1>6 DEF vars, StateTurn
<1>7. CASE Next
  <2>1. ASSUME NEW d \in Sets, \/ BeginUpload(d) \/ CleanupFindings(d) \/ CleanupEncodings(d)
                               \/ ReadClear(d) \/ \E endpoint : BeginLate(d, endpoint)
        PROVE  state' = state
    BY <2>1 DEF BeginUpload, CleanupFindings, CleanupEncodings, ReadClear, BeginLate
  <2>2. ASSUME \/ \E s \in Configs : CheckSettings(s) \/ AdminSettings(s)
               \/ DeleteEncodings \/ ReadActiveSet \/ RequestFails
        PROVE  state' = state
    BY <2>2 DEF CheckSettings, AdminSettings, DeleteEncodings, ReadActiveSet, RequestFails
  <2>3. ASSUME NEW k \in Keys, EncodeImage(k) PROVE state' = state
    BY <2>3 DEF EncodeImage
  <2>4. ASSUME \/ ReadImages \/ CountEmbeddings \/ Compare \/ Raise \/ Finish \/ Restart
               \/ Killed
        PROVE  state' = state
    BY <2>4 DEF ReadImages, CountEmbeddings, Compare, Raise, Finish, Restart, Killed
  <2>5. state' = state => StateTurn(x)
    BY DEF StateTurn
  <2> QED BY <1>1, <1>2, <1>3, <1>4, <1>5, <1>7, <2>1, <2>2, <2>3, <2>4, <2>5, StateTurnWriteEmpty
          DEF Next, RunStep
<1> QED
  BY <1>6, <1>7

-----------------------------------------------------------------------------
(***************************************************************************)
(* Images: embeddings are current, and so is what a run has read.          *)
(***************************************************************************)
\* Every embedding of a set is made from the file its row names and the settings in force.
Current(x) ==
  \A k \in encodings_with_embeddings(x) :
    row[x][k].embedding = [image |-> row[x][k].filename, settings |-> settings]

\* While images may be uploaded nothing is encoded yet.
Fresh(x) == Uploading(x) => encodings_with_embeddings(x) = {}

\* What the run of a set has read is what is there now.
ReadCurrent(x) ==
  RunOf(x) =>
    /\ run.pc \in Reading => run.config = from_deduplication_set(settings)
    /\ run.pc = "encode" =>
         /\ \A k \in DOMAIN run.todo : row[x][k] # None /\ run.todo[k].filename = row[x][k].filename
         /\ \A k \in Rows(x) \ DOMAIN run.todo : row[x][k].embedding # None \/ row[x][k].code # None

ImagesCurrent(x) == InStep(x) /\ Current(x) /\ Fresh(x) /\ ReadCurrent(x)

\* New settings reach an undisturbed set only when it has no embeddings and no run.
LEMMA SettingsChange ==
  ASSUME GroupShape, Exclusion, [Next]_vars, NEW x \in Sets, x \notin disturbed',
         settings' # settings
  PROVE  encodings_with_embeddings(x)' = {} /\ ~RunOf(x)'
<1>1. ASSUME row'[x] = row[x], encodings_with_embeddings(x) = {}
      PROVE  encodings_with_embeddings(x)' = {}
  BY <1>1 DEF encodings_with_embeddings, Rows
<1>2. ASSUME NEW s \in Configs, AdminSettings(s)
      PROVE  encodings_with_embeddings(x)' = {} /\ ~RunOf(x)'
  <2>1. row' = row /\ run' = run /\ ~RunOf(x) /\ encodings_with_embeddings(x) = {}
    BY <1>2 DEF AdminSettings, Disturb
  <2> QED BY <1>1, <2>1 DEF RunOf
<1>3. ASSUME CommitSettings
      PROVE  encodings_with_embeddings(x)' = {} /\ ~RunOf(x)'
  <2>1. run' = run /\ ~RunOf(x) /\ x \notin disturbed /\ x \notin KeepEmbeddings \ {change.ds}
    BY <1>3, ChangeHasNoRun DEF CommitSettings, Disturb
  <2>2. change # IdleChange /\ change.pc = "read"
    BY <1>3 DEF CommitSettings, IdleChange
  <2>3. x # change.ds => encodings_with_embeddings(x) = {}
    BY <2>1, <2>2 DEF Exclusion, ChangeSees, KeepEmbeddings
  <2>4. CASE change.ds = None
    <3>1. row' = row /\ x # change.ds
      BY <1>3, <2>4, NoneApart DEF CommitSettings
    <3> QED BY <1>1, <2>1, <2>3, <3>1 DEF RunOf
  <2>5. CASE change.ds # None
    <3>1. change.ds \in Sets /\ row' = WithoutEmbeddings(change.ds)
      BY <1>3, <2>5 DEF CommitSettings, Exclusion, Slots
    <3>2. /\ \A y \in Sets \ {change.ds} : row'[y] = row[y]
          /\ \A k \in Keys : row'[change.ds][k] # None => row'[change.ds][k].embedding = None
      BY <3>1, EmbeddingsDropped DEF GroupShape
    <3>3. encodings_with_embeddings(x)' = {}
      <4>1. CASE x = change.ds
        BY <3>2, <4>1 DEF encodings_with_embeddings, Rows
      <4>2. CASE x # change.ds
        BY <1>1, <2>3, <3>2, <4>2
      <4> QED BY <4>1, <4>2
    <3> QED BY <2>1, <3>3 DEF RunOf
  <2> QED BY <2>4, <2>5
<1>4. ASSUME ~CommitSettings, ~\E s \in Configs : AdminSettings(s) PROVE settings' = settings
  <2>1. ASSUME NEW d \in Sets
        PROVE  /\ Create(d) \/ BeginUpload(d) \/ Ready(d) \/ Process(d) \/ ReadClear(d)
                    => settings' = settings
               /\ \A endpoint : BeginLate(d, endpoint) => settings' = settings
               /\ \A verdict \in {"APPROVED", "REJECTED"} : Judge(d, verdict) => settings' = settings
               /\ AdminClearEmbeddings(d) \/ AdminRemoveFindings(d) \/ AdminEncode(d)
                    \/ AdminDeduplicate(d) => settings' = settings
               /\ CleanupFindings(d) \/ CleanupEncodings(d) \/ CleanupSet(d)
                    => settings' = settings
    BY DEF Create, BeginUpload, Ready, Process, ReadClear, BeginLate, Judge, AdminClearEmbeddings,
           AdminRemoveFindings, AdminEncode, AdminDeduplicate, CleanupFindings,
           CleanupEncodings, CleanupSet
  <2>2. \/ FinishUpload \/ DeleteEncodings \/ WriteEmpty \/ ReadActiveSet \/ RequestFails
        \/ \E s \in Configs : CheckSettings(s)
        => settings' = settings
    BY DEF FinishUpload, DeleteEncodings, WriteEmpty, ReadActiveSet, RequestFails, CheckSettings
  <2>3. RunStep => settings' = settings
    BY DEF RunStep, ReadImages, EncodeImage, SetEncoded, StartDedupe, CountEmbeddings, Compare,
           SetDeduplicated, Raise, Fail, Finish, Restart, Killed, Advance
  <2> QED BY <1>4, <2>1, <2>2, <2>3 DEF Next, vars
<1> QED
  BY <1>2, <1>3, <1>4

\* What one image of a current run is saved with.
LEMMA EncodedCurrent ==
  ASSUME GroupShape, NEW x \in Sets, RunOf(x), ImagesCurrent(x), NEW k \in Keys, EncodeImage(k),
         ~run.lost
  PROVE  /\ Current(x)' /\ ReadCurrent(x)' /\ settings' = settings
         /\ \A j \in Keys \ {k} : row'[x][j] = row[x][j]
         /\ row'[x][k] # None /\ (row'[x][k].embedding # None \/ row'[x][k].code # None)
<1>1. run.ds = x /\ run'.ds = x /\ run.pc = "encode" /\ k \in DOMAIN run.todo /\ settings' = settings
  BY EncodeStep DEF RunOf
<1>2. run.config = from_deduplication_set(settings) /\ as_dict(run.config) = settings
  <2>1. run.config = from_deduplication_set(settings)
    BY <1>1 DEF ImagesCurrent, ReadCurrent, Reading
  <2>2. settings \in Settings
    BY GroupDataAssumption DEF GroupShape, Typed
  <2> QED BY <2>1, <2>2, BackToSettings
<1>3. /\ \A j \in Keys \ {k} : row'[x][j] = row[x][j]
      /\ row'[x][k] # None /\ row'[x][k].filename = row[x][k].filename
      /\ row'[x][k].code # None => row'[x][k].embedding = None
      /\ row'[x][k].code = None => row'[x][k].embedding = [image |-> run.todo[k].filename,
                                                           settings |-> settings]
      /\ DOMAIN run'.todo = DOMAIN run.todo \ {k} /\ \A j \in DOMAIN run'.todo : run'.todo[j] = run.todo[j]
      /\ run'.config = run.config /\ run'.pc = "encode"
  BY <1>1, <1>2, EncodeStep
<1>4. run.todo[k].filename = row[x][k].filename
  BY <1>1 DEF ImagesCurrent, ReadCurrent
<1>5. ~(row'[x][k].code # None) => row'[x][k].embedding # None
  <2>1. run.todo[k] \in Row
    BY <1>1, TodoType DEF GroupShape, Typed, RunRecord, EmptyRow
  <2>2. [image |-> run.todo[k].filename, settings |-> settings] \in Embedding
    BY <2>1, GroupDataAssumption DEF Row, Embedding, GroupShape, Typed
  <2> QED BY <1>3, <2>2, NoneApart
<1>6. ASSUME NEW j \in encodings_with_embeddings(x)'
      PROVE  row'[x][j].embedding = [image |-> row'[x][j].filename, settings |-> settings']
  <2>1. j \in Keys /\ row'[x][j] # None /\ row'[x][j].embedding # None
    BY DEF encodings_with_embeddings, Rows
  <2>2. CASE j = k
    BY <1>1, <1>3, <1>4, <2>1, <2>2
  <2>3. CASE j # k
    <3>1. row'[x][j] = row[x][j] /\ j \in encodings_with_embeddings(x)
      BY <1>3, <2>1, <2>3 DEF encodings_with_embeddings, Rows
    <3> QED BY <1>1, <3>1 DEF ImagesCurrent, Current
  <2> QED BY <2>2, <2>3
<1>7. ReadCurrent(x)'
  <2>1. ASSUME NEW j \in DOMAIN run'.todo
        PROVE  row'[x][j] # None /\ run'.todo[j].filename = row'[x][j].filename
    <3>1. j \in DOMAIN run.todo /\ j # k /\ j \in Keys
      BY <1>3, <2>1, TodoType DEF GroupShape, Typed, RunRecord
    <3> QED BY <1>1, <1>3, <3>1 DEF ImagesCurrent, ReadCurrent
  <2>2. ASSUME NEW j \in Rows(x)' \ DOMAIN run'.todo
        PROVE  row'[x][j].embedding # None \/ row'[x][j].code # None
    <3>1. j \in Keys /\ row'[x][j] # None
      BY DEF Rows
    <3>2. CASE j = k
      BY <1>5, <3>2
    <3>3. CASE j # k
      <4>1. row'[x][j] = row[x][j] /\ j \in Rows(x) \ DOMAIN run.todo
        BY <1>3, <2>2, <3>1, <3>3 DEF Rows
      <4> QED BY <1>1, <4>1 DEF ImagesCurrent, ReadCurrent
    <3> QED BY <3>2, <3>3
  <2> QED BY <1>1, <1>2, <1>3, <2>1, <2>2 DEF ReadCurrent
<1> QED
  BY <1>1, <1>3, <1>5, <1>6, <1>7 DEF Current

\* Embeddings stay current: rows change filename only while there are none.
LEMMA CurrentInductive ==
  ASSUME GroupShape, Exclusion, [Next]_vars, NEW x \in Sets, x \notin disturbed',
         x \notin disturbed => ImagesCurrent(x)
  PROVE  Current(x)'
<1> DEFINE NoneLeft == encodings_with_embeddings(x)' = {}
<1>1. NoneLeft => Current(x)'
  BY DEF Current
<1>2. CASE settings' # settings
  BY <1>1, <1>2, SettingsChange
<1>3. CASE settings' = settings
  <2>1. CASE Emptied(x)
    BY <1>1, <2>1 DEF Emptied, encodings_with_embeddings
  <2>2. CASE Dropped(x)
    BY <1>1, <2>2 DEF Dropped, encodings_with_embeddings, Rows
  <2>3. CASE x \notin disturbed /\ Uploaded(x)
    <3>1. encodings_with_embeddings(x) = {} /\ UploadsRow(x)
      BY <2>3 DEF Uploaded, ImagesCurrent, Fresh
    <3>2. NoneLeft
      BY <3>1 DEF UploadsRow, encodings_with_embeddings, Rows
    <3> QED BY <1>1, <3>2
  <2>4. CASE x \notin disturbed /\ Encodes(x)
    BY <2>4, EncodedCurrent DEF Encodes
  <2>5. CASE x \notin disturbed /\ row'[x] = row[x]
    <3>1. encodings_with_embeddings(x)' = encodings_with_embeddings(x)
      BY <2>5 DEF encodings_with_embeddings, Rows
    <3> QED BY <1>3, <2>5, <3>1 DEF ImagesCurrent, Current
  <2> QED BY <2>1, <2>2, <2>3, <2>4, <2>5, Turns DEF Turn
<1> QED
  BY <1>2, <1>3

\* A set goes back to uploading only without its images.
LEMMA FreshInductive ==
  ASSUME GroupShape, Exclusion, [Next]_vars, NEW x \in Sets, x \notin disturbed',
         x \notin disturbed => ImagesCurrent(x)
  PROVE  Fresh(x)'
<1> SUFFICES ASSUME Uploading(x)' PROVE encodings_with_embeddings(x)' = {}
  BY DEF Fresh
<1>1. state'[x] \in {"EMPTY", "UPLOADING_IN_PROGRESS"}
  BY DEF Uploading
<1>2. CASE Emptied(x)
  BY <1>2 DEF Emptied, encodings_with_embeddings
<1>3. CASE x \notin disturbed /\ ~Emptied(x)
  <2>1. ImagesCurrent(x)
    BY <1>3
  <2>2. Uploading(x) \/ state[x] = None \/ (encodings_with_embeddings(x) = {} /\ ~RunOf(x))
    <3>1. ~Dropped(x)
      BY <1>1 DEF Dropped
    <3>2. StateTurn(x)
      BY <1>3, <2>1, StateTurns DEF ImagesCurrent
    <3>3. ASSUME RunOf(x), SetEncoded \/ StartDedupe \/ SetDeduplicated
          PROVE  state'[x] = state[x] \/ state'[x] \notin {"EMPTY", "UPLOADING_IN_PROGRESS"}
      BY <2>1, <3>3, SetStateInStep DEF ImagesCurrent
    <3> QED BY <1>1, <1>3, <3>1, <3>2, <3>3 DEF StateTurn, Changes, Uploading
  <2>3. encodings_with_embeddings(x) = {} /\ ~RunOf(x)
    <3>1. CASE Uploading(x)
      BY <2>1, <3>1 DEF ImagesCurrent, Fresh, InStep, Uploading
    <3>2. CASE state[x] = None
      BY <3>2 DEF GroupShape, Absent, encodings_with_embeddings
    <3> QED BY <2>2, <3>1, <3>2
  <2>4. CASE Dropped(x)
    BY <2>4 DEF Dropped, encodings_with_embeddings, Rows
  <2>5. CASE Uploaded(x)
    BY <2>3, <2>5 DEF Uploaded, UploadsRow, encodings_with_embeddings, Rows
  <2>6. CASE row'[x] = row[x]
    BY <2>3, <2>6 DEF encodings_with_embeddings, Rows
  <2> QED BY <1>3, <2>3, <2>4, <2>5, <2>6, Turns DEF Turn, Encodes
<1> QED
  BY <1>2, <1>3, Turns DEF Turn

\* The run of an undisturbed set keeps what it read until it is through with it.
LEMMA ReadKept ==
  ASSUME GroupShape, NEW x \in Sets, RunOf(x), ReadCurrent(x), row'[x] = row[x],
         settings' = settings, run'.config = run.config,
         \/ run' = run
         \/ run'.pc \in {"done", "error"}
         \/ run.pc \in Reading /\ run'.pc # "encode"
  PROVE  ReadCurrent(x)'
BY DEF ReadCurrent, RunOf, Rows, Reading

\* What a run read stays current until it is done.
LEMMA ReadInductive ==
  ASSUME GroupShape, Exclusion, [Next]_vars, NEW x \in Sets, x \notin disturbed',
         x \notin disturbed => ImagesCurrent(x)
  PROVE  ReadCurrent(x)'
<1> SUFFICES ASSUME RunOf(x)' PROVE ReadCurrent(x)'
  BY DEF ReadCurrent, RunOf
<1>1. CASE SetsOff(x)
  BY <1>1 DEF SetsOff, ReadCurrent, Reading
<1>2. ASSUME RunOf(x) PROVE ImagesCurrent(x) /\ InStep(x) /\ ReadCurrent(x)
  <2>1. x \notin disturbed
    BY Turns DEF Turn, Emptied
  <2> QED BY <2>1 DEF ImagesCurrent
<1>3. CASE Waits(x)
  BY <1>2, <1>3, ReadKept DEF Waits
<1>4. CASE Runs(x)
  <2>1. RunOf(x) /\ ImagesCurrent(x) /\ InStep(x) /\ ReadCurrent(x)
    BY <1>2, <1>4 DEF Runs
  <2>2. ASSUME ReadImages PROVE ReadCurrent(x)'
    <3> DEFINE todo == [k \in {k \in Rows(x) : NeedsEncoding(row[x][k])} |-> row[x][k]]
    <3>1. /\ run' = [run EXCEPT !.pc = "encode", !.config = from_deduplication_set(settings),
                                !.lost = FALSE, !.todo = todo]
          /\ UNCHANGED <<row, settings>>
      BY <2>1, <2>2 DEF ReadImages, RunOf
    <3>2. run'.config = from_deduplication_set(settings) /\ run'.todo = todo
      BY <3>1 DEF GroupShape, Typed, RunRecord
    <3>3. DOMAIN todo \subseteq Rows(x) /\ \A k \in DOMAIN todo : todo[k] = row[x][k]
      OBVIOUS
    <3>4. ASSUME NEW k \in Rows(x) \ DOMAIN todo
          PROVE  row[x][k].embedding # None \/ row[x][k].code # None
      <4>1. ~NeedsEncoding(row[x][k])
        OBVIOUS
      <4>2. row[x][k].embedding # None \/ row[x][k].code \in FACE_DETECT \cup IMAGE_QUALITY
        BY <4>1 DEF NeedsEncoding
      <4> QED BY <4>2, NoneApart DEF StatusCode
    <3> HIDE DEF todo
    <3>5. \A k \in DOMAIN run'.todo : row'[x][k] # None /\ run'.todo[k].filename = row'[x][k].filename
      BY <3>1, <3>2, <3>3 DEF Rows
    <3>6. Rows(x)' = Rows(x)
      BY <3>1 DEF Rows
    <3> QED BY <3>1, <3>2, <3>4, <3>5, <3>6 DEF ReadCurrent
  <2>3. ASSUME NEW k \in Keys, EncodeImage(k) PROVE ReadCurrent(x)'
    <3>1. CASE run.lost
      BY <2>1, <2>3, <3>1, EncodeStep, ReadKept
    <3>2. CASE ~run.lost
      BY <2>1, <2>3, <3>2, EncodedCurrent
    <3> QED BY <3>1, <3>2
  <2>4. ASSUME Compare PROVE ReadCurrent(x)'
    <3>1. run.pc \in Reading /\ run'.pc \in {"error", "deduped"}
      BY <2>4, CompareStep DEF Reading
    <3> QED BY <2>1, <2>4, <3>1, CompareStep, ReadKept
  <2>5. ASSUME CountEmbeddings PROVE ReadCurrent(x)'
    <3>1. /\ UNCHANGED <<row, settings>> /\ run.pc \in Reading
          /\ run'.config = run.config /\ run'.pc # "encode"
      BY <2>5 DEF CountEmbeddings, GroupShape, Typed, RunRecord, Reading
    <3> QED BY <2>1, <3>1, ReadKept
  <2>6. ASSUME Raise PROVE ReadCurrent(x)'
    <3>1. UNCHANGED <<row, settings>> /\ run'.config = run.config /\ run'.pc = "error"
      BY <2>6 DEF Raise, GroupShape, Typed, RunRecord
    <3> QED BY <2>1, <3>1, ReadKept
  <2>7. ASSUME SetEncoded \/ StartDedupe \/ SetDeduplicated PROVE ReadCurrent(x)'
    <3>1. /\ UNCHANGED <<row, settings>> /\ run'.config = run.config
          /\ run'.pc \in {"done", "error", "start_dedupe", "count"}
      BY <2>1, <2>7, SetStateInStep
    <3>2. run.pc \in Reading
      BY <2>7 DEF SetEncoded, StartDedupe, SetDeduplicated, Reading
    <3> QED BY <2>1, <3>1, <3>2, ReadKept
  <2>8. ASSUME Restart PROVE ReadCurrent(x)'
    BY <2>1, <2>8, RestartInStep DEF ReadCurrent, Reading
  <2> QED BY <1>4, <2>2, <2>3, <2>4, <2>5, <2>6, <2>7, <2>8 DEF Runs
<1> QED
  BY <1>1, <1>3, <1>4, Courses DEF Course

\* The four together.
LEMMA ImagesInductive ==
  ASSUME GroupShape, Exclusion, [Next]_vars, NEW x \in Sets, x \notin disturbed',
         x \notin disturbed => ImagesCurrent(x)
  PROVE  ImagesCurrent(x)'
BY InStepInductive, CurrentInductive, FreshInductive, ReadInductive DEF ImagesCurrent

\* There are no images at first.
LEMMA ImagesInit ==
  ASSUME Init, NEW x \in Sets
  PROVE  ImagesCurrent(x)
<1>1. Rows(x) = {} /\ ~RunOf(x)
  BY IdleIsTyped DEF Init, Rows, RunOf
<1> QED
  BY <1>1 DEF ImagesCurrent, InStep, Current, Fresh, ReadCurrent, encodings_with_embeddings

-----------------------------------------------------------------------------
(***************************************************************************)
(* Statuses and their reports.                                             *)
(***************************************************************************)
\* The reason a finding without a partner gives for an image of a set.
Reported(d, k) == {f.code : f \in {f \in FindingsOf(d) : f.first = <<d, k>> /\ f.second = None}}

\* The status of an image is the reason reported, unless the cleanup took the reports.
Accounted(x) ==
  state[x] \notin FinalStates =>
    \A k \in Rows(x) : row[x][k].code # None => Reported(x, k) = {row[x][k].code}

\* After the encoding every image has an embedding or a status.
Complete(x) ==
  state[x] \in {"ENCODED", "DEDUPLICATION_IN_PROGRESS", "DEDUPLICATED"} =>
    \A k \in Rows(x) : row[x][k].embedding # None \/ row[x][k].code # None

\* What is reported of an image depends on its findings without a partner.
LEMMA ReportedKept ==
  ASSUME NEW x, NEW k,
         {f \in FindingsOf(x)' : f.first = <<x, k>> /\ f.second = None}
           = {f \in FindingsOf(x) : f.first = <<x, k>> /\ f.second = None}
  PROVE  Reported(x, k)' = Reported(x, k)
BY DEF Reported

\* A set that is judged leaves that state without its statuses, or not undisturbed.
LEMMA FinalKept ==
  ASSUME GroupShape, Exclusion, [Next]_vars, NEW x \in Sets, x \notin disturbed,
         x \notin disturbed', InStep(x), state[x] \in FinalStates
  PROVE  state'[x] \in FinalStates \/ Emptied(x) \/ Dropped(x)
<1>1. ASSUME RunOf(x), SetEncoded \/ StartDedupe \/ SetDeduplicated
      PROVE  state'[x] = state[x]
  <2>1. CASE state'[x] = state[x]
    BY <2>1
  <2>2. CASE SetEncoded /\ Allowed(run.mem, "ENCODED")
    <3>1. run.pc = "encode" /\ run.mem = state[x]
      BY <1>1, <2>2 DEF SetEncoded, InStep
    <3> QED BY <2>2, <3>1 DEF FinalStates, Allowed, VALID_TRANSITIONS
  <2>3. CASE StartDedupe
    <3>1. run.pc = "start_dedupe" /\ run.mem = state[x] /\ run.mem = "ENCODED"
      BY <1>1, <2>3 DEF StartDedupe, InStep, GroupShape, Pace
    <3> QED BY <3>1 DEF FinalStates
  <2>4. CASE SetDeduplicated
    <3>1. run.pc = "deduped" /\ run.mem = state[x] /\ run.mem = "DEDUPLICATION_IN_PROGRESS"
      BY <1>1, <2>4 DEF SetDeduplicated, InStep, GroupShape, Pace
    <3> QED BY <3>1 DEF FinalStates
  <2>5. CASE SetEncoded /\ ~Allowed(run.mem, "ENCODED")
    BY <2>5 DEF SetEncoded, Advance
  <2> QED BY <1>1, <2>2, <2>3, <2>4, <2>5
<1> QED
  BY <1>1, NoneApart, StateTurns DEF StateTurn, Changes, FinalStates, Uploading, InProgress, State

\* An image that is saved with a status is saved with its finding, and the others keep theirs.
LEMMA AccountedEncode ==
  ASSUME GroupShape, NEW x \in Sets, ImagesCurrent(x), Accounted(x), state[x] \notin FinalStates,
         RunOf(x), NEW j \in Keys, EncodeImage(j), ~run.lost,
         NEW k \in Rows(x)', row'[x][k].code # None
  PROVE  Reported(x, k)' = {row'[x][k].code}
<1> DEFINE code == row'[x][j].code
<1>1. k \in Keys /\ row'[x][k] # None /\ run.ds = x
  BY DEF Rows, RunOf
<1>2. /\ \A i \in Keys \ {j} : row'[x][i] = row[x][i]
      /\ finding' = IF code # None THEN WithErrorFinding(x, j, code) ELSE finding
  BY <1>1, EncodeStep
<1> HIDE DEF code
<1>3. CASE k = j
  <2>1. code # None /\ finding' = WithErrorFinding(x, k, code)
    BY <1>2, <1>3 DEF code
  <2> DEFINE new == [ds |-> x, first |-> <<x, k>>, second |-> None, code |-> code,
                     config |-> as_dict(run.config)]
  <2>2. {f \in FindingsOf(x)' : f.first = <<x, k>> /\ f.second = None} = {new} /\ new.code = code
    BY <2>1 DEF FindingsOf, WithErrorFinding
  <2> HIDE DEF new
  <2>3. Reported(x, k)' = {code}
    BY <2>2 DEF Reported
  <2> QED BY <1>3, <2>3 DEF code
<1>4. CASE k # j
  <2>1. row'[x][k] = row[x][k] /\ k \in Rows(x)
    BY <1>1, <1>2, <1>4 DEF Rows
  <2>2. {f \in FindingsOf(x)' : f.first = <<x, k>> /\ f.second = None}
          = {f \in FindingsOf(x) : f.first = <<x, k>> /\ f.second = None}
    BY <1>2, <1>4 DEF FindingsOf, WithErrorFinding
  <2> QED BY <2>1, <2>2, ReportedKept DEF Accounted
<1> QED
  BY <1>3, <1>4

\* Statuses and reports stay together.
LEMMA AccountedInductive ==
  ASSUME GroupShape, Exclusion, [Next]_vars, NEW x \in Sets, x \notin disturbed',
         x \notin disturbed => ImagesCurrent(x) /\ Accounted(x)
  PROVE  Accounted(x)'
<1> SUFFICES ASSUME state'[x] \notin FinalStates, NEW k \in Rows(x)', row'[x][k].code # None
             PROVE  Reported(x, k)' = {row'[x][k].code}
  BY DEF Accounted
<1>1. k \in Keys /\ row'[x][k] # None
  BY DEF Rows
<1>2. ~Emptied(x) /\ ~Dropped(x)
  BY <1>1 DEF Emptied, Dropped
<1>3. x \notin disturbed /\ ImagesCurrent(x) /\ Accounted(x)
  BY <1>2, Turns DEF Turn
<1>4. state[x] \notin FinalStates
  BY <1>2, <1>3, FinalKept DEF ImagesCurrent
<1>5. ASSUME row'[x][k] = row[x][k],
             {f \in FindingsOf(x)' : f.first = <<x, k>> /\ f.second = None}
               = {f \in FindingsOf(x) : f.first = <<x, k>> /\ f.second = None}
      PROVE  Reported(x, k)' = {row'[x][k].code}
  <2>1. k \in Rows(x)
    BY <1>1, <1>5 DEF Rows
  <2> QED BY <1>3, <1>4, <1>5, <2>1, ReportedKept DEF Accounted
<1>6. CASE Uploaded(x)
  <2>1. PICK j \in Keys :
          /\ \A i \in Keys \ {j} : row'[x][i] = row[x][i]
          /\ row[x][j] = None => row'[x][j].code = None
          /\ row[x][j] # None => row'[x][j].code = row[x][j].code
    BY <1>6 DEF Uploaded, UploadsRow
  <2>2. k \in Rows(x) /\ row'[x][k].code = row[x][k].code
    BY <1>1, <2>1 DEF Rows
  <2>3. Reported(x, k)' = Reported(x, k)
    BY <1>6 DEF Uploaded, Reported, FindingsOf
  <2> QED BY <1>3, <1>4, <2>2, <2>3 DEF Accounted
<1>7. CASE Encodes(x)
  BY <1>3, <1>4, <1>7, AccountedEncode DEF Encodes
<1>8. CASE row'[x] = row[x]
  <2>1. CASE SameFindings(x)
    BY <1>5, <1>8, <2>1 DEF SameFindings
  <2>2. CASE LosesPairs(x)
    BY <1>5, <1>8, <2>2 DEF LosesPairs, FindingsOf, duplicate_findings
  <2>3. CASE Retires(x)
    BY <1>4, <2>3 DEF Retires
  <2>4. CASE Cascades(x)
    BY <1>5, <1>8, <2>4 DEF Cascades
  <2>5. CASE Compares(x)
    <3>1. CASE finding' = finding
      BY <1>5, <1>8, <3>1 DEF FindingsOf
    <3>2. ASSUME NEW pairs \in SUBSET (Encodings \X Encodings),
                 finding' = WithPairs(run.ds, pairs, run.config)
          PROVE  Reported(x, k)' = {row'[x][k].code}
      <4>1. \A p \in pairs : p[2] # None
        BY GroupDataAssumption DEF Encodings
      <4>2. \A f : f.second = None => <<f.first, f.second>> \notin pairs
        BY <4>1
      <4>3. {f \in FindingsOf(x)' : f.first = <<x, k>> /\ f.second = None}
              = {f \in FindingsOf(x) : f.first = <<x, k>> /\ f.second = None}
        BY <3>2, <4>1, <4>2 DEF FindingsOf, WithPairs
      <4> QED BY <1>5, <1>8, <4>3
    <3> QED BY <2>5, <3>1, <3>2, CompareStep DEF Compares
  <2> QED BY <1>2, <1>3, <1>6, <1>7, <1>8, <2>1, <2>2, <2>3, <2>4, <2>5, Turns DEF Turn
<1> QED
  BY <1>2, <1>3, <1>6, <1>7, <1>8, Turns DEF Turn

\* A processed set stays complete.
LEMMA CompleteInductive ==
  ASSUME GroupShape, Exclusion, [Next]_vars, NEW x \in Sets, x \notin disturbed',
         x \notin disturbed => ImagesCurrent(x) /\ Complete(x)
  PROVE  Complete(x)'
<1> DEFINE Taken == {"ENCODED", "DEDUPLICATION_IN_PROGRESS", "DEDUPLICATED"}
<1> SUFFICES ASSUME state'[x] \in Taken, NEW k \in Rows(x)'
             PROVE  row'[x][k].embedding # None \/ row'[x][k].code # None
  BY DEF Complete
<1>1. k \in Keys /\ row'[x][k] # None
  BY DEF Rows
<1>2. ~Emptied(x) /\ ~Dropped(x)
  BY <1>1 DEF Emptied, Dropped
<1>3. x \notin disturbed /\ ImagesCurrent(x) /\ Complete(x) /\ InStep(x)
  BY <1>2, Turns DEF Turn, ImagesCurrent
<1>4. CASE SetEncoded /\ RunOf(x)
  <2>1. run.pc = "encode" /\ DOMAIN run.todo = {} /\ row' = row
    BY <1>4 DEF SetEncoded, Advance
  <2> QED BY <1>1, <1>3, <1>4, <2>1 DEF ImagesCurrent, ReadCurrent, Rows
<1>5. CASE ~(SetEncoded /\ RunOf(x))
  <2>1. state[x] \in Taken
    <3>1. ASSUME StartDedupe, RunOf(x) PROVE state[x] = "ENCODED"
      BY <1>3, <3>1 DEF StartDedupe, InStep, GroupShape, Pace
    <3>2. ASSUME SetDeduplicated, RunOf(x) PROVE state[x] = "DEDUPLICATION_IN_PROGRESS"
      BY <1>3, <3>2 DEF SetDeduplicated, InStep, GroupShape, Pace
    <3> QED BY <1>2, <1>3, <1>5, <3>1, <3>2, StateTurns DEF StateTurn, Changes
  <2>2. CASE row'[x] = row[x]
    BY <1>1, <1>3, <2>1, <2>2 DEF Complete, Rows
  <2>3. CASE Encodes(x)
    <3>1. PICK j \in Keys : EncodeImage(j)
      BY <2>3 DEF Encodes
    <3>2. /\ \A i \in Keys \ {j} : row'[x][i] = row[x][i]
          /\ row'[x][j].embedding # None \/ row'[x][j].code # None
      BY <1>3, <2>3, <3>1, EncodedCurrent DEF Encodes
    <3> QED BY <1>1, <1>3, <2>1, <3>2 DEF Complete, Rows
  <2>4. CASE Uploaded(x)
    BY <2>1, <2>4 DEF Uploaded, Uploading
  <2> QED BY <1>2, <2>2, <2>3, <2>4, Turns DEF Turn
<1> QED
  BY <1>4, <1>5

\* There are no images at first.
LEMMA AccountedInit ==
  ASSUME Init, NEW x \in Sets
  PROVE  Accounted(x) /\ Complete(x)
<1>1. Rows(x) = {}
  BY DEF Init, Rows
<1> QED
  BY <1>1 DEF Accounted, Complete

-----------------------------------------------------------------------------
(***************************************************************************)
(* States of other sets.                                                   *)
(***************************************************************************)
\* A set becomes Deduplicated by its run, and approved from there; an approval that comes
\* later disturbs the sets it comes too late for.
LEMMA Verdicts ==
  ASSUME GroupShape, Exclusion, [Next]_vars, NEW x \in Sets
  PROVE  /\ state'[x] = "DEDUPLICATED" => state[x] = "DEDUPLICATED" \/ (RunOf(x) /\ SetDeduplicated)
         /\ state'[x] = "APPROVED" =>
              \/ state[x] = "APPROVED"
              \/ state[x] = "DEDUPLICATED" /\ row' = row
              \/ \A e \in Sets : state[e] = "DEDUPLICATED" \/ RunOf(e) => e \in disturbed'
<1> DEFINE Unjudged == state'[x] = state[x] \/ state'[x] \notin {"DEDUPLICATED", "APPROVED"}
<1>1. ASSUME NEW d \in Sets, NEW target, target \notin {"DEDUPLICATED", "APPROVED"},
             state' = state \/ state' = [state EXCEPT ![d] = target]
      PROVE  Unjudged
  BY <1>1 DEF GroupShape, Typed
<1>2. ASSUME NEW d \in Sets
      PROVE  /\ Create(d) => Unjudged
             /\ Ready(d) => Unjudged
             /\ Process(d) => Unjudged
             /\ AdminClearEmbeddings(d) => Unjudged
             /\ AdminRemoveFindings(d) => Unjudged
             /\ AdminEncode(d) => Unjudged
             /\ AdminDeduplicate(d) => Unjudged
             /\ CleanupSet(d) => Unjudged
  <2>1. None \notin {"DEDUPLICATED", "APPROVED"}
    BY NoneApart DEF State
  <2> QED BY <1>1, <2>1 DEF Create, Ready, Process, AdminClearEmbeddings,
             AdminRemoveFindings, AdminEncode, AdminDeduplicate, CleanupSet
<1>3. FinishUpload => Unjudged
  BY <1>1, UploadStep
<1>4. ASSUME WriteEmpty \/ CommitSettings PROVE Unjudged
  <2>1. CASE WriteEmpty
    BY <1>1, <2>1 DEF WriteEmpty, Exclusion, Slots
  <2>2. CASE CommitSettings
    BY <1>1, <2>2 DEF CommitSettings, Exclusion, Slots
  <2> QED BY <1>4, <2>1, <2>2
<1>5. ASSUME NEW d \in Sets, NEW verdict \in {"APPROVED", "REJECTED"}, Judge(d, verdict)
      PROVE  /\ state'[x] = "DEDUPLICATED" => state[x] = "DEDUPLICATED"
             /\ state'[x] = "APPROVED" =>
                  \/ state[x] = "APPROVED"
                  \/ state[x] = "DEDUPLICATED" /\ row' = row
                  \/ \A e \in Sets : state[e] = "DEDUPLICATED" \/ RunOf(e) => e \in disturbed'
  <2>1. x # d => state'[x] = state[x]
    BY <1>5 DEF Judge, GroupShape, Typed
  <2>2. state'[d] = verdict /\ row' = row
    BY <1>5 DEF Judge, GroupShape, Typed
  <2>3. CASE state[d] = "DEDUPLICATED"
    BY <2>1, <2>2, <2>3
  <2>4. CASE state[d] # "DEDUPLICATED"
    <3>1. \A e \in Sets : state[e] = "DEDUPLICATED" \/ RunOf(e) => e \in disturbed'
      BY <1>5, <2>4 DEF Judge, Disturb
    <3> QED BY <2>1, <2>2, <3>1
  <2> QED BY <2>3, <2>4
<1>6. ASSUME SetEncoded \/ StartDedupe PROVE Unjudged
  <2>1. run.ds \in Sets
    BY <1>6 DEF SetEncoded, StartDedupe, GroupShape, Pace
  <2> QED BY <1>1, <1>6, <2>1 DEF SetEncoded, StartDedupe, Advance
<1>7. ASSUME SetDeduplicated
      PROVE  state'[x] = state[x] \/ (state'[x] = "DEDUPLICATED" /\ RunOf(x))
  <2>1. run.ds \in Sets /\ Advance("DEDUPLICATED", "done")
    BY <1>7 DEF SetDeduplicated, GroupShape, Pace
  <2> QED BY <2>1 DEF Advance, RunOf, GroupShape, Typed
<1>8. ASSUME Fail PROVE Unjudged
  <2>1. run.ds \in Sets
    BY <1>8 DEF Fail, GroupShape, Pace
  <2> QED BY <1>1, <1>8, <2>1 DEF Fail
<1>9. ASSUME Next PROVE state' = state \/ Unjudged
                        \/ SetDeduplicated
                        \/ \E d \in Sets, verdict \in {"APPROVED", "REJECTED"} : Judge(d, verdict)
  <2>1. ASSUME NEW d \in Sets, \/ BeginUpload(d) \/ CleanupFindings(d) \/ CleanupEncodings(d)
                               \/ ReadClear(d) \/ \E endpoint : BeginLate(d, endpoint)
        PROVE  state' = state
    BY <2>1 DEF BeginUpload, CleanupFindings, CleanupEncodings, ReadClear, BeginLate
  <2>2. ASSUME \/ \E s \in Configs : CheckSettings(s) \/ AdminSettings(s)
               \/ DeleteEncodings \/ ReadActiveSet \/ RequestFails
        PROVE  state' = state
    BY <2>2 DEF CheckSettings, AdminSettings, DeleteEncodings, ReadActiveSet, RequestFails
  <2>3. ASSUME NEW k \in Keys, EncodeImage(k) PROVE state' = state
    BY <2>3 DEF EncodeImage
  <2>4. ASSUME \/ ReadImages \/ CountEmbeddings \/ Compare \/ Raise \/ Finish \/ Restart
               \/ Killed
        PROVE  state' = state
    BY <2>4 DEF ReadImages, CountEmbeddings, Compare, Raise, Finish, Restart, Killed
  <2> QED BY <1>2, <1>3, <1>4, <1>6, <1>8, <1>9, <2>1, <2>2, <2>3, <2>4 DEF Next, RunStep
<1> QED
  BY <1>5, <1>7, <1>9 DEF vars

\* An approved set is taken back by an action that disturbs the sets whose findings name
\* it, or by its own run, or when it has no image left that could be named.
LEMMA TakenBack ==
  ASSUME GroupShape, Exclusion, [Next]_vars, NEW x \in Sets, state[x] = "APPROVED", state'[x] # "APPROVED"
  PROVE  Partners(x) \subseteq disturbed' \/ RunOf(x) \/ encodings_with_embeddings(x) = {}
<1>1. ASSUME NEW d \in Sets
      PROVE  /\ Create(d) => state'[x] = state[x]
             /\ CleanupSet(d) => state'[x] = state[x]
  <2>1. Create(d) => state'[x] = state[x]
    BY NoneApart DEF Create, GroupShape, Typed, State
  <2>2. CleanupSet(d) => state'[x] = state[x]
    BY DEF CleanupSet, Old, GroupShape, Typed
  <2> QED BY <2>1, <2>2
<1>9. ASSUME NEW d \in Sets,
             \/ Ready(d) \/ Process(d)
             \/ \E verdict \in {"APPROVED", "REJECTED"} : Judge(d, verdict)
      PROVE  Partners(x) \subseteq disturbed'
  <2>1. x = d
    <3>1. \E target : state' = [state EXCEPT ![d] = target]
      BY <1>9 DEF Ready, Process, Judge
    <3> QED BY <3>1 DEF GroupShape, Typed
  <2>2. CASE Ready(d) \/ Process(d)
    <3>1. \A endpoint \in {"ready", "process"} : Partners(d) \subseteq Overtaken(d, endpoint)
      BY <2>1 DEF Overtaken, Admits, PROCESSABLE_STATES
    <3> QED BY <2>1, <2>2, <3>1 DEF Ready, Process, Disturb
  <2>3. CASE \E verdict \in {"APPROVED", "REJECTED"} : Judge(d, verdict)
    BY <2>1, <2>3 DEF Judge, Disturb
  <2> QED BY <1>9, <2>2, <2>3
<1>10. ASSUME WriteEmpty
       PROVE  Partners(x) \subseteq disturbed' \/ encodings_with_embeddings(x) = {}
  <2>1. clear.ds \in Sets /\ state' = [state EXCEPT ![clear.ds] = "EMPTY"]
    BY <1>10 DEF WriteEmpty, Exclusion, Slots
  <2>2. x = clear.ds
    BY <2>1 DEF GroupShape, Typed
  <2>3. CASE Rows(x) = {}
    BY <2>3 DEF encodings_with_embeddings
  <2>4. CASE Rows(x) # {}
    BY <1>10, <2>2, <2>4 DEF WriteEmpty, FinalStates
  <2> QED BY <2>3, <2>4
<1>2. ASSUME NEW d \in Sets,
             \/ AdminClearEmbeddings(d) \/ AdminRemoveFindings(d)
             \/ AdminEncode(d) \/ AdminDeduplicate(d)
      PROVE  Partners(x) \subseteq disturbed'
  <2>1. x = d
    <3>1. \E target : state' = [state EXCEPT ![d] = target]
      BY <1>2 DEF AdminClearEmbeddings, AdminRemoveFindings, AdminEncode, AdminDeduplicate
    <3> QED BY <3>1 DEF GroupShape, Typed
  <2>2. Partners(d) \subseteq disturbed'
    BY <1>2 DEF AdminClearEmbeddings, AdminRemoveFindings, AdminEncode, AdminDeduplicate, Disturb
  <2> QED BY <2>1, <2>2
<1>3. ASSUME FinishUpload PROVE Partners(x) \subseteq disturbed'
  <2>1. x = upload.ds
    BY <1>3, UploadStep DEF GroupShape, Typed
  <2>2. ~Uploading(upload.ds)
    BY <2>1 DEF Uploading
  <2> QED BY <1>3, <2>1, <2>2, UploadStep
<1>4. ASSUME CommitSettings PROVE Partners(x) \subseteq disturbed'
  <2>1. change.ds \in Sets /\ state' = [state EXCEPT ![change.ds] = "READY"]
    BY <1>4 DEF CommitSettings, Exclusion, Slots
  <2>2. x = change.ds
    BY <2>1 DEF GroupShape, Typed
  <2> QED BY <1>4, <2>1, <2>2, NoneApart DEF CommitSettings, Disturb
<1>5. ASSUME SetEncoded \/ StartDedupe \/ SetDeduplicated PROVE RunOf(x)
  <2>1. \E target, next : Advance(target, next)
    BY <1>5 DEF SetEncoded, StartDedupe, SetDeduplicated
  <2> QED BY <2>1 DEF Advance, RunOf, GroupShape, Typed
<1>6. ASSUME Fail PROVE RunOf(x)
  BY <1>6 DEF Fail, RunOf, GroupShape, Typed
<1>7. CASE UNCHANGED vars
  BY <1>7 DEF vars
<1>8. CASE Next
  <2>1. ASSUME NEW d \in Sets, \/ BeginUpload(d) \/ CleanupFindings(d) \/ CleanupEncodings(d)
                               \/ ReadClear(d) \/ \E endpoint : BeginLate(d, endpoint)
        PROVE  FALSE
    BY <2>1 DEF BeginUpload, CleanupFindings, CleanupEncodings, ReadClear, BeginLate
  <2>2. ASSUME \/ \E s \in Configs : CheckSettings(s) \/ AdminSettings(s)
               \/ DeleteEncodings \/ ReadActiveSet \/ RequestFails
        PROVE  FALSE
    BY <2>2 DEF CheckSettings, AdminSettings, DeleteEncodings, ReadActiveSet, RequestFails
  <2>3. ASSUME NEW k \in Keys, EncodeImage(k) PROVE FALSE
    BY <2>3 DEF EncodeImage
  <2>4. ASSUME \/ ReadImages \/ CountEmbeddings \/ Compare \/ Raise \/ Finish \/ Restart
               \/ Killed
        PROVE  FALSE
    BY <2>4 DEF ReadImages, CountEmbeddings, Compare, Raise, Finish, Restart, Killed
  <2> QED BY <1>1, <1>2, <1>3, <1>4, <1>5, <1>6, <1>8, <1>9, <1>10, <2>1, <2>2, <2>3, <2>4
          DEF Next, RunStep
<1> QED
  BY <1>7, <1>8

\* While a set waits to be judged no other set has a run.
DeduplicatedAlone ==
  \A d \in Sets : state[d] = "DEDUPLICATED" /\ run.ds # None => RunOf(d)

\* A run starts only while no set waits to be judged: the slot is taken.
LEMMA AloneInductive ==
  ASSUME GroupShape, Exclusion, DeduplicatedAlone, [Next]_vars
  PROVE  DeduplicatedAlone'
<1> SUFFICES ASSUME NEW x \in Sets, state'[x] = "DEDUPLICATED", run'.ds # None
             PROVE  RunOf(x)'
  BY DEF DeduplicatedAlone
<1>1. ASSUME NEW d \in Sets, Process(d) \/ AdminEncode(d) \/ AdminDeduplicate(d) PROVE FALSE
  <2>1. /\ state' = [state EXCEPT ![d] = "ENCODING_IN_PROGRESS"] /\ Fits(d, "ENCODING_IN_PROGRESS")
    BY <1>1 DEF Process, AdminEncode, AdminDeduplicate
  <2>2. x # d /\ state[x] = "DEDUPLICATED"
    BY <2>1 DEF GroupShape, Typed
  <2> QED BY <2>1, <2>2 DEF Fits, BLOCKING_STATES, State
<1>2. run'.ds = run.ds
  BY <1>1, IdleIsTyped, RunSet
<1>3. state[x] = "DEDUPLICATED" \/ RunOf(x)
  BY Verdicts
<1> QED
  BY <1>2, <1>3 DEF DeduplicatedAlone, RunOf

-----------------------------------------------------------------------------
(***************************************************************************)
(* Pairs: what is reported, and what is to be reported.                    *)
(***************************************************************************)
\* The duplicates a set has by the settings in force: among its images, and between them
\* and the images of approved sets.
Expected(x) == Matches(x, from_deduplication_set(settings))

PairsOf(x) == {<<f.first, f.second>> : f \in duplicate_findings(x)}

Pair(x, k, e, j) ==
  /\ k \in encodings_with_embeddings(x) /\ e \in Sets /\ j \in encodings_with_embeddings(e)
  /\ e = x => k < j
  /\ e # x => state[e] = "APPROVED"
  /\ Match[row[x][k].embedding.image][row[e][j].embedding.image] > 0
  /\ Match[row[x][k].embedding.image][row[e][j].embedding.image]
       >= from_deduplication_set(settings).duplicate

\* The duplicates of a set, pair by pair, before a step and after it.
LEMMA ExpectedPairs ==
  ASSUME NEW x \in Sets, NEW p
  PROVE  /\ p \in Expected(x) <=> \E k, e, j : Pair(x, k, e, j) /\ p = <<<<x, k>>, <<e, j>>>>
         /\ p \in Expected(x)' <=> \E k, e, j : Pair(x, k, e, j)' /\ p = <<<<x, k>>, <<e, j>>>>
<1>1. ASSUME NEW k, NEW e, NEW j
      PROVE  <<<<x, k>>, <<e, j>>>> \in Expected(x) <=> Pair(x, k, e, j)
  <2>1. <<e, j>> \in Approved(x)
          <=> e \in Sets /\ j \in encodings_with_embeddings(e) /\ state[e] = "APPROVED"
    BY DEF Approved
  <2>2. <<e, j>> \in Own(x) <=> e = x /\ j \in encodings_with_embeddings(e)
    BY DEF Own
  <2>3. <<x, k>> \in Own(x) <=> k \in encodings_with_embeddings(x)
    BY DEF Own
  <2> QED BY <2>1, <2>2, <2>3 DEF Expected, Matches, IsDuplicate, Confidence, EmbeddingOf, Pair
<1>2. p \in Expected(x) => \E k, e, j : p = <<<<x, k>>, <<e, j>>>>
  <2>1. \A b \in Own(x) : \E j : b = <<x, j>>
    BY DEF Own
  <2>2. \A b \in Approved(x) : \E e, j : b = <<e, j>>
    BY DEF Approved
  <2> QED BY <2>1, <2>2 DEF Expected, Matches
<1>3. ASSUME NEW k, NEW e, NEW j
      PROVE  <<<<x, k>>, <<e, j>>>> \in Expected(x)' <=> Pair(x, k, e, j)'
  <2>1. <<e, j>> \in Approved(x)'
          <=> e \in Sets /\ j \in encodings_with_embeddings(e)' /\ state'[e] = "APPROVED"
    BY DEF Approved
  <2>2. <<e, j>> \in Own(x)' <=> e = x /\ j \in encodings_with_embeddings(e)'
    BY DEF Own
  <2>3. <<x, k>> \in Own(x)' <=> k \in encodings_with_embeddings(x)'
    BY DEF Own
  <2> QED BY <2>1, <2>2, <2>3 DEF Expected, Matches, IsDuplicate, Confidence, EmbeddingOf, Pair
<1>4. p \in Expected(x)' => \E k, e, j : p = <<<<x, k>>, <<e, j>>>>
  <2>1. \A b \in Own(x)' : \E j : b = <<x, j>>
    BY DEF Own
  <2>2. \A b \in Approved(x)' : \E e, j : b = <<e, j>>
    BY DEF Approved
  <2> QED BY <2>1, <2>2 DEF Expected, Matches
<1> QED
  BY <1>1, <1>2, <1>3, <1>4

\* The same embedding, before a step and after it.
SameEmbedding(x, k) ==
  /\ k \in encodings_with_embeddings(x) /\ k \in encodings_with_embeddings(x)'
  /\ row'[x][k].embedding = row[x][k].embedding

\* A pair of two images that keep their embeddings.
LEMMA SamePair ==
  ASSUME NEW x, NEW k, NEW e, NEW j, settings' = settings,
         SameEmbedding(x, k), SameEmbedding(e, j),
         e # x => state[e] = "APPROVED" /\ state'[e] = "APPROVED"
  PROVE  Pair(x, k, e, j) <=> Pair(x, k, e, j)'
BY DEF Pair, SameEmbedding

\* All images of a set whose rows a step leaves alone.
LEMMA SameRow ==
  ASSUME NEW x, row'[x] = row[x]
  PROVE  /\ encodings_with_embeddings(x)' = encodings_with_embeddings(x)
         /\ \A k \in encodings_with_embeddings(x) : SameEmbedding(x, k)
<1>1. encodings_with_embeddings(x)' = encodings_with_embeddings(x)
  BY DEF encodings_with_embeddings, Rows
<1> QED
  BY <1>1 DEF SameEmbedding

\* A step that is not of a set's own run gives it no new embedding.
LEMMA NoNewEmbedding ==
  ASSUME GroupShape, Exclusion, [Next]_vars, NEW x \in Sets, ~RunOf(x), NEW k \in encodings_with_embeddings(x)'
  PROVE  SameEmbedding(x, k)
<1>1. k \in Keys /\ row'[x][k] # None /\ row'[x][k].embedding # None
  BY DEF encodings_with_embeddings, Rows
<1>2. CASE row'[x] = row[x]
  BY <1>2, SameRow
<1>3. CASE UNCHANGED vars
  BY <1>2, <1>3 DEF vars
<1>4. CASE FinishUpload
  <2>1. CASE UploadsRow(x)
    <3>1. row[x][k] # None /\ row'[x][k].embedding = row[x][k].embedding
      BY <1>1, <2>1 DEF UploadsRow
    <3> QED BY <1>1, <3>1 DEF SameEmbedding, encodings_with_embeddings, Rows
  <2> QED BY <1>2, <1>4, <2>1, UploadStep
<1>5. ASSUME NEW d \in Sets, CleanupEncodings(d) \/ (DeleteEncodings /\ d = clear.ds)
      PROVE  row'[x] = row[x]
  <2>1. row' = [row EXCEPT ![d] = [i \in Keys |-> None]]
    BY <1>5 DEF DeleteEncodings, CleanupEncodings
  <2>2. x # d
    BY <1>1, <2>1 DEF GroupShape, Typed
  <2> QED BY <2>1, <2>2 DEF GroupShape, Typed
<1>6. ASSUME NEW d \in Sets, row' = WithoutEmbeddings(d) PROVE row'[x] = row[x]
  BY <1>1, <1>6, EmbeddingsDropped DEF GroupShape
<1>7. ASSUME NEW i \in Keys, EncodeImage(i) PROVE row'[x] = row[x]
  BY <1>7, EncodeStep DEF RunOf
<1>8. CASE Next
  <2>1. ASSUME NEW d \in Sets,
               \/ Create(d) \/ BeginUpload(d) \/ Ready(d) \/ Process(d) \/ ReadClear(d)
               \/ \E endpoint \in DOMAIN Admits : BeginLate(d, endpoint)
               \/ \E verdict \in {"APPROVED", "REJECTED"} : Judge(d, verdict)
               \/ AdminRemoveFindings(d) \/ AdminDeduplicate(d) \/ CleanupFindings(d) \/ CleanupSet(d)
        PROVE  row' = row
    BY <2>1 DEF Create, BeginUpload, Ready, Process, ReadClear, BeginLate, Judge,
                AdminRemoveFindings, AdminDeduplicate, CleanupFindings, CleanupSet
  <2>2. ASSUME NEW d \in Sets, AdminClearEmbeddings(d) \/ AdminEncode(d)
        PROVE  row'[x] = row[x]
    BY <1>6, <2>2 DEF AdminClearEmbeddings, AdminEncode
  <2>3. ASSUME \/ \E s \in Configs : CheckSettings(s) \/ AdminSettings(s)
               \/ WriteEmpty \/ ReadActiveSet \/ RequestFails
        PROVE  row' = row
    BY <2>3 DEF CheckSettings, AdminSettings, WriteEmpty, ReadActiveSet, RequestFails
  <2>4. ASSUME \/ ReadImages \/ SetEncoded \/ StartDedupe \/ CountEmbeddings \/ Compare
               \/ SetDeduplicated \/ Raise \/ Fail \/ Finish \/ Restart \/ Killed
        PROVE  row' = row
    BY <2>4 DEF ReadImages, SetEncoded, StartDedupe, CountEmbeddings, Compare,
                SetDeduplicated, Raise, Fail, Finish, Restart, Killed, Advance
  <2>5. ASSUME DeleteEncodings \/ CommitSettings PROVE row'[x] = row[x]
    <3>1. CASE DeleteEncodings
      <4>1. clear.ds \in Sets
        BY <3>1 DEF DeleteEncodings, Exclusion, Slots
      <4> QED BY <1>5, <3>1, <4>1
    <3>2. CASE CommitSettings
      <4>1. change.ds \in Sets \cup {None}
        BY DEF Exclusion, Slots
      <4> QED BY <1>6, <3>2, <4>1 DEF CommitSettings
    <3> QED BY <2>5, <3>1, <3>2
  <2> QED BY <1>2, <1>4, <1>5, <1>7, <1>8, <2>1, <2>2, <2>3, <2>4, <2>5 DEF Next, RunStep
<1> QED
  BY <1>3, <1>8

\* The count of a run is the number of embeddings its set has.
Counted(x) ==
  RunOf(x) /\ run.pc = "compare" => run.count = Cardinality(encodings_with_embeddings(x))

\* The pairs reported of a set are duplicates by the settings in force.
PairsCurrent(x) ==
  \A f \in duplicate_findings(x) : <<f.first, f.second>> \in Expected(x) /\ f.config = settings

\* The set was compared with everything, and no run of it is on the way to change that.
Compared(x) ==
  \/ state[x] = "DEDUPLICATED" /\ (RunOf(x) => run.pc = "done")
  \/ RunOf(x) /\ run.pc = "deduped"

PairsComplete(x) == Compared(x) => Expected(x) \subseteq PairsOf(x)

\* Findings of another set that name a set with a run are of a disturbed set.
NamesDisturbed ==
  \A f \in finding :
    run.ds # None /\ f.ds # run.ds /\ f.second # None /\ f.second[1] = run.ds
      => f.ds \in disturbed

SettledSet(x) ==
  /\ ImagesCurrent(x) /\ Accounted(x) /\ Complete(x)
  /\ Counted(x) /\ PairsCurrent(x) /\ PairsComplete(x)

\* Nobody writes to the images between the count and the comparison.
LEMMA CountedInductive ==
  ASSUME GroupShape, Exclusion, [Next]_vars, NEW x \in Sets, x \notin disturbed',
         x \notin disturbed => SettledSet(x)
  PROVE  Counted(x)'
<1> SUFFICES ASSUME RunOf(x)', run'.pc = "compare"
             PROVE  run'.count = Cardinality(encodings_with_embeddings(x))'
  BY DEF Counted
<1>1. ~SetsOff(x)
  BY DEF SetsOff
<1>2. RunOf(x) /\ SettledSet(x) /\ InStep(x)
  <2>1. RunOf(x)
    BY <1>1, Courses DEF Course, Waits, Runs
  <2>2. x \notin disturbed
    BY <2>1, Turns DEF Turn, Emptied
  <2> QED BY <2>1, <2>2 DEF SettledSet, ImagesCurrent
<1>3. CASE Waits(x)
  BY <1>2, <1>3, SameRow DEF Waits, SettledSet, Counted
<1>4. CASE Runs(x)
  <2>1. CASE CountEmbeddings
    <3>1. /\ row' = row
          /\ run'.count = Cardinality(encodings_with_embeddings(run.ds))
      BY <2>1 DEF CountEmbeddings, GroupShape, Typed, RunRecord
    <3> QED BY <1>2, <3>1, SameRow DEF RunOf
  <2>2. ASSUME ReadImages \/ Raise \/ Restart PROVE FALSE
    <3>1. ASSUME ReadImages \/ Raise PROVE FALSE
      BY <3>1 DEF ReadImages, Raise, GroupShape, Typed, RunRecord
    <3>2. ASSUME Restart PROVE FALSE
      BY <3>2 DEF Restart, IdleRun
    <3> QED BY <2>2, <3>1, <3>2
  <2>3. ASSUME NEW k \in Keys, EncodeImage(k) PROVE FALSE
    BY <2>3, EncodeStep
  <2>4. ASSUME Compare PROVE FALSE
    BY <2>4, CompareStep
  <2>5. ASSUME SetEncoded \/ StartDedupe \/ SetDeduplicated PROVE FALSE
    BY <1>2, <2>5, SetStateInStep
  <2> QED BY <1>4, <2>1, <2>2, <2>3, <2>4, <2>5 DEF Runs
<1> QED
  BY <1>1, <1>3, <1>4, Courses DEF Course

\* A set with a run is not approved, so no undisturbed set names it.
LEMMA NamesInductive ==
  ASSUME GroupShape, Exclusion, NamesDisturbed, [Next]_vars,
         \A x \in Sets \ disturbed : PairsCurrent(x)
  PROVE  NamesDisturbed'
<1> SUFFICES ASSUME NEW f \in finding', run'.ds # None, f.ds # run'.ds, f.second # None,
                    f.second[1] = run'.ds
             PROVE  f.ds \in disturbed'
  BY DEF NamesDisturbed
<1>1. ASSUME NEW d \in Sets, Process(d) \/ AdminEncode(d) \/ AdminDeduplicate(d)
      PROVE  f.ds \in disturbed'
  <2>1. run'.ds = d /\ f \in finding /\ disturbed \subseteq disturbed'
    BY <1>1 DEF Process, AdminEncode, AdminDeduplicate, StartRun, IdleRun, Disturb
  <2>2. f.ds \in Sets
    BY <2>1 DEF GroupShape, Typed, Finding
  <2>3. CASE f.ds \in disturbed
    BY <2>1, <2>3
  <2>4. CASE f.ds \notin disturbed
    <3>1. PICK k, e, j : Pair(f.ds, k, e, j) /\ <<f.first, f.second>> = <<<<f.ds, k>>, <<e, j>>>>
      BY <2>1, <2>2, <2>4, ExpectedPairs DEF PairsCurrent, duplicate_findings
    <3>2. state[d] = "APPROVED"
      BY <2>1, <3>1 DEF Pair
    <3>3. f.ds \in Partners(d)
      BY <2>1, <3>2 DEF Partners
    <3> QED BY <1>1, <3>2, <3>3 DEF Process, AdminEncode, AdminDeduplicate, Disturb,
                                    Overtaken, Admits, PROCESSABLE_STATES
  <2> QED BY <2>3, <2>4
<1>2. CASE run'.ds = run.ds
  <2>1. f \in finding
    <3>1. ASSUME NEW k \in Keys, EncodeImage(k) PROVE f \in finding
      <4>1. finding' = finding \/ \E code : finding' = WithErrorFinding(run.ds, k, code)
        BY <3>1, EncodeStep
      <4> QED BY <4>1 DEF WithErrorFinding
    <3>2. ASSUME Compare PROVE f \in finding
      <4>1. ASSUME NEW pairs, finding' = WithPairs(run.ds, pairs, run.config) PROVE f \in finding
        BY <1>2, <4>1 DEF WithPairs
      <4> QED BY <3>2, <4>1, CompareStep
    <3>3. ASSUME NEW d \in Sets
          PROVE  /\ Create(d) \/ BeginUpload(d) \/ Ready(d) \/ Process(d) \/ ReadClear(d)
                      => f \in finding
                 /\ \A endpoint : BeginLate(d, endpoint) => f \in finding
                 /\ \A verdict \in {"APPROVED", "REJECTED"} : Judge(d, verdict) => f \in finding
                 /\ AdminClearEmbeddings(d) \/ AdminRemoveFindings(d) \/ AdminEncode(d)
                      \/ AdminDeduplicate(d) => f \in finding
                 /\ CleanupFindings(d) \/ CleanupEncodings(d) \/ CleanupSet(d)
                      => f \in finding
      BY DEF Create, BeginUpload, Ready, Process, ReadClear, BeginLate, Judge,
             AdminClearEmbeddings, AdminRemoveFindings, AdminEncode, AdminDeduplicate,
             CleanupFindings, CleanupEncodings, CleanupSet, WithoutEncodings
    <3>4. ASSUME \/ \E s \in Configs : CheckSettings(s) \/ AdminSettings(s)
                 \/ DeleteEncodings \/ WriteEmpty \/ ReadActiveSet \/ CommitSettings \/ RequestFails
          PROVE  f \in finding
      BY <3>4 DEF CheckSettings, AdminSettings, DeleteEncodings, WriteEmpty, ReadActiveSet,
                  CommitSettings, RequestFails, WithoutEncodings
    <3>5. ASSUME \/ FinishUpload \/ ReadImages \/ SetEncoded \/ StartDedupe \/ CountEmbeddings
                 \/ SetDeduplicated \/ Raise \/ Fail \/ Finish \/ Restart \/ Killed
          PROVE  f \in finding
      BY <3>5, UploadStep DEF ReadImages, SetEncoded, StartDedupe, CountEmbeddings,
                  SetDeduplicated, Raise, Fail, Finish, Restart, Killed, Advance
    <3> QED BY <3>1, <3>2, <3>3, <3>4, <3>5 DEF Next, RunStep, vars
  <2>2. f.ds \in disturbed /\ f.ds \in Sets
    BY <1>2, <2>1 DEF NamesDisturbed, GroupShape, Typed, Finding
  <2>3. CASE f.ds \notin disturbed'
    <3>1. Emptied(f.ds)
      BY <2>2, <2>3, Turns DEF Turn
    <3> QED BY <2>2, <3>1 DEF Emptied, FindingsOf
  <2> QED BY <2>3
<1> QED
  BY <1>1, <1>2, IdleIsTyped, RunSet

\* A comparison of an undisturbed set is with the rows it counted and by its own settings.
LEMMA ComparedWell ==
  ASSUME GroupShape, NEW x \in Sets, SettledSet(x), Compares(x)
  PROVE  /\ finding' = WithPairs(x, Expected(x), run.config) /\ as_dict(run.config) = settings
         /\ run'.pc = "deduped" /\ UNCHANGED <<state, row, settings>>
<1>1. /\ run.ds = x /\ run.pc = "compare" /\ UNCHANGED <<state, row, settings>>
      /\ run.mem = "DEDUPLICATION_IN_PROGRESS"
  BY CompareStep DEF Compares, RunOf, GroupShape, Pace
<1>2. state[x] # "APPROVED"
  BY <1>1 DEF SettledSet, ImagesCurrent, InStep, RunOf
<1>3. run.count = Cardinality(encodings_with_embeddings(run.ds))
  BY <1>1 DEF SettledSet, Counted, RunOf
<1>4. run.config = from_deduplication_set(settings) /\ settings \in Settings
  BY <1>1, GroupDataAssumption DEF SettledSet, ImagesCurrent, ReadCurrent, Reading, RunOf, GroupShape, Typed
<1>5. as_dict(run.config) = settings
  BY <1>4, BackToSettings
<1>6. FoundPairs(x, run.config) = Expected(x)
  BY <1>2, <1>4, FoundAreMatches DEF Expected
<1> QED
  BY <1>1, <1>3, <1>5, <1>6, CompareStep DEF Compares

\* A reported pair of an undisturbed set.
LEMMA CurrentPairs ==
  ASSUME NEW x \in Sets, PairsCurrent(x), NEW f \in duplicate_findings(x)
  PROVE  /\ \E k, e, j : Pair(x, k, e, j) /\ f.first = <<x, k>> /\ f.second = <<e, j>>
         /\ f \in finding /\ f.ds = x /\ f.second # None /\ f.config = settings
         /\ f.first[1] = x
<1> DEFINE p == <<f.first, f.second>>
<1>1. p \in Expected(x) /\ f.config = settings
  BY DEF PairsCurrent
<1>2. p[1] = f.first /\ p[2] = f.second
  OBVIOUS
<1> HIDE DEF p
<1>3. PICK k, e, j : Pair(x, k, e, j) /\ p = <<<<x, k>>, <<e, j>>>>
  BY <1>1, ExpectedPairs
<1>4. f.first = <<x, k>> /\ f.second = <<e, j>> /\ f.first[1] = x
  BY <1>2, <1>3
<1>5. f \in finding /\ f.ds = x /\ f.second # None
  BY DEF duplicate_findings
<1> QED
  BY <1>1, <1>3, <1>4, <1>5

\* A pair that stays reported stays a duplicate: the settings stay while there are embeddings,
\* and an approved set that is taken back disturbs the sets that name it.
LEMMA OldPairsStay ==
  ASSUME GroupShape, Exclusion, NamesDisturbed, [Next]_vars, NEW x \in Sets, x \notin disturbed',
         x \notin disturbed, SettledSet(x), NEW f \in duplicate_findings(x), f \in finding'
  PROVE  <<f.first, f.second>> \in Expected(x)' /\ f.config = settings'
<1>1. PICK k, e, j : Pair(x, k, e, j) /\ f.first = <<x, k>> /\ f.second = <<e, j>>
  BY CurrentPairs DEF SettledSet
<1>2. /\ f \in finding /\ f.ds = x /\ f.second # None /\ f.config = settings /\ f.first[1] = x
      /\ f \in FindingsOf(x)'
  BY CurrentPairs DEF SettledSet, FindingsOf
<1>3. ~Emptied(x) /\ ~Dropped(x)
  BY <1>2 DEF Emptied, Dropped
<1>4. ~Uploaded(x)
  BY <1>1 DEF Uploaded, SettledSet, ImagesCurrent, Fresh, Pair
<1>5. \A i \in encodings_with_embeddings(x) : SameEmbedding(x, i)
  <2>1. CASE row'[x] = row[x]
    BY <2>1, SameRow
  <2>2. CASE Encodes(x)
    <3>1. PICK n \in Keys : EncodeImage(n)
      BY <2>2 DEF Encodes
    <3>2. /\ row[x][n].embedding = None /\ \A i \in Keys \ {n} : row'[x][i] = row[x][i]
      BY <2>2, <3>1, EncodeStep DEF Encodes, RunOf
    <3> QED BY <3>2 DEF SameEmbedding, encodings_with_embeddings, Rows
  <2> QED BY <1>3, <1>4, <2>1, <2>2, Turns DEF Turn
<1>6. SameEmbedding(x, k)
  BY <1>1, <1>5 DEF Pair
<1>7. settings' = settings
  BY <1>6, SettingsChange DEF SameEmbedding
<1>8. CASE e = x
  <2>1. SameEmbedding(e, j)
    BY <1>1, <1>5, <1>8 DEF Pair
  <2>2. Pair(x, k, e, j)'
    BY <1>1, <1>6, <1>7, <1>8, <2>1, SamePair
  <2> QED BY <1>1, <1>2, <1>7, <2>2, ExpectedPairs
<1>9. CASE e # x
  <2>1. state[e] = "APPROVED" /\ e \in Sets /\ j \in encodings_with_embeddings(e)
    BY <1>1, <1>9 DEF Pair
  <2>2. x \in Partners(e) /\ f.second[1] = e
    <3>1. f.second[1] = e
      BY <1>1
    <3> QED BY <1>2, <1>9, <2>1, <3>1 DEF Partners
  <2>3. ~RunOf(e)
    BY <1>2, <1>9, <2>1, <2>2, NoneApart DEF NamesDisturbed, RunOf
  <2>4. state'[e] = "APPROVED"
    BY <2>1, <2>2, <2>3, TakenBack
  <2>7. ~(DeleteEncodings /\ clear.ds = e)
    <3>1. ASSUME DeleteEncodings, clear.ds = e PROVE f \notin finding'
      BY <1>2, <2>2, <3>1 DEF DeleteEncodings, WithoutEncodings
    <3> QED BY <3>1
  <2>5. SameEmbedding(e, j)
    BY <2>1, <2>4, <2>7, ReferenceStep DEF Exclusion, SameEmbedding, encodings_with_embeddings, Rows
  <2>6. Pair(x, k, e, j)'
    BY <1>1, <1>6, <1>7, <2>1, <2>4, <2>5, SamePair
  <2> QED BY <1>1, <1>2, <1>7, <2>6, ExpectedPairs
<1> QED
  BY <1>8, <1>9

\* The duplicates of a set depend on states, rows and settings.
LEMMA ExpectedStays ==
  ASSUME NEW x \in Sets, UNCHANGED <<state, row, settings>>
  PROVE  Expected(x)' = Expected(x)
BY DEF Expected, Matches, Own, Approved, encodings_with_embeddings, Rows, IsDuplicate,
       Confidence, EmbeddingOf

\* Reported pairs stay duplicates, and new ones come from a comparison only.
LEMMA PairsCurrentInductive ==
  ASSUME GroupShape, Exclusion, NamesDisturbed, [Next]_vars, NEW x \in Sets, x \notin disturbed',
         x \notin disturbed => SettledSet(x)
  PROVE  PairsCurrent(x)'
<1> SUFFICES ASSUME NEW f \in duplicate_findings(x)'
             PROVE  <<f.first, f.second>> \in Expected(x)' /\ f.config = settings'
  BY DEF PairsCurrent
<1>1. f \in finding' /\ f.ds = x /\ f.second # None /\ f \in FindingsOf(x)'
  BY DEF duplicate_findings, FindingsOf
<1>2. CASE x \in disturbed
  BY <1>1, <1>2, Turns DEF Turn, Emptied
<1>3. CASE x \notin disturbed /\ f \in finding
  <2>1. f \in duplicate_findings(x)
    BY <1>1, <1>3 DEF duplicate_findings
  <2> QED BY <1>1, <1>3, <2>1, OldPairsStay
<1>4. CASE x \notin disturbed /\ f \notin finding
  <2>1. Encodes(x) \/ Compares(x)
    <3>1. f \notin FindingsOf(x)
      BY <1>4 DEF FindingsOf
    <3>2. Uploaded(x) => SameFindings(x)
      BY DEF Uploaded, SameFindings, FindingsOf
    <3> QED BY <1>1, <3>1, <3>2, Turns DEF Turn, Emptied, Dropped, SameFindings, LosesPairs, Retires, Cascades
  <2>2. ~Encodes(x)
    <3>1. ASSUME NEW n \in Keys, EncodeImage(n) PROVE FALSE
      <4>1. finding' = finding \/ \E code : finding' = WithErrorFinding(run.ds, n, code)
        BY <3>1, EncodeStep
      <4> QED BY <1>1, <1>4, <4>1 DEF WithErrorFinding
    <3> QED BY <3>1 DEF Encodes
  <2>3. /\ finding' = WithPairs(x, Expected(x), run.config) /\ as_dict(run.config) = settings
        /\ UNCHANGED <<state, row, settings>>
    BY <1>4, <2>1, <2>2, ComparedWell
  <2>4. <<f.first, f.second>> \in Expected(x) /\ f.config = settings
    <3>1. PICK p \in Expected(x) :
            f = [ds |-> x, first |-> p[1], second |-> p[2], code |-> "DEDUPLICATE_SUCCESS",
                 config |-> as_dict(run.config)]
      BY <1>1, <1>4, <2>3 DEF WithPairs
    <3>2. p = <<p[1], p[2]>>
      BY ExpectedPairs
    <3> QED BY <2>3, <3>1, <3>2
  <2> QED BY <2>3, <2>4, ExpectedStays
<1> QED
  BY <1>2, <1>3, <1>4

\* A set comes to be compared by its comparison, or has no image to compare.
LEMMA BecomesCompared ==
  ASSUME GroupShape, Exclusion, [Next]_vars, NEW x \in Sets, x \notin disturbed',
         x \notin disturbed, SettledSet(x), Compared(x)'
  PROVE  Compared(x) \/ Compares(x) \/ encodings_with_embeddings(x) = {}
<1> USE DEF SettledSet, ImagesCurrent
<1>1. CASE state'[x] = "DEDUPLICATED"
  <2>1. state[x] = "DEDUPLICATED" \/ (RunOf(x) /\ SetDeduplicated)
    BY <1>1, Verdicts
  <2>2. SetDeduplicated => run.pc = "deduped"
    BY DEF SetDeduplicated
  <2>3. state[x] = "DEDUPLICATED" /\ RunOf(x) => run.pc = "done"
    BY DEF InStep
  <2> QED BY <2>1, <2>2, <2>3 DEF Compared
<1>2. CASE RunOf(x)' /\ run'.pc = "deduped"
  <2>1. ~SetsOff(x)
    BY <1>2 DEF SetsOff
  <2>2. CASE Waits(x)
    BY <1>2, <2>2 DEF Waits, Compared
  <2>3. CASE Runs(x)
    <3>1. CASE CountEmbeddings
      <4>1. CASE Cardinality(encodings_with_embeddings(x)) = 0
        BY <4>1, EmbeddedIsFinite, FS_EmptySet
      <4>2. CASE Cardinality(encodings_with_embeddings(x)) # 0
        <5>1. run'.pc = "compare"
          BY <2>3, <3>1, <4>2 DEF CountEmbeddings, Runs, RunOf, GroupShape, Typed, RunRecord
        <5> QED BY <1>2, <5>1
      <4> QED BY <4>1, <4>2
    <3>2. ASSUME ReadImages \/ Raise \/ Restart PROVE FALSE
      <4>1. ASSUME ReadImages \/ Raise PROVE FALSE
        BY <1>2, <4>1 DEF ReadImages, Raise, GroupShape, Typed, RunRecord
      <4>2. ASSUME Restart PROVE FALSE
        BY <1>2, <4>2 DEF Restart, IdleRun
      <4> QED BY <3>2, <4>1, <4>2
    <3>3. ASSUME NEW k \in Keys, EncodeImage(k) PROVE FALSE
      BY <1>2, <3>3, EncodeStep
    <3>4. ASSUME SetEncoded \/ StartDedupe \/ SetDeduplicated PROVE FALSE
      BY <1>2, <2>3, <3>4, SetStateInStep DEF Runs
    <3> QED BY <2>3, <3>1, <3>2, <3>3, <3>4 DEF Runs, Compares
  <2> QED BY <2>1, <2>2, <2>3, <1>2, Courses DEF Course
<1> QED
  BY <1>1, <1>2 DEF Compared

\* While a set is compared it holds the slot, and no other set has a run.
LEMMA ComparedHoldsSlot ==
  ASSUME GroupShape, DeduplicatedAlone, NEW x \in Sets, SettledSet(x), Compared(x)
  PROVE  /\ state[x] \in BLOCKING_STATES
         /\ \A e \in Sets \ {x} : ~RunOf(e)
<1>1. CASE state[x] = "DEDUPLICATED"
  <2>1. run.ds # None => RunOf(x)
    BY <1>1 DEF DeduplicatedAlone
  <2> QED BY <1>1, <2>1, NoneApart DEF RunOf, BLOCKING_STATES, State
<1>2. CASE RunOf(x) /\ run.pc = "deduped"
  <2>1. run.mem = "DEDUPLICATION_IN_PROGRESS"
    BY <1>2 DEF GroupShape, Pace
  <2>2. state[x] = "DEDUPLICATION_IN_PROGRESS"
    BY <1>2, <2>1 DEF SettledSet, ImagesCurrent, InStep
  <2> QED BY <1>2, <2>2 DEF RunOf, BLOCKING_STATES, State
<1> QED
  BY <1>1, <1>2 DEF Compared

\* A duplicate of a set that stays compared was one before.
LEMMA NoNewPair ==
  ASSUME GroupShape, Exclusion, DeduplicatedAlone, [Next]_vars, NEW x \in Sets,
         x \notin disturbed', SettledSet(x), Compared(x), row'[x] = row[x], settings' = settings,
         NEW k, NEW e, NEW j, Pair(x, k, e, j)'
  PROVE  Pair(x, k, e, j)
<1>1. /\ k \in encodings_with_embeddings(x)' /\ e \in Sets /\ j \in encodings_with_embeddings(e)'
      /\ e # x => state'[e] = "APPROVED"
  BY DEF Pair
<1>2. SameEmbedding(x, k)
  BY <1>1, SameRow
<1>3. CASE e = x
  BY <1>1, <1>2, <1>3, SameRow, SamePair
<1>4. CASE e # x
  <2>1. ~RunOf(e) /\ state[x] \in BLOCKING_STATES
    BY <1>1, <1>4, ComparedHoldsSlot
  <2>2. state[e] # "DEDUPLICATED"
    BY <1>1, <1>4, <2>1 DEF Exclusion, OneInSlot, BLOCKING_STATES, State
  <2>3. state[e] = "APPROVED"
    <3>1. state[x] = "DEDUPLICATED" \/ RunOf(x)
      BY DEF Compared
    <3> QED BY <1>1, <1>4, <2>2, <3>1, Verdicts
  <2>4. SameEmbedding(e, j)
    BY <1>1, <2>1, NoNewEmbedding
  <2> QED BY <1>1, <1>2, <1>4, <2>3, <2>4, SamePair
<1> QED
  BY <1>3, <1>4

\* A run that encodes has not compared yet.
LEMMA EncodesOn ==
  ASSUME GroupShape, NEW x \in Sets, Encodes(x)
  PROVE  ~Compared(x)'
<1>1. PICK k \in Keys : EncodeImage(k)
  BY DEF Encodes
<1>2. RunOf(x)' /\ run'.pc \in {"encode", "error"}
  BY <1>1, EncodeStep DEF Encodes, RunOf
<1> QED
  BY <1>2 DEF Compared

\* The pairs of a set that stays compared stay reported.
LEMMA PairsStay ==
  ASSUME GroupShape, Exclusion, [Next]_vars, NEW x \in Sets, x \notin disturbed',
         x \notin disturbed, SettledSet(x), Compared(x)', ~Compares(x),
         row'[x] = row[x], NEW f \in duplicate_findings(x), ~Emptied(x), ~Dropped(x),
         NEW k, NEW e, NEW j, Pair(x, k, e, j)', f.first = <<x, k>>, f.second = <<e, j>>
  PROVE  f \in duplicate_findings(x)'
<1>2. f \in finding /\ f.ds = x /\ f.second # None /\ f \in FindingsOf(x)
  BY DEF duplicate_findings, FindingsOf
<1>3. state'[x] \in {"DEDUPLICATED", "DEDUPLICATION_IN_PROGRESS"}
  <2>1. InStep(x)' /\ GroupShape'
    BY InStepInductive, ShapeStep DEF SettledSet, ImagesCurrent, Exclusion
  <2>2. CASE RunOf(x)' /\ run'.pc = "deduped"
    <3>1. run'.mem = "DEDUPLICATION_IN_PROGRESS"
      BY <2>1, <2>2 DEF GroupShape, Pace
    <3> QED BY <2>1, <2>2, <3>1 DEF InStep
  <2> QED BY <2>2 DEF Compared
<1>4. ~LosesPairs(x) /\ ~Retires(x)
  BY <1>3 DEF LosesPairs, Retires, FinalStates
<1>5. f \in FindingsOf(x)'
  <2>1. CASE SameFindings(x)
    BY <1>2, <2>1 DEF SameFindings
  <2>2. CASE Cascades(x)
    <3>1. PICK d \in Sets \ {x} :
            /\ Rows(d)' = {}
            /\ FindingsOf(x)' = {g \in FindingsOf(x) :
                                   g.first[1] # d /\ (g.second = None \/ g.second[1] # d)}
      BY <2>2 DEF Cascades
    <3>2. f.first[1] = x /\ f.second[1] = e
      OBVIOUS
    <3>3. e # d
      BY <3>1 DEF Pair, encodings_with_embeddings
    <3> QED BY <1>2, <3>1, <3>2, <3>3
  <2>3. CASE Uploaded(x)
    BY <1>2, <2>3 DEF Uploaded, FindingsOf
  <2>4. CASE Encodes(x)
    BY <2>4, EncodesOn
  <2> QED BY <1>4, <2>1, <2>2, <2>3, <2>4, Turns DEF Turn
<1> QED
  BY <1>2, <1>5 DEF duplicate_findings, FindingsOf

\* Once compared, a set stays compared with everything until it is judged or worked on again.
LEMMA PairsCompleteInductive ==
  ASSUME GroupShape, Exclusion, DeduplicatedAlone, [Next]_vars, NEW x \in Sets,
         x \notin disturbed', x \notin disturbed => SettledSet(x)
  PROVE  PairsComplete(x)'
<1> SUFFICES ASSUME Compared(x)', NEW p \in Expected(x)' PROVE p \in PairsOf(x)'
  BY DEF PairsComplete
<1>1. PICK k, e, j : Pair(x, k, e, j)' /\ p = <<<<x, k>>, <<e, j>>>>
  BY ExpectedPairs
<1>2. k \in encodings_with_embeddings(x)'
  BY <1>1 DEF Pair
<1>3. ~Emptied(x) /\ ~Dropped(x)
  BY <1>2 DEF Emptied, Dropped, encodings_with_embeddings, Rows
<1>4. x \notin disturbed /\ SettledSet(x)
  BY <1>3, Turns DEF Turn
<1>5. settings' = settings
  BY <1>2, SettingsChange
<1>6. ~Uploaded(x)
  <2>1. ASSUME Uploaded(x) PROVE FALSE
    <3>1. encodings_with_embeddings(x) = {}
      BY <1>4, <2>1 DEF Uploaded, SettledSet, ImagesCurrent, Fresh
    <3> QED BY <1>2, <2>1, <3>1 DEF Uploaded, UploadsRow, encodings_with_embeddings, Rows
  <2> QED BY <2>1
<1>7. row'[x] = row[x]
  BY <1>3, <1>6, EncodesOn, Turns DEF Turn
<1>8. CASE Compares(x)
  <2>1. finding' = WithPairs(x, Expected(x), run.config) /\ UNCHANGED <<state, row, settings>>
    BY <1>4, <1>8, ComparedWell
  <2>2. p \in Expected(x) /\ p[2] = <<e, j>> /\ p = <<p[1], p[2]>>
    BY <1>1, <2>1, ExpectedStays
  <2> DEFINE f == [ds |-> x, first |-> p[1], second |-> p[2], code |-> "DEDUPLICATE_SUCCESS",
                   config |-> as_dict(run.config)]
  <2>3. f \in finding' /\ f.ds = x /\ <<f.first, f.second>> = p /\ f.second = <<e, j>>
    BY <2>1, <2>2 DEF WithPairs
  <2> HIDE DEF f
  <2>4. <<e, j>> # None
    <3>1. e \in Sets /\ j \in Keys
      BY <1>1 DEF Pair, encodings_with_embeddings, Rows
    <3>2. <<e, j>> \in Sets \X Keys
      BY <3>1
    <3>3. None \notin Sets \X Keys
      BY GroupDataAssumption
    <3> QED BY <3>2, <3>3
  <2>5. f \in duplicate_findings(x)'
    BY <2>3, <2>4 DEF duplicate_findings
  <2> QED BY <2>3, <2>5 DEF PairsOf
<1>9. CASE Compared(x) /\ ~Compares(x)
  <2>1. Pair(x, k, e, j)
    BY <1>1, <1>4, <1>5, <1>7, <1>9, NoNewPair
  <2>2. p \in PairsOf(x)
    BY <1>1, <1>4, <1>9, <2>1, ExpectedPairs DEF SettledSet, PairsComplete
  <2>3. PICK f \in duplicate_findings(x) : p = <<f.first, f.second>>
    BY <2>2 DEF PairsOf
  <2>5. f.first = <<x, k>> /\ f.second = <<e, j>>
    <3>1. <<f.first, f.second>> = <<<<x, k>>, <<e, j>>>>
      BY <1>1, <2>3
    <3> QED BY <3>1
  <2>4. f \in duplicate_findings(x)'
    BY <1>1, <1>3, <1>4, <1>7, <1>9, <2>5, PairsStay
  <2> QED BY <2>3, <2>4 DEF PairsOf
<1>10. CASE encodings_with_embeddings(x) = {}
  BY <1>2, <1>7, <1>10, SameRow
<1> QED
  BY <1>4, <1>8, <1>9, <1>10, BecomesCompared

\* No run begins while the settings are changed, and no change while there is a run.
LEMMA AloneWithChange ==
  ASSUME GroupShape, Exclusion, [Next]_vars
  PROVE  ChangeAlone'
<1> SUFFICES ASSUME change' # IdleChange PROVE run'.ds = None
  BY DEF ChangeAlone
<1>1. CASE change' = change
  <2>1. run.ds = None /\ ~GroupIsFree
    BY <1>1 DEF Exclusion, ChangeAlone, GroupIsFree
  <2>2. ~\E d \in Sets : Process(d) \/ AdminEncode(d) \/ AdminDeduplicate(d)
    BY <2>1 DEF Process, AdminEncode, AdminDeduplicate
  <2> QED BY <2>1, <2>2, RunSet, IdleIsTyped
<1>2. ASSUME NEW s \in Configs, CheckSettings(s) PROVE run'.ds = None
  BY <1>2, IdleIsTyped DEF CheckSettings
<1>3. CASE ReadActiveSet
  <2>1. change # IdleChange /\ run' = run
    BY <1>3 DEF ReadActiveSet, IdleChange
  <2> QED BY <2>1 DEF Exclusion, ChangeAlone
<1> QED
  BY <1>1, <1>2, <1>3, RequestSteps

\* What a settings change looked at stays so: meanwhile there is no run, and an approval
\* disturbs its set.
LEMMA SeesInductive ==
  ASSUME GroupShape, Exclusion, [Next]_vars
  PROVE  ChangeSees'
<1> SUFFICES ASSUME change' # IdleChange, NEW x \in Sets, x \notin disturbed'
             PROVE  /\ state'[x] # "APPROVED"
                    /\ change'.pc = "read" /\ state'[x] \in {"ENCODED", "DEDUPLICATED"}
                         => x = change'.ds
  BY DEF ChangeSees
<1>1. CASE change' = change
  <2>1. run.ds = None /\ change # IdleChange /\ ~RunOf(x) /\ InStep(x)
    BY <1>1, NoneApart DEF Exclusion, ChangeAlone, RunOf, InStep
  <2>2. CASE Emptied(x) /\ x \in disturbed
    <3>1. state'[x] \in {"EMPTY", None}
      BY <2>2 DEF Emptied
    <3> QED BY <3>1, NoneApart DEF State
  <2>3. CASE x \notin disturbed
    <3>1. StateTurn(x)
      BY <2>1, <2>3, StateTurns
    <3>2. \/ state'[x] = state[x]
          \/ state'[x] \in {"EMPTY", None, "READY", "ENCODING_IN_PROGRESS", "UPLOADING_IN_PROGRESS",
                            "REJECTED"}
          \/ state[x] = "DEDUPLICATED" /\ state'[x] = "ENCODED"
      BY <2>1, <3>1 DEF StateTurn, Emptied, Dropped, Changes
    <3>3. /\ state[x] # "APPROVED"
          /\ change.pc = "read" /\ state[x] \in {"ENCODED", "DEDUPLICATED"} => x = change.ds
      BY <2>1, <2>3 DEF Exclusion, ChangeSees
    <3>4. None \notin {"APPROVED", "ENCODED", "DEDUPLICATED"}
      BY NoneApart DEF State
    <3> QED BY <1>1, <3>2, <3>3, <3>4
  <2> QED BY <2>2, <2>3, Turns DEF Turn
<1>2. ASSUME NEW s \in Configs, CheckSettings(s)
      PROVE  state'[x] # "APPROVED" /\ change'.pc # "read"
  BY <1>2 DEF CheckSettings
<1>3. CASE ReadActiveSet
  <2> DEFINE active == {d \in Sets : state[d] \in {"ENCODED", "DEDUPLICATED"}}
  <2>1. change # IdleChange /\ UNCHANGED <<state, disturbed>>
    BY <1>3 DEF ReadActiveSet, IdleChange
  <2>2. state'[x] # "APPROVED"
    BY <2>1 DEF Exclusion, ChangeSees
  <2>3. active # {} => change'.ds \in active
    BY <1>3 DEF ReadActiveSet, Exclusion, Slots
  <2>4. \A d, e \in active : d = e
    BY DEF Exclusion, OneInSlot, BLOCKING_STATES, State
  <2>5. state'[x] \in {"ENCODED", "DEDUPLICATED"} => x = change'.ds
    BY <2>1, <2>3, <2>4
  <2> QED BY <2>2, <2>5
<1> QED
  BY <1>1, <1>2, <1>3, RequestSteps

\* The slot, the requests under way and the settings change, together.
LEMMA ExclusionInductive ==
  ASSUME GroupShape, Exclusion, [Next]_vars
  PROVE  Exclusion'
BY SlotInductive, SlotsStep, AloneWithChange, SeesInductive DEF Exclusion

\* The inductive invariant of the group's data.
GroupInv ==
  /\ GroupShape /\ Exclusion /\ DeduplicatedAlone /\ NamesDisturbed
  /\ \A d \in Sets : Settled(d) => SettledSet(d)

\* The invariant holds at first.
LEMMA GroupInvInit ==
  Init => GroupInv
<1> SUFFICES ASSUME Init PROVE GroupInv
  OBVIOUS
<1>1. run = IdleRun /\ finding = {} /\ \A x \in Sets : state[x] = None
  BY DEF Init
<1>2. DeduplicatedAlone /\ NamesDisturbed
  BY <1>1, IdleIsTyped DEF DeduplicatedAlone, NamesDisturbed
<1>4. Exclusion
  BY SlotInit, SlotsInit DEF Exclusion, ChangeAlone, ChangeSees, Init
<1>3. ASSUME NEW x \in Sets PROVE SettledSet(x)
  <2>1. ~RunOf(x) /\ duplicate_findings(x) = {} /\ state[x] # "DEDUPLICATED"
    BY <1>1, IdleIsTyped, NoneApart DEF RunOf, duplicate_findings, State
  <2> QED BY <1>3, <2>1, ImagesInit, AccountedInit
          DEF SettledSet, Counted, PairsCurrent, PairsComplete, Compared
<1> QED
  BY <1>2, <1>3, <1>4, ShapeInit DEF GroupInv

\* Every step keeps it.
LEMMA GroupInvStep ==
  GroupInv /\ [Next]_vars => GroupInv'
<1> SUFFICES ASSUME GroupInv, [Next]_vars PROVE GroupInv'
  OBVIOUS
<1>1. GroupShape /\ Exclusion /\ DeduplicatedAlone /\ NamesDisturbed
  BY DEF GroupInv
<1>2. \A x \in Sets : x \notin disturbed => SettledSet(x)
  BY DEF GroupInv, Settled
<1>3. NamesDisturbed'
  <2>1. \A x \in Sets \ disturbed : PairsCurrent(x)
    BY <1>2 DEF SettledSet
  <2> QED BY <1>1, <2>1, NamesInductive
<1>4. ASSUME NEW x \in Sets, x \notin disturbed' PROVE SettledSet(x)'
  <2>1. x \notin disturbed => SettledSet(x)
    BY <1>2
  <2>2. x \notin disturbed => ImagesCurrent(x) /\ Accounted(x) /\ Complete(x)
    BY <2>1 DEF SettledSet
  <2>3. ImagesCurrent(x)' /\ Accounted(x)' /\ Complete(x)'
    BY <1>1, <1>4, <2>2, ImagesInductive, AccountedInductive, CompleteInductive
  <2>4. Counted(x)' /\ PairsCurrent(x)' /\ PairsComplete(x)'
    BY <1>1, <1>4, <2>1, CountedInductive, PairsCurrentInductive, PairsCompleteInductive
  <2> QED BY <2>3, <2>4 DEF SettledSet
<1>5. GroupShape' /\ Exclusion' /\ DeduplicatedAlone'
  BY <1>1, ShapeStep, ExclusionInductive, AloneInductive DEF Exclusion
<1> QED
  BY <1>3, <1>4, <1>5 DEF GroupInv, Settled

\* The inductive invariant of the group's data, for every value of the constants.
THEOREM GroupInvariance ==
  Spec => []GroupInv
BY GroupInvInit, GroupInvStep, PTL DEF Spec

\* Whatever is compared with a set was made the same way: the embeddings of every set that is
\* encoded, deduplicated or approved, and was changed by its uploads and runs only, come from
\* the settings in force and from the file the row names.
THEOREM EmbeddingsAreComparableHolds ==
  Spec => []EmbeddingsAreComparable
<1>1. GroupInv => EmbeddingsAreComparable
  BY DEF GroupInv, SettledSet, ImagesCurrent, Current, EmbeddingsAreComparable
<1> QED
  BY <1>1, GroupInvariance, PTL

\* A processed set accounts for every image: an embedding, or a status whose reason is the
\* only one reported, whatever errors, restarts and repeated runs led there.
THEOREM EveryImageAccountedHolds ==
  Spec => []EveryImageAccounted
<1>1. GroupInv => EveryImageAccounted
  <2> SUFFICES ASSUME GroupInv, NEW d \in Sets, Settled(d), state[d] \in {"ENCODED", "DEDUPLICATED"},
                      NEW k \in Rows(d)
               PROVE  \/ row[d][k].embedding # None
                      \/ row[d][k].code # None /\ Reported(d, k) = {row[d][k].code}
    BY DEF EveryImageAccounted, Reported
  <2>1. SettledSet(d) /\ state[d] \notin FinalStates
    BY DEF GroupInv, FinalStates
  <2> QED BY <2>1 DEF SettledSet, Accounted, Complete
<1> QED
  BY <1>1, GroupInvariance, PTL

\* A set that waits for its approval reports exactly the duplicates among its images and
\* between them and all approved images, by the settings in force, and none else; so the
\* chunked search, the count before it and the pairs of earlier runs leave nothing out and
\* nothing over.
THEOREM FindingsAreCompleteHolds ==
  Spec => []FindingsAreComplete
<1>1. GroupInv => FindingsAreComplete
  <2> SUFFICES ASSUME GroupInv, NEW d \in Sets, Settled(d), state[d] = "DEDUPLICATED",
                      RunOf(d) => run.pc = "done"
               PROVE  PairsOf(d) = Expected(d) /\ \A f \in duplicate_findings(d) : f.config = settings
    BY DEF FindingsAreComplete, PairsOf, Expected, Matches, Own
  <2>1. SettledSet(d) /\ Compared(d)
    BY DEF GroupInv, Compared
  <2>2. Expected(d) \subseteq PairsOf(d)
    BY <2>1 DEF SettledSet, PairsComplete
  <2>3. PairsOf(d) \subseteq Expected(d)
    BY <2>1 DEF SettledSet, PairsCurrent, PairsOf
  <2> QED BY <2>1, <2>2, <2>3 DEF SettledSet, PairsCurrent
<1> QED
  BY <1>1, GroupInvariance, PTL
================================================================================
