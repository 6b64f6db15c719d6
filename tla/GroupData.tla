------------------------------- MODULE GroupData -------------------------------
(***************************************************************************)
(* The images, embeddings and findings of one deduplication set group, and *)
(* everything that writes them: uploads, the two stages of find_duplicates *)
(* row by row, settings changes, the actions of the admin site, and the    *)
(* cleanup of old data.                                                    *)
(*                                                                         *)
(* Every request reads the set first, decides by what it read, and writes  *)
(* later.  An upload, a clear and a settings change have their steps here; *)
(* of the requests with one write each (ready, process, approve, reject)   *)
(* one may be late, the others write what they read.  There is one run at  *)
(* a time, which is what DedupEngine proves of the lock.                   *)
(***************************************************************************)
EXTENDS Integers, FiniteSets, SequencesExt, DeduplicationSet, ImageAnalysis, PairSearch

CONSTANTS
  Sets,          \* rows of deduplication sets
  Keys,          \* reference_pk values of images
  Match,         \* Match[i][k]: confidence of the pair, 0 when it is beyond the distance
  ChunkSize,     \* chunk_size of dedupe_all
  Configs,       \* settings the group may be given
  Offered,       \* Offered[d][k]: images clients upload to set d under key k
  SystemErrors,  \* errors that loading an image may end with in this instance
  Scenarios      \* Scenarios: which requests and actions happen together

AllActors ==
  {"late_upload", "late_request", "config", "clear", "admin_settings", "admin_clear",
   "admin_findings", "admin_encode", "admin_deduplicate", "restart", "killed", "cleanup",
   "storage_fails"}

ASSUME GroupDataAssumption ==
  /\ None \notin Sets \cup State \cup StatusCode
  /\ None \notin Embedding /\ None \notin Row /\ None \notin Sets \X Keys
  /\ IsFiniteSet(Sets)
  /\ Keys \subseteq Nat /\ IsFiniteSet(Keys)
  /\ Match \in [Images -> [Images -> 0..10000]]
  /\ ChunkSize \in Nat \ {0}
  /\ Configs \subseteq Settings
  /\ Offered \in [Sets -> [Keys -> SUBSET Images]]
  /\ SystemErrors \subseteq SYSTEM
  /\ Scenarios \subseteq SUBSET AllActors

VARIABLES
  state,      \* state[d]: the state of set d, None while the row is absent
  row,        \* row[d][k]: the row of Encoding of set d with reference_pk k, or None
  finding,    \* the rows of Finding
  settings,   \* settings of the group
  actors,     \* the requests and actions of this behaviour, beside upload and process
  upload,     \* the upload request under way
  late,       \* a ready, process, approve or reject request that has read its set
  clear,      \* the DELETE on images under way
  change,     \* the settings change under way
  run,        \* the run of find_duplicates under way
  disturbed   \* sets whose data was changed beside their upload and their runs

requests == <<upload, late, clear, change>>

vars == <<state, row, finding, settings, actors, upload, late, clear, change, run, disturbed>>

IdleUpload == [ds |-> None, seen |-> None]
IdleLate == [ds |-> None, endpoint |-> None]
IdleClear == [ds |-> None, seen |-> None, deleted |-> FALSE]
IdleChange == [pc |-> "idle", settings |-> None, ds |-> None]
IdleRun ==
  [pc |-> "idle", ds |-> None, encode_only |-> FALSE, mem |-> None, config |-> None,
   todo |-> <<>>, count |-> 0, lost |-> FALSE]

\* The states in which an endpoint with one write goes on.
Admits ==
  [ready |-> {"UPLOADING_IN_PROGRESS"}, process |-> PROCESSABLE_STATES,
   judge |-> {"DEDUPLICATED"}]

Encodings == Sets \X Keys

Finding ==
  [ds : Sets, first : Encodings, second : Encodings \cup {None},
   code : StatusCode, config : Settings]

Config == {from_deduplication_set(s) : s \in Configs}

TypeOK ==
  /\ state \in [Sets -> State \cup {None}]
  /\ \A d \in Sets, k \in Keys : row[d][k] # None => row[d][k] \in Row
  /\ finding \subseteq Finding
  /\ settings \in Configs
  /\ actors \in Scenarios
  /\ upload \in [ds : Sets \cup {None}, seen : State \cup {None}]
  /\ late \in [ds : Sets \cup {None}, endpoint : DOMAIN Admits \cup {None}]
  /\ clear \in [ds : Sets \cup {None}, seen : State \cup {None}, deleted : BOOLEAN]
  /\ change \in [pc : {"idle", "checked", "read"}, settings : Configs \cup {None},
                 ds : Sets \cup {None}]
  /\ run.pc \in {"idle", "begin", "encode", "start_dedupe", "count", "compare",
                 "deduped", "done", "error"}
  /\ run.ds \in Sets \cup {None}
  /\ run.encode_only \in BOOLEAN
  /\ run.mem \in State \cup {None}
  /\ run.config \in Config \cup {None}
  /\ DOMAIN run.todo \subseteq Keys
  /\ run.count \in 0..Cardinality(Keys)
  /\ run.lost \in BOOLEAN
  /\ disturbed \subseteq Sets

Init ==
  /\ state = [d \in Sets |-> None]
  /\ row = [d \in Sets |-> [k \in Keys |-> None]]
  /\ finding = {}
  /\ settings \in Configs
  /\ actors \in Scenarios
  /\ upload = IdleUpload
  /\ late = IdleLate
  /\ clear = IdleClear
  /\ change = IdleChange
  /\ run = IdleRun
  /\ disturbed = {}

Fits(d, target) ==
  target \in BLOCKING_STATES =>
    \A e \in Sets \ {d} : state[e] \notin BLOCKING_STATES

Rows(d) == {k \in Keys : row[d][k] # None}
encodings_with_embeddings(d) == {k \in Rows(d) : row[d][k].embedding # None}

\* The set is being uploaded, or a run of it is under way.
Uploading(d) == state[d] \in {"EMPTY", "UPLOADING_IN_PROGRESS"}
RunOf(d) == run.ds = d

Disturb(D) == disturbed' = disturbed \cup D

\* Deleting the encodings of a set cascades to the findings that refer to them.
WithoutEncodings(d) ==
  {f \in finding : f.first[1] # d /\ (f.second = None \/ f.second[1] # d)}

\* Mutant: the embeddings stay.
WithoutEmbeddingsNone(d) == row

\* clear_embeddings_data on the rows.
WithoutEmbeddings(d) ==
  [row EXCEPT ![d] =
     [k \in Keys |-> IF k \in Rows(d)
                     THEN [@[k] EXCEPT !.embedding = None, !.code = None] ELSE None]]

duplicate_findings(d) == {f \in finding : f.ds = d /\ f.second # None}
FindingsOf(d) == {f \in finding : f.ds = d}

\* Other sets whose findings name images of an approved set: an action of the admin site
\* or a late upload that takes the approved set back leaves them as they are.
Partners(d) ==
  {f.ds : f \in {f \in finding : state[d] = "APPROVED" /\ f.ds # d
                                  /\ f.second # None /\ f.second[1] = d}}

-----------------------------------------------------------------------------
(***************************************************************************)
(* Requests.                                                               *)
(***************************************************************************)

\* While a settings change is under way its transaction holds the row of the group:
\* whoever needs that row (a new set, a new run, another change) waits.
GroupIsFree == change = IdleChange

Create(d) ==
  /\ GroupIsFree
  /\ state[d] = None
  /\ Fits(d, "EMPTY")
  /\ state' = [state EXCEPT ![d] = "EMPTY"]
  /\ UNCHANGED <<row, finding, settings, requests, run, disturbed>>

\* POST on the images of a set, up to the check of the state it read.
BeginUpload(d) ==
  /\ upload = IdleUpload
  /\ Uploading(d)
  /\ upload' = [ds |-> d, seen |-> state[d]]
  /\ UNCHANGED <<state, row, finding, settings, late, clear, change, run, disturbed>>

\* The rest of its transaction: a row is created or, under a known reference_pk, gets
\* the new filename; only a request that saw the set empty moves it, and a violated
\* index rolls everything back.
FinishUpload ==
  LET d == upload.ds IN
  /\ d # None
  /\ ~Uploading(d) => "late_upload" \in actors
  /\ upload' = IdleUpload
  /\ \/ /\ upload.seen = "EMPTY" => Fits(d, "UPLOADING_IN_PROGRESS")
        /\ state' = IF upload.seen = "EMPTY"
                    THEN [state EXCEPT ![d] = "UPLOADING_IN_PROGRESS"] ELSE state
        /\ \E k \in Keys : \E i \in Offered[d][k] :
             row' = [row EXCEPT ![d][k] =
                       IF @ = None
                       THEN [filename |-> i, embedding |-> None, code |-> None, scores |-> None]
                       ELSE [@ EXCEPT !.filename = i]]
        /\ Disturb(IF Uploading(d) /\ ~RunOf(d) THEN {} ELSE {d} \cup Partners(d))
     \/ /\ upload.seen = "EMPTY" /\ ~Fits(d, "UPLOADING_IN_PROGRESS")
        /\ UNCHANGED <<state, row, disturbed>>
  /\ UNCHANGED <<finding, settings, late, clear, change, run>>

\* ready, process, approve or reject has read its set and found the state it asks for.
BeginLate(d, endpoint) ==
  /\ "late_request" \in actors
  /\ late = IdleLate
  /\ state[d] \in Admits[endpoint]
  /\ late' = [ds |-> d, endpoint |-> endpoint]
  /\ UNCHANGED <<state, row, finding, settings, upload, clear, change, run, disturbed>>

\* A request that was admitted, by the state the set has or by one it had.
Admitted(d, endpoint) ==
  /\ \/ state[d] \in Admits[endpoint] /\ UNCHANGED late
     \/ /\ late = [ds |-> d, endpoint |-> endpoint]
        /\ state[d] # None
        /\ late' = IdleLate
  /\ UNCHANGED <<upload, clear, change>>

\* What is disturbed when the set has left the state its request saw.
Overtaken(d, endpoint) == IF state[d] \in Admits[endpoint] THEN {} ELSE {d} \cup Partners(d)

Ready(d) ==
  /\ Admitted(d, "ready")
  /\ Fits(d, "READY")
  /\ state' = [state EXCEPT ![d] = "READY"]
  /\ Disturb(Overtaken(d, "ready"))
  /\ UNCHANGED <<row, finding, settings, run>>

StartRun(d, encode_only) ==
  run' = [IdleRun EXCEPT !.pc = "begin", !.ds = d, !.encode_only = encode_only,
                         !.mem = "ENCODING_IN_PROGRESS"]

Process(d) ==
  /\ Admitted(d, "process")
  /\ GroupIsFree
  /\ run = IdleRun
  /\ Fits(d, "ENCODING_IN_PROGRESS")
  /\ state' = [state EXCEPT ![d] = "ENCODING_IN_PROGRESS"]
  /\ \E encode_only \in BOOLEAN : StartRun(d, encode_only)
  /\ Disturb(Overtaken(d, "process"))
  /\ UNCHANGED <<row, finding, settings>>

\* approve and reject take no lock.  A late approval adds images that sets compared
\* before have not met; one during a settings change, images of the old settings.
Judge(d, verdict) ==
  /\ Admitted(d, "judge")
  /\ state' = [state EXCEPT ![d] = verdict]
  /\ Disturb(IF state[d] = "DEDUPLICATED"
             THEN {e \in {d} : ~GroupIsFree}
             ELSE {d} \cup Partners(d)
                    \cup {e \in Sets : state[e] = "DEDUPLICATED" \/ RunOf(e)})
  /\ UNCHANGED <<row, finding, settings, run>>

\* Mutant: the images of an approved set can be cleared.
ReadClearApproved(d) ==
  /\ "clear" \in actors
  /\ clear = IdleClear
  /\ state[d] # None
  /\ clear' = [ds |-> d, seen |-> state[d], deleted |-> FALSE]
  /\ UNCHANGED <<state, row, finding, settings, upload, late, change, run, disturbed>>

\* DELETE on the images of a set: the set is read, and an approved one is not found.
ReadClear(d) ==
  /\ "clear" \in actors
  /\ clear = IdleClear
  /\ state[d] \notin {None, "APPROVED"}
  /\ clear' = [ds |-> d, seen |-> state[d], deleted |-> FALSE]
  /\ UNCHANGED <<state, row, finding, settings, upload, late, change, run, disturbed>>

\* The rows and their findings are deleted, whatever the set has become, and committed.
DeleteEncodings ==
  LET d == clear.ds IN
  /\ d # None /\ ~clear.deleted
  /\ clear' = [clear EXCEPT !.deleted = TRUE, !.seen = None]
  /\ row' = [row EXCEPT ![d] = [k \in Keys |-> None]]
  /\ finding' = WithoutEncodings(d)
  /\ run' = [run EXCEPT !.lost = @ \/ RunOf(d)]
  /\ Disturb({e \in {d} : RunOf(e)})
  /\ UNCHANGED <<state, settings, upload, late, change>>

\* Then the state is written, over what happened to the set in between.  A set that has
\* nothing left is as good as new.
WriteEmpty ==
  LET d == clear.ds
      left == RunOf(d) \/ Rows(d) # {} \/ FindingsOf(d) # {}
      used == \/ RunOf(d) \/ FindingsOf(d) # {} \/ encodings_with_embeddings(d) # {}
              \/ state[d] \in FinalStates
  IN
  /\ clear.deleted
  /\ state[d] # None
  /\ Fits(d, "EMPTY")
  /\ clear' = IdleClear
  /\ state' = [state EXCEPT ![d] = "EMPTY"]
  /\ disturbed' = IF left THEN disturbed \cup (IF used THEN {d} \cup Partners(d) ELSE {})
                  ELSE disturbed \ {d}
  /\ UNCHANGED <<row, finding, settings, upload, late, change, run>>

\* POST config, under the lock: update_settings looks for an approved set.
CheckSettings(s) ==
  /\ "config" \in actors
  /\ GroupIsFree
  /\ s # settings
  /\ run = IdleRun
  /\ \A d \in Sets : state[d] # "APPROVED"
  /\ change' = [pc |-> "checked", settings |-> s, ds |-> None]
  /\ UNCHANGED <<state, row, finding, settings, upload, late, clear, run, disturbed>>

\* _clear_active_set_on_settings_change reads the set it will clear.
ReadActiveSet ==
  LET active == {d \in Sets : state[d] \in {"ENCODED", "DEDUPLICATED"}} IN
  /\ change.pc = "checked"
  /\ \E ds \in IF active = {} THEN {None} ELSE active :
       change' = [change EXCEPT !.pc = "read", !.ds = ds]
  /\ UNCHANGED <<state, row, finding, settings, upload, late, clear, run, disturbed>>

\* Sets that keep embeddings of the settings the group had: a change clears only a set
\* that is encoded or deduplicated.
KeepEmbeddings ==
  {d \in Sets : state[d] \notin {"ENCODED", "DEDUPLICATED", "APPROVED"}
                /\ encodings_with_embeddings(d) # {}}

\* The transaction commits the settings, the cleared set and its state, by the copy.
CommitSettings ==
  LET d == change.ds IN
  /\ change.pc = "read"
  /\ settings' = change.settings
  /\ \/ /\ d = None
        /\ UNCHANGED <<state, row, finding>>
        /\ Disturb(KeepEmbeddings)
     \/ /\ d # None /\ state[d] # None
        /\ Fits(d, "READY")
        /\ state' = [state EXCEPT ![d] = "READY"]
        /\ row' = WithoutEmbeddings(d)
        /\ finding' = finding \ FindingsOf(d)
        /\ Disturb((KeepEmbeddings \ {d}) \cup Partners(d))
  /\ change' = IdleChange
  /\ UNCHANGED <<upload, late, clear, run>>

\* A request that is refused by the index or dies writes nothing more; what an open
\* transaction wrote is rolled back.
RequestFails ==
  /\ \/ late # IdleLate /\ late' = IdleLate /\ UNCHANGED <<clear, change>>
     \/ clear # IdleClear /\ clear' = IdleClear /\ UNCHANGED <<late, change>>
     \/ change # IdleChange /\ change' = IdleChange /\ UNCHANGED <<late, clear>>
  /\ UNCHANGED <<state, row, finding, settings, upload, run, disturbed>>

-----------------------------------------------------------------------------
(***************************************************************************)
(* The admin site.                                                         *)
(***************************************************************************)

\* The settings form of the group: no lock, no set is cleared; refused only while a set
\* of one of these states has an embedding.
AdminSettings(s) ==
  /\ "admin_settings" \in actors
  /\ GroupIsFree
  /\ s # settings
  /\ \A d \in Sets :
       encodings_with_embeddings(d) # {} =>
         state[d] \notin {"ENCODED", "DEDUPLICATED", "APPROVED", "ENCODING_FAILED",
                          "DEDUPLICATION_FAILED"}
  /\ settings' = s
  /\ Disturb({d \in Sets : RunOf(d) \/ encodings_with_embeddings(d) # {}})
  /\ UNCHANGED <<state, row, finding, requests, run>>

\* "Clear Embeddings": from any state, a run or not, to Ready.
AdminClearEmbeddings(d) ==
  /\ "admin_clear" \in actors
  /\ state[d] # None
  /\ Fits(d, "READY")
  /\ state' = [state EXCEPT ![d] = "READY"]
  /\ row' = WithoutEmbeddings(d)
  /\ finding' = finding \ FindingsOf(d)
  /\ Disturb(Partners(d) \cup {e \in {d} : RunOf(e)})
  /\ UNCHANGED <<settings, requests, run>>

\* "Remove" of the findings: the pairs go, the set is Encoded whatever it was.
AdminRemoveFindings(d) ==
  /\ "admin_findings" \in actors
  /\ state[d] # None
  /\ Fits(d, "ENCODED")
  /\ state' = [state EXCEPT ![d] = "ENCODED"]
  /\ finding' = finding \ duplicate_findings(d)
  /\ Disturb(Partners(d) \cup {e \in {d} : state[e] \notin {"ENCODED", "DEDUPLICATED"}})
  /\ UNCHANGED <<row, settings, requests, run>>

\* "Encode": all embeddings and findings are dropped, and an encode_only run starts.
AdminEncode(d) ==
  /\ "admin_encode" \in actors
  /\ GroupIsFree
  /\ run = IdleRun
  /\ state[d] # None
  /\ Fits(d, "ENCODING_IN_PROGRESS")
  /\ state' = [state EXCEPT ![d] = "ENCODING_IN_PROGRESS"]
  /\ row' = WithoutEmbeddings(d)
  /\ finding' = finding \ FindingsOf(d)
  /\ StartRun(d, TRUE)
  /\ Disturb(Partners(d))
  /\ UNCHANGED <<settings, requests>>

\* "Deduplicate": the pairs are dropped, and a full run starts.  Of a set that was judged,
\* the cleanup may have taken the other findings, which no run writes again.
AdminDeduplicate(d) ==
  /\ "admin_deduplicate" \in actors
  /\ GroupIsFree
  /\ run = IdleRun
  /\ state[d] # None
  /\ Fits(d, "ENCODING_IN_PROGRESS")
  /\ state' = [state EXCEPT ![d] = "ENCODING_IN_PROGRESS"]
  /\ finding' = finding \ duplicate_findings(d)
  /\ StartRun(d, FALSE)
  /\ Disturb(Partners(d) \cup {e \in {d} : state[e] \in FinalStates})
  /\ UNCHANGED <<row, settings, requests>>

-----------------------------------------------------------------------------
(***************************************************************************)
(* find_duplicates on the data.                                            *)
(***************************************************************************)

\* encode_faces reads the rows it will encode; a run works with the settings it read.
ReadImages ==
  LET d == run.ds IN
  /\ run.pc = "begin"
  /\ run' = [run EXCEPT
               !.pc = "encode",
               !.config = from_deduplication_set(settings),
               !.lost = FALSE,
               !.todo = [k \in {k \in Rows(d) : NeedsEncoding(row[d][k])} |-> row[d][k]]]
  /\ UNCHANGED <<state, row, finding, settings, requests, disturbed>>

\* Mutant: get_or_create, an existing finding keeps its reason.
WithErrorFindingKept(d, k, code) ==
  IF \E f \in finding : f.ds = d /\ f.first = <<d, k>> /\ f.second = None
  THEN finding
  ELSE finding \cup {[ds |-> d, first |-> <<d, k>>, second |-> None, code |-> code,
                      config |-> as_dict(run.config)]}

\* update_or_create of the finding of an image that cannot take part.
WithErrorFinding(d, k, code) ==
  {f \in finding : ~(f.ds = d /\ f.first = <<d, k>> /\ f.second = None)}
    \cup {[ds |-> d, first |-> <<d, k>>, second |-> None, code |-> code,
           config |-> as_dict(run.config)]}

Errors == IF "storage_fails" \in actors THEN SystemErrors ELSE {}

\* One image: save(update_fields=...) leaves the filename of the row alone.  When the row
\* is gone the save raises, and the run fails.
EncodeImage(k) ==
  LET d == run.ds IN
  /\ run.pc = "encode"
  /\ k \in DOMAIN run.todo
  /\ \/ /\ run.lost
        /\ run' = [run EXCEPT !.pc = "error"]
        /\ UNCHANGED <<row, finding>>
     \/ /\ ~run.lost
        /\ \E r \in process_encoding(run.todo[k], run.config, Errors) :
             /\ row' = [row EXCEPT ![d][k] =
                          [r EXCEPT !.filename = row[d][k].filename]]
             /\ finding' = IF r.code # None THEN WithErrorFinding(d, k, r.code) ELSE finding
        /\ run' = [run EXCEPT !.todo = [j \in DOMAIN @ \ {k} |-> @[j]]]
  /\ UNCHANGED <<state, settings, requests, disturbed>>

\* set_state by the copy in memory, as in DedupEngine.
Advance(target, next) ==
  LET d == run.ds
      allowed == Allowed(run.mem, target)
      moved == allowed /\ Fits(d, target)
  IN
  /\ state' = IF moved THEN [state EXCEPT ![d] = target] ELSE state
  /\ run' = [run EXCEPT !.mem = IF allowed THEN target ELSE @,
                        !.pc = IF moved THEN next ELSE "error"]
  /\ UNCHANGED <<row, finding, settings, requests, disturbed>>

SetEncoded ==
  /\ run.pc = "encode"
  /\ run.todo = <<>>
  /\ Advance("ENCODED", IF run.encode_only THEN "done" ELSE "start_dedupe")

StartDedupe ==
  /\ run.pc = "start_dedupe"
  /\ Advance("DEDUPLICATION_IN_PROGRESS", "count")

\* The images of approved sets of the group.
Approved(d) ==
  UNION { {<<e, k>> : k \in encodings_with_embeddings(e)} :
            e \in {e \in Sets : state[e] = "APPROVED"} }

\* dedupe_all counts the embeddings of the set; with none there is nothing to do.
CountEmbeddings ==
  LET count == Cardinality(encodings_with_embeddings(run.ds)) IN
  /\ run.pc = "count"
  /\ run' = [run EXCEPT !.pc = IF count = 0 THEN "deduped" ELSE "compare", !.count = count]
  /\ UNCHANGED <<state, row, finding, settings, requests, disturbed>>

\* The elements of S in ascending order, as order_by("id") returns them.
Ascending(S) ==
  CHOOSE s \in [1..Cardinality(S) -> S] : \A i, j \in DOMAIN s : i < j => s[i] < s[j]

\* load_encodings: the images of the set in the order of their ids, then the approved.
Loaded(d) ==
  [i \in 1..Cardinality(encodings_with_embeddings(d)) |->
     <<d, Ascending(encodings_with_embeddings(d))[i]>>]
    \o SetToSeq(Approved(d))

EmbeddingOf(enc) == row[enc[1]][enc[2]].embedding

\* find_distance, find_threshold and find_confidence on two embeddings.
Confidence(a, b) == Match[EmbeddingOf(a).image][EmbeddingOf(b).image]

IsDuplicate(a, b, config) ==
  Confidence(a, b) > 0 /\ Confidence(a, b) >= config.duplicate

\* The pairs of encodings the search reports.
FoundPairs(d, config) ==
  LET all == Loaded(d)
      near == {p \in (0..(Len(all) - 1)) \X (0..(Len(all) - 1)) :
                 IsDuplicate(all[p[1] + 1], all[p[2] + 1], config)}
  IN {<<all[p[1] + 1], all[p[2] + 1]>> :
        p \in find_duplicate_pairs(Cardinality(encodings_with_embeddings(d)),
                                   Len(all), ChunkSize, near)}

\* bulk_create with update_conflicts.
WithPairs(d, pairs, config) ==
  {f \in finding : ~(f.ds = d /\ <<f.first, f.second>> \in pairs)}
    \cup {[ds |-> d, first |-> p[1], second |-> p[2], code |-> "DEDUPLICATE_SUCCESS",
           config |-> as_dict(config)] : p \in pairs}

\* The rest of dedupe_all: the rows are read by another query than the one that counted
\* them.  When they are gone by then, the matrix keeps rows nothing was written to: the
\* run fails, or reports pairs of the images it did read.
Compare ==
  LET d == run.ds IN
  /\ run.pc = "compare"
  /\ \/ /\ Cardinality(encodings_with_embeddings(d)) = run.count
        /\ finding' = WithPairs(d, FoundPairs(d, run.config), run.config)
        /\ run' = [run EXCEPT !.pc = "deduped"]
     \/ /\ Cardinality(encodings_with_embeddings(d)) # run.count
        /\ \/ /\ run' = [run EXCEPT !.pc = "error"]
              /\ UNCHANGED finding
           \/ /\ \E pairs \in SUBSET (Approved(d) \X Approved(d)) :
                   finding' = WithPairs(d, pairs, run.config)
              /\ run' = [run EXCEPT !.pc = "deduped"]
  /\ UNCHANGED <<state, row, settings, requests, disturbed>>

SetDeduplicated ==
  /\ run.pc = "deduped"
  /\ Advance("DEDUPLICATED", "done")

\* Another statement raises, or a cancellation is seen.
Raise ==
  /\ run.pc \in {"begin", "encode", "count", "compare"}
  /\ run' = [run EXCEPT !.pc = "error"]
  /\ UNCHANGED <<state, row, finding, settings, requests, disturbed>>

\* The handlers, and the finally block after them.
Fail ==
  LET target == IF run.mem = "DEDUPLICATION_IN_PROGRESS"
                THEN "DEDUPLICATION_FAILED" ELSE "ENCODING_FAILED"
  IN
  /\ run.pc = "error"
  /\ state' = IF Allowed(run.mem, target) THEN [state EXCEPT ![run.ds] = target] ELSE state
  /\ run' = IdleRun
  /\ UNCHANGED <<row, finding, settings, requests, disturbed>>

Finish ==
  /\ run.pc = "done"
  /\ run' = IdleRun
  /\ UNCHANGED <<state, row, finding, settings, requests, disturbed>>

\* The process of the run is killed, or the write of its handler fails: the set stays as
\* it is.  The lock stays too; here an administrator releases it at once.
Killed ==
  /\ "killed" \in actors
  /\ run.pc # "idle"
  /\ run' = IdleRun
  /\ UNCHANGED <<state, row, finding, settings, requests, disturbed>>

\* The worker dies and the message is delivered again: the run starts over from the rows.
\* Of a set that was Deduplicated already it encodes what a system error had stopped, and
\* then has no transition left to compare it with.
Restart ==
  /\ "restart" \in actors
  /\ run.pc \notin {"idle", "begin"}
  /\ run' = [IdleRun EXCEPT !.pc = "begin", !.ds = run.ds, !.mem = state[run.ds],
                            !.encode_only = run.encode_only]
  /\ Disturb(IF state[run.ds] = "DEDUPLICATED" THEN {run.ds} ELSE {})
  /\ UNCHANGED <<state, row, finding, settings, requests>>

-----------------------------------------------------------------------------
(***************************************************************************)
(* cleanup_redundant_data.  A set counts as old at some time after it was  *)
(* judged; no request and no run that began before is still under way.     *)
(***************************************************************************)
Old(d, verdict) ==
  /\ "cleanup" \in actors
  /\ state[d] = verdict
  /\ ~RunOf(d)
  /\ d \notin {upload.ds, late.ds, clear.ds, change.ds}

CleanupFindings(d) ==
  /\ Old(d, "APPROVED") \/ Old(d, "REJECTED")
  /\ finding' = finding \ FindingsOf(d)
  /\ UNCHANGED <<state, row, settings, requests, run, disturbed>>

CleanupEncodings(d) ==
  /\ Old(d, "REJECTED")
  /\ FindingsOf(d) = {}
  /\ row' = [row EXCEPT ![d] = [k \in Keys |-> None]]
  /\ finding' = WithoutEncodings(d)
  /\ UNCHANGED <<state, settings, requests, run, disturbed>>

CleanupSet(d) ==
  /\ Old(d, "REJECTED")
  /\ Rows(d) = {}
  /\ state' = [state EXCEPT ![d] = None]
  /\ finding' = finding \ FindingsOf(d)
  /\ disturbed' = disturbed \ {d}
  /\ UNCHANGED <<row, settings, requests, run>>

-----------------------------------------------------------------------------
RunStep ==
  \/ ReadImages \/ (\E k \in Keys : EncodeImage(k)) \/ SetEncoded \/ StartDedupe
  \/ CountEmbeddings \/ Compare \/ SetDeduplicated \/ Raise \/ Fail \/ Finish \/ Restart
  \/ Killed

Next ==
  /\ UNCHANGED actors
  /\ \/ \E d \in Sets :
          \/ Create(d) \/ BeginUpload(d) \/ Ready(d) \/ Process(d) \/ ReadClear(d)
          \/ \E endpoint \in DOMAIN Admits : BeginLate(d, endpoint)
          \/ \E verdict \in {"APPROVED", "REJECTED"} : Judge(d, verdict)
          \/ AdminClearEmbeddings(d) \/ AdminRemoveFindings(d)
          \/ AdminEncode(d) \/ AdminDeduplicate(d)
          \/ CleanupFindings(d) \/ CleanupEncodings(d) \/ CleanupSet(d)
     \/ \E s \in Configs : CheckSettings(s) \/ AdminSettings(s)
     \/ FinishUpload
     \/ DeleteEncodings \/ WriteEmpty
     \/ ReadActiveSet \/ CommitSettings
     \/ RequestFails
     \/ RunStep

Spec == Init /\ [][Next]_vars

-----------------------------------------------------------------------------
\* A set whose data was changed by its uploads and its runs only.
Settled(d) == d \notin disturbed

\* A processed set accounts for every image: it has an embedding, or a status whose
\* reason is reported as the image's only finding without a partner (encode_faces saves
\* row and finding in one transaction, and every run takes up what is not final).
EveryImageAccounted ==
  \A d \in Sets :
    (Settled(d) /\ state[d] \in {"ENCODED", "DEDUPLICATED"}) =>
      \A k \in Rows(d) :
        LET reported == {f.code : f \in {f \in FindingsOf(d) : f.first = <<d, k>>
                                                               /\ f.second = None}} IN
        \/ row[d][k].embedding # None
        \/ row[d][k].code # None /\ reported = {row[d][k].code}

\* A set that waits for its approval was compared with everything: its findings are
\* exactly the duplicates among its images and between them and all approved images,
\* by the settings in force, however often it failed, was processed again or redelivered.
FindingsAreComplete ==
  \A d \in Sets :
    (Settled(d) /\ state[d] = "DEDUPLICATED" /\ (RunOf(d) => run.pc = "done")) =>
      LET own == {<<d, k>> : k \in encodings_with_embeddings(d)} IN
      /\ {<<f.first, f.second>> : f \in duplicate_findings(d)}
           = {p \in own \X (own \cup Approved(d)) :
                /\ p[1][1] = p[2][1] => p[1][2] < p[2][2]
                /\ IsDuplicate(p[1], p[2], from_deduplication_set(settings))}
      /\ \A f \in duplicate_findings(d) : f.config = settings

\* Whatever is compared with a set was made the same way: its embeddings and those of
\* the approved sets come from the settings in force and from the image the row names.
EmbeddingsAreComparable ==
  \A d \in Sets :
    (Settled(d) /\ state[d] \in {"ENCODED", "DEDUPLICATED", "APPROVED"}) =>
      \A k \in encodings_with_embeddings(d) :
        row[d][k].embedding = [image |-> row[d][k].filename, settings |-> settings]

\* The findings without a partner name images that could not take part.
ErrorsAreCurrent ==
  \A f \in finding :
    f.second = None /\ state[f.ds] = "DEDUPLICATED" =>
      row[f.first[1]][f.first[2]].embedding = None

\* Reference data stays: no step takes an embedding from an approved set that stays
\* approved (cleanup deletes only its findings, clear and settings changes refuse it), but
\* for a clear request that had read the set before it was approved.
ReferenceDataStays ==
  [][\A d \in Sets :
       (state[d] = "APPROVED" /\ state'[d] = "APPROVED"
          /\ ~(clear.ds = d /\ clear.seen # "APPROVED")) =>
         \A k \in encodings_with_embeddings(d) :
           row'[d][k] # None /\ row'[d][k].embedding = row[d][k].embedding]_vars
================================================================================
